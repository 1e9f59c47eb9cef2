----------------------------- MODULE TonePlayer -----------------------------
(***************************************************************************)
(* applications/app_lckfb/src/es8311_test.c: three tones in turn, computed *)
(* block by block in buffers of a memory slab and handed to the I2S driver,*)
(* which transmits them and gives each buffer back to the slab from its    *)
(* interrupt.  A block is 100 ms of samples and the phase counts 16000     *)
(* samples, so that it is always a multiple of a block's 1600: it is       *)
(* counted in blocks here.                                                 *)
(*                                                                         *)
(* The I2S driver is not part of the repository: it plays a queue in order *)
(* and is in error for good when the queue is empty at the end of a block. *)
(***************************************************************************)
EXTENDS Naturals, Sequences

CONSTANTS
    ToneBlocks,       \* the buffers of tx_mem_slab
    BlocksPerTone     \* blocks_per_tone

NoBlock == "none"
ASSUME ToneAssumption ==
    NoBlock \notin ToneBlocks /\ BlocksPerTone \in Nat \ {0}

SAMPLE_FREQUENCY == 16000
SamplesInBlock == 1600              \* num_samples / NUMBER_OF_CHANNELS
PhaseBlocks == 10                   \* blocks in SAMPLE_FREQUENCY samples
tone_frequencies == <<440, 880, 1320>>

Contents == [tone : 1..3, phase : 0..PhaseBlocks - 1]
Nothing == [tone |-> 0, phase |-> 0]   \* a link of the slab's free list

VARIABLES
    player,             \* what main() does next
    filled,             \* the counter of the loop that fills the queue: i
    tx_mem_slab,        \* the free buffers
    mem_block,
    block,              \* what is in each buffer
    phase,              \* in blocks
    current_freq_idx,   \* counted from 1
    block_count,        \* modulo BlocksPerTone: nothing else of it is used
    i2s,                \* state of the I2S driver
    i2s_queue,
    i2s_dma,            \* the buffer that is being transmitted
    played,             \* blocks transmitted, as PlayedIndex counts them
    in_time,            \* main() computes a block faster than one is played
    wrote               \* it has written one since the last was played

slabVars == <<tx_mem_slab, mem_block>>
composerVars == <<block, phase, current_freq_idx, block_count>>
i2sVars == <<i2s, i2s_queue, i2s_dma, played>>
toneVars == <<player, filled, slabVars, composerVars, i2sVars, in_time, wrote>>

\* The first tone starts with the two blocks that are not counted; from the
\* second on the blocks repeat, and so do their indices.
FirstTone == 2 + BlocksPerTone
PlayedIndex(n) == IF n = FirstTone + 3 * BlocksPerTone THEN FirstTone ELSE n

ToneTypeOK ==
    /\ player \in {"setup", "alloc", "generate", "write", "trigger", "sleep", "returned"}
    /\ filled \in 0..2
    /\ tx_mem_slab \subseteq ToneBlocks /\ mem_block \in ToneBlocks \cup {NoBlock}
    /\ block \in [ToneBlocks -> Contents \cup {Nothing}]
    /\ phase \in 0..PhaseBlocks - 1 /\ current_freq_idx \in 1..3
    /\ block_count \in 0..BlocksPerTone - 1
    /\ i2s \in {"down", "ready", "running", "error"}
    /\ i2s_queue \in Seq(ToneBlocks) /\ i2s_dma \in ToneBlocks \cup {NoBlock}
    /\ played \in 0..(FirstTone + 3 * BlocksPerTone - 1)
    /\ in_time \in BOOLEAN /\ wrote \in BOOLEAN

ToneInit ==
    /\ player = "setup" /\ filled = 0
    /\ tx_mem_slab = ToneBlocks /\ mem_block = NoBlock
    /\ block = [b \in ToneBlocks |-> Nothing]
    /\ phase = 0 /\ current_freq_idx = 1 /\ block_count = 0
    /\ i2s = "down" /\ i2s_queue = <<>> /\ i2s_dma = NoBlock
    /\ played = 0 /\ in_time = FALSE /\ wrote = FALSE

Player(from, to) == player = from /\ player' = to

\* k_mem_slab_free() writes the slab's list over the buffer.
SlabFree(b) ==
    /\ tx_mem_slab' = tx_mem_slab \cup {b}
    /\ block' = [block EXCEPT ![b] = Nothing]
-----------------------------------------------------------------------------
(* main() *)

\* The amplifier's pin, the codec (module Es8311) and i2s_configure(); what
\* the codec's properties return is not looked at.
Setup ==
    /\ \/ Player("setup", "alloc") /\ i2s' = "ready"
       \/ Player("setup", "returned") /\ UNCHANGED i2s
    /\ in_time' \in BOOLEAN
    /\ UNCHANGED <<filled, slabVars, composerVars, i2s_queue, i2s_dma, played, wrote>>

\* k_mem_slab_alloc(): any free buffer.  The wait of 1 s is longer than the
\* 100 ms of a block: while blocks are played in time it ends with a buffer.
Alloc ==
    /\ Player("alloc", "generate")
    /\ \E b \in tx_mem_slab : mem_block' = b /\ tx_mem_slab' = tx_mem_slab \ {b}
    /\ UNCHANGED <<filled, composerVars, i2sVars, in_time, wrote>>

AllocTimesOut ==
    /\ tx_mem_slab = {} /\ (in_time => i2s # "running")
    /\ Player("alloc", IF filled < 2 THEN "returned" ELSE "sleep")
    /\ UNCHANGED <<filled, slabVars, composerVars, i2sVars, in_time, wrote>>

\* generate_tone(): the loop's tone_frequencies[0] is current_freq_idx too.
Generate ==
    /\ Player("generate", "write")
    /\ block' = [block EXCEPT ![mem_block] = [tone |-> current_freq_idx, phase |-> phase]]
    /\ phase' = (phase + 1) % PhaseBlocks
    /\ UNCHANGED <<filled, slabVars, current_freq_idx, block_count, i2sVars, in_time, wrote>>

\* Mutant of CountBlock: the count is looked at before it is advanced, and the
\* tone changes a block late.
LateChange ==
    /\ block_count' = (block_count + 1) % BlocksPerTone
    /\ IF block_count = 0
       THEN current_freq_idx' = (current_freq_idx % 3) + 1 /\ phase' = 0
       ELSE UNCHANGED <<current_freq_idx, phase>>

\* Mutant of CountBlock: the third tone is left out.
TwoTones ==
    /\ block_count' = (block_count + 1) % BlocksPerTone
    /\ IF block_count' = 0
       THEN current_freq_idx' = (current_freq_idx % 2) + 1 /\ phase' = 0
       ELSE UNCHANGED <<current_freq_idx, phase>>

\* The counter of the main loop and the change of tone.
CountBlock ==
    /\ block_count' = (block_count + 1) % BlocksPerTone
    /\ IF block_count' = 0
       THEN current_freq_idx' = (current_freq_idx % 3) + 1 /\ phase' = 0
       ELSE UNCHANGED <<current_freq_idx, phase>>

\* i2s_write() takes the buffer.
Write ==
    /\ i2s \in {"ready", "running"}
    /\ i2s_queue' = Append(i2s_queue, mem_block) /\ mem_block' = NoBlock
    /\ \/ /\ filled < 2
          /\ Player("write", IF filled = 1 THEN "trigger" ELSE "alloc")
          /\ filled' = filled + 1
          /\ UNCHANGED <<current_freq_idx, phase, block_count>>
       \/ /\ filled = 2
          /\ Player("write", "alloc")
          /\ CountBlock /\ UNCHANGED filled
    /\ wrote' = TRUE
    /\ UNCHANGED <<tx_mem_slab, block, i2s, i2s_dma, played, in_time>>

\* Mutant of WriteFails: the buffer is not freed.
KeepOnFailure ==
    /\ i2s # "running"
    /\ Player("write", IF filled < 2 THEN "returned" ELSE "sleep")
    /\ mem_block' = NoBlock
    /\ UNCHANGED <<tx_mem_slab, filled, composerVars, i2sVars, in_time, wrote>>

\* i2s_write() fails: always in error; while it is filled the driver may
\* refuse for a reason of its own.
WriteFails ==
    /\ i2s # "running"
    /\ Player("write", IF filled < 2 THEN "returned" ELSE "sleep")
    /\ SlabFree(mem_block) /\ mem_block' = NoBlock
    /\ UNCHANGED <<filled, phase, current_freq_idx, block_count, i2sVars, in_time, wrote>>

\* i2s_trigger(): transmission starts with the first block of the queue.
Trigger ==
    /\ \/ /\ Player("trigger", "alloc")
          /\ i2s' = "running"
          /\ i2s_dma' = Head(i2s_queue) /\ i2s_queue' = Tail(i2s_queue)
       \/ /\ Player("trigger", "returned")
          /\ UNCHANGED <<i2s, i2s_dma, i2s_queue>>
    /\ wrote' = FALSE
    /\ UNCHANGED <<filled, slabVars, composerVars, played, in_time>>

\* k_sleep() of 100 ms.
Sleep ==
    /\ Player("sleep", "alloc")
    /\ UNCHANGED <<filled, slabVars, composerVars, i2sVars, in_time, wrote>>
-----------------------------------------------------------------------------
(* The I2S driver's interrupt at the end of a block *)

\* From one end to the next there is a buffer for main(), at the latest the one
\* that the first end frees; a player that is in time has written it by the
\* second.  Only before the first end the slab may leave it nothing to write.
BlockPlayed ==
    /\ i2s = "running"
    /\ in_time => wrote \/ (player = "alloc" /\ tx_mem_slab = {})
    /\ wrote' = FALSE
    /\ SlabFree(i2s_dma)
    /\ played' = PlayedIndex(played + 1)
    /\ IF i2s_queue = <<>>
       THEN i2s' = "error" /\ i2s_dma' = NoBlock /\ UNCHANGED i2s_queue
       ELSE i2s_dma' = Head(i2s_queue) /\ i2s_queue' = Tail(i2s_queue) /\ UNCHANGED i2s
    /\ UNCHANGED <<player, filled, mem_block, phase, current_freq_idx, block_count, in_time>>

ToneMain == Setup \/ Alloc \/ AllocTimesOut \/ Generate \/ Write \/ WriteFails \/ Trigger \/ Sleep

ToneNext == ToneMain \/ BlockPlayed

ToneSpec == ToneInit /\ [][ToneNext]_toneVars
-----------------------------------------------------------------------------
(* Properties *)

\* Every buffer of the slab is in one place, and none is lost: free, in the
\* hands of main(), once in the queue or being transmitted.  A buffer freed
\* twice would be computed anew while it is played, a lost one starves main().
InQueue(b) == \E i \in 1..Len(i2s_queue) : i2s_queue[i] = b

BlocksInOnePlace ==
    /\ \A i, j \in 1..Len(i2s_queue) : i2s_queue[i] = i2s_queue[j] => i = j
    /\ \A b \in ToneBlocks : b \in tx_mem_slab <=> ~(b = mem_block \/ b = i2s_dma \/ InQueue(b))
    /\ mem_block # NoBlock => mem_block # i2s_dma /\ ~InQueue(mem_block)
    /\ i2s_dma # NoBlock => ~InQueue(i2s_dma)

\* The block that is played is the one the composition has at this place: two
\* blocks to begin with, then BlocksPerTone of each tone, every tone after the
\* first from phase 0 and each block from where the one before ended.  It holds
\* for what is transmitted, after whatever the driver and main() did meanwhile.
Composed(n) ==
    IF n < FirstTone THEN [tone |-> 1, phase |-> n % PhaseBlocks]
    ELSE LET m == n - 2
         IN  [tone |-> 1 + ((m \div BlocksPerTone) % 3),
              phase |-> (m % BlocksPerTone) % PhaseBlocks]

PlayedAsComposed == i2s_dma # NoBlock => block[i2s_dma] = Composed(played)

\* When main() is fast enough the driver never runs dry and every tone is heard
\* again and again.
PlaysEveryTone ==
    \A t \in 1..3 :
        in_time /\ i2s = "running" ~> i2s_dma # NoBlock /\ block[i2s_dma].tone = t

-----------------------------------------------------------------------------
(* generate_tone()'s samples *)

\* (*phase * frequency * 360) / SAMPLE_FREQUENCY, % 360, on 32 bits: 360 is
\* 8 * 45 and the factor 8 is taken out of both sides of the remainder.
Wrap == 536870912   \* 2^29

Angle(p, f) == (((p * f * 45) % Wrap) \div 2000) % 360

TrueAngle(p, f) == ((p * f * 9) \div 400) % 360

RightContents ==
    {c \in Contents :
        \A s \in 0..SamplesInBlock - 1 :
            LET p == c.phase * SamplesInBlock + s
                f == tone_frequencies[c.tone]
            IN  Angle(p, f) = TrueAngle(p, f)}

\* Every block played is a sine of its tone's frequency, as the comments of
\* generate_tone() and of the frequencies say.
ToneHasItsPitch == i2s_dma # NoBlock => block[i2s_dma] \in RightContents
==============================================================================
