--------------------------- MODULE TonePlayerProofs ---------------------------
(***************************************************************************)
(* For every slab and every length of a tone: no buffer of the tone player *)
(* is ever lost, freed twice or in two places; what is transmitted is the  *)
(* composition, block by block; and two buffers are enough for a player    *)
(* that is fast enough.                                                    *)
(***************************************************************************)
EXTENDS TonePlayer, SequenceTheorems, TLAPS

\* Where main() and the driver are together: main() holds a buffer exactly
\* between the allocation and the write, the driver one exactly while it runs.
PlayerPlace ==
    /\ mem_block \in ToneBlocks <=> player \in {"generate", "write"}
    /\ i2s_dma \in ToneBlocks <=> i2s = "running"
    /\ i2s \in {"running", "error"} => filled = 2 /\ player # "trigger"
    /\ player = "trigger" => Len(i2s_queue) = 2
    /\ i2s \in {"down", "ready"} =>
          Len(i2s_queue) = filled /\ (filled = 2 => player \in {"trigger", "returned"})
    /\ player = "setup" => i2s = "down" /\ filled = 0

ToneInv == ToneTypeOK /\ PlayerPlace /\ BlocksInOnePlace

LEMMA PlayedInRange ==
    ASSUME NEW n \in 0..(FirstTone + 3 * BlocksPerTone - 1)
    PROVE  PlayedIndex(n + 1) \in 0..(FirstTone + 3 * BlocksPerTone - 1)
BY ToneAssumption DEF FirstTone, PlayedIndex

\* The phase, the tone and the counter stay in their ranges.
LEMMA NextPhase ==
    ASSUME NEW p \in 0..PhaseBlocks - 1
    PROVE  (p + 1) % PhaseBlocks \in 0..PhaseBlocks - 1
BY DEF PhaseBlocks

LEMMA NextCount ==
    ASSUME NEW c \in 0..BlocksPerTone - 1
    PROVE  (c + 1) % BlocksPerTone \in 0..BlocksPerTone - 1
BY ToneAssumption

LEMMA EmptyPlayer ==
    ASSUME i2s_queue \in Seq(ToneBlocks), Len(i2s_queue) = 0,
           player = "setup", filled = 0, i2s = "down",
           tx_mem_slab = ToneBlocks, mem_block = NoBlock, i2s_dma = NoBlock
    PROVE  PlayerPlace /\ BlocksInOnePlace
<1>1. PlayerPlace
  BY ToneAssumption DEF PlayerPlace
<1>2. 1..Len(i2s_queue) = {}
  OBVIOUS
<1>3. \A b : ~InQueue(b)
  BY <1>2 DEF InQueue
<1>4. BlocksInOnePlace
  BY <1>2, <1>3, ToneAssumption DEF BlocksInOnePlace
<1> QED
  BY <1>1, <1>4

LEMMA ToneTypedInitially == ToneInit => ToneTypeOK
<1> SUFFICES ASSUME ToneInit PROVE ToneTypeOK
  OBVIOUS
<1>1. 0 \in 0..BlocksPerTone - 1 /\ 0 \in 0..(FirstTone + 3 * BlocksPerTone - 1)
  BY ToneAssumption DEF FirstTone
<1>2. block \in [ToneBlocks -> Contents \cup {Nothing}] /\ i2s_queue \in Seq(ToneBlocks)
  BY EmptySeq DEF ToneInit
<1>3. /\ player = "setup" /\ filled = 0 /\ i2s = "down" /\ in_time = FALSE /\ wrote = FALSE
      /\ tx_mem_slab = ToneBlocks /\ mem_block = NoBlock /\ i2s_dma = NoBlock
      /\ phase = 0 /\ current_freq_idx = 1 /\ block_count = 0 /\ played = 0
  BY DEF ToneInit
<1> HIDE DEF ToneInit
<1>4. phase \in 0..PhaseBlocks - 1 /\ current_freq_idx \in 1..3 /\ filled \in 0..2
  BY <1>3 DEF PhaseBlocks
<1> QED
  BY <1>1, <1>2, <1>3, <1>4 DEF ToneTypeOK

LEMMA ToneInitially == ToneInit => ToneInv
<1> SUFFICES ASSUME ToneInit PROVE ToneInv
  OBVIOUS
<1>1. i2s_queue \in Seq(ToneBlocks) /\ Len(i2s_queue) = 0
  BY EmptySeq DEF ToneInit
<1>2. PlayerPlace /\ BlocksInOnePlace
  BY <1>1, EmptyPlayer DEF ToneInit
<1> QED
  BY <1>2, ToneTypedInitially DEF ToneInv

\* What the queue's two operations do to it.
LEMMA QueueGrows ==
    ASSUME ToneInv, i2s_queue' = Append(i2s_queue, mem_block), mem_block \in ToneBlocks
    PROVE  /\ i2s_queue' \in Seq(ToneBlocks)
           /\ Len(i2s_queue) \in Nat /\ Len(i2s_queue') = Len(i2s_queue) + 1
           /\ \A i \in 1..Len(i2s_queue) : i2s_queue'[i] = i2s_queue[i]
           /\ i2s_queue'[Len(i2s_queue) + 1] = mem_block
<1>1. i2s_queue \in Seq(ToneBlocks)
  BY DEF ToneInv, ToneTypeOK
<1> QED
  BY <1>1, AppendProperties, LenProperties

LEMMA QueueShrinks ==
    ASSUME ToneInv, i2s_queue # <<>>, i2s_queue' = Tail(i2s_queue), i2s_dma' = Head(i2s_queue)
    PROVE  /\ i2s_queue' \in Seq(ToneBlocks)
           /\ Len(i2s_queue) \in Nat \ {0} /\ Len(i2s_queue') = Len(i2s_queue) - 1
           /\ \A i \in 1..Len(i2s_queue') : i2s_queue'[i] = i2s_queue[i + 1]
           /\ i2s_dma' = i2s_queue[1] /\ i2s_dma' \in ToneBlocks
<1>1. i2s_queue \in Seq(ToneBlocks)
  BY DEF ToneInv, ToneTypeOK
<1>2. i2s_dma' = i2s_queue[1]
  BY <1>1
<1> QED
  BY <1>1, <1>2, HeadTailProperties, EmptySeq

\* Every step keeps the types.
LEMMA ToneTyped == ToneInv /\ [ToneNext]_toneVars => ToneTypeOK'
<1> SUFFICES ASSUME ToneInv, [ToneNext]_toneVars
             PROVE  ToneTypeOK'
  OBVIOUS
<1>0. ToneTypeOK
  BY DEF ToneInv
<1> USE <1>0 DEF Player
<1>1. CASE Setup
  BY <1>1 DEF Setup, ToneTypeOK, slabVars, composerVars
<1>2. CASE Alloc
  BY <1>2 DEF Alloc, ToneTypeOK, composerVars, i2sVars
<1>3. CASE AllocTimesOut
  BY <1>3 DEF AllocTimesOut, ToneTypeOK, slabVars, composerVars, i2sVars
<1>4. CASE Generate
  BY <1>4, NextPhase DEF Generate, ToneTypeOK, Contents, slabVars, i2sVars
<1>5. CASE Write
  <2>1. mem_block \in ToneBlocks /\ i2s_queue' = Append(i2s_queue, mem_block)
    BY <1>5 DEF Write, ToneInv, PlayerPlace
  <2>2. i2s_queue' \in Seq(ToneBlocks)
    BY <2>1, QueueGrows
  <2>3. block_count' \in 0..BlocksPerTone - 1 /\ phase' \in 0..PhaseBlocks - 1 /\ current_freq_idx' \in 1..3
    <3>1. /\ block_count \in 0..BlocksPerTone - 1 /\ phase \in 0..PhaseBlocks - 1
          /\ current_freq_idx \in 1..3
      BY DEF ToneTypeOK
    <3> HIDE <1>0
    <3> QED
      <4>1. CASE UNCHANGED <<current_freq_idx, phase, block_count>>
        BY <3>1, <4>1
      <4>2. CASE CountBlock
        <5>1. block_count' \in 0..BlocksPerTone - 1
          BY <3>1, <4>2, NextCount DEF CountBlock
        <5>2. phase' \in {0, phase} /\ current_freq_idx' \in {current_freq_idx, (current_freq_idx % 3) + 1}
          BY <4>2 DEF CountBlock
        <5> QED
          BY <3>1, <5>1, <5>2 DEF PhaseBlocks
      <4> QED
        BY <1>5, <4>1, <4>2 DEF Write
  <2>4. player' \in {"alloc", "trigger"} /\ filled' \in 0..2
    <3>1. filled \in 0..2
      BY DEF ToneTypeOK
    <3> HIDE <1>0
    <3> QED
      BY <1>5, <3>1 DEF Write
  <2>5. mem_block' = NoBlock /\ wrote' = TRUE
          /\ UNCHANGED <<tx_mem_slab, block, i2s, i2s_dma, played, in_time>>
    BY <1>5 DEF Write
  <2> QED
    BY <2>2, <2>3, <2>4, <2>5 DEF ToneTypeOK
<1>6. CASE WriteFails
  BY <1>6 DEF WriteFails, SlabFree, ToneTypeOK, ToneInv, PlayerPlace, i2sVars
<1>7. CASE Trigger
  <2>1. CASE player' = "returned"
    BY <1>7, <2>1 DEF Trigger, ToneTypeOK, slabVars, composerVars
  <2>2. CASE player' # "returned"
    <3>1. i2s_queue # <<>> /\ i2s_queue' = Tail(i2s_queue) /\ i2s_dma' = Head(i2s_queue)
      <4>1. Len(i2s_queue) = 2
        BY <1>7 DEF Trigger, ToneInv, PlayerPlace
      <4> QED
        BY <1>7, <2>2, <4>1, EmptySeq DEF Trigger
    <3>2. player' = "alloc" /\ i2s' = "running"
      BY <1>7, <2>2 DEF Trigger
    <3> QED
      BY <1>7, <3>1, <3>2, QueueShrinks DEF Trigger, ToneTypeOK, slabVars, composerVars
  <2> QED
    BY <2>1, <2>2
<1>8. CASE Sleep
  BY <1>8 DEF Sleep, ToneTypeOK, slabVars, composerVars, i2sVars
<1>9. CASE BlockPlayed
  <2>1. /\ i2s_queue' \in Seq(ToneBlocks) /\ i2s_dma' \in ToneBlocks \cup {NoBlock}
        /\ i2s' \in {"running", "error"}
    <3>1. CASE i2s_queue = <<>>
      BY <1>9, <3>1 DEF BlockPlayed, ToneTypeOK
    <3>2. CASE i2s_queue # <<>>
      BY <1>9, <3>2, QueueShrinks DEF BlockPlayed
    <3> QED
      BY <3>1, <3>2
  <2>2. played' \in 0..(FirstTone + 3 * BlocksPerTone - 1)
    BY <1>9, PlayedInRange DEF BlockPlayed, ToneTypeOK
  <2>3. tx_mem_slab' \subseteq ToneBlocks /\ block' \in [ToneBlocks -> Contents \cup {Nothing}]
    BY <1>9 DEF BlockPlayed, SlabFree, ToneTypeOK, ToneInv, PlayerPlace
  <2> QED
    BY <1>9, <2>1, <2>2, <2>3 DEF BlockPlayed, ToneTypeOK
<1>10. CASE UNCHANGED toneVars
  BY <1>10 DEF toneVars, ToneTypeOK, slabVars, composerVars, i2sVars
<1> QED
  BY <1>1, <1>2, <1>3, <1>4, <1>5, <1>6, <1>7, <1>8, <1>9, <1>10 DEF ToneNext, ToneMain

\* Every step keeps main() and the driver together.
LEMMA TonePlaced == ToneInv /\ [ToneNext]_toneVars => PlayerPlace'
<1> SUFFICES ASSUME ToneInv, [ToneNext]_toneVars
             PROVE  PlayerPlace'
  OBVIOUS
<1>0. PlayerPlace /\ mem_block \in ToneBlocks \cup {NoBlock} /\ filled \in 0..2
  BY DEF ToneInv, ToneTypeOK
<1> USE <1>0, ToneAssumption DEF Player
<1>1. CASE Setup
  BY <1>1 DEF Setup, PlayerPlace, slabVars
<1>2. CASE Alloc
  BY <1>2 DEF Alloc, PlayerPlace, i2sVars, ToneInv, ToneTypeOK
<1>3. CASE AllocTimesOut
  BY <1>3 DEF AllocTimesOut, PlayerPlace, slabVars, i2sVars
<1>4. CASE Generate
  BY <1>4 DEF Generate, PlayerPlace, slabVars, i2sVars
<1>5. CASE Write
  <2>1. Len(i2s_queue') = Len(i2s_queue) + 1
    BY <1>5, QueueGrows DEF Write, PlayerPlace
  <2>2. /\ mem_block' = NoBlock /\ UNCHANGED <<i2s, i2s_dma>> /\ i2s \in {"ready", "running"}
        /\ \/ filled < 2 /\ filled' = filled + 1 /\ player' = IF filled = 1 THEN "trigger" ELSE "alloc"
           \/ filled = 2 /\ filled' = 2 /\ player' = "alloc"
        /\ player = "write"
    BY <1>5 DEF Write
  <2>3. Len(i2s_queue) \in Nat
    BY LenProperties DEF ToneInv, ToneTypeOK
  <2>6. filled \in 0..2
    BY <1>0
  <2>4. CASE filled < 2
    <3>1. i2s = "ready" /\ Len(i2s_queue) = filled /\ ~(i2s_dma \in ToneBlocks)
      BY <1>0, <2>2, <2>4 DEF PlayerPlace
    <3>2. /\ filled' = filled + 1 /\ Len(i2s_queue') = filled'
          /\ player' = IF filled' = 2 THEN "trigger" ELSE "alloc"
      BY <2>1, <2>2, <2>4, <2>6, <3>1
    <3> QED
      BY <2>2, <3>1, <3>2, ToneAssumption DEF PlayerPlace
  <2>5. CASE filled = 2
    <3>1. i2s = "running" /\ i2s_dma \in ToneBlocks
      BY <1>0, <2>2, <2>5 DEF PlayerPlace
    <3>2. filled' = 2 /\ player' = "alloc"
      BY <2>2, <2>5
    <3> QED
      BY <2>2, <3>1, <3>2, ToneAssumption DEF PlayerPlace
  <2> QED
    BY <2>4, <2>5, <2>6
<1>6. CASE WriteFails
  BY <1>6 DEF WriteFails, PlayerPlace, i2sVars
<1>7. CASE Trigger
  <2>1. CASE player' = "returned"
    BY <1>7, <2>1 DEF Trigger, PlayerPlace, slabVars
  <2>2. CASE player' # "returned"
    <3>1. i2s_queue # <<>> /\ i2s_queue' = Tail(i2s_queue) /\ i2s_dma' = Head(i2s_queue)
      <4>1. Len(i2s_queue) = 2
        BY <1>7 DEF Trigger, PlayerPlace
      <4> QED
        BY <1>7, <2>2, <4>1, EmptySeq DEF Trigger
    <3>2. /\ player = "trigger" /\ player' = "alloc" /\ i2s' = "running"
          /\ UNCHANGED <<mem_block, filled>>
      BY <1>7, <2>2 DEF Trigger, slabVars
    <3>3. i2s_dma' \in ToneBlocks
      BY <3>1, QueueShrinks
    <3>4. filled = 2
      BY <3>2, QueueShrinks DEF PlayerPlace, ToneInv, ToneTypeOK
    <3> QED
      BY <3>2, <3>3, <3>4 DEF PlayerPlace
  <2> QED
    BY <2>1, <2>2
<1>8. CASE Sleep
  BY <1>8 DEF Sleep, PlayerPlace, slabVars, i2sVars
<1>9. CASE BlockPlayed
  <2>1. i2s = "running" /\ UNCHANGED <<player, filled, mem_block>>
    BY <1>9 DEF BlockPlayed
  <2>2. \/ i2s' = "error" /\ i2s_dma' = NoBlock
        \/ i2s' = "running" /\ i2s_dma' \in ToneBlocks
    <3>1. CASE i2s_queue = <<>>
      BY <1>9, <3>1 DEF BlockPlayed
    <3>2. CASE i2s_queue # <<>>
      BY <1>9, <3>2, QueueShrinks DEF BlockPlayed
    <3> QED
      BY <3>1, <3>2
  <2> QED
    BY <2>1, <2>2 DEF PlayerPlace
<1>10. CASE UNCHANGED toneVars
  BY <1>10 DEF toneVars, PlayerPlace, slabVars, i2sVars
<1> QED
  BY <1>1, <1>2, <1>3, <1>4, <1>5, <1>6, <1>7, <1>8, <1>9, <1>10 DEF ToneNext, ToneMain

\* A step that leaves the queue, the slab and both holders alone keeps them so.
LEMMA NothingMoves ==
    ASSUME ToneInv, UNCHANGED <<tx_mem_slab, mem_block, i2s_queue, i2s_dma>>
    PROVE  BlocksInOnePlace'
BY DEF ToneInv, BlocksInOnePlace, InQueue

\* The head of the queue moves into the driver's hands; what the driver had, if
\* anything, is freed.
LEMMA HeadMoves ==
    ASSUME ToneInv, i2s_queue # <<>>, i2s_queue' = Tail(i2s_queue), i2s_dma' = Head(i2s_queue),
           UNCHANGED mem_block,
           \/ i2s_dma \in ToneBlocks /\ tx_mem_slab' = tx_mem_slab \cup {i2s_dma}
           \/ i2s_dma = NoBlock /\ UNCHANGED tx_mem_slab
    PROVE  BlocksInOnePlace'
<1>1. /\ Len(i2s_queue) \in Nat \ {0} /\ Len(i2s_queue') = Len(i2s_queue) - 1
      /\ \A i \in 1..Len(i2s_queue') : i2s_queue'[i] = i2s_queue[i + 1]
      /\ i2s_dma' = i2s_queue[1] /\ i2s_dma' \in ToneBlocks
  BY QueueShrinks
<1>2. \A b : InQueue(b) <=> InQueue(b)' \/ b = i2s_dma'
  <2>1. ASSUME NEW i \in 1..Len(i2s_queue), i # 1
        PROVE  i - 1 \in 1..Len(i2s_queue') /\ i2s_queue[i] = i2s_queue'[i - 1]
    BY <1>1, <2>1
  <2>2. ASSUME NEW b, InQueue(b) PROVE InQueue(b)' \/ b = i2s_dma'
    BY <1>1, <2>1, <2>2 DEF InQueue
  <2>3. ASSUME NEW b, InQueue(b)' \/ b = i2s_dma' PROVE InQueue(b)
    BY <1>1, <2>3 DEF InQueue
  <2> QED
    BY <2>2, <2>3
<1>3. \A i, j \in 1..Len(i2s_queue) : i2s_queue[i] = i2s_queue[j] => i = j
  BY DEF ToneInv, BlocksInOnePlace
<1>4. \A i \in 1..Len(i2s_queue') : i2s_queue'[i] # i2s_dma'
  BY <1>1, <1>3
<1>5. \A i, j \in 1..Len(i2s_queue') : i2s_queue'[i] = i2s_queue'[j] => i = j
  BY <1>1, <1>3
<1>6. ~InQueue(i2s_dma)'
  BY <1>4 DEF InQueue
<1>7. /\ \A b \in ToneBlocks : b \in tx_mem_slab <=> ~(b = mem_block \/ b = i2s_dma \/ InQueue(b))
      /\ mem_block # NoBlock => mem_block # i2s_dma /\ ~InQueue(mem_block)
      /\ i2s_dma # NoBlock => ~InQueue(i2s_dma)
  BY DEF ToneInv, BlocksInOnePlace
<1>8. \A b \in ToneBlocks : b \in tx_mem_slab' <=> ~(b = mem_block \/ b = i2s_dma' \/ InQueue(b)')
  BY <1>2, <1>7, ToneAssumption
<1>9. mem_block # NoBlock => mem_block # i2s_dma' /\ ~InQueue(mem_block)'
  BY <1>2, <1>7
<1> QED
  BY <1>5, <1>6, <1>8, <1>9 DEF BlocksInOnePlace

\* Every step keeps every buffer in one place.
LEMMA ToneConserves == ToneInv /\ [ToneNext]_toneVars => BlocksInOnePlace'
<1> SUFFICES ASSUME ToneInv, [ToneNext]_toneVars
             PROVE  BlocksInOnePlace'
  OBVIOUS
<1> USE ToneAssumption DEF Player
<1>1. CASE Setup \/ AllocTimesOut \/ Generate \/ Sleep \/ UNCHANGED toneVars
  BY <1>1, NothingMoves
     DEF Setup, AllocTimesOut, Generate, Sleep, toneVars, slabVars, i2sVars
<1>2. CASE Alloc
  <2>1. PICK b \in tx_mem_slab : mem_block' = b /\ tx_mem_slab' = tx_mem_slab \ {b}
    BY <1>2 DEF Alloc
  <2>2. mem_block = NoBlock /\ b \in ToneBlocks /\ UNCHANGED <<i2s_queue, i2s_dma>>
    BY <1>2 DEF Alloc, i2sVars, ToneInv, ToneTypeOK, PlayerPlace
  <2> QED
    BY <2>1, <2>2 DEF ToneInv, BlocksInOnePlace, InQueue
<1>3. CASE Write
  <2>1. mem_block \in ToneBlocks /\ i2s_queue' = Append(i2s_queue, mem_block)
    BY <1>3 DEF Write, ToneInv, PlayerPlace
  <2>2. /\ Len(i2s_queue) \in Nat /\ Len(i2s_queue') = Len(i2s_queue) + 1
        /\ \A i \in 1..Len(i2s_queue) : i2s_queue'[i] = i2s_queue[i]
        /\ i2s_queue'[Len(i2s_queue) + 1] = mem_block
    BY <2>1, QueueGrows
  <2>3. mem_block' = NoBlock /\ UNCHANGED <<tx_mem_slab, i2s_dma>>
    BY <1>3 DEF Write
  <2>4. \A b : InQueue(b)' <=> InQueue(b) \/ b = mem_block
    BY <2>2 DEF InQueue
  <2>5. \A i, j \in 1..Len(i2s_queue') : i2s_queue'[i] = i2s_queue'[j] => i = j
    <3>1. \A i \in 1..Len(i2s_queue') : i \in 1..Len(i2s_queue) \/ i = Len(i2s_queue) + 1
      BY <2>2
    <3>2. /\ \A i, j \in 1..Len(i2s_queue) : i2s_queue[i] = i2s_queue[j] => i = j
          /\ \A i \in 1..Len(i2s_queue) : i2s_queue[i] # mem_block
      BY <2>1 DEF ToneInv, BlocksInOnePlace, InQueue
    <3> QED
      BY <2>2, <3>1, <3>2
  <2> QED
    BY <2>1, <2>3, <2>4, <2>5 DEF ToneInv, BlocksInOnePlace
<1>4. CASE WriteFails
  <2>1. /\ mem_block \in ToneBlocks /\ mem_block' = NoBlock
        /\ tx_mem_slab' = tx_mem_slab \cup {mem_block} /\ UNCHANGED <<i2s_queue, i2s_dma>>
    BY <1>4 DEF WriteFails, SlabFree, i2sVars, ToneInv, PlayerPlace
  <2> QED
    BY <2>1 DEF ToneInv, BlocksInOnePlace, InQueue
<1>5. CASE Trigger
  <2>1. CASE player' = "returned"
    BY <1>5, <2>1, NothingMoves DEF Trigger, slabVars
  <2>2. CASE player' # "returned"
    <3>1. /\ i2s_queue # <<>> /\ i2s_queue' = Tail(i2s_queue) /\ i2s_dma' = Head(i2s_queue)
          /\ UNCHANGED <<mem_block, tx_mem_slab>>
      <4>1. Len(i2s_queue) = 2
        BY <1>5 DEF Trigger, ToneInv, PlayerPlace
      <4> QED
        BY <1>5, <2>2, <4>1, EmptySeq DEF Trigger, slabVars
    <3>2. i2s_dma = NoBlock
      BY <1>5 DEF Trigger, ToneInv, PlayerPlace, ToneTypeOK
    <3> QED
      BY <3>1, <3>2, HeadMoves
  <2> QED
    BY <2>1, <2>2
<1>6. CASE BlockPlayed
  <2>1. i2s_dma \in ToneBlocks /\ tx_mem_slab' = tx_mem_slab \cup {i2s_dma} /\ UNCHANGED mem_block
    BY <1>6 DEF BlockPlayed, SlabFree, ToneInv, PlayerPlace
  <2>2. CASE i2s_queue # <<>>
    BY <1>6, <2>1, <2>2, HeadMoves DEF BlockPlayed
  <2>3. CASE i2s_queue = <<>>
    <3>1. i2s_dma' = NoBlock /\ UNCHANGED i2s_queue
      BY <1>6, <2>3 DEF BlockPlayed
    <3> QED
      BY <2>1, <3>1 DEF ToneInv, BlocksInOnePlace, InQueue
  <2> QED
    BY <2>2, <2>3
<1> QED
  BY <1>1, <1>2, <1>3, <1>4, <1>5, <1>6 DEF ToneNext, ToneMain

\* The inductive invariant holds in every state.
THEOREM ToneInvariance == ToneSpec => []ToneInv
<1>1. ToneInv /\ [ToneNext]_toneVars => ToneInv'
  BY ToneTyped, TonePlaced, ToneConserves DEF ToneInv
<1> QED
  BY ToneInitially, <1>1, PTL DEF ToneSpec

\* The tone player's variables keep their types.
THEOREM ToneTypeCorrect == ToneSpec => []ToneTypeOK
BY ToneInvariance, PTL DEF ToneInv

\* No buffer is lost, freed twice or in two places, whatever the interrupt, the
\* time-outs and the failures of the driver do.
THEOREM SlabConserved == ToneSpec => []BlocksInOnePlace
BY ToneInvariance, PTL DEF ToneInv
-----------------------------------------------------------------------------
(* The composition *)

\* Where the composer is when block n comes next: c blocks into tone t, at
\* phase p.  k tones are complete; the first has two blocks more.
Score(n, c, t, p) ==
    \/ n \in 0..1 /\ c = 0 /\ t = 1 /\ p = n
    \/ \E k \in Nat :
          /\ n = 2 + k * BlocksPerTone + c /\ t = 1 + (k % 3)
          /\ p = IF k = 0 THEN (2 + c) % PhaseBlocks ELSE c % PhaseBlocks

LEMMA Quotient ==
    ASSUME NEW b \in Nat \ {0}, NEW k \in Nat, NEW c \in 0..b - 1
    PROVE  (k * b + c) \div b = k /\ (k * b + c) % b = c
<1> DEFINE n == k * b + c
           q == n \div b
           r == n % b
<1>1. n \in Nat /\ n = b * q + r /\ r \in 0..b - 1 /\ q \in Nat
  OBVIOUS
<1> HIDE DEF q, r
<1>2. \A x, y \in Nat : x < y => x * b + b <= y * b
  <2> TAKE x, y \in Nat
  <2>1. \A d \in Nat : y = x + 1 + d => y * b = x * b + b + d * b /\ d * b \in Nat
    OBVIOUS
  <2>2. x < y => y - x - 1 \in Nat /\ y = x + 1 + (y - x - 1)
    OBVIOUS
  <2> QED
    BY <2>1, <2>2
<1>3. b * q = q * b /\ q * b \in Nat /\ k * b \in Nat
  BY <1>1
<1>4. q = k
  BY <1>1, <1>2, <1>3
<1> QED
  BY <1>1, <1>3, <1>4 DEF q, r

LEMMA ComposedLate ==
    ASSUME NEW n \in Nat, n >= FirstTone, NEW k \in Nat, NEW c \in 0..BlocksPerTone - 1,
           n = 2 + k * BlocksPerTone + c
    PROVE  Composed(n) = [tone |-> 1 + (k % 3), phase |-> c % PhaseBlocks]
<1>1. BlocksPerTone \in Nat \ {0} /\ k * BlocksPerTone \in Nat /\ FirstTone \in Nat
  BY ToneAssumption DEF FirstTone
<1>2. n - 2 = k * BlocksPerTone + c /\ ~(n < FirstTone)
  BY <1>1
<1>3. (n - 2) \div BlocksPerTone = k /\ (n - 2) % BlocksPerTone = c
  BY <1>1, <1>2, Quotient
<1> QED
  BY <1>2, <1>3, Zenon DEF Composed

\* The score is the composition.
LEMMA ScoreIsComposed ==
    ASSUME NEW n \in Nat, NEW c \in 0..BlocksPerTone - 1, NEW t, NEW p, Score(n, c, t, p)
    PROVE  Composed(n) = [tone |-> t, phase |-> p]
<1>1. CASE n \in 0..1 /\ t = 1 /\ p = n
  <2>1. n < FirstTone /\ n % PhaseBlocks = n
    BY <1>1, ToneAssumption DEF FirstTone, PhaseBlocks
  <2> QED
    BY <1>1, <2>1 DEF Composed
<1>2. CASE ~(n \in 0..1 /\ t = 1 /\ p = n)
  <2>1. PICK k \in Nat :
          /\ n = 2 + k * BlocksPerTone + c /\ t = 1 + (k % 3)
          /\ p = IF k = 0 THEN (2 + c) % PhaseBlocks ELSE c % PhaseBlocks
    BY <1>2 DEF Score
  <2>2. BlocksPerTone \in Nat \ {0} /\ k * BlocksPerTone \in Nat
    BY ToneAssumption
  <2>3. CASE k = 0
    <3>1. n = 2 + c /\ n < FirstTone /\ t = 1
      BY <2>1, <2>2, <2>3 DEF FirstTone
    <3> QED
      BY <2>1, <2>3, <3>1 DEF Composed
  <2>4. CASE k # 0
    <3>1. k * BlocksPerTone = BlocksPerTone + (k - 1) * BlocksPerTone
          /\ (k - 1) * BlocksPerTone \in Nat
      BY <2>2, <2>4
    <3>2. n >= FirstTone
      BY <2>1, <2>2, <3>1 DEF FirstTone
    <3> QED
      BY <2>1, <2>4, <3>2, ComposedLate
  <2> QED
    BY <2>3, <2>4
<1> QED
  BY <1>1, <1>2

\* From the second tone on the composition repeats itself.
LEMMA Periodic ==
    ASSUME NEW n \in Nat, n >= FirstTone
    PROVE  Composed(n + 3 * BlocksPerTone) = Composed(n)
<1> DEFINE b == BlocksPerTone
           q == (n - 2) \div b
           r == (n - 2) % b
<1>1. b \in Nat \ {0} /\ n - 2 \in Nat
  BY ToneAssumption DEF FirstTone
<1>2. n - 2 = b * q + r /\ q \in Nat /\ r \in 0..b - 1
  BY <1>1
<1> HIDE DEF q, r
<1>3. n = 2 + q * b + r /\ n + 3 * b = 2 + (q + 3) * b + r
  BY <1>1, <1>2
<1>4. (q + 3) % 3 = q % 3
  BY <1>2
<1>5. n + 3 * b \in Nat /\ n + 3 * b >= FirstTone
  BY <1>1 DEF FirstTone
<1>6. Composed(n) = [tone |-> 1 + (q % 3), phase |-> r % PhaseBlocks]
  BY <1>2, <1>3, ComposedLate
<1>7. Composed(n + 3 * b) = [tone |-> 1 + ((q + 3) % 3), phase |-> r % PhaseBlocks]
  BY <1>2, <1>3, <1>5, ComposedLate
<1> QED
  BY <1>4, <1>6, <1>7

LEMMA ScorePeriodic ==
    ASSUME NEW n \in Nat, n >= FirstTone, NEW c \in 0..BlocksPerTone - 1, NEW t, NEW p,
           Score(n + 3 * BlocksPerTone, c, t, p)
    PROVE  Score(n, c, t, p)
<1> DEFINE b == BlocksPerTone
<1>1. b \in Nat \ {0} /\ n + 3 * b > 1
  BY ToneAssumption DEF FirstTone
<1>2. PICK k \in Nat :
        /\ n + 3 * b = 2 + k * b + c /\ t = 1 + (k % 3)
        /\ p = IF k = 0 THEN (2 + c) % PhaseBlocks ELSE c % PhaseBlocks
  BY <1>1 DEF Score
<1>3. k > 3
  <2>1. SUFFICES ASSUME k \in 0..3 PROVE FALSE
    BY <2>1
  <2>2. k * b <= 3 * b
    BY <1>1, <2>1
  <2> QED
    BY <1>1, <1>2, <2>2 DEF FirstTone
<1>4. k - 3 \in Nat /\ k - 3 # 0 /\ (k - 3) % 3 = k % 3
  BY <1>3
<1>5. n = 2 + (k - 3) * b + c
  BY <1>1, <1>2
<1> QED
  BY <1>2, <1>3, <1>4, <1>5 DEF Score

\* One block further, as CountBlock counts.
LEMMA ScoreAdvances ==
    ASSUME NEW n \in Nat, n >= 2, NEW c \in 0..BlocksPerTone - 1, NEW t, NEW p \in Nat,
           Score(n, c, t, p)
    PROVE  IF (c + 1) % BlocksPerTone = 0
           THEN Score(n + 1, (c + 1) % BlocksPerTone, (t % 3) + 1, 0)
           ELSE Score(n + 1, (c + 1) % BlocksPerTone, t, (p + 1) % PhaseBlocks)
<1> DEFINE b == BlocksPerTone
<1>1. b \in Nat \ {0}
  BY ToneAssumption
<1>2. PICK k \in Nat :
        /\ n = 2 + k * b + c /\ t = 1 + (k % 3)
        /\ p = IF k = 0 THEN (2 + c) % PhaseBlocks ELSE c % PhaseBlocks
  BY DEF Score
<1>3. CASE c + 1 = b
  <2>1. (c + 1) % b = 0
    BY <1>1, <1>3
  <2>2. n + 1 = 2 + (k + 1) * b + 0 /\ (t % 3) + 1 = 1 + ((k + 1) % 3)
    BY <1>1, <1>2, <1>3
  <2>3. Score(n + 1, 0, (t % 3) + 1, 0)
    <3>1. k + 1 \in Nat /\ k + 1 # 0 /\ 0 = 0 % PhaseBlocks
      BY DEF PhaseBlocks
    <3> QED
      BY <2>2, <3>1 DEF Score
  <2> QED
    BY <2>1, <2>3
<1>4. CASE c + 1 # b
  <2>1. (c + 1) % b = c + 1 /\ c + 1 # 0
    BY <1>1, <1>4
  <2>2. n + 1 = 2 + k * b + (c + 1)
    BY <1>1, <1>2
  <2>3. (p + 1) % PhaseBlocks =
           IF k = 0 THEN (2 + (c + 1)) % PhaseBlocks ELSE (c + 1) % PhaseBlocks
    BY <1>1, <1>2 DEF PhaseBlocks
  <2> QED
    BY <1>2, <2>1, <2>2, <2>3 DEF Score
<1> QED
  BY <1>3, <1>4

\* The block of the composition that has not been written yet, and the one that
\* is in place i of the queue.
Ahead == Len(i2s_queue) + (IF i2s = "running" THEN played + 1 ELSE 0)
Place(i) == IF i2s = "running" THEN played + i ELSE i - 1

\* Between the allocation and the write the composer is at this block, or has
\* already computed it.
ComposerReady ==
    player \in {"setup", "alloc", "generate", "trigger", "sleep"} =>
        Score(Ahead, block_count, current_freq_idx, phase)
ComposerAhead ==
    player = "write" =>
        /\ block[mem_block] \in Contents /\ block[mem_block].tone = current_freq_idx
        /\ Score(Ahead, block_count, current_freq_idx, block[mem_block].phase)
        /\ phase = (block[mem_block].phase + 1) % PhaseBlocks

\* What is transmitted and what is queued is the composition's next.
QueueComposed == \A i \in 1..Len(i2s_queue) : block[i2s_queue[i]] = Composed(Place(i))

ScoreInv ==
    /\ i2s \in {"down", "ready"} => played = 0
    /\ i2s = "running" => Ahead >= 2
    /\ i2s # "error" => PlayedAsComposed /\ QueueComposed /\ ComposerReady /\ ComposerAhead

LEMMA ScoreInitially == ToneInit => ScoreInv
<1> SUFFICES ASSUME ToneInit PROVE ScoreInv
  OBVIOUS
<1>1. /\ Len(i2s_queue) = 0 /\ i2s = "down" /\ player = "setup" /\ i2s_dma = NoBlock
      /\ played = 0 /\ block_count = 0 /\ current_freq_idx = 1 /\ phase = 0
  BY DEF ToneInit
<1>2. Score(Ahead, block_count, current_freq_idx, phase)
  BY <1>1 DEF Score, Ahead
<1> QED
  BY <1>1, <1>2 DEF ScoreInv, PlayedAsComposed, QueueComposed, ComposerReady, ComposerAhead

\* The types the steps need.
LEMMA ScoreTypes ==
    ASSUME ToneInv
    PROVE  /\ i2s_queue \in Seq(ToneBlocks) /\ Len(i2s_queue) \in Nat /\ played \in Nat
           /\ \A i \in 1..Len(i2s_queue) : i2s_queue[i] \in ToneBlocks
           /\ Ahead \in Nat /\ block_count \in 0..BlocksPerTone - 1 /\ phase \in 0..PhaseBlocks - 1
           /\ current_freq_idx \in 1..3 /\ block \in [ToneBlocks -> Contents \cup {Nothing}]
           /\ mem_block \in ToneBlocks \cup {NoBlock} /\ i2s_dma \in ToneBlocks \cup {NoBlock}
           /\ i2s \in {"down", "ready", "running", "error"} /\ filled \in 0..2
<1>1. /\ i2s_queue \in Seq(ToneBlocks)
      /\ played \in 0..(FirstTone + 3 * BlocksPerTone - 1)
  BY DEF ToneInv, ToneTypeOK
<1>2. Len(i2s_queue) \in Nat /\ played \in Nat
  BY <1>1, LenProperties, ToneAssumption DEF FirstTone
<1>3. \A i \in 1..Len(i2s_queue) : i2s_queue[i] \in ToneBlocks
  BY <1>1, ElementOfSeq
<1>4. Ahead \in Nat
  BY <1>2 DEF Ahead
<1> QED
  BY <1>1, <1>2, <1>3, <1>4 DEF ToneInv, ToneTypeOK

\* main()'s steps that neither compute nor write a block.
LEMMA ComposerRests ==
    ASSUME ToneInv, ScoreInv, UNCHANGED <<composerVars, i2s_queue, i2s_dma, played>>,
           \/ UNCHANGED i2s
           \/ i2s = "down" /\ i2s' = "ready",
           \/ player' = "returned"
           \/ UNCHANGED <<player, mem_block>>
           \/ player \in {"setup", "alloc", "sleep"} /\ player' \in {"alloc", "generate", "sleep"}
    PROVE  ScoreInv'
<1>1. UNCHANGED <<block, phase, current_freq_idx, block_count>>
  BY DEF composerVars
<1>2. Ahead' = Ahead /\ \A i : Place(i)' = Place(i)
  BY DEF Ahead, Place
<1>3. i2s' = "running" <=> i2s = "running"
  OBVIOUS
<1>4. i2s' = "error" <=> i2s = "error"
  OBVIOUS
<1>5. i2s' \in {"down", "ready"} => i2s \in {"down", "ready"}
  OBVIOUS
<1>6. i2s # "error" => (PlayedAsComposed' <=> PlayedAsComposed)
  BY <1>1 DEF PlayedAsComposed
<1>7. QueueComposed => QueueComposed'
  BY <1>1, <1>2 DEF QueueComposed
<1>8. ComposerReady => ComposerReady'
  BY <1>1, <1>2 DEF ComposerReady
<1>9. ComposerAhead => ComposerAhead'
  BY <1>1, <1>2 DEF ComposerAhead
<1> QED
  BY <1>2, <1>3, <1>4, <1>5, <1>6, <1>7, <1>8, <1>9 DEF ScoreInv

\* generate_tone() fills a buffer that nobody else has.
LEMMA ScoreGenerate == ASSUME ToneInv, ScoreInv, Generate PROVE ScoreInv'
<1>1. /\ player = "generate" /\ player' = "write" /\ mem_block' = mem_block
      /\ block' = [block EXCEPT ![mem_block] = [tone |-> current_freq_idx, phase |-> phase]]
      /\ phase' = (phase + 1) % PhaseBlocks
      /\ UNCHANGED <<current_freq_idx, block_count, i2s, i2s_queue, i2s_dma, played>>
  BY DEF Generate, Player, slabVars, i2sVars
<1>2. mem_block \in ToneBlocks /\ mem_block # i2s_dma /\ ~InQueue(mem_block)
  BY <1>1, ToneAssumption DEF ToneInv, PlayerPlace, BlocksInOnePlace
<1>3. \A b : b # mem_block => block'[b] = block[b]
  BY <1>1, ScoreTypes
<1>4. block'[mem_block] = [tone |-> current_freq_idx, phase |-> phase]
  BY <1>1, <1>2, ScoreTypes
<1>5. Ahead' = Ahead /\ \A i : Place(i)' = Place(i)
  BY <1>1 DEF Ahead, Place
<1>6. PlayedAsComposed => PlayedAsComposed'
  BY <1>1, <1>2, <1>3 DEF PlayedAsComposed
<1>7. QueueComposed => QueueComposed'
  BY <1>1, <1>2, <1>3, <1>5 DEF QueueComposed, InQueue
<1>8. ComposerReady => ComposerAhead'
  <2>1. block'[mem_block] \in Contents
    BY <1>4, ScoreTypes DEF Contents
  <2> QED
    BY <1>1, <1>4, <1>5, <2>1 DEF ComposerReady, ComposerAhead
<1>9. ComposerReady'
  BY <1>1 DEF ComposerReady
<1> QED
  BY <1>1, <1>5, <1>6, <1>7, <1>8, <1>9 DEF ScoreInv

\* i2s_write() puts the block in the last place of the queue.
LEMMA ScoreWrite == ASSUME ToneInv, ScoreInv, Write PROVE ScoreInv'
<1> DEFINE p == block[mem_block].phase
           n == Ahead
<1>1. /\ player = "write" /\ i2s \in {"ready", "running"} /\ player' # "write"
      /\ i2s_queue' = Append(i2s_queue, mem_block)
      /\ UNCHANGED <<block, i2s, i2s_dma, played>>
  BY DEF Write, Player
<1>2. mem_block \in ToneBlocks
  BY <1>1 DEF ToneInv, PlayerPlace
<1>3. /\ Len(i2s_queue) \in Nat /\ Len(i2s_queue') = Len(i2s_queue) + 1
      /\ \A i \in 1..Len(i2s_queue) : i2s_queue'[i] = i2s_queue[i]
      /\ i2s_queue'[Len(i2s_queue) + 1] = mem_block
  BY <1>1, <1>2, QueueGrows
<1>4. PlayedAsComposed /\ QueueComposed /\ ComposerAhead
  BY <1>1 DEF ScoreInv
<1>5. /\ block[mem_block] = [tone |-> current_freq_idx, phase |-> p]
      /\ p \in 0..PhaseBlocks - 1
      /\ Score(n, block_count, current_freq_idx, p) /\ phase = (p + 1) % PhaseBlocks
  BY <1>1, <1>4 DEF ComposerAhead, Contents
<1>6. n \in Nat /\ block_count \in 0..BlocksPerTone - 1 /\ played \in Nat /\ filled \in 0..2
  BY ScoreTypes
<1>7. Ahead' = n + 1 /\ Place(Len(i2s_queue) + 1) = n /\ \A i : Place(i)' = Place(i)
  BY <1>1, <1>3, <1>6 DEF Ahead, Place
<1>8. block[mem_block] = Composed(n)
  BY <1>5, <1>6, ScoreIsComposed
<1>9. QueueComposed'
  <2>1. \A i \in 1..Len(i2s_queue') : i \in 1..Len(i2s_queue) \/ i = Len(i2s_queue) + 1
    BY <1>3
  <2> QED
    BY <1>1, <1>3, <1>4, <1>7, <1>8, <2>1 DEF QueueComposed
<1>10. Score(n + 1, block_count', current_freq_idx', phase')
  <2>1. CASE filled < 2
    <3>1. UNCHANGED <<current_freq_idx, phase, block_count>>
      BY <2>1 DEF Write, Player
    <3>2. i2s = "ready" /\ n = filled
      BY <1>1, <1>3, <2>1 DEF Ahead, ToneInv, PlayerPlace
    <3>3. block_count = 0 /\ current_freq_idx = 1 /\ p = n
      BY <1>5, <1>6, <2>1, <3>2, ToneAssumption DEF Score
    <3>4. phase = n + 1
      BY <1>5, <1>6, <2>1, <3>2, <3>3 DEF PhaseBlocks
    <3>5. Score(n + 1, 0, 1, n + 1)
      <4>1. CASE n = 0
        BY <4>1 DEF Score
      <4>2. CASE n = 1
        <5>1. n + 1 = 2 + 0 * BlocksPerTone + 0 /\ 1 = 1 + (0 % 3)
              /\ n + 1 = (2 + 0) % PhaseBlocks
          BY <4>2, ToneAssumption DEF PhaseBlocks
        <5> QED
          BY <5>1 DEF Score
      <4> QED
        BY <1>6, <2>1, <3>2, <4>1, <4>2
    <3> QED
      BY <3>1, <3>3, <3>4, <3>5
  <2>2. CASE filled = 2
    <3>1. i2s = "running"
      BY <1>1, <2>2 DEF ToneInv, PlayerPlace
    <3>2. n >= 2
      BY <3>1 DEF ScoreInv
    <3>3. CountBlock
      BY <2>2 DEF Write
    <3>4. p \in Nat
      BY <1>5 DEF PhaseBlocks
    <3>5. IF (block_count + 1) % BlocksPerTone = 0
          THEN Score(n + 1, (block_count + 1) % BlocksPerTone, (current_freq_idx % 3) + 1, 0)
          ELSE Score(n + 1, (block_count + 1) % BlocksPerTone, current_freq_idx, phase)
      BY <1>5, <1>6, <3>2, <3>4, ScoreAdvances
    <3>6. CASE block_count' = 0
      <4>1. (block_count + 1) % BlocksPerTone = 0
            /\ block_count' = (block_count + 1) % BlocksPerTone
            /\ current_freq_idx' = (current_freq_idx % 3) + 1 /\ phase' = 0
        BY <3>3, <3>6 DEF CountBlock
      <4> QED
        BY <3>5, <4>1
    <3>7. CASE block_count' # 0
      <4>1. (block_count + 1) % BlocksPerTone # 0
            /\ block_count' = (block_count + 1) % BlocksPerTone
            /\ UNCHANGED <<current_freq_idx, phase>>
        BY <3>3, <3>7 DEF CountBlock
      <4> QED
        BY <3>5, <4>1
    <3> QED
      BY <3>6, <3>7
  <2> QED
    BY <1>6, <2>1, <2>2
<1> QED
  <2>1. PlayedAsComposed'
    BY <1>1, <1>4 DEF PlayedAsComposed
  <2>2. ComposerReady'
    BY <1>7, <1>10 DEF ComposerReady
  <2>3. ComposerAhead'
    BY <1>1 DEF ComposerAhead
  <2>4. /\ i2s' \in {"down", "ready"} => played' = 0
        /\ i2s' = "running" => Ahead' >= 2
    BY <1>1, <1>6, <1>7 DEF ScoreInv
  <2> QED
    BY <1>9, <2>1, <2>2, <2>3, <2>4 DEF ScoreInv

\* A write that fails frees a buffer that nobody else has, and ends main() or
\* comes after the driver's error.
LEMMA ScoreWriteFails == ASSUME ToneInv, ScoreInv, WriteFails PROVE ScoreInv'
<1>1. /\ player = "write" /\ i2s # "running" /\ (filled < 2 => player' = "returned")
      /\ block' = [block EXCEPT ![mem_block] = Nothing]
      /\ UNCHANGED <<filled, i2s, i2s_queue, i2s_dma, played>>
  BY DEF WriteFails, Player, SlabFree, i2sVars
<1>2. i2s' \in {"down", "ready"} => played' = 0
  BY <1>1 DEF ScoreInv
<1>3. CASE i2s = "error"
  BY <1>1, <1>2, <1>3 DEF ScoreInv
<1>4. CASE i2s # "error"
  <2>1. player' = "returned" /\ i2s \in {"down", "ready"} /\ mem_block \in ToneBlocks
    <3>1. PlayerPlace /\ i2s \in {"down", "ready", "running", "error"} /\ filled \in 0..2
      BY ScoreTypes DEF ToneInv
    <3>2. i2s \in {"down", "ready"} /\ mem_block \in ToneBlocks /\ filled # 2
      BY <1>1, <1>4, <3>1 DEF PlayerPlace
    <3> QED
      BY <1>1, <3>1, <3>2
  <2>2. ~InQueue(mem_block) /\ i2s_dma = NoBlock
    BY <1>1, <2>1, ScoreTypes, ToneAssumption DEF ToneInv, PlayerPlace, BlocksInOnePlace
  <2>3. \A b : b # mem_block => block'[b] = block[b]
    BY <1>1, ScoreTypes
  <2>4. \A i : Place(i)' = Place(i)
    BY <1>1 DEF Place
  <2>5. QueueComposed'
    BY <1>1, <1>4, <2>2, <2>3, <2>4 DEF ScoreInv, QueueComposed, InQueue
  <2>6. PlayedAsComposed' /\ ComposerReady' /\ ComposerAhead'
    BY <1>1, <2>1, <2>2 DEF PlayedAsComposed, ComposerReady, ComposerAhead
  <2> QED
    BY <1>1, <1>2, <2>1, <2>5, <2>6 DEF ScoreInv
<1> QED
  BY <1>3, <1>4

\* i2s_trigger(): the first of the two blocks is transmitted.
LEMMA ScoreTrigger ==
    ASSUME ToneInv, ScoreInv, Trigger, player' # "returned" PROVE ScoreInv'
<1>1. /\ player = "trigger" /\ player' = "alloc" /\ i2s' = "running"
      /\ i2s_queue' = Tail(i2s_queue) /\ i2s_dma' = Head(i2s_queue)
      /\ UNCHANGED <<block, phase, current_freq_idx, block_count, played>>
  BY DEF Trigger, Player, composerVars
<1>2. Len(i2s_queue) = 2 /\ i2s \in {"down", "ready"} /\ i2s_queue # <<>>
  <2>1. Len(i2s_queue) = 2
    BY <1>1 DEF ToneInv, PlayerPlace
  <2> QED
    <3>1. i2s_queue # <<>>
      BY <2>1, EmptySeq
    <3>2. PlayerPlace /\ i2s \in {"down", "ready", "running", "error"}
      BY ScoreTypes DEF ToneInv
    <3> QED
      BY <1>1, <2>1, <3>1, <3>2 DEF PlayerPlace
<1>3. /\ Len(i2s_queue') = 1 /\ i2s_dma' = i2s_queue[1]
      /\ \A i \in 1..Len(i2s_queue') : i2s_queue'[i] = i2s_queue[i + 1]
  BY <1>1, <1>2, QueueShrinks
<1>4. played = 0 /\ QueueComposed /\ ComposerReady
  BY <1>2 DEF ScoreInv
<1>5. /\ Ahead = 2 /\ Ahead' = 2 /\ Place(1) = 0
      /\ \A i \in 1..Len(i2s_queue') : Place(i)' = Place(i + 1)
  BY <1>1, <1>2, <1>3, <1>4 DEF Ahead, Place
<1>6. PlayedAsComposed'
  BY <1>1, <1>2, <1>3, <1>4, <1>5 DEF PlayedAsComposed, QueueComposed
<1>7. QueueComposed'
  <2>1. \A i \in 1..Len(i2s_queue') : i + 1 \in 1..Len(i2s_queue)
    BY <1>2, <1>3
  <2> QED
    BY <1>1, <1>3, <1>4, <1>5, <2>1 DEF QueueComposed
<1>8. ComposerReady' /\ ComposerAhead'
  BY <1>1, <1>4, <1>5 DEF ComposerReady, ComposerAhead
<1> QED
  BY <1>1, <1>5, <1>6, <1>7, <1>8 DEF ScoreInv

\* The driver's interrupt: the next block of the queue is transmitted.
LEMMA ScoreBlockPlayed == ASSUME ToneInv, ScoreInv, BlockPlayed PROVE ScoreInv'
<1>1. /\ i2s = "running" /\ i2s_dma \in ToneBlocks /\ played' = PlayedIndex(played + 1)
      /\ block' = [block EXCEPT ![i2s_dma] = Nothing]
      /\ UNCHANGED <<player, mem_block, phase, current_freq_idx, block_count>>
  BY DEF BlockPlayed, SlabFree, ToneInv, PlayerPlace
<1>2. CASE i2s_queue = <<>>
  BY <1>2 DEF BlockPlayed, ScoreInv
<1>3. CASE i2s_queue # <<>>
  <2>1. i2s' = "running" /\ i2s_queue' = Tail(i2s_queue) /\ i2s_dma' = Head(i2s_queue)
    BY <1>1, <1>3 DEF BlockPlayed
  <2>2. /\ Len(i2s_queue) \in Nat \ {0} /\ Len(i2s_queue') = Len(i2s_queue) - 1
        /\ i2s_dma' = i2s_queue[1]
        /\ \A i \in 1..Len(i2s_queue') : i2s_queue'[i] = i2s_queue[i + 1]
    BY <1>3, <2>1, QueueShrinks
  <2>3. \A i \in 1..Len(i2s_queue') : i + 1 \in 1..Len(i2s_queue)
    BY <2>2
  <2>4. \A i \in 1..Len(i2s_queue) : i2s_queue[i] # i2s_dma
    BY <1>1, ToneAssumption DEF ToneInv, BlocksInOnePlace, InQueue
  <2>5. \A b : b # i2s_dma => block'[b] = block[b]
    BY <1>1, ScoreTypes
  <2>6. played \in Nat /\ block_count \in 0..BlocksPerTone - 1 /\ phase \in 0..PhaseBlocks - 1
    BY ScoreTypes
  <2>7. Ahead >= 2 /\ QueueComposed /\ ComposerReady /\ ComposerAhead
    BY <1>1 DEF ScoreInv
  <2>8. Ahead = Len(i2s_queue) + (played + 1) /\ Ahead' = Len(i2s_queue') + (played' + 1)
    BY <1>1, <2>1 DEF Ahead
  <2>9. \A i : Place(i) = played + i /\ Place(i)' = played' + i
    BY <1>1, <2>1 DEF Place
  <2>10. \A i \in 1..Len(i2s_queue) : block'[i2s_queue[i]] = Composed(played + i)
    BY <2>4, <2>5, <2>7, <2>9 DEF QueueComposed
  <2>11. BlocksPerTone \in Nat \ {0} /\ FirstTone \in Nat /\ FirstTone >= 3
    BY ToneAssumption DEF FirstTone
  <2>12. mem_block # i2s_dma
    BY <1>1, ToneAssumption DEF ToneInv, BlocksInOnePlace
  <2>13. UNCHANGED block[mem_block]
    BY <1>1, <2>5, <2>12
  <2>14. CASE played' = played + 1
    <3>1. Ahead' = Ahead
      BY <2>2, <2>6, <2>8, <2>14
    <3>2. PlayedAsComposed'
      BY <2>2, <2>10, <2>14 DEF PlayedAsComposed
    <3>3. QueueComposed'
      <4>1. \A i \in 1..Len(i2s_queue') : played + (i + 1) = played' + i
        BY <2>2, <2>6, <2>14
      <4> QED
        BY <2>2, <2>3, <2>9, <2>10, <4>1 DEF QueueComposed
    <3>4. ComposerReady'
      BY <1>1, <2>7, <3>1 DEF ComposerReady
    <3>5. ComposerAhead'
      BY <1>1, <2>7, <2>13, <3>1 DEF ComposerAhead
    <3> QED
      BY <2>1, <2>7, <3>1, <3>2, <3>3, <3>4, <3>5 DEF ScoreInv
  <2>15. CASE played' # played + 1
    <3> DEFINE Turn == 3 * BlocksPerTone
    <3>1. played + 1 = FirstTone + Turn /\ played' = FirstTone
      BY <1>1, <2>15 DEF PlayedIndex
    <3>2. \A m \in Nat : Composed(FirstTone + m + Turn) = Composed(FirstTone + m)
      <4> SUFFICES ASSUME NEW m \in Nat PROVE Composed(FirstTone + m + Turn) = Composed(FirstTone + m)
        OBVIOUS
      <4>1. FirstTone + m \in Nat /\ FirstTone + m >= FirstTone
        BY <2>11
      <4> QED
        BY <4>1, Periodic
    <3>3. \A i \in Nat : Composed(played + (i + 1)) = Composed(played' + i)
      <4> TAKE i \in Nat
      <4>1. played + (i + 1) = FirstTone + i + Turn
        BY <2>6, <2>11, <3>1
      <4> QED
        BY <3>1, <3>2, <4>1
    <3>4. \A i \in 1..Len(i2s_queue') : block'[i2s_queue'[i]] = Composed(played' + i)
      <4> TAKE i \in 1..Len(i2s_queue')
      <4>1. i \in Nat /\ i + 1 \in 1..Len(i2s_queue) /\ i2s_queue'[i] = i2s_queue[i + 1]
        BY <2>2, <2>3
      <4>2. block'[i2s_queue[i + 1]] = Composed(played + (i + 1))
        BY <2>10, <4>1
      <4> QED
        BY <3>3, <4>1, <4>2
    <3>5. block'[i2s_dma'] = Composed(played')
      <4>1. block'[i2s_dma'] = Composed(played + 1)
        BY <2>2, <2>10
      <4>2. played + 1 = played + (0 + 1) /\ played' + 0 = played'
        BY <2>6, <2>11, <3>1
      <4> QED
        BY <3>3, <4>1, <4>2
    <3>6. Ahead' \in Nat /\ Ahead' >= FirstTone /\ Ahead = Ahead' + Turn
      <4>1. Turn \in Nat
        BY <2>11
      <4> HIDE DEF Turn
      <4>2. Len(i2s_queue) \in Nat \ {0} /\ Len(i2s_queue') = Len(i2s_queue) - 1
        BY <2>2
      <4>3. Ahead' = Len(i2s_queue) + FirstTone
        BY <2>8, <2>11, <3>1, <4>2
      <4>4. Ahead = Len(i2s_queue) + (FirstTone + Turn)
        BY <2>8, <3>1
      <4> QED
        BY <2>11, <4>1, <4>2, <4>3, <4>4
    <3>7. \A t, p : Score(Ahead, block_count, t, p) => Score(Ahead', block_count, t, p)
      BY <2>6, <3>6, ScorePeriodic
    <3>8. ComposerReady'
      BY <1>1, <2>7, <3>7 DEF ComposerReady
    <3>9. ComposerAhead'
      BY <1>1, <2>7, <2>13, <3>7 DEF ComposerAhead
    <3>10. PlayedAsComposed' /\ QueueComposed'
      BY <2>9, <3>4, <3>5 DEF PlayedAsComposed, QueueComposed
    <3>11. Ahead' >= 2
      BY <2>11, <3>6
    <3> QED
      BY <2>1, <3>8, <3>9, <3>10, <3>11 DEF ScoreInv
  <2> QED
    BY <2>14, <2>15
<1> QED
  BY <1>2, <1>3

LEMMA ScoreKept == ToneInv /\ ScoreInv /\ [ToneNext]_toneVars => ScoreInv'
<1> SUFFICES ASSUME ToneInv, ScoreInv, [ToneNext]_toneVars PROVE ScoreInv'
  OBVIOUS
<1>1. CASE Setup
  <2>1. /\ \/ player' = "returned" /\ UNCHANGED i2s
           \/ player = "setup" /\ player' = "alloc" /\ i2s' = "ready"
        /\ player = "setup"
        /\ UNCHANGED <<mem_block, composerVars, i2s_queue, i2s_dma, played>>
    BY <1>1 DEF Setup, Player, slabVars
  <2>2. i2s = "down"
    BY <2>1 DEF ToneInv, PlayerPlace
  <2> QED
    BY <2>1, <2>2, ComposerRests
<1>2. CASE Alloc
  <2>1. player = "alloc" /\ player' = "generate" /\ UNCHANGED <<composerVars, i2s, i2s_queue, i2s_dma, played>>
    BY <1>2 DEF Alloc, Player, i2sVars
  <2> QED
    BY <2>1, ComposerRests
<1>3. CASE AllocTimesOut
  <2>1. /\ player = "alloc" /\ player' \in {"returned", "sleep"}
        /\ UNCHANGED <<composerVars, i2s, i2s_queue, i2s_dma, played>>
    BY <1>3 DEF AllocTimesOut, Player, i2sVars
  <2> QED
    BY <2>1, ComposerRests
<1>4. CASE Generate
  BY <1>4, ScoreGenerate
<1>5. CASE Write
  BY <1>5, ScoreWrite
<1>6. CASE WriteFails
  BY <1>6, ScoreWriteFails
<1>7. CASE Trigger
  <2>1. CASE player' = "returned"
    <3>1. UNCHANGED <<composerVars, i2s, i2s_queue, i2s_dma, played>>
      BY <1>7, <2>1 DEF Trigger, Player
    <3> QED
      BY <2>1, <3>1, ComposerRests
  <2>2. CASE player' # "returned"
    BY <1>7, <2>2, ScoreTrigger
  <2> QED
    BY <2>1, <2>2
<1>8. CASE Sleep
  <2>1. player = "sleep" /\ player' = "alloc" /\ UNCHANGED <<composerVars, i2s, i2s_queue, i2s_dma, played>>
    BY <1>8 DEF Sleep, Player, i2sVars
  <2> QED
    BY <2>1, ComposerRests
<1>9. CASE BlockPlayed
  BY <1>9, ScoreBlockPlayed
<1>10. CASE UNCHANGED toneVars
  <2>1. UNCHANGED <<player, mem_block, composerVars, i2s, i2s_queue, i2s_dma, played>>
    BY <1>10 DEF toneVars, slabVars, i2sVars
  <2> QED
    BY <2>1, ComposerRests
<1> QED
  BY <1>1, <1>2, <1>3, <1>4, <1>5, <1>6, <1>7, <1>8, <1>9, <1>10 DEF ToneNext, ToneMain

\* What is transmitted is always the block the composition has at this place,
\* for every slab and every length of a tone.
THEOREM PlaysTheComposition == ToneSpec => []PlayedAsComposed
<1>1. i2s = "error" /\ PlayerPlace => ~(i2s_dma \in ToneBlocks)
  BY DEF PlayerPlace
<1>2. ToneInv /\ ScoreInv => PlayedAsComposed
  <2> SUFFICES ASSUME ToneInv, ScoreInv PROVE PlayedAsComposed
    OBVIOUS
  <2> QED
    BY <1>1, ScoreTypes DEF ScoreInv, PlayedAsComposed, ToneInv
<1> QED
  BY <1>2, ToneInvariance, ScoreInitially, ScoreKept, PTL DEF ToneSpec
-----------------------------------------------------------------------------
(* A player that is fast enough, and the sound of what it plays *)

\* A player that is in time does not let the driver run dry, for what it has
\* written since a block ended is still in the queue when the next one ends.
InTime ==
    in_time => i2s # "error" /\ (i2s = "running" /\ wrote => i2s_queue # <<>>)

\* While every buffer is queued or transmitted, and there are two, one is queued.
LEMMA QueueNotEmpty ==
    ASSUME ToneInv, player = "alloc", tx_mem_slab = {},
           NEW a \in ToneBlocks, NEW b \in ToneBlocks, a # b
    PROVE  i2s_queue # <<>>
<1>1. mem_block \notin ToneBlocks
  BY DEF ToneInv, PlayerPlace
<1>2. InQueue(a) \/ InQueue(b)
  BY <1>1 DEF ToneInv, BlocksInOnePlace
<1>3. Len(i2s_queue) # 0
  BY <1>2 DEF InQueue
<1> QED
  BY <1>3, EmptySeq

\* When main() writes a block, if it has a buffer, for each that is played, two
\* buffers are enough: the driver never runs out of blocks.
THEOREM NeverRunsDry ==
    ASSUME \E a, b \in ToneBlocks : a # b
    PROVE  ToneSpec => [](in_time => i2s # "error")
<1>1. ToneInit => InTime
  BY DEF ToneInit, InTime
<1>2. ToneInv /\ InTime /\ [ToneNext]_toneVars => InTime'
  <2> SUFFICES ASSUME ToneInv, InTime, [ToneNext]_toneVars PROVE InTime'
    OBVIOUS
  <2>1. CASE Setup
    <3>1. i2s' \in {i2s, "ready"} /\ i2s = "down"
      BY <2>1 DEF Setup, Player, ToneInv, PlayerPlace
    <3> QED
      BY <3>1 DEF InTime
  <2>2. CASE BlockPlayed
    <3>1. in_time => i2s_queue # <<>>
      BY <2>2, QueueNotEmpty DEF BlockPlayed, InTime
    <3> QED
      BY <2>2, <3>1 DEF BlockPlayed, InTime
  <2>3. CASE Trigger
    BY <2>3 DEF Trigger, InTime
  <2>4. CASE Write
    <3>1. i2s_queue' = Append(i2s_queue, mem_block) /\ mem_block \in ToneBlocks
      BY <2>4 DEF Write, Player, ToneInv, PlayerPlace
    <3>2. Len(i2s_queue') # 0
      BY <3>1, QueueGrows
    <3>3. i2s_queue' # <<>>
      BY <3>2
    <3> QED
      BY <2>4, <3>3 DEF Write, InTime
  <2>5. CASE ~Setup /\ ~BlockPlayed /\ ~Trigger /\ ~Write
    <3>1. UNCHANGED <<i2s, i2s_queue, in_time, wrote>>
      BY <2>5 DEF ToneNext, ToneMain, Alloc, AllocTimesOut, Generate, WriteFails, Sleep,
                  toneVars, i2sVars
    <3> QED
      BY <3>1 DEF InTime
  <2> QED
    BY <2>1, <2>2, <2>3, <2>4, <2>5
<1>3. ToneSpec => []InTime
  BY <1>1, <1>2, ToneInvariance, PTL DEF ToneSpec
<1>4. InTime => (in_time => i2s # "error")
  BY DEF InTime
<1> QED
  BY <1>3, <1>4, PTL

\* Below the overflow of generate_tone()'s product, its angle is the true one.
LEMMA AngleExact ==
    ASSUME NEW p \in Nat, NEW f \in Nat, p * f * 45 < Wrap
    PROVE  Angle(p, f) = TrueAngle(p, f)
<1> DEFINE x == p * f
<1>1. x \in Nat
  OBVIOUS
<1> HIDE DEF x
<1>2. \A y \in Nat : y < 536870912 => y % 536870912 = y
  OBVIOUS
<1>3. \A y \in Nat : (y * 45) \div 2000 = (y * 9) \div 400
  OBVIOUS
<1>4. x * 45 \in Nat /\ x * 45 < 536870912
  BY <1>1 DEF Wrap, x
<1>5. (x * 45) % Wrap = x * 45
  BY <1>2, <1>4 DEF Wrap
<1>6. (x * 45) \div 2000 = (x * 9) \div 400
  BY <1>1, <1>3
<1>7. Angle(p, f) = (((x * 45) % Wrap) \div 2000) % 360
  BY DEF Angle, x
<1>8. TrueAngle(p, f) = ((x * 9) \div 400) % 360
  BY DEF TrueAngle, x
<1> QED
  BY <1>5, <1>6, <1>7, <1>8

\* The blocks whose products all fit: every one of the first tone, the first
\* eight phases of the second and the first five of the third.
BeforeOverflow(c) == c.tone = 1 \/ (c.tone = 2 /\ c.phase < 8) \/ (c.tone = 3 /\ c.phase < 5)

LEMMA RightBeforeOverflow ==
    ASSUME NEW c \in Contents, BeforeOverflow(c)
    PROVE  c \in RightContents
<1> SUFFICES ASSUME NEW s \in 0..SamplesInBlock - 1
             PROVE  Angle(c.phase * SamplesInBlock + s, tone_frequencies[c.tone]) =
                    TrueAngle(c.phase * SamplesInBlock + s, tone_frequencies[c.tone])
  BY DEF RightContents
<1> DEFINE p == c.phase * SamplesInBlock + s
<1>1. c.phase \in 0..9 /\ c.tone \in 1..3 /\ s \in 0..1599
  BY DEF Contents, PhaseBlocks, SamplesInBlock
<1>2. p \in Nat /\ p < (c.phase + 1) * 1600
  BY <1>1 DEF SamplesInBlock
<1> HIDE DEF p
<1>3. CASE c.tone = 1
  <2>1. tone_frequencies[c.tone] = 440
    BY <1>3 DEF tone_frequencies
  <2>2. p * 440 * 45 < Wrap
    BY <1>1, <1>2 DEF Wrap
  <2> QED
    BY <1>2, <2>1, <2>2, AngleExact DEF p
<1>4. CASE c.tone = 2 /\ c.phase < 8
  <2>1. tone_frequencies[c.tone] = 880
    BY <1>4 DEF tone_frequencies
  <2>2. p * 880 * 45 < Wrap
    BY <1>1, <1>2, <1>4 DEF Wrap
  <2> QED
    BY <1>2, <2>1, <2>2, AngleExact DEF p
<1>5. CASE c.tone = 3 /\ c.phase < 5
  <2>1. tone_frequencies[c.tone] = 1320
    BY <1>5 DEF tone_frequencies
  <2>2. p * 1320 * 45 < Wrap
    BY <1>1, <1>2, <1>5 DEF Wrap
  <2> QED
    BY <1>2, <2>1, <2>2, AngleExact DEF p
<1> QED
  BY <1>3, <1>4, <1>5 DEF BeforeOverflow

LEMMA ComposedTyped == ASSUME NEW n \in Nat PROVE Composed(n) \in Contents
<1> DEFINE m == n - 2
           q == m \div BlocksPerTone
           r == m % BlocksPerTone
<1>1. BlocksPerTone \in Nat \ {0} /\ FirstTone >= 2
  BY ToneAssumption DEF FirstTone
<1>2. \A i \in Nat : i % PhaseBlocks \in 0..PhaseBlocks - 1
  BY DEF PhaseBlocks
<1>3. CASE n < FirstTone
  BY <1>2, <1>3 DEF Composed, Contents
<1>4. CASE ~(n < FirstTone)
  <2>1. m \in Nat
    BY <1>1, <1>4 DEF FirstTone
  <2> HIDE DEF m
  <2>2. q \in Nat /\ r \in Nat
    BY <1>1, <2>1
  <2> HIDE DEF q, r
  <2>3. 1 + (q % 3) \in 1..3 /\ r % PhaseBlocks \in 0..PhaseBlocks - 1
    BY <1>2, <2>2
  <2>4. Composed(n) = [tone |-> 1 + (q % 3), phase |-> r % PhaseBlocks]
    BY <1>4 DEF Composed, m, q, r
  <2> QED
    BY <2>3, <2>4 DEF Contents
<1> QED
  BY <1>3, <1>4

\* Where the product of generate_tone() does not overflow, what is transmitted
\* is a sine of its tone's frequency: the pitch is wrong nowhere else.
THEOREM PitchBeforeOverflow ==
    ToneSpec => [](i2s_dma # NoBlock /\ BeforeOverflow(block[i2s_dma]) => ToneHasItsPitch)
<1>1. ToneInv /\ PlayedAsComposed /\ i2s_dma # NoBlock /\ BeforeOverflow(block[i2s_dma])
         => ToneHasItsPitch
  BY ScoreTypes, ComposedTyped, RightBeforeOverflow DEF PlayedAsComposed, ToneHasItsPitch
<1> QED
  BY <1>1, ToneInvariance, PlaysTheComposition, PTL
==============================================================================
