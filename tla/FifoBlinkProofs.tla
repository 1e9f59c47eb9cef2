---------------------------- MODULE FifoBlinkProofs ----------------------------
(***************************************************************************)
(* For every number of LEDs, their sleeps, the blocks the heap has and any *)
(* order of the threads' steps, the console reports every toggle of every  *)
(* LED once, in order and without a gap: FifoBlink implements BlinkLog.    *)
(***************************************************************************)
EXTENDS FifoBlink, SequenceTheorems, FiniteSetTheorems, TLAPS

Queued == 1..Len(printk_fifo)

\* The message in place i of the FIFO.
Msg(i) == heap[printk_fifo[i]]

\* The toggles of LED l that have left the FIFO, the one being printed included.
Printing(l) == uart = "print" /\ heap[rx_data].led = l
Taken(l) == printed[l] + (IF Printing(l) THEN 1 ELSE 0)

\* A thread has a block exactly while it needs one.
Holders ==
    /\ \A l \in Leds : mem_ptr[l] \in Blocks <=> thread[l] \in {"fill", "put"}
    /\ rx_data \in Blocks <=> uart \in {"print", "free"}

\* A block is allocated while anybody has it, and only one has it.
OneHolder ==
    /\ \A i, j \in Queued : printk_fifo[i] = printk_fifo[j] => i = j
    /\ \A i \in Queued : printk_fifo[i] \in allocated /\ printk_fifo[i] # rx_data
    /\ rx_data # None => rx_data \in allocated
    /\ \A l \in Leds :
          mem_ptr[l] # None =>
              /\ mem_ptr[l] \in allocated /\ mem_ptr[l] # rx_data
              /\ \A i \in Queued : printk_fifo[i] # mem_ptr[l]
              /\ \A m \in Leds : mem_ptr[m] = mem_ptr[l] => m = l

\* What is put on the FIFO is the toggle just made.
Filled == \A l \in Leds : thread[l] = "put" => heap[mem_ptr[l]] = [led |-> l, cnt |-> cnt[l]]

\* The FIFO holds, of each LED, the toggles from Taken to Sent in their order.
Ordered ==
    \A i, j \in Queued : i < j /\ Msg(i).led = Msg(j).led => Msg(i).cnt < Msg(j).cnt
Bounded ==
    \A i \in Queued, l \in Leds :
        Msg(i).led = l => Taken(l) <= Msg(i).cnt /\ Msg(i).cnt < Sent(l)
Complete ==
    \A l \in Leds, n \in Nat :
        Taken(l) <= n /\ n < Sent(l) => \E i \in Queued : Msg(i) = [led |-> l, cnt |-> n]
PrintsNext ==
    \A l \in Leds :
        Printing(l) => heap[rx_data].cnt = printed[l] /\ heap[rx_data].cnt < Sent(l)
NotAhead == \A l \in Leds : Taken(l) <= Sent(l)
Transit == Ordered /\ Bounded /\ Complete /\ NotAhead /\ PrintsNext

ThreadsInv == ThreadsTypeOK /\ Holders /\ OneHolder /\ Filled /\ Transit

\* The types, one by one.
LEMMA Types ==
    ASSUME ThreadsInv
    PROVE  /\ \A l \in Leds : /\ mem_ptr[l] \in Blocks \cup {None} /\ cnt[l] \in 0..MaxCount
                              /\ cnt[l] \in Nat /\ printed[l] \in Nat
                              /\ Sent(l) \in Nat /\ Taken(l) \in Nat
           /\ printk_fifo \in Seq(Blocks) /\ Len(printk_fifo) \in Nat
           /\ \A i \in Queued : /\ printk_fifo[i] \in Blocks /\ Msg(i) \in Messages
                                /\ Msg(i).led \in Leds /\ Msg(i).cnt \in 0..MaxCount
           /\ \A b \in Blocks : heap[b].led \in Leds /\ heap[b].cnt \in 0..MaxCount
<1>1. printk_fifo \in Seq(Blocks) /\ heap \in [Blocks -> Messages]
  BY DEF ThreadsInv, ThreadsTypeOK
<1>2. Len(printk_fifo) \in Nat /\ \A i \in Queued : printk_fifo[i] \in Blocks
  BY <1>1, LenProperties, ElementOfSeq DEF Queued
<1>3. \A b \in Blocks : heap[b] \in Messages
  BY <1>1
<1>4. \A m \in Messages : m.led \in Leds /\ m.cnt \in 0..MaxCount
  BY DEF Messages
<1>5. MaxCount \in Nat
  BY ThreadsAssumption
<1>6. ASSUME NEW l \in Leds
      PROVE  /\ mem_ptr[l] \in Blocks \cup {None} /\ cnt[l] \in 0..MaxCount
             /\ cnt[l] \in Nat /\ printed[l] \in Nat
             /\ Sent(l) \in Nat /\ Taken(l) \in Nat
  <2>1. mem_ptr[l] \in Blocks \cup {None} /\ cnt[l] \in 0..MaxCount /\ printed[l] \in Nat
    BY DEF ThreadsInv, ThreadsTypeOK
  <2> QED
    BY <2>1, <1>5 DEF Sent, Taken
<1> QED
  BY <1>1, <1>2, <1>3, <1>4, <1>6 DEF Msg

LEMMA ThreadsInitially == ThreadsInit => ThreadsInv
<1> SUFFICES ASSUME ThreadsInit PROVE ThreadsInv
  OBVIOUS
<1>1. printk_fifo \in Seq(Blocks) /\ Queued = {}
  BY EmptySeq DEF ThreadsInit, Queued
<1>2. uart = "get" /\ rx_data = None /\ allocated = {}
  BY DEF ThreadsInit
<1>3. \A l \in Leds : thread[l] = "start" /\ cnt[l] = 0 /\ left[l] = 0 /\ mem_ptr[l] = None
                      /\ printed[l] = 0
  BY DEF ThreadsInit
<1>4. ThreadsTypeOK
  <2>1. heap \in [Blocks -> Messages]
    <3>1. (CHOOSE l \in Leds : TRUE) \in Leds /\ 0 \in 0..MaxCount
      BY ThreadsAssumption
    <3> QED
      BY <3>1 DEF ThreadsInit, Messages
  <2>2. 0 \in 0..MaxCount
    BY ThreadsAssumption
  <2>3. /\ thread \in [Leds -> {"start"}] /\ mem_ptr \in [Leds -> {None}]
        /\ cnt \in [Leds -> 0..MaxCount] /\ left \in [Leds -> Nat] /\ printed \in [Leds -> Nat]
    BY <2>2 DEF ThreadsInit
  <2> QED
    BY <1>1, <1>2, <2>1, <2>3 DEF ThreadsTypeOK
<1>5. Holders /\ OneHolder /\ Filled
  BY <1>1, <1>2, <1>3, PointersAssumption DEF Holders, OneHolder, Filled
<1>6. Transit
  BY <1>1, <1>2, <1>3 DEF Transit, Ordered, Bounded, Complete, NotAhead, PrintsNext, Sent, Taken, Printing
<1> QED
  BY <1>4, <1>5, <1>6 DEF ThreadsInv

\* Every step keeps the types.
LEMMA ThreadsTyped == ThreadsInv /\ [ThreadsNext]_threadsVars => ThreadsTypeOK'
<1> SUFFICES ASSUME ThreadsInv, [ThreadsNext]_threadsVars PROVE ThreadsTypeOK'
  OBVIOUS
<1>0. ThreadsTypeOK
  BY DEF ThreadsInv
<1> USE <1>0 DEF Thread
<1>1. ASSUME NEW l \in Leds, Start(l) PROVE ThreadsTypeOK'
  BY <1>1 DEF Start, ThreadsTypeOK, uartVars
<1>2. ASSUME NEW l \in Leds, Malloc(l) PROVE ThreadsTypeOK'
  <2>1. PICK b \in IF Blocks \subseteq allocated THEN {None} ELSE Blocks \ allocated :
          /\ Thread(l, "malloc", IF b = None THEN "fault" ELSE "fill")
          /\ mem_ptr' = [mem_ptr EXCEPT ![l] = b]
          /\ allocated' = allocated \cup ({b} \cap Blocks)
    BY <1>2 DEF Malloc
  <2>2. b \in Blocks \cup {None}
    BY <2>1
  <2>3. UNCHANGED <<cnt, left, heap, printk_fifo, uart, rx_data, printed>>
    BY <1>2 DEF Malloc, uartVars
  <2> QED
    BY <2>1, <2>2, <2>3 DEF ThreadsTypeOK
<1>3. ASSUME NEW l \in Leds, Fill(l) PROVE ThreadsTypeOK'
  <2>1. [led |-> l, cnt |-> cnt[l]] \in Messages
    BY DEF ThreadsTypeOK, Messages
  <2> QED
    BY <1>3, <2>1 DEF Fill, ThreadsTypeOK, uartVars
<1>4. ASSUME NEW l \in Leds, Put(l) PROVE ThreadsTypeOK'
  <2>1. printk_fifo' \in Seq(Blocks)
    <3>1. mem_ptr[l] \in Blocks /\ printk_fifo \in Seq(Blocks)
      BY <1>4 DEF Put, ThreadsInv, Holders, ThreadsTypeOK
    <3>2. printk_fifo' = Append(printk_fifo, mem_ptr[l])
      BY <1>4 DEF Put
    <3> HIDE <1>0
    <3> QED
      BY <3>1, <3>2, AppendProperties
  <2>2. SleepTime[l] \in Nat
    BY ThreadsAssumption
  <2>3. /\ thread' = [thread EXCEPT ![l] = "sleep"] /\ mem_ptr' = [mem_ptr EXCEPT ![l] = None]
        /\ left' = [left EXCEPT ![l] = SleepTime[l]]
        /\ UNCHANGED <<cnt, allocated, heap, uart, rx_data, printed>>
    BY <1>4 DEF Put, uartVars
  <2> QED
    BY <2>1, <2>2, <2>3 DEF ThreadsTypeOK
<1>5. ASSUME NEW l \in Leds, Wake(l) PROVE ThreadsTypeOK'
  <2>1. cnt[l] + 1 \in 0..MaxCount
    BY <1>5, ThreadsAssumption DEF Wake, ThreadsTypeOK
  <2> QED
    BY <1>5, <2>1 DEF Wake, ThreadsTypeOK, uartVars
<1>6. CASE Get
  <2>1. Head(printk_fifo) \in Blocks /\ Tail(printk_fifo) \in Seq(Blocks)
    <3>1. printk_fifo \in Seq(Blocks) /\ printk_fifo # <<>>
      BY <1>6 DEF Get, ThreadsTypeOK
    <3> HIDE <1>0
    <3> QED
      BY <3>1, HeadTailProperties
  <2>2. /\ uart' = "print" /\ rx_data' = Head(printk_fifo) /\ printk_fifo' = Tail(printk_fifo)
        /\ UNCHANGED <<thread, cnt, left, mem_ptr, allocated, heap, printed>>
    BY <1>6 DEF Get, producerVars
  <2> QED
    BY <2>1, <2>2 DEF ThreadsTypeOK
<1>7. CASE Printk
  <2>1. rx_data \in Blocks
    BY <1>7 DEF Printk, ThreadsInv, Holders
  <2>2. heap[rx_data].cnt + 1 \in Nat
    <3>1. heap[rx_data] \in Messages
      BY <2>1 DEF ThreadsTypeOK
    <3> HIDE <1>0
    <3> QED
      BY <3>1, ThreadsAssumption DEF Messages
  <2>3. /\ uart' = "free"
        /\ printed' = [printed EXCEPT ![heap[rx_data].led] = heap[rx_data].cnt + 1]
        /\ UNCHANGED <<thread, cnt, left, mem_ptr, allocated, heap, printk_fifo, rx_data>>
    BY <1>7 DEF Printk, producerVars
  <2> QED
    BY <2>2, <2>3 DEF ThreadsTypeOK
<1>8. CASE Free
  BY <1>8 DEF Free, ThreadsTypeOK, producerVars
<1>9. CASE Tick
  BY <1>9 DEF Tick, ThreadsTypeOK, uartVars
<1>10. CASE UNCHANGED threadsVars
  BY <1>10 DEF threadsVars, producerVars, uartVars, ThreadsTypeOK
<1> QED
  BY <1>1, <1>2, <1>3, <1>4, <1>5, <1>6, <1>7, <1>8, <1>9, <1>10 DEF ThreadsNext, Blink, UartOut

\* The FIFO's operations, place by place.
LEMMA PutGrows ==
    ASSUME ThreadsInv, NEW l \in Leds, Put(l)
    PROVE  /\ mem_ptr[l] \in Blocks /\ thread[l] = "put"
           /\ Len(printk_fifo') = Len(printk_fifo) + 1 /\ Len(printk_fifo) \in Nat
           /\ \A i \in Queued : printk_fifo'[i] = printk_fifo[i]
           /\ printk_fifo'[Len(printk_fifo) + 1] = mem_ptr[l]
           /\ \A i : i \in Queued' <=> i \in Queued \/ i = Len(printk_fifo) + 1
<1>1. mem_ptr[l] \in Blocks /\ thread[l] = "put" /\ printk_fifo' = Append(printk_fifo, mem_ptr[l])
  BY DEF Put, Thread, ThreadsInv, Holders
<1>2. printk_fifo \in Seq(Blocks) /\ Len(printk_fifo) \in Nat
  BY Types
<1>3. /\ Len(printk_fifo') = Len(printk_fifo) + 1
      /\ \A i \in Queued : printk_fifo'[i] = printk_fifo[i]
      /\ printk_fifo'[Len(printk_fifo) + 1] = mem_ptr[l]
  BY <1>1, <1>2, AppendProperties DEF Queued
<1> QED
  BY <1>1, <1>2, <1>3 DEF Queued

LEMMA GetShrinks ==
    ASSUME ThreadsInv, Get
    PROVE  /\ Len(printk_fifo') = Len(printk_fifo) - 1 /\ Len(printk_fifo) \in Nat \ {0}
           /\ 1 \in Queued /\ rx_data' = printk_fifo[1]
           /\ \A i \in Queued' : i + 1 \in Queued /\ printk_fifo'[i] = printk_fifo[i + 1]
           /\ \A i \in Queued : i = 1 \/ i - 1 \in Queued'
<1>1. printk_fifo \in Seq(Blocks) /\ Len(printk_fifo) \in Nat
  BY Types
<1>2. printk_fifo # <<>> /\ printk_fifo' = Tail(printk_fifo) /\ rx_data' = Head(printk_fifo)
  BY DEF Get
<1>3. /\ Len(printk_fifo') = Len(printk_fifo) - 1 /\ Len(printk_fifo) # 0
      /\ \A i \in 1..Len(printk_fifo') : printk_fifo'[i] = printk_fifo[i + 1]
  BY <1>1, <1>2, HeadTailProperties, EmptySeq, LenProperties
<1>4. rx_data' = printk_fifo[1]
  BY <1>2
<1> QED
  BY <1>1, <1>3, <1>4 DEF Queued

\* What a step does to the threads' own state.
LEMMA ThreadMoves ==
    ASSUME ThreadsInv, NEW l \in Leds, NEW to, thread' = [thread EXCEPT ![l] = to]
    PROVE  thread'[l] = to /\ \A m \in Leds \ {l} : thread'[m] = thread[m]
BY DEF ThreadsInv, ThreadsTypeOK

LEMMA PointerMoves ==
    ASSUME ThreadsInv, NEW l \in Leds, NEW b, mem_ptr' = [mem_ptr EXCEPT ![l] = b]
    PROVE  mem_ptr'[l] = b /\ \A m \in Leds \ {l} : mem_ptr'[m] = mem_ptr[m]
BY DEF ThreadsInv, ThreadsTypeOK

\* Every step keeps who has a block.
LEMMA ThreadsHold == ThreadsInv /\ [ThreadsNext]_threadsVars => Holders'
<1> SUFFICES ASSUME ThreadsInv, [ThreadsNext]_threadsVars PROVE Holders'
  OBVIOUS
<1>0. /\ \A l \in Leds : mem_ptr[l] \in Blocks <=> thread[l] \in {"fill", "put"}
      /\ rx_data \in Blocks <=> uart \in {"print", "free"}
  BY DEF ThreadsInv, Holders
<1>1. ASSUME NEW l \in Leds, Start(l) \/ Fill(l) \/ Wake(l) PROVE Holders'
  <2>1. /\ UNCHANGED <<mem_ptr, uart, rx_data>>
        /\ \E to : /\ thread' = [thread EXCEPT ![l] = to]
                   /\ to \in {"fill", "put"} <=> thread[l] \in {"fill", "put"}
    BY <1>1 DEF Start, Fill, Wake, Thread, uartVars
  <2> QED
    BY <1>0, <2>1, ThreadMoves DEF Holders
<1>2. ASSUME NEW l \in Leds, Malloc(l) PROVE Holders'
  <2>1. PICK b \in IF Blocks \subseteq allocated THEN {None} ELSE Blocks \ allocated :
          /\ thread' = [thread EXCEPT ![l] = IF b = None THEN "fault" ELSE "fill"]
          /\ mem_ptr' = [mem_ptr EXCEPT ![l] = b]
    BY <1>2 DEF Malloc, Thread
  <2>2. UNCHANGED <<uart, rx_data>>
    BY <1>2 DEF Malloc, uartVars
  <2>3. b = None \/ b \in Blocks
    BY <2>1
  <2>4. /\ thread'[l] = (IF b = None THEN "fault" ELSE "fill")
        /\ \A m \in Leds \ {l} : thread'[m] = thread[m]
    BY <2>1, ThreadMoves
  <2>5. mem_ptr'[l] = b /\ \A m \in Leds \ {l} : mem_ptr'[m] = mem_ptr[m]
    BY <2>1, PointerMoves
  <2> QED
    BY <1>0, <2>2, <2>3, <2>4, <2>5, PointersAssumption DEF Holders
<1>3. ASSUME NEW l \in Leds, Put(l) PROVE Holders'
  <2>1. /\ thread' = [thread EXCEPT ![l] = "sleep"] /\ mem_ptr' = [mem_ptr EXCEPT ![l] = None]
        /\ UNCHANGED <<uart, rx_data>>
    BY <1>3 DEF Put, Thread, uartVars
  <2>2. thread'[l] = "sleep" /\ \A m \in Leds \ {l} : thread'[m] = thread[m]
    BY <2>1, ThreadMoves
  <2>3. mem_ptr'[l] = None /\ \A m \in Leds \ {l} : mem_ptr'[m] = mem_ptr[m]
    BY <2>1, PointerMoves
  <2> QED
    BY <1>0, <2>1, <2>2, <2>3, PointersAssumption DEF Holders
<1>4. CASE Get
  <2>1. uart' = "print" /\ UNCHANGED <<thread, mem_ptr>>
    BY <1>4 DEF Get, producerVars
  <2>2. rx_data' \in Blocks
    BY <1>4, GetShrinks, Types
  <2> QED
    BY <1>0, <2>1, <2>2 DEF Holders
<1>5. CASE Printk \/ Free \/ Tick \/ UNCHANGED threadsVars
  <2>1. /\ UNCHANGED <<thread, mem_ptr>>
        /\ \/ uart = "print" /\ uart' = "free" /\ UNCHANGED rx_data
           \/ uart' = "get" /\ rx_data' = None
           \/ UNCHANGED <<uart, rx_data>>
    BY <1>5 DEF Printk, Free, Tick, threadsVars, producerVars, uartVars
  <2> QED
    BY <1>0, <2>1, PointersAssumption DEF Holders
<1> QED
  BY <1>1, <1>2, <1>3, <1>4, <1>5 DEF ThreadsNext, Blink, UartOut

\* Every step keeps a block in one place.
LEMMA ThreadsOwn == ThreadsInv /\ [ThreadsNext]_threadsVars => OneHolder'
<1> SUFFICES ASSUME ThreadsInv, [ThreadsNext]_threadsVars PROVE OneHolder'
  OBVIOUS
<1>0. /\ \A i, j \in Queued : printk_fifo[i] = printk_fifo[j] => i = j
      /\ \A i \in Queued : printk_fifo[i] \in allocated /\ printk_fifo[i] # rx_data
      /\ rx_data # None => rx_data \in allocated
      /\ \A l \in Leds :
            mem_ptr[l] # None =>
                /\ mem_ptr[l] \in allocated /\ mem_ptr[l] # rx_data
                /\ \A i \in Queued : printk_fifo[i] # mem_ptr[l]
                /\ \A m \in Leds : mem_ptr[m] = mem_ptr[l] => m = l
  BY DEF ThreadsInv, OneHolder
<1>1. CASE \/ \E l \in Leds : Start(l) \/ Fill(l) \/ Wake(l)
           \/ Printk \/ Tick \/ UNCHANGED threadsVars
  <2>1. UNCHANGED <<mem_ptr, rx_data, printk_fifo, allocated>>
    BY <1>1 DEF Start, Fill, Wake, Printk, Tick, threadsVars, producerVars, uartVars
  <2> QED
    BY <1>0, <2>1 DEF OneHolder, Queued
<1>2. ASSUME NEW l \in Leds, Malloc(l) PROVE OneHolder'
  <2>1. PICK b \in IF Blocks \subseteq allocated THEN {None} ELSE Blocks \ allocated :
          /\ mem_ptr' = [mem_ptr EXCEPT ![l] = b]
          /\ allocated' = allocated \cup ({b} \cap Blocks)
    BY <1>2 DEF Malloc
  <2>2. UNCHANGED <<rx_data, printk_fifo>>
    BY <1>2 DEF Malloc, uartVars
  <2>3. mem_ptr'[l] = b /\ \A m \in Leds \ {l} : mem_ptr'[m] = mem_ptr[m]
    BY <2>1, PointerMoves
  <2>4. Queued' = Queued /\ \A i \in Queued : printk_fifo'[i] = printk_fifo[i]
    BY <2>2 DEF Queued
  <2>5. CASE b = None
    <3>1. allocated' = allocated
      BY <2>1, <2>5, PointersAssumption
    <3> QED
      BY <1>0, <2>2, <2>3, <2>4, <2>5, <3>1 DEF OneHolder
  <2>6. CASE b # None
    <3>1. b \notin allocated /\ allocated' = allocated \cup {b} /\ b # rx_data
          /\ \A i \in Queued : printk_fifo[i] # b
          /\ \A m \in Leds : mem_ptr[m] # b
      BY <1>0, <2>1, <2>6
    <3> QED
      BY <1>0, <2>2, <2>3, <2>4, <2>6, <3>1 DEF OneHolder
  <2> QED
    BY <2>5, <2>6
<1>3. ASSUME NEW l \in Leds, Put(l) PROVE OneHolder'
  <2>1. UNCHANGED <<allocated, rx_data>> /\ mem_ptr' = [mem_ptr EXCEPT ![l] = None]
    BY <1>3 DEF Put, uartVars
  <2>2. mem_ptr'[l] = None /\ \A m \in Leds \ {l} : mem_ptr'[m] = mem_ptr[m]
    BY <2>1, PointerMoves
  <2>3. mem_ptr[l] # None
    BY <1>3, PutGrows, PointersAssumption
  <2>4. /\ \A i, j \in Queued' : printk_fifo'[i] = printk_fifo'[j] => i = j
        /\ \A i \in Queued' : printk_fifo'[i] \in allocated /\ printk_fifo'[i] # rx_data
    BY <1>0, <1>3, <2>3, PutGrows
  <2>5. ASSUME NEW m \in Leds, mem_ptr'[m] # None
        PROVE  /\ m # l /\ mem_ptr'[m] = mem_ptr[m]
               /\ \A i \in Queued' : printk_fifo'[i] # mem_ptr[m]
               /\ \A k \in Leds : mem_ptr'[k] = mem_ptr[m] => k = m
    <3>1. m # l /\ mem_ptr'[m] = mem_ptr[m] /\ mem_ptr[m] # None
      BY <2>2, <2>5
    <3>2. mem_ptr[m] # mem_ptr[l]
      BY <1>0, <3>1
    <3>3. \A i \in Queued' : printk_fifo'[i] # mem_ptr[m]
      BY <1>0, <1>3, <3>1, <3>2, PutGrows
    <3>4. \A k \in Leds : mem_ptr'[k] = mem_ptr[m] => k = m
      BY <1>0, <2>2, <3>1
    <3> QED
      BY <3>1, <3>3, <3>4
  <2> QED
    BY <1>0, <2>1, <2>4, <2>5 DEF OneHolder
<1>4. CASE Get
  <2>1. UNCHANGED <<allocated, mem_ptr>>
    BY <1>4 DEF Get, producerVars
  <2>2. \A i \in Queued' : printk_fifo'[i] # rx_data'
    <3>1. \A i \in Queued' : i \in Nat /\ i # 0
      BY <1>4, GetShrinks DEF Queued
    <3> QED
      BY <1>0, <1>4, <3>1, GetShrinks
  <2>3. \A i, j \in Queued' : printk_fifo'[i] = printk_fifo'[j] => i = j
    <3>1. \A i \in Queued' : i \in Nat
      BY <1>4, GetShrinks DEF Queued
    <3> QED
      BY <1>0, <1>4, <3>1, GetShrinks
  <2>4. \A i \in Queued' : printk_fifo'[i] \in allocated'
    BY <1>0, <1>4, <2>1, GetShrinks
  <2>5. rx_data' \in allocated'
    BY <1>0, <1>4, <2>1, GetShrinks
  <2>6. \A l \in Leds :
          mem_ptr[l] # None => mem_ptr[l] # rx_data' /\ \A i \in Queued' : printk_fifo'[i] # mem_ptr[l]
    BY <1>0, <1>4, GetShrinks
  <2> QED
    BY <1>0, <2>1, <2>2, <2>3, <2>4, <2>5, <2>6 DEF OneHolder
<1>5. CASE Free
  <2>1. /\ rx_data' = None /\ allocated' = allocated \ {rx_data}
        /\ UNCHANGED <<mem_ptr, printk_fifo>>
    BY <1>5 DEF Free, producerVars
  <2>2. \A i \in Queued : printk_fifo[i] # None
    BY Types, PointersAssumption
  <2>3. Queued' = Queued
    BY <2>1 DEF Queued
  <2> QED
    BY <1>0, <2>1, <2>2, <2>3 DEF OneHolder
<1> QED
  BY <1>1, <1>2, <1>3, <1>4, <1>5 DEF ThreadsNext, Blink, UartOut

\* Every step keeps what is to be put on the FIFO.
LEMMA ThreadsFill == ThreadsInv /\ [ThreadsNext]_threadsVars => Filled'
<1> SUFFICES ASSUME ThreadsInv, [ThreadsNext]_threadsVars PROVE Filled'
  OBVIOUS
<1>0. \A l \in Leds : thread[l] = "put" => heap[mem_ptr[l]] = [led |-> l, cnt |-> cnt[l]]
  BY DEF ThreadsInv, Filled
<1>1. CASE Get \/ Printk \/ Free \/ Tick \/ UNCHANGED threadsVars
  <2>1. UNCHANGED <<thread, mem_ptr, heap, cnt>>
    BY <1>1 DEF Get, Printk, Free, Tick, threadsVars, producerVars
  <2> QED
    BY <1>0, <2>1 DEF Filled
<1>2. ASSUME NEW l \in Leds, Start(l) \/ Malloc(l) \/ Put(l) \/ Wake(l) PROVE Filled'
  <2>1. /\ heap' = heap /\ \E to : to # "put" /\ thread' = [thread EXCEPT ![l] = to]
        /\ \A m \in Leds \ {l} : mem_ptr'[m] = mem_ptr[m] /\ cnt'[m] = cnt[m]
    <3>1. ASSUME NEW b, mem_ptr' = [mem_ptr EXCEPT ![l] = b]
          PROVE  \A m \in Leds \ {l} : mem_ptr'[m] = mem_ptr[m]
      BY <3>1, PointerMoves
    <3>2. \A n : cnt' = [cnt EXCEPT ![l] = n] => \A m \in Leds \ {l} : cnt'[m] = cnt[m]
      BY DEF ThreadsInv, ThreadsTypeOK
    <3> QED
      BY <1>2, <3>1, <3>2 DEF Start, Malloc, Put, Wake, Thread
  <2>2. thread'[l] # "put" /\ \A m \in Leds \ {l} : thread'[m] = thread[m]
    BY <2>1, ThreadMoves
  <2> QED
    BY <1>0, <2>1, <2>2 DEF Filled
<1>3. ASSUME NEW l \in Leds, Fill(l) PROVE Filled'
  <2>1. /\ thread[l] = "fill" /\ thread' = [thread EXCEPT ![l] = "put"]
        /\ heap' = [heap EXCEPT ![mem_ptr[l]] = [led |-> l, cnt |-> cnt[l]]]
        /\ UNCHANGED <<mem_ptr, cnt>>
    BY <1>3 DEF Fill, Thread
  <2>2. mem_ptr[l] \in Blocks
    BY <2>1 DEF ThreadsInv, Holders
  <2>3. heap'[mem_ptr[l]] = [led |-> l, cnt |-> cnt[l]]
        /\ \A b \in Blocks \ {mem_ptr[l]} : heap'[b] = heap[b]
    BY <2>1, <2>2 DEF ThreadsInv, ThreadsTypeOK
  <2>4. ASSUME NEW m \in Leds, m # l, thread[m] = "put"
        PROVE  mem_ptr[m] \in Blocks \ {mem_ptr[l]}
    <3>1. mem_ptr[m] \in Blocks
      BY <2>4 DEF ThreadsInv, Holders
    <3> QED
      BY <2>2, <2>4, <3>1, PointersAssumption DEF ThreadsInv, OneHolder
  <2> QED
    BY <1>0, <2>1, <2>3, <2>4, ThreadMoves DEF Filled
<1> QED
  BY <1>1, <1>2, <1>3 DEF ThreadsNext, Blink, UartOut

\* What is in transit depends on the FIFO, its messages and the two counters.
LEMMA TransitKept ==
    ASSUME Transit, UNCHANGED printk_fifo,
           \A i \in Queued : Msg(i)' = Msg(i),
           \A l \in Leds : Sent(l)' = Sent(l) /\ Taken(l)' = Taken(l),
           \A i \in Queued : Msg(i).led \in Leds,
           PrintsNext'
    PROVE  Transit'
<1>1. Queued' = Queued
  BY DEF Queued
<1> QED
  BY <1>1 DEF Transit, Ordered, Bounded, Complete, NotAhead

\* The messages of the FIFO and the one that is printed are nobody else's.
LEMMA MessagesKept ==
    ASSUME ThreadsInv, NEW l \in Leds, Fill(l)
    PROVE  /\ \A i \in Queued : Msg(i)' = Msg(i)
           /\ rx_data \in Blocks => heap'[rx_data] = heap[rx_data]
<1>1. mem_ptr[l] \in Blocks
  BY DEF Fill, Thread, ThreadsInv, Holders
<1>2. heap' = [heap EXCEPT ![mem_ptr[l]] = [led |-> l, cnt |-> cnt[l]]] /\ printk_fifo' = printk_fifo
  BY DEF Fill
<1>3. \A b \in Blocks \ {mem_ptr[l]} : heap'[b] = heap[b]
  BY <1>2 DEF ThreadsInv, ThreadsTypeOK
<1>4. /\ mem_ptr[l] # rx_data
      /\ \A i \in Queued : printk_fifo[i] \in Blocks /\ printk_fifo[i] # mem_ptr[l]
  BY <1>1, Types, PointersAssumption DEF ThreadsInv, OneHolder
<1> QED
  BY <1>2, <1>3, <1>4 DEF Msg

\* A step of a producer other than Put hands nothing over.
LEMMA NothingSent ==
    ASSUME ThreadsInv, NEW l \in Leds, Start(l) \/ Malloc(l) \/ Fill(l) \/ Wake(l)
    PROVE  \A m \in Leds : Sent(m)' = Sent(m)
<1>1. CASE Start(l) \/ Malloc(l) \/ Fill(l)
  <2>1. /\ UNCHANGED cnt /\ thread[l] # "sleep"
        /\ \E to : to # "sleep" /\ thread' = [thread EXCEPT ![l] = to]
    BY <1>1 DEF Start, Malloc, Fill, Thread
  <2>2. thread'[l] # "sleep" /\ \A m \in Leds \ {l} : thread'[m] = thread[m]
    BY <2>1, ThreadMoves
  <2> QED
    BY <2>1, <2>2 DEF Sent
<1>2. CASE Wake(l)
  <2>1. /\ thread[l] = "sleep" /\ thread' = [thread EXCEPT ![l] = "malloc"]
        /\ cnt' = [cnt EXCEPT ![l] = cnt[l] + 1]
    BY <1>2 DEF Wake, Thread
  <2>2. thread'[l] = "malloc" /\ \A m \in Leds \ {l} : thread'[m] = thread[m]
    BY <2>1, ThreadMoves
  <2>3. cnt'[l] = cnt[l] + 1 /\ \A m \in Leds \ {l} : cnt'[m] = cnt[m]
    BY <2>1 DEF ThreadsInv, ThreadsTypeOK
  <2>4. cnt[l] \in Nat
    BY Types
  <2>5. Sent(l) = cnt[l] + 1 /\ Sent(l)' = cnt[l] + 1
    BY <2>1, <2>2, <2>3, <2>4 DEF Sent
  <2>6. \A m \in Leds \ {l} : Sent(m)' = Sent(m)
    BY <2>2, <2>3 DEF Sent
  <2> QED
    BY <2>5, <2>6
<1> QED
  BY <1>1, <1>2

\* Put hands over one toggle.
LEMMA OneSent ==
    ASSUME ThreadsInv, NEW l \in Leds, Put(l)
    PROVE  Sent(l) = cnt[l] /\ Sent(l)' = cnt[l] + 1 /\ \A m \in Leds \ {l} : Sent(m)' = Sent(m)
<1>1. thread[l] = "put" /\ thread' = [thread EXCEPT ![l] = "sleep"] /\ UNCHANGED cnt
  BY DEF Put, Thread
<1>2. thread'[l] = "sleep" /\ \A m \in Leds \ {l} : thread'[m] = thread[m]
  BY <1>1, ThreadMoves
<1>3. cnt[l] \in Nat
  BY Types
<1>4. Sent(l) = cnt[l] /\ Sent(l)' = cnt[l] + 1
  BY <1>1, <1>2, <1>3 DEF Sent
<1>5. \A m \in Leds \ {l} : Sent(m)' = Sent(m)
  BY <1>1, <1>2 DEF Sent
<1> QED
  BY <1>4, <1>5

\* Get takes the next toggle of its LED.
LEMMA GetTakesNext ==
    ASSUME ThreadsInv, Get
    PROVE  /\ Msg(1).led \in Leds /\ Msg(1).cnt = printed[Msg(1).led]
           /\ Msg(1).cnt < Sent(Msg(1).led)
           /\ \A l \in Leds : Taken(l) = printed[l]
           /\ \A l \in Leds : Taken(l)' = printed[l] + (IF l = Msg(1).led THEN 1 ELSE 0)
<1>1. uart = "get" /\ uart' = "print" /\ UNCHANGED <<heap, printed>>
  BY DEF Get
<1>2. \A l \in Leds : Taken(l) = printed[l]
  <2>1. \A l \in Leds : printed[l] \in Nat
    BY Types
  <2> QED
    BY <1>1, <2>1 DEF Taken, Printing
<1>3. 1 \in Queued /\ rx_data' = printk_fifo[1]
  BY GetShrinks
<1>4. Msg(1).led \in Leds /\ Msg(1).cnt \in 0..MaxCount /\ MaxCount \in Nat
  BY <1>3, Types, ThreadsAssumption
<1>5. \A l \in Leds : Taken(l)' = printed[l] + (IF l = Msg(1).led THEN 1 ELSE 0)
  BY <1>1, <1>3 DEF Taken, Printing, Msg
<1>6. printed[Msg(1).led] <= Msg(1).cnt /\ Msg(1).cnt < Sent(Msg(1).led)
  BY <1>2, <1>3, <1>4 DEF ThreadsInv, Transit, Bounded
<1>7. Msg(1).cnt = printed[Msg(1).led]
  <2> DEFINE c == Msg(1).cnt
             l == Msg(1).led
             p == printed[l]
  <2>1. p \in Nat /\ Sent(l) \in Nat /\ c \in Nat
    BY <1>4, Types
  <2>2. p < Sent(l) /\ Taken(l) <= p
    BY <1>2, <1>4, <1>6, <2>1
  <2>3. PICK i \in Queued : Msg(i) = [led |-> l, cnt |-> p]
    BY <1>4, <2>1, <2>2 DEF ThreadsInv, Transit, Complete
  <2>4. Msg(i).led = l /\ Msg(i).cnt = p
    BY <2>3
  <2>5. CASE i = 1
    BY <2>4, <2>5
  <2>6. CASE i # 1
    <3>1. 1 < i
      BY <2>6, Types DEF Queued
    <3>2. c < p
      BY <1>3, <2>4, <3>1 DEF ThreadsInv, Transit, Ordered
    <3> QED
      BY <1>6, <2>1, <3>2
  <2> QED
    BY <2>5, <2>6
<1> QED
  BY <1>2, <1>4, <1>5, <1>6, <1>7

\* Put adds the toggle after all of its LED's.
LEMMA PutInTransit == ASSUME ThreadsInv, NEW l \in Leds, Put(l) PROVE Transit'
<1>0. PICK last \in Nat : last = Len(printk_fifo) + 1
  BY Types
<1>1. UNCHANGED <<heap, uart, rx_data, printed>>
  BY DEF Put, uartVars
<1>2. \A m \in Leds : Taken(m)' = Taken(m)
  BY <1>1 DEF Taken, Printing
<1>3. \A m \in Leds : Taken(m) \in Nat /\ Sent(m) \in Nat /\ cnt[m] \in Nat
  BY Types
<1>4. Sent(l) = cnt[l] /\ Sent(l)' = cnt[l] + 1 /\ \A m \in Leds \ {l} : Sent(m)' = Sent(m)
  BY OneSent
<1>5. \A m \in Leds : Sent(m) <= Sent(m)'
  BY <1>3, <1>4
<1>6. \A i \in Queued : Msg(i)' = Msg(i) /\ Msg(i).led \in Leds /\ Msg(i).cnt \in Nat
                        /\ i \in Nat /\ i < last
  <2>1. \A i \in Queued : Msg(i).led \in Leds /\ Msg(i).cnt \in 0..MaxCount /\ i \in Nat /\ i < last
    BY <1>0, Types DEF Queued
  <2>2. MaxCount \in Nat
    BY ThreadsAssumption
  <2>3. \A i \in Queued : printk_fifo'[i] = printk_fifo[i]
    BY PutGrows
  <2> QED
    BY <1>1, <2>1, <2>2, <2>3 DEF Msg
<1>7. Msg(last)' = [led |-> l, cnt |-> cnt[l]]
  <2>1. printk_fifo'[last] = mem_ptr[l] /\ thread[l] = "put"
    BY <1>0, PutGrows
  <2>2. heap[mem_ptr[l]] = [led |-> l, cnt |-> cnt[l]]
    BY <2>1 DEF ThreadsInv, Filled
  <2> QED
    BY <1>1, <2>1, <2>2 DEF Msg
<1>8. Msg(last)'.led = l /\ Msg(last)'.cnt = cnt[l]
  BY <1>7
<1>9. \A i : i \in Queued' <=> i \in Queued \/ i = last
  BY <1>0, PutGrows
<1>10. \A i \in Queued : Taken(Msg(i).led) <= Msg(i).cnt /\ Msg(i).cnt < Sent(Msg(i).led)
  BY <1>6 DEF ThreadsInv, Transit, Bounded
<1>11. Taken(l) <= cnt[l]
  BY <1>4 DEF ThreadsInv, Transit, NotAhead
<1>12. Ordered'
  <2>1. ASSUME NEW i \in Queued', NEW j \in Queued', i < j, Msg(i)'.led = Msg(j)'.led
        PROVE  Msg(i)'.cnt < Msg(j)'.cnt
    <3>1. CASE j \in Queued
      <4>1. i \in Queued
        BY <1>0, <1>6, <1>9, <2>1, <3>1, Types DEF Queued
      <4> QED
        BY <1>6, <2>1, <3>1, <4>1 DEF ThreadsInv, Transit, Ordered
    <3>2. CASE j = last
      <4>1. i \in Queued
        BY <1>0, <1>9, <2>1, <3>2, Types DEF Queued
      <4>2. Msg(i).led = l /\ Msg(i).cnt < cnt[l]
        BY <1>4, <1>6, <1>8, <1>10, <2>1, <3>2, <4>1
      <4> QED
        BY <1>6, <1>8, <3>2, <4>1, <4>2
    <3> QED
      BY <1>9, <3>1, <3>2
  <2> QED
    BY <2>1 DEF Ordered
<1>13. Bounded'
  <2>1. ASSUME NEW i \in Queued', NEW m \in Leds, Msg(i)'.led = m
        PROVE  Taken(m)' <= Msg(i)'.cnt /\ Msg(i)'.cnt < Sent(m)'
    <3>1. CASE i \in Queued
      <4>1. Msg(i)' = Msg(i) /\ Msg(i).led = m /\ Msg(i).cnt \in Nat
        BY <1>6, <2>1, <3>1
      <4>2. Taken(m)' = Taken(m) /\ Sent(m) <= Sent(m)' /\ Sent(m) \in Nat /\ Sent(m)' \in Nat
        BY <1>2, <1>3, <1>4, <1>5
      <4>3. Taken(m) <= Msg(i).cnt /\ Msg(i).cnt < Sent(m)
        BY <1>10, <3>1, <4>1
      <4> QED
        BY <4>1, <4>2, <4>3
    <3>2. CASE i = last
      BY <1>2, <1>3, <1>4, <1>8, <1>11, <2>1, <3>2
    <3> QED
      BY <1>9, <3>1, <3>2
  <2> QED
    BY <2>1 DEF Bounded
<1>14. Complete'
  <2>1. ASSUME NEW m \in Leds, NEW n \in Nat, Taken(m)' <= n, n < Sent(m)'
        PROVE  \E i \in Queued' : Msg(i)' = [led |-> m, cnt |-> n]
    <3>1. CASE n < Sent(m)
      <4>1. PICK i \in Queued : Msg(i) = [led |-> m, cnt |-> n]
        BY <1>2, <2>1, <3>1 DEF ThreadsInv, Transit, Complete
      <4> QED
        BY <1>6, <1>9, <4>1
    <3>2. CASE ~(n < Sent(m))
      <4>1. m = l /\ n = cnt[l]
        BY <1>3, <1>4, <2>1, <3>2
      <4> QED
        BY <1>7, <1>9, <4>1
    <3> QED
      BY <3>1, <3>2
  <2> QED
    BY <2>1 DEF Complete
<1>15. PrintsNext'
  <2>1. ASSUME NEW m \in Leds, Printing(m)
        PROVE  heap[rx_data].cnt = printed[m] /\ heap[rx_data].cnt < Sent(m)'
    <3>1. heap[rx_data].cnt = printed[m] /\ heap[rx_data].cnt < Sent(m)
      BY <2>1 DEF ThreadsInv, Transit, PrintsNext
    <3>2. printed[m] \in Nat
      BY Types
    <3>3. Sent(m) <= Sent(m)' /\ Sent(m) \in Nat /\ Sent(m)' \in Nat
      BY <1>3, <1>4, <1>5
    <3> QED
      BY <3>1, <3>2, <3>3
  <2> QED
    BY <1>1, <2>1 DEF PrintsNext, Printing
<1>16. NotAhead'
  <2>1. \A m \in Leds : Taken(m) <= Sent(m)
    BY DEF ThreadsInv, Transit, NotAhead
  <2>2. \A m \in Leds : Sent(m)' \in Nat
    BY <1>3, <1>4
  <2>3. \A m \in Leds : Taken(m)' <= Sent(m)'
    BY <1>2, <1>3, <1>5, <2>1, <2>2
  <2> QED
    BY <2>3 DEF NotAhead
<1> QED
  BY <1>12, <1>13, <1>14, <1>15, <1>16 DEF Transit

\* Get moves the first toggle from the FIFO to the printing thread.
LEMMA GetInTransit == ASSUME ThreadsInv, Get PROVE Transit'
<1> DEFINE c == Msg(1).cnt
           l == Msg(1).led
<1>1. UNCHANGED <<thread, cnt, heap, printed>>
  BY DEF Get, producerVars
<1>2. \A m \in Leds : Sent(m)' = Sent(m) /\ Sent(m) \in Nat /\ printed[m] \in Nat
  BY <1>1, Types DEF Sent
<1>3. /\ l \in Leds /\ c = printed[l] /\ c < Sent(l)
      /\ \A m \in Leds : Taken(m) = printed[m]
      /\ \A m \in Leds : Taken(m)' = printed[m] + (IF m = l THEN 1 ELSE 0)
  BY GetTakesNext
<1>4. /\ 1 \in Queued /\ rx_data' = printk_fifo[1]
      /\ \A i \in Queued' : i + 1 \in Queued /\ i \in Nat \ {0}
      /\ \A i \in Queued : i \in Nat \ {0} /\ (i = 1 \/ i - 1 \in Queued')
  BY GetShrinks DEF Queued
<1>5. \A i \in Queued' : Msg(i)' = Msg(i + 1)
  BY <1>1, GetShrinks DEF Msg
<1>6. \A i \in Queued : Msg(i).led \in Leds /\ Msg(i).cnt \in Nat
  <2>1. MaxCount \in Nat
    BY ThreadsAssumption
  <2> QED
    BY <2>1, Types
<1>7. \A i, j \in Queued : i < j /\ Msg(i).led = Msg(j).led => Msg(i).cnt < Msg(j).cnt
  BY DEF ThreadsInv, Transit, Ordered
<1>8. \A i \in Queued : Taken(Msg(i).led) <= Msg(i).cnt /\ Msg(i).cnt < Sent(Msg(i).led)
  BY <1>6 DEF ThreadsInv, Transit, Bounded
<1> HIDE DEF c, l
<1>9. Ordered'
  <2>1. ASSUME NEW i \in Queued', NEW j \in Queued', i < j, Msg(i)'.led = Msg(j)'.led
        PROVE  Msg(i)'.cnt < Msg(j)'.cnt
    <3>1. i + 1 \in Queued /\ j + 1 \in Queued /\ i + 1 < j + 1
      BY <1>4, <2>1
    <3>2. Msg(i)' = Msg(i + 1) /\ Msg(j)' = Msg(j + 1)
      BY <1>5
    <3> QED
      BY <1>7, <2>1, <3>1, <3>2
  <2> QED
    BY <2>1 DEF Ordered
<1>10. Bounded'
  <2>1. ASSUME NEW i \in Queued', NEW m \in Leds, Msg(i)'.led = m
        PROVE  Taken(m)' <= Msg(i)'.cnt /\ Msg(i)'.cnt < Sent(m)'
    <3>1. i + 1 \in Queued /\ Msg(i)' = Msg(i + 1) /\ 1 < i + 1
      BY <1>4, <1>5
    <3>2. Msg(i + 1).led = m /\ Msg(i + 1).cnt \in Nat
          /\ Taken(m) <= Msg(i + 1).cnt /\ Msg(i + 1).cnt < Sent(m)
      BY <1>6, <1>8, <2>1, <3>1
    <3>3. m = l => c < Msg(i + 1).cnt
      BY <1>4, <1>7, <3>1, <3>2 DEF c, l
    <3>4. Taken(m)' <= Msg(i + 1).cnt
      BY <1>2, <1>3, <3>2, <3>3
    <3> QED
      BY <1>2, <3>1, <3>2, <3>4
  <2> QED
    BY <2>1 DEF Bounded
<1>11. Complete'
  <2>1. ASSUME NEW m \in Leds, NEW n \in Nat, Taken(m)' <= n, n < Sent(m)'
        PROVE  \E i \in Queued' : Msg(i)' = [led |-> m, cnt |-> n]
    <3>1. Taken(m) <= n /\ n < Sent(m) /\ ~(m = l /\ n = c)
      BY <1>2, <1>3, <2>1
    <3>2. PICK i \in Queued : Msg(i) = [led |-> m, cnt |-> n]
      BY <3>1 DEF ThreadsInv, Transit, Complete
    <3>3. Msg(i).led = m /\ Msg(i).cnt = n
      BY <3>2
    <3>4. i # 1
      BY <3>1, <3>3 DEF c, l
    <3>5. i - 1 \in Queued' /\ (i - 1) + 1 = i
      BY <1>4, <3>4
    <3>6. Msg(i - 1)' = Msg(i)
      BY <1>5, <3>5
    <3> QED
      BY <3>2, <3>5, <3>6
  <2> QED
    BY <2>1 DEF Complete
<1>12. PrintsNext'
  <2>1. heap'[rx_data'] = Msg(1)
    BY <1>1, <1>4 DEF Msg
  <2> QED
    BY <1>1, <1>2, <1>3, <2>1 DEF PrintsNext, Printing, c, l
<1>13. NotAhead'
  <2>1. ASSUME NEW m \in Leds PROVE Taken(m)' <= Sent(m)'
    <3>1. Taken(m) <= Sent(m)
      BY DEF ThreadsInv, Transit, NotAhead
    <3> QED
      BY <1>2, <1>3, <3>1
  <2> QED
    BY <2>1 DEF NotAhead
<1> QED
  BY <1>9, <1>10, <1>11, <1>12, <1>13 DEF Transit

\* What is printed is the next toggle of its LED, and Taken stays what it was.
LEMMA PrintkReports ==
    ASSUME ThreadsInv, Printk
    PROVE  /\ heap[rx_data].led \in Leds
           /\ printed[heap[rx_data].led] < Sent(heap[rx_data].led)
           /\ printed' = [printed EXCEPT ![heap[rx_data].led] = printed[heap[rx_data].led] + 1]
           /\ \A m \in Leds : Taken(m)' = Taken(m)
           /\ uart' = "free"
<1>1. /\ uart = "print" /\ uart' = "free" /\ UNCHANGED <<heap, rx_data>>
      /\ printed' = [printed EXCEPT ![heap[rx_data].led] = heap[rx_data].cnt + 1]
  BY DEF Printk
<1>2. heap[rx_data].led \in Leds
  BY <1>1, Types DEF ThreadsInv, Holders
<1>3. /\ heap[rx_data].cnt = printed[heap[rx_data].led]
      /\ heap[rx_data].cnt < Sent(heap[rx_data].led)
  BY <1>1, <1>2 DEF ThreadsInv, Transit, PrintsNext, Printing
<1>4. /\ printed'[heap[rx_data].led] = printed[heap[rx_data].led] + 1
      /\ \A m \in Leds \ {heap[rx_data].led} : printed'[m] = printed[m]
      /\ \A m \in Leds : printed[m] \in Nat
  BY <1>1, <1>2, <1>3 DEF ThreadsInv, ThreadsTypeOK
<1>5. \A m \in Leds : Taken(m) = printed[m] + (IF m = heap[rx_data].led THEN 1 ELSE 0)
  BY <1>1 DEF Taken, Printing
<1>6. \A m \in Leds : Taken(m)' = printed'[m] + 0
  BY <1>1 DEF Taken, Printing
<1>7. \A m \in Leds : Taken(m)' = Taken(m)
  BY <1>2, <1>4, <1>5, <1>6
<1> QED
  BY <1>1, <1>2, <1>3, <1>7

\* Every step keeps what is in transit.
LEMMA ThreadsCarry == ThreadsInv /\ [ThreadsNext]_threadsVars => Transit'
<1> SUFFICES ASSUME ThreadsInv, [ThreadsNext]_threadsVars PROVE Transit'
  OBVIOUS
<1>0. Transit /\ PrintsNext /\ \A i \in Queued : Msg(i).led \in Leds
  BY Types DEF ThreadsInv, Transit
<1>1. ASSUME NEW l \in Leds, Start(l) \/ Malloc(l) \/ Fill(l) \/ Wake(l) PROVE Transit'
  <2>1. UNCHANGED <<printk_fifo, uart, rx_data, printed>>
    BY <1>1 DEF Start, Malloc, Fill, Wake, uartVars
  <2>2. /\ \A i \in Queued : Msg(i)' = Msg(i)
        /\ rx_data \in Blocks => heap'[rx_data] = heap[rx_data]
    <3>1. CASE Fill(l)
      BY <3>1, MessagesKept
    <3>2. CASE UNCHANGED heap
      BY <2>1, <3>2 DEF Msg
    <3> QED
      BY <1>1, <3>1, <3>2 DEF Start, Malloc, Wake
  <2>3. \A m \in Leds : Sent(m)' = Sent(m)
    BY <1>1, NothingSent
  <2>4. uart = "print" => rx_data \in Blocks
    BY DEF ThreadsInv, Holders
  <2>5. \A m \in Leds : Taken(m)' = Taken(m)
    BY <2>1, <2>2, <2>4 DEF Taken, Printing
  <2>6. PrintsNext'
    <3>1. ASSUME NEW m \in Leds, Printing(m)'
          PROVE  Printing(m) /\ heap'[rx_data] = heap[rx_data]
      BY <2>1, <2>2, <2>4, <3>1 DEF Printing
    <3> QED
      BY <1>0, <2>1, <2>3, <3>1 DEF PrintsNext
  <2> QED
    BY <1>0, <2>1, <2>2, <2>3, <2>5, <2>6, TransitKept
<1>2. ASSUME NEW l \in Leds, Put(l) PROVE Transit'
  BY <1>2, PutInTransit
<1>3. CASE Get
  BY <1>3, GetInTransit
<1>4. CASE Printk
  <2>1. UNCHANGED <<printk_fifo, heap, thread, cnt>>
    BY <1>4 DEF Printk, producerVars
  <2>2. /\ \A i \in Queued : Msg(i)' = Msg(i)
        /\ \A m \in Leds : Sent(m)' = Sent(m)
    BY <2>1 DEF Msg, Sent
  <2>3. uart' = "free" /\ \A m \in Leds : Taken(m)' = Taken(m)
    BY <1>4, PrintkReports
  <2>4. PrintsNext'
    BY <2>3 DEF PrintsNext, Printing
  <2> QED
    BY <1>0, <2>1, <2>2, <2>3, <2>4, TransitKept
<1>5. CASE Free \/ Tick \/ UNCHANGED threadsVars
  <2>1. /\ UNCHANGED <<printk_fifo, heap, thread, cnt, printed>>
        /\ \/ uart = "free" /\ uart' = "get"
           \/ UNCHANGED <<uart, rx_data>>
    BY <1>5 DEF Free, Tick, threadsVars, producerVars, uartVars
  <2>2. /\ \A i \in Queued : Msg(i)' = Msg(i)
        /\ \A m \in Leds : Sent(m)' = Sent(m)
    BY <2>1 DEF Msg, Sent
  <2>3. \A m \in Leds : Taken(m)' = Taken(m)
    BY <2>1 DEF Taken, Printing
  <2>4. PrintsNext'
    BY <1>0, <2>1 DEF PrintsNext, Printing, Sent
  <2> QED
    BY <1>0, <2>1, <2>2, <2>3, <2>4, TransitKept
<1> QED
  BY <1>1, <1>2, <1>3, <1>4, <1>5 DEF ThreadsNext, Blink, UartOut

\* The inductive invariant holds in every state.
THEOREM ThreadsInvariance == ThreadsSpec => []ThreadsInv
<1>1. ThreadsInv /\ [ThreadsNext]_threadsVars => ThreadsInv'
  BY ThreadsTyped, ThreadsHold, ThreadsOwn, ThreadsFill, ThreadsCarry DEF ThreadsInv
<1> QED
  BY ThreadsInitially, <1>1, PTL DEF ThreadsSpec

\* The threads' variables keep their types.
THEOREM ThreadsTypeCorrect == ThreadsSpec => []ThreadsTypeOK
BY ThreadsInvariance, PTL DEF ThreadsInv

\* Nothing is reported before it is sent, and a step of the threads is a Send, a
\* Report or nothing to a reader of the console.
LEMMA LogStep ==
    ThreadsInv /\ ThreadsInv' /\ [ThreadsNext]_threadsVars => [Log!LogNext]_Log!logVars
<1> SUFFICES ASSUME ThreadsInv, [ThreadsNext]_threadsVars PROVE [Log!LogNext]_Log!logVars
  OBVIOUS
<1> DEFINE sent == [l \in Leds |-> Sent(l)]
<1>1. ASSUME NEW l \in Leds, Put(l) PROVE Log!Send(l)
  <2>1. Sent(l)' = Sent(l) + 1 /\ \A m \in Leds \ {l} : Sent(m)' = Sent(m)
    BY <1>1, OneSent
  <2>2. sent' = [sent EXCEPT ![l] = sent[l] + 1]
    BY <2>1
  <2>3. printed' = printed
    BY <1>1 DEF Put, uartVars
  <2> QED
    BY <2>2, <2>3 DEF Log!Send
<1>2. CASE Printk
  <2>1. sent' = sent
    BY <1>2 DEF Printk, producerVars, Sent
  <2> QED
    BY <1>2, <2>1, PrintkReports DEF Log!LogNext, Log!Report
<1>3. CASE \/ \E l \in Leds : Start(l) \/ Malloc(l) \/ Fill(l) \/ Wake(l)
           \/ Get \/ Free \/ Tick \/ UNCHANGED threadsVars
  <2>1. printed' = printed
    BY <1>3 DEF Start, Malloc, Fill, Wake, Get, Free, Tick, threadsVars, uartVars
  <2>2. \A m \in Leds : Sent(m)' = Sent(m)
    <3>1. ASSUME NEW l \in Leds, Start(l) \/ Malloc(l) \/ Fill(l) \/ Wake(l)
          PROVE  \A m \in Leds : Sent(m)' = Sent(m)
      BY <3>1, NothingSent
    <3>2. CASE Get \/ Free \/ Tick \/ UNCHANGED threadsVars
      <4>1. UNCHANGED <<thread, cnt>>
        BY <3>2 DEF Get, Free, Tick, threadsVars, producerVars
      <4> QED
        BY <4>1 DEF Sent
    <3> QED
      BY <1>3, <3>1, <3>2
  <2> QED
    BY <2>1, <2>2 DEF Log!logVars
<1> QED
  BY <1>1, <1>2, <1>3 DEF ThreadsNext, Blink, UartOut, Log!LogNext

\* The console shows every toggle of every LED once, in order and without a gap.
THEOREM ThreadsImplementLog == ThreadsSpec => EveryToggleLogged
<1>1. ASSUME ThreadsInit PROVE Log!LogInit
  <2>1. \A l \in Leds : thread[l] = "start" /\ cnt[l] = 0
    BY <1>1 DEF ThreadsInit
  <2>2. ASSUME NEW l \in Leds PROVE Sent(l) = 0
    <3>1. ~(thread[l] = "sleep") /\ cnt[l] = 0
      BY <2>1
    <3> QED
      BY <3>1 DEF Sent
  <2>3. printed = [m \in Leds |-> 0]
    BY <1>1 DEF ThreadsInit
  <2> QED
    BY <2>2, <2>3 DEF Log!LogInit
<1> QED
  BY <1>1, LogStep, ThreadsInvariance, PTL DEF ThreadsSpec, EveryToggleLogged, Log!LogSpec
-----------------------------------------------------------------------------
(* The heap *)

\* The LED whose thread allocated a block that is on its way to the console.
\* Before its next allocation none is left, and it never has two.
NoneLeft ==
    \A l \in Leds :
        thread[l] # "sleep" \/ left[l] = 0 =>
            /\ \A i \in Queued : Msg(i).led # l
            /\ rx_data \in Blocks => heap[rx_data].led # l
NeverTwo ==
    /\ \A i, j \in Queued : Msg(i).led = Msg(j).led => i = j
    /\ rx_data \in Blocks => \A i \in Queued : Msg(i).led # heap[rx_data].led
NoneLost ==
    \A b \in allocated :
        \/ b = rx_data
        \/ \E i \in Queued : printk_fifo[i] = b
        \/ \E l \in Leds : mem_ptr[l] = b
HeapInv == NoneLeft /\ NeverTwo /\ NoneLost /\ Running

LEMMA HeapInitially == ThreadsInit => HeapInv
<1> SUFFICES ASSUME ThreadsInit PROVE HeapInv
  OBVIOUS
<1>1. Queued = {} /\ rx_data \notin Blocks /\ allocated = {}
  BY PointersAssumption DEF ThreadsInit, Queued
<1>2. \A l \in Leds : thread[l] # "fault"
  BY DEF ThreadsInit
<1> QED
  BY <1>1, <1>2 DEF HeapInv, NoneLeft, NeverTwo, NoneLost, Running

\* With a block for each LED one is free when a thread asks for it: the others
\* hold at most one each.
LEMMA BlockFree ==
    ASSUME ThreadsInv, HeapInv, NEW l \in Leds, thread[l] = "malloc",
           IsFiniteSet(Leds), IsFiniteSet(Blocks), Cardinality(Leds) <= Cardinality(Blocks)
    PROVE  ~(Blocks \subseteq allocated)
<1> SUFFICES ASSUME Blocks \subseteq allocated PROVE FALSE
  OBVIOUS
<1> DEFINE Has(b, m) == mem_ptr[m] = b \/ (heap[b].led = m /\ \A k \in Leds : mem_ptr[k] # b)
           owner == [b \in Blocks |-> CHOOSE m \in Leds \ {l} : Has(b, m)]
<1>1. ASSUME NEW b \in Blocks PROVE \E m \in Leds \ {l} : Has(b, m)
  <2>1. CASE \E k \in Leds : mem_ptr[k] = b
    <3>1. mem_ptr[l] # b
      BY DEF ThreadsInv, Holders
    <3> QED
      BY <2>1, <3>1
  <2>2. CASE ~\E k \in Leds : mem_ptr[k] = b
    <3>1. heap[b].led \in Leds
      BY Types
    <3>2. b = rx_data \/ \E i \in Queued : printk_fifo[i] = b
      BY <2>2 DEF HeapInv, NoneLost
    <3>3. heap[b].led # l
      BY <3>2 DEF HeapInv, NoneLeft, Msg
    <3> QED
      BY <2>2, <3>1, <3>3
  <2> QED
    BY <2>1, <2>2
<1>2. ASSUME NEW b \in Blocks, NEW c \in Blocks, NEW m \in Leds, Has(b, m), Has(c, m)
      PROVE  b = c
  <2>1. \A d \in Blocks : (\A k \in Leds : mem_ptr[k] # d) =>
            d = rx_data \/ \E i \in Queued : printk_fifo[i] = d
    BY DEF HeapInv, NoneLost
  <2>2. CASE mem_ptr[m] = b /\ mem_ptr[m] = c
    BY <2>2
  <2>3. CASE /\ heap[b].led = m /\ \A k \in Leds : mem_ptr[k] # b
             /\ heap[c].led = m /\ \A k \in Leds : mem_ptr[k] # c
    BY <2>1, <2>3 DEF HeapInv, NeverTwo, Msg
  <2>4. ASSUME NEW d \in Blocks, NEW e \in Blocks, mem_ptr[m] = d,
               heap[e].led = m, \A k \in Leds : mem_ptr[k] # e
        PROVE  FALSE
    <3>1. thread[m] # "sleep"
      BY <2>4 DEF ThreadsInv, Holders
    <3>2. e = rx_data \/ \E i \in Queued : printk_fifo[i] = e
      BY <2>1, <2>4
    <3> QED
      BY <2>4, <3>1, <3>2 DEF HeapInv, NoneLeft, Msg
  <2> QED
    BY <1>2, <2>2, <2>3, <2>4
<1>3. owner \in [Blocks -> Leds \ {l}] /\ \A b \in Blocks : Has(b, owner[b])
  BY <1>1
<1>4. IsFiniteSet(Leds \ {l}) /\ Cardinality(Leds \ {l}) = Cardinality(Leds) - 1
  BY FS_RemoveElement
<1>5. Cardinality(Leds) \in Nat /\ Cardinality(Blocks) \in Nat
  BY FS_CardinalityType
<1> HIDE DEF Has, owner
<1>6. Cardinality(Leds \ {l}) < Cardinality(Blocks)
  BY <1>4, <1>5
<1>7. PICK b, c \in Blocks : b # c /\ owner[b] = owner[c]
  BY <1>3, <1>4, <1>6, FS_PigeonHole
<1> QED
  BY <1>2, <1>3, <1>7

\* A step of a program whose threads finish their rounds in time keeps the heap.
LEMMA HeapStep ==
    ASSUME ThreadsInv, HeapInv, [ThreadsNext]_threadsVars, Prompt,
           IsFiniteSet(Leds), IsFiniteSet(Blocks), Cardinality(Leds) <= Cardinality(Blocks)
    PROVE  HeapInv'
<1>0. /\ \A l \in Leds :
            thread[l] # "sleep" \/ left[l] = 0 =>
                /\ \A i \in Queued : Msg(i).led # l
                /\ rx_data \in Blocks => heap[rx_data].led # l
      /\ \A i, j \in Queued : Msg(i).led = Msg(j).led => i = j
      /\ rx_data \in Blocks => \A i \in Queued : Msg(i).led # heap[rx_data].led
      /\ \A b \in allocated : \/ b = rx_data
                              \/ \E i \in Queued : printk_fifo[i] = b
                              \/ \E l \in Leds : mem_ptr[l] = b
      /\ \A l \in Leds : thread[l] # "fault"
  BY DEF HeapInv, NoneLeft, NeverTwo, NoneLost, Running
<1>1. ASSUME NEW l \in Leds, Start(l) \/ Malloc(l) \/ Fill(l) \/ Wake(l) PROVE HeapInv'
  <2>1. UNCHANGED <<left, printk_fifo, rx_data>>
    BY <1>1 DEF Start, Malloc, Fill, Wake, uartVars
  <2>2. Queued' = Queued
    BY <2>1 DEF Queued
  <2>3. /\ \A i \in Queued : Msg(i)' = Msg(i)
        /\ rx_data \in Blocks => heap'[rx_data] = heap[rx_data]
    <3>1. CASE Fill(l)
      BY <3>1, MessagesKept
    <3>2. CASE UNCHANGED heap
      BY <2>1, <3>2 DEF Msg
    <3> QED
      BY <1>1, <3>1, <3>2 DEF Start, Malloc, Wake
  <2>4. thread'[l] # "fault" /\ thread'[l] # "sleep" /\ (thread[l] # "sleep" \/ left[l] = 0)
        /\ \A m \in Leds \ {l} : thread'[m] = thread[m]
    <3>1. PICK to : thread' = [thread EXCEPT ![l] = to]
      BY <1>1 DEF Start, Malloc, Fill, Wake, Thread
    <3>2. thread'[l] = to /\ \A m \in Leds \ {l} : thread'[m] = thread[m]
      BY <3>1, ThreadMoves
    <3>3. CASE Malloc(l)
      <4>1. thread[l] = "malloc"
        BY <3>3 DEF Malloc, Thread
      <4>2. ~(Blocks \subseteq allocated)
        BY <4>1, BlockFree
      <4>3. thread' = [thread EXCEPT ![l] = "fill"]
        BY <3>3, <4>2, PointersAssumption DEF Malloc, Thread
      <4>4. thread'[l] = "fill"
        BY <4>3, ThreadMoves
      <4> QED
        BY <3>2, <4>1, <4>4
    <3>4. CASE Start(l) \/ Fill(l) \/ Wake(l)
      <4>1. /\ thread[l] # "sleep" \/ left[l] = 0
            /\ \/ thread' = [thread EXCEPT ![l] = "malloc"]
               \/ thread' = [thread EXCEPT ![l] = "returned"]
               \/ thread' = [thread EXCEPT ![l] = "put"]
        BY <3>4 DEF Start, Fill, Wake, Thread
      <4>2. thread'[l] \in {"malloc", "returned", "put"}
        BY <4>1, ThreadMoves
      <4> QED
        BY <3>2, <4>1, <4>2
    <3> QED
      BY <1>1, <3>3, <3>4
  <2>5. NoneLeft'
    BY <1>0, <2>1, <2>2, <2>3, <2>4 DEF NoneLeft
  <2>6. NeverTwo'
    BY <1>0, <2>1, <2>2, <2>3 DEF NeverTwo
  <2>7. NoneLost'
    <3>1. CASE UNCHANGED <<allocated, mem_ptr>>
      BY <1>0, <2>1, <2>2, <3>1 DEF NoneLost
    <3>2. CASE Malloc(l)
      <4>1. PICK b : /\ mem_ptr' = [mem_ptr EXCEPT ![l] = b]
                     /\ allocated' = allocated \cup ({b} \cap Blocks)
        BY <3>2 DEF Malloc
      <4>2. mem_ptr'[l] = b /\ \A m \in Leds \ {l} : mem_ptr'[m] = mem_ptr[m]
        BY <4>1, PointerMoves
      <4>3. \A c \in allocated : mem_ptr[l] # c
        <5>1. thread[l] = "malloc"
          BY <3>2 DEF Malloc, Thread
        <5>2. mem_ptr[l] \notin Blocks
          BY <5>1 DEF ThreadsInv, Holders
        <5>3. allocated \subseteq Blocks
          BY DEF ThreadsInv, ThreadsTypeOK
        <5> QED
          BY <5>2, <5>3
      <4> QED
        BY <1>0, <2>1, <2>2, <4>1, <4>2, <4>3 DEF NoneLost
    <3> QED
      BY <1>1, <3>1, <3>2 DEF Start, Fill, Wake
  <2>8. Running'
    BY <1>0, <2>4 DEF Running
  <2> QED
    BY <2>5, <2>6, <2>7, <2>8 DEF HeapInv
<1>2. ASSUME NEW l \in Leds, Put(l) PROVE HeapInv'
  <2>0. PICK last : last = Len(printk_fifo) + 1
    OBVIOUS
  <2>1. /\ thread[l] = "put" /\ thread' = [thread EXCEPT ![l] = "sleep"]
        /\ left' = [left EXCEPT ![l] = SleepTime[l]]
        /\ mem_ptr' = [mem_ptr EXCEPT ![l] = None]
        /\ UNCHANGED <<heap, rx_data, allocated>>
    BY <1>2 DEF Put, Thread, uartVars
  <2>2. /\ thread'[l] = "sleep" /\ \A m \in Leds \ {l} : thread'[m] = thread[m]
        /\ mem_ptr'[l] = None /\ \A m \in Leds \ {l} : mem_ptr'[m] = mem_ptr[m]
    BY <2>1, ThreadMoves, PointerMoves
  <2>3. left'[l] # 0 /\ \A m \in Leds \ {l} : left'[m] = left[m]
    <3>1. SleepTime[l] # 0
      BY ThreadsAssumption
    <3> QED
      BY <2>1, <3>1 DEF ThreadsInv, ThreadsTypeOK
  <2>4. /\ \A i : i \in Queued' <=> i \in Queued \/ i = last
        /\ \A i \in Queued : printk_fifo'[i] = printk_fifo[i] /\ i # last
        /\ printk_fifo'[last] = mem_ptr[l] /\ mem_ptr[l] \in Blocks
    <3>1. \A i \in Queued : i # last
      BY <2>0, Types DEF Queued
    <3> QED
      BY <1>2, <2>0, <3>1, PutGrows
  <2>5. \A i \in Queued : Msg(i)' = Msg(i)
    BY <2>1, <2>4 DEF Msg
  <2>6. Msg(last)'.led = l
    <3>1. heap[mem_ptr[l]] = [led |-> l, cnt |-> cnt[l]]
      BY <2>1 DEF ThreadsInv, Filled
    <3> QED
      BY <2>1, <2>4, <3>1 DEF Msg
  <2>7. (\A i \in Queued : Msg(i).led # l) /\ (rx_data \in Blocks => heap[rx_data].led # l)
    BY <1>0, <2>1
  <2>8. NoneLeft'
    BY <1>0, <2>1, <2>2, <2>3, <2>4, <2>5, <2>6 DEF NoneLeft
  <2>9. NeverTwo'
    BY <1>0, <2>1, <2>4, <2>5, <2>6, <2>7 DEF NeverTwo
  <2>10. NoneLost'
    BY <1>0, <2>1, <2>2, <2>4 DEF NoneLost
  <2>11. Running'
    BY <1>0, <2>2 DEF Running
  <2> QED
    BY <2>8, <2>9, <2>10, <2>11 DEF HeapInv
<1>3. CASE Get
  <2>1. UNCHANGED <<thread, left, mem_ptr, heap, allocated>> /\ uart = "get"
    BY <1>3 DEF Get, producerVars
  <2>2. /\ 1 \in Queued /\ rx_data' = printk_fifo[1] /\ rx_data \notin Blocks
        /\ \A i \in Queued' : i + 1 \in Queued /\ i + 1 # 1 /\ printk_fifo'[i] = printk_fifo[i + 1]
        /\ \A i \in Queued : i = 1 \/ (i - 1 \in Queued' /\ (i - 1) + 1 = i)
    <3>1. rx_data \notin Blocks
      BY <2>1 DEF ThreadsInv, Holders
    <3>2. (\A i \in Queued' : i + 1 # 1) /\ \A i \in Queued : (i - 1) + 1 = i
      BY <1>3, GetShrinks DEF Queued
    <3> QED
      BY <1>3, <3>1, <3>2, GetShrinks
  <2>3. (\A i \in Queued' : Msg(i)' = Msg(i + 1)) /\ heap'[rx_data'] = Msg(1)
    BY <2>1, <2>2 DEF Msg
  <2>4. NoneLeft'
    BY <1>0, <2>1, <2>2, <2>3 DEF NoneLeft
  <2>5. NeverTwo'
    <3>1. ASSUME NEW i \in Queued', NEW j \in Queued', Msg(i)'.led = Msg(j)'.led PROVE i = j
      <4>1. i + 1 = j + 1 /\ i \in Nat /\ j \in Nat
        <5>1. i \in Nat /\ j \in Nat
          BY <1>3, GetShrinks DEF Queued
        <5> QED
          BY <1>0, <2>2, <2>3, <3>1, <5>1
      <4> QED
        BY <4>1
    <3>2. \A i \in Queued' : Msg(i)'.led # heap'[rx_data'].led
      BY <1>0, <2>2, <2>3
    <3> QED
      BY <3>1, <3>2 DEF NeverTwo
  <2>6. NoneLost'
    <3>1. ASSUME NEW b \in allocated, NEW i \in Queued, printk_fifo[i] = b
          PROVE  b = rx_data' \/ \E j \in Queued' : printk_fifo'[j] = b
      BY <2>2, <3>1
    <3>2. allocated \subseteq Blocks
      BY DEF ThreadsInv, ThreadsTypeOK
    <3> QED
      BY <1>0, <2>1, <2>2, <3>1, <3>2 DEF NoneLost
  <2>7. Running'
    BY <1>0, <2>1 DEF Running
  <2> QED
    BY <2>4, <2>5, <2>6, <2>7 DEF HeapInv
<1>4. CASE Printk \/ Free \/ UNCHANGED threadsVars
  <2>1. /\ UNCHANGED <<thread, left, mem_ptr, heap, printk_fifo>>
        /\ \/ UNCHANGED <<rx_data, allocated>>
           \/ rx_data' = None /\ allocated' = allocated \ {rx_data}
    BY <1>4 DEF Printk, Free, threadsVars, producerVars, uartVars
  <2>2. Queued' = Queued /\ \A i \in Queued : Msg(i)' = Msg(i)
    BY <2>1 DEF Queued, Msg
  <2>3. rx_data' \in Blocks => rx_data' = rx_data
    BY <2>1, PointersAssumption
  <2>4. NoneLeft' /\ NeverTwo'
    BY <1>0, <2>1, <2>2, <2>3 DEF NoneLeft, NeverTwo
  <2>5. NoneLost'
    BY <1>0, <2>1, <2>2 DEF NoneLost
  <2>6. Running'
    BY <1>0, <2>1 DEF Running
  <2> QED
    BY <2>4, <2>5, <2>6 DEF HeapInv
<1>5. CASE Tick
  <2>1. /\ uart = "get" /\ printk_fifo = <<>>
        /\ UNCHANGED <<thread, mem_ptr, allocated, heap, printk_fifo, rx_data>>
    BY <1>5 DEF Tick, Idle, uartVars
  <2>2. Queued' = {} /\ Queued = {} /\ rx_data \notin Blocks
    BY <2>1, EmptySeq DEF Queued, ThreadsInv, Holders
  <2>3. NoneLeft' /\ NeverTwo'
    BY <2>1, <2>2 DEF NoneLeft, NeverTwo
  <2>4. NoneLost'
    BY <1>0, <2>1, <2>2 DEF NoneLost
  <2>5. Running'
    BY <1>0, <2>1 DEF Running
  <2> QED
    BY <2>3, <2>4, <2>5 DEF HeapInv
<1> QED
  BY <1>1, <1>2, <1>3, <1>4, <1>5 DEF ThreadsNext, Blink, UartOut

\* With a block for each LED no allocation fails, however long the program runs,
\* if a round of all threads takes less than the shorter of the sleeps' unit.
THEOREM HeapIsEnough ==
    ASSUME Prompt, IsFiniteSet(Leds), IsFiniteSet(Blocks), Cardinality(Leds) <= Cardinality(Blocks)
    PROVE  ThreadsSpec => []HeapSuffices
<1>1. ThreadsInv /\ HeapInv /\ [ThreadsNext]_threadsVars => HeapInv'
  BY HeapStep
<1>2. HeapInv => HeapSuffices
  BY DEF HeapInv, HeapSuffices
<1> QED
  BY <1>1, <1>2, HeapInitially, ThreadsInvariance, PTL DEF ThreadsSpec
==============================================================================
