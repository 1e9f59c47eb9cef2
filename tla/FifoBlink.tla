------------------------------ MODULE FifoBlink ------------------------------
(***************************************************************************)
(* applications/app/src/main_thread.c: a thread per LED toggles it, sends  *)
(* the printing thread a message through a FIFO and sleeps.  A message is  *)
(* a block of the system heap and is itself the FIFO's node: the producer  *)
(* allocates it, the printing thread frees it.                             *)
(*                                                                         *)
(* The three threads have the same preemptible priority and are sliced, so *)
(* any two of their statements may come in either order.  Time is counted  *)
(* in units of 100 ms, the shorter of the two sleeps.                      *)
(***************************************************************************)
EXTENDS Naturals, Sequences

CONSTANTS
    Leds,        \* the identifiers given to blink(): 0 and 1
    SleepTime,   \* [Leds -> Nat]: blink()'s sleep_ms, in units of time
    Blocks,      \* the messages the system heap has room for
    Prompt,      \* a round of all threads takes less than a unit of time
    MaxCount     \* bound on cnt

ASSUME ThreadsAssumption ==
    /\ Leds # {} /\ SleepTime \in [Leds -> Nat \ {0}]
    /\ Prompt \in BOOLEAN /\ MaxCount \in Nat

None == "none"    \* a pointer that points to nothing
ASSUME PointersAssumption == None \notin Blocks

Messages == [led : Leds, cnt : 0..MaxCount]

VARIABLES
    thread,        \* what each LED's thread does next
    cnt,           \* its counter
    left,          \* what is left of its sleep
    mem_ptr,       \* its message
    allocated,     \* the blocks allocated
    heap,          \* what is in each block: k_malloc() and k_free() leave it
    printk_fifo,   \* blocks queued
    uart,          \* what the printing thread does next
    rx_data,       \* its message
    printed        \* toggles of each LED it has printed

producerVars == <<thread, cnt, left, mem_ptr>>
uartVars == <<uart, rx_data, printed>>
threadsVars == <<producerVars, allocated, heap, printk_fifo, uartVars>>

ThreadsTypeOK ==
    /\ thread \in [Leds -> {"start", "malloc", "fill", "put", "sleep", "returned", "fault"}]
    /\ cnt \in [Leds -> 0..MaxCount] /\ left \in [Leds -> Nat]
    /\ mem_ptr \in [Leds -> Blocks \cup {None}]
    /\ allocated \subseteq Blocks /\ heap \in [Blocks -> Messages]
    /\ printk_fifo \in Seq(Blocks)
    /\ uart \in {"get", "print", "free"} /\ rx_data \in Blocks \cup {None}
    /\ printed \in [Leds -> Nat]

ThreadsInit ==
    /\ thread = [l \in Leds |-> "start"]
    /\ cnt = [l \in Leds |-> 0] /\ left = [l \in Leds |-> 0]
    /\ mem_ptr = [l \in Leds |-> None]
    /\ allocated = {} /\ printk_fifo = <<>>
    /\ heap = [b \in Blocks |-> [led |-> CHOOSE l \in Leds : TRUE, cnt |-> 0]]
    /\ uart = "get" /\ rx_data = None /\ printed = [l \in Leds |-> 0]

\* A fault in any thread halts the kernel.
Running == \A l \in Leds : thread[l] # "fault"

Thread(l, from, to) ==
    /\ Running
    /\ thread[l] = from /\ thread' = [thread EXCEPT ![l] = to]
-----------------------------------------------------------------------------
(* blink() *)

\* device_is_ready() and gpio_pin_configure_dt(): a thread whose pin cannot be
\* had returns, the others go on.
Start(l) ==
    /\ \/ Thread(l, "start", "malloc")
       \/ Thread(l, "start", "returned")
    /\ UNCHANGED <<cnt, left, mem_ptr, allocated, heap, printk_fifo, uartVars>>

\* gpio_pin_set_dt() and k_malloc().  The result is looked at by an assertion,
\* which is compiled out or halts: without a block the thread faults, in the
\* assertion or in the memcpy().
Malloc(l) ==
    /\ \E b \in IF Blocks \subseteq allocated THEN {None} ELSE Blocks \ allocated :
          /\ Thread(l, "malloc", IF b = None THEN "fault" ELSE "fill")
          /\ mem_ptr' = [mem_ptr EXCEPT ![l] = b]
          /\ allocated' = allocated \cup ({b} \cap Blocks)
    /\ UNCHANGED <<cnt, left, heap, printk_fifo, uartVars>>

\* Mutant of Fill: the size that is copied leaves out the counter.
FillLedOnly(l) ==
    /\ Thread(l, "fill", "put")
    /\ heap' = [heap EXCEPT ![mem_ptr[l]].led = l]
    /\ UNCHANGED <<cnt, left, mem_ptr, allocated, printk_fifo, uartVars>>

\* memcpy().
Fill(l) ==
    /\ Thread(l, "fill", "put")
    /\ heap' = [heap EXCEPT ![mem_ptr[l]] = [led |-> l, cnt |-> cnt[l]]]
    /\ UNCHANGED <<cnt, left, mem_ptr, allocated, printk_fifo, uartVars>>

\* k_fifo_put(), and k_msleep() is entered.
Put(l) ==
    /\ Thread(l, "put", "sleep")
    /\ printk_fifo' = Append(printk_fifo, mem_ptr[l])
    /\ mem_ptr' = [mem_ptr EXCEPT ![l] = None]
    /\ left' = [left EXCEPT ![l] = SleepTime[l]]
    /\ UNCHANGED <<cnt, allocated, heap, uartVars>>

\* k_msleep() returns.
Wake(l) ==
    /\ left[l] = 0 /\ cnt[l] < MaxCount
    /\ Thread(l, "sleep", "malloc")
    /\ cnt' = [cnt EXCEPT ![l] = @ + 1]
    /\ UNCHANGED <<left, mem_ptr, allocated, heap, printk_fifo, uartVars>>
-----------------------------------------------------------------------------
(* uart_out() *)

\* Mutant of Get: the block is freed before it is printed.
GetFrees ==
    /\ Running /\ uart = "get" /\ printk_fifo # <<>>
    /\ uart' = "print" /\ rx_data' = Head(printk_fifo) /\ printk_fifo' = Tail(printk_fifo)
    /\ allocated' = allocated \ {Head(printk_fifo)}
    /\ UNCHANGED <<producerVars, heap, printed>>

\* k_fifo_get().
Get ==
    /\ Running /\ uart = "get" /\ printk_fifo # <<>>
    /\ uart' = "print" /\ rx_data' = Head(printk_fifo) /\ printk_fifo' = Tail(printk_fifo)
    /\ UNCHANGED <<producerVars, allocated, heap, printed>>

\* printk() of the block, as it is then.
Printk ==
    /\ Running /\ uart = "print"
    /\ uart' = "free"
    /\ printed' = [printed EXCEPT ![heap[rx_data].led] = heap[rx_data].cnt + 1]
    /\ UNCHANGED <<producerVars, allocated, heap, printk_fifo, rx_data>>

\* Mutant of Free: k_free() is forgotten.
NeverFree ==
    /\ Running /\ uart = "free"
    /\ uart' = "get" /\ rx_data' = None
    /\ UNCHANGED <<producerVars, allocated, heap, printk_fifo, printed>>

\* k_free().
Free ==
    /\ Running /\ uart = "free"
    /\ uart' = "get" /\ rx_data' = None
    /\ allocated' = allocated \ {rx_data}
    /\ UNCHANGED <<producerVars, heap, printk_fifo, printed>>
-----------------------------------------------------------------------------
\* Every thread sleeps or waits.
Idle ==
    /\ \A l \in Leds : thread[l] = "returned" \/ (thread[l] = "sleep" /\ left[l] > 0)
    /\ uart = "get" /\ printk_fifo = <<>>

\* A unit of time passes.
Tick ==
    /\ Running /\ \E l \in Leds : left[l] > 0
    /\ Prompt => Idle
    /\ left' = [l \in Leds |-> IF left[l] > 0 THEN left[l] - 1 ELSE 0]
    /\ UNCHANGED <<thread, cnt, mem_ptr, allocated, heap, printk_fifo, uartVars>>

Blink(l) == Start(l) \/ Malloc(l) \/ Fill(l) \/ Put(l) \/ Wake(l)

UartOut == Get \/ Printk \/ Free

ThreadsNext == (\E l \in Leds : Blink(l)) \/ UartOut \/ Tick

ThreadsSpec == ThreadsInit /\ [][ThreadsNext]_threadsVars
-----------------------------------------------------------------------------
(* Properties *)

\* The toggles each LED's thread has put on the FIFO.
Sent(l) == cnt[l] + (IF thread[l] = "sleep" THEN 1 ELSE 0)

\* The console shows every toggle of an LED once, in order and without a gap,
\* whatever the order of the threads and of the blocks the heap hands out: a
\* block that is used again before it is printed would break it.
Log == INSTANCE BlinkLog WITH sent <- [l \in Leds |-> Sent(l)]
EveryToggleLogged == Log!LogSpec

\* No allocation fails although nobody limits the producers: with threads that
\* finish their round in time, a block for each LED is enough.
HeapSuffices == Running

\* The console catches up with every LED, whatever is sent meanwhile.
SentIsPrinted == \A l \in Leds : printed[l] < Sent(l) ~> printed[l] = Sent(l)
==============================================================================
