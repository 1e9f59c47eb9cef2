------------------------------ MODULE BlinkLog ------------------------------
(***************************************************************************)
(* What a reader of the console may expect of applications/app's blinking  *)
(* threads: every LED's toggles are reported once each, in their order and *)
(* without a gap, and never before they are handed over.  FifoBlink is     *)
(* shown to implement this specification.                                  *)
(***************************************************************************)
EXTENDS Naturals

CONSTANT Leds

VARIABLES
    sent,      \* toggles of each LED handed over so far
    printed    \* toggles of each LED reported so far

logVars == <<sent, printed>>

LogInit == sent = [l \in Leds |-> 0] /\ printed = [l \in Leds |-> 0]

Send(l) == sent' = [sent EXCEPT ![l] = @ + 1] /\ UNCHANGED printed

Report(l) ==
    /\ printed[l] < sent[l]
    /\ printed' = [printed EXCEPT ![l] = @ + 1] /\ UNCHANGED sent

LogNext == \E l \in Leds : Send(l) \/ Report(l)

LogSpec == LogInit /\ [][LogNext]_logVars
==============================================================================
