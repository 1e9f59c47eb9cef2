----------------------------- MODULE MqttSession -----------------------------
(***************************************************************************)
(* What applications/app_mqtt promises a broker, whatever its threads do:  *)
(* one connection at a time, opened only when the previous one is gone,    *)
(* and at most one SUBSCRIBE in a session, sent only after the broker has  *)
(* accepted it.  MqttLink is shown to implement this specification.        *)
(***************************************************************************)

VARIABLES
    link,        \* "down", "opening" (CONNECT sent) or "up" (CONNACK received)
    subscribes   \* how many SUBSCRIBEs this session has seen

vars == <<link, subscribes>>

Init == link = "down" /\ subscribes = 0

Open == link = "down" /\ link' = "opening" /\ UNCHANGED subscribes

Accept == link = "opening" /\ link' = "up" /\ UNCHANGED subscribes

Subscribe == link = "up" /\ subscribes = 0 /\ subscribes' = 1 /\ UNCHANGED link

Close == link # "down" /\ link' = "down" /\ subscribes' = 0

Next == Open \/ Accept \/ Subscribe \/ Close

Spec == Init /\ [][Next]_vars
==============================================================================
