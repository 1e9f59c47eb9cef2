---------------------------- MODULE MqttDelivery ----------------------------
(***************************************************************************)
(* What applications/app_mqtt promises who publishes commands, without its *)
(* packets and sessions: a command is executed only after its publication, *)
(* for the first time in the order of publication, again at most once for  *)
(* each fault of the network and never with QoS 0, and LED_USER shows the  *)
(* last command that was executed.  A command may be lost.  MqttCommands   *)
(* is shown to implement this specification.                               *)
(***************************************************************************)
EXTENDS Naturals

CONSTANTS
    QosLevels,   \* the levels commands may come with
    Commands     \* how many commands are published

VARIABLES
    qos,         \* the level commands come with
    published,   \* commands published so far
    faults,      \* faults so far
    runs,        \* how often each command was executed
    led_user     \* LED_USER

deliveryVars == <<qos, published, faults, runs, led_user>>

DeliveryInit ==
    /\ qos \in QosLevels /\ published = 0 /\ faults = 0
    /\ runs = [m \in 1..Commands |-> 0] /\ led_user = FALSE

Publish ==
    /\ published < Commands /\ published' = published + 1
    /\ UNCHANGED <<qos, faults, runs, led_user>>

Fault == faults' = faults + 1 /\ UNCHANGED <<qos, published, runs, led_user>>

\* A first run overtakes nothing; a repeated one costs a fault.
Execute(m) ==
    /\ m <= published
    /\ IF runs[m] = 0 THEN \A n \in m + 1..published : runs[n] = 0
                      ELSE qos > 0 /\ runs[m] <= faults
    /\ runs' = [runs EXCEPT ![m] = @ + 1]
    /\ led_user' = (m % 2 = 1)
    /\ UNCHANGED <<qos, published, faults>>

DeliveryNext == Publish \/ Fault \/ \E m \in 1..Commands : Execute(m)

DeliverySpec == DeliveryInit /\ [][DeliveryNext]_deliveryVars
==============================================================================
