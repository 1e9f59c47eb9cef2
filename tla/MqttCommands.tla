---------------------------- MODULE MqttCommands ----------------------------
(***************************************************************************)
(* The path of a command from the broker to LED_USER: a PUBLISH is         *)
(* received, acknowledged as its QoS asks for, its payload read and the    *)
(* command executed (mqtt_event_handler, on_mqtt_publish,                  *)
(* device_handle_command).  Sessions are persistent: the broker keeps what *)
(* is not acknowledged and sends it again, in order, when the device is    *)
(* back.  With QoS 2 a PUBREC acknowledges, and the broker then sends a    *)
(* PUBREL until a PUBCOMP answers it.                                      *)
(*                                                                         *)
(* Commands are numbered in the order they are published, and the number   *)
(* is also the packet identifier the broker gives them.                    *)
(***************************************************************************)
EXTENDS Naturals, Sequences, FiniteSets, SequencesExt

CONSTANTS
    QosLevels,    \* the levels commands may come with; mqtt_event_handler() treats
                  \* all three (with NET_SAMPLE_MQTT_QOS as it is by default,
                  \* the subscription asks for at most 1)
    Commands,     \* how many commands are published: bounds the run
    IdsPerByte,   \* packet identifiers per value of their high byte: 256
    MaxFaults     \* bound on lost connections and split payloads

ASSUME QosAssumption == QosLevels \subseteq 0..2
ASSUME CommandsAssumption ==
    /\ Commands \in Nat \ {0} /\ IdsPerByte \in Nat \ {0} /\ MaxFaults \in Nat

Ids == 1..Commands

VARIABLES
    qos,           \* the level commands come with: the publishers' and the
                   \* subscription's (NET_SAMPLE_MQTT_QOS), the lower of the two
    published,     \* commands published so far
    unacked,       \* those the broker still keeps (external)
    releasing,     \* those it waits for the PUBCOMP of (external)
    up,            \* the broker's end of the connection is open (external)
    wire,          \* PUBLISH packets on their way to the device (external)
    acks,          \* PUBACKs or PUBRECs on their way to the broker (external)
    rels, comps,   \* PUBRELs and PUBCOMPs on their way (external)
    faults,        \* faults so far
    pc,            \* "poll", "ack" (in the event handler) or "read"
    cur,           \* the message the event handler works on
    payload_left,  \* the client has an unread payload
    runs,          \* how often each command was executed
    led_user       \* LED_USER

brokerVars == <<qos, published, unacked, releasing>>
netVars    == <<up, wire, acks, rels, comps, faults>>
deviceVars == <<pc, cur, payload_left, runs, led_user>>
vars       == <<brokerVars, netVars, deviceVars>>

TypeOK ==
    /\ qos \in QosLevels
    /\ published \in 0..Commands /\ unacked \subseteq 1..published
    /\ releasing \subseteq Ids /\ rels \subseteq Ids /\ comps \subseteq Ids
    /\ up \in BOOLEAN /\ wire \in Seq(Ids) /\ acks \in Seq(Ids)
    /\ faults \in 0..MaxFaults
    /\ pc \in {"poll", "ack", "read"} /\ cur \in Ids
    /\ payload_left \in BOOLEAN /\ runs \in [Ids -> Nat] /\ led_user \in BOOLEAN

Init ==
    /\ qos \in QosLevels
    /\ published = 0 /\ unacked = {} /\ releasing = {}
    /\ up = FALSE /\ wire = <<>> /\ acks = <<>> /\ rels = {} /\ comps = {} /\ faults = 0
    /\ pc = "poll" /\ cur = 1 /\ payload_left = FALSE
    /\ runs = [m \in Ids |-> 0] /\ led_user = FALSE

Fault == faults < MaxFaults /\ faults' = faults + 1
-----------------------------------------------------------------------------
(* The broker and the network (external) *)

\* Publishers alternate led_on and led_off: odd commands light the LED.
LightsLed(m) == m % 2 = 1

Publish ==
    /\ published < Commands
    /\ published' = published + 1
    /\ unacked' = IF qos = 0 THEN unacked ELSE unacked \cup {published'}
    /\ wire' = IF up THEN Append(wire, published') ELSE wire
    /\ UNCHANGED <<qos, releasing, up, acks, rels, comps, faults, deviceVars>>

\* A PUBACK ends it; after a PUBREC comes the PUBREL.
AckArrives ==
    /\ acks # <<>>
    /\ acks' = Tail(acks) /\ unacked' = unacked \ {Head(acks)}
    /\ LET freed == IF qos = 2 THEN {Head(acks)} ELSE {}
       IN  releasing' = releasing \cup freed /\ rels' = rels \cup freed
    /\ UNCHANGED <<qos, published, up, wire, comps, faults, deviceVars>>

CompArrives ==
    /\ \E m \in comps : comps' = comps \ {m} /\ releasing' = releasing \ {m}
    /\ UNCHANGED <<qos, published, unacked, up, wire, acks, rels, faults, deviceVars>>

\* The connection breaks.  Acknowledgements under way are lost; what had
\* reached the device's socket may still be read or be lost too.
ConnectionBreaks ==
    /\ up /\ Fault
    /\ up' = FALSE /\ acks' = <<>> /\ comps' = {}
    /\ wire' \in {wire, <<>>} /\ rels' \in {rels, {}}
    /\ UNCHANGED <<brokerVars, deviceVars>>
-----------------------------------------------------------------------------
(* The device *)

\* The client is closed, by the library or by mqtt_disconnect().
Close ==
    /\ up' = FALSE /\ payload_left' = FALSE
    /\ wire' = <<>> /\ acks' = <<>> /\ rels' = {} /\ comps' = {}

\* What the broker sends again at the start of a session: all it keeps, in order.
Increasing(s) == \A i, j \in DOMAIN s : i < j => s[i] < s[j]

Redelivery ==
    {s \in [1..Cardinality(unacked) -> unacked] : Increasing(s) /\ ToSet(s) = unacked}

\* Mutant of Connect: with MQTT_CLEAN_SESSION the broker forgets what it kept.
ConnectClean ==
    /\ pc = "poll" /\ ~up
    /\ up' = TRUE /\ payload_left' = FALSE
    /\ unacked' = {} /\ releasing' = {} /\ wire' = <<>>
    /\ acks' = <<>> /\ rels' = {} /\ comps' = {}
    /\ UNCHANGED <<qos, published, faults, pc, cur, runs, led_user>>

\* Main is back from app_mqtt_run() and app_mqtt_connect() has succeeded.
Connect ==
    /\ pc = "poll" /\ ~up
    /\ up' = TRUE /\ payload_left' = FALSE
    /\ wire' \in Redelivery
    /\ acks' = <<>> /\ rels' = releasing /\ comps' = {}
    /\ UNCHANGED <<brokerVars, faults, pc, cur, runs, led_user>>

\* A PUBLISH is taken from the socket and its event handled.
Arrives(id) ==
    /\ wire # <<>>
    /\ cur' = id /\ wire' = Tail(wire)
    /\ payload_left' = TRUE /\ pc' = IF qos = 0 THEN "read" ELSE "ack"
    /\ UNCHANGED <<up, acks, rels, comps>>

\* Mutant of Input: identifiers counted from 0.
InputFromZero ==
    /\ pc = "poll"
    /\ \/ ~payload_left /\ Arrives(Head(wire) - 1)
       \/ payload_left /\ Close /\ UNCHANGED <<cur, pc>>
    /\ UNCHANGED <<brokerVars, faults, runs, led_user>>

\* Mutant of Input: the next packet is parsed over an unread payload.
InputOverPayload ==
    /\ pc = "poll" /\ Arrives(Head(wire))
    /\ UNCHANGED <<brokerVars, faults, runs, led_user>>

\* Mutant of Input: an unread payload does not end the session.
InputStuck ==
    /\ pc = "poll" /\ ~payload_left /\ Arrives(Head(wire))
    /\ UNCHANGED <<brokerVars, faults, runs, led_user>>

\* mqtt_input(): a PUBLISH starts the event handler; a socket that is readable
\* while a payload is unread is refused and ends the session.
Input ==
    /\ pc = "poll"
    /\ \/ ~payload_left /\ Arrives(Head(wire))
       \/ payload_left /\ Close /\ UNCHANGED <<cur, pc>>
    /\ UNCHANGED <<brokerVars, faults, runs, led_user>>

\* MQTT_EVT_PUBREL: mqtt_publish_qos2_complete() sends the PUBCOMP, or closes
\* the client.
Release ==
    /\ pc = "poll" /\ ~payload_left
    /\ \E m \in rels :
          \/ /\ rels' = rels \ {m} /\ comps' = IF up THEN comps \cup {m} ELSE comps
             /\ UNCHANGED <<up, wire, acks, payload_left, faults>>
          \/ Fault /\ Close
    /\ UNCHANGED <<brokerVars, pc, cur, runs, led_user>>

\* mqtt_publish_qos1_ack() or mqtt_publish_qos2_receive(): sent before the
\* payload is read.  A failed write closes the client; the read that follows
\* then finds nothing.
Ack ==
    /\ pc = "ack"
    /\ \/ acks' = (IF up THEN Append(acks, cur) ELSE acks) /\ pc' = "read"
             /\ UNCHANGED <<up, wire, rels, comps, payload_left, faults>>
       \/ Fault /\ Close /\ pc' = "poll"
    /\ UNCHANGED <<brokerVars, cur, runs, led_user>>

\* on_mqtt_publish() compares the topic with strcmp(), but the topic is not
\* terminated: the byte after it is the high byte of the packet identifier.  With
\* QoS 0 there is none, and no packet has reached that byte of rx_buffer: it is 0.
TopicMatches(m) == qos = 0 \/ m \div IdsPerByte = 0

\* Mutant of Read: the client still counts bytes of a payload that was read.
ReadLeavesPayload ==
    /\ pc = "read" /\ pc' = "poll"
    /\ \/ /\ TopicMatches(cur) /\ runs' = [runs EXCEPT ![cur] = @ + 1]
          /\ led_user' = LightsLed(cur)
          /\ UNCHANGED <<netVars, payload_left>>
       \/ ~up /\ Close /\ UNCHANGED <<faults, runs, led_user>>
    /\ UNCHANGED <<brokerVars, cur>>

\* mqtt_read_publish_payload() and device_handle_command().  The payload is
\* all there, or not yet (or not all of it: a truncated command is unknown),
\* or the socket is dead.
Read ==
    /\ pc = "read" /\ pc' = "poll"
    /\ \/ /\ payload_left' = FALSE
          /\ \/ TopicMatches(cur) /\ runs' = [runs EXCEPT ![cur] = @ + 1]
                   /\ led_user' = LightsLed(cur)
             \/ ~TopicMatches(cur) /\ UNCHANGED <<runs, led_user>>
          /\ UNCHANGED netVars
       \/ Fault /\ UNCHANGED <<up, wire, acks, rels, comps, payload_left, runs, led_user>>
       \/ ~up /\ Close /\ UNCHANGED <<faults, runs, led_user>>
    /\ UNCHANGED <<brokerVars, cur>>
-----------------------------------------------------------------------------
Device == Connect \/ Input \/ Release \/ Ack \/ Read

Arrival == AckArrives \/ CompArrives

Next == Publish \/ Arrival \/ ConnectionBreaks \/ Device

\* The device's loop never waits without a bound, and an acknowledgement
\* arrives unless the connection breaks first.
Spec == Init /\ [][Next]_vars /\ WF_vars(Device) /\ WF_vars(Arrival)
-----------------------------------------------------------------------------
(* Properties *)

\* QoS 1 as Kconfig describes it, "At least once delivery": a command the
\* broker was told is delivered has been executed, or is just about to be.
AtLeastOnce ==
    qos = 1 =>
        \A m \in 1..published \ unacked :
            runs[m] > 0 \/ (pc = "read" /\ cur = m)

\* The packets, sessions and handshakes implement what MqttDelivery promises:
\* across broken connections, redeliveries and split payloads commands run for
\* the first time in their order, repeats cost a fault, and the LED shows the
\* last of them.
Delivery == INSTANCE MqttDelivery

Delivers == Delivery!DeliverySpec

\* A command that the broker counts as delivered, or soon will, and that was not
\* executed: lost for good.  (Commands past IdsPerByte are lost for another
\* reason: their topic is not recognised.)
Lost ==
    {m \in (1..published \ unacked) \cup ToSet(acks) :
        runs[m] = 0 /\ TopicMatches(m) /\ ~(pc = "read" /\ cur = m)}

\* Acknowledging a command before its payload is read costs at most one command
\* for each fault: a connection that breaks, or a payload that comes in two
\* parts, never takes more with it, however it falls between the acknowledgement,
\* its arrival and the read.
LossesNeedFaults == qos > 0 => Cardinality(Lost) <= faults

\* A command that is executed twice was redelivered: the connection broke or
\* its acknowledgement was lost, so repeats are bounded by the faults of the
\* network.  The device keeps no identifiers: with QoS 2, too, a command whose
\* PUBREC was lost runs again.  With QoS 0 nothing is repeated.
RepeatsNeedFaults == \A m \in Ids : runs[m] <= 1 + (IF qos = 0 THEN 0 ELSE faults)

\* Nothing jams: when faults stop, the broker is done with every command it
\* was given, a QoS 2 handshake that broke in the middle included.
EveryCommandAcked ==
    \A m \in Ids : published >= m ~> m \notin unacked \cup releasing
=============================================================================
