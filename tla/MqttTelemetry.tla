---------------------------- MODULE MqttTelemetry ----------------------------
(***************************************************************************)
(* What applications/app_mqtt publishes: main() up to the connection loop  *)
(* (main.c, wifi_sta.c, mgmt.c, app_mqtt_init()), and the identifiers and  *)
(* payloads of app_mqtt_publish().  The connection itself is MqttLink's:   *)
(* here a session is open from the CONNACK to the close, and since the     *)
(* flag that the publish work looks at may outlive it, so may the works.   *)
(*                                                                         *)
(* The MQTT library and the broker are not part of the repository: a       *)
(* publish with QoS 1 and identifier 0 is refused, as is one without a     *)
(* session, a write that fails closes the session, nothing is sent again,  *)
(* and the broker acknowledges a session's publishes in their order and    *)
(* before msg_id comes round.                                              *)
(***************************************************************************)
EXTENDS Naturals, Sequences

CONSTANTS
    IdRange,    \* 2^16: the values of msg_id
    MaxLag      \* works until the broker's PUBACK, or the end of its session

ASSUME TelemetryAssumption == MaxLag \in Nat /\ IdRange \in Nat /\ MaxLag < IdRange /\ IdRange > 1

VARIABLES
    main,           \* what main() does next
    address,        \* the interface has an IPv4 address
    net_conn_sem,   \* given by mgmt.c; the loop that takes it is commented out
    session,        \* "none" yet, "open", or "closed"
    msg_id,
    unacked         \* what was published in this session and has no PUBACK:
                    \* identifiers, and the works since

bootVars == <<main, address, net_conn_sem>>
publishVars == <<session, msg_id, unacked>>
telemetryVars == <<bootVars, publishVars>>

TelemetryTypeOK ==
    /\ main \in {"devices", "wifi", "wait", "resolve", "loop", "returned", "fault"}
    /\ address \in BOOLEAN /\ net_conn_sem \in {0, 1}
    /\ session \in {"none", "open", "closed"}
    /\ msg_id \in 0..IdRange - 1
    /\ unacked \in Seq([id : 0..IdRange - 1, age : 0..MaxLag])

TelemetryInit ==
    /\ main = "devices" /\ address = FALSE /\ net_conn_sem = 0
    /\ session = "none" /\ msg_id = 1 /\ unacked = <<>>

Main(from, to) == main = from /\ main' = to
-----------------------------------------------------------------------------
(* main() up to its loop *)

\* device_ready()
DeviceReady ==
    /\ Main("devices", "wifi") \/ Main("devices", "returned")
    /\ UNCHANGED <<address, net_conn_sem, publishVars>>

\* connect_to_wifi(), whose failure is logged, net_if_get_default() and
\* net_dhcpv4_start().
ConnectToWifi ==
    /\ Main("wifi", "wait") \/ Main("wifi", "returned")
    /\ UNCHANGED <<address, net_conn_sem, publishVars>>

\* The 8 s are over, whatever the network did.
Wait ==
    /\ Main("wait", "resolve")
    /\ UNCHANGED <<address, net_conn_sem, publishVars>>

\* app_mqtt_init(): without an address getaddrinfo() fails, with one it may, as
\* may tls_init(); either ends main().
AppMqttInit ==
    /\ \/ Main("resolve", "loop") /\ address
       \/ Main("resolve", "returned")
    /\ UNCHANGED <<address, net_conn_sem, publishVars>>

\* mgmt_evt_handler(): NET_EVENT_IPV4_ADDR_ADD or NET_EVENT_L4_CONNECTED.  The
\* interface gets its address at any time after the request, or never.
LinkUp ==
    /\ main \notin {"devices", "wifi", "fault"} /\ ~address
    /\ address' = TRUE /\ net_conn_sem' = 1
    /\ UNCHANGED <<main, publishVars>>

\* NET_EVENT_L4_DISCONNECTED and NET_EVENT_WIFI_DISCONNECT_RESULT are logged.
LinkDown ==
    /\ address /\ main # "fault" /\ address' = FALSE
    /\ UNCHANGED <<main, net_conn_sem, publishVars>>
-----------------------------------------------------------------------------
(* Sessions, as MqttLink has them *)

Connack ==
    /\ main = "loop" /\ session # "open" /\ address
    /\ session' = "open"
    /\ UNCHANGED <<bootVars, msg_id, unacked>>

Closes == session' = "closed" /\ unacked' = <<>>

Close ==
    /\ main = "loop" /\ session = "open" /\ Closes
    /\ UNCHANGED <<bootVars, msg_id>>
-----------------------------------------------------------------------------
(* app_mqtt_publish() *)

\* Mutant of NextId: the identifier is an automatic variable.
AlwaysOne(id) == 1

\* Mutant of NextId: the identifier is wider than the protocol's.
Unwrapped(id) == id + 1

\* msg_id++
NextId(id) == (id + 1) % IdRange

\* What waits for its PUBACK at a publish work grows older.
Older == [i \in DOMAIN unacked |-> [unacked[i] EXCEPT !.age = @ + 1]]

\* The outcomes of mqtt_publish(): the message is sent, or refused, or the write
\* fails, which closes the session.
IsSent ==
    /\ session = "open" /\ msg_id # 0
    /\ unacked' = Append(Older, [id |-> msg_id, age |-> 0]) /\ UNCHANGED session

IsRefused == unacked' = Older /\ UNCHANGED session

SessionLost == session = "open" /\ msg_id # 0 /\ Closes

\* A publish work: whatever becomes of the message, its identifier is used up.
Work ==
    /\ main = "loop" /\ session # "none"
    /\ \A i \in DOMAIN unacked : unacked[i].age < MaxLag
    /\ msg_id' = NextId(msg_id)
    /\ UNCHANGED <<address, net_conn_sem>>

\* The publish work with a measurement.
Publish ==
    /\ Work /\ UNCHANGED main
    /\ \/ IsSent
       \/ (msg_id = 0 \/ session = "closed") /\ IsRefused
       \/ SessionLost

\* The publish work when get_mqtt_payload() fails: the payload is what the stack
\* holds.  It may be the last one, which fares as any other, a length that is
\* too large, which mqtt_publish() refuses, or an address that faults.
PublishWithoutPayload ==
    \/ Publish
    \/ Work /\ IsRefused /\ UNCHANGED main
    \/ Work /\ session = "open" /\ msg_id # 0 /\ IsRefused /\ Main("loop", "fault")

\* MQTT_EVT_PUBACK: the identifier is logged.
Puback ==
    /\ main = "loop" /\ session = "open" /\ unacked # <<>>
    /\ unacked' = Tail(unacked)
    /\ UNCHANGED <<bootVars, session, msg_id>>

TelemetryNext ==
    \/ DeviceReady \/ ConnectToWifi \/ Wait \/ AppMqttInit \/ LinkUp \/ LinkDown
    \/ Connack \/ Close \/ Publish \/ PublishWithoutPayload \/ Puback

TelemetrySpec == TelemetryInit /\ [][TelemetryNext]_telemetryVars
-----------------------------------------------------------------------------
(* Properties *)

\* Two publishes of a session that wait for their PUBACK differ in identifier,
\* although msg_id wraps and outlives the sessions.
DistinctInFlight ==
    \A i, j \in DOMAIN unacked : unacked[i].id = unacked[j].id => i = j
==============================================================================
