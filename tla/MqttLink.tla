------------------------------ MODULE MqttLink ------------------------------
(***************************************************************************)
(* The MQTT application of applications/app_mqtt: the main thread (connect,*)
(* subscribe, poll, input, keep-alive, disconnect), the system work queue  *)
(* (the periodic publish), the delayable-work timer, the MQTT client       *)
(* library they share, and the broker's end of the socket.                 *)
(*                                                                         *)
(* Scheduling.  The application runs on one core.  The work queue thread   *)
(* is cooperative: main never runs inside one of its steps, and a step     *)
(* ends where the thread may block (the sensor read, the client mutex, the *)
(* socket).  Main is preemptible, so each of its assignments to shared     *)
(* state is a step.  The library holds the client's mutex in every call,   *)
(* so a call is one step, except that it releases the mutex around the     *)
(* event callback: the callback's statements are steps of their own.       *)
(***************************************************************************)
EXTENDS Naturals

VARIABLES
    \* the application's globals
    mqtt_connected,   \* mqtt_client.c:38
    nfds,             \* mqtt_client.c:31
    revents,          \* fds[0].revents: a subset of {"IN", "HUP"}
    led_net,          \* the LED_NET output
    \* the main thread
    pc,               \* the next statement
    phase,            \* the function it runs: app_mqtt_connect or app_mqtt_run
    after,            \* where a callback returns to
    rc,               \* 0, or an error: what the last library call returned
    \* the publish work item and the thread that runs it
    armed,            \* the delayable work's timer runs
    queued,           \* the work is in the system work queue
    wpc,              \* the work queue thread
    \* the MQTT client library (external)
    state,            \* "idle", "tcp" (CONNECT sent) or "connected"
    payload_left,     \* bytes of a PUBLISH payload are still unread
    refreshed,        \* last_activity moved since time_left was computed
    socks,            \* socket descriptors open
    subscribes,       \* SUBSCRIBE has been sent on this connection
    \* the broker's end of the socket (external)
    peer,             \* "none", "open" or "gone" (closed or reset)
    rx                \* the packet waiting in the socket, or "none"

appVars  == <<mqtt_connected, nfds, revents, led_net>>
mainVars == <<pc, phase, after, rc>>
workVars == <<armed, queued, wpc>>
libVars  == <<state, payload_left, refreshed, socks, subscribes>>
netVars  == <<peer, rx>>
vars     == <<appVars, mainVars, workVars, libVars, netVars>>

CallbackPcs == {"onConnected", "ledConnected", "onDisconnected",
                "flagDisconnected", "ack", "readPayload"}
MainPcs == {"reset", "open", "backoff", "prepare", "poll", "input", "inputDone",
            "check", "arm", "subscribe", "loop", "sleep", "live", "disconnect"}
           \cup CallbackPcs

FlagTypes ==
    /\ mqtt_connected \in BOOLEAN /\ led_net \in BOOLEAN
    /\ armed \in BOOLEAN /\ queued \in BOOLEAN
    /\ payload_left \in BOOLEAN /\ refreshed \in BOOLEAN

ValueTypes ==
    /\ nfds \in {0, 1} /\ revents \subseteq {"IN", "HUP"}
    /\ pc \in MainPcs /\ phase \in {"connect", "run"} /\ after \in MainPcs \ CallbackPcs
    /\ rc \in {"ok", "err"} /\ wpc \in {"idle", "publish", "rearm"}
    /\ state \in {"idle", "tcp", "connected"} /\ socks \in Nat /\ subscribes \in Nat
    /\ peer \in {"none", "open", "gone"}
    /\ rx \in {"none", "connack", "refused", "packet", "publish0", "publish1"}

TypeOK == FlagTypes /\ ValueTypes

Init ==
    /\ mqtt_connected = FALSE /\ nfds = 0 /\ revents = {} /\ led_net = FALSE
    /\ pc = "reset" /\ phase = "connect" /\ after = "reset" /\ rc = "ok"
    /\ armed = FALSE /\ queued = FALSE /\ wpc = "idle"
    /\ state = "idle" /\ payload_left = FALSE /\ refreshed = FALSE
    /\ socks = 0 /\ subscribes = 0
    /\ peer = "none" /\ rx = "none"
-----------------------------------------------------------------------------
(* The client library, as the application's calls see it. *)

\* client_disconnect(): close the transport and reset the client.  The event
\* callback that follows is the caller's business.
LibClose ==
    /\ state' = "idle" /\ payload_left' = FALSE /\ subscribes' = 0
    /\ socks' = socks - 1
    /\ peer' = "none" /\ rx' = "none"
    /\ UNCHANGED refreshed

\* What a call on the main thread that ends in client_disconnect() leaves:
\* main runs on_mqtt_disconnected() and then continues at `next'.
MainClose(next, result) ==
    /\ LibClose
    /\ pc' = "onDisconnected" /\ after' = next /\ rc' = result
    /\ UNCHANGED <<phase, appVars, workVars>>

Goto(label) == pc' = label /\ UNCHANGED <<phase, after>>

\* Main goes on and nothing else happens.
Continue(label) ==
    Goto(label) /\ UNCHANGED <<rc, appVars, workVars, libVars, netVars>>
-----------------------------------------------------------------------------
(* Main thread: app_mqtt_connect() *)

\* Mutant of Reset: the flag survives, and the loop's test believes it.
ResetKeepsFlag ==
    /\ pc = "reset"
    /\ phase' = "connect"
    /\ pc' = IF mqtt_connected THEN "arm" ELSE "open"
    /\ UNCHANGED <<appVars, after, rc, workVars, libVars, netVars>>

Reset ==
    /\ pc = "reset"
    /\ mqtt_connected' = FALSE /\ phase' = "connect"
    /\ pc' = "open"
    /\ UNCHANGED <<nfds, revents, led_net, after, rc, workVars, libVars, netVars>>

\* mqtt_connect(): a new socket, the TCP (and TLS) handshake, CONNECT sent.
\* It does not look at the client's state first.  When it fails it closes the
\* socket again; only if it had got as far as writing CONNECT does the event
\* callback hear of it.
Open ==
    /\ pc = "open"
    /\ \/ /\ state' = "tcp" /\ peer' = "open" /\ rx' = "none"
          /\ socks' = socks + 1
          /\ subscribes' = 0 /\ payload_left' = FALSE
          /\ Goto("prepare")
          /\ UNCHANGED refreshed
       \/ /\ Goto("backoff")
          /\ UNCHANGED <<libVars, netVars>>
       \/ /\ pc' = "onDisconnected" /\ after' = "backoff"
          /\ UNCHANGED <<phase, libVars, netVars>>
    /\ UNCHANGED <<appVars, rc, workVars>>

Backoff ==
    /\ pc = "backoff"
    /\ Continue("open")

\* Mutant of Check: mqtt_abort() is forgotten.
CheckWithoutAbort ==
    /\ pc = "check"
    /\ Continue(IF mqtt_connected THEN "arm" ELSE "open")

\* The tail of the connect loop's body and the loop's test: mqtt_abort() does
\* nothing to an idle client.
Check ==
    /\ pc = "check"
    /\ \/ mqtt_connected /\ Continue("arm")
       \/ ~mqtt_connected /\ state = "idle" /\ Continue("open")
       \/ ~mqtt_connected /\ state # "idle" /\ MainClose("open", rc)

\* Mutant of Arm: the work is scheduled at boot only.
ArmOnce ==
    /\ pc = "arm"
    /\ phase' = "run" /\ pc' = "subscribe"
    /\ UNCHANGED <<appVars, after, rc, workVars, libVars, netVars>>

\* Mutant of Arm: app_mqtt_run() goes straight to its loop.
ArmWithoutSubscribe ==
    /\ pc = "arm"
    /\ armed' = TRUE /\ phase' = "run" /\ pc' = "loop"
    /\ UNCHANGED <<appVars, after, rc, queued, wpc, libVars, netVars>>

\* k_work_reschedule() between app_mqtt_connect() and app_mqtt_run().
Arm ==
    /\ pc = "arm"
    /\ armed' = TRUE /\ phase' = "run" /\ pc' = "subscribe"
    /\ UNCHANGED <<appVars, after, rc, queued, wpc, libVars, netVars>>
-----------------------------------------------------------------------------
(* Main thread: app_mqtt_run() and app_mqtt_process() *)

\* app_mqtt_subscribe(), whose result app_mqtt_run() drops.
Subscribe ==
    /\ pc = "subscribe"
    /\ \/ state # "connected" /\ Continue("loop")
       \/ state = "connected" /\ Goto("loop") /\ subscribes' = subscribes + 1
             /\ UNCHANGED <<rc, appVars, workVars, netVars, state, payload_left, refreshed, socks>>
       \/ state = "connected" /\ MainClose("loop", rc)

\* Mutant of Loop: the SUBSCRIBE is inside the loop.
LoopResubscribes ==
    /\ pc = "loop"
    /\ Continue(IF mqtt_connected THEN "subscribe" ELSE "disconnect")

Loop ==
    /\ pc = "loop"
    /\ Continue(IF mqtt_connected THEN "sleep" ELSE "disconnect")

\* k_sleep() ends; mqtt_keepalive_time_left().
Sleep ==
    /\ pc = "sleep"
    /\ refreshed' = FALSE
    /\ Goto("prepare")
    /\ UNCHANGED <<appVars, rc, workVars, state, payload_left, socks, subscribes, netVars>>

PrepareFds ==
    /\ pc = "prepare"
    /\ nfds' = 1
    /\ Goto("poll")
    /\ UNCHANGED <<mqtt_connected, revents, led_net, rc, workVars, libVars, netVars>>

\* What zsock_poll() may return, with the revents it leaves.
PollResults ==
    (IF peer = "open" /\ rx # "none" THEN {<<"ready", {"IN"}>>} ELSE {})
    \cup (IF peer = "gone"
          THEN {<<"ready", ev>> : ev \in SUBSET {"IN", "HUP"} \ {{}}} ELSE {})
    \cup (IF peer = "none" THEN {<<"ready", {}>>, <<"timeout", {}>>} ELSE {})
    \cup (IF peer = "open" /\ rx = "none" THEN {<<"timeout", {}>>} ELSE {})
    \cup {<<"error", revents>>}

\* poll_mqtt_socket() from its test of nfds on, and what app_mqtt_connect()
\* and app_mqtt_process() do with its result.
Poll ==
    /\ pc = "poll"
    /\ \E r \in IF nfds = 0 THEN {<<"error", revents>>} ELSE PollResults :
          /\ revents' = r[2]
          /\ \/ /\ phase = "connect"
                /\ Goto(IF r[1] = "ready" THEN "input" ELSE "check")
             \/ /\ phase = "run" /\ r[1] = "timeout"
                /\ Goto("live")
             \/ /\ phase = "run" /\ r[1] # "timeout"
                /\ Goto(IF "IN" \in r[2] THEN "input" ELSE "disconnect")
    /\ UNCHANGED <<mqtt_connected, nfds, led_net, rc, workVars, libVars, netVars>>

\* mqtt_live(): a ping when one is due, -EAGAIN when none is.
Live ==
    /\ pc = "live"
    /\ \/ refreshed /\ Continue("disconnect")
       \/ state # "connected" /\ Continue("disconnect")
       \/ ~refreshed /\ state = "connected" /\ Continue("loop")
       \/ ~refreshed /\ state = "connected" /\ MainClose("disconnect", rc)

\* Mutant of Disconnect: the client is closed without a look at its state.
DisconnectAnyway ==
    /\ pc = "disconnect"
    /\ MainClose("reset", rc)

\* mqtt_disconnect() at the end of app_mqtt_run(): DISCONNECT is written and
\* the transport closed, whether or not the write succeeds.
Disconnect ==
    /\ pc = "disconnect"
    /\ \/ state # "connected" /\ Continue("reset")
       \/ state = "connected" /\ MainClose("reset", rc)
-----------------------------------------------------------------------------
(* Main thread: mqtt_input() and the event callback *)

\* mqtt_input(), up to the event callback.  A closed client and one with an
\* unread payload are refused; a dead socket ends in client_disconnect().
Input ==
    /\ pc = "input"
    /\ \/ /\ state = "idle" \/ payload_left
          /\ Goto("inputDone") /\ rc' = "err"
          /\ UNCHANGED <<libVars, netVars, appVars, workVars>>
       \/ /\ state # "idle" /\ ~payload_left
          /\ \/ /\ rx = "none" /\ peer = "open"
                /\ Goto("inputDone") /\ rc' = "ok"
                /\ UNCHANGED <<libVars, netVars, appVars, workVars>>
             \/ /\ rx = "refused" \/ (rx = "none" /\ peer = "gone")
                /\ MainClose("inputDone", "err")
             \/ /\ rx \in {"connack", "packet", "publish0", "publish1"}
                /\ rx' = "none" /\ rc' = "ok" /\ after' = "inputDone"
                /\ state' = IF rx = "connack" THEN "connected" ELSE state
                /\ \/ rx = "connack"  /\ pc' = "onConnected"  /\ payload_left' = FALSE
                   \/ rx = "packet"   /\ pc' = "inputDone"    /\ payload_left' = FALSE
                   \/ rx = "publish0" /\ pc' = "readPayload"  /\ payload_left' = TRUE
                   \/ rx = "publish1" /\ pc' = "ack"          /\ payload_left' = TRUE
                /\ UNCHANGED <<phase, refreshed, socks, subscribes, peer, appVars, workVars>>

\* What app_mqtt_connect() and app_mqtt_process() do once mqtt_input() is back.
InputDone ==
    /\ pc = "inputDone"
    /\ \/ phase = "connect" /\ Continue("check")
       \/ phase = "run" /\ (rc = "err" \/ "HUP" \in revents) /\ Continue("disconnect")
       \/ phase = "run" /\ rc = "ok" /\ "HUP" \notin revents /\ Continue("loop")

\* on_mqtt_connected(): the flag, then the LED.
OnConnected ==
    /\ pc = "onConnected"
    /\ mqtt_connected' = TRUE
    /\ Goto("ledConnected")
    /\ UNCHANGED <<nfds, revents, led_net, rc, workVars, libVars, netVars>>

\* Mutant of LedConnected: the callback forgets the LED.
LedForgotten ==
    /\ pc = "ledConnected"
    /\ Goto(after)
    /\ UNCHANGED <<appVars, rc, workVars, libVars, netVars>>

LedConnected ==
    /\ pc = "ledConnected"
    /\ led_net' = TRUE
    /\ Goto(after)
    /\ UNCHANGED <<mqtt_connected, nfds, revents, rc, workVars, libVars, netVars>>

\* Mutant of OnDisconnected: the callback leaves the LED alone.
LedLeftLit ==
    /\ pc = "onDisconnected"
    /\ nfds' = 0
    /\ Goto("flagDisconnected")
    /\ UNCHANGED <<mqtt_connected, revents, led_net, rc, workVars, libVars, netVars>>

\* on_mqtt_disconnected(): clear_fds() and the LED, then the flag.
OnDisconnected ==
    /\ pc = "onDisconnected"
    /\ nfds' = 0 /\ led_net' = FALSE
    /\ Goto("flagDisconnected")
    /\ UNCHANGED <<mqtt_connected, revents, rc, workVars, libVars, netVars>>

\* Mutant of FlagDisconnected: the callback forgets the flag.
FlagForgotten ==
    /\ pc = "flagDisconnected"
    /\ Goto(after)
    /\ UNCHANGED <<appVars, rc, workVars, libVars, netVars>>

FlagDisconnected ==
    /\ pc = "flagDisconnected"
    /\ mqtt_connected' = FALSE
    /\ Goto(after)
    /\ UNCHANGED <<nfds, revents, led_net, rc, workVars, libVars, netVars>>

\* MQTT_EVT_PUBLISH with QoS 1: the PUBACK goes out before the payload is
\* read.  When writing it fails the client is closed, and the read that
\* follows finds no payload.
Ack ==
    /\ pc = "ack"
    /\ \/ Continue("readPayload")
       \/ state = "connected" /\ MainClose(after, rc)

\* mqtt_read_publish_payload() does not wait: it returns all of the payload,
\* a part or none of it, or finds the socket dead and closes the client.
ReadPayload ==
    /\ pc = "readPayload"
    /\ \/ /\ payload_left' \in {FALSE, payload_left}
          /\ Goto(after)
          /\ UNCHANGED <<rc, state, refreshed, socks, subscribes, netVars, appVars, workVars>>
       \/ payload_left /\ peer = "gone" /\ MainClose(after, rc)
-----------------------------------------------------------------------------
(* The timer and the system work queue *)

TimerExpires ==
    /\ armed
    /\ armed' = FALSE /\ queued' = TRUE
    /\ UNCHANGED <<appVars, mainVars, wpc, libVars, netVars>>

\* publish_work_handler() up to the sensor read; k_work_cancel_delayable()
\* stops the timer and takes the work off the queue.
WorkStart ==
    /\ wpc = "idle" /\ queued
    /\ queued' = FALSE
    /\ \/ mqtt_connected /\ wpc' = "publish" /\ UNCHANGED armed
       \/ ~mqtt_connected /\ armed' = FALSE /\ UNCHANGED wpc
    /\ UNCHANGED <<appVars, mainVars, libVars, netVars>>

\* mqtt_publish(): refused without a session, written, or the write fails and
\* the event callback runs on this thread.
WorkPublish ==
    /\ wpc = "publish"
    /\ wpc' = "rearm"
    /\ \/ state # "connected" /\ UNCHANGED <<libVars, netVars, appVars>>
       \/ state = "connected" /\ refreshed' = TRUE
             /\ UNCHANGED <<state, payload_left, socks, subscribes, netVars, appVars>>
       \/ /\ state = "connected" /\ LibClose
          /\ mqtt_connected' = FALSE /\ nfds' = 0 /\ led_net' = FALSE
          /\ UNCHANGED revents
    /\ UNCHANGED <<mainVars, armed, queued>>

\* Mutant of WorkRearm: the handler does not reschedule the work.
WorkRunsOnce ==
    /\ wpc = "rearm"
    /\ wpc' = "idle"
    /\ UNCHANGED <<appVars, mainVars, armed, queued, libVars, netVars>>

WorkRearm ==
    /\ wpc = "rearm"
    /\ wpc' = "idle" /\ armed' = TRUE
    /\ UNCHANGED <<appVars, mainVars, queued, libVars, netVars>>
-----------------------------------------------------------------------------
(* The broker and the network (external) *)

BrokerSends ==
    /\ peer = "open" /\ rx = "none"
    /\ rx' \in IF state = "tcp" THEN {"connack", "refused"}
               ELSE {"packet", "publish0", "publish1"}
    /\ UNCHANGED <<peer, appVars, mainVars, workVars, libVars>>

\* The broker closes the connection or the network resets it; a packet still
\* in the socket may be lost with it.
PeerGoes ==
    /\ peer = "open"
    /\ peer' = "gone" /\ rx' \in {rx, "none"}
    /\ UNCHANGED <<appVars, mainVars, workVars, libVars>>
-----------------------------------------------------------------------------
Main ==
    \/ Reset \/ Open \/ Backoff \/ Check \/ Arm
    \/ Subscribe \/ Loop \/ Sleep \/ PrepareFds \/ Poll \/ Live \/ Disconnect
    \/ Input \/ InputDone \/ OnConnected \/ LedConnected
    \/ OnDisconnected \/ FlagDisconnected \/ Ack \/ ReadPayload

WorkQueue == WorkStart \/ WorkPublish \/ WorkRearm

Network == BrokerSends \/ PeerGoes

Next == Main \/ WorkQueue \/ TimerExpires \/ Network

Spec == Init /\ [][Next]_vars

\* Every wait of the two threads is bounded: poll by the keep-alive time, the
\* sleeps and the timer by the clock.  The broker promises nothing.
FairSpec == Spec /\ WF_vars(Main) /\ WF_vars(WorkQueue) /\ WF_vars(TimerExpires)
-----------------------------------------------------------------------------
(* Properties *)

\* The client holds exactly one socket while it is not idle and none while it
\* is: mqtt_connect() overwrites the descriptor without looking, so every way
\* out of a session, on either thread, must have closed it by then.
OneSocket == socks = IF state = "idle" THEN 0 ELSE 1

\* Whenever main serves a session the application believes in, a publish is
\* under way, waiting in the queue, or due: the handler's cancel never
\* cancels the schedule of the session that follows.
PublishScheduled ==
    phase = "run" /\ mqtt_connected => armed \/ queued \/ wpc # "idle"

\* While main serves a live session outside a callback, the application knows
\* of it: the flag is set (so publishes go out) and the LED is lit.
SessionKnown ==
    phase = "run" /\ state = "connected" => mqtt_connected /\ led_net

\* The LED is lit exactly while the flag is set, from the end of
\* app_mqtt_connect() to the next, even when the work queue tears the session
\* down in the middle of main's callback.  Between sessions they may differ: a
\* teardown between the two statements of on_mqtt_connected() leaves the LED
\* lit over a cleared flag, and so does one that the serving loop discovers.
LedFollowsFlag ==
    phase = "run" /\ pc \notin CallbackPcs => (mqtt_connected <=> led_net)

\* A LED left lit over a cleared flag is put right by the next attempt that
\* gets a socket: either the session comes up or the LED goes out.  Without a
\* socket nothing puts it out: mqtt_abort() does nothing to an idle client.
LedHeals ==
    (led_net /\ ~mqtt_connected /\ state = "tcp") ~> (mqtt_connected \/ ~led_net)

\* A session that lasts past app_mqtt_subscribe() has its subscription: the
\* dropped result can only be an error that has already closed the client.
CommandsSubscribed ==
    phase = "run" /\ pc # "subscribe" /\ state = "connected" => subscribes = 1

\* The descriptors and SUBSCRIBEs the broker sees are those of MqttSession.
Session == INSTANCE MqttSession WITH
    link <- IF state = "idle" THEN "down"
            ELSE IF state = "tcp" THEN "opening" ELSE "up"
Implements == Session!Spec

\* The device never falls silent: in every fair run it publishes for ever or
\* tries to connect for ever, whatever the broker and the network do.
NeverSilent == []<>(wpc = "publish" \/ pc = "open")

\* A flag that claims a session the client no longer has is put right: the
\* work queue can close the session inside main's on_mqtt_connected().
StaleFlagHeals ==
    (mqtt_connected /\ state = "idle") ~> ~mqtt_connected
=============================================================================
