--------------------------- MODULE MqttLinkProofs ---------------------------
(***************************************************************************)
(* Proofs about MqttLink.  The state of the client library follows main's  *)
(* position except for one freedom: the work queue may close a connected   *)
(* client at any moment.  IInv says so label by label; the properties are  *)
(* consequences of it.                                                     *)
(***************************************************************************)
EXTENDS MqttLink, TLAPS

DisconnectPcs == {"onDisconnected", "flagDisconnected"}

\* Which function main is in at each label.
PhaseInv ==
    /\ pc \in {"open", "backoff", "check", "arm", "onConnected", "ledConnected"}
          => phase = "connect"
    /\ pc \in {"subscribe", "loop", "sleep", "live", "disconnect", "ack", "readPayload"}
          => phase = "run"

\* Where each callback returns to.
ReturnInv ==
    /\ pc \in CallbackPcs \ DisconnectPcs => after = "inputDone"
    /\ pc \in DisconnectPcs /\ phase = "connect" => after \in {"open", "backoff", "inputDone"}
    /\ pc \in DisconnectPcs /\ phase = "run"
          => after \in {"inputDone", "loop", "disconnect", "reset"}

\* The client's state at main's labels; only the work queue can make a
\* connected client idle behind main's back.
ClientInv ==
    /\ pc \in {"reset", "open", "backoff"} \cup DisconnectPcs => state = "idle"
    /\ phase = "connect" /\ pc \in {"prepare", "poll", "input"} => state = "tcp"
    /\ state = "tcp" => /\ phase = "connect"
                        /\ pc \in {"prepare", "poll", "input", "inputDone", "check"}
    /\ state = "idle" <=> peer = "none"
    /\ state = "tcp" => rx \in {"none", "connack", "refused"}
    /\ state = "connected" => rx \notin {"connack", "refused"}

\* The flag and the LED.
FlagInv ==
    /\ phase = "connect" /\ mqtt_connected
          => pc \in {"reset", "ledConnected", "inputDone", "check", "arm"}
    /\ state = "tcp" => ~mqtt_connected
    /\ pc \in {"open", "backoff"} => ~mqtt_connected
    /\ state = "connected" /\ pc # "onConnected" => mqtt_connected
    /\ mqtt_connected /\ pc \notin DisconnectPcs \cup {"ledConnected"} => led_net
    /\ phase = "run" \/ pc = "arm" => (led_net => mqtt_connected)
    /\ pc = "flagDisconnected" => ~led_net
    /\ state = "connected" /\ pc \notin {"onConnected", "ledConnected"} => led_net

SubscribedInv ==
    /\ subscribes # 0 => state = "connected" /\ phase = "run" /\ pc # "subscribe"
    /\ CommandsSubscribed

IInv == /\ ValueTypes /\ OneSocket /\ PublishScheduled
        /\ PhaseInv /\ ReturnInv /\ ClientInv /\ FlagInv /\ SubscribedInv
-----------------------------------------------------------------------------
(* The invariant is inductive. *)

\* Before app_mqtt_connect() is entered every part of the invariant holds.
LEMMA InitInv == Init => IInv
BY DEF Init, IInv, ValueTypes, OneSocket, PublishScheduled, PhaseInv, ReturnInv,
       ClientInv, FlagInv, SubscribedInv, CommandsSubscribed, CallbackPcs,
       DisconnectPcs, MainPcs

\* Where main may go on after on_mqtt_disconnected().
Returns == IF phase = "connect" THEN {"open", "inputDone"}
           ELSE {"inputDone", "loop", "disconnect", "reset"}

\* A close by main (client_disconnect(), which enters the DISCONNECT callback)
\* keeps the invariant, wherever main goes on afterwards.
LEMMA MainCloseInv ==
  ASSUME IInv, state # "idle", NEW next \in Returns, NEW result \in {"ok", "err"},
         pc # "onConnected", phase = "connect" => ~mqtt_connected,
         MainClose(next, result)
  PROVE  IInv'
<1> USE DEF IInv, MainClose, LibClose, appVars, workVars
<1>1. ValueTypes'
  BY DEF ValueTypes, MainPcs, CallbackPcs, Returns, OneSocket
<1>2. OneSocket' /\ PublishScheduled'
  BY DEF OneSocket, PublishScheduled
<1>3. PhaseInv' /\ ReturnInv'
  BY DEF PhaseInv, ReturnInv, DisconnectPcs, CallbackPcs, Returns, ValueTypes
<1>4. ClientInv'
  BY DEF ClientInv, DisconnectPcs
<1>5. FlagInv'
  BY DEF FlagInv, ClientInv, DisconnectPcs
<1>6. SubscribedInv'
  BY DEF SubscribedInv, CommandsSubscribed
<1>7. QED
  BY <1>1, <1>2, <1>3, <1>4, <1>5, <1>6

\* Every step of main, of the work queue and of the network keeps the invariant.
LEMMA StepInv == IInv /\ [Next]_vars => IInv'
<1> SUFFICES ASSUME IInv, [Next]_vars PROVE IInv'
  OBVIOUS
<1> USE DEF IInv, ValueTypes, OneSocket, PublishScheduled, PhaseInv, ReturnInv,
            ClientInv, FlagInv, SubscribedInv, CommandsSubscribed, CallbackPcs,
            DisconnectPcs, MainPcs, appVars, mainVars, workVars, libVars, netVars
<1>1. CASE Reset
  BY <1>1 DEF Reset
<1>2. CASE Open
  BY <1>2 DEF Open, Goto
<1>3. CASE Backoff
  BY <1>3 DEF Backoff, Continue, Goto
<1>4. CASE Check
  <2>1. CASE pc = "check" /\ mqtt_connected /\ Continue("arm")
    BY <2>1 DEF Continue, Goto
  <2>2. CASE pc = "check" /\ ~mqtt_connected /\ state = "idle" /\ Continue("open")
    BY <2>2 DEF Continue, Goto
  <2>3. CASE pc = "check" /\ ~mqtt_connected /\ state # "idle" /\ MainClose("open", rc)
    BY <2>3, MainCloseInv DEF Returns
  <2>4. QED
    BY <1>4, <2>1, <2>2, <2>3 DEF Check
<1>5. CASE Arm
  BY <1>5 DEF Arm
<1>6. CASE Subscribe
  <2>1. CASE pc = "subscribe" /\ state # "connected" /\ Continue("loop")
    BY <2>1 DEF Continue, Goto
  <2>2. CASE /\ pc = "subscribe" /\ state = "connected" /\ Goto("loop") /\ subscribes' = subscribes + 1
             /\ UNCHANGED <<rc, appVars, workVars, netVars, state, socks>>
    BY <2>2 DEF Goto
  <2>3. CASE pc = "subscribe" /\ state = "connected" /\ MainClose("loop", rc)
    BY <2>3, MainCloseInv DEF Returns
  <2>4. QED
    BY <1>6, <2>1, <2>2, <2>3 DEF Subscribe
<1>7. CASE Loop
  BY <1>7 DEF Loop, Continue, Goto
<1>8. CASE Sleep
  BY <1>8 DEF Sleep, Goto
<1>9. CASE PrepareFds
  BY <1>9 DEF PrepareFds, Goto
<1>10. CASE Poll
  <2>1. PICK r \in PollResults :
          /\ revents' = r[2]
          /\ \/ phase = "connect" /\ (Goto("input") \/ Goto("check"))
             \/ phase = "run" /\ (Goto("live") \/ Goto("input") \/ Goto("disconnect"))
    BY <1>10 DEF Poll, PollResults
  <2>2. r[2] \subseteq {"IN", "HUP"}
    <3>1. CASE \E ev \in SUBSET {"IN", "HUP"} : r = <<"ready", ev>>
      BY <3>1
    <3>2. CASE r = <<"ready", {"IN"}>>
      BY <3>2
    <3>3. CASE r = <<"ready", {}>> \/ r = <<"timeout", {}>>
      BY <3>3
    <3>4. CASE r = <<"error", revents>>
      BY <3>4
    <3>5. QED
      BY <3>1, <3>2, <3>3, <3>4 DEF PollResults
  <2>3. QED
    BY <1>10, <2>1, <2>2 DEF Poll, Goto
<1>11. CASE Live
  <2>1. CASE pc = "live" /\ Continue("disconnect")
    BY <2>1 DEF Continue, Goto
  <2>2. CASE pc = "live" /\ state = "connected" /\ Continue("loop")
    BY <2>2 DEF Continue, Goto
  <2>3. CASE pc = "live" /\ state = "connected" /\ MainClose("disconnect", rc)
    BY <2>3, MainCloseInv DEF Returns
  <2>4. QED
    BY <1>11, <2>1, <2>2, <2>3 DEF Live
<1>12. CASE Disconnect
  <2>1. CASE pc = "disconnect" /\ state # "connected" /\ Continue("reset")
    BY <2>1 DEF Continue, Goto
  <2>2. CASE pc = "disconnect" /\ state = "connected" /\ MainClose("reset", rc)
    BY <2>2, MainCloseInv DEF Returns
  <2>3. QED
    BY <1>12, <2>1, <2>2 DEF Disconnect
<1>13. CASE Input
  <2>1. CASE pc = "input" /\ MainClose("inputDone", "err") /\ state # "idle"
    BY <2>1, MainCloseInv DEF Returns
  <2>2. CASE /\ pc = "input" /\ Goto("inputDone") /\ rc' \in {"ok", "err"}
             /\ UNCHANGED <<libVars, netVars, appVars, workVars>>
    BY <2>2 DEF Goto
  <2>3. CASE /\ pc = "input" /\ state # "idle" /\ rx # "connack" /\ rx # "refused"
             /\ rx' = "none" /\ rc' = "ok" /\ after' = "inputDone"
             /\ \/ pc' = "inputDone"
                \/ rx \in {"publish0", "publish1"} /\ pc' \in {"readPayload", "ack"}
             /\ UNCHANGED <<phase, state, socks, subscribes, peer, appVars, workVars>>
    BY <2>3
  <2>4. CASE /\ pc = "input" /\ state # "idle" /\ rx = "connack"
             /\ rx' = "none" /\ rc' = "ok" /\ after' = "inputDone"
             /\ state' = "connected" /\ pc' = "onConnected"
             /\ UNCHANGED <<phase, socks, subscribes, peer, appVars, workVars>>
    BY <2>4
  <2>5. QED
    BY <1>13, <2>1, <2>2, <2>3, <2>4 DEF Input
<1>14. CASE InputDone
  <2>1. CASE pc = "inputDone" /\ phase = "connect" /\ Continue("check")
    BY <2>1 DEF Continue, Goto
  <2>2. CASE pc = "inputDone" /\ phase = "run" /\ Continue("disconnect")
    BY <2>2 DEF Continue, Goto
  <2>3. CASE pc = "inputDone" /\ phase = "run" /\ Continue("loop")
    BY <2>3 DEF Continue, Goto
  <2>4. QED
    BY <1>14, <2>1, <2>2, <2>3 DEF InputDone
<1>15. CASE OnConnected
  BY <1>15 DEF OnConnected, Goto
<1>16. CASE LedConnected
  BY <1>16 DEF LedConnected, Goto
<1>17. CASE OnDisconnected
  BY <1>17 DEF OnDisconnected, Goto
<1>18. CASE FlagDisconnected
  BY <1>18 DEF FlagDisconnected, Goto
<1>19. CASE Ack
  <2>1. CASE pc = "ack" /\ Continue("readPayload")
    BY <2>1 DEF Continue, Goto
  <2>2. CASE pc = "ack" /\ state = "connected" /\ MainClose(after, rc)
    BY <2>2, MainCloseInv DEF Returns
  <2>3. QED
    BY <1>19, <2>1, <2>2 DEF Ack
<1>20. CASE ReadPayload
  <2>1. CASE /\ pc = "readPayload" /\ Goto(after)
             /\ UNCHANGED <<rc, state, socks, subscribes, netVars, appVars, workVars>>
    BY <2>1 DEF Goto
  <2>2. CASE pc = "readPayload" /\ state # "idle" /\ MainClose(after, rc)
    BY <2>2, MainCloseInv DEF Returns
  <2>3. QED
    BY <1>20, <2>1, <2>2 DEF ReadPayload
<1>21. CASE TimerExpires
  BY <1>21 DEF TimerExpires
<1>22. CASE WorkStart
  BY <1>22 DEF WorkStart
<1>23. CASE WorkPublish
  <2>1. CASE /\ wpc' = "rearm" /\ UNCHANGED <<mainVars, armed, queued>>
             /\ state = "connected" /\ LibClose
             /\ ~mqtt_connected' /\ nfds' = 0 /\ ~led_net' /\ UNCHANGED revents
    <3>1. ValueTypes'
      BY <2>1 DEF LibClose
    <3>2. OneSocket'
      BY <2>1 DEF LibClose
    <3>3. PublishScheduled' /\ PhaseInv' /\ ReturnInv'
      BY <2>1
    <3>4. ClientInv' /\ FlagInv' /\ SubscribedInv'
      BY <2>1 DEF LibClose
    <3>5. QED
      BY <3>1, <3>2, <3>3, <3>4
  <2>2. CASE /\ wpc' = "rearm" /\ UNCHANGED <<mainVars, armed, queued>>
             /\ UNCHANGED <<state, socks, subscribes, netVars, appVars>>
    BY <2>2
  <2>3. QED
    BY <1>23, <2>1, <2>2 DEF WorkPublish
<1>24. CASE WorkRearm
  BY <1>24 DEF WorkRearm
<1>25. CASE BrokerSends
  BY <1>25 DEF BrokerSends
<1>26. CASE PeerGoes
  BY <1>26 DEF PeerGoes
<1>27. CASE UNCHANGED vars
  BY <1>27 DEF vars
<1>28. QED
  BY <1>1, <1>2, <1>3, <1>4, <1>5, <1>6, <1>7, <1>8, <1>9, <1>10, <1>11, <1>12, <1>13, <1>14, <1>15, <1>16, <1>17, <1>18, <1>19, <1>20, <1>21, <1>22, <1>23, <1>24, <1>25, <1>26, <1>27 DEF Next, Main, WorkQueue, Network


\* Every step keeps the boolean flags boolean.
LEMMA FlagTypesStep == FlagTypes /\ [Next]_vars => FlagTypes'
<1> SUFFICES ASSUME FlagTypes, [Next]_vars PROVE FlagTypes'
  OBVIOUS
<1> USE DEF FlagTypes, appVars, mainVars, workVars, libVars, netVars
<1>1. CASE Reset
  BY <1>1, Zenon DEF Reset
<1>2. CASE Open
  BY <1>2, Zenon DEF Open
<1>3. CASE Backoff
  BY <1>3, Zenon DEF Backoff, Continue
<1>4. CASE Check
  BY <1>4, Zenon DEF Check, MainClose, LibClose, Continue
<1>5. CASE Arm
  BY <1>5, Zenon DEF Arm
<1>6. CASE Subscribe
  BY <1>6, Zenon DEF Subscribe, MainClose, LibClose, Continue
<1>7. CASE Loop
  BY <1>7, Zenon DEF Loop, Continue
<1>8. CASE Sleep
  BY <1>8, Zenon DEF Sleep
<1>9. CASE PrepareFds
  BY <1>9, Zenon DEF PrepareFds
<1>10. CASE Poll
  BY <1>10, Zenon DEF Poll
<1>11. CASE Live
  BY <1>11, Zenon DEF Live, MainClose, LibClose, Continue
<1>12. CASE Disconnect
  BY <1>12, Zenon DEF Disconnect, MainClose, LibClose, Continue
<1>13. CASE Input
  BY <1>13, Zenon DEF Input, MainClose, LibClose
<1>14. CASE InputDone
  BY <1>14, Zenon DEF InputDone, Continue
<1>15. CASE OnConnected
  BY <1>15, Zenon DEF OnConnected
<1>16. CASE LedConnected
  BY <1>16, Zenon DEF LedConnected
<1>17. CASE OnDisconnected
  BY <1>17, Zenon DEF OnDisconnected
<1>18. CASE FlagDisconnected
  BY <1>18, Zenon DEF FlagDisconnected
<1>19. CASE Ack
  BY <1>19, Zenon DEF Ack, MainClose, LibClose, Continue
<1>20. CASE ReadPayload
  BY <1>20, Zenon DEF ReadPayload, MainClose, LibClose
<1>21. CASE TimerExpires
  BY <1>21, Zenon DEF TimerExpires
<1>22. CASE WorkStart
  BY <1>22, Zenon DEF WorkStart
<1>23. CASE WorkPublish
  BY <1>23, Zenon DEF WorkPublish, LibClose
<1>24. CASE WorkRearm
  BY <1>24, Zenon DEF WorkRearm
<1>25. CASE BrokerSends
  BY <1>25, Zenon DEF BrokerSends
<1>26. CASE PeerGoes
  BY <1>26, Zenon DEF PeerGoes
<1>27. CASE UNCHANGED vars
  BY <1>27, Zenon DEF vars
<1>28. QED
  BY <1>1, <1>2, <1>3, <1>4, <1>5, <1>6, <1>7, <1>8, <1>9, <1>10, <1>11, <1>12, <1>13, <1>14, <1>15, <1>16, <1>17, <1>18, <1>19, <1>20, <1>21, <1>22, <1>23, <1>24, <1>25, <1>26, <1>27 DEF Next, Main, WorkQueue, Network
-----------------------------------------------------------------------------
(* The theorems *)

\* Every reachable state of the application, whatever the interleaving,
\* satisfies the invariant.
THEOREM Invariance == Spec => []IInv
<1>1. Init => IInv
  BY InitInv
<1>2. IInv /\ [Next]_vars => IInv'
  BY StepInv
<1>3. QED
  BY <1>1, <1>2, PTL DEF Spec

\* Type correctness of MqttLink.
THEOREM TypeCorrect == Spec => []TypeOK
<1>1. Init => FlagTypes
  BY Zenon DEF Init, FlagTypes
<1>2. FlagTypes /\ [Next]_vars => FlagTypes'
  BY FlagTypesStep
<1>3. FlagTypes /\ IInv => TypeOK
  BY DEF IInv, TypeOK
<1>4. QED
  BY <1>1, <1>2, <1>3, Invariance, PTL DEF Spec

\* mqtt_connect() never runs over a socket that is still open, and no way out
\* of a session leaves one behind (mqtt_client.c:300-319, 410-425).
THEOREM NoSocketLeak == Spec => []OneSocket
<1>1. IInv => OneSocket
  BY DEF IInv
<1>2. QED
  BY <1>1, Invariance, PTL

\* The publish handler's cancel never cancels the schedule that main armed for
\* a session the application is serving (main.c:36-46, 96).
THEOREM PublisherAlive == Spec => []PublishScheduled
<1>1. IInv => PublishScheduled
  BY DEF IInv
<1>2. QED
  BY <1>1, Invariance, PTL

\* While main serves a live session, the flag is set and the LED is lit
\* (mqtt_client.c:86-101).
THEOREM LiveSessionKnown == Spec => []SessionKnown
<1>1. IInv => SessionKnown
  BY DEF IInv, FlagInv, PhaseInv, SessionKnown
<1>2. QED
  BY <1>1, Invariance, PTL

\* While main serves a session, callbacks apart, the LED is lit exactly if the
\* flag is set (mqtt_client.c:86-101).
THEOREM LedCorrect == Spec => []LedFollowsFlag
<1>1. IInv => LedFollowsFlag
  BY DEF IInv, FlagInv, DisconnectPcs, CallbackPcs, LedFollowsFlag
<1>2. QED
  BY <1>1, Invariance, PTL

\* A session that survives app_mqtt_subscribe() has its subscription
\* (mqtt_client.c:321-346, 413).
THEOREM SubscriptionHolds == Spec => []CommandsSubscribed
<1>1. IInv => CommandsSubscribed
  BY DEF IInv, SubscribedInv
<1>2. QED
  BY <1>1, Invariance, PTL

\* A step of the application that closes the client is the Close of MqttSession.
LEMMA CloseRefines ==
  ASSUME state # "idle", LibClose
  PROVE  Session!Close
BY DEF Session!Close, LibClose

\* Every other step that is not one of mqtt_connect(), CONNACK and SUBSCRIBE
\* leaves what MqttSession sees unchanged.
LEMMA StutterRefines ==
  ASSUME UNCHANGED <<state, subscribes>>
  PROVE  UNCHANGED Session!vars
BY DEF Session!vars

\* Under the invariant a step of the link is a step of the session or a stutter.
LEMMA StepRefines == IInv /\ [Next]_vars => [Session!Next]_(Session!vars)
<1> SUFFICES ASSUME IInv, [Next]_vars PROVE [Session!Next]_(Session!vars)
  OBVIOUS
<1> USE DEF appVars, mainVars, workVars, libVars, netVars
<1>1. CASE state' = "tcp" /\ state = "idle" /\ subscribes' = subscribes
  BY <1>1 DEF Session!Next, Session!Open
<1>2. CASE state' = "connected" /\ state = "tcp" /\ subscribes' = subscribes
  BY <1>2 DEF Session!Next, Session!Accept
<1>3. CASE /\ state = "connected" /\ state' = state
           /\ subscribes = 0 /\ subscribes' = subscribes + 1
  BY <1>3 DEF Session!Next, Session!Subscribe
<1>4. CASE state # "idle" /\ LibClose
  BY <1>4, CloseRefines DEF Session!Next
<1>5. CASE UNCHANGED <<state, subscribes>>
  BY <1>5, StutterRefines
<1>6. ASSUME Open PROVE state = "idle" /\ subscribes = 0
  BY <1>6 DEF Open, IInv, ClientInv, SubscribedInv
<1>7. ASSUME Input, rx = "connack" PROVE state = "tcp" \/ UNCHANGED <<state, subscribes>>
             \/ (state # "idle" /\ LibClose)
  BY <1>7 DEF Input, IInv, ClientInv, ValueTypes, MainClose, Goto
<1>8. ASSUME Subscribe, state = "connected" PROVE subscribes = 0
  BY <1>8 DEF Subscribe, IInv, SubscribedInv
<1>9. ASSUME ReadPayload PROVE UNCHANGED <<state, subscribes>> \/ (state # "idle" /\ LibClose)
  BY <1>9 DEF ReadPayload, MainClose, IInv, ClientInv
<1>10. QED
  <2>1. CASE Reset
    BY <2>1, <1>5 DEF Reset
  <2>2. CASE Open
    BY <2>2, <1>1, <1>5, <1>6 DEF Open
  <2>3. CASE Backoff
    BY <2>3, <1>5 DEF Backoff, Continue
  <2>4. CASE Check
    BY <2>4, <1>4, <1>5 DEF Check, MainClose, Continue
  <2>5. CASE Arm
    BY <2>5, <1>5 DEF Arm
  <2>6. CASE Subscribe
    BY <2>6, <1>4, <1>5, <1>3, <1>8 DEF Subscribe, MainClose, Continue
  <2>7. CASE Loop
    BY <2>7, <1>5 DEF Loop, Continue
  <2>8. CASE Sleep
    BY <2>8, <1>5 DEF Sleep
  <2>9. CASE PrepareFds
    BY <2>9, <1>5 DEF PrepareFds
  <2>10. CASE Poll
    BY <2>10, <1>5 DEF Poll
  <2>11. CASE Live
    BY <2>11, <1>4, <1>5 DEF Live, MainClose, Continue
  <2>12. CASE Disconnect
    BY <2>12, <1>4, <1>5 DEF Disconnect, MainClose, Continue
  <2>13. CASE Input
    BY <2>13, <1>4, <1>5, <1>2, <1>7 DEF Input, MainClose
  <2>14. CASE InputDone
    BY <2>14, <1>5 DEF InputDone, Continue
  <2>15. CASE OnConnected
    BY <2>15, <1>5 DEF OnConnected
  <2>16. CASE LedConnected
    BY <2>16, <1>5 DEF LedConnected
  <2>17. CASE OnDisconnected
    BY <2>17, <1>5 DEF OnDisconnected
  <2>18. CASE FlagDisconnected
    BY <2>18, <1>5 DEF FlagDisconnected
  <2>19. CASE Ack
    BY <2>19, <1>4, <1>5 DEF Ack, MainClose, Continue
  <2>20. CASE ReadPayload
    BY <2>20, <1>4, <1>5, <1>9 DEF ReadPayload, MainClose
  <2>21. CASE TimerExpires
    BY <2>21, <1>5 DEF TimerExpires
  <2>22. CASE WorkStart
    BY <2>22, <1>5 DEF WorkStart
  <2>23. CASE WorkPublish
    BY <2>23, <1>4, <1>5 DEF WorkPublish
  <2>24. CASE WorkRearm
    BY <2>24, <1>5 DEF WorkRearm
  <2>25. CASE BrokerSends
    BY <2>25, <1>5 DEF BrokerSends
  <2>26. CASE PeerGoes
    BY <2>26, <1>5 DEF PeerGoes
  <2>27. CASE UNCHANGED vars
    BY <2>27, <1>5 DEF vars
  <2>28. QED
    BY <2>1, <2>2, <2>3, <2>4, <2>5, <2>6, <2>7, <2>8, <2>9, <2>10, <2>11, <2>12, <2>13, <2>14, <2>15, <2>16, <2>17, <2>18, <2>19, <2>20, <2>21, <2>22, <2>23, <2>24, <2>25, <2>26, <2>27 DEF Next, Main, WorkQueue, Network

\* Whatever its threads do, the application behaves towards the broker as
\* MqttSession says: one connection at a time, at most one SUBSCRIBE in each.
THEOREM Refinement == Spec => Implements
<1>1. Init => Session!Init
  BY DEF Init, Session!Init
<1>2. IInv /\ [Next]_vars => [Session!Next]_(Session!vars)
  BY StepRefines
<1>3. QED
  BY <1>1, <1>2, Invariance, PTL DEF Spec, Implements, Session!Spec
=============================================================================
