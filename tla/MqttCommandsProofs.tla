-------------------------- MODULE MqttCommandsProofs --------------------------
(***************************************************************************)
(* For every QoS and any number of commands and of faults: what the broker *)
(* knows to be delivered is not sent again, commands run for the first     *)
(* time in their order, and a command is repeated, or lost, at most once   *)
(* for each fault, with QoS 0 never repeated: the packets and sessions     *)
(* implement MqttDelivery.                                                 *)
(***************************************************************************)
EXTENDS MqttCommands, SequenceTheorems, FiniteSetTheorems, TLAPS

\* The command the event handler works on.
InHand(m) == pc # "poll" /\ cur = m

\* Command m is on its way to being executed.
Pending(m) == m \in ToSet(wire) \/ InHand(m)

\* Nothing of this session was lost so far: the connection is there, and no
\* payload was left unread.
Intact == up /\ ~(pc = "poll" /\ payload_left)

\* Command m was executed, or never will be.
Done(m) == runs[m] > 0 \/ ~TopicMatches(m)

\* PUBACKs, the command in hand and the wire follow each other in the order of
\* publication, and the wire carries nothing the broker has forgotten.
OrderInv ==
    /\ Increasing(wire) /\ ToSet(wire) \subseteq 1..published
    /\ IF qos = 0 THEN unacked = {} ELSE ToSet(wire) \subseteq unacked
    /\ ToSet(acks) \subseteq 1..published
    /\ \A a \in ToSet(acks), w \in ToSet(wire) : a < w
    /\ pc # "poll" => cur <= published /\ \A w \in ToSet(wire) : cur < w

\* How often a command may be run, the run to come included: once, and once more
\* for each fault; a broken session has already cost one.
Allowed == IF qos = 0 THEN 1 ELSE faults + (IF Intact THEN 1 ELSE 0)

RepeatInv ==
    /\ \A m \in Ids : runs[m] + (IF Pending(m) THEN 1 ELSE 0) <= Allowed
    /\ pc = "poll" /\ payload_left => faults > 0
    /\ \A m \in Ids : runs[m] > 0 => m <= published

\* Nothing unfinished is skipped: a session that has not lost a payload carries
\* what comes before any command on the wire, and an open one carries it all.
CompleteInv ==
    /\ pc # "poll" =>
          payload_left /\ \A m \in unacked : m < cur => Done(m)
    /\ ~(pc = "poll" /\ payload_left) =>
          /\ \A w \in ToSet(wire), m \in unacked : m < w => Pending(m) \/ Done(m)
          /\ up => \A m \in unacked : Pending(m) \/ Done(m)

\* A command that was overtaken is never executed.
OvertakenInv ==
    \A m, n \in Ids :
        m < n /\ runs[n] > 0 => Done(m) \/ (m \notin unacked /\ ~Pending(m))

IInv == TypeOK /\ OrderInv /\ RepeatInv /\ CompleteInv /\ OvertakenInv
-----------------------------------------------------------------------------
(* Sequences *)

LEMMA AppendSet ==
    ASSUME NEW S, NEW s \in Seq(S), NEW x \in S
    PROVE  /\ Append(s, x) \in Seq(S) /\ ToSet(Append(s, x)) = ToSet(s) \cup {x}
           /\ Increasing(s) /\ (\A w \in ToSet(s) : w < x) => Increasing(Append(s, x))
<1>1. /\ Append(s, x) \in Seq(S) /\ Len(Append(s, x)) = Len(s) + 1 /\ Len(s) \in Nat
      /\ \A i \in 1..Len(s) : Append(s, x)[i] = s[i]
      /\ Append(s, x)[Len(s) + 1] = x
  BY AppendProperties, LenProperties
<1>2. DOMAIN s = 1..Len(s) /\ DOMAIN Append(s, x) = 1..Len(s) + 1
  BY <1>1, LenProperties
<1>3. ToSet(Append(s, x)) = ToSet(s) \cup {x}
  BY <1>1, <1>2 DEF ToSet
<1>4. ASSUME Increasing(s), \A w \in ToSet(s) : w < x
      PROVE  Increasing(Append(s, x))
  BY <1>1, <1>2, <1>4 DEF Increasing, ToSet
<1> QED
  BY <1>1, <1>3, <1>4

LEMMA TailSet ==
    ASSUME NEW S, NEW s \in Seq(S), s # <<>>
    PROVE  /\ Tail(s) \in Seq(S) /\ Head(s) \in ToSet(s) /\ ToSet(s) \subseteq S
           /\ ToSet(s) = ToSet(Tail(s)) \cup {Head(s)}
           /\ Increasing(s) => /\ Increasing(Tail(s))
                               /\ \A w \in ToSet(Tail(s)) : Head(s) < w
<1>1. /\ Tail(s) \in Seq(S) /\ Len(Tail(s)) = Len(s) - 1 /\ Len(s) \in Nat \ {0}
      /\ \A i \in 1..Len(s) - 1 : Tail(s)[i] = s[i + 1]
      /\ Head(s) = s[1]
  BY HeadTailProperties, EmptySeq, LenProperties
<1>2. DOMAIN s = 1..Len(s) /\ DOMAIN Tail(s) = 1..Len(s) - 1
  BY <1>1, LenProperties
<1>3. ToSet(s) \subseteq S
  BY <1>2, ElementOfSeq DEF ToSet
<1>4. Head(s) \in ToSet(s) /\ ToSet(Tail(s)) \subseteq ToSet(s)
  BY <1>1, <1>2 DEF ToSet
<1>5. ToSet(s) \subseteq ToSet(Tail(s)) \cup {Head(s)}
  <2> SUFFICES ASSUME NEW i \in 1..Len(s) PROVE s[i] \in ToSet(Tail(s)) \cup {Head(s)}
    BY <1>2 DEF ToSet
  <2>1. CASE i = 1
    BY <2>1, <1>1
  <2>2. CASE i # 1
    <3>1. i - 1 \in 1..Len(s) - 1 /\ Tail(s)[i - 1] = s[i]
      BY <2>2, <1>1
    <3> QED
      BY <3>1, <1>2 DEF ToSet
  <2> QED
    BY <2>1, <2>2
<1>6. ASSUME Increasing(s)
      PROVE  Increasing(Tail(s)) /\ \A w \in ToSet(Tail(s)) : Head(s) < w
  BY <1>1, <1>2, <1>6 DEF Increasing, ToSet
<1> QED
  BY <1>1, <1>3, <1>4, <1>5, <1>6

LEMMA EmptySet == ToSet(<<>>) = {} /\ Increasing(<<>>)
BY DEF ToSet, Increasing
-----------------------------------------------------------------------------
(* The invariant *)

LEMMA Initially == Init => IInv
<1> SUFFICES ASSUME Init PROVE IInv
  OBVIOUS
<1>1. /\ qos \in QosLevels /\ releasing = {} /\ rels = {} /\ comps = {}
      /\ published = 0 /\ unacked = {} /\ up = FALSE /\ wire = <<>> /\ acks = <<>>
      /\ faults = 0 /\ pc = "poll" /\ cur = 1 /\ payload_left = FALSE
      /\ runs = [m \in Ids |-> 0] /\ led_user = FALSE
  BY DEF Init
<1>2. TypeOK
  <2>1. 1 \in Ids /\ Commands \in Nat /\ MaxFaults \in Nat
    BY CommandsAssumption DEF Ids
  <2>2. <<>> \in Seq(Ids) /\ runs \in [Ids -> Nat]
    BY <1>1
  <2>3. published \in 0..Commands /\ unacked \subseteq 1..published /\ faults \in 0..MaxFaults
    BY <1>1, <2>1
  <2>4. /\ up \in BOOLEAN /\ payload_left \in BOOLEAN /\ led_user \in BOOLEAN
        /\ pc \in {"poll", "ack", "read"} /\ cur \in Ids /\ wire \in Seq(Ids) /\ acks \in Seq(Ids)
    BY <1>1, <2>1, <2>2
  <2> QED
    BY <1>1, <2>2, <2>3, <2>4 DEF TypeOK
<1>3. \A m \in Ids : ~Pending(m)
  BY <1>1, EmptySet DEF Pending, InHand
<1>4. OrderInv
  BY <1>1, EmptySet DEF OrderInv
<1>5. RepeatInv
  BY <1>1, <1>3 DEF RepeatInv, Allowed
<1>6. CompleteInv
  BY <1>1, EmptySet DEF CompleteInv
<1>7. OvertakenInv
  BY <1>1 DEF OvertakenInv
<1> QED
  BY <1>2, <1>4, <1>5, <1>6, <1>7 DEF IInv

\* The types, one by one.
LEMMA Types ==
    ASSUME TypeOK
    PROVE  /\ Commands \in Nat \ {0} /\ MaxFaults \in Nat
           /\ published \in Nat /\ published <= Commands /\ unacked \subseteq 1..published
           /\ qos \in Nat /\ qos \in QosLevels
           /\ releasing \subseteq Ids /\ rels \subseteq Ids /\ comps \subseteq Ids
           /\ 1..published \subseteq Ids /\ \A m \in Ids : m \in Nat /\ runs[m] \in Nat
           /\ wire \in Seq(Ids) /\ acks \in Seq(Ids) /\ faults \in Nat /\ faults <= MaxFaults
           /\ cur \in Ids /\ up \in BOOLEAN /\ payload_left \in BOOLEAN
           /\ pc \in {"poll", "ack", "read"}
           /\ runs \in [Ids -> Nat] /\ led_user \in BOOLEAN
BY CommandsAssumption, QosAssumption DEF TypeOK, Ids

\* What the broker sends again is a sequence of commands.
LEMMA RedeliverySeq == TypeOK => Redelivery \subseteq Seq(Ids)
<1> SUFFICES ASSUME TypeOK, NEW s \in Redelivery PROVE s \in Seq(Ids)
  OBVIOUS
<1>1. unacked \subseteq Ids /\ unacked \subseteq 1..published
  BY Types
<1>2. IsFiniteSet(1..published)
  BY Types, FS_Interval
<1>3. Cardinality(unacked) \in Nat
  BY <1>1, <1>2, FS_Subset, FS_CardinalityType
<1>4. s \in [1..Cardinality(unacked) -> unacked]
  BY DEF Redelivery
<1>5. s \in [1..Cardinality(unacked) -> Ids]
  BY <1>1, <1>4
<1> QED
  BY <1>3, <1>5
-----------------------------------------------------------------------------
(* The device's steps, one by one *)

\* mqtt_input() takes a PUBLISH.
Takes ==
    /\ pc = "poll" /\ ~payload_left /\ wire # <<>>
    /\ cur' = Head(wire) /\ wire' = Tail(wire)
    /\ payload_left' = TRUE /\ pc' = IF qos = 0 THEN "read" ELSE "ack"
    /\ UNCHANGED <<brokerVars, up, acks, rels, comps, faults, runs, led_user>>

\* The client is closed, by a fault or because the session is broken already.
GivesUp ==
    /\ Close /\ pc' = "poll"
    /\ Fault \/ (~Intact /\ UNCHANGED faults)
    /\ UNCHANGED <<brokerVars, cur, runs, led_user>>

\* mqtt_input() takes a PUBREL and the PUBCOMP is sent.
Releases ==
    /\ rels' \subseteq rels /\ comps' \subseteq comps \cup rels
    /\ UNCHANGED <<brokerVars, up, wire, acks, faults, deviceVars>>

Acks ==
    /\ pc = "ack" /\ pc' = "read"
    /\ acks' = (IF up THEN Append(acks, cur) ELSE acks)
    /\ UNCHANGED <<brokerVars, up, wire, rels, comps, faults, cur, payload_left, runs, led_user>>

\* The payload is read and the command executed, or not known.
Executes ==
    /\ pc = "read" /\ pc' = "poll" /\ payload_left' = FALSE
    /\ \/ /\ TopicMatches(cur)
          /\ runs' = [runs EXCEPT ![cur] = @ + 1] /\ led_user' = LightsLed(cur)
       \/ ~TopicMatches(cur) /\ UNCHANGED <<runs, led_user>>
    /\ UNCHANGED <<brokerVars, netVars, cur>>

\* The payload is not there, or not all of it.
Drops ==
    /\ pc = "read" /\ pc' = "poll" /\ Fault
    /\ UNCHANGED <<brokerVars, up, wire, acks, rels, comps, cur, payload_left, runs, led_user>>

LEMMA Steps ==
    ASSUME [Next]_vars
    PROVE  \/ Publish \/ AckArrives \/ CompArrives \/ ConnectionBreaks \/ Connect
           \/ Takes \/ GivesUp \/ Releases \/ Acks \/ Executes \/ Drops \/ UNCHANGED vars
<1>1. CASE Input
  BY <1>1 DEF Input, Arrives, Takes, GivesUp, Intact
<1>2. CASE Release
  BY <1>2 DEF Release, Releases, GivesUp, deviceVars
<1>3. CASE Ack
  BY <1>3 DEF Ack, Acks, GivesUp, Close
<1>4. CASE Read
  BY <1>4 DEF Read, Executes, Drops, GivesUp, Intact, Close
<1> QED
  BY <1>1, <1>2, <1>3, <1>4 DEF Next, Device, Arrival

LEMMA Typed == TypeOK /\ [Next]_vars => TypeOK'
<1> SUFFICES ASSUME TypeOK, [Next]_vars PROVE TypeOK'
  OBVIOUS
<1>0. <<>> \in Seq(Ids) /\ {} \subseteq Ids
  OBVIOUS
<1>1. CASE Publish
  <2>1. published + 1 \in Ids /\ published' = published + 1 /\ published' <= Commands
    BY <1>1, Types DEF Publish, Ids
  <2>2. unacked' \subseteq 1..published'
    BY <1>1, <2>1, Types DEF Publish
  <2>3. wire' \in Seq(Ids)
    BY <1>1, <2>1, Types, AppendSet DEF Publish
  <2> QED
    BY <1>1, <2>1, <2>2, <2>3, Types DEF Publish, deviceVars, TypeOK
<1>2. CASE AckArrives
  <2>1. acks' \in Seq(Ids) /\ Head(acks) \in Ids
    BY <1>2, Types, TailSet DEF AckArrives
  <2>2. releasing' \subseteq Ids /\ rels' \subseteq Ids /\ unacked' \subseteq unacked
    BY <1>2, <2>1, Types DEF AckArrives
  <2> QED
    BY <1>2, <2>1, <2>2 DEF AckArrives, deviceVars, TypeOK
<1>3. CASE CompArrives
  BY <1>3 DEF CompArrives, deviceVars, TypeOK
<1>4. CASE ConnectionBreaks
  <2>1. faults' \in 0..MaxFaults
    BY <1>4, Types DEF ConnectionBreaks, Fault
  <2>2. wire' \in Seq(Ids) /\ rels' \subseteq Ids /\ acks' = <<>> /\ comps' = {} /\ up' = FALSE
    BY <1>4, <1>0 DEF ConnectionBreaks, TypeOK
  <2> QED
    BY <1>4, <1>0, <2>1, <2>2 DEF ConnectionBreaks, brokerVars, deviceVars, TypeOK
<1>5. CASE Connect
  <2>1. wire' \in Seq(Ids)
    BY <1>5, RedeliverySeq DEF Connect
  <2> QED
    BY <1>5, <1>0, <2>1 DEF Connect, brokerVars, TypeOK
<1>6. CASE Takes
  <2>1. wire' \in Seq(Ids) /\ cur' \in Ids
    BY <1>6, Types, TailSet DEF Takes
  <2> QED
    BY <1>6, <2>1 DEF Takes, brokerVars, TypeOK
<1>7. CASE GivesUp
  <2>1. faults' \in 0..MaxFaults
    BY <1>7, Types DEF GivesUp, Fault
  <2> QED
    BY <1>7, <1>0, <2>1 DEF GivesUp, Close, brokerVars, TypeOK
<1>8. CASE Releases
  BY <1>8 DEF Releases, brokerVars, deviceVars, TypeOK
<1>9. CASE Acks
  <2>1. Append(acks, cur) \in Seq(Ids)
    BY Types, AppendSet
  <2> QED
    BY <1>9, <2>1 DEF Acks, brokerVars, TypeOK
<1>10. CASE Executes
  <2>1. runs' \in [Ids -> Nat] /\ led_user' \in BOOLEAN
    <3>1. runs \in [Ids -> Nat] /\ led_user \in BOOLEAN /\ LightsLed(cur) \in BOOLEAN
          /\ runs[cur] + 1 \in Nat
      BY DEF TypeOK, LightsLed
    <3> QED
      BY <1>10, <3>1 DEF Executes
  <2> QED
    BY <1>10, <2>1 DEF Executes, brokerVars, netVars, TypeOK
<1>11. CASE Drops
  <2>1. faults' \in 0..MaxFaults
    BY <1>11, Types DEF Drops, Fault
  <2> QED
    BY <1>11, <2>1 DEF Drops, brokerVars, TypeOK
<1>12. CASE UNCHANGED vars
  BY <1>12 DEF vars, brokerVars, netVars, deviceVars, TypeOK
<1> QED
  BY <1>1, <1>2, <1>3, <1>4, <1>5, <1>6, <1>7, <1>8, <1>9, <1>10, <1>11, <1>12, Steps

\* What the invariant looks at and no step but a few changes.
LEMMA Frame ==
    ASSUME [Next]_vars
    PROVE  /\ qos' = qos
           /\ UNCHANGED runs \/ (Executes /\ runs' = [runs EXCEPT ![cur] = @ + 1])
           /\ UNCHANGED faults \/ Fault
           /\ UNCHANGED published \/ Publish
           /\ unacked' \subseteq unacked \/ Publish
           /\ Takes \/ pc' = "poll" \/ (UNCHANGED cur /\ pc # "poll")
<1>1. CASE Publish \/ AckArrives \/ CompArrives \/ ConnectionBreaks
  BY <1>1 DEF Publish, AckArrives, CompArrives, ConnectionBreaks, brokerVars, deviceVars
<1>2. CASE Connect \/ GivesUp \/ Releases
  BY <1>2 DEF Connect, GivesUp, Releases, brokerVars, deviceVars
<1>3. CASE Takes \/ Acks \/ Executes \/ Drops
  BY <1>3 DEF Takes, Acks, Executes, Drops, brokerVars, netVars
<1>4. CASE UNCHANGED vars
  BY <1>4 DEF vars, brokerVars, netVars, deviceVars
<1> QED
  BY <1>1, <1>2, <1>3, <1>4, Steps
-----------------------------------------------------------------------------
(* The wire *)

LEMMA PublishWire ==
    ASSUME TypeOK, OrderInv, Publish
    PROVE  /\ published + 1 \in Ids /\ Increasing(wire')
           /\ ToSet(wire') = ToSet(wire) \cup (IF up THEN {published + 1} ELSE {})
           /\ unacked' = unacked \cup (IF qos = 0 THEN {} ELSE {published + 1})
<1>1. published + 1 \in Ids /\ wire \in Seq(Ids) /\ published' = published + 1
  BY Types DEF Publish, Ids
<1>2. \A w \in ToSet(wire) : w < published + 1
  BY Types DEF OrderInv
<1>3. Append(wire, published + 1) \in Seq(Ids)
      /\ ToSet(Append(wire, published + 1)) = ToSet(wire) \cup {published + 1}
      /\ Increasing(Append(wire, published + 1))
  BY <1>1, <1>2, AppendSet DEF OrderInv
<1> QED
  BY <1>1, <1>3 DEF Publish, OrderInv

LEMMA ConnectWire ==
    ASSUME Connect
    PROVE  Increasing(wire') /\ ToSet(wire') = unacked
BY DEF Connect, Redelivery

LEMMA TakesWire ==
    ASSUME TypeOK, OrderInv, Takes
    PROVE  /\ Increasing(wire') /\ ToSet(wire) = ToSet(wire') \cup {cur'}
           /\ cur' \in ToSet(wire) /\ \A w \in ToSet(wire') : cur' < w
<1>1. wire \in Seq(Ids) /\ wire # <<>> /\ Increasing(wire)
  BY Types DEF Takes, OrderInv
<1>2. wire' = Tail(wire) /\ cur' = Head(wire)
  BY DEF Takes
<1> QED
  BY <1>1, <1>2, TailSet

LEMMA AcksSet ==
    ASSUME TypeOK, OrderInv, Acks
    PROVE  ToSet(acks') \subseteq ToSet(acks) \cup {cur}
BY Types, AppendSet DEF Acks

LEMMA AckArrivesSet ==
    ASSUME TypeOK, OrderInv, AckArrives
    PROVE  /\ ToSet(acks') \subseteq ToSet(acks) /\ unacked' \subseteq unacked
           /\ qos # 0 => ToSet(wire) \subseteq unacked'
<1>1. ToSet(acks') \subseteq ToSet(acks) /\ Head(acks) \in ToSet(acks)
  BY Types, TailSet DEF AckArrives
<1>2. \A w \in ToSet(wire) : w # Head(acks)
  <2>1. ToSet(wire) \subseteq Nat
    BY Types DEF OrderInv
  <2> QED
    BY <1>1, <2>1 DEF OrderInv
<1>3. unacked' = unacked \ {Head(acks)}
  BY DEF AckArrives
<1> QED
  BY <1>1, <1>2, <1>3 DEF OrderInv

LEMMA OrderKept == TypeOK /\ OrderInv /\ [Next]_vars => OrderInv'
<1> SUFFICES ASSUME TypeOK, OrderInv, [Next]_vars PROVE OrderInv'
  OBVIOUS
<1>a. /\ published \in Nat /\ unacked \subseteq 1..published /\ cur \in Ids /\ Ids \subseteq Nat \ {0}
  BY Types DEF Ids
<1>b. /\ Increasing(wire) /\ ToSet(wire) \subseteq 1..published
      /\ IF qos = 0 THEN unacked = {} ELSE ToSet(wire) \subseteq unacked
      /\ ToSet(acks) \subseteq 1..published
      /\ \A a \in ToSet(acks), w \in ToSet(wire) : a < w
      /\ pc # "poll" => cur <= published /\ \A w \in ToSet(wire) : cur < w
  BY DEF OrderInv
<1>c. qos' = qos
  BY Frame
\* What is left to show when neither the broker nor the wire changes.
<1>d. ASSUME UNCHANGED <<published, unacked>>, wire' = wire \/ wire' = <<>>,
             ToSet(acks') \subseteq ToSet(acks) \cup (IF pc # "poll" THEN {cur} ELSE {}),
             pc' = "poll" \/ (pc # "poll" /\ UNCHANGED cur)
      PROVE  OrderInv'
  <2>1. /\ Increasing(wire') /\ ToSet(wire') \subseteq ToSet(wire)
    BY <1>b, <1>d, EmptySet
  <2>2. ToSet(acks') \subseteq 1..published /\ \A a \in ToSet(acks'), w \in ToSet(wire') : a < w
    BY <1>a, <1>b, <1>d, <2>1
  <2> QED
    BY <1>b, <1>c, <1>d, <2>1, <2>2 DEF OrderInv
<1>1. CASE Publish
  <2>1. published' = published + 1 /\ UNCHANGED <<acks, pc, cur>>
    BY <1>1 DEF Publish, deviceVars
  <2>2. Increasing(wire') /\ ToSet(wire') \subseteq ToSet(wire) \cup {published + 1}
        /\ unacked' = unacked \cup (IF qos = 0 THEN {} ELSE {published + 1})
    BY <1>1, PublishWire
  <2>3. ToSet(wire') \subseteq 1..published'
    BY <1>a, <1>b, <2>1, <2>2
  <2>4. \A a \in ToSet(acks), w \in ToSet(wire') : a < w
    BY <1>a, <1>b, <2>2
  <2>5. pc # "poll" => cur <= published' /\ \A w \in ToSet(wire') : cur < w
    BY <1>a, <1>b, <2>1, <2>2
  <2>6. ToSet(acks') = ToSet(acks) /\ ToSet(acks) \subseteq 1..published'
    BY <1>a, <1>b, <2>1
  <2> QED
    BY <1>b, <1>c, <2>1, <2>2, <2>3, <2>4, <2>5, <2>6 DEF OrderInv
<1>2. CASE AckArrives
  <2>1. UNCHANGED <<published, wire, pc, cur>>
    BY <1>2 DEF AckArrives, deviceVars
  <2>2. ToSet(acks') \subseteq ToSet(acks) /\ unacked' \subseteq unacked
        /\ (qos # 0 => ToSet(wire) \subseteq unacked')
    BY <1>2, AckArrivesSet
  <2> QED
    BY <1>b, <1>c, <2>1, <2>2 DEF OrderInv
<1>3. CASE CompArrives \/ Releases
  BY <1>3, <1>b, <1>c DEF CompArrives, Releases, brokerVars, deviceVars, OrderInv
<1>4. CASE ConnectionBreaks
  BY <1>4, <1>b, <1>c, EmptySet DEF ConnectionBreaks, brokerVars, deviceVars, OrderInv
<1>5. CASE Connect
  <2>1. UNCHANGED <<published, unacked, pc>> /\ pc = "poll" /\ acks' = <<>>
    BY <1>5 DEF Connect, brokerVars
  <2>2. Increasing(wire') /\ ToSet(wire') = unacked
    BY <1>5, ConnectWire
  <2> QED
    BY <1>a, <1>b, <1>c, <2>1, <2>2, EmptySet DEF OrderInv
<1>6. CASE Takes
  <2>1. UNCHANGED <<published, unacked, acks>>
    BY <1>6 DEF Takes, brokerVars
  <2>2. /\ Increasing(wire') /\ ToSet(wire') \subseteq ToSet(wire) /\ cur' \in ToSet(wire)
        /\ \A w \in ToSet(wire') : cur' < w
    BY <1>6, TakesWire
  <2>3. ToSet(acks') = ToSet(acks) /\ cur' <= published
    BY <1>a, <1>b, <2>1, <2>2
  <2> QED
    BY <1>b, <1>c, <2>1, <2>2, <2>3 DEF OrderInv
<1>7. CASE GivesUp
  BY <1>7, <1>d, EmptySet DEF GivesUp, Close, brokerVars
<1>8. CASE Acks
  BY <1>8, <1>d, AcksSet DEF Acks, brokerVars
<1>9. CASE Executes \/ Drops
  BY <1>9, <1>d DEF Executes, Drops, brokerVars, netVars
<1>10. CASE UNCHANGED vars
  BY <1>b, <1>10 DEF vars, brokerVars, netVars, deviceVars, OrderInv
<1> QED
  BY <1>1, <1>2, <1>3, <1>4, <1>5, <1>6, <1>7, <1>8, <1>9, <1>10, Steps
-----------------------------------------------------------------------------
(* Repeats *)

LEMMA RepeatKept == IInv /\ [Next]_vars => RepeatInv'
<1> SUFFICES ASSUME IInv, [Next]_vars PROVE RepeatInv'
  OBVIOUS
<1>a. TypeOK /\ OrderInv /\ RepeatInv
  BY DEF IInv
<1>b. /\ published \in Nat /\ faults \in Nat /\ cur \in Ids /\ unacked \subseteq 1..published
      /\ \A m \in Ids : m \in Nat /\ runs[m] \in Nat
      /\ runs \in [Ids -> Nat] /\ up \in BOOLEAN /\ payload_left \in BOOLEAN
  BY <1>a, Types
<1>c. /\ \A m \in Ids : runs[m] + (IF Pending(m) THEN 1 ELSE 0) <= Allowed
      /\ pc = "poll" /\ payload_left => faults > 0
      /\ \A m \in Ids : runs[m] > 0 => m <= published
      /\ Allowed \in Nat
  BY <1>a, <1>b DEF RepeatInv, Allowed
<1>d. /\ IF qos = 0 THEN unacked = {} ELSE ToSet(wire) \subseteq unacked
      /\ pc # "poll" => cur <= published /\ \A w \in ToSet(wire) : cur < w
  BY <1>a DEF OrderInv
<1>e. /\ qos' = qos /\ (faults' = faults \/ faults' = faults + 1)
      /\ faults' \in Nat /\ faults' >= faults
      /\ published' \in Nat /\ published' >= published
  <2>1. faults' = faults \/ faults' = faults + 1
    BY Frame DEF Fault
  <2>2. published' = published \/ published' = published + 1
    BY Frame DEF Publish
  <2> QED
    BY <1>b, <2>1, <2>2, Frame
\* What is left to show when the runs stay the same.
<1>f. ASSUME UNCHANGED runs, \A m \in Ids : Pending(m)' => Pending(m),
             (Intact' <=> Intact) \/ faults' = faults + 1,
             pc' = "poll" /\ payload_left' => faults' > 0
      PROVE  RepeatInv'
  <2>1. Allowed' \in Nat /\ Allowed <= Allowed'
    <3>1. CASE qos = 0
      BY <1>e, <3>1 DEF Allowed
    <3>2. CASE qos # 0
      <4>1. /\ Allowed = faults + (IF Intact THEN 1 ELSE 0)
            /\ Allowed' = faults' + (IF Intact THEN 1 ELSE 0)'
        BY <1>e, <3>2, Zenon DEF Allowed
      <4>2. CASE faults' = faults /\ ((Intact' /\ Intact) \/ (~Intact' /\ ~Intact))
        BY <1>b, <1>c, <4>1, <4>2
      <4>3. CASE faults' = faults + 1
        BY <1>b, <4>1, <4>3
      <4> QED
        BY <1>e, <1>f, <4>2, <4>3
    <3> QED
      BY <3>1, <3>2
  <2>2. ASSUME NEW m \in Ids
        PROVE  runs[m] + (IF Pending(m)' THEN 1 ELSE 0) <= Allowed'
    BY <1>b, <1>c, <1>f, <2>1
  <2> QED
    BY <1>b, <1>c, <1>e, <1>f, <2>2 DEF RepeatInv
<1>1. CASE Publish
  <2>1. /\ published' = published + 1 /\ UNCHANGED <<up, faults, pc, cur, payload_left, runs>>
    BY <1>1 DEF Publish, deviceVars
  <2>2. published + 1 \in Ids
        /\ ToSet(wire') = ToSet(wire) \cup (IF up THEN {published + 1} ELSE {})
    BY <1>a, <1>1, PublishWire
  <2>3. Allowed' = Allowed
    BY <1>e, <2>1 DEF Allowed, Intact
  <2>4. ASSUME NEW m \in Ids
        PROVE  runs[m] + (IF Pending(m)' THEN 1 ELSE 0) <= Allowed
    <3>1. CASE m = published + 1 /\ up
      <4>1. runs[m] = 0
        BY <1>b, <1>c, <3>1
      <4>2. Intact \/ faults > 0
        BY <1>c, <3>1 DEF Intact
      <4>3. Allowed >= 1
        BY <1>b, <4>2 DEF Allowed
      <4> QED
        BY <1>c, <4>1, <4>3
    <3>2. CASE ~(m = published + 1 /\ up)
      <4>1. Pending(m)' => Pending(m)
        BY <2>1, <2>2, <3>2 DEF Pending, InHand
      <4> QED
        BY <1>b, <1>c, <4>1
    <3> QED
      BY <3>1, <3>2
  <2> QED
    BY <1>b, <1>c, <2>1, <2>3, <2>4 DEF RepeatInv
<1>2. CASE AckArrives \/ CompArrives \/ Releases \/ UNCHANGED vars
  <2>1. UNCHANGED <<up, wire, faults, pc, cur, payload_left, runs>>
    BY <1>2
       DEF AckArrives, CompArrives, Releases, vars, brokerVars, netVars, deviceVars
  <2>2. (Intact' <=> Intact) /\ \A m \in Ids : Pending(m)' => Pending(m)
    BY <2>1 DEF Pending, InHand, Intact
  <2> QED
    BY <1>c, <1>f, <2>1, <2>2
<1>3. CASE ConnectionBreaks
  <2>1. /\ UNCHANGED <<pc, cur, payload_left, runs>> /\ faults' = faults + 1
        /\ ToSet(wire') \subseteq ToSet(wire)
    BY <1>3, EmptySet DEF ConnectionBreaks, Fault, deviceVars
  <2>2. \A m \in Ids : Pending(m)' => Pending(m)
    BY <2>1 DEF Pending, InHand
  <2> QED
    BY <1>b, <1>f, <2>1, <2>2
<1>4. CASE Connect
  <2>1. /\ UNCHANGED <<published, unacked, faults, runs, pc>> /\ pc = "poll" /\ ~Intact
        /\ Intact' /\ payload_left' = FALSE /\ ToSet(wire') = unacked
    BY <1>4, ConnectWire DEF Connect, brokerVars, Intact
  <2>2. ASSUME NEW m \in Ids
        PROVE  runs[m] + (IF Pending(m)' THEN 1 ELSE 0) <= Allowed'
    <3>1. runs[m] \in Nat /\ runs[m] <= Allowed
      BY <1>b, <1>c
    <3>2. CASE qos = 0
      <4>1. ~Pending(m)' /\ Allowed' = Allowed
        BY <1>d, <1>e, <2>1, <3>2 DEF Pending, InHand, Allowed
      <4> QED
        BY <3>1, <4>1
    <3>3. CASE qos # 0
      <4>1. Allowed' = faults + 1 /\ Allowed = faults
        BY <1>b, <1>e, <2>1, <3>3 DEF Allowed
      <4> QED
        BY <1>b, <3>1, <4>1
    <3> QED
      BY <3>2, <3>3
  <2> QED
    BY <1>c, <2>1, <2>2 DEF RepeatInv
<1>5. CASE Takes
  <2>1. UNCHANGED <<faults, runs, up>> /\ pc = "poll" /\ ~payload_left /\ pc' # "poll"
    BY <1>5 DEF Takes
  <2>2. ToSet(wire) = ToSet(wire') \cup {cur'}
    BY <1>a, <1>5, TakesWire
  <2>3. (Intact' <=> Intact) /\ \A m \in Ids : Pending(m)' => Pending(m)
    BY <2>1, <2>2 DEF Pending, InHand, Intact
  <2> QED
    BY <1>f, <2>1, <2>3
<1>6. CASE GivesUp
  <2>1. /\ UNCHANGED runs /\ pc' = "poll" /\ payload_left' = FALSE /\ wire' = <<>>
        /\ ~up' /\ (faults' = faults + 1 \/ ~Intact)
    BY <1>6 DEF GivesUp, Close, Fault, Intact
  <2>2. ~Intact' /\ \A m \in Ids : ~Pending(m)'
    BY <2>1, EmptySet DEF Intact, Pending, InHand
  <2> QED
    BY <1>f, <2>1, <2>2
<1>7. CASE Acks
  <2>1. UNCHANGED <<up, wire, faults, cur, payload_left, runs>> /\ pc = "ack" /\ pc' = "read"
    BY <1>7 DEF Acks
  <2>2. (Intact' <=> Intact) /\ \A m \in Ids : Pending(m)' => Pending(m)
    BY <2>1 DEF Pending, InHand, Intact
  <2> QED
    BY <1>f, <2>1, <2>2
<1>8. CASE Executes
  <2>1. /\ UNCHANGED <<published, up, wire, faults, cur>> /\ pc = "read" /\ pc' = "poll"
        /\ payload_left' = FALSE
        /\ runs' = [runs EXCEPT ![cur] = @ + 1] \/ UNCHANGED runs
    BY <1>8 DEF Executes, brokerVars, netVars
  <2>2. Allowed' = Allowed
    BY <1>e, <2>1 DEF Intact, Allowed
  <2>3. /\ \A m \in Ids : m # cur => runs'[m] = runs[m]
        /\ runs'[cur] = runs[cur] + 1 \/ runs'[cur] = runs[cur]
        /\ Pending(cur) /\ cur <= published
    BY <1>b, <1>d, <2>1 DEF Pending, InHand
  <2>4. ASSUME NEW m \in Ids
        PROVE  /\ runs'[m] + (IF Pending(m)' THEN 1 ELSE 0) <= Allowed
               /\ runs'[m] > 0 => m <= published
    <3>1. CASE m = cur
      <4>1. runs[cur] + 1 <= Allowed
        BY <1>b, <1>c, <2>3
      <4>2. runs'[cur] \in Nat /\ runs'[cur] <= Allowed
        BY <1>b, <1>c, <2>3, <4>1
      <4>3. cur \notin ToSet(wire)
        BY <1>b, <1>d, <2>1
      <4>4. ~Pending(m)'
        BY <2>1, <3>1, <4>3 DEF Pending, InHand
      <4> QED
        BY <2>3, <3>1, <4>2, <4>4
    <3>2. CASE m # cur
      <4>1. Pending(m)' => Pending(m)
        BY <2>1 DEF Pending, InHand
      <4> QED
        BY <1>b, <1>c, <2>3, <3>2, <4>1
    <3> QED
      BY <3>1, <3>2
  <2> QED
    BY <2>1, <2>2, <2>4 DEF RepeatInv
<1>9. CASE Drops
  <2>1. /\ UNCHANGED <<wire, cur, runs>> /\ pc' = "poll" /\ faults' = faults + 1
    BY <1>9 DEF Drops, Fault
  <2>2. \A m \in Ids : Pending(m)' => Pending(m)
    BY <2>1 DEF Pending, InHand
  <2> QED
    BY <1>b, <1>f, <2>1, <2>2
<1> QED
  BY <1>1, <1>2, <1>3, <1>4, <1>5, <1>6, <1>7, <1>8, <1>9, Steps

-----------------------------------------------------------------------------
(* The order of first runs *)

LEMMA CompleteKept == IInv /\ [Next]_vars => CompleteInv'
<1> SUFFICES ASSUME IInv, [Next]_vars PROVE CompleteInv'
  OBVIOUS
<1>a. TypeOK /\ OrderInv /\ CompleteInv
  BY DEF IInv
<1>b. /\ published \in Nat /\ cur \in Ids /\ unacked \subseteq 1..published /\ unacked \subseteq Ids
      /\ 1..published \subseteq Ids /\ \A m \in Ids : m \in Nat /\ runs[m] \in Nat
      /\ runs \in [Ids -> Nat] /\ up \in BOOLEAN /\ payload_left \in BOOLEAN
  BY <1>a, Types
<1>c. /\ pc # "poll" => payload_left /\ \A m \in unacked : m < cur => Done(m)
      /\ ~(pc = "poll" /\ payload_left) =>
            /\ \A w \in ToSet(wire), m \in unacked : m < w => Pending(m) \/ Done(m)
            /\ up => \A m \in unacked : Pending(m) \/ Done(m)
  BY <1>a DEF CompleteInv
<1>d. /\ ToSet(wire) \subseteq 1..published
      /\ pc # "poll" => cur <= published /\ \A w \in ToSet(wire) : cur < w
  BY <1>a DEF OrderInv
<1>e. \A m \in Ids : runs'[m] = runs[m] => (Done(m)' <=> Done(m))
  BY Frame DEF Done, TopicMatches
<1>1. CASE Publish
  <2>1. UNCHANGED <<up, pc, cur, payload_left, runs>>
    BY <1>1 DEF Publish, deviceVars
  <2>2. /\ published + 1 \in Ids /\ unacked' \subseteq unacked \cup {published + 1}
        /\ ToSet(wire') = ToSet(wire) \cup (IF up THEN {published + 1} ELSE {})
    BY <1>a, <1>1, PublishWire
  <2>3. \A m \in Ids : (Done(m)' <=> Done(m)) /\ (Pending(m) => Pending(m)')
    BY <1>e, <2>1, <2>2 DEF Pending, InHand
  <2>4. \A m \in Ids : up /\ m = published + 1 => Pending(m)'
    BY <2>1, <2>2 DEF Pending
  <2>5. /\ pc' # "poll" => payload_left' /\ \A m \in unacked' : m < cur' => Done(m)'
    BY <1>b, <1>c, <1>d, <2>1, <2>2, <2>3
  <2>6. ASSUME ~(pc = "poll" /\ payload_left), NEW w \in ToSet(wire'), NEW m \in unacked', m < w
        PROVE  Pending(m)' \/ Done(m)'
    <3>0. m \in Ids /\ w \in Nat
      BY <1>b, <1>d, <2>2, <2>6
    <3>1. CASE up
      <4>1. CASE m \in unacked
        BY <1>b, <1>c, <2>3, <2>6, <3>1, <4>1
      <4>2. CASE m \notin unacked
        BY <2>2, <2>4, <3>0, <3>1, <4>2
      <4> QED
        BY <4>1, <4>2
    <3>2. CASE ~up
      <4>1. w \in ToSet(wire)
        BY <2>2, <2>6, <3>2
      <4>2. w \in 1..published
        BY <1>d, <4>1
      <4>3. m \in unacked
        BY <1>b, <2>2, <2>6, <3>0, <4>2
      <4> QED
        BY <1>b, <1>c, <2>3, <2>6, <4>1, <4>3
    <3> QED
      BY <3>1, <3>2
  <2>7. ASSUME ~(pc = "poll" /\ payload_left), up, NEW m \in unacked'
        PROVE  Pending(m)' \/ Done(m)'
    <3>1. CASE m \in unacked
      BY <1>b, <1>c, <2>3, <2>7, <3>1
    <3>2. CASE m \notin unacked
      BY <2>2, <2>4, <2>7, <3>2
    <3> QED
      BY <3>1, <3>2
  <2> QED
    BY <2>1, <2>5, <2>6, <2>7 DEF CompleteInv
\* What is left to show when nothing changes for the device.
<1>f. ASSUME UNCHANGED <<pc, cur, payload_left, runs>>, unacked' \subseteq unacked,
             up' => up, ToSet(wire') = ToSet(wire) \/ (~up' /\ ToSet(wire') = {})
      PROVE  CompleteInv'
  <2>1. \A m \in Ids : Done(m)' <=> Done(m)
    BY <1>e, <1>f
  <2>2. ToSet(wire') = ToSet(wire) => \A m \in Ids : Pending(m)' <=> Pending(m)
    BY <1>f DEF Pending, InHand
  <2> QED
    BY <1>b, <1>c, <1>d, <1>f, <2>1, <2>2 DEF CompleteInv
<1>2. CASE AckArrives \/ CompArrives \/ Releases \/ UNCHANGED vars
  <2>1. UNCHANGED <<up, wire, pc, cur, payload_left, runs>>
    BY <1>2
       DEF AckArrives, CompArrives, Releases, vars, brokerVars, netVars, deviceVars
  <2>2. unacked' \subseteq unacked
    BY <1>2
       DEF AckArrives, CompArrives, Releases, vars, brokerVars
  <2> QED
    BY <1>f, <2>1, <2>2
<1>3. CASE ConnectionBreaks
  <2>1. UNCHANGED <<unacked, pc, cur, payload_left, runs>> /\ ~up'
        /\ (wire' = wire \/ ToSet(wire') = {})
    BY <1>3, EmptySet DEF ConnectionBreaks, brokerVars, deviceVars
  <2> QED
    BY <1>f, <2>1
<1>4. CASE Connect
  <2>1. UNCHANGED unacked /\ pc' = "poll" /\ ToSet(wire') = unacked
    BY <1>4, ConnectWire DEF Connect, brokerVars
  <2> QED
    BY <2>1 DEF CompleteInv, Pending
<1>5. CASE Takes
  <2>1. UNCHANGED <<unacked, runs, up>> /\ pc = "poll" /\ ~payload_left /\ pc' # "poll"
        /\ payload_left'
    BY <1>5 DEF Takes, brokerVars
  <2>2. ToSet(wire) = ToSet(wire') \cup {cur'} /\ \A w \in ToSet(wire') : cur' < w
    BY <1>a, <1>5, TakesWire
  <2>3. \A m \in Ids : (Done(m)' <=> Done(m)) /\ (Pending(m)' <=> Pending(m))
    BY <1>e, <2>1, <2>2 DEF Pending, InHand
  <2>4. \A m \in unacked : m < cur' => ~Pending(m)
    <3>1. cur' \in Nat /\ \A m \in unacked : m \in Nat
      BY <1>b, <1>d, <2>2
    <3> QED
      BY <2>1, <2>2, <3>1 DEF Pending, InHand
  <2>5. \A m \in unacked : m < cur' => Done(m)
    BY <1>c, <2>1, <2>2, <2>4
  <2> QED
    BY <1>b, <1>c, <2>1, <2>2, <2>3, <2>5 DEF CompleteInv
<1>6. CASE GivesUp
  BY <1>6, EmptySet DEF GivesUp, Close, CompleteInv
<1>7. CASE Acks
  <2>1. UNCHANGED <<unacked, up, wire, cur, payload_left, runs>> /\ pc = "ack" /\ pc' = "read"
    BY <1>7 DEF Acks, brokerVars
  <2>2. \A m \in Ids : (Done(m)' <=> Done(m)) /\ (Pending(m)' <=> Pending(m))
    BY <1>e, <2>1 DEF Pending, InHand
  <2> QED
    BY <1>b, <1>c, <2>1, <2>2 DEF CompleteInv
<1>8. CASE Executes
  <2>1. /\ UNCHANGED <<qos, unacked, up, wire, cur>> /\ pc = "read" /\ pc' = "poll"
        /\ \/ runs' = [runs EXCEPT ![cur] = @ + 1]
           \/ ~TopicMatches(cur) /\ UNCHANGED runs
    BY <1>8 DEF Executes, brokerVars, netVars
  <2>2. \A m \in Ids : m # cur => runs'[m] = runs[m]
    BY <1>b, <2>1
  <2>3. \A m \in Ids : m = cur => Done(m)'
    <3>1. runs'[cur] > 0 \/ ~TopicMatches(cur)
      BY <1>b, <2>1
    <3> QED
      BY <2>1, <3>1 DEF Done, TopicMatches
  <2>4. \A m \in Ids : (Done(m) => Done(m)') /\ (Pending(m) => Pending(m)' \/ Done(m)')
    BY <1>e, <2>1, <2>2, <2>3 DEF Pending, InHand
  <2> QED
    BY <1>b, <1>c, <1>d, <2>1, <2>4 DEF CompleteInv
<1>9. CASE Drops
  BY <1>9, <1>c DEF Drops, CompleteInv
<1> QED
  BY <1>1, <1>2, <1>3, <1>4, <1>5, <1>6, <1>7, <1>8, <1>9, Steps

LEMMA OvertakenKept == IInv /\ [Next]_vars => OvertakenInv'
<1> SUFFICES ASSUME IInv, [Next]_vars, NEW m \in Ids, NEW n \in Ids, m < n, runs'[n] > 0
             PROVE  Done(m)' \/ (m \notin unacked' /\ ~Pending(m)')
  BY DEF OvertakenInv
<1>a. TypeOK /\ OrderInv /\ RepeatInv /\ CompleteInv /\ OvertakenInv
  BY DEF IInv
<1>b. /\ published \in Nat /\ cur \in Ids /\ m \in Nat /\ n \in Nat /\ unacked \subseteq 1..published
      /\ runs \in [Ids -> Nat] /\ runs[m] \in Nat
  BY <1>a, Types
\* Neither an old command that runs again nor a step of another kind revives m.
<1>1. CASE runs[n] > 0
  <2>1. n <= published
    BY <1>a, <1>1 DEF RepeatInv
  <2>2. Done(m) \/ (m \notin unacked /\ ~Pending(m))
    BY <1>a, <1>1 DEF OvertakenInv
  <2>3. Done(m) => Done(m)'
    <3>1. runs[m] > 0 => runs'[m] > 0
      BY <1>b, Frame
    <3> QED
      BY <3>1, Frame DEF Done, TopicMatches
  <2>4. m \notin unacked => m \notin unacked'
    <3>1. Publish => unacked' \subseteq unacked \cup {published + 1}
      BY <1>a, PublishWire
    <3> QED
      BY <1>b, <2>1, <3>1, Frame
  <2>5. ASSUME m \notin unacked, ~Pending(m) PROVE ~Pending(m)'
    <3>1. CASE Takes
      BY <1>a, <2>5, <3>1, TakesWire DEF Pending, InHand
    <3>2. CASE Publish
      <4>1. ToSet(wire') \subseteq ToSet(wire) \cup {published + 1} /\ UNCHANGED <<pc, cur>>
        BY <1>a, <3>2, PublishWire DEF Publish, deviceVars
      <4> QED
        BY <1>b, <2>1, <2>5, <4>1 DEF Pending, InHand
    <3>3. CASE Connect
      BY <2>5, <3>3, ConnectWire DEF Connect, Pending, InHand
    <3>4. CASE ~Takes /\ ~Publish /\ ~Connect
      <4>1. wire' = wire \/ wire' = <<>>
        BY <3>4, Steps
           DEF AckArrives, CompArrives, ConnectionBreaks, GivesUp, Close, Releases, Acks,
               Executes, Drops, vars, netVars
      <4>2. pc' = "poll" \/ (UNCHANGED cur /\ pc # "poll")
        BY <3>4, Frame
      <4> QED
        BY <2>5, <4>1, <4>2, EmptySet DEF Pending, InHand
    <3> QED
      BY <3>1, <3>2, <3>3, <3>4
  <2> QED
    BY <2>2, <2>3, <2>4, <2>5
\* A first run: what was before it is done, or forgotten by the broker.
<1>2. CASE ~(runs[n] > 0)
  <2>1. Executes /\ runs' = [runs EXCEPT ![cur] = @ + 1]
    BY <1>2, Frame
  <2>2. n = cur
    BY <1>b, <1>2, <2>1
  <2>3. pc = "read" /\ pc' = "poll" /\ UNCHANGED <<unacked, wire>>
    BY <2>1 DEF Executes, brokerVars, netVars
  <2>4. m \in unacked => Done(m)
    BY <1>a, <2>2, <2>3 DEF CompleteInv
  <2>5. m \notin ToSet(wire)
    <3>1. \A w \in ToSet(wire) : w \in Nat /\ n < w
      BY <1>a, <2>2, <2>3 DEF OrderInv
    <3> QED
      BY <1>b, <3>1
  <2>6. ~Pending(m)'
    BY <2>3, <2>5 DEF Pending, InHand
  <2>7. Done(m) => Done(m)'
    <3>1. runs'[m] = runs[m]
      BY <1>b, <2>1, <2>2
    <3> QED
      BY <3>1, Frame DEF Done, TopicMatches
  <2> QED
    BY <2>3, <2>4, <2>6, <2>7
<1> QED
  BY <1>1, <1>2

-----------------------------------------------------------------------------
LEMMA Invariance == Spec => []IInv
<1>1. IInv /\ [Next]_vars => IInv'
  <2> SUFFICES ASSUME IInv, [Next]_vars PROVE IInv'
    OBVIOUS
  <2>1. TypeOK' /\ OrderInv'
    BY Typed, OrderKept DEF IInv
  <2> QED
    BY <2>1, RepeatKept, CompleteKept, OvertakenKept DEF IInv
<1> QED
  BY <1>1, Initially, PTL DEF Spec

\* Every variable keeps its type.
THEOREM TypeCorrect == Spec => []TypeOK
BY Invariance, PTL DEF IInv

\* What the broker knows to be delivered is not on its way to the device a
\* second time, so an acknowledged command is never started again.
AckedNotRedelivered == qos > 0 => ToSet(wire) \subseteq unacked

\* What the broker knows to be delivered is not on its way a second time.
THEOREM NothingDeliveredIsSent == Spec => []AckedNotRedelivered
<1>1. IInv => AckedNotRedelivered
  BY DEF IInv, OrderInv, AckedNotRedelivered
<1> QED
  BY <1>1, Invariance, PTL

\* A command runs at most once more than the network has faults, with QoS 0 at
\* most once.
THEOREM RepeatsAreBounded == Spec => []RepeatsNeedFaults
<1>1. IInv => RepeatsNeedFaults
  <2> SUFFICES ASSUME IInv, NEW m \in Ids
               PROVE  runs[m] <= 1 + (IF qos = 0 THEN 0 ELSE faults)
    BY DEF RepeatsNeedFaults
  <2>1. runs[m] + (IF Pending(m) THEN 1 ELSE 0) <= Allowed
    BY DEF IInv, RepeatInv
  <2>2. runs[m] \in Nat /\ faults \in Nat
    BY Types DEF IInv
  <2> QED
    BY <2>1, <2>2 DEF Allowed
<1> QED
  BY <1>1, Invariance, PTL

\* Commands run for the first time in the order of their publication, across
\* broken connections, redeliveries and split payloads.
FirstRunsInOrder ==
    [][\A m, n \in Ids : m < n /\ runs[m] = 0 /\ runs'[m] > 0 => runs[n] = 0]_vars

\* No command overtakes another on its first run.
THEOREM FirstRunsOrdered == Spec => FirstRunsInOrder
<1>1. IInv /\ [Next]_vars =>
        [\A m, n \in Ids : m < n /\ runs[m] = 0 /\ runs'[m] > 0 => runs[n] = 0]_vars
  <2> SUFFICES ASSUME IInv, [Next]_vars, NEW m \in Ids, NEW n \in Ids,
                      m < n, runs[m] = 0, runs'[m] > 0
               PROVE  runs[n] = 0
    OBVIOUS
  <2>1. runs \in [Ids -> Nat] /\ runs[n] \in Nat
    BY Types DEF IInv
  <2>2. runs' # runs
    OBVIOUS
  <2>3. Executes /\ runs' = [runs EXCEPT ![cur] = @ + 1]
    BY <2>2, Frame
  <2>4. m = cur /\ pc = "read" /\ TopicMatches(cur)
    BY <2>1, <2>2, <2>3 DEF Executes
  <2>5. ~Done(m) /\ Pending(m)
    BY <2>4 DEF Done, Pending, InHand
  <2>6. ~(runs[n] > 0)
    BY <2>5 DEF IInv, OvertakenInv
  <2> QED
    BY <2>1, <2>6
<1> QED
  BY <1>1, Invariance, PTL DEF Spec, FirstRunsInOrder
-----------------------------------------------------------------------------
(* The abstract delivery *)

\* A step of the command path is a publication, a fault, the execution of the
\* command in hand, or nothing to who publishes.
LEMMA DeliveryStep ==
    IInv /\ [Next]_vars => [Delivery!DeliveryNext]_(Delivery!deliveryVars)
<1> SUFFICES ASSUME IInv, [Next]_vars
             PROVE  Delivery!DeliveryNext \/ UNCHANGED Delivery!deliveryVars
  OBVIOUS
<1> USE DEF Delivery!DeliveryNext, Delivery!deliveryVars
<1>1. CASE Executes /\ TopicMatches(cur)
  <2>1. /\ pc = "read" /\ TopicMatches(cur) /\ runs' = [runs EXCEPT ![cur] = @ + 1]
        /\ led_user' = LightsLed(cur) /\ UNCHANGED <<qos, published, faults>>
    BY <1>1 DEF Executes, brokerVars, netVars
  <2>2. /\ cur \in Ids /\ cur \in Nat /\ published \in Nat /\ faults \in Nat /\ qos \in Nat
        /\ runs \in [Ids -> Nat]
    BY Types, QosAssumption DEF IInv, TypeOK, Ids
  <2>3. cur <= published
    BY <2>1 DEF IInv, OrderInv
  <2>4. Pending(cur)
    BY <2>1 DEF Pending, InHand
  <2>5. ASSUME runs[cur] = 0, NEW n \in cur + 1..published PROVE runs[n] = 0
    <3>1. n \in Ids /\ cur < n
      <4>1. published <= Commands /\ Commands \in Nat
        BY Types, CommandsAssumption DEF IInv, TypeOK
      <4> QED
        BY <2>2, <2>5, <4>1 DEF Ids
    <3>2. ~(runs[n] > 0)
      BY <2>1, <2>2, <2>4, <2>5, <3>1 DEF IInv, OvertakenInv, Done
    <3> QED
      BY <2>2, <3>1, <3>2
  <2>6. ASSUME runs[cur] # 0 PROVE qos > 0 /\ runs[cur] <= faults
    <3>1. runs[cur] + 1 <= Allowed /\ runs[cur] \in Nat
      BY <2>2, <2>4 DEF IInv, RepeatInv
    <3> QED
      BY <2>2, <2>6, <3>1 DEF Allowed
  <2>7. Delivery!Execute(cur)
    BY <2>1, <2>3, <2>5, <2>6 DEF Delivery!Execute, LightsLed
  <2> QED
    BY <2>2, <2>7 DEF Ids
<1>2. CASE Executes /\ ~TopicMatches(cur)
  BY <1>2 DEF Executes, brokerVars, netVars
<1>3. CASE Publish
  BY <1>3 DEF Publish, deviceVars, Delivery!Publish
<1>4. CASE ~Executes /\ ~Publish
  <2>1. UNCHANGED <<qos, runs, published>> /\ (UNCHANGED faults \/ Fault)
    BY <1>4, Frame
  <2>2. UNCHANGED led_user
    BY <1>4, Steps DEF AckArrives, CompArrives, ConnectionBreaks, Connect, Takes, GivesUp,
       Releases, Acks, Drops, vars, deviceVars
  <2> QED
    BY <2>1, <2>2 DEF Fault, Delivery!Fault
<1> QED
  BY <1>1, <1>2, <1>3, <1>4

\* Whatever breaks on the way, commands are delivered as MqttDelivery says.
THEOREM CommandsAreDelivered == Spec => Delivers
<1>1. Init => Delivery!DeliveryInit
  BY DEF Init, Delivery!DeliveryInit, Ids
<1> QED
  BY <1>1, DeliveryStep, Invariance, PTL DEF Spec, Delivers, Delivery!DeliverySpec

-----------------------------------------------------------------------------
(* Lost commands *)

\* The connection broke after the acknowledgement arrived and before the read:
\* the command in hand may be lost, at no further cost.
AtRisk == pc = "read" /\ ~up /\ cur \notin unacked /\ runs[cur] = 0

\* What is acknowledged now was kept by the broker until now, and a broken
\* connection carries no acknowledgement.
AckInv ==
    /\ pc = "ack" => cur \in unacked /\ \A a \in ToSet(acks) : a < cur
    /\ ~up => acks = <<>>

LossInv == qos > 0 => Cardinality(Lost) + (IF AtRisk THEN 1 ELSE 0) <= faults

LEMMA AckKept == IInv /\ AckInv /\ [Next]_vars => AckInv'
<1> SUFFICES ASSUME IInv, AckInv, [Next]_vars PROVE AckInv'
  OBVIOUS
<1>0. TypeOK /\ OrderInv
  BY DEF IInv
<1>1. CASE Publish
  <2>1. unacked \subseteq unacked' /\ UNCHANGED <<pc, cur, acks, up>>
    BY <1>1 DEF Publish, deviceVars
  <2> QED
    BY <2>1 DEF AckInv
<1>2. CASE AckArrives
  <2>1. /\ ToSet(acks') \subseteq ToSet(acks) /\ Head(acks) \in ToSet(acks) /\ acks # <<>>
        /\ unacked' = unacked \ {Head(acks)} /\ UNCHANGED <<pc, cur, up>>
    BY <1>0, <1>2, Types, TailSet DEF AckArrives, deviceVars
  <2>2. cur \in Nat
    BY <1>0, Types
  <2> QED
    BY <2>1, <2>2 DEF AckInv
<1>3. CASE Takes
  <2>1. /\ cur' \in ToSet(wire) /\ pc' = (IF qos = 0 THEN "read" ELSE "ack")
        /\ UNCHANGED <<acks, up, unacked>>
    BY <1>0, <1>3, TakesWire DEF Takes, brokerVars
  <2> QED
    BY <1>0, <2>1 DEF AckInv, OrderInv
<1>4. CASE ConnectionBreaks
  BY <1>4, EmptySet DEF ConnectionBreaks, brokerVars, deviceVars, AckInv
<1>5. CASE Connect
  BY <1>5 DEF Connect, AckInv
<1>6. CASE GivesUp
  BY <1>6 DEF GivesUp, Close, AckInv
<1>7. CASE Acks
  BY <1>7 DEF Acks, AckInv
<1>8. CASE Releases \/ CompArrives \/ UNCHANGED vars
  BY <1>8 DEF Releases, CompArrives, vars, brokerVars, netVars, deviceVars, AckInv
<1>9. CASE Executes \/ Drops
  BY <1>9 DEF Executes, Drops, brokerVars, netVars, AckInv
<1> QED
  BY <1>1, <1>2, <1>3, <1>4, <1>5, <1>6, <1>7, <1>8, <1>9, Steps

\* The lost commands are among all commands: there are finitely many.
LEMMA LostFinite ==
    ASSUME IInv
    PROVE  Lost \subseteq Ids /\ IsFiniteSet(Lost) /\ Cardinality(Lost) \in Nat
<1>1. Lost \subseteq 1..published
  BY DEF Lost, IInv, OrderInv
<1>2. IsFiniteSet(1..published) /\ 1..published \subseteq Ids
  BY Types, FS_Interval DEF IInv
<1>3. IsFiniteSet(Lost)
  BY <1>1, <1>2, FS_Subset
<1> QED
  BY <1>1, <1>2, <1>3, FS_CardinalityType

\* No step but a read or the end of a session loses a command, and those lose
\* the one in hand.
LEMMA LostGrows ==
    ASSUME IInv, AckInv, [Next]_vars, qos > 0
    PROVE  /\ Lost' \subseteq Lost \cup {cur}
           /\ cur \in Lost' \ Lost => pc = "read" /\ pc' = "poll" /\ UNCHANGED runs
<1>0. TypeOK /\ OrderInv /\ qos \in Nat
  BY Types DEF IInv
<1> DEFINE Given == (1..published \ unacked) \cup ToSet(acks)
           Skipped(m) == runs[m] = 0 /\ TopicMatches(m)
<1>1. Lost = {m \in Given : Skipped(m) /\ ~(pc = "read" /\ cur = m)}
  BY DEF Lost
<1>2. Lost' = {m \in Given' : Skipped(m)' /\ ~(pc' = "read" /\ cur' = m)}
  BY DEF Lost
<1>3. UNCHANGED qos /\ \A m : TopicMatches(m)' = TopicMatches(m)
  BY Frame DEF TopicMatches
<1>4. CASE Publish
  <2>1. /\ published' = published + 1 /\ unacked' = unacked \cup {published + 1}
        /\ UNCHANGED <<acks, pc, cur, runs>>
    BY <1>0, <1>4 DEF Publish, deviceVars
  <2>2. Given' \subseteq Given
    BY <1>0, <2>1, Types
  <2> QED
    BY <1>1, <1>2, <1>3, <2>1, <2>2
<1>5. CASE AckArrives
  <2>1. /\ ToSet(acks') \subseteq ToSet(acks) /\ Head(acks) \in ToSet(acks)
        /\ unacked' = unacked \ {Head(acks)} /\ UNCHANGED <<published, pc, cur, runs>>
    BY <1>0, <1>5, Types, TailSet DEF AckArrives, deviceVars
  <2>2. Given' \subseteq Given
    BY <2>1
  <2> QED
    BY <1>1, <1>2, <1>3, <2>1, <2>2
<1>6. CASE ConnectionBreaks
  <2>1. acks' = <<>> /\ UNCHANGED <<published, unacked, pc, cur, runs>>
    BY <1>6 DEF ConnectionBreaks, brokerVars, deviceVars
  <2>2. Given' \subseteq Given
    BY <2>1, EmptySet
  <2> QED
    BY <1>1, <1>2, <1>3, <2>1, <2>2
<1>7. CASE Connect
  <2>1. acks' = <<>> /\ pc = "poll" /\ UNCHANGED <<published, unacked, pc, cur, runs>>
    BY <1>7 DEF Connect, brokerVars
  <2>2. Given' \subseteq Given
    BY <2>1, EmptySet
  <2> QED
    BY <1>1, <1>2, <1>3, <2>1, <2>2
<1>8. CASE Takes
  <2>1. pc = "poll" /\ UNCHANGED <<published, unacked, acks, runs>>
    BY <1>8 DEF Takes, brokerVars
  <2> QED
    BY <1>1, <1>2, <1>3, <2>1
<1>9. CASE GivesUp
  <2>1. acks' = <<>> /\ pc' = "poll" /\ UNCHANGED <<published, unacked, cur, runs>>
    BY <1>9 DEF GivesUp, Close, brokerVars
  <2>2. Given' \subseteq Given
    BY <2>1, EmptySet
  <2> QED
    BY <1>1, <1>2, <1>3, <2>1, <2>2
<1>10. CASE Releases \/ CompArrives \/ UNCHANGED vars
  <2>1. UNCHANGED <<published, unacked, acks, pc, cur, runs>>
    BY <1>10 DEF Releases, CompArrives, vars, brokerVars, netVars, deviceVars
  <2> QED
    BY <1>1, <1>2, <1>3, <2>1
<1>11. CASE Acks
  <2>1. ToSet(acks') \subseteq ToSet(acks) \cup {cur}
    BY <1>0, <1>11, AcksSet
  <2>2. pc = "ack" /\ pc' = "read" /\ UNCHANGED <<published, unacked, cur, runs>>
    BY <1>11 DEF Acks, brokerVars
  <2>3. Given' \subseteq Given \cup {cur}
    BY <2>1, <2>2
  <2> QED
    BY <1>1, <1>2, <1>3, <2>2, <2>3
<1>12. CASE Executes
  <2>1. /\ pc = "read" /\ pc' = "poll" /\ UNCHANGED <<published, unacked, acks, cur>>
        /\ \/ TopicMatches(cur) /\ runs' = [runs EXCEPT ![cur] = @ + 1]
           \/ ~TopicMatches(cur) /\ UNCHANGED runs
    BY <1>12 DEF Executes, brokerVars, netVars
  <2>2. runs \in [Ids -> Nat] /\ cur \in Ids
    BY <1>0, Types
  <2>3. TopicMatches(cur) => runs'[cur] # 0
    BY <2>1, <2>2
  <2>4. \A m \in Ids : m # cur => runs'[m] = runs[m]
    BY <2>1, <2>2
  <2>5. ~Skipped(cur)'
    BY <1>3, <2>1, <2>3
  <2>6. Given \subseteq Ids /\ Given' = Given
    BY <1>0, <2>1, Types DEF OrderInv
  <2>7. Lost' \subseteq Lost
    BY <1>1, <1>2, <1>3, <2>1, <2>4, <2>5, <2>6
  <2> QED
    BY <2>7
<1>13. CASE Drops
  <2>1. /\ pc = "read" /\ pc' = "poll" /\ UNCHANGED <<published, unacked, acks, cur, runs>>
    BY <1>13 DEF Drops, brokerVars
  <2> QED
    BY <1>1, <1>2, <1>3, <2>1
<1> QED
  BY <1>4, <1>5, <1>6, <1>7, <1>8, <1>9, <1>10, <1>11, <1>12, <1>13, Steps

\* The cost of a lost command and the risk of one.
LEMMA LossKept == IInv /\ AckInv /\ LossInv /\ [Next]_vars => LossInv'
<1> SUFFICES ASSUME IInv, AckInv, LossInv, [Next]_vars, qos > 0
             PROVE  (Cardinality(Lost) + (IF AtRisk THEN 1 ELSE 0) <= faults)'
  BY Frame DEF LossInv
<1> DEFINE n == Cardinality(Lost)
           k == Cardinality(Lost')
<1>0. TypeOK /\ Lost' \subseteq Lost \cup {cur} /\ faults \in Nat
  BY LostGrows, Types DEF IInv
<1>1. n \in Nat /\ k \in Nat /\ IsFiniteSet(Lost) /\ IsFiniteSet(Lost')
  <2>1. IsFiniteSet(Lost \cup {cur})
    BY LostFinite, FS_AddElement
  <2> QED
    BY <1>0, <2>1, LostFinite, FS_Subset, FS_CardinalityType
<1>2. n + (IF AtRisk THEN 1 ELSE 0) <= faults
  BY DEF LossInv
<1>3. k <= n + 1
  <2>1. IsFiniteSet(Lost \cup {cur}) /\ Cardinality(Lost \cup {cur}) <= n + 1
    BY <1>1, FS_AddElement
  <2>2. Cardinality(Lost \cup {cur}) \in Nat /\ k <= Cardinality(Lost \cup {cur})
    BY <1>0, <2>1, FS_Subset, FS_CardinalityType
  <2> QED
    BY <1>1, <2>1, <2>2
<1>4. cur \notin Lost' \ Lost => k <= n
  <2>1. cur \notin Lost' \ Lost => Lost' \subseteq Lost
    BY <1>0
  <2> QED
    BY <1>1, <2>1, FS_Subset
<1>5. UNCHANGED faults \/ faults' = faults + 1
  BY Frame DEF Fault
<1> HIDE DEF n, k
<1>6. CASE cur \in Lost' \ Lost
  <2>1. pc = "read" /\ pc' = "poll" /\ UNCHANGED runs
    BY <1>6, LostGrows
  <2>2. ~AtRisk'
    BY <2>1 DEF AtRisk
  <2>3. AtRisk \/ faults' = faults + 1
    <3>1. GivesUp \/ Drops \/ Executes
      BY <2>1, Steps
         DEF Publish, AckArrives, CompArrives, ConnectionBreaks, Connect, Takes, Releases, Acks,
             vars, brokerVars, netVars, deviceVars
    <3>2. CASE Drops
      BY <3>2 DEF Drops, Fault
    <3>3. CASE Executes
      <4>1. /\ UNCHANGED <<published, unacked, acks, cur>> /\ TopicMatches(cur)' = TopicMatches(cur)
            /\ TopicMatches(cur) => runs'[cur] # runs[cur]
        BY <1>0, <3>3, Types DEF Executes, brokerVars, netVars, TopicMatches
      <4> QED
        BY <1>6, <2>1, <4>1 DEF Lost
    <3>4. CASE GivesUp /\ UNCHANGED faults
      <4>1. ~up /\ acks' = <<>> /\ UNCHANGED <<unacked, cur>>
        BY <1>0, <2>1, <3>4 DEF GivesUp, Close, Intact, Fault, brokerVars
      <4>2. cur \notin unacked /\ runs[cur] = 0
        BY <1>6, <2>1, <4>1, EmptySet DEF Lost
      <4> QED
        BY <2>1, <4>1, <4>2 DEF AtRisk
    <3> QED
      BY <1>5, <3>1, <3>2, <3>3, <3>4
  <2> QED
    BY <1>0, <1>1, <1>2, <1>3, <1>5, <2>2, <2>3 DEF k
<1>7. CASE cur \notin Lost' \ Lost
  <2>1. AtRisk' => AtRisk \/ faults' = faults + 1
    <3> SUFFICES ASSUME AtRisk', ~AtRisk PROVE faults' = faults + 1
      OBVIOUS
    <3>1. pc' = "read" /\ ~up' /\ cur' \notin unacked' /\ runs'[cur'] = 0
      BY DEF AtRisk
    <3>2. CASE ConnectionBreaks
      BY <3>2 DEF ConnectionBreaks, Fault
    <3>3. CASE Acks
      BY <3>1, <3>3 DEF Acks, AckInv, brokerVars
    <3>4. CASE AckArrives
      BY <3>1, <3>4 DEF AckArrives, AckInv
    <3>5. CASE Publish
      BY <1>0, <3>1, <3>5, Types DEF Publish, deviceVars, AtRisk
    <3>6. CASE Takes
      BY <3>1, <3>6, <1>0 DEF Takes
    <3>7. CASE Releases \/ CompArrives \/ UNCHANGED vars
      BY <3>1, <3>7 DEF Releases, CompArrives, vars, brokerVars, netVars, deviceVars, AtRisk
    <3> QED
      BY <3>1, <3>2, <3>3, <3>4, <3>5, <3>6, <3>7, Steps
         DEF Connect, GivesUp, Executes, Drops
  <2> QED
    BY <1>0, <1>1, <1>2, <1>4, <1>5, <1>7, <2>1 DEF k
<1> QED
  BY <1>6, <1>7

\* Every fault loses at most one command that the broker counts as delivered.
THEOREM LossesAreBounded == Spec => []LossesNeedFaults
<1>1. Init => AckInv /\ LossInv
  <2> SUFFICES ASSUME Init PROVE AckInv /\ LossInv
    OBVIOUS
  <2>1. /\ pc = "poll" /\ acks = <<>> /\ ToSet(acks) = {} /\ published = 0 /\ faults = 0
    BY EmptySet DEF Init
  <2>2. Lost = {} /\ ~AtRisk
    BY <2>1 DEF Lost, AtRisk
  <2> QED
    BY <2>1, <2>2, FS_EmptySet DEF AckInv, LossInv
<1>2. IInv /\ LossInv => LossesNeedFaults
  BY LostFinite, Types DEF LossInv, LossesNeedFaults, IInv
<1> QED
  BY <1>1, <1>2, Invariance, AckKept, LossKept, PTL DEF Spec

\* Without faults, and with identifiers below the byte that spoils the topic,
\* QoS 1 is what Kconfig says it is: at least once.
THEOREM AtLeastOnceWithoutFaults ==
    ASSUME MaxFaults = 0, Commands < IdsPerByte
    PROVE  Spec => []AtLeastOnce
<1>1. IInv /\ LossesNeedFaults => AtLeastOnce
  <2> SUFFICES ASSUME IInv, LossesNeedFaults, qos = 1, NEW m \in 1..published \ unacked
               PROVE  runs[m] > 0 \/ (pc = "read" /\ cur = m)
    BY DEF AtLeastOnce
  <2>1. m \in Ids /\ m \in Nat /\ m <= Commands /\ runs[m] \in Nat /\ faults = 0
    <3>1. 1..published \subseteq Ids /\ faults \in Nat /\ faults <= 0 /\ Commands \in Nat
      BY Types DEF IInv
    <3>2. m \in Ids
      BY <3>1
    <3> QED
      BY <3>1, <3>2, Types DEF IInv, Ids
  <2>2. Cardinality(Lost) = 0
    BY <2>1, LostFinite DEF LossesNeedFaults
  <2>3. m \notin Lost
    BY <2>2, LostFinite, FS_EmptySet
  <2>4. m \div IdsPerByte = 0
    BY <2>1, CommandsAssumption
  <2> QED
    BY <2>1, <2>3, <2>4 DEF Lost, TopicMatches
<1> QED
  BY <1>1, Invariance, LossesAreBounded, PTL
=============================================================================
