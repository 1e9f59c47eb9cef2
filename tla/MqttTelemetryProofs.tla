-------------------------- MODULE MqttTelemetryProofs --------------------------
(***************************************************************************)
(* For every range of msg_id and every lag of the broker that is shorter,  *)
(* no two publishes in flight share an identifier.                         *)
(***************************************************************************)
EXTENDS MqttTelemetry, SequenceTheorems, TLAPS

InFlight == [id : 0..IdRange - 1, age : 0..MaxLag]

\* What was published later is younger.
InOrder == \A i, j \in DOMAIN unacked : i < j => unacked[i].age > unacked[j].age

\* msg_id is ahead of an identifier by the works since, modulo its range.
Numbered ==
    \A i \in DOMAIN unacked :
        LET ahead == unacked[i].id + unacked[i].age + 1
        IN  ahead = msg_id \/ ahead = msg_id + IdRange

TelemetryInv == TelemetryTypeOK /\ InOrder /\ Numbered

LEMMA Sizes == IdRange \in Nat /\ MaxLag \in Nat /\ IdRange >= MaxLag + 1 /\ IdRange >= 2
BY TelemetryAssumption

LEMMA FollowingId ==
    ASSUME NEW m \in 0..IdRange - 1
    PROVE  /\ NextId(m) \in 0..IdRange - 1
           /\ NextId(m) = m + 1 \/ (NextId(m) = 0 /\ m + 1 = IdRange)
BY Sizes DEF NextId

LEMMA TelemetryInitially == TelemetryInit => TelemetryInv
<1> SUFFICES ASSUME TelemetryInit PROVE TelemetryInv
  OBVIOUS
<1>1. unacked \in Seq(InFlight) /\ DOMAIN unacked = {}
  BY EmptySeq DEF TelemetryInit
<1>2. msg_id = 1 /\ session = "none"
  BY DEF TelemetryInit
<1>3. main = "devices" /\ address \in BOOLEAN /\ net_conn_sem \in {0, 1}
  BY DEF TelemetryInit
<1> HIDE DEF TelemetryInit
<1>4. TelemetryTypeOK
  <2>1. msg_id \in 0..IdRange - 1
    BY <1>2, Sizes
  <2> QED
    BY <1>1, <1>2, <1>3, <2>1 DEF TelemetryTypeOK, InFlight
<1>5. InOrder /\ Numbered
  BY <1>1 DEF InOrder, Numbered
<1> QED
  BY <1>4, <1>5 DEF TelemetryInv

\* A publish work that leaves the session open makes everything in flight older
\* and may add one of age 0.
LEMMA Aged ==
    ASSUME TelemetryInv, Work, IsSent \/ IsRefused
    PROVE  /\ unacked' \in Seq(InFlight)
           /\ \A i \in 1..Len(unacked) :
                 /\ unacked'[i].id = unacked[i].id
                 /\ unacked'[i].age = unacked[i].age + 1 /\ unacked'[i].age <= MaxLag
           /\ \/ Len(unacked') = Len(unacked)
              \/ /\ Len(unacked') = Len(unacked) + 1
                 /\ unacked'[Len(unacked) + 1] = [id |-> msg_id, age |-> 0]
<1> DEFINE older == Older
           new == [id |-> msg_id, age |-> 0]
<1>1. unacked \in Seq(InFlight) /\ msg_id \in 0..IdRange - 1
  BY DEF TelemetryInv, TelemetryTypeOK, InFlight
<1>2. Len(unacked) \in Nat /\ DOMAIN unacked = 1..Len(unacked)
      /\ unacked \in [1..Len(unacked) -> InFlight]
  BY <1>1, LenProperties
<1>3. \A i \in 1..Len(unacked) : unacked[i].age < MaxLag
  BY <1>2 DEF Work
<1>4. \A i \in 1..Len(unacked) :
        /\ older[i] \in InFlight /\ older[i].id = unacked[i].id
        /\ older[i].age = unacked[i].age + 1 /\ older[i].age <= MaxLag
  BY <1>2, <1>3, Sizes DEF InFlight, Older
<1>5. older \in Seq(InFlight) /\ Len(older) = Len(unacked)
  <2>1. older \in [1..Len(unacked) -> InFlight]
    BY <1>2, <1>4 DEF Older
  <2> HIDE DEF older
  <2>2. older \in Seq(InFlight)
    BY <1>2, <2>1, SeqDef
  <2> QED
    BY <1>2, <2>1, <2>2, LenProperties
<1>6. new \in InFlight
  BY <1>1, Sizes DEF InFlight
<1>7. unacked' = older \/ unacked' = Append(older, new)
  BY DEF IsSent, IsRefused
<1> HIDE DEF older, new
<1>8. CASE unacked' = older
  BY <1>4, <1>5, <1>8
<1>9. CASE unacked' = Append(older, new)
  <2>1. /\ unacked' \in Seq(InFlight) /\ Len(unacked') = Len(older) + 1
        /\ \A i \in 1..Len(older) : unacked'[i] = older[i]
        /\ unacked'[Len(older) + 1] = new
    BY <1>5, <1>6, <1>9, AppendProperties
  <2> QED
    BY <1>4, <1>5, <2>1 DEF new
<1> QED
  BY <1>7, <1>8, <1>9

\* A publish work with its identifier keeps the order and the numbering.
LEMMA WorkKeepsOrder ==
    ASSUME TelemetryInv, Work, IsSent \/ IsRefused
    PROVE  unacked' \in Seq(InFlight) /\ msg_id' \in 0..IdRange - 1 /\ InOrder' /\ Numbered'
<1> DEFINE n == Len(unacked)
<1>1. /\ unacked \in Seq(InFlight) /\ unacked' \in Seq(InFlight) /\ n \in Nat
      /\ DOMAIN unacked = 1..n /\ DOMAIN unacked' = 1..Len(unacked')
  BY Aged, LenProperties DEF TelemetryInv, TelemetryTypeOK, InFlight
<1>2. \A i \in 1..n : /\ unacked[i].id \in 0..IdRange - 1 /\ unacked[i].age \in 0..MaxLag
                      /\ unacked'[i].id = unacked[i].id
                      /\ unacked'[i].age = unacked[i].age + 1 /\ unacked'[i].age <= MaxLag
  <2>1. \A i \in 1..n : unacked[i] \in InFlight
    BY <1>1, ElementOfSeq
  <2>2. \A e \in InFlight : e.id \in 0..IdRange - 1 /\ e.age \in 0..MaxLag
    BY DEF InFlight
  <2> QED
    BY <2>1, <2>2, Aged
<1>3. \A i \in DOMAIN unacked' :
        \/ i \in 1..n
        \/ i = n + 1 /\ unacked'[i].id = msg_id /\ unacked'[i].age = 0
  <2>1. \/ Len(unacked') = n
        \/ Len(unacked') = n + 1 /\ unacked'[n + 1] = [id |-> msg_id, age |-> 0]
    BY Aged
  <2>2. [id |-> msg_id, age |-> 0].id = msg_id /\ [id |-> msg_id, age |-> 0].age = 0
    OBVIOUS
  <2>3. ASSUME NEW i \in DOMAIN unacked', ~(i \in 1..n)
        PROVE  i = n + 1 /\ unacked'[i].id = msg_id /\ unacked'[i].age = 0
    <3>2. i \in 1..Len(unacked') /\ n \in Nat
      BY <1>1
    <3>1. i = n + 1 /\ unacked'[n + 1] = [id |-> msg_id, age |-> 0]
      <4>1. Len(unacked') # n
        BY <2>3, <3>2
      <4>2. i = n + 1
        BY <2>1, <2>3, <3>2, <4>1
      <4> QED
        BY <2>1, <4>1, <4>2
    <3> QED
      BY <2>2, <3>1
  <2> QED
    BY <2>3
<1>4. msg_id \in 0..IdRange - 1 /\ msg_id' \in 0..IdRange - 1
      /\ (msg_id' = msg_id + 1 \/ (msg_id' = 0 /\ msg_id + 1 = IdRange))
  BY FollowingId DEF Work, TelemetryInv, TelemetryTypeOK
<1>5. InOrder'
  <2>1. ASSUME NEW i \in DOMAIN unacked', NEW j \in DOMAIN unacked', i < j
        PROVE  unacked'[i].age > unacked'[j].age
    <3>1. i \in 1..n
      BY <1>1, <1>3, <2>1
    <3>2. CASE j \in 1..n
      <4>1. unacked[i].age > unacked[j].age
        BY <1>1, <2>1, <3>1, <3>2 DEF TelemetryInv, InOrder
      <4> QED
        BY <1>2, <3>1, <3>2, <4>1
    <3>3. CASE unacked'[j].age = 0
      BY <1>2, <3>1, <3>3
    <3> QED
      BY <1>3, <3>2, <3>3
  <2> QED
    BY <2>1 DEF InOrder
<1>6. Numbered'
  <2>1. ASSUME NEW i \in DOMAIN unacked'
        PROVE  \/ unacked'[i].id + unacked'[i].age + 1 = msg_id'
               \/ unacked'[i].id + unacked'[i].age + 1 = msg_id' + IdRange
    <3>1. CASE i \in 1..n
      <4>1. \/ unacked[i].id + unacked[i].age + 1 = msg_id
            \/ unacked[i].id + unacked[i].age + 1 = msg_id + IdRange
        BY <1>1, <3>1 DEF TelemetryInv, Numbered
      <4>2. \A d \in 0..IdRange - 1, a \in 0..MaxLag :
              /\ a + 1 <= MaxLag
              /\ d + a + 1 = msg_id \/ d + a + 1 = msg_id + IdRange
              => d + (a + 1) + 1 = msg_id' \/ d + (a + 1) + 1 = msg_id' + IdRange
        <5>1. CASE msg_id' = msg_id + 1
          BY <1>4, <5>1, Sizes
        <5>2. CASE msg_id' = 0 /\ msg_id + 1 = IdRange
          <6>1. msg_id \in 0..IdRange - 1
            BY <1>4
          <6> QED
            BY <5>2, <6>1, Sizes
        <5> QED
          BY <1>4, <5>1, <5>2
      <4> QED
        BY <1>2, <3>1, <4>1, <4>2
    <3>2. CASE unacked'[i].id = msg_id /\ unacked'[i].age = 0
      <4>1. \/ msg_id + 0 + 1 = msg_id'
            \/ msg_id + 0 + 1 = msg_id' + IdRange
        <5>1. CASE msg_id' = msg_id + 1
          BY <1>4, <5>1, Sizes
        <5>2. CASE msg_id' = 0 /\ msg_id + 1 = IdRange
          BY <1>4, <5>2, Sizes
        <5> QED
          BY <1>4, <5>1, <5>2
      <4> QED
        BY <3>2, <4>1
    <3> QED
      BY <1>3, <3>1, <3>2
  <2> QED
    BY <2>1 DEF Numbered
<1> QED
  BY <1>1, <1>4, <1>5, <1>6

\* A session's end leaves nothing in flight.
LEMMA CloseKeepsOrder ==
    ASSUME Closes
    PROVE  unacked' \in Seq(InFlight) /\ InOrder' /\ Numbered'
<1>1. unacked' \in Seq(InFlight) /\ DOMAIN unacked' = {}
  BY EmptySeq DEF Closes
<1> QED
  BY <1>1 DEF InOrder, Numbered

LEMMA TelemetryStep == TelemetryInv /\ [TelemetryNext]_telemetryVars => TelemetryInv'
<1> SUFFICES ASSUME TelemetryInv, [TelemetryNext]_telemetryVars PROVE TelemetryInv'
  OBVIOUS
<1>0. /\ main \in {"devices", "wifi", "wait", "resolve", "loop", "returned", "fault"}
      /\ address \in BOOLEAN /\ net_conn_sem \in {0, 1} /\ session \in {"none", "open", "closed"}
      /\ unacked \in Seq(InFlight) /\ msg_id \in 0..IdRange - 1
  BY DEF TelemetryInv, TelemetryTypeOK, InFlight
\* The steps that leave the identifiers alone.
<1>1. CASE DeviceReady \/ ConnectToWifi \/ Wait \/ AppMqttInit \/ LinkUp \/ LinkDown
           \/ Connack \/ UNCHANGED telemetryVars
  <2>1. UNCHANGED <<msg_id, unacked>>
    BY <1>1 DEF DeviceReady, ConnectToWifi, Wait, AppMqttInit, LinkUp, LinkDown, Connack,
       telemetryVars, publishVars
  <2>2. main' \in {"devices", "wifi", "wait", "resolve", "loop", "returned", "fault"}
    BY <1>0, <1>1 DEF DeviceReady, ConnectToWifi, Wait, AppMqttInit, LinkUp, LinkDown, Connack,
       telemetryVars, bootVars, Main
  <2>3. address' \in BOOLEAN
    BY <1>0, <1>1, Zenon DEF DeviceReady, ConnectToWifi, Wait, AppMqttInit, LinkUp, LinkDown,
       Connack, telemetryVars, bootVars
  <2>4. net_conn_sem' \in {0, 1} /\ session' \in {"none", "open", "closed"}
    BY <1>0, <1>1 DEF DeviceReady, ConnectToWifi, Wait, AppMqttInit, LinkUp, LinkDown, Connack,
       telemetryVars, bootVars, publishVars
  <2>5. TelemetryTypeOK'
    BY <1>0, <2>1, <2>2, <2>3, <2>4 DEF TelemetryTypeOK, InFlight
  <2>6. InOrder' /\ Numbered'
    BY <2>1 DEF TelemetryInv, InOrder, Numbered
  <2> QED
    BY <2>5, <2>6 DEF TelemetryInv
<1>2. CASE Close
  <2>1. Closes /\ UNCHANGED <<main, address, net_conn_sem, msg_id>>
    BY <1>2 DEF Close, bootVars
  <2>2. unacked' \in Seq(InFlight) /\ InOrder' /\ Numbered'
    BY <2>1, CloseKeepsOrder
  <2>3. TelemetryTypeOK'
    BY <1>0, <2>1, <2>2 DEF TelemetryTypeOK, InFlight, Closes
  <2> QED
    BY <2>2, <2>3 DEF TelemetryInv
<1>3. CASE Publish \/ PublishWithoutPayload
  <2>1. /\ Work /\ main' \in {main, "fault"}
        /\ IsSent \/ IsRefused \/ SessionLost
    BY <1>3 DEF Publish, PublishWithoutPayload, Main
  <2>2. UNCHANGED <<address, net_conn_sem>> /\ msg_id' \in 0..IdRange - 1
    BY <1>0, <2>1, FollowingId DEF Work
  <2>3. session' \in {"none", "open", "closed"}
    BY <1>0, <2>1 DEF IsSent, IsRefused, SessionLost, Closes
  <2>4. unacked' \in Seq(InFlight) /\ InOrder' /\ Numbered'
    <3>1. CASE IsSent \/ IsRefused
      BY <2>1, <3>1, WorkKeepsOrder
    <3>2. CASE SessionLost
      BY <3>2, CloseKeepsOrder DEF SessionLost
    <3> QED
      BY <2>1, <3>1, <3>2
  <2>5. TelemetryTypeOK'
    BY <1>0, <2>1, <2>2, <2>3, <2>4 DEF TelemetryTypeOK, InFlight
  <2> QED
    BY <2>4, <2>5 DEF TelemetryInv
<1>4. CASE Puback
  <2>1. /\ UNCHANGED <<main, address, net_conn_sem, session, msg_id>>
        /\ unacked # <<>> /\ unacked' = Tail(unacked)
    BY <1>4 DEF Puback, bootVars
  <2>2. /\ unacked' \in Seq(InFlight) /\ Len(unacked) \in Nat
        /\ Len(unacked') = Len(unacked) - 1
        /\ \A i \in 1..Len(unacked') : unacked'[i] = unacked[i + 1]
        /\ DOMAIN unacked = 1..Len(unacked) /\ DOMAIN unacked' = 1..Len(unacked')
    BY <1>0, <2>1, HeadTailProperties, LenProperties
  <2>3. \A i \in DOMAIN unacked' : i + 1 \in DOMAIN unacked /\ unacked'[i] = unacked[i + 1]
    BY <2>2
  <2>4. InOrder'
    BY <2>2, <2>3 DEF TelemetryInv, InOrder
  <2>5. Numbered'
    BY <2>1, <2>3 DEF TelemetryInv, Numbered
  <2>6. TelemetryTypeOK'
    BY <1>0, <2>1, <2>2 DEF TelemetryTypeOK, InFlight
  <2> QED
    BY <2>4, <2>5, <2>6 DEF TelemetryInv
<1> QED
  BY <1>1, <1>2, <1>3, <1>4 DEF TelemetryNext

\* Numbers that are apart by less than the range are identifiers that differ.
LEMMA InvImpliesDistinct == TelemetryInv => DistinctInFlight
<1> SUFFICES ASSUME TelemetryInv PROVE DistinctInFlight
  OBVIOUS
<1>0. unacked \in Seq(InFlight) /\ msg_id \in 0..IdRange - 1
  BY DEF TelemetryInv, TelemetryTypeOK, InFlight
<1> SUFFICES ASSUME NEW i \in DOMAIN unacked, NEW j \in DOMAIN unacked, i < j
             PROVE  unacked[i].id # unacked[j].id
  <2>1. DOMAIN unacked = 1..Len(unacked) /\ Len(unacked) \in Nat
    BY <1>0, LenProperties
  <2> QED
    BY <2>1 DEF DistinctInFlight
<1>1. unacked[i] \in InFlight /\ unacked[j] \in InFlight
  BY <1>0, ElementOfSeq, LenProperties
<1>2. /\ unacked[i].id \in 0..IdRange - 1 /\ unacked[i].age \in 0..MaxLag
      /\ unacked[j].id \in 0..IdRange - 1 /\ unacked[j].age \in 0..MaxLag
  BY <1>1 DEF InFlight
<1>3. unacked[i].age > unacked[j].age
  BY DEF TelemetryInv, InOrder
<1>4. /\ \/ unacked[i].id + unacked[i].age + 1 = msg_id
         \/ unacked[i].id + unacked[i].age + 1 = msg_id + IdRange
      /\ \/ unacked[j].id + unacked[j].age + 1 = msg_id
         \/ unacked[j].id + unacked[j].age + 1 = msg_id + IdRange
  BY DEF TelemetryInv, Numbered
<1>5. \A d \in 0..IdRange - 1, a, b \in 0..MaxLag :
        /\ d + a + 1 = msg_id \/ d + a + 1 = msg_id + IdRange
        /\ d + b + 1 = msg_id \/ d + b + 1 = msg_id + IdRange
        => a = b
  BY <1>0, Sizes
<1> QED
  BY <1>2, <1>3, <1>4, <1>5

\* The inductive invariant holds in every state.
THEOREM TelemetryInvariance == TelemetrySpec => []TelemetryInv
BY TelemetryInitially, TelemetryStep, PTL DEF TelemetrySpec

\* No two publishes of a session that wait for their PUBACK have the same
\* identifier, for every range of msg_id that is longer than the broker's lag.
THEOREM InFlightDistinct == TelemetrySpec => []DistinctInFlight
BY TelemetryInvariance, InvImpliesDistinct, PTL
==============================================================================
