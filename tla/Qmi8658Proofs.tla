---------------------------- MODULE Qmi8658Proofs ----------------------------
(***************************************************************************)
(* For every devicetree, every sampling frequency and full scale a caller  *)
(* may ask for and every failure of the bus, the sensor's registers, the   *)
(* driver's data and what attr_get() and channel_get() tell agree.         *)
(***************************************************************************)
EXTENDS Qmi8658, SequenceTheorems, TLAPS

-----------------------------------------------------------------------------
(* The tables *)

LEMMA OdrTable ==
    /\ DOMAIN OdrRates = 1..8
    /\ OdrRates[1] = 8000 /\ OdrRates[2] = 4000 /\ OdrRates[3] = 2000 /\ OdrRates[4] = 1000
    /\ OdrRates[5] = 500 /\ OdrRates[6] = 200 /\ OdrRates[7] = 100 /\ OdrRates[8] = 50
BY DEF OdrRates

LEMMA AccelTable ==
    /\ DOMAIN Scales["accel"] = 1..4
    /\ Scales["accel"][1] = 2 /\ Scales["accel"][2] = 4
    /\ Scales["accel"][3] = 8 /\ Scales["accel"][4] = 16
BY DEF Scales

LEMMA GyroTable ==
    /\ DOMAIN Scales["gyro"] = 1..8
    /\ Scales["gyro"][1] = 16 /\ Scales["gyro"][2] = 32
    /\ Scales["gyro"][3] = 64 /\ Scales["gyro"][4] = 128
    /\ Scales["gyro"][5] = 256 /\ Scales["gyro"][6] = 512
    /\ Scales["gyro"][7] = 1024 /\ Scales["gyro"][8] = 2048
BY DEF Scales

\* RoundUp takes the smallest that reaches v where there is one.
LEMMA RoundedUp ==
    ASSUME NEW table, NEW v, NEW k \in DOMAIN table, table[k] >= v,
           \A j \in DOMAIN table : table[j] >= v => table[j] >= table[k]
    PROVE  /\ RoundUp(table, v) \in DOMAIN table /\ table[RoundUp(table, v)] >= v
           /\ \A j \in DOMAIN table : table[j] >= v => table[j] >= table[RoundUp(table, v)]
BY DEF RoundUp

\* What the data may hold: a rate, a scale.
HzRange == 0..8000
FsRange == 0..2048

LEMMA OdrRoundsUp ==
    ASSUME NEW v, HzSupported(v)
    PROVE  /\ RoundUp(OdrRates, v) \in 1..8 /\ OdrRates[RoundUp(OdrRates, v)] >= v
           /\ \A j \in 1..8 : OdrRates[j] >= v => OdrRates[j] >= OdrRates[RoundUp(OdrRates, v)]
<1>1. \E k \in 1..8 :
         OdrRates[k] >= v /\ \A j \in 1..8 : OdrRates[j] >= v => OdrRates[j] >= OdrRates[k]
  <2> DEFINE First(k) == OdrRates[k] >= v /\ \A j \in 1..8 : OdrRates[j] >= v => OdrRates[j] >= OdrRates[k]
  <2>1. \A j \in 1..8 : j = 1 \/ j = 2 \/ j = 3 \/ j = 4 \/ j = 5 \/ j = 6 \/ j = 7 \/ j = 8
    OBVIOUS
  <2>2. \/ First(1) \/ First(2) \/ First(3) \/ First(4) \/ First(5) \/ First(6) \/ First(7)
        \/ First(8)
    BY <2>1, OdrTable, SMT DEF HzSupported
  <2> HIDE DEF First
  <2>3. \E k \in 1..8 : First(k)
    BY <2>2
  <2> QED
    BY <2>3 DEF First
<1>2. PICK k \in DOMAIN OdrRates :
         /\ OdrRates[k] >= v
         /\ \A j \in DOMAIN OdrRates : OdrRates[j] >= v => OdrRates[j] >= OdrRates[k]
  BY <1>1, OdrTable
<1>3. /\ RoundUp(OdrRates, v) \in DOMAIN OdrRates /\ OdrRates[RoundUp(OdrRates, v)] >= v
      /\ \A j \in DOMAIN OdrRates : OdrRates[j] >= v => OdrRates[j] >= OdrRates[RoundUp(OdrRates, v)]
  BY <1>2, RoundedUp
<1> QED
  BY <1>3, OdrTable

LEMMA AccelRoundsUp ==
    ASSUME NEW v \in 2..16
    PROVE  /\ RoundUp(Scales["accel"], v) \in 1..4
           /\ Scales["accel"][RoundUp(Scales["accel"], v)] >= v
           /\ \A j \in 1..4 : Scales["accel"][j] >= v =>
                 Scales["accel"][j] >= Scales["accel"][RoundUp(Scales["accel"], v)]
<1>1. \E k \in 1..4 :
         /\ Scales["accel"][k] >= v
         /\ \A j \in 1..4 : Scales["accel"][j] >= v => Scales["accel"][j] >= Scales["accel"][k]
  <2> DEFINE First(k) ==
         /\ Scales["accel"][k] >= v
         /\ \A j \in 1..4 : Scales["accel"][j] >= v => Scales["accel"][j] >= Scales["accel"][k]
  <2>1. \A j \in 1..4 : j = 1 \/ j = 2 \/ j = 3 \/ j = 4
    OBVIOUS
  <2>2. First(1) \/ First(2) \/ First(3) \/ First(4)
    BY <2>1, AccelTable
  <2> QED
    BY <2>2
<1> QED
  BY <1>1, AccelTable, RoundedUp

GyroAsked == 16..2048

LEMMA GyroRoundsUp ==
    ASSUME NEW v \in GyroAsked
    PROVE  /\ RoundUp(Scales["gyro"], v) \in 1..8
           /\ Scales["gyro"][RoundUp(Scales["gyro"], v)] >= v
           /\ \A j \in 1..8 : Scales["gyro"][j] >= v =>
                 Scales["gyro"][j] >= Scales["gyro"][RoundUp(Scales["gyro"], v)]
<1>1. \E k \in 1..8 :
         /\ Scales["gyro"][k] >= v
         /\ \A j \in 1..8 : Scales["gyro"][j] >= v => Scales["gyro"][j] >= Scales["gyro"][k]
  <2> DEFINE First(k) ==
         /\ Scales["gyro"][k] >= v
         /\ \A j \in 1..8 : Scales["gyro"][j] >= v => Scales["gyro"][j] >= Scales["gyro"][k]
  <2>1. \A j \in 1..8 : j = 1 \/ j = 2 \/ j = 3 \/ j = 4 \/ j = 5 \/ j = 6 \/ j = 7 \/ j = 8
    OBVIOUS
  <2>2. \/ First(1) \/ First(2) \/ First(3) \/ First(4) \/ First(5) \/ First(6) \/ First(7)
        \/ First(8)
    BY <2>1, GyroTable DEF GyroAsked
  <2> HIDE DEF First
  <2>3. \E k \in 1..8 : First(k)
    BY <2>2
  <2> QED
    BY <2>3 DEF First
<1> QED
  BY <1>1, GyroTable, RoundedUp DEF GyroAsked

\* A rate is decoded as it was encoded.
LEMMA OdrDecodes == ASSUME NEW i \in 1..8 PROVE OdrOf(i - 1) = OdrRates[i]
<1>1. (i - 1) + 1 = i
  OBVIOUS
<1>2. (OdrRates \o <<25>>)[i] = OdrRates[i]
  <2>1. OdrRates \in Seq(Nat) /\ Len(OdrRates) = 8
    BY DEF OdrRates
  <2>2. <<25>> \in Seq(Nat)
    OBVIOUS
  <2> HIDE DEF OdrRates
  <2>3. ASSUME NEW t \in Seq(Nat) PROVE (OdrRates \o t)[i] = OdrRates[i]
    <3>1. Len(t) \in Nat
      BY LenProperties
    <3>2. i \in 1..Len(OdrRates) + Len(t) /\ i <= Len(OdrRates)
      BY <2>1, <3>1
    <3>3. (OdrRates \o t)[i] = IF i <= Len(OdrRates) THEN OdrRates[i] ELSE t[i - Len(OdrRates)]
      BY <2>1, <3>2, ConcatProperties, Zenon
    <3> QED
      BY <3>2, <3>3
  <2> QED
    BY <2>2, <2>3
<1> QED
  BY <1>1, <1>2 DEF OdrOf

\* The value of a field is not shifted: what is left of it is 0.
LEMMA FieldIsZero == ASSUME NEW i \in 1..8 PROVE FsField(i - 1) = 0
BY DEF FsField

\* With the field at 0 the accelerometer is reported right.
LEMMA ReportedOfZero ==
    /\ ReportedFullScale["accel"] = ScaleOf("accel", 0)
    /\ ReportedFullScale["gyro"] = 180 * ScaleOf("gyro", 0)
<1>1. ScaleOf("accel", 0) = 2 /\ ScaleOf("gyro", 0) = 16
  BY AccelTable, GyroTable DEF ScaleOf
<1>2. ReportedFullScale["accel"] = 32768 \div 16384 /\ ReportedFullScale["gyro"] = (32768 \div 2048) * 180
  BY DEF ReportedFullScale
<1>3. 32768 \div 16384 = 2 /\ (32768 \div 2048) * 180 = 180 * 16
  BY SMT
<1> QED
  BY <1>1, <1>2, <1>3

\* Of either sensor, a full scale that is supported rounds up in its table.
LEMMA ScaleRoundsUp ==
    ASSUME NEW s \in Sensors, NEW v \in Nat, FsSupported(s, v)
    PROVE  RoundUp(Scales[s], v) \in 1..8 /\ (s = "accel" => RoundUp(Scales[s], v) \in 1..4)
<1>1. CASE s = "accel"
  BY <1>1, AccelRoundsUp DEF FsSupported
<1>2. CASE s = "gyro"
  <2>1. v \in GyroAsked
    BY <1>2, SMT DEF FsSupported, GyroAsked
  <2>2. RoundUp(Scales["gyro"], v) \in 1..8
    BY <2>1, GyroRoundsUp, Zenon
  <2> QED
    BY <1>2, <2>2
<1> QED
  BY <1>1, <1>2 DEF Sensors

\* What attr_get() reports of the accelerometer's full scale is in whole m/s2;
\* attr_set() rounds it to the g it came from.
LEMMA AccelReadsBack ==
    ASSUME NEW i \in 1..4
    PROVE  RoundUp(Scales["accel"], Fs("accel", Kept("accel", Scales["accel"][i]))) = i
<1>1. Fs("accel", Kept("accel", Scales["accel"][i])) = Scales["accel"][i]
  <2>1. i = 1 \/ i = 2 \/ i = 3 \/ i = 4
    OBVIOUS
  <2> QED
    BY <2>1, AccelTable DEF Fs, Ms2ToG, Kept
<1>2. \A j, k \in 1..4 : /\ Scales["accel"][j] \in Nat
                         /\ Scales["accel"][j] = Scales["accel"][k] => j = k
  <2>1. \A j \in 1..4 : j = 1 \/ j = 2 \/ j = 3 \/ j = 4
    OBVIOUS
  <2> QED
    BY <2>1, AccelTable
<1>3. /\ Scales["accel"][i] >= Scales["accel"][i]
      /\ \A j \in 1..4 : Scales["accel"][j] >= Scales["accel"][i] => Scales["accel"][j] >= Scales["accel"][i]
  BY <1>2
<1> DEFINE k == RoundUp(Scales["accel"], Scales["accel"][i])
<1>4. k \in 1..4 /\ Scales["accel"][k] >= Scales["accel"][i]
      /\ (Scales["accel"][i] >= Scales["accel"][i] => Scales["accel"][i] >= Scales["accel"][k])
  BY <1>3, AccelTable, RoundedUp
<1> HIDE DEF k
<1>5. Scales["accel"][k] = Scales["accel"][i]
  BY <1>2, <1>3, <1>4
<1>6. k = i
  BY <1>2, <1>4, <1>5
<1> QED
  BY <1>1, <1>6 DEF k

LEMMA KeptBound ==
    ASSUME NEW s \in Sensors, NEW i \in 1..8, s = "accel" => i \in 1..4
    PROVE  Kept(s, Scales[s][i]) \in FsRange
<1>1. CASE s = "accel"
  <2>1. i = 1 \/ i = 2 \/ i = 3 \/ i = 4
    BY <1>1
  <2>2. Scales["accel"][i] \in 2..16
    BY <2>1, AccelTable, SMT
  <2>3. ASSUME NEW g \in 2..16 PROVE Kept("accel", g) \in FsRange
    <3>1. (g * 9806650) \div 1000000 \in 0..2048
      BY SMT
    <3>2. Kept("accel", g) = (g * 9806650) \div 1000000
      BY SMT DEF Kept
    <3> QED
      BY <3>1, <3>2, SMT DEF FsRange
  <2> QED
    BY <1>1, <2>2, <2>3, SMT
<1>2. CASE s = "gyro"
  <2>1. i = 1 \/ i = 2 \/ i = 3 \/ i = 4 \/ i = 5 \/ i = 6 \/ i = 7 \/ i = 8
    OBVIOUS
  <2>2. Scales["gyro"][i] \in GyroAsked
    BY <2>1, GyroTable, SMT DEF GyroAsked
  <2>3. ASSUME NEW g \in GyroAsked PROVE Kept("gyro", g) \in 0..2048
    <3>1. (g * 314159) \div 18000000 \in 0..2048
      BY SMT DEF GyroAsked
    <3>2. Kept("gyro", g) = (g * 314159) \div 18000000
      BY SMT DEF Kept
    <3> QED
      BY <3>1, <3>2, SMT
  <2> QED
    BY <1>2, <2>2, <2>3, SMT DEF FsRange
<1> QED
  BY <1>1, <1>2 DEF Sensors

LEMMA OdrBound == ASSUME NEW i \in 1..8 PROVE OdrRates[i] \in HzRange
<1>1. i = 1 \/ i = 2 \/ i = 3 \/ i = 4 \/ i = 5 \/ i = 6 \/ i = 7 \/ i = 8
  OBVIOUS
<1> QED
  BY <1>1, OdrTable, SMT DEF HzRange

\* The smallest scale of a table is taken for what does not go beyond it.
LEMMA SmallestScale ==
    ASSUME NEW s \in Sensors, NEW v \in Nat, FsSupported(s, v)
    PROVE  Scales[s][RoundUp(Scales[s], v)] = ScaleOf(s, 0) <=> v <= Scales[s][1]
<1>0. ScaleOf("accel", 0) = 2 /\ ScaleOf("gyro", 0) = 16
  BY AccelTable, GyroTable DEF ScaleOf
<1>1. CASE s = "accel"
  <2> DEFINE i == RoundUp(Scales["accel"], v)
  <2>1. v \in 2..16
    BY <1>1 DEF FsSupported
  <2>2. i \in 1..4 /\ Scales["accel"][i] >= v /\ (2 >= v => 2 >= Scales["accel"][i])
    BY <2>1, AccelRoundsUp, AccelTable
  <2> HIDE DEF i
  <2>3. i = 1 \/ i = 2 \/ i = 3 \/ i = 4
    BY <2>2
  <2>4. Scales["accel"][i] = 2 <=> v <= 2
    BY <2>1, <2>2, <2>3, AccelTable
  <2> QED
    BY <1>0, <1>1, <2>4, AccelTable DEF i
<1>2. CASE s = "gyro"
  <2> DEFINE i == RoundUp(Scales["gyro"], v)
  <2>1. v \in GyroAsked
    BY <1>2, SMT DEF FsSupported, GyroAsked
  <2>2. i \in 1..8 /\ Scales["gyro"][i] >= v /\ (16 >= v => 16 >= Scales["gyro"][i])
    BY <2>1, GyroRoundsUp, GyroTable
  <2> HIDE DEF i
  <2>3. i = 1 \/ i = 2 \/ i = 3 \/ i = 4 \/ i = 5 \/ i = 6 \/ i = 7 \/ i = 8
    BY <2>2
  <2>4. Scales["gyro"][i] = 16 <=> v <= 16
    BY <2>1, <2>2, <2>3, GyroTable DEF GyroAsked
  <2> QED
    BY <1>0, <1>2, <2>4, GyroTable DEF i
<1> QED
  BY <1>1, <1>2 DEF Sensors

-----------------------------------------------------------------------------
(* The settings *)

SettingsTyped ==
    /\ boot \in {"off", "ready", "failed"}
    /\ hz \in [Sensors -> HzRange] /\ fs \in [Sensors -> FsRange]
    /\ odr \in [Sensors -> 0..7] /\ range \in [Sensors -> 0..7]
    /\ told \in [Sensors -> Int] /\ scaled \in [Sensors -> Nat]
    /\ setFailed \in [Sensors -> BOOLEAN]

\* The rate last accepted is that of the field, and of the data unless a set
\* has failed since.
RateKept(s) ==
    /\ HzSupported(Hz(told[s]))
    /\ odr[s] = RoundUp(OdrRates, Hz(told[s])) - 1
    /\ setFailed[s] \/ hz[s] = OdrRates[RoundUp(OdrRates, Hz(told[s]))]

ScaleKept ==
    scaled["accel"] # 0 =>
        /\ scaled["accel"] \in 2..16
        /\ fs["accel"] = Kept("accel", Scales["accel"][RoundUp(Scales["accel"], scaled["accel"])])

FieldsZero == \A s \in Sensors : range[s] = 0

SettingsInv ==
    /\ SettingsTyped
    /\ boot = "ready" => FieldsZero /\ ScaleKept /\ \A s \in Sensors : RateKept(s)

LEMMA InitSettingsTable ==
    /\ Len(InitSettings) = 4
    /\ InitSettings[1] = <<"fs", "accel">> /\ InitSettings[2] = <<"hz", "accel">>
    /\ InitSettings[3] = <<"fs", "gyro">> /\ InitSettings[4] = <<"hz", "gyro">>
BY DEF InitSettings

\* What was done was supported, and after four settings everything is done.
LEMMA DoneSupported ==
    ASSUME NEW n \in 0..4, \A i \in 1..n : SettingSupported(i), NEW s \in Sensors
    PROVE  /\ Done("fs", s, n) => FsSupported(s, DtFs[s])
           /\ Done("hz", s, n) => HzSupported(DtHz[s])
           /\ n = 4 => Done("fs", s, n) /\ Done("hz", s, n)
<1>1. Done("fs", s, n) => FsSupported(s, DtFs[s])
  <2> SUFFICES ASSUME NEW i \in 1..n, InitSettings[i] = <<"fs", s>>
               PROVE  FsSupported(s, DtFs[s])
    BY DEF Done
  <2>1. InitSettings[i][1] = "fs" /\ InitSettings[i][2] = s
    OBVIOUS
  <2>2. SettingSupported(i)
    OBVIOUS
  <2> QED
    BY <2>1, <2>2 DEF SettingSupported
<1>2. Done("hz", s, n) => HzSupported(DtHz[s])
  <2> SUFFICES ASSUME NEW i \in 1..n, InitSettings[i] = <<"hz", s>>
               PROVE  HzSupported(DtHz[s])
    BY DEF Done
  <2>1. InitSettings[i][1] = "hz" /\ InitSettings[i][2] = s
    OBVIOUS
  <2>2. SettingSupported(i)
    OBVIOUS
  <2> QED
    BY <2>1, <2>2 DEF SettingSupported
<1>3. n = 4 => Done("fs", s, n) /\ Done("hz", s, n)
  BY InitSettingsTable DEF Done, Sensors
<1> QED
  BY <1>1, <1>2, <1>3

LEMMA RangesTyped ==
    /\ \A x \in HzRange : x \in Nat /\ Hz(x) = x
    /\ \A x \in FsRange : x \in Nat
BY SMT DEF HzRange, FsRange, Hz

LEMMA DtTyped == \A s \in Sensors : DtHz[s] \in HzRange /\ DtFs[s] \in FsRange
<1>1. DtHz \in [Sensors -> HzRange]
  BY DevicetreeAssumption, SMT DEF HzRange
<1>2. DtFs \in [Sensors -> FsRange]
  BY DevicetreeAssumption, SMT DEF FsRange
<1> QED
  BY <1>1, <1>2

LEMMA SettingsInitially == Init => SettingsInv
BY DevicetreeAssumption, SMT DEF Init, SettingsInv, SettingsTyped, HzRange, FsRange

\* The devicetree's settings: what is done is what RoundUp takes, and nothing
\* is used before all four are.
LEMMA InitializeKeeps ==
    ASSUME SettingsInv, Initialize
    PROVE  SettingsInv'
<1>1. PICK n \in 0..4, m \in 0..4 :
         /\ n <= m /\ \A i \in 1..m : SettingSupported(i)
         /\ boot' = IF n = 4 THEN "ready" ELSE "failed"
         /\ fs' = [s \in Sensors |->
               IF Done("fs", s, m) THEN Kept(s, Scales[s][RoundUp(Scales[s], DtFs[s])]) ELSE fs[s]]
         /\ range' = [s \in Sensors |->
               IF Done("fs", s, n) THEN FsField(RoundUp(Scales[s], DtFs[s]) - 1) ELSE range[s]]
         /\ scaled' = [s \in Sensors |-> IF Done("fs", s, n) THEN DtFs[s] ELSE 0]
         /\ hz' = [s \in Sensors |->
               IF Done("hz", s, m) THEN OdrRates[RoundUp(OdrRates, DtHz[s])] ELSE hz[s]]
         /\ odr' = [s \in Sensors |->
               IF Done("hz", s, n) THEN RoundUp(OdrRates, DtHz[s]) - 1 ELSE odr[s]]
         /\ told' = [s \in Sensors |-> IF Done("hz", s, n) THEN DtHz[s] ELSE 0]
  <2>1. Len(InitSettings) = 4
    BY InitSettingsTable
  <2>2. ASSUME NEW n \in 0..4, NEW m \in {n, n + 1} \cap (0..4) PROVE m \in 0..4 /\ n <= m
    OBVIOUS
  <2> QED
    BY <2>1, <2>2, Zenon DEF Initialize
<1>0. boot = "off" /\ setFailed' = setFailed
  BY DEF Initialize
<1>2. \A s \in Sensors :
         /\ Done("fs", s, n) \/ Done("fs", s, m) => FsSupported(s, DtFs[s])
         /\ Done("hz", s, n) \/ Done("hz", s, m) => HzSupported(DtHz[s])
         /\ n = 4 => /\ Done("fs", s, n) /\ Done("hz", s, n)
                     /\ Done("fs", s, m) /\ Done("hz", s, m)
  <2> SUFFICES ASSUME NEW s \in Sensors
               PROVE  /\ Done("fs", s, n) \/ Done("fs", s, m) => FsSupported(s, DtFs[s])
                      /\ Done("hz", s, n) \/ Done("hz", s, m) => HzSupported(DtHz[s])
                      /\ n = 4 => /\ Done("fs", s, n) /\ Done("hz", s, n)
                                  /\ Done("fs", s, m) /\ Done("hz", s, m)
    OBVIOUS
  <2>1. (\A i \in 1..m : SettingSupported(i)) /\ (\A i \in 1..n : SettingSupported(i))
    BY <1>1
  <2>2. n = 4 => m = 4
    BY <1>1
  <2> QED
    BY <2>1, <2>2, DoneSupported
<1>3. \A s \in Sensors : DtFs[s] \in Nat /\ DtHz[s] \in Nat
  BY DtTyped, RangesTyped, Zenon
<1>4. ASSUME NEW s \in Sensors, FsSupported(s, DtFs[s])
      PROVE  /\ Kept(s, Scales[s][RoundUp(Scales[s], DtFs[s])]) \in FsRange
             /\ FsField(RoundUp(Scales[s], DtFs[s]) - 1) = 0
  <2>1. RoundUp(Scales[s], DtFs[s]) \in 1..8 /\ (s = "accel" => RoundUp(Scales[s], DtFs[s]) \in 1..4)
    BY <1>3, <1>4, ScaleRoundsUp
  <2> DEFINE i == RoundUp(Scales[s], DtFs[s])
  <2> HIDE DEF i
  <2>2. i \in 1..8 /\ (s = "accel" => i \in 1..4)
    BY <2>1 DEF i
  <2>3. Kept(s, Scales[s][i]) \in FsRange /\ FsField(i - 1) = 0
    BY <2>2, KeptBound, FieldIsZero
  <2> QED
    BY <2>3 DEF i
<1>5. ASSUME NEW s \in Sensors, HzSupported(DtHz[s])
      PROVE  OdrRates[RoundUp(OdrRates, DtHz[s])] \in HzRange /\ RoundUp(OdrRates, DtHz[s]) - 1 \in 0..7
  <2>1. RoundUp(OdrRates, DtHz[s]) \in 1..8
    BY <1>5, OdrRoundsUp
  <2>2. OdrRates[RoundUp(OdrRates, DtHz[s])] \in HzRange
    BY <2>1, OdrBound
  <2> QED
    BY <2>1, <2>2
<1>6. SettingsTyped'
  <2>1. \A s \in Sensors : hz'[s] \in HzRange /\ odr'[s] \in 0..7 /\ told'[s] \in Int
    <3> SUFFICES ASSUME NEW s \in Sensors
                 PROVE  hz'[s] \in HzRange /\ odr'[s] \in 0..7 /\ told'[s] \in Int
      OBVIOUS
    <3>1. hz[s] \in HzRange /\ odr[s] \in 0..7
      BY DEF SettingsInv, SettingsTyped
    <3>2. hz'[s] \in HzRange
      BY <1>1, <1>2, <1>5, <3>1
    <3>3. odr'[s] \in 0..7
      BY <1>1, <1>2, <1>5, <3>1
    <3> QED
      BY <1>1, <1>3, <3>2, <3>3
  <2>2. \A s \in Sensors : fs'[s] \in FsRange /\ range'[s] \in 0..7 /\ scaled'[s] \in Nat
    <3> SUFFICES ASSUME NEW s \in Sensors
                 PROVE  fs'[s] \in FsRange /\ range'[s] \in 0..7 /\ scaled'[s] \in Nat
      OBVIOUS
    <3>1. fs[s] \in FsRange /\ range[s] \in 0..7
      BY DEF SettingsInv, SettingsTyped
    <3>2. fs'[s] \in FsRange
      BY <1>1, <1>2, <1>4, <3>1
    <3>3. range'[s] \in 0..7
      BY <1>1, <1>2, <1>4, <3>1
    <3> QED
      BY <1>1, <1>3, <3>2, <3>3
  <2>3. hz' \in [Sensors -> HzRange] /\ odr' \in [Sensors -> 0..7] /\ told' \in [Sensors -> Int]
    BY <1>1, <2>1, Zenon
  <2>4. fs' \in [Sensors -> FsRange] /\ range' \in [Sensors -> 0..7] /\ scaled' \in [Sensors -> Nat]
    BY <1>1, <2>2, Zenon
  <2>5. setFailed' \in [Sensors -> BOOLEAN] /\ boot' \in {"off", "ready", "failed"}
    BY <1>0, <1>1 DEF SettingsInv, SettingsTyped
  <2> QED
    BY <2>3, <2>4, <2>5 DEF SettingsTyped
<1>7. CASE n = 4
  <2>1. ASSUME NEW s \in Sensors PROVE range'[s] = 0 /\ RateKept(s)'
    <3>1. FsSupported(s, DtFs[s]) /\ HzSupported(DtHz[s]) /\ Hz(DtHz[s]) = DtHz[s]
      BY <1>2, <1>7, DtTyped, RangesTyped, Zenon
    <3>2. /\ range'[s] = FsField(RoundUp(Scales[s], DtFs[s]) - 1)
          /\ hz'[s] = OdrRates[RoundUp(OdrRates, DtHz[s])]
          /\ odr'[s] = RoundUp(OdrRates, DtHz[s]) - 1 /\ told'[s] = DtHz[s]
      BY <1>1, <1>2, <1>7
    <3> QED
      BY <1>4, <3>1, <3>2 DEF RateKept
  <2>2. ScaleKept'
    <3>1. "accel" \in Sensors
      BY DEF Sensors
    <3>2. FsSupported("accel", DtFs["accel"])
          /\ fs'["accel"] = Kept("accel", Scales["accel"][RoundUp(Scales["accel"], DtFs["accel"])])
          /\ scaled'["accel"] = DtFs["accel"]
      BY <1>1, <1>2, <1>7, <3>1
    <3> QED
      BY <3>2 DEF ScaleKept, FsSupported
  <2> QED
    BY <1>6, <2>1, <2>2 DEF SettingsInv, FieldsZero
<1>8. CASE n # 4
  BY <1>1, <1>6, <1>8 DEF SettingsInv
<1> QED
  BY <1>7, <1>8

LEMMA SetOdrKeeps ==
    ASSUME SettingsInv, NEW s \in Sensors, NEW v \in Int, SetOdr(s, v) PROVE SettingsInv'
<1> DEFINE i == RoundUp(OdrRates, Hz(v))
<1>1. /\ boot = "ready" /\ HzSupported(Hz(v))
      /\ hz' = [hz EXCEPT ![s] = OdrRates[i]]
      /\ \/ /\ odr' = [odr EXCEPT ![s] = i - 1] /\ told' = [told EXCEPT ![s] = v]
            /\ setFailed' = [setFailed EXCEPT ![s] = FALSE]
         \/ /\ odr' = odr /\ told' = told
            /\ setFailed' = [setFailed EXCEPT ![s] = TRUE]
      /\ UNCHANGED <<boot, fs, range, scaled>>
  BY SMT DEF SetOdr
<1>2. i \in 1..8 /\ OdrRates[i] \in HzRange
  <2>1. HzSupported(Hz(v))
    BY <1>1
  <2>2. i \in 1..8
    BY <2>1, OdrRoundsUp
  <2> QED
    BY <2>2, OdrBound
<1>3. SettingsTyped /\ FieldsZero /\ ScaleKept /\ \A t \in Sensors : RateKept(t)
  BY <1>1 DEF SettingsInv
<1> HIDE DEF i
<1>4. SettingsTyped'
  <2>1. i - 1 \in 0..7
    BY <1>2
  <2>2. hz' \in [Sensors -> HzRange]
    BY <1>1, <1>2, <1>3, Zenon DEF SettingsTyped
  <2>3. odr' \in [Sensors -> 0..7]
    BY <1>1, <1>3, <2>1, Zenon DEF SettingsTyped
  <2>4. told' \in [Sensors -> Int]
    BY <1>1, <1>3, Zenon DEF SettingsTyped
  <2>5. setFailed' \in [Sensors -> BOOLEAN]
    BY <1>1, <1>3, Zenon DEF SettingsTyped
  <2> QED
    BY <1>1, <1>3, <2>2, <2>3, <2>4, <2>5 DEF SettingsTyped
<1>5. ASSUME NEW t \in Sensors PROVE RateKept(t)'
  <2>1. CASE t # s
    <3>1. hz'[t] = hz[t] /\ odr'[t] = odr[t] /\ told'[t] = told[t] /\ setFailed'[t] = setFailed[t]
      BY <1>1, <1>3, <2>1, Zenon DEF SettingsTyped
    <3> QED
      BY <1>3, <3>1 DEF RateKept
  <2>2. CASE t = s
    <3>1. \/ hz'[s] = OdrRates[i] /\ told'[s] = v /\ odr'[s] = i - 1
          \/ odr'[s] = odr[s] /\ told'[s] = told[s] /\ setFailed'[s] = TRUE
      BY <1>1, <1>3, Zenon DEF SettingsTyped
    <3>2. HzSupported(Hz(v)) /\ i = RoundUp(OdrRates, Hz(v))
      BY <1>1 DEF i
    <3>3. CASE hz'[s] = OdrRates[i] /\ told'[s] = v /\ odr'[s] = i - 1
      BY <2>2, <3>2, <3>3 DEF RateKept
    <3>4. CASE odr'[s] = odr[s] /\ told'[s] = told[s] /\ setFailed'[s] = TRUE
      BY <1>3, <2>2, <3>4 DEF RateKept
    <3> QED
      BY <3>1, <3>3, <3>4
  <2> QED
    BY <2>1, <2>2
<1>6. FieldsZero' /\ ScaleKept'
  BY <1>1, <1>3 DEF FieldsZero, ScaleKept
<1> QED
  BY <1>1, <1>4, <1>5, <1>6 DEF SettingsInv

LEMMA SetFsKeeps ==
    ASSUME SettingsInv, NEW s \in Sensors, NEW v \in Int, SetFs(s, v) PROVE SettingsInv'
<1> DEFINE i == RoundUp(Scales[s], Fs(s, v))
           scale == Fs(s, v)
<1>1. /\ boot = "ready" /\ FsSupported(s, scale)
      /\ fs' = [fs EXCEPT ![s] = Kept(s, Scales[s][i])]
      /\ \/ range' = [range EXCEPT ![s] = FsField(i - 1)] /\ scaled' = [scaled EXCEPT ![s] = scale]
         \/ range' = range /\ scaled' = [scaled EXCEPT ![s] = 0]
      /\ UNCHANGED <<boot, hz, odr, told, setFailed>>
  BY SMT DEF SetFs
<1>2. scale \in Nat
  <2>1. Ms2ToG(v) \in Int
    BY SMT DEF Ms2ToG
  <2> QED
    BY <2>1, SMT DEF Fs
<1>3. i \in 1..8 /\ (s = "accel" => i \in 1..4)
  BY <1>1, <1>2, ScaleRoundsUp
<1>4. Kept(s, Scales[s][i]) \in FsRange /\ FsField(i - 1) = 0
  BY <1>3, KeptBound, FieldIsZero
<1>5. SettingsTyped /\ FieldsZero /\ ScaleKept /\ \A t \in Sensors : RateKept(t)
  BY <1>1 DEF SettingsInv
<1>6. s = "accel" => i = RoundUp(Scales["accel"], scale)
  OBVIOUS
<1>7. s = "accel" => scale \in 2..16
  BY <1>1 DEF FsSupported
<1> HIDE DEF i, scale
<1>8. SettingsTyped'
  BY <1>1, <1>2, <1>4, <1>5, SMT DEF SettingsTyped
<1>9. FieldsZero'
  BY <1>1, <1>4, <1>5, SMT DEF FieldsZero, SettingsTyped
<1>10. ScaleKept'
  <2>1. CASE s # "accel"
    <3>1. fs'["accel"] = fs["accel"] /\ scaled'["accel"] = scaled["accel"]
      BY <1>1, <1>5, <2>1, SMT DEF SettingsTyped, Sensors
    <3> QED
      BY <1>5, <3>1 DEF ScaleKept
  <2>2. CASE s = "accel"
    <3>1. fs'["accel"] = Kept("accel", Scales["accel"][i]) /\ scaled'["accel"] \in {0, scale}
      BY <1>1, <1>5, <2>2, SMT DEF SettingsTyped, Sensors
    <3> QED
      BY <1>6, <1>7, <2>2, <3>1 DEF ScaleKept
  <2> QED
    BY <2>1, <2>2
<1>11. \A t \in Sensors : RateKept(t)'
  BY <1>1, <1>5 DEF RateKept
<1> QED
  BY <1>8, <1>9, <1>10, <1>11 DEF SettingsInv

LEMMA SettingsStep == SettingsInv /\ [Next]_vars => SettingsInv'
<1> SUFFICES ASSUME SettingsInv, [Next]_vars PROVE SettingsInv'
  OBVIOUS
<1>1. ASSUME UNCHANGED settings PROVE SettingsInv'
  BY <1>1 DEF settings, SettingsInv, SettingsTyped, FieldsZero, ScaleKept, RateKept
<1>2. CASE Initialize
  BY <1>2, InitializeKeeps
<1>3. ASSUME NEW s \in Sensors, NEW v \in AskedHz, SetOdr(s, v) PROVE SettingsInv'
  <2>1. v \in Int
    BY Qmi8658Assumption
  <2> QED
    BY <1>3, <2>1, SetOdrKeeps
<1>4. ASSUME NEW s \in Sensors, NEW v \in AskedFs[s], SetFs(s, v) PROVE SettingsInv'
  <2>1. v \in Int
    BY Qmi8658Assumption
  <2> QED
    BY <1>4, <2>1, SetFsKeeps
<1>5. CASE Sample \/ (\E chan \in Channels : FetchStatus(chan)) \/ (\E s \in Sensors : FetchRead(s))
           \/ UNCHANGED vars
  <2>1. UNCHANGED settings
    BY <1>5 DEF Sample, FetchStatus, FetchRead, vars
  <2> QED
    BY <1>1, <2>1
<1> QED
  BY <1>2, <1>3, <1>4, <1>5 DEF Next

-----------------------------------------------------------------------------
(* The fetch *)

Results == {Ebusy} \cup 0..255

FetchTyped ==
    /\ now \in 0..MaxSamples /\ data \in [Sensors -> 0..MaxSamples]
    /\ fetch \in [pc : Sensors \cup {"idle"}, chan : SUBSET Sensors, began : 0..MaxSamples,
                  ret : Results]

\* While the gyroscope is read the accelerometer's sample, if asked for, is new.
ReadSoFar ==
    /\ fetch.began <= now
    /\ fetch.pc = "accel" => "accel" \in fetch.chan
    /\ fetch.pc = "gyro" /\ "accel" \in fetch.chan => data["accel"] >= fetch.began

FetchInv == FetchTyped /\ ReadSoFar /\ FetchFresh

LEMMA EbusyIsNone == Ebusy # 0 /\ Ebusy \in Results /\ 0 \in Results
BY SMT DEF Ebusy, Results

LEMMA FetchInitially == Init => FetchInv
<1> SUFFICES ASSUME Init PROVE FetchInv
  OBVIOUS
<1>1. now = 0 /\ data = [s \in Sensors |-> 0] /\ fetch = NoFetch
  BY DEF Init
<1>2. FetchTyped
  BY <1>1, EbusyIsNone, Qmi8658Assumption, SMT DEF FetchTyped, NoFetch
<1>3. ReadSoFar /\ FetchFresh
  BY <1>1, SMT DEF ReadSoFar, FetchFresh, NoFetch
<1> QED
  BY <1>2, <1>3 DEF FetchInv

\* No error becomes 0 on its way through uint8_t.
LEMMA ErrorsReturned == \A e \in BusErrors : Returned(e) \in 0..255 /\ Returned(e) # 0
<1> SUFFICES ASSUME NEW e \in 1..255 PROVE (-e) % 256 = 256 - e
  <2> QED
    BY Qmi8658Assumption, SMT DEF Returned
<1> QED
  BY SMT

\* A fetch starts with the first of its sensors.
LEMMA StatusKeeps ==
    ASSUME FetchInv, NEW chan \in Channels, FetchStatus(chan) PROVE FetchInv'
<1>1. chan \in SUBSET Sensors /\ ("accel" \in chan \/ "gyro" \in chan)
  BY SMT DEF Channels, Sensors
<1>2. /\ NextRead(chan, {}) \in Sensors \cup {"idle"}
      /\ NextRead(chan, {}) = "accel" => "accel" \in chan
      /\ NextRead(chan, {}) = "gyro" => "accel" \notin chan
      /\ NextRead(chan, {}) # "idle"
  <2>1. chan \ {} = chan
    OBVIOUS
  <2>2. NextRead(chan, {}) = IF "accel" \in chan THEN "accel" ELSE "gyro"
    BY <1>1, <2>1, Zenon DEF NextRead
  <2> QED
    BY <2>2, SMT DEF Sensors
<1>3. FetchTyped /\ now' = now /\ data' = data
  BY DEF FetchInv, FetchStatus
<1>4. PICK pc \in {"idle", NextRead(chan, {})}, ret \in Results :
         /\ fetch' = [pc |-> pc, chan |-> chan, began |-> now, ret |-> ret]
         /\ ret = 0 => pc = NextRead(chan, {})
  BY ErrorsReturned, EbusyIsNone DEF FetchStatus, Results
<1>5. FetchTyped'
  BY <1>1, <1>2, <1>3, <1>4, SMT DEF FetchTyped
<1>6. ReadSoFar'
  BY <1>2, <1>3, <1>4, SMT DEF ReadSoFar, FetchTyped
<1>7. FetchFresh'
  BY <1>2, <1>4, SMT DEF FetchFresh, Idle
<1> QED
  BY <1>5, <1>6, <1>7 DEF FetchInv

\* The sample read is the sensor's newest; the accelerometer's comes first.
LEMMA ReadKeeps == ASSUME FetchInv, NEW s \in Sensors, FetchRead(s) PROVE FetchInv'
<1>1. FetchTyped /\ ReadSoFar /\ fetch.pc = s /\ now' = now
  BY DEF FetchInv, FetchRead
<1>2. ASSUME NEW ret \in Results, ret # 0, data' = data,
             fetch' = [fetch EXCEPT !.pc = "idle", !.ret = ret]
      PROVE  FetchInv'
  <2> DEFINE stopped == [fetch EXCEPT !.pc = "idle"]
  <2>1. stopped \in [pc : Sensors \cup {"idle"}, chan : SUBSET Sensors,
                     began : 0..MaxSamples, ret : Results]
    BY <1>1, SMT DEF FetchTyped
  <2>2. stopped.pc = "idle" /\ stopped.began = fetch.began
    BY <1>1, SMT DEF FetchTyped
  <2>3. fetch' = [stopped EXCEPT !.ret = ret]
    BY <1>2
  <2> HIDE DEF stopped
  <2>4. /\ fetch' \in [pc : Sensors \cup {"idle"}, chan : SUBSET Sensors,
                       began : 0..MaxSamples, ret : Results]
        /\ fetch'.pc = "idle" /\ fetch'.began = fetch.began /\ fetch'.ret # 0
    BY <1>2, <2>1, <2>2, <2>3, SMT
  <2> QED
    BY <1>1, <1>2, <2>4, SMT DEF FetchInv, FetchTyped, ReadSoFar, FetchFresh, Idle
<1>3. CASE /\ data' = [data EXCEPT ![s] = now]
           /\ fetch' = [fetch EXCEPT !.pc = NextRead(fetch.chan, {"accel", s})]
  <2> DEFINE next == NextRead(fetch.chan, {"accel", s})
  <2>1. next \in {"gyro", "idle"} /\ (s = "gyro" => next = "idle")
        /\ (next = "idle" /\ s = "accel" => "gyro" \notin fetch.chan)
    BY SMT DEF NextRead
  <2> HIDE DEF next
  <2>2. /\ fetch'.pc = next /\ fetch'.ret = fetch.ret
        /\ fetch'.chan = fetch.chan /\ fetch'.began = fetch.began
        /\ fetch' \in [pc : Sensors \cup {"idle"}, chan : SUBSET Sensors,
                       began : 0..MaxSamples, ret : Results]
    BY <1>1, <1>3, <2>1, SMT DEF FetchTyped, Sensors, next
  <2>3. /\ data'[s] = now /\ data' \in [Sensors -> 0..MaxSamples]
        /\ \A t \in Sensors \ {s} : data'[t] = data[t]
    BY <1>1, <1>3, SMT DEF FetchTyped
  <2>4. FetchTyped'
    BY <1>1, <2>2, <2>3 DEF FetchTyped
  <2>5. ReadSoFar'
    BY <1>1, <2>1, <2>2, <2>3, SMT DEF ReadSoFar, Sensors
  <2>6. FetchFresh'
    <3> SUFFICES ASSUME fetch'.pc = "idle", NEW t \in fetch.chan
                 PROVE  data'[t] >= fetch.began
      BY <2>2 DEF FetchFresh, Idle
    <3>1. t \in Sensors /\ now >= fetch.began
      BY <1>1, SMT DEF FetchTyped, ReadSoFar
    <3>2. CASE t = s
      BY <2>3, <3>1, <3>2
    <3>3. CASE t # s
      <4>1. s = "gyro" /\ t = "accel"
        BY <2>1, <2>2, <3>1, <3>3, SMT DEF Sensors
      <4>2. data["accel"] >= fetch.began
        BY <1>1, <4>1, SMT DEF ReadSoFar
      <4> QED
        BY <2>3, <3>1, <3>3, <4>1, <4>2
    <3> QED
      BY <3>2, <3>3
  <2> QED
    BY <2>4, <2>5, <2>6 DEF FetchInv
<1> QED
  BY <1>2, <1>3, ErrorsReturned DEF FetchRead, Results

LEMMA FetchStep == FetchInv /\ [Next]_vars => FetchInv'
<1> SUFFICES ASSUME FetchInv, [Next]_vars PROVE FetchInv'
  OBVIOUS
<1>1. ASSUME UNCHANGED <<now, data, fetch>> PROVE FetchInv'
  BY <1>1 DEF FetchInv, FetchTyped, ReadSoFar, FetchFresh, Idle
<1>2. CASE Sample
  <2>1. now' = now + 1 /\ now < MaxSamples /\ data' = data /\ fetch' = fetch
    BY <1>2 DEF Sample
  <2>2. FetchTyped'
    BY <2>1, Qmi8658Assumption, SMT DEF FetchInv, FetchTyped
  <2>3. ReadSoFar'
    <3>1. fetch.began <= now /\ fetch.began \in Int /\ now \in Int
      BY SMT DEF FetchInv, FetchTyped, ReadSoFar
    <3>2. fetch'.began <= now'
      BY <2>1, <3>1, SMT
    <3> QED
      BY <2>1, <3>2 DEF FetchInv, ReadSoFar
  <2> QED
    BY <2>1, <2>2, <2>3 DEF FetchInv, FetchFresh, Idle
<1>3. ASSUME NEW chan \in Channels, FetchStatus(chan) PROVE FetchInv'
  BY <1>3, StatusKeeps
<1>4. ASSUME NEW s \in Sensors, FetchRead(s) PROVE FetchInv'
  BY <1>4, ReadKeeps
<1>5. CASE Initialize \/ UNCHANGED vars
  BY <1>1, <1>5 DEF Initialize, vars
<1>6. ASSUME NEW s \in Sensors, NEW v, SetOdr(s, v) \/ SetFs(s, v) PROVE FetchInv'
  BY <1>1, <1>6 DEF SetOdr, SetFs
<1> QED
  BY <1>2, <1>3, <1>4, <1>5, <1>6 DEF Next

-----------------------------------------------------------------------------
(* Theorems *)

\* Settings and fetch in every state of every sequence of calls and failures.
THEOREM MotionInvariance == Spec => [](SettingsInv /\ FetchInv)
BY SettingsInitially, SettingsStep, FetchInitially, FetchStep, PTL DEF Spec

\* Type correctness, for every devicetree the binding allows.
THEOREM MotionTypeCorrect == Spec => []TypeOK
<1>1. SettingsInv /\ FetchInv => TypeOK
  <2> SUFFICES ASSUME SettingsTyped, FetchTyped PROVE TypeOK
    BY DEF SettingsInv, FetchInv
  <2>1. /\ hz \in [Sensors -> 0..8000] /\ fs \in [Sensors -> 0..2048]
        /\ odr \in [Sensors -> 0..7] /\ range \in [Sensors -> 0..7]
    BY SMT DEF SettingsTyped, HzRange, FsRange
  <2>2. fetch.pc \in Sensors \cup {"idle"} /\ fetch.ret \in {Ebusy} \cup 0..255
    BY SMT DEF FetchTyped, Results
  <2> QED
    BY <2>1, <2>2, SMT DEF TypeOK, SettingsTyped, FetchTyped
<1> QED
  BY <1>1, MotionInvariance, PTL

\* What channel_get() reports keeps its proportion to what the sensor measures,
\* right for the accelerometer and 180 times too much for the gyroscope,
\* whatever full scales are asked for and whatever accesses fail.
THEOREM ConversionIsSteady == Spec => []ConversionSteady
<1>1. SettingsInv => ConversionSteady
  BY ReportedOfZero DEF SettingsInv, FieldsZero, ConversionSteady, Sensors
<1> QED
  BY <1>1, MotionInvariance, PTL

\* The rates of the binding but 25 are those of the driver's table.
LEMMA BindingTable == \A rate \in BindingRates \ {25} : \E j \in 1..8 : rate = OdrRates[j]
<1> SUFFICES ASSUME NEW rate \in {50, 100, 200, 500, 1000, 2000, 4000, 8000}
             PROVE  \E j \in 1..8 : rate = OdrRates[j]
  BY DEF BindingRates
<1>1. CASE rate = 50
  BY <1>1, OdrTable
<1>2. CASE rate = 100
  BY <1>2, OdrTable
<1>3. CASE rate = 200
  BY <1>3, OdrTable
<1>4. CASE rate = 500
  BY <1>4, OdrTable
<1>5. CASE rate = 1000
  BY <1>5, OdrTable
<1>6. CASE rate = 2000
  BY <1>6, OdrTable
<1>7. CASE rate = 4000
  BY <1>7, OdrTable
<1>8. CASE rate = 8000
  BY <1>8, OdrTable
<1> QED
  BY <1>1, <1>2, <1>3, <1>4, <1>5, <1>6, <1>7, <1>8

\* After every sequence of accepted, refused and failed sets of any int32_t,
\* the sensor runs at the rate of the last one accepted, and attr_get() says so
\* unless the last one failed on the bus.
THEOREM RateIsKept == Spec => []RateHolds
<1>1. ASSUME SettingsInv PROVE RateHolds
  <2> SUFFICES ASSUME boot = "ready", NEW s \in Sensors
               PROVE  /\ OdrOf(odr[s]) >= Hz(told[s])
                      /\ \A rate \in BindingRates \ {25} :
                            rate >= Hz(told[s]) => rate >= OdrOf(odr[s])
                      /\ setFailed[s] \/ hz[s] = OdrOf(odr[s])
    BY DEF RateHolds
  <2> DEFINE k == RoundUp(OdrRates, Hz(told[s]))
  <2>1. /\ HzSupported(Hz(told[s])) /\ odr[s] = k - 1
        /\ setFailed[s] \/ hz[s] = OdrRates[k]
    BY <1>1 DEF SettingsInv, RateKept
  <2>2. /\ k \in 1..8 /\ OdrRates[k] >= Hz(told[s])
        /\ \A j \in 1..8 : OdrRates[j] >= Hz(told[s]) => OdrRates[j] >= OdrRates[k]
    BY <2>1, OdrRoundsUp
  <2> HIDE DEF k
  <2>3. OdrOf(odr[s]) = OdrRates[k]
    BY <2>1, <2>2, OdrDecodes
  <2>4. ASSUME NEW rate \in BindingRates \ {25}, rate >= Hz(told[s])
        PROVE  rate >= OdrRates[k]
    <3>1. PICK j \in 1..8 : rate = OdrRates[j]
      BY BindingTable
    <3> QED
      BY <2>2, <2>4, <3>1
  <2> QED
    BY <2>1, <2>2, <2>3, <2>4
<1> QED
  BY <1>1, MotionInvariance, PTL

\* The accelerometer's full scale survives its truncation to whole m/s2.
THEOREM AccelScaleRoundTrips == Spec => []AccelScaleReadsBack
<1>1. ASSUME SettingsInv PROVE AccelScaleReadsBack
  <2> SUFFICES ASSUME boot = "ready", scaled["accel"] # 0
               PROVE  RoundUp(Scales["accel"], Fs("accel", fs["accel"]))
                          = RoundUp(Scales["accel"], scaled["accel"])
    BY DEF AccelScaleReadsBack
  <2> DEFINE k == RoundUp(Scales["accel"], scaled["accel"])
  <2>1. scaled["accel"] \in 2..16 /\ fs["accel"] = Kept("accel", Scales["accel"][k])
    BY <1>1 DEF SettingsInv, ScaleKept
  <2>2. k \in 1..4
    BY <2>1, AccelRoundsUp
  <2> HIDE DEF k
  <2>3. RoundUp(Scales["accel"], Fs("accel", Kept("accel", Scales["accel"][k]))) = k
    BY <2>2, AccelReadsBack
  <2> QED
    BY <2>1, <2>3 DEF k
<1> QED
  BY <1>1, MotionInvariance, PTL

\* A full scale that was accepted is a supported one.
ScalesSupported == \A s \in Sensors : scaled[s] # 0 => FsSupported(s, scaled[s])

\* Where attr_set() and the devicetree do reach the sensor: an accepted full
\* scale is the sensor's exactly where none but the smallest, 2 g and 16 dps,
\* was ever asked for.
THEOREM OnlySmallestScale ==
    Spec => [](boot = "ready" =>
                  (FullScaleProgrammed <=> \A s \in Sensors : scaled[s] <= Scales[s][1]))
<1>1. Init => ScalesSupported
  BY DEF Init, ScalesSupported
<1>2. SettingsInv /\ ScalesSupported /\ [Next]_vars => ScalesSupported'
  <2> SUFFICES ASSUME SettingsInv, ScalesSupported, [Next]_vars PROVE ScalesSupported'
    OBVIOUS
  <2>1. CASE Initialize
    <3>1. PICK n \in 0..Len(InitSettings) :
            /\ \A i \in 1..n : SettingSupported(i)
            /\ scaled' = [s \in Sensors |-> IF Done("fs", s, n) THEN DtFs[s] ELSE 0]
      BY <2>1 DEF Initialize
    <3>2. ASSUME NEW s \in Sensors, Done("fs", s, n) PROVE FsSupported(s, DtFs[s])
      <4>1. PICK i \in 1..n : InitSettings[i] = <<"fs", s>>
        BY <3>2 DEF Done
      <4>2. InitSettings[i][1] = "fs" /\ InitSettings[i][2] = s
        BY <4>1
      <4> QED
        BY <3>1, <4>2 DEF SettingSupported
    <3> QED
      BY <3>1, <3>2 DEF ScalesSupported
  <2>2. ASSUME NEW s \in Sensors, NEW v \in AskedFs[s], SetFs(s, v) PROVE ScalesSupported'
    <3>1. FsSupported(s, Fs(s, v)) /\ scaled \in [Sensors -> Nat]
      BY <2>2 DEF SetFs, SettingsInv, SettingsTyped
    <3>2. \/ scaled' = [scaled EXCEPT ![s] = Fs(s, v)]
          \/ scaled' = [scaled EXCEPT ![s] = 0]
      BY <2>2 DEF SetFs
    <3> QED
      BY <3>1, <3>2 DEF ScalesSupported
  <2>3. CASE UNCHANGED scaled
    BY <2>3 DEF ScalesSupported
  <2>4. \/ Initialize \/ UNCHANGED scaled
        \/ \E s \in Sensors : \E v \in AskedFs[s] : SetFs(s, v)
    BY DEF Next, SetOdr, FetchRead, FetchStatus, Sample, settings, vars
  <2> QED
    BY <2>1, <2>2, <2>3, <2>4
<1>3. ASSUME SettingsInv, ScalesSupported, boot = "ready"
      PROVE  FullScaleProgrammed <=> \A s \in Sensors : scaled[s] <= Scales[s][1]
  <2>1. ASSUME NEW s \in Sensors
        PROVE  (scaled[s] # 0 =>
                   ScaleOf(s, range[s]) = Scales[s][RoundUp(Scales[s], scaled[s])])
               <=> scaled[s] <= Scales[s][1]
    <3>1. range[s] = 0 /\ scaled[s] \in Nat
      BY <1>3, <2>1 DEF SettingsInv, SettingsTyped, FieldsZero
    <3>2. CASE scaled[s] = 0
      BY <3>2, AccelTable, GyroTable DEF Sensors
    <3>3. CASE scaled[s] # 0
      <4>1. FsSupported(s, scaled[s])
        BY <1>3, <2>1, <3>3 DEF ScalesSupported
      <4>2. Scales[s][RoundUp(Scales[s], scaled[s])] = ScaleOf(s, 0) <=> scaled[s] <= Scales[s][1]
        BY <2>1, <3>1, <4>1, SmallestScale
      <4> QED
        BY <3>1, <3>3, <4>2
    <3> QED
      BY <3>2, <3>3
  <2> QED
    BY <1>3, <2>1 DEF FullScaleProgrammed
<1> QED
  BY <1>1, <1>2, <1>3, MotionInvariance, PTL DEF Spec

\* A fetch that returned 0 left no sample older than itself in the data.
THEOREM FetchedIsFresh == Spec => []FetchFresh
<1>1. FetchInv => FetchFresh
  BY DEF FetchInv
<1> QED
  BY <1>1, MotionInvariance, PTL
==============================================================================
