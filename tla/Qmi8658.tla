------------------------------ MODULE Qmi8658 ------------------------------
(***************************************************************************)
(* The QMI8658 motion sensor driver: the settings it keeps in its data,    *)
(* the fields of CTRL2 and CTRL3 they are meant to set, and the fetch of a *)
(* sample in three bus accesses while the sensor goes on sampling.         *)
(*                                                                         *)
(* Accelerometer and gyroscope are treated alike by the driver, so each    *)
(* operation has the sensor s as its parameter.  Every bus access may fail *)
(* with one of BusErrors, and one that fails leaves the register as it was *)
(* and the data unread.  The boot-time bus check, which touches no         *)
(* register, is left out.                                                  *)
(***************************************************************************)
EXTENDS Integers, Sequences

CONSTANTS
    DtHz, DtFs,      \* [sensor -> value]: accel-hz, gyro-hz, accel-fs, gyro-fs
    AskedHz,         \* val1 of the sampling frequencies a caller may set
    AskedFs,         \* [sensor -> set]: val1 of the full scales it may set
    BusErrors,       \* the error numbers of a failed bus access, e.g. EIO
    MaxSamples       \* bound on the samples the sensor takes

Sensors == {"accel", "gyro"}

\* The binding's enumerations do not go beyond 8000 Hz and 2048 dps.
ASSUME DevicetreeAssumption ==
    DtHz \in [Sensors -> 0..8000] /\ DtFs \in [Sensors -> 0..2048]

ASSUME Qmi8658Assumption ==
    /\ AskedHz \subseteq Int /\ AskedFs \in [Sensors -> SUBSET Int]
    /\ BusErrors \subseteq 1..255 /\ MaxSamples \in Nat

VARIABLES
    boot,       \* "off", "ready" or "failed": what qmi8658_init() made of it
    hz, fs,     \* data->accel_hz, gyro_hz and data->accel_fs, gyro_fs
    odr, range, \* the ODR and full-scale fields of CTRL2 and CTRL3
    told,       \* the last sampling frequency a set of it accepted
    setFailed,  \* the last set of the sampling frequency ended in a bus error
    scaled,     \* the full scale, in g or dps, if the last set of it was
                \* accepted, and 0 if it was not
    now,        \* the number of the sample in the sensor's output (external)
    data,       \* the number of the sample in data->accel_x.. and gyro_x..
    fetch       \* the fetch under way or done: pc, what it reads, its result

settings == <<boot, hz, fs, odr, range, told, setFailed, scaled>>
vars == <<settings, now, data, fetch>>

\* The sampling frequencies the binding lists.
BindingRates == {25, 50, 100, 200, 500, 1000, 2000, 4000, 8000}

\* The values the driver rounds to: the field's value is the position, from 0.
\* Of the binding's rates it leaves out 25 Hz, whose field value is 8.
OdrRates == <<8000, 4000, 2000, 1000, 500, 200, 100, 50>>
Scales == [accel |-> <<2, 4, 8, 16>>,
           gyro  |-> <<16, 32, 64, 128, 256, 512, 1024, 2048>>]

\* Which of the supported values is taken for v: the smallest that reaches it.
RoundUp(table, v) ==
    CHOOSE i \in DOMAIN table :
        /\ table[i] >= v
        /\ \A j \in DOMAIN table : table[j] >= v => table[j] >= table[i]

\* The sensor's own decoding of the two fields (external).
OdrOf(field) == (OdrRates \o <<25>>)[field + 1]
ScaleOf(s, field) == Scales[s][field + 1]

\* Mutant of FsField: the value is shifted to the field.
FsFieldShifted(val) == val % 8

\* What update(reg, mask, val) leaves in a full-scale field, bits 6..4: val is
\* the plain enumeration value, not shifted to the field.
FsField(val) == (val \div 16) % 8

\* Mutant of Kept: the scale is kept in the unit of the devicetree.
KeptAsGiven(s, scale) == scale

\* The unit the scale is kept in: m/s2 from g, rad/s from degrees/s, and of
\* either only the integer part.
Kept(s, scale) ==
    IF s = "accel" THEN (scale * 9806650) \div 1000000
    ELSE (scale * 314159) \div 18000000

\* sensor_ms2_to_g(): the nearest number of g.
Ms2ToG(val1) ==
    IF val1 > 0 THEN (val1 * 1000000 + 4903325) \div 9806650
    ELSE -((-val1 * 1000000 + 4903325) \div 9806650)

\* What attr_set() makes of val1, an int32_t, for a parameter of uint16_t.
Hz(val1) == val1 % 65536
Fs(s, val1) == (IF s = "accel" THEN Ms2ToG(val1) ELSE val1) % 65536

HzSupported(rate) == rate \in 25..8000
FsSupported(s, scale) ==
    IF s = "accel" THEN scale \in 2..16 ELSE scale \in 16..2048

\* What channel_get() reports, in g and dps, when the sensor is at its full
\* scale and its output at 2^15.  qmi8658_convert_accel() takes 2^14 units for
\* one g; qmi8658_convert_gyro() takes 2^11 units for SENSOR_PI micro-radians
\* per second, which is 180 dps: it does not divide by 180.
ReportedFullScale == [accel |-> 32768 \div 16384, gyro |-> (32768 \div 2048) * 180]
-----------------------------------------------------------------------------
Idle == fetch.pc = "idle"
NoFetch == [pc |-> "idle", chan |-> {}, began |-> 0, ret |-> 0]

\* What a caller of sample_fetch() gets for the error -e of a bus access: the
\* result passes through a uint8_t and arrives as a positive number.
Returned(e) == (-e) % 256
Ebusy == -16

Init ==
    /\ boot = "off"
    /\ hz = DtHz /\ fs = DtFs
    /\ odr = [s \in Sensors |-> 0] /\ range \in [Sensors -> {0, 3}]
    /\ told = [s \in Sensors |-> 0] /\ scaled = [s \in Sensors |-> 0]
    /\ setFailed = [s \in Sensors |-> FALSE]
    /\ now = 0 /\ data = [s \in Sensors |-> 0] /\ fetch = NoFetch

\* qmi8658_sensor_init(): the four settings of the DT, the accelerometer's
\* first.  The first access that fails, and an unsupported setting, end it.
InitSettings == << <<"fs", "accel">>, <<"hz", "accel">>, <<"fs", "gyro">>, <<"hz", "gyro">> >>

SettingSupported(i) ==
    LET s == InitSettings[i][2]
    IN  IF InitSettings[i][1] = "fs" THEN FsSupported(s, DtFs[s]) ELSE HzSupported(DtHz[s])

Done(kind, s, n) == \E i \in 1..n : InitSettings[i] = <<kind, s>>

\* n of the settings reach the sensor and m the data, which a setting writes
\* before it uses the bus.  Boot ends before the first setting (the reset, the
\* identity, CTRL1 or CTRL7 failed), at one that is not supported, at one
\* whose bus access fails, or after the last.
Initialize ==
    /\ boot = "off"
    /\ \E n \in 0..Len(InitSettings) : \E m \in {n, n + 1} \cap (0..Len(InitSettings)) :
          /\ \A i \in 1..m : SettingSupported(i)
          /\ m = n /\ n \notin {0, Len(InitSettings)} => ~SettingSupported(n + 1)
          /\ boot' = IF n = Len(InitSettings) THEN "ready" ELSE "failed"
          /\ fs' = [s \in Sensors |->
                IF Done("fs", s, m) THEN Kept(s, Scales[s][RoundUp(Scales[s], DtFs[s])]) ELSE fs[s]]
          /\ range' = [s \in Sensors |->
                IF Done("fs", s, n) THEN FsField(RoundUp(Scales[s], DtFs[s]) - 1) ELSE range[s]]
          /\ scaled' = [s \in Sensors |-> IF Done("fs", s, n) THEN DtFs[s] ELSE 0]
          /\ hz' = [s \in Sensors |->
                IF Done("hz", s, m) THEN OdrRates[RoundUp(OdrRates, DtHz[s])] ELSE hz[s]]
          /\ odr' = [s \in Sensors |->
                IF Done("hz", s, n) THEN RoundUp(OdrRates, DtHz[s]) - 1 ELSE odr[s]]
          /\ told' = [s \in Sensors |-> IF Done("hz", s, n) THEN DtHz[s] ELSE 0]
    /\ UNCHANGED <<setFailed, now, data, fetch>>

\* Mutant of SetOdr: the rate asked for is kept, not the one it is rounded to.
SetOdrUnrounded(s, val1) ==
    /\ boot = "ready" /\ Idle
    /\ HzSupported(Hz(val1))
    /\ hz' = [hz EXCEPT ![s] = val1]
    /\ odr' = [odr EXCEPT ![s] = RoundUp(OdrRates, Hz(val1)) - 1]
    /\ told' = [told EXCEPT ![s] = val1] /\ setFailed' = [setFailed EXCEPT ![s] = FALSE]
    /\ UNCHANGED <<boot, fs, range, scaled, now, data, fetch>>

\* Mutant of SetOdr: the result of the bus is dropped.
SetOdrUnchecked(s, val1) ==
    /\ boot = "ready" /\ Idle
    /\ HzSupported(Hz(val1))
    /\ LET i == RoundUp(OdrRates, Hz(val1))
       IN  /\ hz' = [hz EXCEPT ![s] = OdrRates[i]]
           /\ odr' \in {odr, [odr EXCEPT ![s] = i - 1]}
    /\ told' = [told EXCEPT ![s] = val1] /\ setFailed' = [setFailed EXCEPT ![s] = FALSE]
    /\ UNCHANGED <<boot, fs, range, scaled, now, data, fetch>>

\* attr_set(SAMPLING_FREQUENCY): the data is set before the bus is asked.
SetOdr(s, val1) ==
    /\ boot = "ready" /\ Idle
    /\ HzSupported(Hz(val1))
    /\ LET i == RoundUp(OdrRates, Hz(val1))
       IN  /\ hz' = [hz EXCEPT ![s] = OdrRates[i]]
           /\ \/ /\ odr' = [odr EXCEPT ![s] = i - 1] /\ told' = [told EXCEPT ![s] = val1]
                 /\ setFailed' = [setFailed EXCEPT ![s] = FALSE]
              \/ /\ setFailed' = [setFailed EXCEPT ![s] = TRUE]
                 /\ UNCHANGED <<odr, told>>
    /\ UNCHANGED <<boot, fs, range, scaled, now, data, fetch>>

\* attr_set(FULL_SCALE), in the same order.
SetFs(s, val1) ==
    /\ boot = "ready" /\ Idle
    /\ FsSupported(s, Fs(s, val1))
    /\ LET i == RoundUp(Scales[s], Fs(s, val1))
       IN  /\ fs' = [fs EXCEPT ![s] = Kept(s, Scales[s][i])]
           /\ \/ /\ range' = [range EXCEPT ![s] = FsField(i - 1)]
                 /\ scaled' = [scaled EXCEPT ![s] = Fs(s, val1)]
              \/ UNCHANGED range /\ scaled' = [scaled EXCEPT ![s] = 0]
    /\ UNCHANGED <<boot, hz, odr, told, setFailed, now, data, fetch>>
-----------------------------------------------------------------------------
(* sample_fetch(): the status, then the accelerometer, then the gyroscope *)

Channels == {{"accel"}, {"gyro"}, {"accel", "gyro"}}

\* The next register block a fetch of chan reads after those in read.
NextRead(chan, read) ==
    IF "accel" \in chan \ read THEN "accel" ELSE IF "gyro" \in chan \ read THEN "gyro" ELSE "idle"

FetchStatus(chan) ==
    /\ boot = "ready" /\ Idle
    /\ \/ fetch' = [pc |-> NextRead(chan, {}), chan |-> chan, began |-> now, ret |-> 0]
       \/ \E ret \in {Ebusy} \cup {Returned(e) : e \in BusErrors} :
             fetch' = [pc |-> "idle", chan |-> chan, began |-> now, ret |-> ret]
    /\ UNCHANGED <<settings, now, data>>

\* Mutant of FetchRead: a read that failed is not reported.
FetchReadUnchecked(s) ==
    /\ fetch.pc = s
    /\ data' \in {data, [data EXCEPT ![s] = now]}
    /\ fetch' = [fetch EXCEPT !.pc = NextRead(fetch.chan, {"accel", s})]
    /\ UNCHANGED <<settings, now>>

FetchRead(s) ==
    /\ fetch.pc = s
    /\ \/ /\ data' = [data EXCEPT ![s] = now]
          /\ fetch' = [fetch EXCEPT !.pc = NextRead(fetch.chan, {"accel", s})]
       \/ /\ \E e \in BusErrors : fetch' = [fetch EXCEPT !.pc = "idle", !.ret = Returned(e)]
          /\ UNCHANGED data
    /\ UNCHANGED <<settings, now>>

\* The sensor takes its next sample (external).
Sample ==
    /\ boot = "ready" /\ now < MaxSamples
    /\ now' = now + 1
    /\ UNCHANGED <<settings, data, fetch>>
-----------------------------------------------------------------------------
Next ==
    \/ Initialize
    \/ \E s \in Sensors :
          \/ \E v \in AskedHz : SetOdr(s, v)
          \/ \E v \in AskedFs[s] : SetFs(s, v)
          \/ FetchRead(s)
    \/ \E chan \in Channels : FetchStatus(chan)
    \/ Sample

Spec == Init /\ [][Next]_vars
-----------------------------------------------------------------------------
(* Properties *)

\* What the variables may hold.
TypeOK ==
    /\ boot \in {"off", "ready", "failed"}
    /\ hz \in [Sensors -> 0..8000] /\ fs \in [Sensors -> 0..2048]
    /\ odr \in [Sensors -> 0..7] /\ range \in [Sensors -> 0..7]
    /\ told \in [Sensors -> Int] /\ scaled \in [Sensors -> Nat]
    /\ setFailed \in [Sensors -> BOOLEAN]
    /\ now \in 0..MaxSamples /\ data \in [Sensors -> 0..MaxSamples]
    /\ fetch.pc \in Sensors \cup {"idle"} /\ fetch.ret \in {Ebusy} \cup 0..255

\* What channel_get() reports keeps its proportion to what the sensor
\* measures, although the driver converts by constants and accepts any full
\* scale: after a successful boot no call and no failure of the bus moves the
\* accelerometer off the right value, or the gyroscope off 180 times it.
ConversionSteady ==
    boot = "ready" =>
        /\ ReportedFullScale["accel"] = ScaleOf("accel", range["accel"])
        /\ ReportedFullScale["gyro"] = 180 * ScaleOf("gyro", range["gyro"])

\* The sensor runs at the rate of the last set that was accepted, whatever
\* sets have failed since: the next of the binding's rates at or above the one
\* asked for, taken as a uint16_t, but 50 where the binding has 25.  What
\* attr_get() reports is that rate, unless the last set ended in a bus error.
RateHolds ==
    boot = "ready" => \A s \in Sensors :
        /\ OdrOf(odr[s]) >= Hz(told[s])
        /\ \A rate \in BindingRates \ {25} : rate >= Hz(told[s]) => rate >= OdrOf(odr[s])
        /\ setFailed[s] \/ hz[s] = OdrOf(odr[s])

\* What attr_get() reports as the accelerometer's full scale, set again, is
\* the same full scale: the truncation to whole m/s2 and the rounding to g
\* undo each other.
AccelScaleReadsBack ==
    boot = "ready" /\ scaled["accel"] # 0 =>
        RoundUp(Scales["accel"], Fs("accel", fs["accel"])) = RoundUp(Scales["accel"], scaled["accel"])

\* A fetch that returned 0, none of whose errors the conversion to uint8_t has
\* made 0, has left nothing older than its own beginning in
\* the data of the channels it was asked for, although status and samples
\* are read one after the other while the sensor goes on.
FetchFresh ==
    Idle /\ fetch.ret = 0 => \A s \in fetch.chan : data[s] >= fetch.began

\* dts/bindings/sensor/qst,qmi8658.yaml: accel-fs "Maps to ACCEL_FS_SEL", gyro-fs
\* "Maps to GYRO_FS_SEL": an accepted full scale is the sensor's.
FullScaleProgrammed ==
    \A s \in Sensors : boot = "ready" /\ scaled[s] # 0 =>
        ScaleOf(s, range[s]) = Scales[s][RoundUp(Scales[s], scaled[s])]
=============================================================================
