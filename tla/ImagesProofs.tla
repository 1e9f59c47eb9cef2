---------------------------- MODULE ImagesProofs ----------------------------
(***************************************************************************)
(* The programs of one thread, or one thread and an interrupt: for every   *)
(* constant the label of the counter displays is current whenever main()   *)
(* sleeps and a click is never lost, an LED that was switched off stays    *)
(* dark, the unsigned arithmetic of the fading LEDs stays in its range,    *)
(* and no period of the sweep is refused.  Then the board: an image        *)
(* behaves as its program does, so that the theorems about the programs    *)
(* hold of the board.                                                      *)
(***************************************************************************)
EXTENDS Images, FifoBlinkProofs, TonePlayerProofs, MqttTelemetryProofs

-----------------------------------------------------------------------------
(* The counter displays *)

\* The label shows the hundreds of n, or n is below the first of them.
Shows(n) == n \in 0..PassesPerStep - 1 \/ count_label = n \div PassesPerStep

\* The label is what Good says of the counter before Check, and Shows after it;
\* from Load to Store it is the register that counts.
LabelInv ==
    /\ screen \in {"check", "sleep"} =>
          count \in 0..PassesPerStep \/ count_label = (count - 1) \div PassesPerStep
    /\ screen \in {"handler", "load"} => Shows(count)
    /\ screen = "store" => Shows(loaded)
    /\ screen \in {"boot", "blanking"} => count = 0

CounterInv == CounterTypeOK /\ LabelInv

\* A number that is not a multiple has the quotient of the one before.
LEMMA SameQuotient ==
    ASSUME NEW p \in Nat \ {0}, NEW n \in Nat \ {0}, n % p # 0
    PROVE  (n - 1) \div p = n \div p
<1> DEFINE q == n \div p
           r == n % p
           d == (n - 1) \div p
           m == (n - 1) % p
<1>1. n = p * q + r /\ r \in 1..p - 1 /\ q \in Nat
  OBVIOUS
<1>2. n - 1 = p * d + m /\ m \in 0..p - 1 /\ d \in Nat
  OBVIOUS
<1> HIDE DEF q, r, d, m
<1>3. p * q + (r - 1) = p * d + m
  BY <1>1, <1>2
<1>4. \A a, b \in Nat : a < b => p * a + p <= p * b
  <2> TAKE a, b \in Nat
  <2>1. \A k \in Nat : b = a + 1 + k => p * b = p * a + p + p * k /\ p * k \in Nat
    OBVIOUS
  <2>2. a < b => b - a - 1 \in Nat /\ b = a + 1 + (b - a - 1)
    OBVIOUS
  <2> QED
    BY <2>1, <2>2
<1>5. ~(q < d)
  BY <1>1, <1>2, <1>3, <1>4
<1>6. ~(d < q)
  BY <1>1, <1>2, <1>3, <1>4
<1> QED
  BY <1>1, <1>2, <1>5, <1>6 DEF q, d

LEMMA CounterInitially == CounterInit => CounterInv
<1> SUFFICES ASSUME CounterInit PROVE CounterInv
  OBVIOUS
<1>1. /\ screen = "boot" /\ count = 0 /\ loaded = 0 /\ count_label = CountRange
  BY DEF CounterInit, NoText
<1>2. button \in BOOLEAN /\ pressed \in BOOLEAN
  BY DEF CounterInit
<1>3. CounterTypeOK
  BY <1>1, <1>2, CounterAssumption DEF CounterTypeOK
<1>4. LabelInv
  BY <1>1 DEF LabelInv
<1> QED
  BY <1>3, <1>4 DEF CounterInv

\* Every step keeps the types.
LEMMA CounterTyped == CounterTypeOK /\ [CounterNext]_counterVars => CounterTypeOK'
<1> SUFFICES ASSUME CounterTypeOK, [CounterNext]_counterVars PROVE CounterTypeOK'
  OBVIOUS
<1>1. /\ \A n \in Nat : n % CountRange \in 0..CountRange - 1
      /\ 0 \in 0..CountRange - 1
  BY CounterAssumption
<1>2. CASE DisplayBoot \/ Backlight \/ Load \/ NextPass
  BY <1>2 DEF CounterTypeOK, DisplayBoot, Backlight, Load, NextPass, Screen
<1>3. CASE Check
  <2>1. \A c \in 0..CountRange - 1 : c \div PassesPerStep \in 0..CountRange
    BY CounterAssumption
  <2> QED
    BY <1>3, <2>1 DEF CounterTypeOK, Check, Screen
<1>4. CASE Handler
  BY <1>1, <1>4 DEF CounterTypeOK, Handler, Screen
<1>5. CASE Store
  <2>1. (loaded + 1) % CountRange \in 0..CountRange - 1
    BY <1>1 DEF CounterTypeOK
  <2> QED
    BY <1>5, <2>1 DEF CounterTypeOK, Store, Screen
<1>6. CASE Press
  BY <1>1, <1>6 DEF CounterTypeOK, Press
<1>7. CASE UNCHANGED counterVars
  BY <1>7 DEF CounterTypeOK, counterVars
<1> QED
  BY <1>2, <1>3, <1>4, <1>5, <1>6, <1>7 DEF CounterNext, CounterMain

\* Every step keeps the label.
LEMMA LabelKept == CounterInv /\ [CounterNext]_counterVars => LabelInv'
<1> SUFFICES ASSUME CounterInv, [CounterNext]_counterVars PROVE LabelInv'
  OBVIOUS
<1>0. /\ count \in Nat /\ loaded \in 0..CountRange - 1 /\ PassesPerStep \in Nat \ {0}
      /\ CountRange \in Nat \ {0} /\ 0 \in 0..PassesPerStep /\ 0 \in 0..PassesPerStep - 1
  BY CounterAssumption DEF CounterInv, CounterTypeOK
<1>1. /\ screen \in {"check", "sleep"} =>
            count \in 0..PassesPerStep \/ count_label = (count - 1) \div PassesPerStep
      /\ screen \in {"handler", "load"} => Shows(count)
      /\ screen = "store" => Shows(loaded)
      /\ screen \in {"boot", "blanking"} => count = 0
  BY DEF CounterInv, LabelInv
<1>2. CASE DisplayBoot \/ Backlight \/ NextPass \/ UNCHANGED counterVars
  <2>1. /\ UNCHANGED <<count, loaded, count_label>>
        /\ \/ screen = "boot" /\ screen' = "blanking"
           \/ screen = "blanking" /\ screen' = "check"
           \/ screen = "sleep" /\ screen' = "check"
           \/ screen' = "returned"
           \/ UNCHANGED screen
    BY <1>2 DEF DisplayBoot, Backlight, NextPass, counterVars, Screen
  <2> QED
    BY <1>0, <1>1, <2>1 DEF LabelInv, Shows
<1>3. CASE Check
  <2>1. screen = "check" /\ screen' = "handler" /\ UNCHANGED <<count, loaded>>
    BY <1>3 DEF Check, Screen
  <2>2. CASE count % PassesPerStep = 0
    <3>1. count_label' = count \div PassesPerStep
      BY <1>3, <2>2 DEF Check
    <3> QED
      BY <2>1, <3>1 DEF LabelInv, Shows
  <2>3. CASE count % PassesPerStep # 0
    <3>1. count_label' = count_label
      BY <1>3, <2>3 DEF Check
    <3>2. count # 0 /\ count # PassesPerStep
      BY <1>0, <2>3
    <3>3. (count - 1) \div PassesPerStep = count \div PassesPerStep
      BY <1>0, <2>3, <3>2, SameQuotient
    <3>4. Shows(count)
      BY <1>0, <1>1, <2>1, <3>2, <3>3 DEF Shows
    <3> QED
      BY <2>1, <3>1, <3>4 DEF LabelInv, Shows
  <2> QED
    BY <2>2, <2>3
<1>4. CASE Handler
  <2>1. /\ screen = "handler" /\ screen' = "load" /\ UNCHANGED <<loaded, count_label>>
        /\ count' \in {count, 0}
    BY <1>4 DEF Handler, Screen
  <2> QED
    BY <1>0, <1>1, <2>1 DEF LabelInv, Shows
<1>5. CASE Load
  <2>1. /\ screen = "load" /\ screen' = "store" /\ loaded' = count
        /\ UNCHANGED <<count, count_label>>
    BY <1>5 DEF Load, Screen
  <2> QED
    BY <1>0, <1>1, <2>1 DEF LabelInv, Shows
<1>6. CASE Store
  <2>1. /\ screen = "store" /\ screen' = "sleep" /\ count' = (loaded + 1) % CountRange
        /\ UNCHANGED <<loaded, count_label>>
    BY <1>6 DEF Store, Screen
  <2>2. count' = 0 \/ count' = loaded + 1
    BY <1>0, <2>1
  <2>3. CASE count' = 0
    BY <1>0, <2>1, <2>3 DEF LabelInv
  <2>4. CASE count' = loaded + 1
    <3>1. loaded \in 0..PassesPerStep - 1 => loaded + 1 \in 0..PassesPerStep
      BY <1>0
    <3>2. count' \in 0..PassesPerStep \/ count_label' = (count' - 1) \div PassesPerStep
      <4>1. CASE loaded \in 0..PassesPerStep - 1
        BY <2>4, <3>1, <4>1
      <4>2. CASE count_label = loaded \div PassesPerStep
        <5>1. count' - 1 = loaded
          BY <1>0, <2>4
        <5> QED
          BY <2>1, <4>2, <5>1
      <4> QED
        BY <1>1, <2>1, <4>1, <4>2 DEF Shows
    <3> QED
      BY <2>1, <3>2 DEF LabelInv
  <2> QED
    BY <2>2, <2>3, <2>4
<1>7. CASE Press
  <2>1. count' = 0 /\ UNCHANGED <<screen, loaded, count_label>>
    BY <1>7 DEF Press
  <2> QED
    BY <1>0, <1>1, <2>1 DEF LabelInv, Shows
<1> QED
  BY <1>2, <1>3, <1>4, <1>5, <1>6, <1>7 DEF CounterNext, CounterMain

\* The inductive invariant holds in every state.
THEOREM CounterInvariance == CounterSpec => []CounterInv
BY CounterInitially, CounterTyped, LabelKept, PTL DEF CounterSpec, CounterInv

\* While main() sleeps the label is current, whatever a press interrupts.
THEOREM LabelStaysCurrent == CounterSpec => []LabelCurrent
<1>1. CounterInv => LabelCurrent
  BY DEF CounterInv, LabelInv, LabelCurrent
<1> QED
  BY CounterInvariance, <1>1, PTL

\* Where the interrupt is not enabled, what a click has done in this pass: the
\* click comes from lv_timer_handler(), hence before the load.
ClickInv ==
    /\ screen = "boot" => ~button
    /\ screen \in {"boot", "blanking", "check", "handler"} /\ ~button => ~pressed
    /\ ~button /\ pressed =>
          /\ screen = "load" => count = 0
          /\ screen = "store" => loaded = 0
          /\ screen = "sleep" => count \in {0, 1}

\* Every step keeps what a click has done.
LEMMA ClickKept == ClickInv /\ [CounterNext]_counterVars => ClickInv'
<1> SUFFICES ASSUME ClickInv, [CounterNext]_counterVars PROVE ClickInv'
  OBVIOUS
<1> USE DEF ClickInv, Screen
<1>1. CASE DisplayBoot
  BY <1>1 DEF DisplayBoot
<1>2. CASE Backlight
  BY <1>2 DEF Backlight
<1>3. CASE Check
  BY <1>3 DEF Check
<1>4. CASE Handler
  BY <1>4 DEF Handler
<1>5. CASE Load
  BY <1>5 DEF Load
<1>6. CASE Store
  <2>1. (0 + 1) % CountRange \in {0, 1}
    BY CounterAssumption
  <2> QED
    BY <1>6, <2>1 DEF Store
<1>7. CASE NextPass
  BY <1>7 DEF NextPass
<1>8. CASE Press
  BY <1>8 DEF Press
<1>9. CASE UNCHANGED counterVars
  BY <1>9 DEF counterVars
<1> QED
  BY <1>1, <1>2, <1>3, <1>4, <1>5, <1>6, <1>7, <1>8, <1>9 DEF CounterNext, CounterMain

\* A press of the button may be lost, but never a click: without the button's
\* interrupt every reset takes effect.
THEOREM ClickTakesEffect == CounterSpec => [](~button => ResetTakesEffect)
<1>1. CounterInit => ClickInv
  BY DEF CounterInit, ClickInv
<1>2. ClickInv => (~button => ResetTakesEffect)
  BY DEF ClickInv, ResetTakesEffect
<1> QED
  BY <1>1, <1>2, ClickKept, PTL DEF CounterSpec

-----------------------------------------------------------------------------
(* The blinking LED *)

\* A period of 0 has stopped the timer, and main() is past the first period.
TimerStopped ==
    /\ period_ms = 0 => timer = 0 /\ blinker \in {"off", "pass", "sleep"}
    /\ blinker = "off" => period_ms = 0

BlinkInv == BlinkTypeOK /\ TimerStopped /\ OffMeansOff

LEMMA BlinkInitially == BlinkInit => BlinkInv
<1> SUFFICES ASSUME BlinkInit PROVE BlinkInv
  OBVIOUS
<1>1. /\ blinker = "init" /\ dev = "uninitialized"
      /\ timer = 0 /\ due = 0 /\ period_ms = BLINK_PERIOD_MAX /\ last_val = 0
  BY DEF BlinkInit
<1>2. led \in BOOLEAN /\ ret \in BOOLEAN
  BY DEF BlinkInit
<1>3. BlinkTypeOK
  BY <1>1, <1>2, BlinkAssumption DEF BlinkTypeOK
<1>4. TimerStopped /\ OffMeansOff
  BY <1>1, BlinkAssumption DEF TimerStopped, OffMeansOff
<1> QED
  BY <1>3, <1>4 DEF BlinkInv

\* A timer is started with the period or stopped.
LEMMA SetsPeriod ==
    ASSUME NEW p \in 0..BLINK_PERIOD_MAX, SetPeriod(p)
    PROVE  timer' = p /\ due' = p /\ led' = led
BY DEF SetPeriod, TimerStart

LEMMA BlinkStep == BlinkInv /\ [BlinkNext]_blinkVars => BlinkInv'
<1> SUFFICES ASSUME BlinkInv, [BlinkNext]_blinkVars PROVE BlinkInv'
  OBVIOUS
<1> USE BlinkAssumption DEF BlinkInv, BlinkTypeOK, TimerStopped, OffMeansOff, Blinker
<1>1. CASE InitDriver
  BY <1>1 DEF InitDriver, TimerStart
<1>2. CASE FirstPeriod
  <2>1. CASE dev = "ready"
    <3>1. SetPeriod(period_ms) /\ blinker = "first" /\ blinker' = "pass"
      BY <1>2, <2>1 DEF FirstPeriod
    <3>2. timer' = period_ms /\ due' = period_ms /\ led' = led
      BY <3>1, SetsPeriod
    <3> QED
      BY <1>2, <3>1, <3>2 DEF FirstPeriod
  <2>2. CASE dev = "failed"
    BY <1>2, <2>2 DEF FirstPeriod
  <2> QED
    BY <1>2, <2>1, <2>2 DEF FirstPeriod
<1>3. CASE Pass
  <2>1. blinker = "pass" /\ last_val' \in {0, 1} /\ UNCHANGED dev
    BY <1>3 DEF Pass
  <2>2. CASE UNCHANGED period_ms
    <3>1. blinker' = "sleep" /\ UNCHANGED <<timer, due, led, ret>>
      BY <1>3, <2>2 DEF Pass
    <3> QED
      BY <2>1, <2>2, <3>1
  <2>3. CASE ~UNCHANGED period_ms
    <3>1. /\ period_ms' = IF period_ms = 0 THEN BLINK_PERIOD_MAX ELSE period_ms - 1
          /\ SetPeriod(period_ms') /\ ret' = TRUE
          /\ blinker' = IF period_ms' = 0 THEN "off" ELSE "sleep"
      BY <1>3, <2>3 DEF Pass
    <3>2. period_ms' \in 0..BLINK_PERIOD_MAX
      BY <3>1
    <3>3. timer' = period_ms' /\ due' = period_ms' /\ led' = led
      BY <3>1, <3>2, SetsPeriod
    <3> QED
      BY <2>1, <3>1, <3>2, <3>3
  <2> QED
    BY <2>2, <2>3
<1>4. CASE SwitchOff
  BY <1>4 DEF SwitchOff
<1>5. CASE BlinkTick
  BY <1>5 DEF BlinkTick
<1>6. CASE OnTimerExpire
  <2>1. /\ timer > 0 /\ due' = timer
        /\ UNCHANGED <<blinker, dev, timer, period_ms, last_val, ret>>
    BY <1>6 DEF OnTimerExpire
  <2>2. led' \in BOOLEAN
    BY <1>6 DEF OnTimerExpire
  <2>3. period_ms # 0
    BY <2>1
  <2> QED
    BY <2>1, <2>2, <2>3
<1>7. CASE UNCHANGED blinkVars
  BY <1>7 DEF blinkVars, driverVars
<1> QED
  BY <1>1, <1>2, <1>3, <1>4, <1>5, <1>6, <1>7 DEF BlinkNext, BlinkMain

\* The inductive invariant holds in every state.
THEOREM BlinkInvariance == BlinkSpec => []BlinkInv
BY BlinkInitially, BlinkStep, PTL DEF BlinkSpec

\* An LED that blink_set_period_ms() switched off without an error stays dark,
\* although the timer may have been due when it was stopped.
THEOREM OffStaysOff == BlinkSpec => []OffMeansOff
BY BlinkInvariance, PTL DEF BlinkInv

-----------------------------------------------------------------------------
(* The fading LEDs *)

\* An LED whose pulse shrinks has one that is not 0.
NotDarkYet == \A i \in FadeLeds : dirs[i] = 0 => pulse_width[i] > 0

FadeInv == FadeTypeOK /\ FadeInRange /\ NotDarkYet

\* A step is the fiftieth part of the period, rounded down, and not 0.
LEMMA StepSize ==
    ASSUME NEW i \in FadeLeds
    PROVE  /\ FadePeriod[i] \in Nat /\ 2 * FadePeriod[i] <= Word /\ FadePeriod[i] >= 50
           /\ steps(i) \in Nat \ {0}
           /\ 50 * steps(i) <= FadePeriod[i] /\ FadePeriod[i] < 50 * steps(i) + 50
<1>1. FadePeriod[i] \in 50..(Word \div 2) /\ Word \in Nat
  BY FadeAssumption DEF NUM_STEPS
<1> QED
  BY <1>1 DEF steps, NUM_STEPS

\* The sum and the difference that the program computes do not wrap.
LEMMA NoWrap ==
    ASSUME FadeInv, NEW i \in FadeLeds
    PROVE  /\ (pulse_width[i] + steps(i)) % Word = pulse_width[i] + steps(i)
           /\ dirs[i] = 0 =>
                /\ pulse_width[i] >= steps(i)
                /\ (pulse_width[i] + Word - steps(i)) % Word = pulse_width[i] - steps(i)
<1>1. pulse_width[i] \in Nat /\ pulse_width[i] < FadePeriod[i]
  BY StepSize DEF FadeInv, FadeTypeOK, FadeInRange
<1>2. (pulse_width[i] + steps(i)) \in 0..Word - 1 /\ Word \in Nat \ {0}
  BY <1>1, StepSize, FadeAssumption
<1>3. ASSUME dirs[i] = 0 PROVE pulse_width[i] >= steps(i)
  <2>1. PICK k \in 0..2 * NUM_STEPS : pulse_width[i] = k * steps(i)
    BY DEF FadeInv, FadeInRange
  <2>2. k # 0
    BY <1>3, <2>1, StepSize DEF FadeInv, NotDarkYet
  <2>3. k \in Nat \ {0}
    BY <2>2 DEF NUM_STEPS
  <2>4. \A s \in Nat, n \in Nat \ {0} : n * s >= s
    OBVIOUS
  <2> QED
    BY <2>1, <2>3, <2>4, StepSize
<1>4. \A a \in 0..Word - 1 : a % Word = a /\ (a + Word) % Word = a
  BY <1>2
<1>5. ASSUME dirs[i] = 0
      PROVE  (pulse_width[i] + Word - steps(i)) % Word = pulse_width[i] - steps(i)
  <2>1. pulse_width[i] - steps(i) \in 0..Word - 1
    BY <1>1, <1>2, <1>3, <1>5, StepSize
  <2>2. pulse_width[i] + Word - steps(i) = (pulse_width[i] - steps(i)) + Word
    BY <1>1, <1>2, StepSize
  <2> QED
    BY <1>4, <2>1, <2>2
<1> QED
  BY <1>2, <1>3, <1>4, <1>5

\* What the next pulse of an LED may be.
LEMMA NextPulse ==
    ASSUME FadeInv, NEW i \in FadeLeds, NEW pulse, NEW k \in 0..2 * NUM_STEPS,
           pulse_width[i] = k * steps(i),
           \/ pulse = pulse_width[i] + steps(i) /\ pulse < FadePeriod[i]
           \/ pulse = pulse_width[i] - steps(i) /\ k > 0
    PROVE  /\ pulse \in 0..Word - 1 /\ pulse < FadePeriod[i]
           /\ \E n \in 0..2 * NUM_STEPS : pulse = n * steps(i)
<1>1. pulse_width[i] \in Nat /\ pulse_width[i] < FadePeriod[i]
  BY StepSize DEF FadeInv, FadeTypeOK, FadeInRange
<1>2. k \in 0..100
  BY DEF NUM_STEPS
<1> DEFINE s == steps(i)
<1>3. s \in Nat \ {0} /\ FadePeriod[i] < 50 * s + 50 /\ 2 * FadePeriod[i] <= Word /\ Word \in Nat
      /\ FadePeriod[i] \in Nat
  BY StepSize, FadeAssumption
<1>4. (k + 1) * s = k * s + s /\ (k - 1) * s = k * s - s
  BY <1>2, <1>3
<1>5. CASE pulse = k * s + s /\ pulse < FadePeriod[i]
  <2>1. (k + 1) * s < 100 * s
    BY <1>3, <1>4, <1>5, <1>2
  <2>2. \A n, m \in Nat : n * s < m * s => n < m
    BY <1>3
  <2>3. k + 1 \in 0..100
    BY <1>2, <2>1, <2>2
  <2>4. pulse = (k + 1) * s
    BY <1>4, <1>5
  <2>5. pulse \in 0..Word - 1
    BY <1>1, <1>3, <1>5
  <2> QED
    BY <1>5, <2>3, <2>4, <2>5 DEF NUM_STEPS
<1>6. CASE pulse = k * s - s /\ k > 0
  <2>1. k - 1 \in 0..100 /\ pulse = (k - 1) * s
    BY <1>2, <1>4, <1>6
  <2>2. pulse >= 0
    <3>1. \A n \in Nat : n * s >= 0
      BY <1>3
    <3> QED
      BY <2>1, <3>1
  <2>3. pulse = pulse_width[i] - s
    BY <1>6
  <2>4. pulse \in 0..Word - 1 /\ pulse < FadePeriod[i]
    <3> HIDE DEF s
    <3> QED
      BY <1>1, <1>3, <2>2, <2>3
  <2> QED
    BY <2>1, <2>4 DEF NUM_STEPS
<1> QED
  BY <1>5, <1>6

LEMMA FadeInitially == FadeInit => FadeInv
<1> SUFFICES ASSUME FadeInit PROVE FadeInv
  OBVIOUS
<1>1. FadeTypeOK
  BY FadeAssumption, StepSize DEF FadeInit, FadeTypeOK, FadeLeds
<1>2. FadeInRange
  <2>1. ASSUME NEW i \in FadeLeds
        PROVE  pulse_width[i] < FadePeriod[i] /\ pulse_width[i] = 0 * steps(i)
    BY StepSize DEF FadeInit
  <2> QED
    BY <2>1 DEF FadeInRange, NUM_STEPS
<1>3. NotDarkYet
  BY DEF FadeInit, NotDarkYet
<1> QED
  BY <1>1, <1>2, <1>3 DEF FadeInv

\* A pass of the loop's body over LED i changes only LED i, and as NextPulse says.
LEMMA FadeLed ==
    ASSUME FadeInv, NEW i \in FadeLeds, IF dirs[i] = 1 THEN Up(i) ELSE Down(i)
    PROVE  FadeInRange' /\ NotDarkYet'
           /\ pulse_width' \in [FadeLeds -> 0..Word - 1] /\ dirs' \in [FadeLeds -> {0, 1}]
<1>1. pulse_width \in [FadeLeds -> 0..Word - 1] /\ dirs \in [FadeLeds -> {0, 1}]
  BY DEF FadeInv, FadeTypeOK
<1>2. PICK k \in 0..2 * NUM_STEPS : pulse_width[i] = k * steps(i)
  BY DEF FadeInv, FadeInRange
<1>3. steps(i) \in Nat \ {0} /\ FadePeriod[i] \in Nat /\ 50 * steps(i) <= FadePeriod[i]
  BY StepSize
<1>4. pulse_width[i] \in Nat
  BY <1>1
<1>5. \A j \in FadeLeds : /\ pulse_width[j] < FadePeriod[j]
                          /\ \E n \in 0..2 * NUM_STEPS : pulse_width[j] = n * steps(j)
                          /\ dirs[j] = 0 => pulse_width[j] > 0
  BY DEF FadeInv, FadeInRange, NotDarkYet
<1>6. CASE UNCHANGED pulse_width
  <2>1. \/ dirs' = [dirs EXCEPT ![i] = 0] /\ pulse_width[i] + steps(i) >= FadePeriod[i]
        \/ dirs' = [dirs EXCEPT ![i] = 1]
        \/ dirs' = dirs
    BY <1>6, NoWrap DEF Up, Down
  <2>2. dirs' \in [FadeLeds -> {0, 1}]
    BY <1>1, <2>1
  <2>3. ASSUME NEW j \in FadeLeds, dirs'[j] = 0 PROVE pulse_width[j] > 0
    <3>1. CASE j = i /\ pulse_width[i] + steps(i) >= FadePeriod[i]
      <4>1. steps(i) < FadePeriod[i]
        BY <1>3
      <4> QED
        BY <1>3, <1>4, <3>1, <4>1
    <3>2. CASE dirs[j] = 0
      BY <1>5, <3>2
    <3> QED
      BY <1>1, <2>1, <2>3, <3>1, <3>2
  <2> QED
    BY <1>1, <1>5, <1>6, <2>2, <2>3 DEF FadeInRange, NotDarkYet
<1>7. CASE ~UNCHANGED pulse_width
  <2>1. PICK pulse :
          /\ pulse_width' = [pulse_width EXCEPT ![i] = pulse] /\ UNCHANGED dirs
          /\ \/ pulse = pulse_width[i] + steps(i) /\ pulse < FadePeriod[i]
             \/ pulse = pulse_width[i] - steps(i) /\ pulse > 0 /\ dirs[i] = 0
    <3>1. CASE dirs[i] = 1
      <4>1. /\ pulse_width' = [pulse_width EXCEPT ![i] = pulse_width[i] + steps(i)]
            /\ UNCHANGED dirs /\ ~(pulse_width[i] + steps(i) >= FadePeriod[i])
        BY <1>7, <3>1, NoWrap DEF Up
      <4>2. pulse_width[i] + steps(i) < FadePeriod[i]
        BY <1>3, <1>4, <4>1
      <4> QED
        BY <4>1, <4>2
    <3>2. CASE dirs[i] = 0
      <4>1. /\ pulse_width' = [pulse_width EXCEPT ![i] = pulse_width[i] - steps(i)]
            /\ UNCHANGED dirs /\ ~(pulse_width[i] - steps(i) <= 0)
        BY <1>7, <3>2, NoWrap DEF Down
      <4>2. pulse_width[i] - steps(i) > 0
        BY <1>3, <1>4, <4>1
      <4> QED
        BY <3>2, <4>1, <4>2
    <3> QED
      BY <1>1, <3>1, <3>2
  <2>2. pulse = pulse_width[i] - steps(i) /\ pulse > 0 => k > 0
    <3>1. k = 0 => k * steps(i) = 0
      BY <1>3
    <3> QED
      BY <1>2, <1>3, <3>1 DEF NUM_STEPS
  <2>3. /\ pulse \in 0..Word - 1 /\ pulse < FadePeriod[i]
        /\ \E n \in 0..2 * NUM_STEPS : pulse = n * steps(i)
    BY <1>2, <2>1, <2>2, NextPulse
  <2>4. pulse_width' \in [FadeLeds -> 0..Word - 1] /\ pulse_width'[i] = pulse
        /\ \A j \in FadeLeds \ {i} : pulse_width'[j] = pulse_width[j]
    BY <1>1, <2>1, <2>3
  <2>5. dirs[i] = 0 => pulse > 0
    BY <1>1, <1>3, <1>4, <1>5, <2>1
  <2> QED
    BY <1>1, <1>5, <2>1, <2>3, <2>4, <2>5 DEF FadeInRange, NotDarkYet
<1> QED
  BY <1>6, <1>7

LEMMA FadeStep == FadeInv /\ [FadeNext]_fadeVars => FadeInv'
<1> SUFFICES ASSUME FadeInv, [FadeNext]_fadeVars PROVE FadeInv'
  OBVIOUS
<1>0. fade_main \in {"init", "loop", "returned"} /\ fader \in FadeLeds /\ 0 \in FadeLeds
  BY FadeAssumption DEF FadeInv, FadeTypeOK, FadeLeds
<1>1. CASE FadeReady
  BY <1>1, <1>0 DEF FadeReady, FadeInv, FadeTypeOK, FadeInRange, NotDarkYet
<1>2. ASSUME NEW i \in FadeLeds, Fade(i) PROVE FadeInv'
  <2>1. fade_main' = fade_main /\ fader' \in FadeLeds
    BY <1>0, <1>2 DEF Fade
  <2>2. IF dirs[i] = 1 THEN Up(i) ELSE Down(i)
    BY <1>2 DEF Fade
  <2>3. FadeInRange' /\ NotDarkYet'
        /\ pulse_width' \in [FadeLeds -> 0..Word - 1] /\ dirs' \in [FadeLeds -> {0, 1}]
    BY <2>2, FadeLed
  <2> QED
    BY <1>0, <2>1, <2>3 DEF FadeInv, FadeTypeOK
<1>3. CASE UNCHANGED fadeVars
  BY <1>3 DEF fadeVars, FadeInv, FadeTypeOK, FadeInRange, NotDarkYet
<1> QED
  BY <1>1, <1>2, <1>3 DEF FadeNext

\* The inductive invariant holds in every state.
THEOREM FadeInvariance == FadeSpec => []FadeInv
BY FadeInitially, FadeStep, PTL DEF FadeSpec

\* Every pulse is a whole number of steps and shorter than its period: nothing
\* wraps, whatever the devicetree's periods are.
THEOREM FadeStaysInRange == FadeSpec => []FadeInRange
BY FadeInvariance, PTL DEF FadeInv

-----------------------------------------------------------------------------
(* The swept LED *)

\* Every variable of main_pwm_led.c keeps its type.
LEMMA SweepTyped == SweepSpec => []SweepTypeOK
<1>1. SweepInit => SweepTypeOK
  BY SweepAssumption DEF SweepInit, SweepTypeOK
<1>2. SweepTypeOK /\ [SweepNext]_sweepVars => SweepTypeOK'
  <2> SUFFICES ASSUME SweepTypeOK, [SweepNext]_sweepVars PROVE SweepTypeOK'
    OBVIOUS
  <2>1. CASE SweepReady \/ SetPwm \/ UNCHANGED sweepVars
    BY <2>1 DEF SweepTypeOK, SweepReady, SetPwm, sweepVars
  <2>2. CASE Calibrate
    <3>1. max_period \div 2 \in Nat
      BY DEF SweepTypeOK
    <3> QED
      BY <2>2, <3>1 DEF SweepTypeOK, Calibrate
  <2>3. CASE Sweep
    <3>1. period \div 2 \in Nat /\ (2 * period) % Word \in Nat /\ MinPeriod \in Nat
      <4>1. period \in Nat /\ Word \in Nat \ {0}
        BY SweepAssumption, FadeAssumption DEF SweepTypeOK
      <4> QED
        BY <4>1, SweepAssumption
    <3>2. /\ period' \in {period \div 2, (2 * period) % Word, max_period, MinPeriod}
          /\ dir' \in {0, 1, dir} /\ sweeper' = "set" /\ UNCHANGED <<longest, max_period>>
      BY <2>3 DEF Sweep
    <3> QED
      BY <3>1, <3>2 DEF SweepTypeOK
  <2> QED
    BY <2>1, <2>2, <2>3 DEF SweepNext
<1> QED
  BY <1>1, <1>2, PTL DEF SweepSpec

\* The period that was found is at least four times the shortest, and what the
\* sweep sets lies between the two.
SweepInv ==
    /\ sweeper # "returned" => max_period >= 4 * MinPeriod
    /\ sweeper \in {"set", "sleep"} => max_period <= longest /\ period \in MinPeriod..max_period

\* Every step keeps the sweep within the periods that the hardware takes.
LEMMA SweepKept == SweepTypeOK /\ SweepInv /\ [SweepNext]_sweepVars => SweepInv'
<1> SUFFICES ASSUME SweepTypeOK, SweepInv, [SweepNext]_sweepVars PROVE SweepInv'
  OBVIOUS
<1>0. /\ MinPeriod \in Nat \ {0} /\ max_period \in Nat /\ period \in Nat
      /\ longest \in Nat
  BY SweepAssumption DEF SweepTypeOK
<1>1. CASE SweepReady
  BY <1>1 DEF SweepInv, SweepReady
<1>2. CASE Calibrate
  <2>1. CASE max_period <= longest
    BY <1>0, <1>2, <2>1 DEF SweepInv, Calibrate
  <2>2. CASE max_period > longest
    <3>1. max_period \div 2 \in Nat
      BY <1>0
    <3>2. /\ max_period' = max_period \div 2
          /\ sweeper' = IF max_period' < 4 * MinPeriod THEN "returned" ELSE "calibrate"
      BY <1>0, <1>2, <2>2 DEF Calibrate
    <3> QED
      BY <1>0, <3>1, <3>2 DEF SweepInv
  <2> QED
    BY <1>0, <2>1, <2>2
<1>3. CASE SetPwm
  BY <1>3 DEF SweepInv, SetPwm
<1>4. CASE Sweep
  <2>1. /\ sweeper = "sleep" /\ sweeper' = "set"
        /\ period' \in {max_period, MinPeriod} \/ period' \in MinPeriod..max_period
        /\ UNCHANGED <<longest, max_period>>
    BY <1>4 DEF Sweep
  <2> QED
    BY <1>0, <2>1 DEF SweepInv
<1>5. CASE UNCHANGED sweepVars
  BY <1>5 DEF SweepInv, sweepVars
<1> QED
  BY <1>1, <1>2, <1>3, <1>4, <1>5 DEF SweepNext

\* Once calibrated the program does not end: every period that the sweep sets
\* is one the hardware takes, so that pwm_set_dt() reports no error, for every
\* hardware and although the period is doubled before it is compared.
THEOREM SweepIsNeverRefused == SweepSpec => [](sweeper = "set" => period \in MinPeriod..longest)
<1>1. SweepInit => SweepInv
  BY SweepAssumption DEF SweepInit, SweepInv
<1>2. SweepTypeOK /\ SweepInv => (sweeper = "set" => period \in MinPeriod..longest)
  BY SweepAssumption DEF SweepTypeOK, SweepInv
<1> QED
  BY <1>1, <1>2, SweepKept, SweepTyped, PTL DEF SweepSpec

-----------------------------------------------------------------------------
(* The board *)

\* A step of the board is a step of the image's program and nothing to the others.
LEMMA ImageStep ==
    [Next]_vars =>
        /\ [ThreadsNext]_threadsVars /\ [ToneNext]_toneVars /\ [CounterNext]_counterVars
        /\ [BlinkNext]_blinkVars /\ [FadeNext]_fadeVars /\ [SweepNext]_sweepVars
        /\ [TelemetryNext]_telemetryVars
<1> SUFFICES ASSUME [Next]_vars
             PROVE  /\ [ThreadsNext]_threadsVars /\ [ToneNext]_toneVars
                    /\ [CounterNext]_counterVars /\ [BlinkNext]_blinkVars /\ [FadeNext]_fadeVars
                    /\ [SweepNext]_sweepVars /\ [TelemetryNext]_telemetryVars
  OBVIOUS
<1>1. CASE UNCHANGED vars
  BY <1>1 DEF vars
<1>2. CASE Runs("main_thread", ThreadsNext)
  BY <1>2 DEF Runs
<1>3. CASE Runs("es8311_test", ToneNext)
  BY <1>3 DEF Runs
<1>4. CASE Runs("display", CounterNext)
  BY <1>4 DEF Runs
<1>5. CASE Runs("blink", BlinkNext)
  BY <1>5 DEF Runs
<1>6. CASE Runs("pwm_led_fade", FadeNext)
  BY <1>6 DEF Runs
<1>7. CASE Runs("pwm_led", SweepNext)
  BY <1>7 DEF Runs
<1>8. CASE Runs("mqtt", TelemetryNext)
  BY <1>8 DEF Runs
<1> QED
  BY <1>1, <1>2, <1>3, <1>4, <1>5, <1>6, <1>7, <1>8 DEF Next

\* The board runs every program as its own specification says.
LEMMA ImageRuns ==
    Spec => /\ ThreadsSpec /\ ToneSpec /\ CounterSpec /\ BlinkSpec /\ FadeSpec /\ SweepSpec
            /\ TelemetrySpec
BY ImageStep, PTL
   DEF Spec, Init, ThreadsSpec, ToneSpec, CounterSpec, BlinkSpec, FadeSpec, SweepSpec,
       TelemetrySpec

-----------------------------------------------------------------------------
\* Whatever image is on the board, every variable keeps its type.
THEOREM TypeCorrect == Spec => []TypeOK
<1>1. Init => image \in AllImages
  BY DEF Init
<1>2. image \in AllImages /\ [Next]_vars => (image \in AllImages)'
  BY DEF Next, Runs, vars
<1>3. Spec => [](image \in AllImages)
  BY <1>1, <1>2, PTL DEF Spec
<1>4. /\ (CounterInv => CounterTypeOK) /\ (BlinkInv => BlinkTypeOK)
      /\ (FadeInv => FadeTypeOK) /\ (TelemetryInv => TelemetryTypeOK)
  BY DEF CounterInv, BlinkInv, FadeInv, TelemetryInv
<1> QED
  BY <1>3, <1>4, ImageRuns, ThreadsTypeCorrect, ToneTypeCorrect, CounterInvariance,
     BlinkInvariance, FadeInvariance, SweepTyped, TelemetryInvariance, PTL DEF TypeOK

\* Every toggle of every LED is reported once, in order and without a gap.
THEOREM BoardLogsToggles == Spec => EveryToggleLogged
BY ImageRuns, ThreadsImplementLog, PTL

\* With a block for each LED and threads that finish their rounds in time, no
\* allocation fails.
THEOREM BoardHeapSuffices ==
    ASSUME Prompt, IsFiniteSet(Leds), IsFiniteSet(Blocks), Cardinality(Leds) <= Cardinality(Blocks)
    PROVE  Spec => []HeapSuffices
BY ImageRuns, HeapIsEnough, PTL

\* No buffer of the tone player is lost, freed twice or in two places, and the
\* composition is played to the note; the label follows the counter; an LED that
\* was switched off stays dark; no pulse wraps; identifiers in flight differ.
THEOREM BoardIsSafe ==
    Spec => []( BlocksInOnePlace /\ PlayedAsComposed /\ LabelCurrent /\ OffMeansOff /\ FadeInRange
                /\ DistinctInFlight)
BY ImageRuns, SlabConserved, PlaysTheComposition, LabelStaysCurrent, OffStaysOff, FadeStaysInRange,
   InFlightDistinct, PTL
==============================================================================
