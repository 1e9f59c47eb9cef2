------------------------------- MODULE PwmLeds -------------------------------
(***************************************************************************)
(* The two PWM applications of applications/app: main_pwm_led_fade.c fades *)
(* every LED up and down by its pulse width, main_pwm_led.c looks for the  *)
(* longest period the hardware takes and then sweeps the period.  Both     *)
(* compute with 32-bit unsigned numbers.  Each is an image of its own.     *)
(***************************************************************************)
EXTENDS Naturals

CONSTANTS
    FadeCount,    \* ARRAY_SIZE(pwm_leds)
    FadePeriod,   \* period of each LED, from the devicetree
    Word,         \* 2^32: the values of a uint32_t
    MinPeriod,    \* MIN_PERIDO
    MaxPeriod,    \* MAX_PERIDO, a second
    Longest       \* the longest periods the hardware may take

NUM_STEPS == 50
FadeLeds == 0..FadeCount - 1

\* With less than NUM_STEPS nanoseconds the step is 0 and the LED stays dark.
ASSUME FadeAssumption ==
    /\ FadeCount \in Nat \ {0} /\ Word \in Nat
    /\ FadePeriod \in [FadeLeds -> NUM_STEPS..(Word \div 2)]

\* The shortest period is the 128th part of the longest.
ASSUME SweepAssumption ==
    /\ MinPeriod \in Nat \ {0} /\ MaxPeriod \in Nat /\ 2 * MaxPeriod < Word
    /\ 4 * MinPeriod <= MaxPeriod
    /\ Longest \subseteq Nat

VARIABLES
    fade_main,     \* what main_pwm_led_fade.c does next
    fader,         \* the LED its loop is at: i
    pulse_width,
    dirs           \* 1 up, 0 down

fadeVars == <<fade_main, fader, pulse_width, dirs>>

VARIABLES
    sweeper,       \* what main_pwm_led.c does next
    longest,       \* external: the longest period this hardware takes
    max_period,
    period,
    dir            \* 1 down, 0 up

sweepVars == <<sweeper, longest, max_period, period, dir>>

FadeTypeOK ==
    /\ fade_main \in {"init", "loop", "returned"} /\ fader \in FadeLeds
    /\ pulse_width \in [FadeLeds -> 0..Word - 1] /\ dirs \in [FadeLeds -> {0, 1}]

SweepTypeOK ==
    /\ sweeper \in {"init", "calibrate", "set", "sleep", "returned"}
    /\ longest \in Longest \cup {0} /\ max_period \in Nat /\ period \in Nat /\ dir \in {0, 1}
-----------------------------------------------------------------------------
(* main_pwm_led_fade.c *)

steps(i) == FadePeriod[i] \div NUM_STEPS

FadeInit ==
    /\ fade_main = "init" /\ fader = 0
    /\ pulse_width = [i \in FadeLeds |-> 0] /\ dirs = [i \in FadeLeds |-> 1]

\* pwm_is_ready_dt() of every LED.
FadeReady ==
    /\ fade_main = "init" /\ fade_main' \in {"loop", "returned"}
    /\ UNCHANGED <<fader, pulse_width, dirs>>

\* Mutant of Up: the pulse width is compared before the step is added.
UpTooFar(i) ==
    IF pulse_width[i] >= FadePeriod[i]
    THEN dirs' = [dirs EXCEPT ![i] = 0] /\ UNCHANGED pulse_width
    ELSE pulse_width' = [pulse_width EXCEPT ![i] = (@ + steps(i)) % Word] /\ UNCHANGED dirs

\* Mutant of Up: the direction is not turned.
UpForEver(i) ==
    /\ pulse_width' =
          IF (pulse_width[i] + steps(i)) % Word >= FadePeriod[i] THEN pulse_width
          ELSE [pulse_width EXCEPT ![i] = (@ + steps(i)) % Word]
    /\ UNCHANGED dirs

Up(i) ==
    IF (pulse_width[i] + steps(i)) % Word >= FadePeriod[i]
    THEN dirs' = [dirs EXCEPT ![i] = 0] /\ UNCHANGED pulse_width
    ELSE pulse_width' = [pulse_width EXCEPT ![i] = (@ + steps(i)) % Word] /\ UNCHANGED dirs

\* The difference is unsigned: <= 0 holds only when it is 0.
Down(i) ==
    LET difference == (pulse_width[i] + Word - steps(i)) % Word
    IN  IF difference <= 0
        THEN dirs' = [dirs EXCEPT ![i] = 1] /\ UNCHANGED pulse_width
        ELSE pulse_width' = [pulse_width EXCEPT ![i] = difference] /\ UNCHANGED dirs

\* The loop's body; pwm_set_pulse_dt()'s error is logged.  After the last LED
\* the loop sleeps and starts again.
Fade(i) ==
    /\ fade_main = "loop" /\ UNCHANGED fade_main
    /\ fader = i /\ fader' = IF i + 1 \in FadeLeds THEN i + 1 ELSE 0
    /\ IF dirs[i] = 1 THEN Up(i) ELSE Down(i)

FadeNext == FadeReady \/ \E i \in FadeLeds : Fade(i)

FadeSpec == FadeInit /\ [][FadeNext]_fadeVars
-----------------------------------------------------------------------------
(* main_pwm_led.c *)

SweepInit ==
    /\ sweeper = "init" /\ longest = 0
    /\ max_period = MaxPeriod /\ period = 0 /\ dir = 0

\* pwm_is_ready_dt()
SweepReady ==
    /\ sweeper = "init" /\ sweeper' \in {"calibrate", "returned"}
    /\ longest' \in Longest
    /\ UNCHANGED <<max_period, period, dir>>

\* The loop that halves the period until it is taken.
Calibrate ==
    /\ sweeper = "calibrate"
    /\ \/ /\ max_period <= longest
          /\ sweeper' = "set" /\ period' = max_period /\ UNCHANGED max_period
       \/ /\ max_period > longest
          /\ max_period' = max_period \div 2
          /\ sweeper' = IF max_period' < 4 * MinPeriod THEN "returned" ELSE "calibrate"
          /\ UNCHANGED period
    /\ UNCHANGED <<longest, dir>>

\* pwm_set_dt(): an error ends the program.
SetPwm ==
    /\ sweeper = "set"
    /\ sweeper' = IF period <= longest THEN "sleep" ELSE "returned"
    /\ UNCHANGED <<longest, max_period, period, dir>>

\* Mutant of Sweep: without the clamp the period is doubled on.
SweepUnclamped ==
    /\ sweeper = "sleep" /\ sweeper' = "set"
    /\ LET next == IF dir = 1 THEN period \div 2 ELSE (2 * period) % Word
       IN  \/ next > max_period /\ period' = next /\ dir' = 1
           \/ next < MinPeriod /\ period' = MinPeriod /\ dir' = 0
           \/ next \in MinPeriod..max_period /\ period' = next /\ UNCHANGED dir
    /\ UNCHANGED <<longest, max_period>>

\* The next period, and 3 s of sleep.
Sweep ==
    /\ sweeper = "sleep" /\ sweeper' = "set"
    /\ LET next == IF dir = 1 THEN period \div 2 ELSE (2 * period) % Word
       IN  \/ next > max_period /\ period' = max_period /\ dir' = 1
           \/ next < MinPeriod /\ period' = MinPeriod /\ dir' = 0
           \/ next \in MinPeriod..max_period /\ period' = next /\ UNCHANGED dir
    /\ UNCHANGED <<longest, max_period>>

SweepNext == SweepReady \/ Calibrate \/ SetPwm \/ Sweep

SweepSpec == SweepInit /\ [][SweepNext]_sweepVars
-----------------------------------------------------------------------------
(* Properties *)

\* The unsigned arithmetic never leaves the range: a pulse is a whole number of
\* steps and shorter than its LED's period, whether or not the period is a
\* multiple of 50, so that the subtraction cannot wrap.
FadeInRange ==
    \A i \in FadeLeds :
        /\ pulse_width[i] < FadePeriod[i]
        /\ \E k \in 0..2 * NUM_STEPS : pulse_width[i] = k * steps(i)

\* Every LED fades in and out again and again.
FadesForEver ==
    fade_main = "loop" ~>
        \A i \in FadeLeds : []<>(pulse_width[i] = steps(i))
                            /\ []<>(pulse_width[i] + steps(i) >= FadePeriod[i])

\* Once a longest period is found the program does not end: no period of the
\* sweep is refused, and both ends of it are reached again and again.
SweepsForEver ==
    sweeper = "set" ~> []<>(period = max_period) /\ []<>(period = MinPeriod)
==============================================================================
