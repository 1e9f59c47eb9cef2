------------------------------ MODULE BlinkLed ------------------------------
(***************************************************************************)
(* The blink driver (drivers/blink/gpio_led.c, include/app/drivers/blink.h)*)
(* and its application (applications/app/src/main.c), which lowers the     *)
(* LED's period at every rising edge of a value it reads.  Reading it is   *)
(* commented out: the value is a variable nothing is assigned to, and what *)
(* it holds is arbitrary in every pass.                                    *)
(*                                                                         *)
(* Time is counted in units of 100 ms: the pass of main(), and the step of *)
(* the period.  The processor is idle most of the time: time passes when   *)
(* main() sleeps and no timer is due.                                      *)
(***************************************************************************)
EXTENDS Naturals

CONSTANT
    BLINK_PERIOD_MAX   \* BLINK_PERIOD_MS_MAX, in units; the step is one unit

ASSUME BlinkAssumption == BLINK_PERIOD_MAX \in Nat \ {0}

VARIABLES
    blinker,      \* what main() does next
    dev,          \* state of the device: "uninitialized", "ready" or "failed"
    timer,        \* the timer's period, 0 when it is stopped
    due,          \* time left until it expires
    led,          \* the LED is lit
    period_ms,    \* in units
    last_val,     \* last_val.val1
    ret           \* what the last blink_set_period_ms() returned is 0

driverVars == <<dev, timer, due, led>>
blinkVars == <<blinker, driverVars, period_ms, last_val, ret>>

BlinkTypeOK ==
    /\ blinker \in {"init", "first", "pass", "off", "sleep", "returned"}
    /\ dev \in {"uninitialized", "ready", "failed"}
    /\ timer \in 0..BLINK_PERIOD_MAX /\ due \in 0..BLINK_PERIOD_MAX
    /\ led \in BOOLEAN /\ ret \in BOOLEAN
    /\ period_ms \in 0..BLINK_PERIOD_MAX
    /\ last_val \in {0, 1}

BlinkInit ==
    /\ blinker = "init" /\ dev = "uninitialized"
    /\ timer = 0 /\ due = 0 /\ led = FALSE
    /\ period_ms = BLINK_PERIOD_MAX /\ last_val = 0 /\ ret = TRUE

Blinker(from, to) == blinker = from /\ blinker' = to

\* k_timer_start()
TimerStart(p) == timer' = p /\ due' = p
-----------------------------------------------------------------------------
(* The driver *)

\* blink_gpio_led_init(), before main(): the devicetree's blink-period-ms is 1000.
InitDriver ==
    /\ Blinker("init", "first")
    /\ \/ dev' = "failed" /\ UNCHANGED <<timer, due>>
       \/ dev' = "ready" /\ TimerStart(BLINK_PERIOD_MAX)
    /\ UNCHANGED <<led, period_ms, last_val, ret>>

\* Mutant of OnTimerExpire: the timer is a single shot.
ExpireOnce ==
    /\ timer > 0 /\ due = 0
    /\ timer' = 0 /\ led' \in {led, ~led}
    /\ UNCHANGED <<blinker, dev, due, period_ms, last_val, ret>>

\* blink_gpio_led_on_timer_expire(): a toggle that fails is logged.
OnTimerExpire ==
    /\ timer > 0 /\ due = 0
    /\ due' = timer /\ led' \in {led, ~led}
    /\ UNCHANGED <<blinker, dev, timer, period_ms, last_val, ret>>

\* Mutant of SetPeriod: the timer is left running.
KeepTimer(p) ==
    /\ IF p = 0 THEN UNCHANGED <<timer, due>> ELSE TimerStart(p)
    /\ UNCHANGED led

\* blink_gpio_led_set_period_ms() up to the call of the GPIO driver.
SetPeriod(p) ==
    /\ IF p = 0 THEN timer' = 0 /\ due' = 0 ELSE TimerStart(p)
    /\ UNCHANGED led

\* gpio_pin_set_dt() of the LED at period 0; its result is returned.
SwitchOff ==
    /\ Blinker("off", "sleep")
    /\ \/ ret' = TRUE /\ led' = FALSE
       \/ ret' = FALSE /\ UNCHANGED led
    /\ UNCHANGED <<dev, timer, due, period_ms, last_val>>
-----------------------------------------------------------------------------
(* main() *)

\* device_is_ready() and the first blink_set_period_ms(), which does not fail
\* with a period above 0.
FirstPeriod ==
    /\ \/ /\ dev = "ready"
          /\ Blinker("first", "pass") /\ SetPeriod(period_ms)
       \/ /\ dev = "failed"
          /\ Blinker("first", "returned") /\ UNCHANGED <<timer, due, led>>
    /\ UNCHANGED <<dev, period_ms, last_val, ret>>

\* A pass: the result of blink_set_period_ms() is not looked at.
Pass ==
    /\ \E val \in {0, 1} :
        /\ last_val' = val
        /\ IF last_val = 0 /\ val = 1
           THEN /\ period_ms' = IF period_ms = 0 THEN BLINK_PERIOD_MAX ELSE period_ms - 1
                /\ SetPeriod(period_ms')
                /\ Blinker("pass", IF period_ms' = 0 THEN "off" ELSE "sleep")
                /\ ret' = TRUE
           ELSE Blinker("pass", "sleep") /\ UNCHANGED <<period_ms, timer, due, led, ret>>
    /\ UNCHANGED dev

\* k_sleep(): 100 ms pass, for the timer too.
BlinkTick ==
    /\ Blinker("sleep", "pass")
    /\ timer > 0 => due > 0
    /\ due' = IF due > 0 THEN due - 1 ELSE 0
    /\ UNCHANGED <<dev, timer, led, period_ms, last_val, ret>>

BlinkMain == InitDriver \/ FirstPeriod \/ Pass \/ SwitchOff \/ BlinkTick

BlinkNext == BlinkMain \/ OnTimerExpire

BlinkSpec == BlinkInit /\ [][BlinkNext]_blinkVars
-----------------------------------------------------------------------------
(* Properties *)

\* A period of 0 that was set without an error leaves the LED dark until another
\* period is set, although the timer may have been due at that very moment.
OffMeansOff == blinker \in {"pass", "sleep"} /\ period_ms = 0 /\ ret => ~led

\* The LED's timer expires again and again unless the LED is off for good or
\* was never had: starting it anew in every other pass does not hold it up.
BlinksUntilOff ==
    <>[](dev # "ready" \/ period_ms = 0) \/ []<><<OnTimerExpire>>_blinkVars
==============================================================================
