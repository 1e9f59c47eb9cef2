--------------------------- MODULE CounterDisplay ---------------------------
(***************************************************************************)
(* applications/app_display/src/main.c, and app_lckfb/src/main.c, which is *)
(* the same program with a backlight: main() counts its passes and writes  *)
(* every hundredth to a label; a button's interrupt and the click on the   *)
(* label set the counter to 0.  The counter is shared with the interrupt   *)
(* without a lock, and ++count is a load and a store.                      *)
(***************************************************************************)
EXTENDS Naturals

CONSTANTS
    PassesPerStep,   \* 100: passes between two values of the label
    CountRange       \* 2^32: the values of a uint32_t

ASSUME CounterAssumption == PassesPerStep \in Nat \ {0} /\ CountRange \in Nat \ {0}

NoText == CountRange   \* before the first: no number main() writes

VARIABLES
    screen,        \* what main() does next
    button,        \* the button's interrupt is enabled
    count,
    loaded,        \* the register of ++count
    count_label,   \* the number in the label
    pressed        \* history: a press since the last ++count was complete

counterVars == <<screen, button, count, loaded, count_label, pressed>>

CounterTypeOK ==
    /\ screen \in {"boot", "blanking", "check", "handler", "load", "store", "sleep", "returned"}
    /\ button \in BOOLEAN /\ pressed \in BOOLEAN
    /\ count \in 0..CountRange - 1 /\ loaded \in 0..CountRange - 1
    /\ count_label \in 0..CountRange

CounterInit ==
    /\ screen = "boot" /\ button = FALSE /\ pressed = FALSE
    /\ count = 0 /\ loaded = 0 /\ count_label = NoText

Screen(from, to) == screen = from /\ screen' = to
-----------------------------------------------------------------------------
(* main() *)

\* The display, the button (left out when CONFIG_RESET_COUNTER_SW0 is not set
\* or its port is not ready) and the labels.
DisplayBoot ==
    /\ \/ Screen("boot", "blanking") /\ button' \in BOOLEAN
       \/ Screen("boot", "returned") /\ UNCHANGED button
    /\ UNCHANGED <<count, loaded, count_label, pressed>>

\* display_blanking_off(), whose result is not looked at, and in app_lckfb the
\* backlight, which may fail.
Backlight ==
    /\ \/ Screen("blanking", "check")
       \/ Screen("blanking", "returned")
    /\ UNCHANGED <<button, count, loaded, count_label, pressed>>

\* Mutant of Check: the label gets the counter itself.
ShowsPasses ==
    /\ Screen("check", "handler")
    /\ count_label' = IF count % PassesPerStep = 0 THEN count ELSE count_label
    /\ UNCHANGED <<button, count, loaded, pressed>>

\* The label is written.
Check ==
    /\ Screen("check", "handler")
    /\ count_label' = IF count % PassesPerStep = 0 THEN count \div PassesPerStep ELSE count_label
    /\ UNCHANGED <<button, count, loaded, pressed>>

\* lv_timer_handler(), from which lv_btn_click_callback() may be called.
Handler ==
    /\ Screen("handler", "load")
    /\ \/ UNCHANGED <<count, pressed>>
       \/ count' = 0 /\ pressed' = TRUE
    /\ UNCHANGED <<button, loaded, count_label>>

\* ++count
Load ==
    /\ Screen("load", "store")
    /\ loaded' = count
    /\ UNCHANGED <<button, count, count_label, pressed>>

Store ==
    /\ Screen("store", "sleep")
    /\ count' = (loaded + 1) % CountRange
    /\ UNCHANGED <<button, loaded, count_label, pressed>>

\* k_sleep(): the next pass begins.
NextPass ==
    /\ Screen("sleep", "check")
    /\ pressed' = FALSE
    /\ UNCHANGED <<button, count, loaded, count_label>>
-----------------------------------------------------------------------------
\* button_isr_callback(), at any time
Press ==
    /\ button /\ screen # "returned"
    /\ count' = 0 /\ pressed' = TRUE
    /\ UNCHANGED <<screen, button, loaded, count_label>>

CounterMain == DisplayBoot \/ Backlight \/ Check \/ Handler \/ Load \/ Store \/ NextPass

CounterNext == CounterMain \/ Press

CounterSpec == CounterInit /\ [][CounterNext]_counterVars
-----------------------------------------------------------------------------
(* Properties *)

\* While main() sleeps the label shows the counter's hundreds, whenever a press
\* or a click came, be it lost or not, and also when the counter has wrapped;
\* only during the first hundred passes after a reset, or a wrap, may it still
\* show the old number.
LabelCurrent ==
    screen = "sleep" =>
        count \in 0..PassesPerStep \/ count_label = (count - 1) \div PassesPerStep

\* A press of sw0 resets the counter: when the pass in which it came is over,
\* the counter is 0 or 1.  A press between the load and the store is lost.
ResetTakesEffect == screen = "sleep" /\ pressed => count \in {0, 1}
==============================================================================
