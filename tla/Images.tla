-------------------------------- MODULE Images --------------------------------
(***************************************************************************)
(* The applications whose sources are alternatives: each is an image of    *)
(* its own, chosen by the lines of its CMakeLists.txt that are not         *)
(* commented out, and a board runs one of them.  Their modules share       *)
(* nothing but the board.                                                  *)
(***************************************************************************)
EXTENDS FifoBlink, TonePlayer, CounterDisplay, BlinkLed, PwmLeds, MqttTelemetry

VARIABLE image    \* the image on the board

vars == <<image, threadsVars, toneVars, counterVars, blinkVars, fadeVars, sweepVars,
          telemetryVars>>

AllImages == {"main_thread", "es8311_test", "display", "blink", "pwm_led_fade", "pwm_led",
              "mqtt"}

TypeOK ==
    /\ image \in AllImages
    /\ ThreadsTypeOK /\ ToneTypeOK /\ CounterTypeOK /\ BlinkTypeOK
    /\ FadeTypeOK /\ SweepTypeOK /\ TelemetryTypeOK

Init ==
    /\ image \in AllImages
    /\ ThreadsInit /\ ToneInit /\ CounterInit /\ BlinkInit
    /\ FadeInit /\ SweepInit /\ TelemetryInit

\* A step of image i: the other programs are not on the board.
Runs(i, Step) ==
    /\ image = i /\ Step
    /\ i # "main_thread" => UNCHANGED threadsVars
    /\ i # "es8311_test" => UNCHANGED toneVars
    /\ i # "display" => UNCHANGED counterVars
    /\ i # "blink" => UNCHANGED blinkVars
    /\ i # "pwm_led_fade" => UNCHANGED fadeVars
    /\ i # "pwm_led" => UNCHANGED sweepVars
    /\ i # "mqtt" => UNCHANGED telemetryVars
    /\ UNCHANGED image

Next ==
    \/ Runs("main_thread", ThreadsNext)
    \/ Runs("es8311_test", ToneNext)
    \/ Runs("display", CounterNext)
    \/ Runs("blink", BlinkNext)
    \/ Runs("pwm_led_fade", FadeNext)
    \/ Runs("pwm_led", SweepNext)
    \/ Runs("mqtt", TelemetryNext)

\* Every thread that is ready gets to run and time goes on.  In the programs of
\* one thread a step is all that is asked for.
Fairness ==
    /\ \A l \in Leds : WF_vars(Runs("main_thread", Blink(l)))
    /\ WF_vars(Runs("main_thread", UartOut))
    /\ WF_vars(Runs("main_thread", Tick))
    /\ WF_vars(\/ Runs("es8311_test", ToneNext)
               \/ Runs("blink", BlinkNext)
               \/ Runs("pwm_led_fade", FadeNext)
               \/ Runs("pwm_led", SweepNext))

Spec == Init /\ [][Next]_vars /\ Fairness
==============================================================================
