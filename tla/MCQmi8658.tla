----------------------------- MODULE MCQmi8658 -----------------------------
(* Qmi8658 with the settings a devicetree may hold, and a few to ask for:  *)
(* a rate just above a supported one, rates that only fit an int (one of   *)
(* them negative), and full scales the test of applications/app_lckfb      *)
(* sets; EIO and ETIMEDOUT on the bus.                                     *)
EXTENDS Qmi8658

MCDtHz == [accel |-> 1000, gyro |-> 25]
MCDtFs == [accel |-> 16, gyro |-> 512]
MCAskedHz == {51, 65636, -65311}
MCBusErrors == {5, 116}
MCAskedFs == [accel |-> {19, 40}, gyro |-> {1024}]
============================================================================
