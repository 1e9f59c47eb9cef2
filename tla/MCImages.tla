------------------------------- MODULE MCImages -------------------------------
(***************************************************************************)
(* Constants of the run of Images.                                         *)
(***************************************************************************)
EXTENDS Images, TLC

MCSleepTime == 0 :> 10 @@ 1 :> 1
MCPeriods == 0 :> 1000 @@ 1 :> 99
==============================================================================
