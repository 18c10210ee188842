-------------------------------- MODULE MCRouter --------------------------------
(***************************************************************************)
(* Small routers for RouterEnv.                                            *)
(***************************************************************************)
EXTENDS RouterEnv

TaggedFlit == [src : Port, tag : Tag]

AllPorts == Port

FirstTwo == {0, 1}
================================================================================
