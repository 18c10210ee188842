------------------------------ MODULE MCCrossCheck ------------------------------
(***************************************************************************)
(* The networks of MCHexTb for CrossCheck.                                 *)
(***************************************************************************)
EXTENDS CrossCheck, MCHexTb
================================================================================
