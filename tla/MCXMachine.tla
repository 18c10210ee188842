------------------------------- MODULE MCXMachine -------------------------------
(***************************************************************************)
(* XMachine with what there is to read.                                    *)
(***************************************************************************)
EXTENDS XMachine, MCXPrograms

MCInputs ==
  [source \in {<<"console", 0>>} \cup ({"file"} \X (0 .. 3)) \cup ({"channel"} \X (0 .. 3)) |->
     IF source[1] = "channel" THEN <<21, 22>> ELSE <<source[2] + 10>>]
================================================================================
