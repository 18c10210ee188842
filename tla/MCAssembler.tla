------------------------------- MODULE MCAssembler -------------------------------
(***************************************************************************)
(* Small programs for Assembler.                                           *)
(***************************************************************************)
EXTENDS Assembler

CONSTANTS A, B

Lab(l) == [kind |-> "LABEL", arg |-> l]

Rel(l) == [kind |-> "RELATIVE", arg |-> l]

Absolute(l) == [kind |-> "ABSOLUTE", arg |-> l]

Imm(v) == [kind |-> "IMMEDIATE", arg |-> v]

Data == [kind |-> "DATA", arg |-> 0]

--------------------------------------------------------------------------------
\* Instructions of one and of four bytes, that a reference at the beginning may
\* have between it and its label in such a number that it is of one or two
\* bytes, and a second branch among them.
MixedPrograms ==
  {<<r>> \o g :
     r \in {Rel(A), Absolute(A)},
     g \in [1 .. 5 -> {Lab(A), Lab(B), Rel(A), Rel(B), Imm(0), Imm(-5000), Data}]}
================================================================================
