--------------------------------- MODULE MCIsa ---------------------------------
(***************************************************************************)
(* Words of 16 bits: operands of every length, and bodies of two bytes,   *)
(* which may be any two instructions.                                      *)
(***************************************************************************)
EXTENDS Isa

Source(a, b, body) == [a |-> a, b |-> b, body |-> body]

\* Operands of either sign, about every boundary of their length.
Boundaries == {0} \cup {sign * 16 ^ n : sign \in {-1, 1}, n \in 1 .. 3} \cup {MinInt, -MinInt}

Operands == {v \in Int32 : \E edge \in Boundaries : v - edge \in -33 .. 33}

AllOperands == {Source(v, -1 - v, <<>>) : v \in Operands}

\* The nibbles of the body: small ones, 11 for an address of the data, 15 for the signs.
BodyByte == {16 * op + nibble : op \in 0 .. 15, nibble \in {0, 1, 3, 11, 15}}

Bodies == {<<x, y>> : x \in BodyByte, y \in BodyByte}

AllBodies ==
  {Source(v[1], v[2], body) : v \in {<<0, 1>>, <<1, 12>>, <<2, -12>>, <<-3, 9>>}, body \in Bodies}

\* STAM 1 moves the stack; LDAC 2 and SVC are a READ, of which the word is before,
\* among or behind the instructions.
AllReads == {Source(sp, 1, <<33, 50, x>>) : sp \in 1 .. 8, x \in BodyByte}

MCPrograms == AllOperands \cup AllBodies \cup AllReads
================================================================================
