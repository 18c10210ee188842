-------------------------------- MODULE Encoding --------------------------------
(***************************************************************************)
(* How an operand becomes bytes.  The assembler (src/hexasm.hpp) emits an *)
(* instruction with as many nibbles as its operand needs, all but the last *)
(* in PFIX and NFIX prefixes; the processor collects them in oreg          *)
(* (src/hexsim.hpp, rtl/processor.sv): see Isa.  A word has WordNibbles    *)
(* nibbles: 8 in the code, fewer where every word is to be looked at.      *)
(***************************************************************************)
EXTENDS Integers, Sequences, FiniteSets

CONSTANT WordNibbles

\* NFIX sets all bits above the lowest eight.
ASSUME WordAssumption == WordNibbles \in Nat /\ WordNibbles >= 2

WordSize == 16 ^ WordNibbles

MinInt == -(WordSize \div 2)

Int32 == MinInt .. WordSize \div 2 - 1

--------------------------------------------------------------------------------
\* std::abs; of MinInt it is undefined, and MinInt is what the builds produce.
Abs(v) == IF v < 0 /\ v # MinInt THEN -v ELSE v

\* The length of a positive number in nibbles: one more than the times it can be
\* shifted before it is less than 16.
NibblesOf(v) == 1 + Cardinality({n \in 1 .. WordNibbles - 1 : v >= 16 ^ n})

NumNibbles_NoSign(v) == NibblesOf(Abs(v))

NumNibbles(v) == IF v < 0 /\ Abs(v) < 16 THEN 2 ELSE NibblesOf(Abs(v))

\* getSize of an instruction with operand v.
Size(v) == IF v < 0 /\ NumNibbles(v) = 1 THEN 2 ELSE NumNibbles(v)

Nibble(v, i) == (v \div 16 ^ i) % 16

\* What byte i, not the last, of an instruction with operand v is.
Prefix_Positive(v, i) == "PFIX"

Prefix(v, i) == IF i = 1 /\ v < 0 THEN "NFIX" ELSE "PFIX"
================================================================================
