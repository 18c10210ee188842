----------------------------- MODULE AssemblerProofs -----------------------------
(***************************************************************************)
(* The two passes of the assembler agree (src/hexasm.hpp), for any program *)
(* and any width of a word.                                                *)
(***************************************************************************)
EXTENDS Assembler, FiniteSetTheorems, TLAPS

\* The length of an operand is a number, whatever the operand.
LEMMA SizeType == ASSUME NEW v PROVE Size(v) \in Nat
<1>. DEFINE Shifts == {n \in 1 .. WordNibbles - 1 : Abs(v) >= 16 ^ n}
<1>1. IsFiniteSet(1 .. WordNibbles - 1)
  BY WordAssumption, FS_Interval
<1>2. Cardinality(Shifts) \in Nat
  BY <1>1, FS_Subset, FS_CardinalityType
<1>. QED  BY <1>2 DEF Size, NumNibbles, NibblesOf

\* So is the length of a directive,
LEMMA SizeOfType ==
  ASSUME NEW d \in Directive, NEW v
  PROVE  SizeOf(d, v) \in Nat
BY SizeType DEF SizeOf

\* and an address after padding.
LEMMA AlignedType ==
  ASSUME NEW k, NEW address \in Nat
  PROVE  Aligned(k, address) \in Nat
BY DEF Aligned

--------------------------------------------------------------------------------
\* Where the directive after the first n is, before its padding.
After(n) == IF n = 0 THEN 0 ELSE offset[n] + SizeOf(program[n], operand[n])

\* The offsets of the first n directives follow from each other's and from the
\* operands as they are, which need not be the ones of the labels.
Chained(n) ==
  \A i \in 1 .. n : offset[i] = Aligned(program[i].kind, After(i - 1))

Shape ==
  /\ program \in Programs
  /\ index \in 1 .. Len(program) + 1
  /\ byteOffset \in Nat /\ lastSize \in Nat
  /\ {offset, emitted} \subseteq [1 .. Len(program) -> Nat]
  /\ DOMAIN operand = 1 .. Len(program)
  /\ phase \in {"resolve", "emit", "done", "error"}

\* A pass has chained what it has gone over; the last one everything.  What is
\* emitted so far is where it was resolved, and the sizes of the passes are equal.
PassInv ==
  /\ phase = "resolve" => Chained(index - 1) /\ byteOffset = After(index - 1)
  /\ phase = "emit" =>
       /\ Chained(Len(program))
       /\ lastSize = After(Len(program))
       /\ byteOffset = After(index - 1)
       /\ \A i \in 1 .. index - 1 : emitted[i] = offset[i]
  /\ phase = "done" =>
       /\ \A i \in 1 .. Len(program) : emitted[i] = offset[i]
       /\ byteOffset = 4 * ((lastSize + 3) \div 4)

IInv == Shape /\ PassInv

--------------------------------------------------------------------------------
\* A program has directives, all of them of a kind there is.
LEMMA ProgramFacts ==
  ASSUME Shape
  PROVE  /\ Len(program) \in Nat \ {0}
         /\ \A i \in 1 .. Len(program) : program[i] \in Directive
BY ProgramsAssumption DEF Shape

\* Addresses are numbers, so that the end of a program has one.
LEMMA AfterType ==
  ASSUME Shape, NEW n \in 0 .. Len(program)
  PROVE  After(n) \in Nat
<1>1. CASE n = 0
  BY <1>1 DEF After
<1>2. CASE n # 0
  <2>1. n \in 1 .. Len(program) /\ program[n] \in Directive /\ offset[n] \in Nat
    BY <1>2, ProgramFacts DEF Shape
  <2>2. SizeOf(program[n], operand[n]) \in Nat
    BY <2>1, SizeOfType
  <2>. QED  BY <1>2, <2>1, <2>2 DEF After
<1>. QED  BY <1>1, <1>2

\* Nothing has been chained at the beginning.
LEMMA ShapeInit == Init => IInv
<1>. SUFFICES ASSUME Init PROVE IInv
  OBVIOUS
<1>1. Shape
  <2>1. Len(program) \in Nat \ {0}
    BY ProgramsAssumption DEF Init
  <2>. QED  BY <2>1 DEF Init, Shape
<1>2. PassInv
  BY DEF Init, PassInv, Chained, After
<1>. QED  BY <1>1, <1>2 DEF IInv

--------------------------------------------------------------------------------
\* One iteration of a pass chains one directive more.
LEMMA ResolveStep ==
  ASSUME IInv, Resolve
  PROVE  IInv'
<1>. USE DEF IInv
<1>. DEFINE address == Aligned(Here.kind, byteOffset)
<1>1. /\ index \in 1 .. Len(program) /\ Len(program) \in Nat /\ index' = index + 1
      /\ phase = "resolve" /\ phase' = phase /\ program' = program
  BY ProgramFacts DEF Resolve, Shape
<1>2. program[index] \in Directive /\ byteOffset \in Nat /\ address \in Nat
  BY <1>1, ProgramFacts, AlignedType DEF Shape
<1>3. SizeOf(program[index], operand'[index]) \in Nat
  BY <1>2, SizeOfType
<1>4. /\ offset' = [offset EXCEPT ![index] = address]
      /\ byteOffset' = address + SizeOf(program[index], operand'[index])
      /\ lastSize' = lastSize /\ emitted' = emitted
  BY DEF Resolve, Here
<1>5. /\ DOMAIN operand' = 1 .. Len(program)
      /\ \A i \in 1 .. Len(program) : i # index => operand'[i] = operand[i]
  BY DEF Resolve, Shape
<1>6. Shape'
  BY SMTT(30), <1>1, <1>2, <1>3, <1>4, <1>5 DEF Shape
<1>7. \A n \in 0 .. index - 1 : After(n)' = After(n)
  BY <1>1, <1>4, <1>5 DEF After, Shape
<1>8. ASSUME NEW n, n = index PROVE byteOffset' = After(n)'
  BY <1>1, <1>4, <1>8 DEF After, Shape
<1>9. ASSUME NEW n, n = index PROVE Chained(n)'
  <2>. SUFFICES ASSUME NEW i \in 1 .. index
                PROVE  offset'[i] = Aligned(program[i].kind, After(i - 1)')
    BY <1>1, <1>9 DEF Chained
  <2>1. After(i - 1)' = After(i - 1)
    BY <1>1, <1>7
  <2>2. CASE i = index
    BY <1>1, <1>4, <2>1, <2>2 DEF PassInv, Here, Shape
  <2>3. CASE i # index
    BY SMTT(30), <1>1, <1>4, <2>1, <2>3 DEF PassInv, Chained, Shape
  <2>. QED  BY <2>2, <2>3
<1>10. PassInv'
  BY <1>1, <1>8, <1>9 DEF PassInv
<1>. QED  BY <1>6, <1>10

\* The last pass has chained the whole program, and its size is the one before.
LEMMA EndPassStep ==
  ASSUME IInv, EndPass
  PROVE  IInv'
<1>. USE DEF IInv
<1>1. /\ index = Len(program) + 1 /\ Len(program) \in Nat \ {0}
      /\ phase = "resolve" /\ phase' \in {"resolve", "emit"}
      /\ phase' = "emit" => lastSize = byteOffset
      /\ lastSize' = byteOffset /\ byteOffset' = 0 /\ index' = 1
      /\ UNCHANGED <<program, operand, offset, emitted>>
  BY ProgramFacts DEF EndPass, NextLastSize, Shape
<1>2. Shape'
  BY <1>1 DEF Shape
<1>3. \A n : After(n)' = After(n)
  BY <1>1 DEF After
<1>4. Chained(Len(program)) /\ byteOffset = After(Len(program))
  BY <1>1 DEF PassInv
<1>5. Chained(0)' /\ After(0)' = 0
  BY DEF Chained, After
<1>6. Chained(Len(program))'
  BY <1>1, <1>3, <1>4 DEF Chained
<1>. QED  BY <1>1, <1>2, <1>3, <1>4, <1>5, <1>6 DEF PassInv

\* A directive is emitted where it was resolved.
LEMMA EmitStep ==
  ASSUME IInv, Emit
  PROVE  IInv'
<1>. USE DEF IInv
<1>1. /\ index \in 1 .. Len(program) /\ Len(program) \in Nat /\ index' = index + 1
      /\ phase = "emit" /\ phase' = phase
      /\ UNCHANGED <<program, operand, offset, lastSize>>
  BY ProgramFacts DEF Emit, Shape
<1>2. Aligned(Here.kind, byteOffset) = offset[index]
  BY <1>1 DEF PassInv, Chained, Here
<1>3. /\ emitted' = [emitted EXCEPT ![index] = offset[index]]
      /\ byteOffset' = After(index)
  BY <1>1, <1>2 DEF Emit, PaddedTo, Here, After
<1>4. After(index) \in Nat
  BY <1>1, AfterType
<1>5. Shape'
  BY <1>1, <1>3, <1>4 DEF Shape
<1>6. \A n : After(n)' = After(n)
  BY <1>1 DEF After
<1>7. Chained(Len(program))'
  BY <1>1, <1>6 DEF PassInv, Chained
<1>8. \A i \in 1 .. index : emitted'[i] = offset[i]
  BY <1>1, <1>3 DEF PassInv, Shape
<1>. QED  BY <1>1, <1>3, <1>5, <1>6, <1>7, <1>8 DEF PassInv

\* The padding fills up the last word.
LEMMA PadStep ==
  ASSUME IInv, Pad
  PROVE  IInv'
<1>. USE DEF IInv
<1>1. /\ index = Len(program) + 1 /\ Len(program) \in Nat
      /\ phase = "emit" /\ phase' = "done"
      /\ UNCHANGED <<program, operand, offset, index, lastSize, emitted>>
  BY ProgramFacts DEF Pad, Shape
<1>2. byteOffset' = 4 * ((lastSize + 3) \div 4)
  BY <1>1 DEF Pad, PassInv, Shape
<1>3. Shape'
  BY <1>1, <1>2 DEF Shape
<1>. QED  BY <1>1, <1>2, <1>3 DEF PassInv

--------------------------------------------------------------------------------
\* The inductive invariant holds in every state.
LEMMA IInvCorrect == Spec => []IInv
<1>1. IInv /\ [Next]_vars => IInv'
  <2>. SUFFICES ASSUME IInv, [Next]_vars PROVE IInv'
    OBVIOUS
  <2>1. CASE Resolve
    BY <2>1, ResolveStep
  <2>2. CASE UnknownLabel
    BY <2>2 DEF UnknownLabel, IInv, Shape, PassInv
  <2>3. CASE EndPass
    BY <2>3, EndPassStep
  <2>4. CASE Emit
    BY <2>4, EmitStep
  <2>5. CASE Pad
    BY <2>5, PadStep
  <2>6. CASE UNCHANGED vars
    BY <2>6 DEF vars, IInv, Shape, PassInv, Chained, After
  <2>. QED  BY <2>1, <2>2, <2>3, <2>4, <2>5, <2>6 DEF Next, Ended
<1>. QED  BY <1>1, ShapeInit, PTL DEF Spec

\* The two passes over a program (resolveLabels, emitProgramBin) agree on where
\* everything is, for every program there is, and its image is as long as it says.
THEOREM EmissionCorrect == Spec => []EmittedWhereResolved
<1>1. IInv => EmittedWhereResolved
  <2>. SUFFICES ASSUME IInv, phase = "done" PROVE EmittedWhereResolved
    BY DEF EmittedWhereResolved
  <2>1. emitted = offset
    BY DEF IInv, Shape, PassInv
  <2>2. byteOffset = 4 * ((lastSize + 3) \div 4) /\ byteOffset % 4 = 0
    BY DEF IInv, Shape, PassInv
  <2>. QED  BY <2>1, <2>2 DEF EmittedWhereResolved
<1>. QED  BY <1>1, IInvCorrect, PTL
================================================================================
