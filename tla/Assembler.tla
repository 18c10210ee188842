-------------------------------- MODULE Assembler --------------------------------
(***************************************************************************)
(* The code generator of the assembler (src/hexasm.hpp).  An instruction   *)
(* that names a label is as long as the distance to it requires, and the   *)
(* distance depends on the lengths: resolveLabels goes over the program    *)
(* until its size does not change.  emitProgramBin then goes over it once  *)
(* more, to write it, and finds its own way past the padding of DATA.      *)
(*                                                                         *)
(* A directive is a record [kind, arg].  arg is the label of LABEL (FUNC   *)
(* and PROC are labels too), RELATIVE and ABSOLUTE, and the operand of an  *)
(* IMMEDIATE.                                                              *)
(***************************************************************************)
EXTENDS Encoding

CONSTANTS
  Label,
  Programs     \* the programs to assemble, as parsed

Directive ==
  [kind : {"LABEL", "RELATIVE", "ABSOLUTE"}, arg : Label]
  \cup [kind : {"IMMEDIATE", "DATA"}, arg : Int]

\* A program without directives makes getProgramSize look at its last one.
ASSUME ProgramsAssumption ==
  \A g \in Programs : g # <<>> /\ \A i \in 1 .. Len(g) : g[i] \in Directive

VARIABLES
  program,
  labelValue,   \* labelValue[l]: the address of label l
  operand,      \* operand[i]: labelValue of the InstrLabel i
  offset,       \* offset[i]: the byteOffset of directive i
  index,        \* the directive being looked at
  byteOffset,   \* the local variable of resolveLabels, and of emitProgramBin
  lastSize,
  phase,        \* "resolve", "emit", "done" or "error"
  emitted       \* history: emitted[i], where directive i is in the image

vars == <<program, labelValue, operand, offset, index, byteOffset, lastSize, phase, emitted>>

--------------------------------------------------------------------------------
\* instrLen: the first length that is enough for the distance it leaves.
InstrLen(target, address) ==
  CHOOSE n \in 1 .. WordNibbles + 1 :
    /\ n >= NumNibbles(target - address - n)
    /\ \A m \in 1 .. n - 1 : m < NumNibbles(target - address - m)

\* Data must be on 4-byte boundaries.
Aligned(kind, address) ==
  IF kind = "DATA" THEN 4 * ((address + 3) \div 4) ELSE address

\* getSize of a directive, with its operand if it names a label.
SizeOf(d, v) ==
  CASE d.kind = "DATA" -> 4
    [] d.kind = "LABEL" -> 0
    [] d.kind = "IMMEDIATE" -> Size(d.arg)
    [] OTHER -> Size(v)

IsReference(d) == d.kind \in {"RELATIVE", "ABSOLUTE"}

\* The operand of a reference at an address, from the label as it is known.
OperandOf(d, address) ==
  IF d.kind = "RELATIVE"
  THEN labelValue[d.arg] - address - InstrLen(labelValue[d.arg], address)
  ELSE labelValue[d.arg] \div 4

Labels(l) == {i \in 1 .. Len(program) : program[i] = [kind |-> "LABEL", arg |-> l]}

Defined(l) == Labels(l) # {}

\* labelMap: of two labels of the same name, the last.
LabelMap(l) == CHOOSE i \in Labels(l) : \A j \in Labels(l) : j =< i

Here == program[index]

Init ==
  /\ program \in Programs
  /\ labelValue = [l \in Label |-> 0]
  /\ operand = [i \in 1 .. Len(program) |-> 0]
  /\ offset = [i \in 1 .. Len(program) |-> 0]
  /\ index = 1
  /\ byteOffset = 0
  /\ lastSize = 0
  /\ phase = "resolve"
  /\ emitted = [i \in 1 .. Len(program) |-> 0]

--------------------------------------------------------------------------------
\* One iteration of the inner loop of resolveLabels.
Resolve ==
  LET address == Aligned(Here.kind, byteOffset)
  IN  /\ phase = "resolve" /\ index =< Len(program)
      /\ IsReference(Here) => Defined(Here.arg)
      /\ labelValue' = [l \in Label |->
           IF Defined(l) /\ LabelMap(l) = index THEN address ELSE labelValue[l]]
      /\ operand' =
           IF IsReference(Here)
           THEN [operand EXCEPT ![index] = OperandOf(Here, address)] ELSE operand
      /\ offset' = [offset EXCEPT ![index] = address]
      /\ byteOffset' = address + SizeOf(Here, operand'[index])
      /\ index' = index + 1
      /\ UNCHANGED <<program, lastSize, phase, emitted>>

\* UnknownLabelError.
UnknownLabel ==
  /\ phase = "resolve" /\ index =< Len(program)
  /\ IsReference(Here) /\ ~Defined(Here.arg)
  /\ phase' = "error"
  /\ UNCHANGED <<program, labelValue, operand, offset, index, byteOffset, lastSize, emitted>>

\* The condition of the outer loop: another pass, or none.
NextLastSize_Kept == lastSize

NextLastSize == byteOffset

EndPass ==
  /\ phase = "resolve" /\ index > Len(program)
  /\ phase' = IF lastSize = byteOffset THEN "emit" ELSE "resolve"
  /\ lastSize' = NextLastSize
  /\ byteOffset' = 0
  /\ index' = 1
  /\ UNCHANGED <<program, labelValue, operand, offset, emitted>>

\* One iteration of emitProgramBin.
PaddedTo_None(kind, address) == address

PaddedTo(kind, address) == Aligned(kind, address)

Emit ==
  LET address == PaddedTo(Here.kind, byteOffset)
  IN  /\ phase = "emit" /\ index =< Len(program)
      /\ emitted' = [emitted EXCEPT ![index] = address]
      /\ byteOffset' = address + SizeOf(Here, operand[index])
      /\ index' = index + 1
      /\ UNCHANGED <<program, labelValue, operand, offset, lastSize, phase>>

\* The padding at the end, and the end of the file.
Pad ==
  /\ phase = "emit" /\ index > Len(program)
  /\ byteOffset' = byteOffset + (4 * ((lastSize + 3) \div 4) - lastSize)
  /\ phase' = "done"
  /\ UNCHANGED <<program, labelValue, operand, offset, index, lastSize, emitted>>

Ended == phase \in {"done", "error"} /\ UNCHANGED vars

Next == Resolve \/ UnknownLabel \/ EndPass \/ Emit \/ Pad \/ Ended

Spec == Init /\ [][Next]_vars

\* The assembler is not interrupted.
FairSpec == Spec /\ WF_vars(Next)

--------------------------------------------------------------------------------
(***************************************************************************)
(* Properties.                                                             *)
(***************************************************************************)
\* Lengths that shrink and grow with one another settle: every program is
\* assembled, or refused.
Terminates == <>(phase \in {"done", "error"})

\* The two passes over the program agree on where everything is, and the image
\* is as long as the size it states, a number of whole words.
EmittedWhereResolved ==
  phase = "done" =>
    /\ emitted = offset
    /\ byteOffset = 4 * ((lastSize + 3) \div 4)
    /\ byteOffset % 4 = 0

\* The label a reference was resolved against is the label there is.
Settled(i) ==
  IF program[i].kind = "RELATIVE"
  THEN operand[i] = labelValue[program[i].arg] - offset[i]
                    - InstrLen(labelValue[program[i].arg], offset[i])
  ELSE operand[i] = labelValue[program[i].arg] \div 4

OperandsAreSettled ==
  phase = "done" => \A i \in 1 .. Len(program) : IsReference(program[i]) => Settled(i)
================================================================================
