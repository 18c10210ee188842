------------------------------- MODULE XProcessor -------------------------------
(***************************************************************************)
(* What one processor (Processor::step of src/hexsim.hpp) does with a      *)
(* compiled program.  Code and data are apart, labels are resolved         *)
(* (Assembler is about that), and an operand with its prefixes is one      *)
(* instruction (Isa is about those).                                       *)
(*                                                                         *)
(* The operators are functions of the image that is loaded and of the      *)
(* state m of the processor: its registers, memory and streams, whether it *)
(* is running, and two histories, what has been seen from outside and the  *)
(* calls that have not returned.                                           *)
(***************************************************************************)
EXTENDS XCodeGen

IO == INSTANCE HexSimIO

\* Memory, and the two words behind it that programs store to when they end.
Address == 0 .. MaxAddress + 1

\* The instructions of code, and where its labels are among them.
Assembled(code) ==
  LET labels == {i \in DOMAIN code : code[i].op = "LABEL"}
      Before(i) == Cardinality({j \in 1 .. i - 1 : j \notin labels})
  IN  [code |-> SelectSeq(code, LAMBDA i : i.op # "LABEL"),
       at |-> [l \in {code[i].arg : i \in labels} |->
                 1 + Before(CHOOSE i \in labels : code[i].arg = l)] @@ <<>>]

\* The constants of the pool.
Constants(code) ==
  SetToSortSeq({code[i].arg[2] : i \in {j \in DOMAIN code :
                  code[j].op \in {"LDAM", "LDBM"} /\ code[j].arg[1] = "const"}}, <)

\* What is loaded for a program that compiles to directives, of which code is what
\* the peephole pass leaves: the instructions, the globals and the constants that
\* follow the stack pointer in memory, and the data.
Loaded(program, table, directives, code) ==
  [code |-> Assembled(code).code,
   at |-> Assembled(code).at,
   names |-> Names(Storage(program)),
   pool |-> Constants(directives),
   data |-> <<InitialSP(program, table)>>
            \o [i \in DOMAIN Storage(program) |-> GlobalWord(program, table, i)]
            \o Constants(directives),
   functions |-> FunctionsOf(program)]

\* The symbol table of a program and the directives that are generated for it.
Generated(program) == {<<t, CodeGen(program, t)>> : t \in {SymbolTable(program)}}

\* The image of a program, after the peephole pass.
Optimised(program) ==
  {Loaded(program, table, directives, OptimiseDirectives(directives)) :
     <<table, directives>> \in Generated(program)}

Started(image, inputs) ==
  [pc |-> 1, areg |-> 0, breg |-> 0,
   memory |-> [a \in Address |-> IF a \in DOMAIN image.data THEN image.data[a] ELSE 0],
   io |-> IO!NewIO(inputs), running |-> TRUE, log |-> <<>>, calls |-> <<>>]

--------------------------------------------------------------------------------
(***************************************************************************)
(* Instructions.                                                           *)
(***************************************************************************)
Here(image, m) == image.code[m.pc]

SP(m) == m.memory[SP_OFFSET]

\* The address of a place in memory.
Place(image, place) ==
  CASE place = StackPointer -> SP_OFFSET
    [] place[1] = "global" -> SP_OFFSET + IndexIn(image.names, place[2])
    [] place[1] = "const" ->
         SP_OFFSET + Len(image.names) + IndexIn(image.pool, place[2])

NextAreg(image, m, i) ==
  CASE i.op = "LDAM" -> m.memory[Place(image, i.arg)]
    [] i.op = "LDAC" -> i.arg
    [] i.op = "LDAP" -> image.at[i.arg]
    [] i.op = "LDAI" -> m.memory[m.areg + i.arg]
    [] i.op = "ADD" -> Word(m.areg + m.breg)
    [] i.op = "SUB" -> Word(m.areg - m.breg)
    [] OTHER -> m.areg

NextBreg(image, m, i) ==
  CASE i.op = "LDBM" -> m.memory[Place(image, i.arg)]
    [] i.op = "LDBC" -> i.arg
    [] i.op = "LDBI" -> m.memory[m.breg + i.arg]
    [] OTHER -> m.breg

Computed(image, m) ==
  [m EXCEPT !.areg = NextAreg(image, m, Here(image, m)),
            !.breg = NextBreg(image, m, Here(image, m)),
            !.pc = @ + 1]

StoreAddress(image, m) ==
  IF Here(image, m).op = "STAM" THEN Place(image, Here(image, m).arg)
  ELSE m.breg + Here(image, m).arg

AfterStore(image, m) ==
  [m EXCEPT !.memory[StoreAddress(image, m)] = m.areg, !.pc = @ + 1]

Taken(i, areg) ==
  \/ i.op = "BR"
  \/ i.op = "BRZ" /\ areg = 0
  \/ i.op = "BRN" /\ areg < 0

\* A branch to a procedure is a call, and the link is in areg.
IsCall(i) == i.op = "BR" /\ i.arg[1] = "proc" /\ i.arg # ProcLabel("start")

AfterBranch(image, m) ==
  LET i == Here(image, m)
  IN  [m EXCEPT !.pc = IF Taken(i, m.areg) THEN image.at[i.arg] ELSE @ + 1,
                !.calls = IF IsCall(i)
                          THEN Append(@, [name |-> i.arg[2], sp |-> SP(m), link |-> m.areg])
                          ELSE @]

AfterReturn(m) == [m EXCEPT !.pc = m.breg, !.calls = Front(@)]

Exited(m) ==
  [m EXCEPT !.running = FALSE, !.log = Append(@, <<"exit", m.memory[SP(m) + 2]>>),
            !.pc = @ + 1]

Written(m) ==
  LET out == IO!Output(m.io, m.memory[SP(m) + 2], m.memory[SP(m) + 3])
  IN  [m EXCEPT !.io = out.io, !.pc = @ + 1,
                !.log = @ \o [k \in DOMAIN out.written |-> <<"write">> \o out.written[k]]]

ReadIn(m) ==
  LET in == IO!Input(m.io, m.memory[SP(m) + 2])
  IN  [m EXCEPT !.io = in.io, !.memory[SP(m) + 1] = in.value, !.pc = @ + 1,
                !.log = Append(@, <<"read", IO!Source(m.memory[SP(m) + 2])>>)]

\* EXIT, WRITE and READ.
AfterSvc(m) ==
  CASE m.areg = 0 -> Exited(m)
    [] m.areg = 1 -> Written(m)
    [] m.areg = 2 -> ReadIn(m)

\* What is left when the other end of a channel has taken or given a word.
AfterOut(m) == [m EXCEPT !.log = Append(@, <<"out", m.breg, m.areg>>), !.pc = @ + 1]

AfterIn(m, v) == [m EXCEPT !.areg = v, !.log = Append(@, <<"in", m.breg>>), !.pc = @ + 1]

IsLocal(image, m) == m.running /\ Here(image, m).op \notin {"OUT", "IN"}

\* An instruction that needs nobody else.
AfterLocal(image, m) ==
  LET op == Here(image, m).op
  IN  CASE op \in {"STAM", "STAI"} -> AfterStore(image, m)
        [] op \in {"BR", "BRZ", "BRN"} -> AfterBranch(image, m)
        [] op = "BRB" -> AfterReturn(m)
        [] op = "SVC" -> AfterSvc(m)
        [] OTHER -> Computed(image, m)
================================================================================
