-------------------------------- MODULE XMachine --------------------------------
(***************************************************************************)
(* Compiled X programs, executed by one processor with its system calls,   *)
(* and channels to somebody who is always ready.  Initially any of the     *)
(* programs is chosen, and whether the peephole pass is applied.           *)
(***************************************************************************)
EXTENDS XProcessor

CONSTANTS
  Programs,        \* a set of programs, each with a procedure main
  Inputs           \* what there is to read, for each source

VARIABLES
  image,        \* the program that is loaded
  meaning,      \* what it should do
  cpu           \* the processor

vars == <<image, meaning, cpu>>

instr == Here(image, cpu)

\* What may be loaded for a program: with and without the peephole pass.
Images(program) ==
  UNION {{Loaded(program, table, directives, code) :
            code \in {directives, OptimiseDirectives(directives)}} :
         <<table, directives>> \in Generated(program)}

Init ==
  /\ \E program \in Programs :
       /\ image \in Images(program)
       /\ meaning = Meaning(program, Call("main", <<>>), Inputs)
  /\ cpu = Started(image, Inputs)

Step(ops, after) ==
  /\ cpu.running
  /\ instr.op \in ops
  /\ cpu' = after
  /\ UNCHANGED <<image, meaning>>

Compute ==
  Step({"LDAM", "LDBM", "LDAC", "LDBC", "LDAP", "LDAI", "LDBI", "ADD", "SUB"},
       Computed(image, cpu))

Store == Step({"STAM", "STAI"}, AfterStore(image, cpu))

Branch == Step({"BR", "BRZ", "BRN"}, AfterBranch(image, cpu))

BranchBack == Step({"BRB"}, AfterReturn(cpu))

Svc == Step({"SVC"}, AfterSvc(cpu))

Send == Step({"OUT"}, AfterOut(cpu))

Receive ==
  LET source == ChannelSource(cpu.breg)
  IN  /\ instr.op = "IN" /\ cpu.io.left[source] # <<>>
      /\ Step({"IN"}, [AfterIn(cpu, Head(cpu.io.left[source])) EXCEPT !.io.left[source] = Tail(@)])

Halted == ~cpu.running /\ UNCHANGED vars

Next == Compute \/ Store \/ Branch \/ BranchBack \/ Svc \/ Send \/ Receive \/ Halted

Spec == Init /\ [][Next]_vars

\* The processor goes on.
FairSpec == Spec /\ WF_vars(Next)

--------------------------------------------------------------------------------
(***************************************************************************)
(* Properties.                                                             *)
(***************************************************************************)
\* The processor stays in the program, and its registers are words or links.
TypeOK ==
  /\ cpu.pc \in DOMAIN image.code
  /\ \A register \in {cpu.areg, cpu.breg} :
       register = Word(register) \/ register \in DOMAIN image.code
  /\ DOMAIN cpu.memory = Address

\* What a program does is what its source says: nothing more and nothing else as
\* long as it runs, and all of it when it has ended.
DoesWhatItSays ==
  /\ IsPrefix(cpu.log, meaning)
  /\ ~cpu.running => cpu.log = meaning

\* Every procedure returns to where it was called from, with the stack pointer
\* that its caller had.
ReturnsToCaller ==
  [][cpu.running /\ instr.op = "BRB" =>
       cpu'.pc = Last(cpu.calls).link /\ SP(cpu) = Last(cpu.calls).sp]_vars

\* A procedure writes to its own frame, to arrays, and in the frame of its caller
\* to the word of the link and to that of the result; no program here assigns to a
\* formal.  What is stored for the EXIT that comes next may be anywhere.
InCallersFrame(call) ==
  IF call.name \in image.functions
  THEN {call.sp, call.sp + SP_RETURN_VALUE_OFFSET} ELSE {call.sp}

FramesAreApart ==
  LET address == StoreAddress(image, cpu)
  IN  cpu.running /\ instr.op = "STAI" /\ cpu.calls # <<>> =>
        \/ address \in SP(cpu) .. Last(cpu.calls).sp - 1
        \/ address \in InCallersFrame(Last(cpu.calls))
        \/ address > image.data[1]
        \/ image.code[cpu.pc + 1].op = "SVC"

\* Every program ends.
Ends == <>~cpu.running
================================================================================
