-------------------------------- MODULE XLanguage --------------------------------
(***************************************************************************)
(* Programs in X, as the parser hands them to the compiler, and what they  *)
(* mean: what a program reads, writes and returns, whatever it is compiled *)
(* to.                                                                     *)
(*                                                                         *)
(* const is what ConstProp has found out about an expression, a sequence   *)
(* of no or of one value.  Operators give 1 for true and 0 for false;      *)
(* "and" and "or" give the value of the operand that decides.              *)
(***************************************************************************)
EXTENDS Integers, Sequences, SequencesExt

CONSTANTS
  WordBits,        \* the width of a word
  FileStreamBase,  \* stream numbers below are the console; from here on they are
  NumStreams       \* files, FileStreamBase numbers to each, and round again

ASSUME LanguageAssumption ==
  /\ WordBits \in Nat /\ WordBits > 1
  /\ {FileStreamBase, NumStreams} \subseteq Nat \ {0}

Half == 2 ^ (WordBits - 1)

Word(n) == ((n + Half) % (2 * Half)) - Half

Truth(b) == IF b THEN 1 ELSE 0

--------------------------------------------------------------------------------
(***************************************************************************)
(* The tree.                                                               *)
(***************************************************************************)
Num(v) == [kind |-> "num", value |-> v, const |-> <<>>]

Bool(b) == [kind |-> "bool", value |-> Truth(b), const |-> <<>>]

Ref(name) == [kind |-> "ref", name |-> name, const |-> <<>>]

Sub(name, index) == [kind |-> "sub", name |-> name, index |-> index, const |-> <<>>]

Unary(op, e) == [kind |-> "unary", op |-> op, element |-> e, const |-> <<>>]

Binary(op, lhs, rhs) ==
  [kind |-> "binary", op |-> op, lhs |-> lhs, rhs |-> rhs, const |-> <<>>]

Call(name, args) == [kind |-> "call", name |-> name, args |-> args, const |-> <<>>]

SysCall(id, args) == [kind |-> "syscall", id |-> id, args |-> args, const |-> <<>>]

SkipS == [kind |-> "skip"]

StopS == [kind |-> "stop"]

ReturnS(e) == [kind |-> "return", expr |-> e]

IfS(e, s, t) == [kind |-> "if", cond |-> e, then |-> s, else |-> t]

WhileS(e, s) == [kind |-> "while", cond |-> e, body |-> s]

SeqS(ss) == [kind |-> "seq", stmts |-> ss]

ParS(branches) == [kind |-> "par", branches |-> branches]

CallS(e) == [kind |-> "do", call |-> e]

AssS(target, e) == [kind |-> "ass", target |-> target, expr |-> e]

OutS(chan, e) == [kind |-> "out", chan |-> chan, expr |-> e]

InS(chan, target) == [kind |-> "in", chan |-> chan, target |-> target]

\* Declarations, of variables, channels, constants and arrays.
VarD(name) == [kind |-> "var", name |-> name]

ChanD(name) == [kind |-> "chan", name |-> name]

ValD(name, e) == [kind |-> "val", name |-> name, expr |-> e]

ArrayD(name, e) == [kind |-> "array", name |-> name, expr |-> e]

\* A formal of a kind: val, var, chan, array, proc or func.
Formal(kind, name) == [kind |-> kind, name |-> name]

\* A procedure, or a function.
ProcDecl(name, isFunction, formals, locals, body) ==
  [name |-> name, isFunction |-> isFunction, formals |-> formals,
   locals |-> locals, body |-> body]

\* A program has global declarations, and procedures.
Program(globals, procs) == [globals |-> globals, procs |-> procs]

ProcNamed(program, name) ==
  program.procs[CHOOSE i \in DOMAIN program.procs : program.procs[i].name = name]

--------------------------------------------------------------------------------
(***************************************************************************)
(* Meaning.  A world is the values of the names, what has been seen from   *)
(* outside and what is still to be read, and the value of the expression   *)
(* just evaluated.  The value of an array is its name, so that it can be   *)
(* passed on.  Inputs are a sequence of words for each source: a stream,   *)
(* or a channel.  Who reads a stream to its end goes on with EndOfFile,    *)
(* who reads an empty channel waits.                                       *)
(***************************************************************************)
Apply(op, a, b) ==
  CASE op = "+" -> Word(a + b)
    [] op = "-" -> Word(a - b)
    [] op = "=" -> Truth(a = b)
    [] op = "~=" -> Truth(a # b)
    [] op = "<" -> Truth(a < b)
    [] op = "<=" -> Truth(a <= b)
    [] op = ">" -> Truth(a > b)
    [] op = ">=" -> Truth(a >= b)

EndOfFile == Word(255)

ChannelSource(slot) == <<"channel", slot>>

With(world, v) == [world EXCEPT !.value = v]

ValueOf(world, name) ==
  IF name \in DOMAIN world.frame THEN world.frame[name] ELSE world.globals[name]

Stored(world, name, v) ==
  IF name \in DOMAIN world.frame
  THEN [world EXCEPT !.frame[name] = v] ELSE [world EXCEPT !.globals[name] = v]

Seen(world, event) == [world EXCEPT !.log = Append(@, event)]

Read(world, source) ==
  IF world.inputs[source] = <<>> THEN With(world, EndOfFile)
  ELSE [With(world, Head(world.inputs[source])) EXCEPT !.inputs[source] = Tail(@)]

\* No more will happen.
IsOver(world) == world.flow \in {"exit", "waits"}

\* What a program reads or writes at a stream number.
Stream(n) ==
  IF n < FileStreamBase THEN <<"console", 0>>
  ELSE <<"file", (n \div FileStreamBase) % NumStreams>>

RECURSIVE Eval(_, _, _), Exec(_, _, _)

\* The values of args, from the left, and the world after them.
EvalAll(program, args, world) ==
  FoldLeft(LAMBDA acc, e :
             LET w == Eval(program, e, acc.world)
             IN  [world |-> w, values |-> Append(acc.values, w.value)],
           [world |-> world, values |-> <<>>], args)

EvalSysCall(id, values, world) ==
  CASE IsOver(world) -> world
    [] id = 0 -> [Seen(world, <<"exit", values[1]>>) EXCEPT !.flow = "exit"]
    [] id = 1 -> Seen(world, <<"write", Stream(values[2]), values[1]>>)
    [] id = 2 -> Read(Seen(world, <<"read", Stream(values[1])>>), Stream(values[1]))

\* A declaration gives its name a value: the frame's, or the program's.
Declared(program, decl, frame, world) ==
  CASE decl.kind = "val" -> (decl.name :> Eval(program, decl.expr, world).value) @@ frame
    [] decl.kind = "array" -> (decl.name :> decl.name) @@ frame
    [] decl.kind \in {"var", "chan"} -> (decl.name :> 0) @@ frame

EvalCall(program, p, values, world) ==
  LET actuals == FoldLeft(LAMBDA frame, i : (p.formals[i].name :> values[i]) @@ frame,
                          <<>>, [i \in DOMAIN p.formals |-> i])
      entered == FoldLeft(LAMBDA w, decl :
                            [w EXCEPT !.frame = Declared(program, decl, @, w)],
                          [world EXCEPT !.frame = actuals], p.locals)
      left == Exec(program, p.body, entered)
  IN  [left EXCEPT !.frame = world.frame,
                   !.flow = IF @ = "return" THEN "next" ELSE @]

Eval(program, e, world) ==
  CASE IsOver(world) -> world
    [] e.kind \in {"num", "bool"} -> With(world, e.value)
    [] e.kind = "ref" -> With(world, ValueOf(world, e.name))
    [] e.kind = "sub" ->
         LET w == Eval(program, e.index, world)
         IN  With(w, w.arrays[ValueOf(world, e.name)][w.value])
    [] e.kind = "unary" ->
         LET w == Eval(program, e.element, world)
         IN  With(w, IF e.op = "-" THEN Word(-w.value) ELSE Truth(w.value = 0))
    [] e.kind = "binary" /\ e.op \in {"and", "or"} ->
         LET w == Eval(program, e.lhs, world)
         IN  IF (e.op = "and") = (w.value = 0) THEN w ELSE Eval(program, e.rhs, w)
    [] e.kind = "binary" /\ e.op \notin {"and", "or"} ->
         LET w == EvalAll(program, <<e.lhs, e.rhs>>, world)
         IN  With(w.world, Apply(e.op, w.values[1], w.values[2]))
    [] e.kind = "syscall" ->
         LET w == EvalAll(program, e.args, world)
         IN  EvalSysCall(e.id, w.values, w.world)
    [] e.kind = "call" ->
         LET w == EvalAll(program, e.args, world)
         IN  IF e.name \in DOMAIN world.frame \cup DOMAIN world.globals
             THEN EvalSysCall(ValueOf(world, e.name), w.values, w.world)
             ELSE EvalCall(program, ProcNamed(program, e.name), w.values, w.world)

\* v is given to a variable or to an element of an array.
Assigned(program, target, v, world) ==
  IF target.kind = "ref" THEN Stored(world, target.name, v)
  ELSE LET w == Eval(program, target.index, world)
       IN  [w EXCEPT !.arrays[ValueOf(world, target.name)][w.value] = v]

Exec(program, s, world) ==
  CASE world.flow # "next" \/ s.kind = "skip" -> world
    [] s.kind = "stop" -> [Seen(world, <<"exit", 0>>) EXCEPT !.flow = "exit"]
    [] s.kind = "return" ->
         LET w == Eval(program, s.expr, world)
         IN  IF IsOver(w) THEN w ELSE [w EXCEPT !.flow = "return"]
    [] s.kind = "if" ->
         LET w == Eval(program, s.cond, world)
         IN  Exec(program, IF w.value # 0 THEN s.then ELSE s.else, w)
    [] s.kind = "while" ->
         LET w == Eval(program, s.cond, world)
         IN  IF IsOver(w) \/ w.value = 0 THEN w
             ELSE Exec(program, s, Exec(program, s.body, w))
    [] s.kind = "seq" -> FoldLeft(LAMBDA w, t : Exec(program, t, w), world, s.stmts)
    [] s.kind = "do" -> Eval(program, s.call, world)
    [] s.kind = "ass" ->
         LET w == Eval(program, s.expr, world)
         IN  IF IsOver(w) THEN w ELSE Assigned(program, s.target, w.value, w)
    [] s.kind = "out" ->
         LET w == EvalAll(program, <<s.expr, s.chan>>, world)
         IN  IF IsOver(w.world) THEN w.world
             ELSE Seen(w.world, <<"out", w.values[2], w.values[1]>>)
    [] s.kind = "in" ->
         LET w == Eval(program, s.chan, world)
             source == ChannelSource(w.value)
         IN  IF w.inputs[source] = <<>> THEN [w EXCEPT !.flow = "waits"]
             ELSE LET r == Read(Seen(w, <<"in", w.value>>), source)
                  IN  Assigned(program, s.target, r.value, r)

\* The global declarations in order; every variable is 0, and every array.
InitialWorld(program, inputs) ==
  FoldLeft(LAMBDA w, decl :
             [w EXCEPT !.globals = Declared(program, decl, @, w),
                       !.arrays = IF decl.kind # "array" THEN @
                                  ELSE (decl.name :> [i \in 0 .. Eval(program, decl.expr, w).value - 1
                                                        |-> 0]) @@ @],
           [globals |-> <<>>, arrays |-> <<>>, frame |-> <<>>, inputs |-> inputs,
            log |-> <<>>, flow |-> "next", value |-> 0],
           program.globals)

\* What is seen from outside of a call of a procedure, to its end, and then the end.
Meaning(program, call, inputs) ==
  Exec(program, SeqS(<<CallS(call), StopS>>), InitialWorld(program, inputs)).log
================================================================================
