-------------------------------- MODULE XCodeGen --------------------------------
(***************************************************************************)
(* The X compiler (src/xcmp.hpp), from the tree to assembly directives:    *)
(* CodeGen with its expression and statement visitors, LowerDirectives and *)
(* OptimiseDirectives.                                                     *)
(*                                                                         *)
(* A generator gives the sequence of instructions it appends to the        *)
(* CodeBuffer; RESERVE n among them is no instruction and says that the    *)
(* offset of the Frame has been n.  Where a generator stands is a context  *)
(* c: the symbols of the procedure, the locations of those in its frame    *)
(* and its caller's, the present offset of the frame, and a path of the    *)
(* tree that makes labels unique.  Every generator leaves the offset as it *)
(* found it.                                                               *)
(***************************************************************************)
EXTENDS XSymbols

CONSTANTS
  MaxAddress,      \* MAX_ADDRESS, the number of words of memory
  PoolLimit        \* constants from here on come from the pool

ASSUME CompilerAssumption == MaxAddress \in Nat /\ PoolLimit \in Nat

SP_OFFSET == 1

SP_RETURN_VALUE_OFFSET == 1

FB_PARAM_OFFSET_FUNC == 2

FB_PARAM_OFFSET_PROC == 1

\* An expression as the code generator finds it.
Prepared(c, e) == OptimiseExpr(ConstProp(c.symbols, e))

--------------------------------------------------------------------------------
(***************************************************************************)
(* The code buffer and its frame.                                          *)
(*                                                                         *)
(* Labels, and the places in memory that instructions name, are pairs.     *)
(* Large constants are one word each of a pool.                            *)
(***************************************************************************)
I(op, arg) == [op |-> op, arg |-> arg]

\* incOffset, as far as the size of the frame is concerned.
Reserve(c, n) == <<I("RESERVE", c.offset + n)>>

\* The context of a part of the tree, n words further in the frame.
In(c, part, n) == [c EXCEPT !.path = Append(@, part), !.offset = @ + n]

Label(c, name) == <<name, c.path>>

ProcLabel(name) == <<"proc", name>>

StackPointer == <<"sp", SP_OFFSET>>

GenConst(reg, v) ==
  IF v > -PoolLimit /\ v < PoolLimit
  THEN <<I(IF reg = "A" THEN "LDAC" ELSE "LDBC", v)>>
  ELSE <<I(IF reg = "A" THEN "LDAM" ELSE "LDBM", <<"const", v>>)>>

\* A variable: of the frame, or global.
GenVar(c, reg, name) ==
  LET load == IF reg = "A" THEN "LDAM" ELSE "LDBM"
  IN  IF name \in DOMAIN c.local
      THEN <<I(load, StackPointer),
             I(IF reg = "A" THEN "LDAI_FB" ELSE "LDBI_FB", c.local[name])>>
      ELSE <<I(load, <<"global", name>>)>>

\* areg to a temporary of the frame, and from there to breg.
Save(offset) == <<I("LDBM", StackPointer), I("STAI_FB", -offset)>>

Restore(offset) == <<I("LDBM", StackPointer), I("LDBI_FB", -offset)>>

\* areg becomes 1 if the branch is taken, and 0 if not.
GenTruth(c, branch) ==
  <<I(branch, Label(c, "true")), I("LDAC", 0), I("BR", Label(c, "end")),
    I("LABEL", Label(c, "true")), I("LDAC", 1), I("LABEL", Label(c, "end"))>>

NeedsAReg(e) == ~(IsConst(e) \/ e.kind = "ref")

RECURSIVE ContainsCall(_)

ContainsCall(e) ==
  CASE e.kind \in {"call", "syscall"} -> TRUE
    [] e.kind = "sub" -> ContainsCall(e.index)
    [] e.kind = "unary" -> ~IsConst(e) /\ ContainsCall(e.element)
    [] e.kind = "binary" -> ~IsConst(e) /\ (ContainsCall(e.lhs) \/ ContainsCall(e.rhs))
    [] OTHER -> FALSE

--------------------------------------------------------------------------------
(***************************************************************************)
(* Expressions: the value goes to reg, A or B.                             *)
(***************************************************************************)
RECURSIVE GenExpr(_, _, _)

\* Of a subtraction or an addition: the left operand to areg, the right one to breg.
\* A right operand that needs areg is evaluated first and kept in the frame.
GenBinopOperands_Unreserved(c, lhs, rhs) ==
  IF NeedsAReg(rhs)
  THEN GenExpr(In(c, 2, 0), rhs, "A") \o Reserve(c, 1) \o Save(c.offset)
       \o GenExpr(In(c, 1, 0), lhs, "A") \o Restore(c.offset)
  ELSE GenExpr(In(c, 1, 0), lhs, "A") \o GenExpr(In(c, 2, 0), rhs, "B")

GenBinopOperands(c, lhs, rhs) ==
  IF NeedsAReg(rhs)
  THEN GenExpr(In(c, 2, 0), rhs, "A") \o Reserve(c, 1) \o Save(c.offset)
       \o GenExpr(In(c, 1, 1), lhs, "A") \o Restore(c.offset)
  ELSE GenExpr(In(c, 1, 0), lhs, "A") \o GenExpr(In(c, 2, 0), rhs, "B")

GenSubtract(c, lhs, rhs) == GenBinopOperands(c, lhs, rhs) \o <<I("SUB", 0)>>

GenAnd(c, e) ==
  GenExpr(In(c, 1, 0), e.lhs, "A") \o <<I("BRZ", Label(c, "end"))>>
  \o GenExpr(In(c, 2, 0), e.rhs, "A") \o <<I("LABEL", Label(c, "end"))>>

GenOr(c, e) ==
  GenExpr(In(c, 1, 0), e.lhs, "A")
  \o <<I("BRZ", Label(c, "false")), I("BR", Label(c, "end")), I("LABEL", Label(c, "false"))>>
  \o GenExpr(In(c, 2, 0), e.rhs, "A") \o <<I("LABEL", Label(c, "end"))>>

\* A comparison with zero needs no subtraction.
GenEqual(c, e) ==
  (CASE IsConstZero(e.lhs) -> GenExpr(In(c, 2, 0), e.rhs, "A")
     [] ~IsConstZero(e.lhs) /\ IsConstZero(e.rhs) -> GenExpr(In(c, 1, 0), e.lhs, "A")
     [] OTHER -> GenSubtract(c, e.lhs, e.rhs))
  \o GenTruth(c, "BRZ")

GenLess(c, e) ==
  (IF IsConstZero(e.rhs) THEN GenExpr(In(c, 1, 0), e.lhs, "A")
   ELSE GenSubtract(c, e.lhs, e.rhs))
  \o GenTruth(c, "BRN")

GenBinary(c, e) ==
  CASE e.op = "+" -> GenBinopOperands(c, e.lhs, e.rhs) \o <<I("ADD", 0)>>
    [] e.op = "-" -> GenSubtract(c, e.lhs, e.rhs)
    [] e.op = "and" -> GenAnd(c, e)
    [] e.op = "or" -> GenOr(c, e)
    [] e.op = "=" -> GenEqual(c, e)
    [] e.op = "<" -> GenLess(c, e)

\* The visitor has entered the subscript before it handles the whole, and then
\* the code of the subscript is generated once more.
GenSubscript(c, e, reg) ==
  GenExpr(In(c, 1, 0), e.index, reg)
  \o (IF IsConst(e.index)
      THEN GenVar(c, "A", e.name) \o <<I("LDAI", Value(e.index))>>
      ELSE GenExpr(In(c, 2, 0), e.index, "A") \o GenVar(c, "B", e.name)
           \o <<I("ADD", 0), I("LDAI", 0)>>)

--------------------------------------------------------------------------------
(***************************************************************************)
(* Calls.  Actuals with calls in them are evaluated first, each to a word  *)
(* of the frame; then all of them go to their places at its bottom.        *)
(***************************************************************************)
\* The words that the frame has in use for args[i]: one for each call so far.
CallsBefore(args, i) == Cardinality({j \in 1 .. i - 1 : ContainsCall(args[j])})

GenCallActuals(c, args) ==
  FlattenSeq([i \in DOMAIN args |->
    LET d == In(c, i, CallsBefore(args, i))
    IN  IF ContainsCall(args[i])
        THEN GenExpr(d, args[i], "A") \o Save(d.offset) \o Reserve(d, 1) ELSE <<>>])

LoadActuals(c, args, base) ==
  FlattenSeq([i \in DOMAIN args |->
    LET d == In(c, i, CallsBefore(args, i))
    IN  (IF ContainsCall(args[i])
         THEN <<I("LDAM", StackPointer), I("LDAI_FB", -d.offset)>> \o Reserve(d, 1)
         ELSE GenExpr(d, args[i], "A"))
        \o <<I("LDBM", StackPointer), I("STAI", base + i - 1)>>])

GenActuals(c, args, base) ==
  GenCallActuals(c, args) \o LoadActuals(c, args, base)
  \o Reserve(c, CallsBefore(args, Len(args) + 1) + Len(args) + base)

LoadResult == <<I("LDAM", StackPointer), I("LDAI", SP_RETURN_VALUE_OFFSET)>>

GenSysCall(c, id, args) ==
  GenActuals(c, args, FB_PARAM_OFFSET_FUNC) \o <<I("LDAC", id), I("SVC", 0)>> \o LoadResult

BranchAndLink(c, name) ==
  <<I("LDAP", Label(c, "link")), I("BR", ProcLabel(name)), I("LABEL", Label(c, "link"))>>

GenFuncCall(c, name, args) ==
  GenActuals(c, args, FB_PARAM_OFFSET_FUNC) \o BranchAndLink(c, name) \o LoadResult

GenProcCall(c, name, args) ==
  GenActuals(c, args, FB_PARAM_OFFSET_PROC) \o BranchAndLink(c, name)

\* A folded operation goes to areg, whichever register is asked for.
GenExpr(c, e, reg) ==
  CASE e.kind \in {"num", "bool"} -> GenConst(reg, e.value)
    [] e.kind = "ref" -> IF IsConst(e) THEN GenConst(reg, Value(e)) ELSE GenVar(c, reg, e.name)
    [] e.kind = "sub" -> GenSubscript(c, e, reg)
    [] e.kind = "unary" ->
         IF IsConst(e) THEN GenConst(reg, Value(e))
         ELSE GenExpr(In(c, 1, 0), e.element, "A") \o GenTruth(c, "BRZ")
    [] e.kind = "binary" ->
         IF IsConst(e) THEN GenConst("A", Value(e)) ELSE GenBinary(c, e)
    [] e.kind = "syscall" -> GenSysCall(c, e.id, e.args)
    [] e.kind = "call" ->
         IF c.symbols[e.name].kind = "func" THEN GenFuncCall(c, e.name, e.args)
         ELSE GenProcCall(c, e.name, e.args)

--------------------------------------------------------------------------------
(***************************************************************************)
(* Statements.                                                             *)
(***************************************************************************)
Gen(c, part, n, e) == GenExpr(In(c, part, n), Prepared(c, e), "A")

\* areg to a variable.
GenStore(c, name) ==
  IF name \in DOMAIN c.local
  THEN <<I("LDBM", StackPointer), I("STAI_FB", c.local[name])>>
  ELSE <<I("STAM", <<"global", name>>)>>

\* A value to an element of an array: first the address, to a temporary.
GenStoreElement(c, target, value) ==
  Gen(c, 1, 0, target.index) \o GenVar(c, "B", target.name) \o <<I("ADD", 0)>>
  \o Reserve(c, 1) \o Save(c.offset) \o value \o Restore(c.offset) \o <<I("STAI", 0)>>

GenAss(c, s) ==
  IF s.target.kind = "ref" THEN Gen(c, 2, 0, s.expr) \o GenStore(c, s.target.name)
  ELSE GenStoreElement(c, s.target, Gen(c, 2, 1, s.expr))

GenIn(c, s) ==
  LET word == GenExpr(c, Prepared(c, s.chan), "B") \o <<I("IN", 0)>>
  IN  IF s.target.kind = "ref" THEN word \o GenStore(c, s.target.name)
      ELSE GenStoreElement(c, s.target, word)

GenOut(c, s) == Gen(c, 1, 0, s.expr) \o GenExpr(c, Prepared(c, s.chan), "B") \o <<I("OUT", 0)>>

\* Exit with 0.
ExitSequence ==
  <<I("LDBM", StackPointer), I("LDAC", 0), I("STAI", FB_PARAM_OFFSET_FUNC), I("SVC", 0)>>

RECURSIVE GenStmt(_, _)

\* Nothing at all, or three shapes: no else part, no then part, both.
GenIf(c, s) ==
  LET cond == Gen(c, 1, 0, s.cond) \o <<I("BRZ", Label(c, "else"))>>
      then == GenStmt(In(c, 2, 0), s.then)
      over == <<I("BR", Label(c, "end")), I("LABEL", Label(c, "else"))>>
      else == GenStmt(In(c, 3, 0), s.else) \o <<I("LABEL", Label(c, "end"))>>
      noThen == s.then.kind = "skip"
      noElse == s.else.kind = "skip"
  IN  CASE noThen /\ noElse -> <<>>
        [] ~noThen /\ noElse -> cond \o then \o <<I("LABEL", Label(c, "else"))>>
        [] noThen /\ ~noElse -> cond \o over \o else
        [] ~noThen /\ ~noElse -> cond \o then \o over \o else

GenWhile_AlwaysBack(c, s) ==
  <<I("LABEL", Label(c, "begin"))>> \o Gen(c, 1, 0, s.cond)
  \o <<I("BRZ", Label(c, "begin"))>> \o GenStmt(In(c, 2, 0), s.body)
  \o <<I("BR", Label(c, "begin")), I("LABEL", Label(c, "end"))>>

GenWhile(c, s) ==
  <<I("LABEL", Label(c, "begin"))>> \o Gen(c, 1, 0, s.cond)
  \o <<I("BRZ", Label(c, "end"))>> \o GenStmt(In(c, 2, 0), s.body)
  \o <<I("BR", Label(c, "begin")), I("LABEL", Label(c, "end"))>>

\* Whatever is called by name is called as a procedure.
GenDo(c, call) ==
  IF call.kind = "syscall" THEN GenSysCall(c, call.id, call.args)
  ELSE GenProcCall(c, call.name, call.args)

GenReturn(c, s) == Gen(c, 1, 0, s.expr) \o <<I("BR", c.exitLabel)>>

GenStmt(c, s) ==
  CASE s.kind = "skip" -> <<>>
    [] s.kind = "stop" -> ExitSequence
    [] s.kind = "return" -> GenReturn(c, s)
    [] s.kind = "if" -> GenIf(c, s)
    [] s.kind = "while" -> GenWhile(c, s)
    [] s.kind = "seq" -> FlattenSeq([i \in DOMAIN s.stmts |-> GenStmt(In(c, i, 0), s.stmts[i])])
    [] s.kind = "par" ->
         FlattenSeq([i \in DOMAIN s.branches |-> GenStmt(In(c, i, 0), s.branches[i])])
    [] s.kind = "do" -> GenDo(c, Prepared(c, s.call))
    [] s.kind = "ass" -> GenAss(c, s)
    [] s.kind = "out" -> GenOut(c, s)
    [] s.kind = "in" -> GenIn(c, s)

--------------------------------------------------------------------------------
(***************************************************************************)
(* Procedures, and their lowering once the size of the frame is known.     *)
(***************************************************************************)
IndexIn(names, n) == CHOOSE i \in DOMAIN names : names[i] = n

Names(decls) == [i \in DOMAIN decls |-> decls[i].name]

\* The locals with a word of the frame, constants among them; channels have none.
FrameLocals(p) == SelectSeq(p.locals, LAMBDA decl : decl.kind # "chan")

\* Of decls, that the i-th is at Offset(i); the last one of a name counts.
Located(decls, Offset(_)) ==
  FoldLeft(LAMBDA at, i : (decls[i].name :> Offset(i)) @@ at, <<>>, [i \in DOMAIN decls |-> i])

\* Formals are in the frame of the caller, above the link (and the result);
\* locals are at the top of the procedure's own.
LocationsOf(p) ==
  LET base == IF p.isFunction THEN FB_PARAM_OFFSET_FUNC ELSE FB_PARAM_OFFSET_PROC
  IN  Located(FrameLocals(p), LAMBDA i : 1 - i) @@ Located(p.formals, LAMBDA i : base + i)

LowerPrologue_LinkInRegister(p, size) ==
  <<I("LABEL", ProcLabel(p.name)), I("LDBM", StackPointer)>>
  \o (IF size > 0 THEN <<I("STAI", 0), I("LDAC", -size), I("ADD", 0), I("STAM", StackPointer)>>
      ELSE <<>>)

LowerPrologue(p, size) ==
  <<I("LABEL", ProcLabel(p.name)), I("LDBM", StackPointer), I("STAI", 0)>>
  \o (IF size > 0 THEN <<I("LDAC", -size), I("ADD", 0), I("STAM", StackPointer)>> ELSE <<>>)

LowerEpilogue_FrameKept(p, size, exitLabel) ==
  <<I("LABEL", exitLabel), I("LDBM", StackPointer)>>
  \o (IF p.isFunction THEN <<I("STAI", size + 1), I("LDAC", size), I("ADD", 0),
                             I("STAM", StackPointer)>> ELSE <<>>)
  \o <<I("LDBI", size), I("BRB", 0)>>

\* breg still holds the stack pointer of the procedure when it fetches the link.
LowerEpilogue(p, size, exitLabel) ==
  <<I("LABEL", exitLabel), I("LDBM", StackPointer)>>
  \o (IF p.isFunction THEN <<I("STAI", size + 1)>> ELSE <<>>)
  \o (IF size > 0 THEN <<I("LDAC", size), I("ADD", 0), I("STAM", StackPointer)>> ELSE <<>>)
  \o <<I("LDBI", size), I("BRB", 0)>>

\* Frame-base offsets become stack-pointer offsets.
LowerOffset_SizeForgotten(instr, size) ==
  CASE instr.op = "LDAI_FB" -> I("LDAI", instr.arg - 1)
    [] instr.op = "LDBI_FB" -> I("LDBI", instr.arg - 1)
    [] instr.op = "STAI_FB" -> I("STAI", instr.arg - 1)
    [] OTHER -> instr

LowerOffset(instr, size) ==
  CASE instr.op = "LDAI_FB" -> I("LDAI", size - 1 + instr.arg)
    [] instr.op = "LDBI_FB" -> I("LDBI", size - 1 + instr.arg)
    [] instr.op = "STAI_FB" -> I("STAI", size - 1 + instr.arg)
    [] OTHER -> instr

FunctionsOf(program) ==
  {program.procs[i].name : i \in {j \in DOMAIN program.procs : program.procs[j].isFunction}}

GenProc(program, table, i) ==
  LET p == program.procs[i]
      c == [symbols |-> table.procs[i], local |-> LocationsOf(p),
            offset |-> Len(FrameLocals(p)), path |-> <<i>>, exitLabel |-> <<"exit", <<i>>>>]
      body == Reserve(c, 0) \o GenStmt(c, p.body)
      size == Max({body[k].arg : k \in {j \in DOMAIN body : body[j].op = "RESERVE"}})
      code == SelectSeq(body, LAMBDA instr : instr.op # "RESERVE")
  IN  LowerPrologue(p, size)
      \o [k \in DOMAIN code |-> LowerOffset(code[k], size)]
      \o LowerEpilogue(p, size, c.exitLabel)

\* The data (stack pointer, globals, constants) comes after the first branch.
Setup ==
  <<I("BR", ProcLabel("start")), I("DATA", 0), I("LABEL", ProcLabel("start")),
    I("LDAP", ProcLabel("_exit")), I("BR", ProcLabel("main")),
    I("LABEL", ProcLabel("_exit"))>> \o ExitSequence

CodeGen(program, table) ==
  Setup \o FlattenSeq([i \in DOMAIN program.procs |-> GenProc(program, table, i)])

\* Nothing throws an exception: arrays have constant lengths, names with a subscript
\* are there, and what is branched to is a label.
CanBeCompiled(program, table) ==
  LET labels == {p.name : p \in ToSet(program.procs)}
  IN  /\ \A decl \in ToSet(program.globals) :
           decl.kind = "array" => IsConst(ConstProp(table.globals, decl.expr))
      /\ "main" \in labels
      /\ \A i \in DOMAIN program.procs : \A e \in ProcExprs(program.procs[i]) :
           /\ e.kind = "sub" => e.name \in DOMAIN table.procs[i]
           /\ e.kind = "call" /\ CallOf(table.procs[i], e) = e => e.name \in labels

\* The globals with a word of data: constants and channels have none.
Storage(program) ==
  SelectSeq(program.globals, LAMBDA decl : decl.kind \in {"var", "array"})

ArraySize(table, decl) ==
  IF decl.kind = "array" THEN Value(ConstProp(table.globals, decl.expr)) ELSE 0

\* Arrays are at the end of memory, the first one last; then the stack.
ArrayWords(program, table, n) ==
  FoldLeft(LAMBDA sum, decl : sum + ArraySize(table, decl), 0,
           SubSeq(Storage(program), 1, n))

InitialSP(program, table) ==
  MaxAddress - ArrayWords(program, table, Len(Storage(program))) - 1

\* The word of a global: of an array its address.
GlobalWord(program, table, i) ==
  IF Storage(program)[i].kind = "array" THEN MaxAddress - ArrayWords(program, table, i) ELSE 0

--------------------------------------------------------------------------------
(***************************************************************************)
(* The peephole pass.  It reads from the front and steps over what it has  *)
(* matched; as only the first instruction of a pattern can be the first of *)
(* another one, that is the same as all matches at once.                   *)
(***************************************************************************)
OpsAt(code, i, ops) ==
  i + Len(ops) - 1 =< Len(code) /\ \A k \in DOMAIN ops : code[i + k - 1].op = ops[k]

MatchBranchZero(code, i) ==
  OpsAt(code, i, <<"BR", "LABEL">>) /\ code[i].arg = code[i + 1].arg

\* Operands that are labels do not match.
MatchStoreThenLoad(code, i) ==
  /\ OpsAt(code, i, <<"STAM", "LDAM">>)
  /\ code[i].arg = StackPointer /\ code[i + 1].arg = StackPointer

MatchIndexStoreThenLoad(code, i) ==
  /\ OpsAt(code, i, <<"LDBM", "STAI", "LDAM", "LDAI">>)
  /\ code[i].arg = StackPointer /\ code[i + 2].arg = StackPointer
  /\ code[i + 1].arg = code[i + 3].arg

OptimiseDirectives(code) ==
  LET omitted ==
        {i \in DOMAIN code : MatchBranchZero(code, i)}
        \cup {i + 1 : i \in {j \in DOMAIN code : MatchStoreThenLoad(code, j)}}
        \cup UNION {{i + 2, i + 3} : i \in {j \in DOMAIN code : MatchIndexStoreThenLoad(code, j)}}
      kept == SelectSeq([i \in DOMAIN code |-> i], LAMBDA i : i \notin omitted)
  IN  [k \in DOMAIN kept |-> code[kept[k]]]
================================================================================
