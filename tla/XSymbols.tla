-------------------------------- MODULE XSymbols --------------------------------
(***************************************************************************)
(* What the X compiler (src/xcmp.hpp) does with the tree before it         *)
(* generates code: the symbol table, ConstProp and OptimiseExpr.           *)
(*                                                                         *)
(* The part of the symbol table that a procedure sees is a function of     *)
(* names to symbols, its scope over the global one.  A symbol has the kind *)
(* of its declaration and the value that ConstProp has given it, if any.   *)
(***************************************************************************)
EXTENDS XLanguage, FiniteSetsExt

IsConst(e) == e.const # <<>>

Value(e) == e.const[1]

IsConstZero(e) == IsConst(e) /\ Value(e) = 0

--------------------------------------------------------------------------------
(***************************************************************************)
(* Constant propagation.                                                   *)
(***************************************************************************)
FoldBinary(op, a, b) ==
  CASE op = "and" -> Truth(a # 0 /\ b # 0)
    [] op = "or" -> Truth(a # 0 \/ b # 0)
    [] OTHER -> Apply(op, a, b)

FoldUnary(op, a) == IF op = "-" THEN Word(-a) ELSE Truth(a = 0)

\* A name of a constant that is called is a system call of that number.
CallOf(symbols, e) ==
  IF symbols[e.name].const # <<>> THEN SysCall(symbols[e.name].const[1], e.args) ELSE e

RECURSIVE ConstProp(_, _)

ConstProp(symbols, e) ==
  CASE e.kind \in {"num", "bool"} -> [e EXCEPT !.const = <<e.value>>]
    [] e.kind = "ref" -> [e EXCEPT !.const = symbols[e.name].const]
    [] e.kind = "sub" -> [e EXCEPT !.index = ConstProp(symbols, @)]
    [] e.kind = "syscall" ->
         [e EXCEPT !.args = [i \in DOMAIN @ |-> ConstProp(symbols, @[i])]]
    [] e.kind = "call" ->
         CallOf(symbols, [e EXCEPT !.args = [i \in DOMAIN @ |-> ConstProp(symbols, @[i])]])
    [] e.kind = "unary" ->
         LET x == ConstProp(symbols, e.element)
         IN  [e EXCEPT !.element = x,
                !.const = IF IsConst(x) THEN <<FoldUnary(e.op, Value(x))>> ELSE <<>>]
    [] e.kind = "binary" ->
         LET l == ConstProp(symbols, e.lhs)
             r == ConstProp(symbols, e.rhs)
         IN  [e EXCEPT !.lhs = l, !.rhs = r,
                !.const = IF IsConst(l) /\ IsConst(r)
                          THEN <<FoldBinary(e.op, Value(l), Value(r))>> ELSE <<>>]

--------------------------------------------------------------------------------
(***************************************************************************)
(* The symbol table.  The last declaration of a name in a scope counts,    *)
(* and the names of a scope count before the global ones.                  *)
(***************************************************************************)
Symbol(kind) == [kind |-> kind, const |-> <<>>]

Inserted(symbols, scope) ==
  FoldLeft(LAMBDA table, decl : (decl.name :> Symbol(decl.kind)) @@ table, symbols, scope)

\* ConstProp reaches the declarations of a scope in order; the value it gives to a
\* constant is there for whoever comes later.
Propagated(symbols, scope) ==
  FoldLeft(LAMBDA table, decl :
             IF decl.kind = "val" /\ "expr" \in DOMAIN decl
             THEN [table EXCEPT ![decl.name].const = ConstProp(table, decl.expr).const]
             ELSE table,
           symbols, scope)

ProcSymbols(program) ==
  [i \in DOMAIN program.procs |->
     [kind |-> IF program.procs[i].isFunction THEN "func" ELSE "proc",
      name |-> program.procs[i].name]]

\* The global symbols, and what each procedure sees.
SymbolTable(program) ==
  LET globals ==
        Propagated(Inserted(<<>>, program.globals \o ProcSymbols(program)), program.globals)
      SeenBy(p) == Propagated(Inserted(globals, p.formals \o p.locals), p.locals)
  IN  [globals |-> globals,
       procs |-> [i \in DOMAIN program.procs |-> SeenBy(program.procs[i])]]

--------------------------------------------------------------------------------
(***************************************************************************)
(* Names: every reference and every call is looked up, first in the scope  *)
(* of its procedure; the name of an array with a subscript is not.         *)
(***************************************************************************)
RECURSIVE Subexpressions(_), StatementExprs(_)

Subexpressions(e) ==
  {e} \cup CASE e.kind = "sub" -> Subexpressions(e.index)
             [] e.kind = "unary" -> Subexpressions(e.element)
             [] e.kind = "binary" -> Subexpressions(e.lhs) \cup Subexpressions(e.rhs)
             [] e.kind \in {"call", "syscall"} -> UNION {Subexpressions(a) : a \in ToSet(e.args)}
             [] OTHER -> {}

\* The expressions of a statement, each with its parts.
StatementExprs(s) ==
  LET Of(names) == UNION {Subexpressions(s[name]) : name \in names}
  IN  CASE s.kind = "if" -> Of({"cond"}) \cup StatementExprs(s.then) \cup StatementExprs(s.else)
        [] s.kind = "while" -> Of({"cond"}) \cup StatementExprs(s.body)
        [] s.kind = "seq" -> UNION {StatementExprs(t) : t \in ToSet(s.stmts)}
        [] s.kind = "par" -> UNION {StatementExprs(t) : t \in ToSet(s.branches)}
        [] OTHER -> Of(DOMAIN s \cap {"expr", "call", "target", "chan"})

DeclExprs(decls) ==
  UNION {Subexpressions(decl.expr) : decl \in {d \in ToSet(decls) : "expr" \in DOMAIN d}}

ProcExprs(p) == DeclExprs(p.locals) \cup StatementExprs(p.body)

\* lookup finds all that exprs name among these symbols.
AreKnown(exprs, symbols) ==
  \A e \in exprs : e.kind \in {"ref", "call"} => e.name \in DOMAIN symbols

AreNamesKnown(program) ==
  LET globals == Inserted(<<>>, program.globals \o ProcSymbols(program))
  IN  /\ AreKnown(DeclExprs(program.globals), globals)
      /\ \A p \in ToSet(program.procs) :
           AreKnown(ProcExprs(p), Inserted(globals, p.formals \o p.locals))

IsSysCallValid(e) == e.kind = "syscall" => e.id \in 0 .. 2

AreSysCallsValid(program, table) ==
  \A i \in DOMAIN program.procs : \A e \in ProcExprs(program.procs[i]) :
    IsSysCallValid(IF e.kind = "call" THEN CallOf(table.procs[i], e) ELSE e)

--------------------------------------------------------------------------------
(***************************************************************************)
(* Expression optimisation.  The new nodes are not constants, even where   *)
(* the ones they replace were.                                             *)
(***************************************************************************)
Rewritten(e) ==
  CASE e.kind = "binary" /\ e.op = "~=" -> Unary("~", Binary("=", e.lhs, e.rhs))
    [] e.kind = "binary" /\ e.op = ">=" -> Unary("~", Binary("<", e.lhs, e.rhs))
    [] e.kind = "binary" /\ e.op = ">" -> Binary("<", e.rhs, e.lhs)
    [] e.kind = "binary" /\ e.op = "<=" -> Unary("~", Binary("<", e.rhs, e.lhs))
    [] e.kind = "unary" /\ e.op = "-" /\ ~IsConst(e) -> Binary("-", Num(0), e.element)
    [] OTHER -> e

RECURSIVE OptimiseExpr(_)

OptimiseExpr(e) ==
  CASE e.kind = "sub" -> [e EXCEPT !.index = OptimiseExpr(@)]
    [] e.kind \in {"call", "syscall"} ->
         [e EXCEPT !.args = [i \in DOMAIN @ |-> OptimiseExpr(@[i])]]
    [] e.kind = "unary" /\ ~IsConst(e) ->
         Rewritten([e EXCEPT !.element = OptimiseExpr(@)])
    [] e.kind = "binary" /\ ~IsConst(e) ->
         Rewritten([e EXCEPT !.lhs = OptimiseExpr(@), !.rhs = OptimiseExpr(@)])
    [] OTHER -> Rewritten(e)
================================================================================
