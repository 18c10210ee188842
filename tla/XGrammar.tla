-------------------------------- MODULE XGrammar --------------------------------
(***************************************************************************)
(* How programs in X are written: the tokens of a tree, with no bracket    *)
(* that the grammar in the comments of the parser does not ask for.        *)
(***************************************************************************)
EXTENDS XLanguage

T(kind) == <<kind>>

Name(n) == <<"identifier", n>>

\* Sequences of tokens, with a token between them.
Joined(parts, sep) ==
  FlattenSeq([k \in DOMAIN parts |-> IF k = 1 THEN parts[k] ELSE <<T(sep)>> \o parts[k]])

RECURSIVE ExprTokens(_)

Bracketed(ts) == <<T("(")>> \o ts \o <<T(")")>>

Listed(es) == Bracketed(Joined([k \in DOMAIN es |-> ExprTokens(es[k])], ","))

ElementTokens(e) ==
  CASE e.kind = "num" -> <<<<"number", e.value>>>>
    [] e.kind = "bool" -> <<T(IF e.value = 1 THEN "true" ELSE "false")>>
    [] e.kind = "ref" -> <<Name(e.name)>>
    [] e.kind = "sub" -> <<Name(e.name), T("[")>> \o ExprTokens(e.index) \o <<T("]")>>
    [] e.kind = "call" -> <<Name(e.name)>> \o Listed(e.args)
    [] e.kind = "syscall" -> <<<<"number", e.id>>>> \o Listed(e.args)
    [] e.kind \in {"unary", "binary"} -> Bracketed(ExprTokens(e))

\* A chain of an associative operator is a tree to the right.
Chains(e) == e.op \in {"and", "or", "+"} /\ e.rhs.kind = "binary" /\ e.rhs.op = e.op

ExprTokens(e) ==
  CASE e.kind = "unary" -> <<T(e.op)>> \o ElementTokens(e.element)
    [] e.kind = "binary" ->
         ElementTokens(e.lhs) \o <<T(e.op)>>
         \o (IF Chains(e) THEN ExprTokens(e.rhs) ELSE ElementTokens(e.rhs))
    [] OTHER -> ElementTokens(e)

DeclTokens(decl) ==
  <<T(decl.kind), Name(decl.name)>>
  \o (CASE decl.kind = "val" -> <<T("=")>> \o ExprTokens(decl.expr)
        [] decl.kind = "array" -> <<T("[")>> \o ExprTokens(decl.expr) \o <<T("]")>>
        [] OTHER -> <<>>)
  \o <<T(";")>>

RECURSIVE StatementTokens(_)

Block(ss) ==
  <<T("{")>> \o Joined([k \in DOMAIN ss |-> StatementTokens(ss[k])], ";") \o <<T("}")>>

StatementTokens(s) ==
  CASE s.kind \in {"skip", "stop"} -> <<T(s.kind)>>
    [] s.kind = "return" -> <<T("return")>> \o ExprTokens(s.expr)
    [] s.kind = "if" ->
         <<T("if")>> \o ExprTokens(s.cond) \o <<T("then")>> \o StatementTokens(s.then)
         \o <<T("else")>> \o StatementTokens(s.else)
    [] s.kind = "while" ->
         <<T("while")>> \o ExprTokens(s.cond) \o <<T("do")>> \o StatementTokens(s.body)
    [] s.kind = "seq" -> Block(s.stmts)
    [] s.kind = "par" -> <<T("par")>> \o Block(s.branches)
    [] s.kind = "do" -> ElementTokens(s.call)
    [] s.kind = "ass" -> ElementTokens(s.target) \o <<T(":=")>> \o ExprTokens(s.expr)
    [] s.kind = "out" -> ElementTokens(s.chan) \o <<T("!")>> \o ExprTokens(s.expr)
    [] s.kind = "in" -> ElementTokens(s.chan) \o <<T("?")>> \o ElementTokens(s.target)

ProcTokens(p) ==
  <<T(IF p.isFunction THEN "func" ELSE "proc"), Name(p.name)>>
  \o Bracketed(Joined([k \in DOMAIN p.formals |->
                         <<T(p.formals[k].kind), Name(p.formals[k].name)>>], ","))
  \o <<T("is")>>
  \o FlattenSeq([k \in DOMAIN p.locals |-> DeclTokens(p.locals[k])])
  \o StatementTokens(p.body)

ProgramTokens(program) ==
  FlattenSeq([k \in DOMAIN program.globals |-> DeclTokens(program.globals[k])])
  \o FlattenSeq([k \in DOMAIN program.procs |-> ProcTokens(program.procs[k])])
================================================================================
