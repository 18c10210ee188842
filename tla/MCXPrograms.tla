------------------------------ MODULE MCXPrograms ------------------------------
(***************************************************************************)
(* Small X programs for XMachine and XDriver.                              *)
(***************************************************************************)
EXTENDS XProcessor

x == Ref("x")

y == Ref("y")

Val(name) == Formal("val", name)

\* Functions and procedures to call, with frames of several sizes.
Dec == ProcDecl("dec", TRUE, <<Val("a")>>, <<>>, ReturnS(Binary("-", Ref("a"), Num(1))))

Diff == ProcDecl("diff", TRUE, <<Val("a"), Val("b")>>, <<VarD("t")>>,
          SeqS(<<AssS(Ref("t"), Call("dec", <<Ref("a")>>)),
                 ReturnS(Binary("-", Binary("+", Ref("t"), Num(1)), Ref("b")))>>))

\* The sum of the numbers up to a.
Sum == ProcDecl("sum", TRUE, <<Val("a")>>, <<>>,
         IfS(Binary("<", Ref("a"), Num(1)),
             ReturnS(Num(0)),
             ReturnS(Binary("+", Ref("a"), Call("sum", <<Binary("-", Ref("a"), Num(1))>>)))))

\* Sends the numbers from its argument down to 1, and returns early from the loop.
Down == ProcDecl("down", FALSE, <<Formal("chan", "c"), Val("n")>>,
          <<ValD("last", Binary("-", Ref("put"), Num(1))), VarD("i")>>,
          SeqS(<<AssS(Ref("i"), Ref("n")),
                 WhileS(Bool(TRUE),
                   SeqS(<<IfS(Binary("=", Ref("i"), Ref("last")), ReturnS(Num(0)), SkipS),
                          OutS(Ref("c"), Ref("i")),
                          AssS(Ref("i"), Call("dec", <<Ref("i")>>))>>))>>))

\* Gets a word from a channel into an element of an array, and writes it.
Relay == ProcDecl("relay", FALSE,
           <<Formal("chan", "c"), Val("i"), Formal("array", "a")>>, <<>>,
           SeqS(<<InS(Ref("c"), Sub("a", Binary("-", Ref("i"), Num(1)))),
                  CallS(Call("put", <<Sub("a", Binary("-", Ref("i"), Num(1))), Num(0)>>))>>))

\* Two words from one stream to another, where a local has the name of a constant.
Copy == ProcDecl("copy", FALSE, <<Val("from"), Val("to")>>, <<VarD("size")>>,
          SeqS(<<AssS(Ref("size"), Num(2)),
                 WhileS(Binary(">", Ref("size"), Num(0)),
                   SeqS(<<CallS(Call("put", <<Call("get", <<Ref("from")>>), Ref("to")>>)),
                          AssS(Ref("size"), Binary("-", Ref("size"), Num(1)))>>))>>))

ProgramOf(procs, main) ==
  Program(<<ValD("put", Num(1)), ValD("get", Binary("+", Ref("put"), Num(1))), VarD("n"),
            ValD("size", Binary("+", Ref("get"), Num(1))), ArrayD("v", Ref("size"))>>,
          procs \o
            <<ProcDecl("main", FALSE, <<>>, <<VarD("x"), ValD("nine", Num(9)), VarD("y")>>,
                SeqS(<<AssS(x, Num(2)), AssS(y, Num(1)), AssS(Ref("n"), Num(12))>> \o main))>>)

\* What main sees.
Scope == LET p == ProgramOf(<<Dec, Diff>>, <<>>) IN [symbols |-> Last(SymbolTable(p).procs)]

Exit(e) == <<CallS(SysCall(0, <<e>>))>>

--------------------------------------------------------------------------------
(***************************************************************************)
(* What the compiler gets wrong.                                           *)
(***************************************************************************)
\* The number of temporaries that an expression without calls needs at once.
RECURSIVE Temporaries(_)

Temporaries(e) ==
  CASE IsConst(e) -> 0
    [] ~IsConst(e) /\ e.kind = "sub" -> Temporaries(e.index)
    [] ~IsConst(e) /\ e.kind = "unary" -> Temporaries(e.element)
    [] ~IsConst(e) /\ e.kind = "binary" ->
         IF NeedsAReg(e.rhs) /\ e.op \notin {"and", "or"}
         THEN Max({Temporaries(e.rhs), 1 + Temporaries(e.lhs)})
         ELSE Max({Temporaries(e.rhs), Temporaries(e.lhs)})
    [] OTHER -> 0

\* A right operand that is folded goes to the wrong register.
FoldedOperand(e) ==
  /\ e.kind = "binary" /\ ~IsConst(e) /\ e.op \notin {"and", "or"}
  /\ e.rhs.kind = "binary" /\ IsConst(e.rhs)

\* A folded "and" or "or" is 1 where the value of its second operand is meant.
FoldedTruth(e) ==
  e.kind = "binary" /\ e.op \in {"and", "or"} /\ IsConst(e.lhs) /\ IsConst(e.rhs)

\* An actual is evaluated over the temporary that keeps the value of a call.
OverCall(args) ==
  \E i, j \in DOMAIN args :
    i < j /\ ContainsCall(args[j]) /\ ~ContainsCall(args[i]) /\ Temporaries(args[i]) > 0

\* An actual is evaluated over an actual that is in its place already.
OverActual(args) ==
  \E i \in DOMAIN args : Temporaries(args[i]) > Len(args) - i + 1

\* A subscript is evaluated twice.
EffectInSubscript(e) == e.kind = "sub" /\ ContainsCall(e.index)

\* Operands are evaluated in an order that nobody promises: reading in both is not
\* a program to check.
Unordered(e) ==
  /\ e.kind = "binary" /\ ~IsConst(e)
  /\ \A operand \in {e.lhs, e.rhs} : \E d \in Subexpressions(operand) : d.kind = "syscall"

Sound(e) ==
  \A d \in Subexpressions(Prepared(Scope, e)) :
    /\ ~Unordered(d)
    /\ ~FoldedOperand(d) /\ ~FoldedTruth(d) /\ ~EffectInSubscript(d)
    /\ d.kind \in {"call", "syscall"} => ~OverCall(d.args) /\ ~OverActual(d.args)

--------------------------------------------------------------------------------
(***************************************************************************)
(* Expressions: operators within operators on either side, and calls       *)
(* within calls and operators.                                             *)
(***************************************************************************)
\* All pairs of an element of s and one of t.
Pairs(s, t) ==
  [k \in 1 .. Len(s) * Len(t) |->
     <<s[1 + ((k - 1) \div Len(t))], t[1 + ((k - 1) % Len(t))]>>]

Binaries(ops, ls, rs) ==
  LET p == Pairs(ops, Pairs(ls, rs))
  IN  [k \in DOMAIN p |-> Binary(p[k][1], p[k][2][1], p[k][2][2])]

Flat ==
  Binaries(<<"-", "=", "<", ">=", "and", "or">>, <<x, y, Num(1)>>, <<x, y, Num(1), Ref("nine")>>)
    \o <<Unary("-", x), Unary("~", x), Unary("-", Num(1)), Unary("~", Num(1)),
         Sub("v", y), Ref("n"), Bool(FALSE)>>

Nested ==
  Binaries(<<"-", "<", "and">>, <<y>>, Flat)
    \o Binaries(<<"+", "=", "or">>, Flat, <<Num(9)>>)
    \o Binaries(<<"-">>, Binaries(<<"-", "or">>, <<x, Sub("v", y)>>, <<y, Num(9)>>),
                Binaries(<<"-", "<=", "~=", ">">>, <<x>>, <<y, Num(9)>>))
    \o [i \in DOMAIN Flat |-> Sub("v", Binary("and", Flat[i], y))]

Dec1(e) == Call("dec", <<e>>)

Actuals ==
  <<x, Num(9), Sub("v", Num(1)), Sub("v", y), Dec1(x), Dec1(Dec1(y)), Call("get", <<Num(0)>>),
    Binary("-", y, Binary("-", x, Num(9))), Binary("<", Dec1(x), Dec1(y)),
    Binary("-", x, Call("diff", <<y, Dec1(x)>>))>>

Calls ==
  LET p == Pairs(Actuals, Actuals)
  IN  [k \in DOMAIN p |-> Call("diff", p[k])]
        \o [k \in DOMAIN p |-> Binary("-", p[k][1], Call("diff", <<p[k][2], x>>))]
        \o [k \in DOMAIN p |-> Call("diff", <<p[k][1], Call("diff", <<p[k][2], y>>)>>)]

ExpressionPrograms(s) ==
  [i \in DOMAIN s |-> ProgramOf(<<Dec, Diff>>, <<AssS(Sub("v", Num(1)), Num(5))>> \o Exit(s[i]))]

--------------------------------------------------------------------------------
(***************************************************************************)
(* Statements.                                                             *)
(***************************************************************************)
Parts ==
  <<SkipS, StopS, ReturnS(Num(0)), AssS(y, Num(0)), CallS(Call("down", <<Num(3), Num(2)>>)),
    IfS(Binary("=", y, Num(1)), SkipS, AssS(x, Num(4)))>>

Statements ==
  LET ifs == Pairs(<<"=", ">">>, Pairs(Parts, Parts))
      elements == Pairs(<<y, Num(1), Dec1(x)>>, <<x, Dec1(x), Binary("-", y, Dec1(x))>>)
  IN  [k \in DOMAIN ifs |-> IfS(Binary(ifs[k][1], x, y), ifs[k][2][1], ifs[k][2][2])]
        \o [k \in DOMAIN elements |->
             AssS(Sub("v", elements[k][1]), Binary("-", elements[k][2], Sub("v", Num(1))))]
        \o [k \in DOMAIN Parts |->
             WhileS(Binary(">", x, Num(0)), SeqS(<<AssS(x, Binary("-", x, Num(1))), Parts[k]>>))]
        \o <<CallS(Call("relay", <<Num(0), x, Ref("v")>>)),
             CallS(Call("relay", <<Num(3), Dec1(x), Ref("v")>>)),
             CallS(Call("copy", <<Num(17), Num(0)>>)), CallS(Call("copy", <<Num(0), Num(100)>>)),
             CallS(Call("copy", <<Num(48), Num(40)>>)),
             OutS(x, Call("sum", <<x>>)), OutS(Ref("get"), Call("sum", <<Num(3)>>)),
             InS(Ref("put"), x), InS(y, Ref("n")), InS(Ref("put"), Sub("v", y))>>

StatementPrograms ==
  [i \in DOMAIN Statements |->
     ProgramOf(<<Dec, Sum, Down, Relay, Copy>>,
             <<Statements[i], CallS(SysCall(1, <<Ref("n"), Num(0)>>)),
               CallS(SysCall(1, <<x, Num(0)>>)), OutS(y, Sub("v", y))>>)]

SoundPrograms ==
  ToSet(ExpressionPrograms(SelectSeq(Flat \o Nested \o Calls, Sound)) \o StatementPrograms)

\* A call with an actual that needs a temporary, and every other actual after it.
ActualsPrograms ==
  ToSet(ExpressionPrograms(
    [i \in DOMAIN Actuals |->
       Call("diff", <<Binary("-", y, Binary("-", x, Num(9))), Actuals[i]>>)]))
================================================================================
