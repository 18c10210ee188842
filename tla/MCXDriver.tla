------------------------------- MODULE MCXDriver -------------------------------
(***************************************************************************)
(* Programs and what is nearly one for XDriver, and small networks.        *)
(***************************************************************************)
EXTENDS XDriver, MCXPrograms

MCInputs ==
  [from \in {<<"console", 0>>} \cup ({"file"} \X (0 .. 3)) \cup ({"channel"} \X (0 .. 3)) |->
     CASE from[1] = "channel" -> <<>>
       [] from[1] = "file" -> <<from[2] + 10>>
       [] from[1] = "console" -> <<7, 8>>]

Chan(name) == Formal("chan", name)

a == Ref("a")

b == Ref("b")

i == Ref("i")

w == Ref("w")

Plus(e, n) == Binary("+", e, Num(n))

Process(name, formals, stmts) ==
  ProcDecl(name, FALSE, [k \in DOMAIN formals |-> Chan(formals[k])],
           <<VarD("i"), VarD("w")>>, SeqS(<<AssS(i, Num(0))>> \o stmts))

While2(stmts) ==
  WhileS(Binary("<", i, Num(2)), SeqS(stmts \o <<AssS(i, Plus(i, 1))>>))

--------------------------------------------------------------------------------
(***************************************************************************)
(* Processes.                                                              *)
(***************************************************************************)
\* Sends the words of a file, and their end.
Source == Process("source", <<"a">>, <<While2(<<OutS(a, Call("get", <<Num(16)>>))>>)>>)

Relaying == Process("relaying", <<"a", "b">>, <<While2(<<InS(a, w), OutS(b, Plus(w, 1))>>)>>)

\* Writes what it gets, and by an element of an array.
Sink ==
  Process("sink", <<"a">>,
          <<While2(<<InS(a, Sub("v", i)), CallS(Call("put", <<Sub("v", i), Num(0)>>))>>)>>)

\* The other way round: as the last of its formals it writes.
Replies == Process("replies", <<"a", "b">>, <<InS(b, w), OutS(a, Call("dec", <<w>>))>>)

Asks == Process("asks", <<"a", "b">>,
          <<OutS(a, Num(5)), InS(b, w), CallS(Call("put", <<w, Num(16)>>))>>)

\* Sends to three, in an order of its own.
Farmer == Process("farmer", <<"a", "b", "c">>,
            <<OutS(Ref("c"), Num(3)), OutS(a, Num(1)), OutS(b, Num(2)), StopS>>)

\* Takes the second word first.
Crossed == Process("crossed", <<"a", "b">>, <<InS(b, w), InS(a, i)>>)

Straight == Process("straight", <<"a", "b">>, <<OutS(a, Num(1)), OutS(b, Num(2))>>)

\* Listens only if somebody has told it to, and else speaks.
Chooses == Process("chooses", <<"a", "b">>,
             <<InS(a, w), IfS(Binary("=", w, Num(1)), OutS(b, w), SkipS)>>)

\* Leaves the reading to a procedure that it calls.
Hands == Process("hands", <<"a">>, <<CallS(Call("sink", <<a>>))>>)

\* Types a word, and the next word when it has been sent one.
Types == Process("types", <<"a">>, <<OutS(a, Call("get", <<Num(0)>>))>>)

TypesNext == Process("typesnext", <<"a", "b">>,
               <<InS(a, w), OutS(b, Call("get", <<Num(0)>>)), CallS(Call("put", <<w, Num(0)>>))>>)

\* Reads on beyond what it is sent.
Greedy == Process("greedy", <<"a">>, <<While2(<<InS(a, w)>>), InS(a, w)>>)

Processes ==
  <<Dec, Source, Relaying, Sink, Replies, Asks, Farmer, Crossed, Straight, Chooses, Hands,
    Types, TypesNext, Greedy>>

--------------------------------------------------------------------------------
(***************************************************************************)
(* Networks.                                                               *)
(***************************************************************************)
P(name, channels) == CallS(Call(name, [k \in DOMAIN channels |-> Ref(channels[k])]))

Main(locals, body) == ProcDecl("main", FALSE, <<>>, locals, body)

Globals == <<ValD("put", Num(1)), ValD("get", Binary("+", Ref("put"), Num(1))), ArrayD("v", Num(2))>>

\* main may come before the processes or after them.
NetworkOf(branches) ==
  Program(Globals, Processes \o <<Main(<<ChanD("c"), ChanD("d"), ChanD("e"), ChanD("f")>>, ParS(branches))>>)

MainFirst(branches) ==
  Program(<<ChanD("c")>> \o Globals, <<Main(<<>>, ParS(branches))>> \o Processes)

Networks ==
  { NetworkOf(<<P("source", <<"c">>), P("sink", <<"c">>)>>),
    MainFirst(<<P("sink", <<"c">>), P("source", <<"c">>)>>),
    NetworkOf(<<P("source", <<"c">>), P("relaying", <<"c", "d">>), P("sink", <<"d">>)>>),
    NetworkOf(<<P("sink", <<"e">>), P("relaying", <<"d", "e">>), P("source", <<"d">>)>>),
    NetworkOf(<<P("asks", <<"c", "d">>), P("replies", <<"d", "c">>)>>),
    NetworkOf(<<P("replies", <<"d", "c">>), P("asks", <<"c", "d">>)>>),
    NetworkOf(<<P("farmer", <<"c", "d", "e">>), P("greedy", <<"d">>), P("greedy", <<"e">>),
                P("chooses", <<"c", "f">>), P("greedy", <<"f">>)>>),
    NetworkOf(<<P("straight", <<"c", "d">>), P("relaying", <<"c", "e">>), P("chooses", <<"d", "f">>),
                P("greedy", <<"e">>), P("sink", <<"f">>)>>),
    NetworkOf(<<P("straight", <<"c", "d">>), P("crossed", <<"c", "d">>)>>),
    NetworkOf(<<P("types", <<"c">>), P("typesnext", <<"c", "d">>), P("typesnext", <<"d", "e">>),
                P("greedy", <<"e">>)>>),
    NetworkOf(<<P("straight", <<"c", "d">>), P("replies", <<"e", "d">>), P("chooses", <<"e", "f">>),
                P("greedy", <<"c">>), P("greedy", <<"f">>)>>),
    NetworkOf(<<P("relaying", <<"c", "d">>), P("relaying", <<"d", "c">>)>>),
    NetworkOf(<<P("asks", <<"c", "d">>), P("relaying", <<"c", "e">>), P("relaying", <<"e", "d">>)>>),
    NetworkOf(<<P("asks", <<"c", "c">>)>>) }

\* Networks that are none.
NoNetworks ==
  { NetworkOf(<<P("source", <<"c">>)>>),
    NetworkOf(<<P("sink", <<"c">>), P("greedy", <<"c">>)>>),
    NetworkOf(<<P("source", <<"c">>), P("sink", <<"c">>), P("greedy", <<"c">>)>>),
    NetworkOf(<<P("source", <<"c">>), P("hands", <<"c">>)>>),
    NetworkOf(<<P("source", <<"c", "d">>), P("relaying", <<"c", "d">>)>>),
    NetworkOf(<<P("put", <<"c">>), P("sink", <<"c">>)>>),
    NetworkOf(<<CallS(Call("source", <<Num(0)>>))>>),
    NetworkOf(<<CallS(SysCall(0, <<Num(0)>>))>>) }

\* Sequential programs: without a main, with a channel that is not wired, with a name
\* that is not there, with a call of what is no procedure or no system call.
Sequential ==
  {Program(Globals, Processes)}
  \cup
  { Program(Globals, Processes \o <<Main(<<>>, body)>>) :
      body \in { CallS(Call("put", <<Call("dec", <<Num(8)>>), Num(0)>>)),
                 CallS(Call("source", <<Num(0)>>)),
                 AssS(Sub("u", Num(0)), Num(1)),
                 CallS(Call("u", <<>>)), CallS(Call("v", <<>>)), AssS(x, Num(0)), CallS(SysCall(3, <<>>)) } }

--------------------------------------------------------------------------------
(***************************************************************************)
(* Sources.                                                                *)
(***************************************************************************)
AsWritten(program, action) ==
  [tokens |-> ProgramTokens(program), action |-> action, meant |-> <<program>>]

\* A program with one token less, twice the same one, two in the wrong order, or
\* one more at the end.
Damaged(tokens) ==
  {RemoveAt(tokens, k) : k \in DOMAIN tokens}
  \cup {InsertAt(tokens, k, tokens[k]) : k \in DOMAIN tokens}
  \cup {[tokens EXCEPT ![k] = tokens[k + 1], ![k + 1] = tokens[k]] : k \in 1 .. Len(tokens) - 1}
  \cup {tokens \o <<T(")")>>, tokens \o <<T(";"), T("skip")>>}

\* Programs of which every kind of declaration, statement and expression is one.
Short ==
  { Program(<<ValD("get", Num(2)), ArrayD("v", Binary("+", Ref("get"), Num(1)))>>,
            <<Dec, Main(<<VarD("x")>>,
                IfS(Binary("and", x, Binary("and", Unary("~", x), Bool(TRUE))),
                    AssS(Sub("v", Num(1)), Binary("-", x, Binary("-", Num(3), Call("dec", <<x>>)))),
                    WhileS(Binary("<", Num(0), x), ReturnS(Num(1)))))>>),
    Program(<<ChanD("c")>>,
            <<ProcDecl("p", FALSE, <<Chan("a"), Formal("array", "v")>>, <<>>,
                SeqS(<<OutS(a, Num(1)), InS(a, Sub("v", Num(0))), StopS, SkipS>>)),
              Main(<<>>, ParS(<<CallS(Call("p", <<Ref("c")>>)), CallS(SysCall(0, <<Num(0)>>))>>))>>) }

\* Statements in statements in statements.
Simple ==
  {SkipS, StopS, ReturnS(x), AssS(Sub("v", x), y), OutS(x, y), InS(x, y),
   CallS(Call("dec", <<x, y>>)), CallS(SysCall(0, <<>>))}

Around(statements) ==
  {IfS(y, s, t) : s, t \in statements} \cup {SeqS(<<s, t>>) : s, t \in statements}
  \cup {WhileS(y, s) : s \in statements}

Bodies ==
  Around(Simple)
  \cup Around({IfS(x, SkipS, SkipS), SeqS(<<SkipS>>), WhileS(x, SkipS), ParS(<<CallS(Call("p", <<>>))>>)})

\* What is only parsed.
Parseable ==
  ToSet(ExpressionPrograms(Flat \o Nested \o Actuals))
  \cup {Program(<<ArrayD("v", Num(1))>>, <<Dec, Main(<<VarD("x"), VarD("y"), VarD("p")>>, body)>>) :
          body \in Bodies}

MCSources ==
  {AsWritten(program, "EMIT_BINARY") : program \in Networks \cup NoNetworks \cup Sequential}
  \cup {AsWritten(program, "EMIT_TREE") : program \in Parseable}
  \cup {[tokens |-> tokens, action |-> "EMIT_TREE", meant |-> <<>>] :
          tokens \in UNION {Damaged(ProgramTokens(program)) : program \in Short}}
================================================================================
