--------------------------------- MODULE XParser ---------------------------------
(***************************************************************************)
(* The parser of X (Parser of src/xcmp.hpp): recursive descent over a      *)
(* sequence of tokens, each a tuple of its kind and, of an identifier or a *)
(* number, its value.                                                      *)
(*                                                                         *)
(* An operator for a syntactic category has the tokens and the place where *)
(* the parser is, and gives what it makes of them and where it then is, or *)
(* Fails where the parser throws.                                          *)
(***************************************************************************)
EXTENDS XLanguage

Kind(ts, at) == IF at <= Len(ts) THEN ts[at][1] ELSE "END_OF_FILE"

Fails == [ok |-> FALSE]

Parsed(tree, at) == [ok |-> TRUE, tree |-> tree, at |-> at]

Then(r, Next(_, _)) == IF r.ok THEN Next(r.tree, r.at) ELSE Fails

\* r, and then a token of this kind.
Expect(r, ts, kind) ==
  IF r.ok /\ Kind(ts, r.at) = kind THEN [r EXCEPT !.at = @ + 1] ELSE Fails

\* Token kind and what comes after it.
Past(ts, at, kind, Parse(_)) == IF Kind(ts, at) = kind THEN Parse(at + 1) ELSE Fails

\* One or more, with sep between them.
Separated(ts, at, sep, Parse(_)) ==
  LET RECURSIVE From(_, _)
      From(list, a) ==
        Then(Parse(a), LAMBDA tree, b :
          IF Kind(ts, b) = sep THEN From(Append(list, tree), b + 1)
          ELSE Parsed(Append(list, tree), b))
  IN  From(<<>>, at)

\* As many as there are that begin with one of kinds.
Starting(ts, at, kinds, Parse(_)) ==
  LET RECURSIVE From(_, _)
      From(list, a) ==
        IF Kind(ts, a) \in kinds
        THEN Then(Parse(a), LAMBDA tree, b : From(Append(list, tree), b))
        ELSE Parsed(list, a)
  IN  From(<<>>, at)

--------------------------------------------------------------------------------
(***************************************************************************)
(* Expressions.  There is no precedence: operators other than those of     *)
(* IsAssociative do not chain.                                             *)
(***************************************************************************)
IsBinaryOp(kind) == kind \in {"+", "-", "or", "and", "=", "~=", "<", "<=", ">", ">="}

IsAssociative(kind) == kind \in {"and", "or", "+"}

RECURSIVE ParseExpr(_, _), ParseElement(_, _), ParseBinOpRHS(_, _, _)

ParseBinOpRHS_Once(ts, at, op) ==
  Then(ParseElement(ts, at), LAMBDA element, b : Parsed(element, b))

ParseBinOpRHS(ts, at, op) ==
  Then(ParseElement(ts, at), LAMBDA element, b :
    IF IsAssociative(op) /\ Kind(ts, b) = op
    THEN Then(ParseBinOpRHS(ts, b + 1, op), LAMBDA rhs, d : Parsed(Binary(op, element, rhs), d))
    ELSE Parsed(element, b))

ParseExpr(ts, at) ==
  IF Kind(ts, at) \in {"-", "~"}
  THEN Then(ParseElement(ts, at + 1), LAMBDA e, b : Parsed(Unary(Kind(ts, at), e), b))
  ELSE Then(ParseElement(ts, at), LAMBDA e, b :
         IF ~IsBinaryOp(Kind(ts, b)) THEN Parsed(e, b)
         ELSE Then(ParseBinOpRHS(ts, b + 1, Kind(ts, b)), LAMBDA rhs, d :
                Parsed(Binary(Kind(ts, b), e, rhs), d)))

\* The actuals of a call, from behind the opening bracket.
ParseActuals(ts, at) ==
  IF Kind(ts, at) = ")" THEN Parsed(<<>>, at + 1)
  ELSE Expect(Separated(ts, at, ",", LAMBDA a : ParseExpr(ts, a)), ts, ")")

ParseElement(ts, at) ==
  LET kind == Kind(ts, at)
      value == ts[at][2]
      next == Kind(ts, at + 1)
  IN  CASE kind = "identifier" /\ next = "[" ->
             Then(Expect(ParseExpr(ts, at + 2), ts, "]"), LAMBDA e, b : Parsed(Sub(value, e), b))
        [] kind = "identifier" /\ next = "(" ->
             Then(ParseActuals(ts, at + 2), LAMBDA args, b : Parsed(Call(value, args), b))
        [] kind = "identifier" /\ next \notin {"[", "("} -> Parsed(Ref(value), at + 1)
        [] kind = "number" /\ next = "(" ->
             Then(ParseActuals(ts, at + 2), LAMBDA args, b : Parsed(SysCall(value, args), b))
        [] kind = "number" /\ next # "(" -> Parsed(Num(value), at + 1)
        [] kind \in {"true", "false"} -> Parsed(Bool(kind = "true"), at + 1)
        [] kind = "(" -> Expect(ParseExpr(ts, at + 1), ts, ")")
        [] OTHER -> Fails

--------------------------------------------------------------------------------
(***************************************************************************)
(* Declarations.                                                           *)
(***************************************************************************)
ParseIdentifier(ts, at) ==
  IF Kind(ts, at) = "identifier" THEN Parsed(ts[at][2], at + 1) ELSE Fails

ParseDecl(ts, at) ==
  Then(ParseIdentifier(ts, at + 1), LAMBDA name, b :
    CASE Kind(ts, at) = "val" ->
           Past(ts, b, "=", LAMBDA a :
             Then(Expect(ParseExpr(ts, a), ts, ";"), LAMBDA e, d : Parsed(ValD(name, e), d)))
      [] Kind(ts, at) = "array" ->
           Past(ts, b, "[", LAMBDA a :
             Then(Expect(Expect(ParseExpr(ts, a), ts, "]"), ts, ";"), LAMBDA e, d :
               Parsed(ArrayD(name, e), d)))
      [] Kind(ts, at) = "var" -> Expect(Parsed(VarD(name), b), ts, ";")
      [] Kind(ts, at) = "chan" -> Expect(Parsed(ChanD(name), b), ts, ";"))

ParseLocalDecls(ts, at) ==
  Starting(ts, at, {"val", "var", "chan"}, LAMBDA a : ParseDecl(ts, a))

ParseGlobalDecls(ts, at) ==
  Starting(ts, at, {"val", "var", "chan", "array"}, LAMBDA a : ParseDecl(ts, a))

ParseFormal(ts, at) ==
  IF Kind(ts, at) \in {"val", "var", "chan", "array", "proc", "func"}
  THEN Then(ParseIdentifier(ts, at + 1), LAMBDA name, b :
         Parsed(Formal(Kind(ts, at), name), b))
  ELSE Fails

--------------------------------------------------------------------------------
(***************************************************************************)
(* Statements.                                                             *)
(***************************************************************************)
RECURSIVE ParseStatement(_, _)

ParseStatements(ts, at) == Separated(ts, at, ";", LAMBDA a : ParseStatement(ts, a))

ParseIf(ts, at) ==
  Then(Expect(ParseExpr(ts, at), ts, "then"), LAMBDA cond, b :
  Then(Expect(ParseStatement(ts, b), ts, "else"), LAMBDA then, d :
  Then(ParseStatement(ts, d), LAMBDA else, f : Parsed(IfS(cond, then, else), f))))

ParseWhile(ts, at) ==
  Then(Expect(ParseExpr(ts, at), ts, "do"), LAMBDA cond, b :
  Then(ParseStatement(ts, b), LAMBDA body, d : Parsed(WhileS(cond, body), d)))

\* Each branch is the call of a procedure, or of the system.
ParsePar(ts, at) ==
  Then(Past(ts, at, "{", LAMBDA a : Expect(ParseStatements(ts, a), ts, "}")), LAMBDA branches, b :
    IF \A k \in DOMAIN branches : branches[k].kind = "do" THEN Parsed(ParS(branches), b)
    ELSE Fails)

\* A statement that begins with an element: a call, an output, an input, an assignment.
ParseSimple(ts, at) ==
  Then(ParseElement(ts, at), LAMBDA e, b :
    CASE e.kind \in {"call", "syscall"} -> Parsed(CallS(e), b)
      [] e.kind = "num" -> Fails
      [] e.kind \in {"ref", "sub"} ->
           CASE Kind(ts, b) = "!" ->
                  Then(ParseExpr(ts, b + 1), LAMBDA x, d : Parsed(OutS(e, x), d))
             [] Kind(ts, b) = "?" ->
                  Then(ParseElement(ts, b + 1), LAMBDA x, d : Parsed(InS(e, x), d))
             [] Kind(ts, b) = ":=" ->
                  Then(ParseExpr(ts, b + 1), LAMBDA x, d : Parsed(AssS(e, x), d))
             [] OTHER -> Fails)

ParseStatement(ts, at) ==
  LET kind == Kind(ts, at)
  IN  CASE kind = "skip" -> Parsed(SkipS, at + 1)
        [] kind = "stop" -> Parsed(StopS, at + 1)
        [] kind = "return" ->
             Then(ParseExpr(ts, at + 1), LAMBDA e, b : Parsed(ReturnS(e), b))
        [] kind = "if" -> ParseIf(ts, at + 1)
        [] kind = "while" -> ParseWhile(ts, at + 1)
        [] kind = "{" ->
             Then(Expect(ParseStatements(ts, at + 1), ts, "}"), LAMBDA body, b :
               Parsed(SeqS(body), b))
        [] kind = "par" -> ParsePar(ts, at + 1)
        [] kind \in {"identifier", "number"} -> ParseSimple(ts, at)
        [] OTHER -> Fails

--------------------------------------------------------------------------------
(***************************************************************************)
(* Procedures and programs.                                                *)
(***************************************************************************)
ParseFormals(ts, at) ==
  IF Kind(ts, at) = ")" THEN Parsed(<<>>, at + 1)
  ELSE Expect(Separated(ts, at, ",", LAMBDA a : ParseFormal(ts, a)), ts, ")")

ParseProcDecl(ts, at) ==
  Then(Expect(ParseIdentifier(ts, at + 1), ts, "("), LAMBDA name, b :
  Then(Expect(ParseFormals(ts, b), ts, "is"), LAMBDA formals, d :
  Then(ParseLocalDecls(ts, d), LAMBDA locals, f :
  Then(ParseStatement(ts, f), LAMBDA body, g :
    Parsed(ProcDecl(name, Kind(ts, at) = "func", formals, locals, body), g)))))

ParseProcDecls(ts, at) ==
  Starting(ts, at, {"proc", "func"}, LAMBDA a : ParseProcDecl(ts, a))

\* The parser goes on by one token before it expects the end of the file.
ParseProgram(ts) ==
  Then(ParseGlobalDecls(ts, 1), LAMBDA globals, b :
  Then(ParseProcDecls(ts, b), LAMBDA procs, d :
    IF Kind(ts, d + 1) = "END_OF_FILE" THEN Parsed(Program(globals, procs), d + 1) ELSE Fails))
================================================================================
