-------------------------------- MODULE XDriver --------------------------------
(***************************************************************************)
(* An X program on its whole way: the compiler (Driver::run of             *)
(* src/xcmp.hpp) reads its tokens and makes a network of it, one image for *)
(* each processor and the edges between their link slots, and the          *)
(* simulator (System of src/hexsim.hpp) loads the network and runs it.     *)
(*                                                                         *)
(* A processor takes its turn when it is the next one in the round that    *)
(* neither has halted nor is blocked.  A channel holds at most one of its  *)
(* ends, the one that is blocked at it.                                    *)
(***************************************************************************)
EXTENDS XProcessor, XNetwork, XParser, XGrammar

CONSTANTS
  Sources,         \* what there is to compile: tokens, what to make of them, and
                   \* the program they are meant to be, if any
  Inputs,          \* what there is to read, for each source
  MaxTurns         \* a bound on what it takes to find out what a network means

VARIABLES
  source,          \* what is compiled
  phase,           \* what is done next, or how it has ended
  tree,            \* the program, from when it is parsed
  network,         \* the entries of the processors, and the edges
  images,          \* the images compiled so far
  cpus,            \* the processors, from when the network is loaded
  blocked,         \* those that wait for a partner
  turn,            \* the processor that had the last turn
  meaning          \* what each process should do

vars == <<source, phase, tree, network, images, cpus, blocked, turn, meaning>>

Failures == {"syntax error", "semantic error", "network error"}

Outcomes == Failures \cup {"printed", "unwired", "deadlock", "halted"}

Init ==
  /\ source \in Sources
  /\ phase = "parse"
  /\ tree = Program(<<>>, <<>>)
  /\ network = [entries |-> <<>>, edges |-> {}]
  /\ images = <<>>
  /\ cpus = <<>>
  /\ meaning = <<>>
  /\ blocked = {}
  /\ turn = 0

--------------------------------------------------------------------------------
(***************************************************************************)
(* The compiler.                                                           *)
(***************************************************************************)
Compiling(here, next) ==
  /\ phase = here
  /\ phase' = next
  /\ UNCHANGED <<source, cpus, blocked, turn, meaning>>

Parse ==
  LET parsed == ParseProgram(source.tokens)
  IN  /\ Compiling("parse", IF parsed.ok THEN "resolve" ELSE "syntax error")
      /\ tree' = IF parsed.ok THEN parsed.tree ELSE tree
      /\ UNCHANGED <<network, images>>

\* CreateSymbols and ConstProp, after which the tree may be printed.
Resolve ==
  LET valid == AreNamesKnown(tree) /\ AreSysCallsValid(tree, SymbolTable(tree))
  IN  /\ Compiling("resolve", IF ~valid THEN "semantic error"
                              ELSE IF source.action = "EMIT_TREE" THEN "printed" ELSE "analyse")
      /\ UNCHANGED <<tree, network, images>>

\* A sequential program is an image on its own.
Analyse ==
  LET found == IF IsNetwork(tree) THEN AnalyseNetwork(tree)
               ELSE <<[entries |-> <<"main">>, edges |-> {}]>>
  IN  /\ Compiling("analyse", IF found = <<>> THEN "network error" ELSE "compile")
      /\ network' = IF found = <<>> THEN network ELSE found[1]
      /\ UNCHANGED <<tree, images>>

\* Of a network the next entry, with the peephole pass.
CompileImage ==
  /\ Len(images) < Len(network.entries)
  /\ \E program \in {IF IsNetwork(tree)
                     THEN ProcessorProgram(tree, network.entries[Len(images) + 1]) ELSE tree} :
       \/ /\ CanBeCompiled(program, SymbolTable(program))
          /\ Compiling("compile", "compile")
          /\ \E image \in Optimised(program) : images' = Append(images, image)
       \/ /\ ~CanBeCompiled(program, SymbolTable(program))
          /\ Compiling("compile", "semantic error")
          /\ UNCHANGED images
  /\ UNCHANGED <<tree, network>>

--------------------------------------------------------------------------------
(***************************************************************************)
(* The simulator.                                                          *)
(***************************************************************************)
\* loadNetwork, from the file that the compiler has written.
Load ==
  /\ phase = "compile"
  /\ Len(images) = Len(network.entries)
  /\ phase' = "run"
  /\ cpus' = [p \in DOMAIN images |-> Started(images[p], Inputs)]
  /\ meaning' = IF IsNetwork(tree)
                THEN NetworkMeaning(tree, Branches(tree), Inputs, MaxTurns)
                ELSE <<Meaning(tree, Call("main", <<>>), Inputs)>>
  /\ UNCHANGED <<source, tree, network, images, blocked, turn>>

Instruction(p) == Here(images[p], cpus[p])

Runnable == {p \in DOMAIN cpus : cpus[p].running} \ blocked

\* The next processor of the round, or of the next round.
Turn(p) ==
  /\ phase = "run"
  /\ p \in Runnable
  /\ LET later == {q \in Runnable : q > turn}
     IN  p = Min(IF later # {} THEN later ELSE Runnable)
  /\ turn' = p
  /\ UNCHANGED <<source, tree, network, images, meaning>>

\* The processors read one console, System::in, the files each for itself.
Sharing_Not(all, reader) == all

Sharing(all, reader) ==
  [q \in DOMAIN all |->
     [all[q] EXCEPT !.io.left[IO!Console] = all[reader].io.left[IO!Console]]]

Execute(p) ==
  /\ Turn(p)
  /\ IsLocal(images[p], cpus[p])
  /\ cpus' = Sharing([cpus EXCEPT ![p] = AfterLocal(images[p], @)], p)
  /\ UNCHANGED <<phase, blocked>>

\* The link that a processor names in breg.
LinkOf(p) == <<p, cpus[p].breg>>

\* The ends that are wired to the other end of a link.
OtherEnds(link) == UNION {edge \ {link} : edge \in {f \in network.edges : link \in f}}

\* q waits at the other end of the link of p, to do op.
Awaits(q, op, p) == q \in blocked /\ LinkOf(q) \in OtherEnds(LinkOf(p)) /\ Instruction(q).op = op

AtChannel(p, op) == Turn(p) /\ Instruction(p).op = op /\ OtherEnds(LinkOf(p)) # {}

\* A word goes from p to q, one of whom was blocked.
Transfer_NotWoken(p, q) ==
  /\ cpus' = [cpus EXCEPT ![p] = AfterOut(@), ![q] = AfterIn(@, cpus[p].areg)]
  /\ UNCHANGED <<phase, blocked>>

Transfer(p, q) ==
  /\ cpus' = [cpus EXCEPT ![p] = AfterOut(@), ![q] = AfterIn(@, cpus[p].areg)]
  /\ blocked' = blocked \ {p, q}
  /\ UNCHANGED phase

Send(p) == AtChannel(p, "OUT") /\ \E q \in blocked : Awaits(q, "IN", p) /\ Transfer(p, q)

Receive(p) == AtChannel(p, "IN") /\ \E q \in blocked : Awaits(q, "OUT", p) /\ Transfer(q, p)

Park_Anyway(p, op, partner) ==
  /\ AtChannel(p, op)
  /\ blocked' = blocked \cup {p}
  /\ UNCHANGED <<phase, cpus>>

Park(p, op, partner) ==
  /\ AtChannel(p, op)
  /\ \A q \in blocked : ~Awaits(q, partner, p)
  /\ blocked' = blocked \cup {p}
  /\ UNCHANGED <<phase, cpus>>

\* A slot that no edge names: the simulator throws an exception.
Unwired(p) ==
  /\ Turn(p)
  /\ ~IsLocal(images[p], cpus[p]) /\ OtherEnds(LinkOf(p)) = {}
  /\ phase' = "unwired"
  /\ UNCHANGED <<cpus, blocked>>

\* The run ends when nobody can go on.
EndOfRun ==
  /\ phase = "run" /\ Runnable = {}
  /\ phase' = IF blocked = {} THEN "halted" ELSE "deadlock"
  /\ UNCHANGED <<source, tree, network, images, cpus, blocked, turn, meaning>>

Finished == phase \in Outcomes /\ UNCHANGED vars

Compile == Parse \/ Resolve \/ Analyse \/ CompileImage

Run ==
  \E p \in DOMAIN cpus :
    \/ Execute(p)
    \/ Send(p) \/ Receive(p)
    \/ Park(p, "OUT", "IN") \/ Park(p, "IN", "OUT")
    \/ Unwired(p)

Next == Compile \/ Load \/ Run \/ EndOfRun \/ Finished

\* The simulator goes on.
Spec == Init /\ [][Next]_vars /\ WF_vars(Run \/ EndOfRun)

--------------------------------------------------------------------------------
(***************************************************************************)
(* Properties.                                                             *)
(***************************************************************************)
\* The processors stay in their programs, and those that are blocked are where
\* they wait: at a channel.
TypeOK ==
  /\ phase \in Outcomes \cup {"parse", "resolve", "analyse", "compile", "run"}
  /\ \A p \in DOMAIN cpus : cpus[p].pc \in DOMAIN images[p].code
  /\ \A p \in blocked : Instruction(p).op \in {"OUT", "IN"} /\ cpus[p].running

Unbracketed(tokens) == SelectSeq(tokens, LAMBDA t : t[1] \notin {"(", ")"})

\* A program that is written as the grammar has it is parsed to what is meant, and
\* whatever else is parsed is, but for brackets and one token that may follow it,
\* the tree that comes out.
ParsesWhatIsWritten ==
  /\ source.meant # <<>> => phase # "syntax error"
  /\ phase = "resolve" =>
       LET text == Unbracketed(ProgramTokens(tree))
           read == Unbracketed(source.tokens)
       IN  /\ source.meant # <<>> => source.meant = <<tree>>
           /\ IsPrefix(text, read) /\ Len(read) <= Len(text) + 1

\* A process of a network uses no slot but those that the compiler has wired.
NoUnwiredSlot == IsNetwork(tree) => phase # "unwired"

\* What a process of a network does is what its procedure says, whichever processor
\* and slots it has been given and whenever the others are ready.
DoesWhatItSays ==
  \A p \in DOMAIN cpus :
    /\ IsPrefix(cpus[p].log, meaning[p])
    /\ ~cpus[p].running => cpus[p].log = meaning[p]

\* How far processes that do meaning come, if nobody holds a word that has not
\* been taken: for each the number of its events.
RECURSIVE Reached(_)

Reached(done) ==
  LET Ready(p) == done[p] < Len(meaning[p])
      Event(p) == meaning[p][done[p] + 1]
      IsAlone(p) == Ready(p) /\ Event(p)[1] \notin {"out", "in"}
      Meet(p, q) ==
        /\ Ready(p) /\ Ready(q)
        /\ Event(p)[1] = "out" /\ Event(q)[1] = "in"
        /\ <<q, Event(q)[2]>> \in OtherEnds(<<p, Event(p)[2]>>)
      moving == {p \in DOMAIN done : IsAlone(p) \/ \E q \in DOMAIN done : Meet(p, q) \/ Meet(q, p)}
  IN  IF moving = {} THEN done
      ELSE Reached([p \in DOMAIN done |-> IF p \in moving THEN done[p] + 1 ELSE done[p]])

\* A run of a network ends, in a deadlock too, no earlier than the program does:
\* every process has come as far as its partners let it.
GoesAsFarAsItSays ==
  phase \in {"halted", "deadlock"} =>
    Reached([p \in DOMAIN cpus |-> 0]) = [p \in DOMAIN cpus |-> Len(cpus[p].log)]

\* Every run of a network comes to an end, and the simulator tells that it has.
Ends == phase = "run" ~> phase \in Outcomes
================================================================================
