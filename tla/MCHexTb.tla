--------------------------------- MODULE MCHexTb ---------------------------------
(***************************************************************************)
(* Small networks for HexTb.                                               *)
(***************************************************************************)
EXTENDS HexTb, Functions, TLC

I(op, arg) == [op |-> op, arg |-> arg]

E(p, s, q, t) == [a |-> <<p, s>>, b |-> <<q, t>>]

\* One instruction of each of the sets, in turn.
Programs(sets) ==
  {g \in [0 .. Len(sets) - 1 -> UNION Range(sets)] : \A i \in DOMAIN g : g[i] \in sets[i + 1]}

\* What comes after the EXIT of a compiled image, its procedures, brings the core back
\* to the beginning in the end.
Again == {I("BR", 0)}

NeverWritten == [e \in Endpoint |-> <<0, 0>>]

--------------------------------------------------------------------------------
\* Two cores and two channels, that join slots of different numbers, and a third that
\* goes on executing beside them when it has exited.
PairEdges == <<E(0, 0, 1, 1), E(1, 0, 0, 1)>>

Body == {I("LDAC", 1), I("OUT", 0), I("IN", 0), I("OUT", 1), I("IN", 1)}

PairProgram ==
  Programs(<<Body, Body, {I("EXIT", 2)} \cup Again>>)
    \cup Programs(<<Body, Body, {I("EXIT", 1)}, Again>>)
    \cup Programs(<<Body, {I("EXIT", 2)}, Body \ {I("LDAC", 1)}, Again>>)

Bystander == Programs(<<{I("LDAC", 1)}, {I("LDAC", 2)}, {I("LDAC", 1)}, {I("EXIT", 2)}, Again>>)

PairNetworks ==
  {(0 :> f) @@ (1 :> g) @@ (2 :> h) : f \in PairProgram, g \in PairProgram, h \in Bystander}

\* TLC evaluates a definition without parameters once, but not the one a cfg names.
PairImages == PairNetworks

--------------------------------------------------------------------------------
\* NUM_CORES cores, all of them wired to the first, which collects from the
\* others in any order: their words meet in its port of the DATA router.
FarmEdges == <<E(0, 0, 1, 0), E(0, 1, 2, 0), E(0, 2, 3, 0)>>

Collect == {I("IN", 0), I("IN", 1), I("IN", 2)}

Collector ==
  Programs(<<Collect, Collect, Collect, Again>>)
    \cup Programs(<<{I("IN", 1)}, Collect, Collect, {I("EXIT", 0)}>>)
    \cup Programs(<<Collect, {I("EXIT", 0)}, Collect, Again>>)

Worker ==
  {(0 :> I("OUT", 0)) @@ (1 :> I("EXIT", 1)) @@ (2 :> I("BR", 0)),
   (0 :> I("LDAC", 1)) @@ (1 :> I("LDAC", 1)) @@ (2 :> I("OUT", 0)) @@ (3 :> I("BR", 2)),
   (0 :> I("LDAC", 1)) @@ (1 :> I("IN", 0)) @@ (2 :> I("EXIT", 1)),
   (0 :> I("LDAC", 1)) @@ (1 :> I("BR", 0))}

FarmNetworks ==
  {(0 :> f) @@ (1 :> g1) @@ (2 :> g2) @@ (3 :> g3) :
     f \in Collector, g1 \in Worker, g2 \in Worker, g3 \in Worker}

FarmImages == FarmNetworks

--------------------------------------------------------------------------------
\* One channel, and a writer that has code after its EXIT.
LineEdges == <<E(0, 0, 1, 0)>>

Reader == (0 :> I("LDAC", 1)) @@ (1 :> I("IN", 0)) @@ (2 :> I("EXIT", 0))

Writer ==
  (0 :> I("LDAC", 1)) @@ (1 :> I("EXIT", 0)) @@ (2 :> I("OUT", 0)) @@ (3 :> I("BR", 2))

FallsThrough == {(0 :> Writer) @@ (1 :> Reader)}

--------------------------------------------------------------------------------
\* The networks are within the hypotheses of what is proved of them.
ASSUME HypothesesAssumption == OnlyWired /\ RunsToExit /\ NoSelfBranch
================================================================================
