-------------------------------- MODULE MCHexSim --------------------------------
(***************************************************************************)
(* Small networks for HexSim: every pair of short programs on two          *)
(* channels, every triple of shorter ones on a ring.                       *)
(***************************************************************************)
EXTENDS HexSim

I(op, arg) == [op |-> op, arg |-> arg]

E(p, s, q, t) == [a |-> <<p, s>>, b |-> <<q, t>>]

\* The programs of n instructions from a set, that end in one of another.
ProgramsOf(n, body, last) ==
  {g \in [0 .. n - 1 -> body \cup last] :
     g[n - 1] \in last /\ \A i \in 0 .. n - 2 : g[i] \in body}

--------------------------------------------------------------------------------
\* Two processors and two channels, that join slots of different numbers.
PairEdges == <<E(0, 0, 1, 1), E(1, 0, 0, 1)>>

PairProgram ==
  ProgramsOf(3, {I("LDAC", 1), I("BRZ", 0), I("OUT", 0), I("IN", 0),
                 I("OUT", 1), I("IN", 1)},
                {I("EXIT", 1), I("EXIT", 2), I("BR", 0)})

PairImages == [0 .. 1 -> PairProgram]

--------------------------------------------------------------------------------
\* Three processors in a ring: slot 0 to the one before, 1 to the one after.
RingEdges == <<E(0, 1, 1, 0), E(1, 1, 2, 0), E(2, 1, 0, 0)>>

RingProgram ==
  ProgramsOf(3, {I("OUT", 0), I("OUT", 1), I("IN", 0), I("IN", 1)},
                {I("EXIT", 0), I("BR", 0)})

\* What the simulator rejects: an unknown instruction, a slot with no link.
FaultyProgram ==
  ProgramsOf(2, {I("OUT", 0), I("IN", 1), I("OUT", 2)}, {I("ILL", 0), I("EXIT", 0)})

RingImages ==
  {f \in [0 .. 2 -> RingProgram \cup FaultyProgram] : \A p \in {0, 1} : f[p] \in RingProgram}
================================================================================
