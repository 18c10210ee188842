---------------------------- MODULE CrossCheckProofs ----------------------------
(***************************************************************************)
(* The simulator and the hardware, given the same images: what each makes  *)
(* of a network depends on the order in which it takes the processors, but *)
(* what the network comes to does not.  tests.py runs its networks on both *)
(* and expects the same of them.                                           *)
(*                                                                         *)
(* Both implement a network of rendezvous (HexSimProofs, HexTbProofs), the *)
(* simulator one whose processors stop at their EXIT.  Its steps are       *)
(* confluent, since no processor has two things it could do next, nor two  *)
(* partners to do it with: this is proved first, of states as values.  The *)
(* hardware's is the same but for what a core does after an EXIT, and that *)
(* touches no other unless one of them is to wait for it for ever.         *)
(***************************************************************************)
EXTENDS CrossCheck, HexTbProofs

--------------------------------------------------------------------------------
(***************************************************************************)
(* The network of rendezvous, of the images g, in a state s.  The          *)
(* definitions are those of Rendezvous with the state as a parameter.      *)
(***************************************************************************)
State(g) ==
  {s \in [pc : [Proc -> Nat], areg : [Proc -> Nat], halted : [Proc -> BOOLEAN]] :
     \A p \in Proc : ~s.halted[p] => s.pc[p] \in DOMAIN g[p]}

InstrAt(g, s, p) == g[p][s.pc[p]]

OnChannel(g, s, p) == ~s.halted[p] /\ InstrAt(g, s, p).op \in {"IN", "OUT"}

EndAt(g, s, p) == <<p, InstrAt(g, s, p).arg>>

PartnerAt(g, s, p) == Peer(EndAt(g, s, p))[1]

MatchedAt(g, s, p) ==
  /\ OnChannel(g, s, p)
  /\ Wired(EndAt(g, s, p))
  /\ OnChannel(g, s, PartnerAt(g, s, p))
  /\ InstrAt(g, s, PartnerAt(g, s, p)).op = Complement(InstrAt(g, s, p).op)
  /\ EndAt(g, s, PartnerAt(g, s, p)) = Peer(EndAt(g, s, p))

CanMove(g, s, p) ==
  /\ ~s.halted[p]
  /\ InstrAt(g, s, p).op \in LocalOp \cup {"EXIT"} \/ MatchedAt(g, s, p)

\* The processors of M can complete an instruction each, and the state they leave.
Movable(g, s, M) ==
  \A p \in M : CanMove(g, s, p) /\ (MatchedAt(g, s, p) => PartnerAt(g, s, p) \in M)

PcAfter(g, s, M, p) ==
  IF p \in M THEN NextPc(InstrAt(g, s, p), s.pc[p], s.areg[p]) ELSE s.pc[p]

AregAfter(g, s, M, p) ==
  IF p \notin M THEN s.areg[p]
  ELSE IF InstrAt(g, s, p).op = "IN" THEN s.areg[PartnerAt(g, s, p)]
  ELSE NextAreg(InstrAt(g, s, p), s.areg[p])

HaltedAfter(g, s, M, p) == s.halted[p] \/ (p \in M /\ InstrAt(g, s, p).op = "EXIT")

After(g, s, M) ==
  [pc |-> [p \in Proc |-> PcAfter(g, s, M, p)],
   areg |-> [p \in Proc |-> AregAfter(g, s, M, p)],
   halted |-> [p \in Proc |-> HaltedAfter(g, s, M, p)]]

StepsTo(g, s, t) == \E M \in SUBSET Proc : Movable(g, s, M) /\ t = After(g, s, M)

Final(g, s) == \A p \in Proc : ~CanMove(g, s, p)

\* The network can come from s to t: t is in every set that has s and that no step
\* leaves.
Kept(g, X) == \A u \in X, v \in State(g) : StepsTo(g, u, v) => v \in X

LeadsTo(g, s, t) == \A X \in SUBSET State(g) : s \in X /\ Kept(g, X) => t \in X

ArePrograms(g) == \A p \in Proc : IsProgram(g[p])

--------------------------------------------------------------------------------
(***************************************************************************)
(* Confluence.                                                             *)
(***************************************************************************)
\* States are equal that agree in every processor.
LEMMA SameState ==
  ASSUME NEW g, NEW s \in State(g), NEW t \in State(g),
         \A p \in Proc : /\ s.pc[p] = t.pc[p] /\ s.areg[p] = t.areg[p]
                         /\ s.halted[p] = t.halted[p]
  PROVE  s = t
<1>1. s.pc = t.pc /\ s.areg = t.areg /\ s.halted = t.halted
  BY DEF State
<1>. QED  BY <1>1 DEF State

\* Two processors match each other.
LEMMA MatchIsMutual ==
  ASSUME NEW g, NEW s, NEW p, MatchedAt(g, s, p)
  PROVE  /\ PartnerAt(g, s, p) \in Proc /\ PartnerAt(g, s, p) # p
         /\ MatchedAt(g, s, PartnerAt(g, s, p))
         /\ PartnerAt(g, s, PartnerAt(g, s, p)) = p
<1>. DEFINE q == PartnerAt(g, s, p)
<1>1. /\ OnChannel(g, s, p) /\ OnChannel(g, s, q) /\ Wired(EndAt(g, s, p))
      /\ InstrAt(g, s, q).op = Complement(InstrAt(g, s, p).op)
      /\ EndAt(g, s, q) = Peer(EndAt(g, s, p))
  BY DEF MatchedAt
<1>2. /\ Peer(EndAt(g, s, p)) \in Endpoint /\ Wired(EndAt(g, s, q))
      /\ Peer(EndAt(g, s, q)) = EndAt(g, s, p)
  BY <1>1, PeerFacts
<1>3. q \in Proc
  BY <1>2 DEF PartnerAt, Endpoint
<1>4. PartnerAt(g, s, q) = p
  BY <1>2 DEF PartnerAt, EndAt
<1>5. InstrAt(g, s, p).op = Complement(InstrAt(g, s, q).op)
      /\ InstrAt(g, s, p).op # InstrAt(g, s, q).op
  BY <1>1 DEF Complement, OnChannel
<1>6. MatchedAt(g, s, q)
  BY <1>1, <1>2, <1>4, <1>5 DEF MatchedAt
<1>. QED  BY <1>3, <1>4, <1>5, <1>6

\* A step stays among the states.
LEMMA AfterIsState ==
  ASSUME NEW g, ArePrograms(g), NEW s \in State(g), NEW M \in SUBSET Proc,
         Movable(g, s, M)
  PROVE  /\ After(g, s, M) \in State(g)
         /\ \A p \in Proc : /\ After(g, s, M).pc[p] = PcAfter(g, s, M, p)
                            /\ After(g, s, M).areg[p] = AregAfter(g, s, M, p)
                            /\ After(g, s, M).halted[p] = HaltedAfter(g, s, M, p)
<1>1. ASSUME NEW p \in Proc
      PROVE  /\ PcAfter(g, s, M, p) \in Nat
             /\ AregAfter(g, s, M, p) \in Nat
             /\ HaltedAfter(g, s, M, p) \in BOOLEAN
             /\ ~HaltedAfter(g, s, M, p) => PcAfter(g, s, M, p) \in DOMAIN g[p]
  <2>1. /\ s.pc[p] \in Nat /\ s.areg[p] \in Nat /\ s.halted[p] \in BOOLEAN
        /\ ~s.halted[p] => s.pc[p] \in DOMAIN g[p]
    BY DEF State
  <2>2. CASE p \notin M
    BY <2>1, <2>2 DEF PcAfter, AregAfter, HaltedAfter
  <2>3. CASE p \in M
    <3>. DEFINE i == InstrAt(g, s, p)
    <3>1. CanMove(g, s, p)
      BY <2>3 DEF Movable
    <3>2. /\ i \in Instr /\ s.pc[p] \in DOMAIN g[p] /\ DOMAIN g[p] \subseteq Nat
          /\ i.op \notin {"BR", "EXIT", "ILL"} => s.pc[p] + 1 \in DOMAIN g[p]
          /\ i.op \in {"BR", "BRZ"} => i.arg \in DOMAIN g[p]
      BY <2>1, <3>1 DEF CanMove, ArePrograms, IsProgram, InstrAt
    <3>3. i.op # "ILL"
      BY <3>1 DEF CanMove, LocalOp, MatchedAt, OnChannel
    <3>4. i.arg \in Nat
      BY <3>2 DEF Instr
    <3>5. i.op = "IN" => s.areg[PartnerAt(g, s, p)] \in Nat
      <4>1. i.op = "IN" => MatchedAt(g, s, p)
        BY <3>1 DEF CanMove, LocalOp
      <4>. QED  BY <4>1, MatchIsMutual DEF State
    <3>. HIDE DEF i
    <3>6. NextPc(i, s.pc[p], s.areg[p]) \in Nat /\ NextAreg(i, s.areg[p]) \in Nat
      BY <2>1, <3>4 DEF NextPc, NextAreg
    <3>7. i.op # "EXIT" => NextPc(i, s.pc[p], s.areg[p]) \in DOMAIN g[p]
      BY <3>2, <3>3 DEF NextPc
    <3>8. HaltedAfter(g, s, M, p) <=> i.op = "EXIT"
      BY <2>3, <3>1 DEF HaltedAfter, CanMove, i
    <3>. QED
      BY <2>1, <2>3, <3>5, <3>6, <3>7, <3>8 DEF PcAfter, AregAfter, HaltedAfter, i
  <2>. QED  BY <2>2, <2>3
<1>2. \A p \in Proc : /\ After(g, s, M).pc[p] = PcAfter(g, s, M, p)
                      /\ After(g, s, M).areg[p] = AregAfter(g, s, M, p)
                      /\ After(g, s, M).halted[p] = HaltedAfter(g, s, M, p)
  BY DEF After
<1>3. After(g, s, M) \in
        [pc : [Proc -> Nat], areg : [Proc -> Nat], halted : [Proc -> BOOLEAN]]
  BY <1>1 DEF After
<1>. QED  BY <1>1, <1>2, <1>3 DEF State

\* A processor that a step leaves alone is as it was, and the step leaves its partner
\* alone too.
LEMMA LeftAlone ==
  ASSUME NEW g, ArePrograms(g), NEW s \in State(g), NEW M \in SUBSET Proc,
         Movable(g, s, M), NEW p \in Proc \ M, CanMove(g, s, p)
  PROVE  LET t == After(g, s, M)
         IN  /\ t.pc[p] = s.pc[p] /\ t.areg[p] = s.areg[p] /\ t.halted[p] = s.halted[p]
             /\ InstrAt(g, t, p) = InstrAt(g, s, p)
             /\ PartnerAt(g, t, p) = PartnerAt(g, s, p)
             /\ MatchedAt(g, s, p) => /\ PartnerAt(g, s, p) \notin M
                                      /\ MatchedAt(g, t, p)
                                      /\ t.areg[PartnerAt(g, s, p)] =
                                           s.areg[PartnerAt(g, s, p)]
             /\ CanMove(g, t, p)
<1>. DEFINE t == After(g, s, M)
            q == PartnerAt(g, s, p)
<1>1. \A k \in Proc \ M : /\ t.pc[k] = s.pc[k] /\ t.areg[k] = s.areg[k]
                          /\ t.halted[k] = s.halted[k]
  BY AfterIsState DEF PcAfter, AregAfter, HaltedAfter, State
<1>. HIDE DEF t
<1>2. \A k \in Proc \ M : /\ InstrAt(g, t, k) = InstrAt(g, s, k)
                          /\ EndAt(g, t, k) = EndAt(g, s, k)
                          /\ PartnerAt(g, t, k) = PartnerAt(g, s, k)
                          /\ OnChannel(g, t, k) <=> OnChannel(g, s, k)
  BY <1>1 DEF InstrAt, EndAt, PartnerAt, OnChannel
<1>3. ASSUME MatchedAt(g, s, p)
      PROVE  q \notin M /\ MatchedAt(g, t, p) /\ t.areg[q] = s.areg[q]
  <2>1. q \in Proc /\ MatchedAt(g, s, q) /\ PartnerAt(g, s, q) = p
    BY <1>3, MatchIsMutual
  <2>2. q \notin M
    BY <2>1 DEF Movable
  <2>. QED  BY <1>1, <1>2, <1>3, <2>1, <2>2 DEF MatchedAt
<1>4. CanMove(g, t, p)
  BY <1>1, <1>2, <1>3 DEF CanMove
<1>. QED  BY <1>1, <1>2, <1>3, <1>4 DEF t

\* What is left of one step can follow another, and it does not matter which of the
\* two comes first.
LEMMA RestIsMovable ==
  ASSUME NEW g, ArePrograms(g), NEW s \in State(g),
         NEW M \in SUBSET Proc, Movable(g, s, M), NEW K \in SUBSET Proc, Movable(g, s, K)
  PROVE  LET t == After(g, s, M)
         IN  Movable(g, t, K \ M) /\ After(g, t, K \ M) = After(g, s, M \cup K)
<1>. DEFINE t == After(g, s, M)
<1>1. \A k \in Proc : /\ t.pc[k] = PcAfter(g, s, M, k)
                      /\ t.areg[k] = AregAfter(g, s, M, k)
                      /\ t.halted[k] = HaltedAfter(g, s, M, k)
  BY AfterIsState
<1>2. ASSUME NEW p \in K \ M
      PROVE  /\ t.pc[p] = s.pc[p] /\ t.areg[p] = s.areg[p] /\ t.halted[p] = s.halted[p]
             /\ InstrAt(g, t, p) = InstrAt(g, s, p)
             /\ PartnerAt(g, t, p) = PartnerAt(g, s, p)
             /\ MatchedAt(g, s, p) => /\ PartnerAt(g, s, p) \in K \ M
                                      /\ t.areg[PartnerAt(g, s, p)] =
                                           s.areg[PartnerAt(g, s, p)]
             /\ MatchedAt(g, t, p) => MatchedAt(g, s, p)
             /\ CanMove(g, s, p) /\ CanMove(g, t, p)
  <2>1. CanMove(g, s, p) /\ (MatchedAt(g, s, p) => PartnerAt(g, s, p) \in K)
    BY DEF Movable
  <2>2. /\ t.pc[p] = s.pc[p] /\ t.areg[p] = s.areg[p] /\ t.halted[p] = s.halted[p]
        /\ InstrAt(g, t, p) = InstrAt(g, s, p)
        /\ PartnerAt(g, t, p) = PartnerAt(g, s, p)
        /\ MatchedAt(g, s, p) => /\ PartnerAt(g, s, p) \notin M
                                 /\ t.areg[PartnerAt(g, s, p)] =
                                      s.areg[PartnerAt(g, s, p)]
        /\ CanMove(g, t, p)
    BY <2>1, LeftAlone
  <2>. HIDE DEF t
  <2>3. MatchedAt(g, t, p) => MatchedAt(g, s, p)
    BY <2>1, <2>2 DEF CanMove, MatchedAt, OnChannel, LocalOp
  <2>. QED  BY <2>1, <2>2, <2>3
<1>. HIDE DEF t
<1>3. Movable(g, t, K \ M)
  BY <1>2 DEF Movable
<1>4. ASSUME NEW p \in Proc
      PROVE  /\ PcAfter(g, t, K \ M, p) = PcAfter(g, s, M \cup K, p)
             /\ AregAfter(g, t, K \ M, p) = AregAfter(g, s, M \cup K, p)
             /\ HaltedAfter(g, t, K \ M, p) = HaltedAfter(g, s, M \cup K, p)
  <2>1. CASE p \in K \ M
    <3>1. InstrAt(g, s, p).op = "IN" => MatchedAt(g, s, p)
      BY <1>2, <2>1 DEF CanMove, LocalOp
    <3>. QED  BY <1>2, <2>1, <3>1 DEF PcAfter, AregAfter, HaltedAfter
  <2>2. CASE p \notin K \ M
    BY <1>1, <2>2 DEF PcAfter, AregAfter, HaltedAfter
  <2>. QED  BY <2>1, <2>2
<1>5. After(g, t, K \ M) = After(g, s, M \cup K)
  BY <1>4 DEF After
<1>. QED  BY <1>3, <1>5 DEF t

\* From two states that one state steps to, one state can be stepped to.
LEMMA Diamond ==
  ASSUME NEW g, ArePrograms(g), NEW s \in State(g), NEW t, NEW u,
         StepsTo(g, s, t), StepsTo(g, s, u)
  PROVE  \E v \in State(g) : StepsTo(g, t, v) /\ StepsTo(g, u, v)
<1>1. PICK M \in SUBSET Proc : Movable(g, s, M) /\ t = After(g, s, M)
  BY DEF StepsTo
<1>2. PICK K \in SUBSET Proc : Movable(g, s, K) /\ u = After(g, s, K)
  BY DEF StepsTo
<1>3. t \in State(g) /\ u \in State(g)
  BY <1>1, <1>2, AfterIsState
<1>4. Movable(g, t, K \ M) /\ After(g, t, K \ M) = After(g, s, M \cup K)
  BY <1>1, <1>2, RestIsMovable
<1>5. Movable(g, u, M \ K) /\ After(g, u, M \ K) = After(g, s, K \cup M)
  BY <1>1, <1>2, RestIsMovable
<1>6. K \ M \in SUBSET Proc /\ M \ K \in SUBSET Proc /\ M \cup K = K \cup M
  OBVIOUS
<1>. DEFINE v == After(g, s, M \cup K)
<1>7. v = After(g, t, K \ M) /\ v = After(g, u, M \ K)
  BY <1>4, <1>5, <1>6
<1>8. v \in State(g)
  BY <1>3, <1>4, <1>6, <1>7, AfterIsState
<1>. HIDE DEF v
<1>9. StepsTo(g, t, v) /\ StepsTo(g, u, v)
  BY <1>4, <1>5, <1>6, <1>7 DEF StepsTo
<1>. QED  BY <1>8, <1>9

\* A state in which nobody can move is not left.
LEMMA FinalStays ==
  ASSUME NEW g, ArePrograms(g), NEW s \in State(g), Final(g, s), NEW t, StepsTo(g, s, t)
  PROVE  t = s
<1>1. PICK M \in SUBSET Proc : Movable(g, s, M) /\ t = After(g, s, M)
  BY DEF StepsTo
<1>2. \A p \in Proc : p \notin M
  BY <1>1 DEF Movable, Final
<1>3. /\ t \in State(g)
      /\ \A p \in Proc : /\ t.pc[p] = PcAfter(g, s, M, p)
                         /\ t.areg[p] = AregAfter(g, s, M, p)
                         /\ t.halted[p] = HaltedAfter(g, s, M, p)
  BY <1>1, AfterIsState
<1>4. \A p \in Proc : t.pc[p] = s.pc[p] /\ t.areg[p] = s.areg[p] /\ t.halted[p] = s.halted[p]
  BY <1>2, <1>3 DEF PcAfter, AregAfter, HaltedAfter, State
<1>. QED  BY <1>3, <1>4, SameState

\* A state leads to itself, and what it leads to leads on.
LEMMA LeadsOn ==
  ASSUME NEW g, NEW s \in State(g), NEW t \in State(g), NEW u \in State(g)
  PROVE  /\ LeadsTo(g, s, s)
         /\ LeadsTo(g, s, t) /\ StepsTo(g, t, u) => LeadsTo(g, s, u)
BY DEF LeadsTo, Kept

\* Whichever step is taken first, the state that the network can come to and that
\* nobody can leave can still be come to.
LEMMA FinalIsKept ==
  ASSUME NEW g, ArePrograms(g), NEW s \in State(g), NEW t \in State(g), NEW f \in State(g),
         StepsTo(g, s, t), LeadsTo(g, s, f), Final(g, f)
  PROVE  LeadsTo(g, t, f)
<1>. DEFINE X == {u \in State(g) : \E v \in State(g) : StepsTo(g, u, v) /\ LeadsTo(g, t, v)}
<1>1. s \in X
  BY LeadsOn
<1>2. ASSUME NEW u \in X, NEW w \in State(g), StepsTo(g, u, w) PROVE w \in X
  <2>1. PICK v \in State(g) : StepsTo(g, u, v) /\ LeadsTo(g, t, v)
    OBVIOUS
  <2>2. PICK x \in State(g) : StepsTo(g, v, x) /\ StepsTo(g, w, x)
    BY <1>2, <2>1, Diamond
  <2>3. LeadsTo(g, t, x)
    BY <2>1, <2>2, LeadsOn
  <2>. QED  BY <2>2, <2>3
<1>3. f \in X
  <2>1. X \in SUBSET State(g) /\ Kept(g, X)
    BY <1>2 DEF Kept
  <2>. QED  BY <1>1, <2>1 DEF LeadsTo
<1>4. PICK v \in State(g) : StepsTo(g, f, v) /\ LeadsTo(g, t, v)
  BY <1>3
<1>5. v = f
  BY <1>4, FinalStays
<1>. QED  BY <1>4, <1>5

\* A processor that has executed EXIT, or is about to, and the address of that EXIT.
AtOrPastExit(g, s, p) == s.halted[p] \/ InstrAt(g, s, p).op = "EXIT"

ExitPc(s, p) == IF s.halted[p] THEN s.pc[p] - 1 ELSE s.pc[p]

\* Nothing more happens to it than that it executes its EXIT.
LEMMA ExitStays ==
  ASSUME NEW g, ArePrograms(g), NEW s \in State(g), NEW f \in State(g),
         LeadsTo(g, s, f), Final(g, f), NEW p \in Proc, AtOrPastExit(g, s, p)
  PROVE  f.halted[p] /\ f.areg[p] = s.areg[p] /\ f.pc[p] - 1 = ExitPc(s, p)
<1>. DEFINE X == {u \in State(g) : /\ AtOrPastExit(g, u, p)
                                   /\ u.areg[p] = s.areg[p]
                                   /\ ExitPc(u, p) = ExitPc(s, p)}
<1>1. ASSUME NEW u \in X, NEW v \in State(g), StepsTo(g, u, v) PROVE v \in X
  <2>1. PICK M \in SUBSET Proc : Movable(g, u, M) /\ v = After(g, u, M)
    BY <1>1 DEF StepsTo
  <2>2. /\ v.pc[p] = PcAfter(g, u, M, p) /\ v.areg[p] = AregAfter(g, u, M, p)
        /\ v.halted[p] = HaltedAfter(g, u, M, p)
    BY <2>1, AfterIsState
  <2>3. CASE p \in M
    <3>1. ~u.halted[p] /\ InstrAt(g, u, p).op = "EXIT"
      BY <2>1, <2>3 DEF Movable, CanMove, AtOrPastExit
    <3>2. v.areg[p] = u.areg[p] /\ v.halted[p] /\ v.pc[p] = u.pc[p] + 1
      BY <2>2, <2>3, <3>1 DEF PcAfter, AregAfter, HaltedAfter, NextPc, NextAreg
    <3>3. u.pc[p] \in Nat
      BY DEF State
    <3>4. ExitPc(v, p) = ExitPc(u, p)
      BY <3>1, <3>2, <3>3 DEF ExitPc
    <3>. QED  BY <3>2, <3>4 DEF AtOrPastExit
  <2>4. CASE p \notin M
    <3>1. v.pc[p] = u.pc[p] /\ v.areg[p] = u.areg[p] /\ (v.halted[p] <=> u.halted[p])
      BY <2>2, <2>4 DEF PcAfter, AregAfter, HaltedAfter
    <3>. QED  BY <3>1 DEF InstrAt, AtOrPastExit, ExitPc
  <2>. QED  BY <2>3, <2>4
<1>2. X \in SUBSET State(g) /\ Kept(g, X) /\ s \in X
  BY <1>1 DEF Kept
<1>3. f \in X
  BY <1>2 DEF LeadsTo
<1>4. f.halted[p]
  BY <1>3 DEF Final, CanMove, AtOrPastExit
<1>. QED  BY <1>3, <1>4 DEF ExitPc

\* A state nobody can leave leads nowhere else.
LEMMA FinalLeadsToItself ==
  ASSUME NEW g, ArePrograms(g), NEW s \in State(g), NEW f \in State(g),
         LeadsTo(g, s, f), Final(g, s)
  PROVE  f = s
<1>1. {s} \in SUBSET State(g) /\ Kept(g, {s})
  BY FinalStays DEF Kept
<1>. QED  BY <1>1 DEF LeadsTo

\* A processor that waits at a channel for one that has halted waits for ever.
LEMMA HaltedIsNotServed ==
  ASSUME NEW g, ArePrograms(g), NEW s \in State(g), NEW f \in State(g), LeadsTo(g, s, f),
         NEW p \in Proc, NEW q \in Proc,
         OnChannel(g, s, p), PartnerAt(g, s, p) = q, s.halted[q]
  PROVE  ~f.halted[p] /\ PartnerAt(g, f, p) = q /\ f.halted[q]
<1>. DEFINE X == {u \in State(g) : u.pc[p] = s.pc[p] /\ ~u.halted[p] /\ u.halted[q]}
<1>1. ASSUME NEW u \in X
      PROVE  ~CanMove(g, u, p) /\ PartnerAt(g, u, p) = q
  <2>1. InstrAt(g, u, p) = InstrAt(g, s, p)
    BY DEF InstrAt
  <2>2. PartnerAt(g, u, p) = q
    BY <2>1 DEF PartnerAt, EndAt
  <2>. QED  BY <2>1, <2>2 DEF CanMove, MatchedAt, OnChannel, LocalOp
<1>2. ASSUME NEW u \in X, NEW v \in State(g), StepsTo(g, u, v) PROVE v \in X
  <2>1. PICK M \in SUBSET Proc : Movable(g, u, M) /\ v = After(g, u, M)
    BY <1>2 DEF StepsTo
  <2>2. p \notin M
    BY <1>1, <2>1 DEF Movable
  <2>3. /\ v.pc[p] = PcAfter(g, u, M, p) /\ v.halted[p] = HaltedAfter(g, u, M, p)
        /\ v.halted[q] = HaltedAfter(g, u, M, q)
    BY <2>1, AfterIsState
  <2>. QED  BY <2>2, <2>3 DEF PcAfter, HaltedAfter
<1>3. X \in SUBSET State(g) /\ Kept(g, X) /\ s \in X
  BY <1>2 DEF Kept, OnChannel
<1>4. f \in X
  BY <1>3 DEF LeadsTo
<1>. QED  BY <1>1, <1>4

--------------------------------------------------------------------------------
(***************************************************************************)
(* The two implementations.                                                *)
(***************************************************************************)
\* What the simulator's theorems assume of the constants.
LEMMA SimAssumptions ==
  /\ S!SizeAssumption /\ S!EdgesAssumption /\ S!ImagesAssumption /\ S!MaxCyclesAssumption
<1>1. S!Proc = Proc /\ S!Slot = Slot /\ S!Endpoint = Endpoint /\ S!Edge = Edge
  BY DEF S!Proc, Proc, S!Slot, Slot, S!Endpoint, Endpoint, S!Edge, Edge
<1>2. \A g : S!IsProgram(g) <=> IsProgram(g)
  BY DEF S!IsProgram, IsProgram, S!Instr, Instr, S!LocalOp, LocalOp
<1>. QED
  BY <1>1, <1>2, SizeAssumption, EdgesAssumption, ImagesAssumption,
     CrossCheckAssumption
     DEF SizeAssumption, EdgesAssumption, ImagesAssumption, WellWired, CrossCheckAssumption,
         S!SizeAssumption, S!EdgesAssumption, S!ImagesAssumption, S!MaxCyclesAssumption,
         S!WellWired

\* The network of rendezvous is the same under either.
LEMMA SimNetwork ==
  /\ S!Proc = Proc /\ S!R!Proc = Proc /\ S!R!LocalOp = LocalOp
  /\ \A e : S!R!Wired(e) <=> Wired(e)
  /\ \A e : S!R!Peer(e) = Peer(e)
  /\ \A op : S!R!Complement(op) = Complement(op)
  /\ \A i, k, v : S!R!NextPc(i, k, v) = NextPc(i, k, v)
  /\ \A i, v : S!R!NextAreg(i, v) = NextAreg(i, v)
<1>1. \A e : S!R!EdgesAt(e) = EdgesAt(e) /\ S!R!ChanOf(e) = ChanOf(e)
  BY DEF S!R!EdgesAt, EdgesAt, S!R!ChanOf, ChanOf
<1>2. \A e : (S!R!Wired(e) <=> Wired(e)) /\ S!R!Peer(e) = Peer(e)
  BY <1>1 DEF S!R!Wired, Wired, S!R!Peer, Peer
<1>. QED
  BY <1>2 DEF S!Proc, S!R!Proc, Proc, S!R!LocalOp, LocalOp, S!R!Complement, Complement,
              S!R!NextPc, NextPc, S!R!NextAreg, NextAreg

--------------------------------------------------------------------------------
\* The state the network starts from, and the one the simulator has brought it to.
Start ==
  [pc |-> [p \in Proc |-> 0], areg |-> [p \in Proc |-> 0], halted |-> [p \in Proc |-> FALSE]]

SimState == [pc |-> simPc, areg |-> simAreg, halted |-> S!Halted]

\* What a network may come to when its processors stop at their EXIT: nobody can move,
\* and nobody waits for one that has halted.
Outcome(g, f) ==
  /\ Final(g, f) /\ LeadsTo(g, Start, f)
  /\ \A p, q \in Proc : ~f.halted[p] /\ PartnerAt(g, f, p) = q => ~f.halted[q]

\* The state the hardware has brought it to, but for what a core has done since it
\* executed an EXIT: that one is left as it is to be in the end.
TbState(f) ==
  [pc |-> [k \in Proc |-> IF executed[k] THEN f.pc[k] ELSE RendezvousPc[k]],
   areg |-> [k \in Proc |-> IF executed[k] THEN f.areg[k] ELSE areg[k]],
   halted |-> [k \in Proc |-> executed[k]]]

\* In these states the definitions above are those of Rendezvous.
LEMMA SimReads ==
  ASSUME NEW p
  PROVE  /\ S!R!At(p) = InstrAt(prog, SimState, p)
         /\ S!R!Partner(p) = PartnerAt(prog, SimState, p)
         /\ S!R!Matched(p) <=> MatchedAt(prog, SimState, p)
         /\ S!R!Ready(p) <=> CanMove(prog, SimState, p)
<1>. DEFINE s == SimState
<1>1. s.pc = simPc /\ s.areg = simAreg /\ s.halted = S!Halted
  BY DEF SimState
<1>. HIDE DEF s
<1>2. ASSUME NEW q
      PROVE  /\ S!R!At(q) = InstrAt(prog, s, q) /\ S!R!End(q) = EndAt(prog, s, q)
             /\ S!R!Partner(q) = PartnerAt(prog, s, q)
             /\ S!R!InChan(q) <=> OnChannel(prog, s, q)
  <2>1. S!R!At(q) = InstrAt(prog, s, q)
    BY <1>1 DEF S!R!At, InstrAt
  <2>. QED
    BY <1>1, <2>1, SimNetwork
       DEF S!R!End, EndAt, S!R!Partner, PartnerAt, S!R!InChan, S!R!Gone, OnChannel
<1>3. ASSUME NEW q PROVE S!R!Matched(q) <=> MatchedAt(prog, s, q)
  BY <1>2, SimNetwork DEF S!R!Matched, MatchedAt
<1>4. S!R!Ready(p) <=> CanMove(prog, s, p)
  BY <1>1, <1>2, <1>3, SimNetwork DEF S!R!Ready, S!R!Gone, CanMove
<1>. QED  BY <1>2, <1>3, <1>4 DEF s

\* The hardware's network of rendezvous, for the cores that have not executed an EXIT.
LEMMA TbReads ==
  ASSUME NEW f, NEW k \in Proc, ~executed[k]
  PROVE  /\ TbState(f).pc[k] = RendezvousPc[k] /\ TbState(f).areg[k] = areg[k]
         /\ ~TbState(f).halted[k]
         /\ InstrAt(prog, TbState(f), k) = N!At(k)
         /\ EndAt(prog, TbState(f), k) = N!End(k)
         /\ PartnerAt(prog, TbState(f), k) = N!Partner(k)
         /\ OnChannel(prog, TbState(f), k) <=> N!InChan(k)
<1>1. /\ TbState(f).pc[k] = RendezvousPc[k] /\ TbState(f).areg[k] = areg[k]
      /\ ~TbState(f).halted[k]
  BY DEF TbState
<1>2. InstrAt(prog, TbState(f), k) = N!At(k)
  BY <1>1 DEF N!At, InstrAt
<1>3. EndAt(prog, TbState(f), k) = N!End(k)
  BY <1>2 DEF N!End, EndAt
<1>4. PartnerAt(prog, TbState(f), k) = N!Partner(k)
  BY <1>3, SameNetwork DEF N!Partner, PartnerAt
<1>5. OnChannel(prog, TbState(f), k) <=> N!InChan(k)
  BY <1>1, <1>2 DEF OnChannel, N!InChan, N!Gone
<1>. QED  BY <1>1, <1>2, <1>3, <1>4, <1>5

\* The same for the simulator.
LEMMA SimSteps == S!R!Next => StepsTo(prog, SimState, SimState') /\ prog' = prog
<1>. SUFFICES ASSUME NEW M \in SUBSET Proc, S!R!Move(M)
              PROVE  StepsTo(prog, SimState, SimState') /\ prog' = prog
  BY SimNetwork DEF S!R!Next
<1>1. Movable(prog, SimState, M)
  BY SimReads DEF S!R!Move, Movable
<1>2. SimState.pc = simPc /\ SimState.areg = simAreg /\ SimState.halted = S!Halted
  BY DEF SimState
<1>3. simPc' = [p \in Proc |-> PcAfter(prog, SimState, M, p)]
  BY <1>2, SimReads, SimNetwork DEF S!R!Move, PcAfter
<1>4. simAreg' = [p \in Proc |-> AregAfter(prog, SimState, M, p)]
  BY <1>2, SimReads, SimNetwork DEF S!R!Move, AregAfter
<1>5. S!Halted' = [p \in Proc |-> HaltedAfter(prog, SimState, M, p)]
  BY <1>2, SimReads, SimNetwork DEF S!R!Move, HaltedAfter
<1>6. SimState' = [pc |-> simPc', areg |-> simAreg', halted |-> S!Halted']
  BY DEF SimState
<1>7. SimState' = After(prog, SimState, M)
  BY <1>3, <1>4, <1>5, <1>6 DEF After
<1>. QED  BY <1>1, <1>7 DEF StepsTo, S!R!Move

\* The state after reset is one the network may be in.
LEMMA StartIsState ==
  ASSUME prog \in Images
  PROVE  ArePrograms(prog) /\ Start \in State(prog)
<1>1. ArePrograms(prog)
  BY ImagesAssumption DEF ImagesAssumption, ArePrograms
<1>. QED  BY <1>1 DEF ArePrograms, IsProgram, Start, State

--------------------------------------------------------------------------------
\* The network as the simulator has it can be come to from the start.
SimReach ==
  /\ ArePrograms(prog) /\ Start \in State(prog)
  /\ SimState \in State(prog) /\ LeadsTo(prog, Start, SimState)

\* By what the simulator implements.
LEMMA SimReachCorrect == S!Spec => []SimReach
<1>1. S!Spec => S!R!Spec
  <2>1. S!Spec => S!Simulates
    BY SimAssumptions, S!SimulatorImplementsRendezvous
  <2>. QED  BY <2>1, PTL DEF S!Simulates
<1>2. S!R!Init => SimReach
  <2>. SUFFICES ASSUME S!R!Init PROVE SimReach
    OBVIOUS
  <2>1. prog \in Images /\ SimState = Start
    BY SimNetwork DEF S!R!Init, SimState, Start
  <2>. QED  BY <2>1, StartIsState, LeadsOn DEF SimReach
<1>3. SimReach /\ [S!R!Next]_(S!R!vars) => SimReach'
  <2>. SUFFICES ASSUME SimReach, [S!R!Next]_(S!R!vars) PROVE SimReach'
    OBVIOUS
  <2>1. CASE S!R!Next
    <3>1. StepsTo(prog, SimState, SimState') /\ prog' = prog
      BY <2>1, SimSteps
    <3>2. SimState' \in State(prog)
      BY <3>1, AfterIsState DEF StepsTo, SimReach
    <3>3. LeadsTo(prog, Start, SimState')
      BY <3>1, <3>2, LeadsOn DEF SimReach
    <3>4. Start' = Start
      BY DEF Start
    <3>. QED  BY <3>1, <3>2, <3>3, <3>4 DEF SimReach
  <2>2. CASE UNCHANGED S!R!vars
    <3>1. prog' = prog /\ SimState' = SimState /\ Start' = Start
      BY <2>2 DEF S!R!vars, SimState, Start
    <3>. QED  BY <3>1 DEF SimReach
  <2>. QED  BY <2>1, <2>2
<1>. QED  BY <1>1, <1>2, <1>3, PTL DEF S!R!Spec

--------------------------------------------------------------------------------
(***************************************************************************)
(* The hardware moves on towards whatever the network may come to.  A core *)
(* that runs on after an EXIT cannot get in the way: somebody it completes *)
(* an operation with would, of processors that stop, wait for ever for one *)
(* that has halted.                                                        *)
(***************************************************************************)
TbReach ==
  /\ ArePrograms(prog) /\ Start \in State(prog) /\ executed \in [Proc -> BOOLEAN]
  /\ \A f \in State(prog) :
       Outcome(prog, f) => TbState(f) \in State(prog) /\ LeadsTo(prog, TbState(f), f)

\* Nobody who has not executed an EXIT is at the other end of one who has.
LEMMA Parted ==
  ASSUME TbReach, NEW f \in State(prog), Outcome(prog, f),
         NEW k \in Proc, ~executed[k], N!InChan(k), N!Partner(k) \in Proc
  PROVE  ~executed[N!Partner(k)]
<1>. SUFFICES ASSUME NEW q \in Proc, N!Partner(k) = q, executed[q] PROVE FALSE
  OBVIOUS
<1>1. TbState(f).halted[q]
  BY DEF TbState
<1>2. ~f.halted[k] /\ PartnerAt(prog, f, k) = q /\ f.halted[q]
  BY <1>1, TbReads, HaltedIsNotServed DEF TbReach
<1>. QED  BY <1>2 DEF Outcome

\* A core that has not executed an EXIT is matched here when it is matched there.
LEMMA TbMatches ==
  ASSUME TbReach, NEW f \in State(prog), Outcome(prog, f), NEW k \in Proc, ~executed[k]
  PROVE  /\ N!Matched(k) <=> MatchedAt(prog, TbState(f), k)
         /\ N!Matched(k) => N!Partner(k) \in Proc /\ ~executed[N!Partner(k)]
<1>. DEFINE q == N!Partner(k)
<1>1. ASSUME N!Matched(k) PROVE q \in Proc /\ ~executed[q] /\ MatchedAt(prog, TbState(f), k)
  <2>1. N!InChan(k) /\ Wired(N!End(k))
    BY <1>1, SameNetwork DEF N!Matched
  <2>2. q \in Proc
    BY <2>1, SameNetwork, PeerFacts DEF N!Partner, Endpoint
  <2>3. ~executed[q]
    BY <2>1, <2>2, Parted
  <2>. QED  BY <1>1, <2>2, <2>3, TbReads, SameNetwork DEF N!Matched, MatchedAt
<1>2. ASSUME MatchedAt(prog, TbState(f), k) PROVE N!Matched(k)
  <2>1. q \in Proc /\ ~TbState(f).halted[q]
    BY <1>2, TbReads, MatchIsMutual DEF MatchedAt, OnChannel
  <2>2. ~executed[q]
    BY <2>1 DEF TbState
  <2>. QED  BY <1>2, <2>1, <2>2, TbReads, SameNetwork DEF N!Matched, MatchedAt
<1>. QED  BY <1>1, <1>2

\* Of those that move, the cores that have not executed an EXIT make a step here.
LEMMA TbSteps ==
  ASSUME TbReach, NEW f \in State(prog), Outcome(prog, f),
         NEW M \in SUBSET Proc, N!Move(M)
  PROVE  LET K == {k \in M : ~executed[k]}
             t == After(prog, TbState(f), K)
         IN  /\ Movable(prog, TbState(f), K)
             /\ t \in State(prog) /\ LeadsTo(prog, t, f) /\ TbState(f)' = t
<1>. DEFINE K == {k \in M : ~executed[k]}
            s == TbState(f)
            t == After(prog, s, K)
<1>1. s \in State(prog) /\ LeadsTo(prog, s, f) /\ ArePrograms(prog)
  BY DEF TbReach
<1>2. ASSUME NEW k \in K
      PROVE  CanMove(prog, s, k) /\ (MatchedAt(prog, s, k) => PartnerAt(prog, s, k) \in K)
  <2>1. /\ k \in Proc /\ ~executed[k] /\ N!Ready(k) /\ (N!Matched(k) => N!Partner(k) \in M)
    BY DEF N!Move
  <2>2. CanMove(prog, s, k)
    BY <2>1, TbReads, TbMatches, SameNetwork DEF N!Ready, CanMove
  <2>. QED  BY <2>1, <2>2, TbReads, TbMatches
<1>3. Movable(prog, s, K)
  BY <1>2 DEF Movable
<1>4. /\ t \in State(prog)
      /\ \A p \in Proc : /\ t.pc[p] = PcAfter(prog, s, K, p)
                         /\ t.areg[p] = AregAfter(prog, s, K, p)
                         /\ t.halted[p] = HaltedAfter(prog, s, K, p)
  BY <1>1, <1>3, AfterIsState
<1>5. StepsTo(prog, s, t)
  BY <1>3 DEF StepsTo
<1>. HIDE DEF t
<1>6. LeadsTo(prog, t, f)
  BY <1>1, <1>4, <1>5, FinalIsKept DEF Outcome
<1>7. ASSUME NEW k \in Proc
      PROVE  /\ executed'[k] = HaltedAfter(prog, s, K, k)
             /\ (IF executed'[k] THEN f.pc[k] ELSE RendezvousPc'[k]) = PcAfter(prog, s, K, k)
             /\ (IF executed'[k] THEN f.areg[k] ELSE areg'[k]) = AregAfter(prog, s, K, k)
  <2>0. executed'[k] = (executed[k] \/ (k \in M /\ N!At(k).op = "EXIT"))
    BY SameNetwork DEF N!Move
  <2>1. CASE executed[k]
    <3>1. s.halted[k] = TRUE /\ s.pc[k] = f.pc[k] /\ s.areg[k] = f.areg[k] /\ k \notin K
      BY <2>1 DEF s, TbState, TbReach
    <3>. QED  BY <2>0, <2>1, <3>1 DEF HaltedAfter, PcAfter, AregAfter
  <2>2. CASE ~executed[k]
    <3>1. /\ s.pc[k] = RendezvousPc[k] /\ s.areg[k] = areg[k] /\ s.halted[k] = FALSE
          /\ InstrAt(prog, s, k) = N!At(k) /\ PartnerAt(prog, s, k) = N!Partner(k)
          /\ k \in K <=> k \in M
      BY <2>2, TbReads DEF s, TbState
    <3>2. executed'[k] = HaltedAfter(prog, s, K, k)
      BY <2>0, <2>2, <3>1 DEF HaltedAfter
    <3>3. RendezvousPc'[k] = PcAfter(prog, s, K, k)
      BY <3>1, SameNetwork DEF N!Move, PcAfter
    <3>4. areg'[k] = AregAfter(prog, s, K, k)
      <4>1. areg'[k] = IF k \notin M THEN areg[k]
                       ELSE IF N!At(k).op = "IN" THEN areg[N!Partner(k)]
                       ELSE NextAreg(N!At(k), areg[k])
        BY SameNetwork DEF N!Move
      <4>2. ASSUME k \in M, N!At(k).op = "IN"
            PROVE  s.areg[N!Partner(k)] = areg[N!Partner(k)]
        <5>1. N!Matched(k)
          BY <4>2, SameNetwork DEF N!Move, N!Ready, LocalOp
        <5>. QED  BY <2>2, <5>1, TbMatches, TbReads
      <4>. QED  BY <3>1, <4>1, <4>2 DEF AregAfter
    <3>5. CASE executed'[k]
      <4>1. t.halted[k]
        BY <1>4, <3>2, <3>5
      <4>2. f.areg[k] = t.areg[k] /\ f.pc[k] - 1 = t.pc[k] - 1
        BY <1>1, <1>4, <1>6, <4>1, ExitStays DEF AtOrPastExit, ExitPc, Outcome
      <4>3. f.pc[k] \in Nat /\ t.pc[k] \in Nat
        BY <1>4 DEF State
      <4>. QED  BY <1>4, <3>2, <3>5, <4>2, <4>3
    <3>. QED  BY <3>2, <3>3, <3>4, <3>5
  <2>. QED  BY <2>1, <2>2
<1>8. TbState(f)' = t
  BY <1>7 DEF TbState, After, t
<1>. QED  BY <1>3, <1>4, <1>6, <1>8 DEF t

\* So no outcome goes out of reach.
LEMMA TbReachCorrect == Implements => []TbReach
<1>1. N!Init => TbReach
  <2>. SUFFICES ASSUME N!Init PROVE TbReach
    OBVIOUS
  <2>1. /\ prog \in Images /\ executed = [p \in Proc |-> FALSE]
        /\ RendezvousPc = [p \in Proc |-> 0] /\ areg = [p \in Proc |-> 0]
    BY SameNetwork DEF N!Init
  <2>2. ASSUME NEW f PROVE TbState(f) = Start
    BY <2>1 DEF TbState, Start
  <2>. QED  BY <2>1, <2>2, StartIsState DEF TbReach, Outcome
<1>2. TbReach /\ [N!Next]_(N!vars) => TbReach'
  <2>. SUFFICES ASSUME TbReach, [N!Next]_(N!vars) PROVE TbReach'
    OBVIOUS
  <2>1. CASE N!Next
    <3>1. PICK M \in SUBSET Proc : N!Move(M)
      BY <2>1, SameNetwork DEF N!Next
    <3>2. prog' = prog /\ executed' \in [Proc -> BOOLEAN]
      BY <3>1, SameNetwork DEF N!Move
    <3>3. ASSUME NEW f \in State(prog), Outcome(prog, f)
          PROVE  TbState(f)' \in State(prog) /\ LeadsTo(prog, TbState(f)', f)
      BY <3>1, <3>3, TbSteps
    <3>4. Start' = Start
      BY DEF Start
    <3>5. \A f \in State(prog) :
            Outcome(prog, f) => TbState(f)' \in State(prog) /\ LeadsTo(prog, TbState(f)', f)
      BY <3>3
    <3>. QED  BY <3>2, <3>4, <3>5 DEF TbReach
  <2>2. CASE UNCHANGED N!vars
    <3>1. prog' = prog /\ executed' = executed /\ RendezvousPc' = RendezvousPc /\ areg' = areg
      BY <2>2 DEF N!vars
    <3>2. \A f : TbState(f)' = TbState(f)
      BY <3>1 DEF TbState
    <3>. QED  BY <3>1, <3>2 DEF TbReach
  <2>. QED  BY <2>1, <2>2
<1>. QED  BY <1>1, <1>2, PTL DEF Implements, N!Spec

(***************************************************************************)
(* What the simulator has when it is over, nobody can go on from.          *)
(***************************************************************************)
SimEnd ==
  /\ SimOver => Final(prog, SimState)
  /\ simResult = "returned" => \A k \in Proc : simStatus[k] = "HALTED"
  /\ simResult = "deadlock" => \E k \in Proc : simStatus[k] # "HALTED"
  /\ SimOver => \A k \in Proc : simStatus[k] \in {"BLOCKED", "HALTED"}
  /\ SimOver /\ (\E k \in Proc : simStatus[k] = "HALTED") => simHaveExit
  /\ simHaveExit => \E k \in Proc : simStatus[k] = "HALTED" /\ simExitCode = simCode[k]
  /\ \A k \in Proc : simStatus[k] = "HALTED" => simCode[k] = prog[k][simPc[k] - 1].arg

\* By what is proved of its verdict, its exit code and its halted processors.
LEMMA SimEndCorrect == S!Spec => []SimEnd
<1>1. S!Spec => []S!DeadlockIsReal
  BY SimAssumptions, S!DeadlocksAreReal
<1>2. S!Spec => []S!VerdictInv
  BY SimAssumptions, S!VerdictInvCorrect
<1>3. S!Spec => []S!ExitTaken
  BY SimAssumptions, S!ExitTakenCorrect
<1>4. S!Spec => []S!CodeInv
  BY SimAssumptions, S!CodeInvCorrect
<1>5. S!Spec => []S!TypeOK
  BY SimAssumptions, S!TypeCorrect
<1>6. S!DeadlockIsReal /\ S!VerdictInv /\ S!ExitTaken /\ S!CodeInv /\ S!TypeOK => SimEnd
  <2>. SUFFICES ASSUME S!DeadlockIsReal, S!VerdictInv, S!ExitTaken, S!CodeInv, S!TypeOK
                PROVE  SimEnd
    OBVIOUS
  <2>1. S!Halted = [k \in Proc |-> simStatus[k] = "HALTED"]
    BY SimNetwork DEF S!Halted
  <2>2. simResult = "returned" => \A k \in Proc : simStatus[k] = "HALTED"
    BY SimNetwork DEF S!VerdictInv, S!AllHalted
  <2>3. simResult = "deadlock" => \E k \in Proc : simStatus[k] # "HALTED"
    BY <2>1, SimNetwork DEF S!DeadlockIsReal
  <2>4. SimOver => Final(prog, SimState)
    <3>1. ASSUME simResult = "deadlock", NEW k \in Proc PROVE ~CanMove(prog, SimState, k)
      BY <3>1, SimReads, SimNetwork DEF S!DeadlockIsReal
    <3>2. ASSUME simResult = "returned", NEW k \in Proc PROVE ~CanMove(prog, SimState, k)
      BY <2>1, <2>2, <3>2 DEF CanMove, SimState
    <3>. QED  BY <3>1, <3>2 DEF SimOver, Final
  <2>5. /\ SimOver /\ (\E k \in Proc : simStatus[k] = "HALTED") => simHaveExit
        /\ simHaveExit => \E k \in Proc : simStatus[k] = "HALTED" /\ simExitCode = simCode[k]
    BY SimNetwork DEF S!ExitTaken, SimOver
  <2>6. \A k \in Proc : simStatus[k] = "HALTED" => simCode[k] = prog[k][simPc[k] - 1].arg
    BY SimNetwork DEF S!CodeInv
  <2>7. ASSUME SimOver, NEW k \in Proc PROVE simStatus[k] \in {"BLOCKED", "HALTED"}
    <3>1. simStatus[k] \in {"RUNNING", "BLOCKED", "HALTED"}
      BY SimNetwork DEF S!TypeOK
    <3>2. simStatus[k] # "RUNNING" \/ simStatus[k] = "HALTED"
      BY <2>2, <2>7, SimNetwork DEF SimOver, S!VerdictInv, S!AnyRunning, S!Running
    <3>. QED  BY <3>1, <3>2
  <2>. QED  BY <2>2, <2>3, <2>4, <2>5, <2>6, <2>7 DEF SimEnd
<1>. QED  BY <1>1, <1>2, <1>3, <1>4, <1>5, <1>6, PTL

\* What a comparable network has come to in the simulator.
LEMMA SimOutcome ==
  ASSUME SimReach, SimEnd, Comparable
  PROVE  /\ SimState \in State(prog) /\ Outcome(prog, SimState)
         /\ \A k \in Proc : SimState.halted[k] <=> simStatus[k] = "HALTED"
<1>1. \A k \in Proc : SimState.halted[k] <=> simStatus[k] = "HALTED"
  BY SimNetwork DEF SimState, S!Halted
<1>2. Final(prog, SimState) /\ LeadsTo(prog, Start, SimState) /\ SimState \in State(prog)
  BY DEF SimReach, SimEnd, Comparable
<1>3. ASSUME NEW p \in Proc, NEW q \in Proc,
             ~SimState.halted[p], PartnerAt(prog, SimState, p) = q
      PROVE  ~SimState.halted[q]
  <2>1. simStatus[p] = "BLOCKED" /\ S!R!Partner(p) = q
    BY <1>1, <1>3, SimReads DEF SimEnd, Comparable
  <2>. QED  BY <1>1, <2>1 DEF Comparable
<1>. QED  BY <1>1, <1>2, <1>3 DEF Outcome

--------------------------------------------------------------------------------
(***************************************************************************)
(* What the testbench has seen and reported.                               *)
(***************************************************************************)
LEMMA AgreeInvCorrect == ASSUME RunsToExit PROVE TbSpec => []AgreeInv
BY ExitInvCorrect, HardwareInvCorrect, PTL DEF AgreeInv

\* It follows from the refinement that the network stays on its way.
LEMMA TbSpecReaches ==
  ASSUME TbHypotheses
  PROVE  TbSpec => []TbReach
<1>1. TbSpec => Implements
  BY TestbenchImplementsRendezvous DEF TbHypotheses
<1>. QED  BY <1>1, TbReachCorrect, PTL

\* Where a core first came to an EXIT, it is left by every outcome.
ExitedInv ==
  \A f \in State(prog) : Outcome(prog, f) =>
    \A k \in Proc : exited[k] =>
      /\ f.halted[k]
      /\ ~executed[k] => f.areg[k] = areg[k] /\ f.pc[k] - 1 = pc[k]

\* A core that is at an EXIT here is at it there.
LEMMA ExitedFacts == AgreeInv /\ TbReach => ExitedInv
<1>. SUFFICES ASSUME AgreeInv, TbReach, NEW f \in State(prog), Outcome(prog, f),
                     NEW k \in Proc, exited[k]
              PROVE  /\ f.halted[k]
                     /\ ~executed[k] => f.areg[k] = areg[k] /\ f.pc[k] - 1 = pc[k]
  BY DEF ExitedInv
<1>. USE DEF AgreeInv, HardwareInv, PlacedInv, TokenInv
<1>. DEFINE s == TbState(f)
<1>1. ArePrograms(prog) /\ s \in State(prog) /\ LeadsTo(prog, s, f) /\ Final(prog, f)
  BY DEF TbReach, Outcome
<1>2. CASE executed[k]
  <2>1. s.halted[k]
    BY <1>2 DEF TbState
  <2>. QED  BY <1>1, <1>2, <2>1, ExitStays DEF AtOrPastExit
<1>3. CASE ~executed[k]
  <2>1. Fetches(k) /\ At(k).op = "EXIT"
    BY <1>3 DEF ExitInv
  <2>2. ~Acked(k)
    BY <2>1 DEF Op, OneToken, Acked
  <2>3. RendezvousPc[k] = pc[k]
    BY <2>2 DEF RendezvousPc, Acked
  <2>4. N!At(k) = At(k)
    BY <2>3 DEF N!At, At
  <2>5. s.pc[k] = pc[k] /\ s.areg[k] = areg[k] /\ ~s.halted[k] /\ InstrAt(prog, s, k) = At(k)
    BY <1>3, <2>3, <2>4, TbReads
  <2>. QED  BY <1>1, <2>1, <2>5, ExitStays DEF AtOrPastExit, ExitPc
<1>. QED  BY <1>2, <1>3

\* The exit code of the testbench is that of a core that has exited, and when it has
\* returned they all have.  A core that it saw at its EXIT before it executed it is of
\* interest for one cycle: in it the code is taken.
TbEnd ==
  /\ \A f \in State(prog) : Outcome(prog, f) /\ haveExit =>
       \E k \in Proc : exited[k] /\ exitCode = prog[k][f.pc[k] - 1].arg
  /\ result = "returned" => AllExited
  /\ \A k \in Proc : exited[k] /\ ~executed[k] => noProgress = 0

\* It takes the code of a core that it sees at its EXIT.
LEMMA TbEndCorrect ==
  ASSUME TbHypotheses
  PROVE  TbSpec => []TbEnd
<1>1. TbInit => TbEnd
  BY DEF TbInit, TbEnd
<1>2. AgreeInv /\ ExitedInv' /\ TbEnd /\ [TbNext]_allVars => TbEnd'
  <2>. SUFFICES ASSUME AgreeInv, ExitedInv', TbEnd, [TbNext]_allVars PROVE TbEnd'
    OBVIOUS
  <2>1. CASE Cycle
    <3>1. Tick /\ ServeExits /\ result' = Verdict /\ prog' = prog /\ Start' = Start
      BY <2>1 DEF Cycle, Tick, Start
    <3>2. result' = "returned" => AllExited'
      BY <3>1 DEF Verdict
    <3>3. ASSUME NEW f \in State(prog), Outcome(prog, f), haveExit'
          PROVE  \E k \in Proc : exited'[k] /\ exitCode' = prog[k][f.pc[k] - 1].arg
      <4>1. CASE haveExit
        <5>1. PICK k \in Proc : exited[k] /\ exitCode = prog[k][f.pc[k] - 1].arg
          BY <3>3, <4>1 DEF TbEnd
        <5>2. exited'[k] /\ exitCode' = exitCode
          BY <3>1, <4>1, <5>1, ServedFacts DEF ServeExits
        <5>. QED  BY <5>1, <5>2
      <4>2. CASE ~haveExit
        <5>1. PICK k \in Exiting : exitCode' = At(k)'.arg
          BY <3>1, <3>3, <4>2 DEF ServeExits
        <5>2. k \in Proc /\ ~exited[k] /\ Fetches(k)' /\ At(k)'.op = "EXIT"
          BY DEF Exiting, AtExit
        <5>3. exited'[k]
          BY <3>1, <5>2, ServedFacts
        <5>4. ~executed'[k]
          BY <2>1, <5>2, ExecutedFacts DEF AgreeInv, ExitInv
        <5>5. Outcome(prog, f)' /\ f \in State(prog)'
          BY <3>1, <3>3 DEF Outcome
        <5>6. f.pc[k] - 1 = pc'[k]
          BY <5>2, <5>3, <5>4, <5>5 DEF ExitedInv
        <5>7. At(k)' = prog[k][pc'[k]]
          BY <3>1 DEF At
        <5>. QED  BY <5>1, <5>2, <5>3, <5>6, <5>7
      <4>. QED  BY <4>1, <4>2
    <3>4. ASSUME NEW k \in Proc, exited'[k], ~executed'[k] PROVE noProgress' = 0
      <4>1. ~exited[k]
        BY <2>1, <3>4, ExecutedFacts DEF AgreeInv, ExitInv
      <4>2. k \in Exiting
        BY <3>1, <3>4, <4>1, ServedFacts DEF Exiting, AtExit
      <4>. QED  BY <2>1, <4>2 DEF Cycle, NextNoProgress, Progressed
    <3>5. \A f : Outcome(prog, f)' <=> Outcome(prog, f)
      BY <3>1 DEF Outcome
    <3>. QED  BY <3>1, <3>2, <3>3, <3>4, <3>5 DEF TbEnd
  <2>2. CASE UNCHANGED allVars
    <3>1. /\ prog' = prog /\ exited' = exited /\ executed' = executed /\ result' = result
          /\ haveExit' = haveExit /\ exitCode' = exitCode /\ noProgress' = noProgress
          /\ Start' = Start
      BY <2>2 DEF allVars, vars, coreVars, tbVars, Start
    <3>2. \A f : Outcome(prog, f)' <=> Outcome(prog, f)
      BY <3>1 DEF Outcome
    <3>. QED  BY <3>1, <3>2 DEF TbEnd, AllExited
  <2>. QED  BY <2>1, <2>2 DEF TbNext, Ended
<1>3. TbSpec => []AgreeInv
  BY AgreeInvCorrect DEF TbHypotheses
<1>. QED  BY <1>1, <1>2, <1>3, TbSpecReaches, ExitedFacts, PTL DEF TbSpec

--------------------------------------------------------------------------------
(***************************************************************************)
(* The outcome.                                                            *)
(***************************************************************************)
\* The simulator takes the processors in turn, the hardware all that can at once and
\* those that share a router in the order of its arbiters, the testbench sees an EXIT a
\* cycle early, and a core runs on after it: what the network comes to is the same, if
\* nobody is left waiting for one that has halted.  When the simulator returns nobody
\* is.
THEOREM OutcomeCorrect ==
  ASSUME OnlyWired, RunsToExit
  PROVE  S!Spec /\ TbSpec => []OutcomesAgree
<1>. USE DEF TbHypotheses
<1>1. SimReach /\ SimEnd /\ ExitedInv /\ TbEnd => OutcomesAgree
  <2>. SUFFICES ASSUME SimReach, SimEnd, ExitedInv, TbEnd, Comparable
                PROVE  OutcomesAgree
    BY DEF OutcomesAgree
  <2>1. ASSUME NEW k \in Proc, exited[k]
        PROVE  simStatus[k] = "HALTED" /\ (~executed[k] => simAreg[k] = areg[k])
    BY <2>1, SimOutcome DEF ExitedInv, SimState
  <2>2. ASSUME haveExit
        PROVE  \E k \in Proc : simStatus[k] = "HALTED" /\ exitCode = simCode[k]
    <3>1. PICK k \in Proc : exited[k] /\ exitCode = prog[k][SimState.pc[k] - 1].arg
      BY <2>2, SimOutcome DEF TbEnd
    <3>2. SimState.pc[k] = simPc[k]
      BY DEF SimState
    <3>. QED  BY <2>1, <3>1, <3>2 DEF SimEnd
  <2>3. ASSUME haveExit
        PROVE  /\ simHaveExit
               /\ \E k \in Proc : simStatus[k] = "HALTED" /\ simExitCode = simCode[k]
    BY <2>2, <2>3 DEF SimEnd, Comparable
  <2>4. ASSUME result = "returned" PROVE simResult = "returned"
    <3>1. \A k \in Proc : simStatus[k] = "HALTED"
      BY <2>1, <2>4 DEF TbEnd, AllExited
    <3>. QED  BY <3>1 DEF SimEnd, SimOver, Comparable
  <2>. QED  BY <2>1, <2>2, <2>3, <2>4 DEF OutcomesAgree
<1>2. TbSpec => []AgreeInv
  BY AgreeInvCorrect
<1>3. TbSpec => []TbReach
  BY TbSpecReaches
<1>4. TbSpec => []TbEnd
  BY TbEndCorrect
<1>. QED
  BY <1>1, <1>2, <1>3, <1>4, ExitedFacts, SimReachCorrect, SimEndCorrect, PTL

--------------------------------------------------------------------------------
(***************************************************************************)
(* Deadlocks.                                                              *)
(***************************************************************************)
\* A writer that has not executed an EXIT does not wait long for its ACK: the reader
\* had not executed one either when it read, so that the testbench saw it move.
ServedInv ==
  (\E f \in State(prog) : Outcome(prog, f)) =>
    \A w \in Proc : Acked(w) /\ ~executed[w] =>
      noProgress =< 1 /\ (aobuf[w] = NoFlit => noProgress = 0)

\* The testbench sees the reader of such a word move.
LEMMA ReaderMoves ==
  ASSUME TimelyHypotheses, AgreeInv, CoreInv', Watched, TbReach, Cycle,
         NEW f \in State(prog), Outcome(prog, f),
         NEW r \in Readers, ~executed[ReadFrom(r)]
  PROVE  noProgress' = 0
<1>. USE DEF TimelyHypotheses, TbHypotheses
<1>. DEFINE w == ReadFrom(r)
<1>1. r \in Proc /\ w \in Proc /\ At(r).op = "IN" /\ Advances(r)
  <2>1. r \in Proc /\ w \in Proc /\ Op(r) = "IN"
    BY PairFacts DEF AgreeInv
  <2>2. At(r).op = "IN"
    BY <2>1 DEF Op
  <2>. QED  BY <2>1, <2>2, WhoAdvances DEF AgreeInv
<1>2. N!Matched(w) /\ N!Partner(w) = r
  BY MatchedFacts
<1>3. ~executed[r]
  BY <1>1, <1>2, TbMatches
<1>4. ~exited[r]
  BY <1>1, <1>3 DEF AgreeInv, ExitInv
<1>. QED  BY <1>1, <1>4, StandstillFacts

\* Its ACK is with the writer one edge later.
LEMMA ServedNext ==
  ASSUME TimelyHypotheses, AgreeInv, CoreInv', Watched, TbReach, ServedInv, Cycle
  PROVE  ServedInv'
<1>. USE DEF AgreeInv, HardwareInv, PlacedInv, TokenInv
<1>1. /\ Tick /\ TbHypotheses /\ OnlyWired /\ prog' = prog /\ Start' = Start
      /\ noProgress' = NextNoProgress
  BY DEF Cycle, TimelyHypotheses, TbHypotheses, Tick, Start
<1>2. SUFFICES ASSUME NEW f \in State(prog), Outcome(prog, f),
                      NEW w \in Proc, Acked(w)', ~executed'[w]
               PROVE  noProgress' =< 1 /\ (aobuf'[w] = NoFlit => noProgress' = 0)
  BY <1>1 DEF ServedInv, Outcome
<1>3. ~executed[w]
  BY <1>2, ExecutedFacts
<1>4. CASE w \in Writers
  <2>1. PICK r \in Readers : w = ReadFrom(r)
    BY <1>4 DEF Writers
  <2>2. noProgress' = 0
    BY <1>2, <1>3, <2>1, ReaderMoves
  <2>. QED  BY <2>2
<1>5. CASE w \notin Writers
  <2>1. Acked(w) /\ aobuf[w] = NoFlit
    BY <1>1, <1>2, <1>5, AckedStays
  <2>2. PICK i \in Proc : InAibuf(w, i)
    BY <2>1, AckedFacts
  <2>3. aobuf'[w] # NoFlit
    BY <1>1, <2>2, AcksDoNotWait, AobufMoves DEF InAibuf
  <2>4. noProgress = 0
    BY <1>2, <1>3, <2>1 DEF ServedInv
  <2>5. noProgress' \in {0, 1}
    BY <1>1, <2>4 DEF NextNoProgress
  <2>. QED  BY <2>3, <2>5
<1>. QED  BY <1>4, <1>5

\* So it is all along.
LEMMA ServedInvCorrect ==
  ASSUME TimelyHypotheses
  PROVE  TbSpec => []ServedInv
<1>1. TbInit => ServedInv
  BY DEF TbInit, ServedInv
<1>2. AgreeInv /\ CoreInv' /\ Watched /\ TbReach /\ ServedInv /\ [TbNext]_allVars => ServedInv'
  <2>. SUFFICES ASSUME AgreeInv, CoreInv', Watched, TbReach, ServedInv, [TbNext]_allVars
                PROVE  ServedInv'
    OBVIOUS
  <2>1. CASE Cycle
    BY <2>1, ServedNext
  <2>2. CASE UNCHANGED allVars
    <3>1. /\ prog' = prog /\ executed' = executed /\ noProgress' = noProgress
          /\ aibuf' = aibuf /\ aobuf' = aobuf /\ Start' = Start
      BY <2>2 DEF allVars, vars, coreVars, netVars, tbVars, Start
    <3>2. (\A w : Acked(w)' <=> Acked(w)) /\ (\A f : Outcome(prog, f)' <=> Outcome(prog, f))
      BY <3>1 DEF Acked, AcksFor, Outcome
    <3>. QED  BY <3>1, <3>2 DEF ServedInv
  <2>. QED  BY <2>1, <2>2 DEF TbNext, Ended
<1>3. TbSpec => []AgreeInv
  BY AgreeInvCorrect DEF TimelyHypotheses, TbHypotheses
<1>4. TbSpec => []TbReach
  BY TbSpecReaches DEF TimelyHypotheses
<1>5. TbSpec => []TimelyInv
  BY TimelyInvCorrect
<1>6. (AgreeInv => CoreInv) /\ (TimelyInv => Watched)
  BY DEF AgreeInv, HardwareInv, PlacedInv, TokenInv, TimelyInv
<1>. QED  BY <1>1, <1>2, <1>3, <1>4, <1>5, <1>6, PTL DEF TbSpec

\* When the testbench reports a deadlock, the network is where it comes to.
LEMMA DeadlockIsOutcome ==
  ASSUME AgreeInv, TimelyInv, TbReach, TbEnd, ServedInv, DeadlockIsReal,
         NumProcs + 3 =< Threshold,
         result = "deadlock", NEW f \in State(prog), Outcome(prog, f)
  PROVE  \A k \in Proc :
           IF exited[k] THEN f.halted[k]
           ELSE ~f.halted[k] /\ f.pc[k] = pc[k] /\ f.areg[k] = areg[k]
<1>. DEFINE s == TbState(f)
<1>1. noProgress > 1
  BY SizeAssumption, TbAssumption
     DEF SizeAssumption, TbAssumption, TimelyInv, Reported, Watched
<1>2. \A k \in Proc : exited[k] <=> executed[k]
  BY <1>1 DEF TbEnd, AgreeInv, ExitInv
<1>3. ASSUME NEW k \in Proc, ~executed[k]
      PROVE  RendezvousPc[k] = pc[k] /\ N!At(k) = At(k) /\ N!End(k) = G!End(k)
             /\ N!Partner(k) = G!Partner(k)
             /\ (N!InChan(k) <=> G!InChan(k))
  <2>1. ~Acked(k)
    BY <1>1, <1>3 DEF ServedInv, TimelyInv, Watched
  <2>2. RendezvousPc[k] = pc[k]
    BY <2>1 DEF RendezvousPc, Acked
  <2>3. N!At(k) = At(k)
    BY <2>2 DEF N!At, At
  <2>4. N!End(k) = G!End(k) /\ N!Partner(k) = G!Partner(k)
    BY <2>3, WatchedNetwork, SameNetwork DEF N!End, G!End, N!Partner, G!Partner
  <2>5. N!InChan(k) <=> G!InChan(k)
    BY <1>2, <1>3, <2>3, WatchedNetwork DEF N!InChan, G!InChan, N!Gone, G!Gone
  <2>. QED  BY <2>2, <2>3, <2>4, <2>5
<1>4. ASSUME NEW k \in Proc, CanMove(prog, s, k) PROVE G!Ready(k)
  <2>1. ~executed[k] /\ ~exited[k]
    BY <1>2, <1>4 DEF CanMove, TbState
  <2>2. CASE MatchedAt(prog, s, k)
    <3>1. N!Matched(k) /\ N!Partner(k) \in Proc /\ ~executed[N!Partner(k)]
      BY <2>1, <2>2, TbMatches
    <3>2. G!Matched(k)
      BY <1>3, <2>1, <3>1, WatchedNetwork, SameNetwork DEF N!Matched, G!Matched
    <3>. QED  BY <2>1, <3>2 DEF G!Ready, G!Gone
  <2>3. CASE ~MatchedAt(prog, s, k)
    <3>1. At(k).op \in LocalOp \cup {"EXIT"}
      BY <1>3, <1>4, <2>1, <2>3, TbReads DEF CanMove
    <3>. QED  BY <2>1, <3>1, WatchedNetwork DEF G!Ready, G!Gone
  <2>. QED  BY <2>2, <2>3
<1>5. Final(prog, s)
  BY <1>4 DEF Final, DeadlockIsReal
<1>6. f = s
  BY <1>5, FinalLeadsToItself DEF TbReach
<1>7. ASSUME NEW k \in Proc, ~exited[k]
      PROVE  ~f.halted[k] /\ f.pc[k] = pc[k] /\ f.areg[k] = areg[k]
  <2>1. ~s.halted[k] /\ s.pc[k] = pc[k] /\ s.areg[k] = areg[k]
    BY <1>2, <1>3, <1>7, TbReads
  <2>. QED  BY <1>6, <2>1
<1>8. ASSUME NEW k \in Proc, exited[k] PROVE f.halted[k]
  <2>1. s.halted[k]
    BY <1>2, <1>8 DEF TbState
  <2>. QED  BY <1>6, <2>1
<1>. QED  BY <1>7, <1>8

\* With a threshold that is long enough (DeadlockCorrect), a deadlock the testbench
\* reports is the one the simulator reports, if nobody is left waiting there for one
\* that has halted.  Cores that have exited and run on may be among the others.
THEOREM DeadlockOutcomeCorrect ==
  ASSUME OnlyWired, RunsToExit, NoSelfBranch, NumProcs + 3 =< Threshold
  PROVE  S!Spec /\ TbSpec => []DeadlocksAgree
<1>. USE DEF TimelyHypotheses, TbHypotheses
<1>1. /\ SimReach /\ SimEnd /\ AgreeInv /\ TimelyInv /\ TbReach /\ TbEnd /\ ServedInv
      /\ DeadlockIsReal
      => DeadlocksAgree
  <2>. SUFFICES ASSUME SimReach, SimEnd, AgreeInv, TimelyInv, TbReach, TbEnd, ServedInv,
                       DeadlockIsReal, Comparable, result = "deadlock"
                PROVE  DeadlocksAgree
    BY DEF DeadlocksAgree
  <2>1. SimState.pc = simPc /\ SimState.areg = simAreg
    BY DEF SimState
  <2>2. \A k \in Proc :
          IF exited[k] THEN simStatus[k] = "HALTED"
          ELSE simStatus[k] # "HALTED" /\ simPc[k] = pc[k] /\ simAreg[k] = areg[k]
    BY <2>1, SimOutcome, DeadlockIsOutcome
  <2>3. \E k \in Proc : ~exited[k]
    BY DEF DeadlockIsReal
  <2>4. simResult = "deadlock"
    BY <2>2, <2>3 DEF SimEnd, SimOver, Comparable
  <2>. QED  BY <2>2, <2>4 DEF DeadlocksAgree
<1>2. TbSpec => []AgreeInv
  BY AgreeInvCorrect
<1>3. TbSpec => []TbReach
  BY TbSpecReaches
<1>4. TbSpec => []TimelyInv
  BY TimelyInvCorrect
<1>5. TbSpec => []DeadlockIsReal
  BY DeadlockCorrect
<1>6. TbSpec => []TbEnd
  BY TbEndCorrect
<1>7. TbSpec => []ServedInv
  BY ServedInvCorrect
<1>. QED
  BY <1>1, <1>2, <1>3, <1>4, <1>5, <1>6, <1>7, SimReachCorrect, SimEndCorrect, PTL

\* The cross-check is a run of both.
LEMMA CrossRunsBoth == CrossSpec => S!Spec /\ TbSpec
<1>1. CrossInit => S!Init /\ TbInit
  BY DEF CrossInit
<1>2. [CrossNext]_crossVars => [S!Next]_(S!vars) /\ [TbNext]_allVars
  <2>. SUFFICES ASSUME [CrossNext]_crossVars
                PROVE  [S!Next]_(S!vars) /\ [TbNext]_allVars
    OBVIOUS
  <2>1. CASE RunSimulator
    BY <2>1 DEF RunSimulator
  <2>2. CASE RunTestbench
    <3>1. TbNext /\ prog' = prog /\ UNCHANGED simVars
      BY <2>2 DEF RunTestbench, TbNext, Cycle, Tick, Ended, allVars, vars
    <3>. QED  BY <3>1 DEF simVars, S!vars, S!procVars, S!sysVars
  <2>3. CASE UNCHANGED crossVars
    BY <2>3 DEF crossVars, allVars, vars, simVars, S!vars, S!procVars, S!sysVars
  <2>. QED  BY <2>1, <2>2, <2>3 DEF CrossNext
<1>. QED  BY <1>1, <1>2, PTL DEF CrossSpec, S!Spec, TbSpec

\* So a container comes to the same on both, code after its EXITs or not: whenever the
\* simulator returns from it, and whenever it reports a deadlock in which nobody waits
\* for a processor that has halted.
THEOREM CrossCheckCorrect ==
  ASSUME OnlyWired, RunsToExit, NoSelfBranch, NumProcs + 3 =< Threshold
  PROVE  CrossSpec => [](OutcomesAgree /\ DeadlocksAgree)
<1>1. S!Spec /\ TbSpec => []OutcomesAgree
  BY OutcomeCorrect
<1>2. S!Spec /\ TbSpec => []DeadlocksAgree
  BY DeadlockOutcomeCorrect
<1>. QED  BY <1>1, <1>2, CrossRunsBoth, PTL
================================================================================
