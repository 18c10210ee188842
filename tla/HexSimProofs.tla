------------------------------ MODULE HexSimProofs ------------------------------
(***************************************************************************)
(* Proofs about HexSim, for any number of processors, any wiring and any   *)
(* programs.                                                               *)
(***************************************************************************)
EXTENDS HexSim, TLAPS

--------------------------------------------------------------------------------
(***************************************************************************)
(* The wiring.                                                             *)
(***************************************************************************)
\* An edge joins two endpoints, and its number is not that of a null link.
LEMMA EdgeFacts ==
  ASSUME NEW i \in DOMAIN Edges
  PROVE  /\ i \in Nat /\ i # 0
         /\ Edges[i].a \in Endpoint /\ Edges[i].b \in Endpoint
         /\ Edges[i].a # Edges[i].b
<1>1. Edges \in Seq(Edge) /\ Edges[i].a # Edges[i].b
  BY EdgesAssumption DEF EdgesAssumption, WellWired
<1>2. i \in Nat /\ i # 0 /\ Edges[i] \in Edge
  BY <1>1
<1>. QED  BY <1>1, <1>2 DEF Edge

\* A link is the number of an edge at that slot of that processor.
LEMMA LinkFacts ==
  ASSUME NEW p, NEW s, Link(p, s) # 0
  PROVE  /\ s \in Slot
         /\ Link(p, s) = ChanOf(<<p, s>>)
         /\ Wired(<<p, s>>)
         /\ Link(p, s) \in DOMAIN Edges
         /\ <<p, s>> \in {Edges[Link(p, s)].a, Edges[Link(p, s)].b}
         /\ p \in Proc
<1>1. s \in Slot /\ Wired(<<p, s>>) /\ Link(p, s) = ChanOf(<<p, s>>)
  BY DEF Link
<1>2. PICK i \in DOMAIN Edges : <<p, s>> \in {Edges[i].a, Edges[i].b}
  BY <1>1 DEF Wired, EdgesAt
<1>3. /\ ChanOf(<<p, s>>) \in DOMAIN Edges
      /\ <<p, s>> \in {Edges[ChanOf(<<p, s>>)].a, Edges[ChanOf(<<p, s>>)].b}
  BY <1>2 DEF ChanOf
<1>4. <<p, s>> \in Endpoint
  BY <1>3, EdgeFacts
<1>. QED  BY <1>1, <1>3, <1>4 DEF Endpoint

\* A wired endpoint has a link.
LEMMA WiredLink ==
  ASSUME NEW p, NEW s, Wired(<<p, s>>)
  PROVE  Link(p, s) # 0
<1>1. PICK i \in DOMAIN Edges : <<p, s>> \in {Edges[i].a, Edges[i].b}
  BY DEF Wired, EdgesAt
<1>2. s \in Slot
  BY <1>1, EdgeFacts DEF Endpoint
<1>3. ChanOf(<<p, s>>) \in DOMAIN Edges
  BY <1>1 DEF ChanOf
<1>. QED  BY <1>2, <1>3, EdgeFacts DEF Link

\* Two endpoints of one channel are each other's peers.
LEMMA SameChannel ==
  ASSUME NEW p, NEW s, NEW q, NEW t,
         Link(p, s) # 0, Link(q, t) = Link(p, s), <<p, s>> # <<q, t>>
  PROVE  Peer(<<p, s>>) = <<q, t>>
BY LinkFacts DEF Peer

\* The peer of a linked endpoint is the other end of the same channel.
LEMMA PeerLink ==
  ASSUME NEW p, NEW s, Link(p, s) # 0,
         NEW q, NEW t, Peer(<<p, s>>) = <<q, t>>
  PROVE  /\ q \in Proc /\ t \in Slot
         /\ Link(q, t) = Link(p, s)
         /\ <<q, t>> # <<p, s>>
<1>. DEFINE c == Link(p, s)
<1>1. /\ c \in DOMAIN Edges /\ c = ChanOf(<<p, s>>)
      /\ <<p, s>> \in {Edges[c].a, Edges[c].b}
  BY LinkFacts
<1>2. <<q, t>> \in {Edges[c].a, Edges[c].b} /\ <<q, t>> # <<p, s>>
  BY <1>1, EdgeFacts DEF Peer
<1>3. <<q, t>> \in Endpoint
  BY <1>1, <1>2, EdgeFacts
<1>4. q \in Proc /\ t \in Slot
  BY <1>3 DEF Endpoint
<1>5. Wired(<<q, t>>)
  BY <1>1, <1>2 DEF Wired, EdgesAt
<1>6. ChanOf(<<q, t>>) \in DOMAIN Edges
      /\ <<q, t>> \in {Edges[ChanOf(<<q, t>>)].a, Edges[ChanOf(<<q, t>>)].b}
  BY <1>1, <1>2 DEF ChanOf
<1>7. ChanOf(<<q, t>>) = c
  BY <1>1, <1>2, <1>6, EdgesAssumption DEF EdgesAssumption, WellWired
<1>. QED  BY <1>2, <1>4, <1>5, <1>7 DEF Link

--------------------------------------------------------------------------------
(***************************************************************************)
(* Type correctness.                                                       *)
(***************************************************************************)
\* What the program counter of a processor that has not halted points at, and
\* where its program goes on.
LEMMA ProgramFacts ==
  ASSUME NEW p \in Proc, IsProgram(prog[p]), pc[p] \in DOMAIN prog[p]
  PROVE  /\ At(p) \in Instr
         /\ pc[p] + 1 \in Nat
         /\ At(p).op \in {"LDAC", "BRZ", "IN", "OUT"} => pc[p] + 1 \in DOMAIN prog[p]
         /\ At(p).op \in {"BR", "BRZ"} => At(p).arg \in DOMAIN prog[p]
BY DEF IsProgram, At

\* A step of an instruction stays inside the program.
LEMMA NextPcStays ==
  ASSUME NEW p \in Proc, IsProgram(prog[p]), pc[p] \in DOMAIN prog[p],
         At(p).op \in LocalOp
  PROVE  NextPc(At(p), pc[p], areg[p]) \in DOMAIN prog[p]
BY ProgramFacts DEF NextPc, LocalOp

\* The four things stepChannel does to a channel leave it a channel.
LEMMA ChannelFacts ==
  ASSUME NEW m \in Channel, NEW p \in Proc, NEW v \in Nat
  PROVE  /\ m.value \in Nat
         /\ [m EXCEPT !.state = "IDLE", !.reader = Nobody] \in Channel
         /\ [m EXCEPT !.state = "IDLE", !.writer = Nobody] \in Channel
         /\ [m EXCEPT !.state = "WRITER_WAITING", !.value = v, !.writer = p] \in Channel
         /\ [m EXCEPT !.state = "READER_WAITING", !.reader = p] \in Channel
BY DEF Channel

\* A network as run finds it after reset is well typed.
LEMMA TypeInit == Init => TypeOK
<1>. SUFFICES ASSUME Init PROVE TypeOK
  OBVIOUS
<1>. USE DEF Init
<1>1. DOMAIN prog = Proc /\ \A p \in Proc : IsProgram(prog[p]) /\ 0 \in DOMAIN prog[p]
  BY ImagesAssumption DEF ImagesAssumption, IsProgram
<1>3. chan \in [DOMAIN Edges -> Channel]
  BY DEF Channel
<1>4. turn \in 0 .. NumProcs /\ ticks \in 0 .. MaxCycles + 1 /\ ticks =< MaxCycles
  BY SizeAssumption, MaxCyclesAssumption DEF SizeAssumption, MaxCyclesAssumption
<1>5. /\ pc \in [Proc -> Nat] /\ areg \in [Proc -> Nat]
      /\ status \in [Proc -> {"RUNNING", "BLOCKED", "HALTED"}]
      /\ blockedSlot \in [Proc -> Nat] /\ code \in [Proc -> Nat]
      /\ \A p \in Proc : pc[p] = 0
  OBVIOUS
<1>6. exitCode \in Nat /\ result = "none" /\ haltOrder \in Seq(Proc) /\ haveExit = FALSE
  OBVIOUS
<1>. QED  BY <1>1, <1>3, <1>4, <1>5, <1>6 DEF TypeOK

\* The part of TypeOK a waking step needs of the processor it wakes.
LEMMA WaiterFacts ==
  ASSUME TypeOK, NEW w, NEW op, NEW c, ParkedAt(w, op, c), op \in {"IN", "OUT"}
  PROVE  /\ w \in Proc
         /\ status[w] = "BLOCKED"
         /\ pc[w] \in DOMAIN prog[w]
         /\ pc[w] + 1 \in DOMAIN prog[w]
         /\ At(w).op = op
         /\ Link(w, At(w).arg) = c
<1>1. w \in Proc /\ status[w] = "BLOCKED" /\ At(w).op = op
  BY DEF ParkedAt
<1>2. pc[w] \in DOMAIN prog[w] /\ IsProgram(prog[w])
  BY <1>1 DEF TypeOK
<1>3. pc[w] + 1 \in DOMAIN prog[w]
  BY <1>1, <1>2, ProgramFacts
<1>. QED  BY <1>1, <1>2, <1>3 DEF ParkedAt

\* Every step keeps the types, given that whoever a channel names is parked.
LEMMA TypeNext == TypeOK /\ WaiterIsParked /\ [Next]_vars => TypeOK'
<1>. SUFFICES ASSUME TypeOK, WaiterIsParked, [Next]_vars PROVE TypeOK'
  OBVIOUS
<1>p. ASSUME NEW p \in Proc, turn = p PROVE turn + 1 \in 0 .. NumProcs
  BY <1>p, SizeAssumption DEF SizeAssumption, Proc
<1>a. ASSUME NEW p \in Proc, Running(p)
      PROVE  At(p) \in Instr /\ At(p).arg \in Nat /\ pc[p] + 1 \in Nat
             /\ IsProgram(prog[p]) /\ pc[p] \in DOMAIN prog[p]
  <2>1. IsProgram(prog[p]) /\ pc[p] \in DOMAIN prog[p]
    BY <1>a DEF TypeOK, Running
  <2>. QED  BY <2>1, ProgramFacts DEF Instr
<1>1. ASSUME NEW p \in Proc, Skip(p) PROVE TypeOK'
  BY <1>1, <1>p DEF TypeOK, Skip, Turn, procVars, sysVars
<1>2. ASSUME NEW p \in Proc, Local(p) PROVE TypeOK'
  <2>1. NextPc(At(p), pc[p], areg[p]) \in DOMAIN prog[p]
    BY <1>2, <1>a, NextPcStays DEF Local
  <2>2. NextPc(At(p), pc[p], areg[p]) \in Nat
    BY <2>1, <1>2, <1>a DEF IsProgram, Local
  <2>3. NextAreg(At(p), areg[p]) \in Nat
    BY <1>2, <1>a DEF NextAreg, TypeOK, Local
  <2>. QED
    BY <1>2, <2>1, <2>2, <2>3, <1>p DEF TypeOK, Local, Turn, Running, sysVars
<1>3. ASSUME NEW p \in Proc, Exit(p) PROVE TypeOK'
  <2>1. /\ pc' \in [Proc -> Nat] /\ code' \in [Proc -> Nat]
        /\ status' \in [Proc -> {"RUNNING", "BLOCKED", "HALTED"}]
        /\ haltOrder' \in Seq(Proc)
    BY <1>3, <1>a DEF TypeOK, Exit
  <2>2. \A q \in Proc : status'[q] # "HALTED" => pc'[q] \in DOMAIN prog'[q]
    BY <1>3 DEF TypeOK, Exit
  <2>. QED  BY <1>3, <2>1, <2>2, <1>p DEF TypeOK, Exit, Turn, sysVars
<1>4. ASSUME NEW p \in Proc, Throw(p) PROVE TypeOK'
  BY <1>4 DEF TypeOK, Throw, Turn, procVars
<1>5. ASSUME NEW p \in Proc, OutDelivers(p) PROVE TypeOK'
  <2>. DEFINE c == Link(p, At(p).arg)
              r == chan[c].reader
  <2>1. Running(p) /\ turn = p /\ At(p).op = "OUT" /\ c # 0
    BY <1>5 DEF OutDelivers, AtChannel, Turn
  <2>2. c \in DOMAIN Edges
    BY <2>1, LinkFacts
  <2>3. ParkedAt(r, "IN", c)
    BY <1>5, <2>2 DEF OutDelivers, WaiterIsParked
  <2>4. r \in Proc /\ pc[r] + 1 \in DOMAIN prog[r]
    BY <2>3, WaiterFacts
  <2>5. pc[p] + 1 \in DOMAIN prog[p]
    BY <2>1, <1>a, ProgramFacts
  <2>6. pc' \in [Proc -> Nat]
        /\ \A q \in Proc : status'[q] # "HALTED" => pc'[q] \in DOMAIN prog'[q]
    BY <1>5, <2>4, <2>5 DEF OutDelivers, Rendezvous, TypeOK, IsProgram
  <2>7. areg' \in [Proc -> Nat] /\ areg[p] \in Nat
    BY <1>5, <2>4 DEF OutDelivers, TypeOK
  <2>8. chan' \in [DOMAIN Edges -> Channel]
    BY <1>5, <2>2, ChannelFacts DEF OutDelivers, TypeOK
  <2>. QED
    BY <1>5, <2>1, <2>6, <2>7, <2>8, <1>p DEF TypeOK, OutDelivers, Rendezvous, sysVars
<1>6. ASSUME NEW p \in Proc, OutParks(p) PROVE TypeOK'
  <2>1. Running(p) /\ turn = p
    BY <1>6 DEF OutParks, AtChannel, Turn
  <2>2. chan' \in [DOMAIN Edges -> Channel]
    BY <1>6, ChannelFacts DEF OutParks, TypeOK
  <2>. QED
    BY <1>6, <2>1, <2>2, <1>a, <1>p DEF TypeOK, OutParks, Park, Running, sysVars
<1>7. ASSUME NEW p \in Proc, InTakes(p) PROVE TypeOK'
  <2>. DEFINE c == Link(p, At(p).arg)
              w == chan[c].writer
  <2>1. Running(p) /\ turn = p /\ At(p).op = "IN" /\ c # 0
    BY <1>7 DEF InTakes, AtChannel, Turn
  <2>2. c \in DOMAIN Edges
    BY <2>1, LinkFacts
  <2>3. ParkedAt(w, "OUT", c)
    BY <1>7, <2>2 DEF InTakes, WaiterIsParked
  <2>4. w \in Proc /\ pc[w] + 1 \in DOMAIN prog[w]
    BY <2>3, WaiterFacts
  <2>5. pc[p] + 1 \in DOMAIN prog[p]
    BY <2>1, <1>a, ProgramFacts
  <2>6. pc' \in [Proc -> Nat]
        /\ \A q \in Proc : status'[q] # "HALTED" => pc'[q] \in DOMAIN prog'[q]
    BY <1>7, <2>4, <2>5 DEF InTakes, Rendezvous, TypeOK, IsProgram
  <2>7. areg' \in [Proc -> Nat]
    BY <1>7, <2>2, ChannelFacts DEF InTakes, TypeOK
  <2>8. chan' \in [DOMAIN Edges -> Channel]
    BY <1>7, <2>2, ChannelFacts DEF InTakes, TypeOK
  <2>. QED
    BY <1>7, <2>1, <2>6, <2>7, <2>8, <1>p DEF TypeOK, InTakes, Rendezvous, sysVars
<1>8. ASSUME NEW p \in Proc, InParks(p) PROVE TypeOK'
  <2>1. Running(p) /\ turn = p
    BY <1>8 DEF InParks, AtChannel, Turn
  <2>2. chan' \in [DOMAIN Edges -> Channel]
    BY <1>8, ChannelFacts DEF InParks, TypeOK
  <2>. QED
    BY <1>8, <2>1, <2>2, <1>a, <1>p DEF TypeOK, InParks, Park, Running, sysVars
<1>9. CASE EndRound
  <2>0. exitCode' \in Nat
    <3>1. ASSUME NEW p \in Proc, exitCode' = code[p] PROVE exitCode' \in Nat
      BY <3>1 DEF TypeOK
    <3>. QED  BY <1>9, <3>1 DEF EndRound, RecordExit, TypeOK
  <2>1. haveExit' \in BOOLEAN
    BY <1>9, Zenon DEF EndRound, RecordExit, TypeOK
  <2>2. /\ ticks' \in 0 .. MaxCycles + 1
        /\ result' \in {"none", "returned", "deadlock", "cutoff", "error"}
        /\ result' # "cutoff" => ticks' =< MaxCycles
    BY <1>9, MaxCyclesAssumption DEF EndRound, NextTicks, TypeOK, MaxCyclesAssumption
  <2>3. turn' \in 0 .. NumProcs
    BY <1>9, SizeAssumption DEF EndRound, SizeAssumption
  <2>. QED  BY <1>9, <2>0, <2>1, <2>2, <2>3 DEF EndRound, TypeOK, procVars
<1>10. CASE UNCHANGED vars
  BY <1>10 DEF TypeOK, vars, procVars, sysVars
<1>. QED
  BY <1>1, <1>2, <1>3, <1>4, <1>5, <1>6, <1>7, <1>8, <1>9, <1>10 DEF Next, Step, Ended

--------------------------------------------------------------------------------
(***************************************************************************)
(* Who waits and what the channels say agree.                              *)
(***************************************************************************)
\* A channel has two ends: of three processors linked to it two are the same.
LEMMA TwoEnds ==
  ASSUME NEW p, NEW s, NEW q, NEW t, NEW r, NEW u,
         Link(p, s) # 0, Link(q, t) = Link(p, s), Link(r, u) = Link(p, s)
  PROVE  p = q \/ q = r \/ p = r
<1>. SUFFICES ASSUME p # q, p # r PROVE q = r
  OBVIOUS
<1>1. Peer(<<p, s>>) = <<q, t>> /\ Peer(<<p, s>>) = <<r, u>>
  BY SameChannel
<1>. QED  BY <1>1

\* The processors a rendezvous of p over its channel moves: p itself, RUNNING,
\* and a parked one, and nobody else is linked to the channel.
LEMMA Movers ==
  ASSUME NEW p, NEW q, NEW op, Running(p), Link(p, At(p).arg) # 0,
         ParkedAt(q, op, Link(p, At(p).arg))
  PROVE  /\ q # p
         /\ \A r, u : Link(r, u) = Link(p, At(p).arg) => r \in {p, q}
BY TwoEnds DEF ParkedAt, Running

\* No turn of run leaves a channel naming a processor that is not parked there,
\* or holding another word than that writer's.
LEMMA WaiterNext ==
  TypeOK /\ WaiterIsParked /\ [Next]_vars => WaiterIsParked'
<1>. SUFFICES ASSUME TypeOK, WaiterIsParked, [Next]_vars,
                     NEW d \in DOMAIN Edges
              PROVE  /\ chan'[d].state = "WRITER_WAITING" =>
                          /\ ParkedAt(chan[d].writer, "OUT", d)'
                          /\ chan'[d].value = areg'[chan'[d].writer]
                     /\ chan'[d].state = "READER_WAITING" =>
                          ParkedAt(chan[d].reader, "IN", d)'
  BY DEF WaiterIsParked
<1>. DEFINE Same(w) == /\ prog' = prog /\ pc'[w] = pc[w] /\ areg'[w] = areg[w]
                       /\ status'[w] = status[w] /\ blockedSlot'[w] = blockedSlot[w]
            Goal == /\ chan'[d].state = "WRITER_WAITING" =>
                         /\ ParkedAt(chan[d].writer, "OUT", d)'
                         /\ chan'[d].value = areg'[chan'[d].writer]
                    /\ chan'[d].state = "READER_WAITING" =>
                         ParkedAt(chan[d].reader, "IN", d)'
<1>a. ASSUME chan'[d] = chan[d],
             \A w \in Proc : status[w] = "BLOCKED" /\ Link(w, At(w).arg) = d => Same(w)
      PROVE  Goal
  <2>1. ASSUME chan[d].state = "WRITER_WAITING"
        PROVE  /\ ParkedAt(chan[d].writer, "OUT", d)'
               /\ chan'[d].value = areg'[chan'[d].writer]
    <3>1. /\ ParkedAt(chan[d].writer, "OUT", d)
          /\ chan[d].value = areg[chan[d].writer]
      BY <2>1 DEF WaiterIsParked
    <3>2. Same(chan[d].writer)
      BY <3>1, <1>a DEF ParkedAt
    <3>. QED  BY <3>1, <3>2, <1>a DEF ParkedAt, At
  <2>2. ASSUME chan[d].state = "READER_WAITING"
        PROVE  ParkedAt(chan[d].reader, "IN", d)'
    <3>1. ParkedAt(chan[d].reader, "IN", d)
      BY <2>2 DEF WaiterIsParked
    <3>2. Same(chan[d].reader)
      BY <3>1, <1>a DEF ParkedAt
    <3>. QED  BY <3>1, <3>2, <1>a DEF ParkedAt, At
  <2>. QED  BY <2>1, <2>2, <1>a
<1>1. ASSUME NEW p \in Proc, Skip(p) PROVE Goal
  BY <1>1, <1>a DEF Skip, procVars
<1>2. ASSUME NEW p \in Proc, Local(p) PROVE Goal
  BY <1>2, <1>a DEF Local, Running, TypeOK
<1>3. ASSUME NEW p \in Proc, Exit(p) PROVE Goal
  BY <1>3, <1>a DEF Exit, Running, TypeOK
<1>4. ASSUME NEW p \in Proc, Throw(p) PROVE Goal
  BY <1>4, <1>a DEF Throw, procVars
<1>5. ASSUME NEW p \in Proc, OutDelivers(p) PROVE Goal
  <2>. DEFINE c == Link(p, At(p).arg)
              r == chan[c].reader
  <2>1. Running(p) /\ c # 0 /\ c \in DOMAIN Edges
    BY <1>5, LinkFacts DEF OutDelivers, AtChannel
  <2>2. ParkedAt(r, "IN", c)
    BY <1>5, <2>1 DEF OutDelivers, WaiterIsParked
  <2>3. CASE d = c
    BY <1>5, <2>1, <2>3 DEF OutDelivers, TypeOK, Channel
  <2>4. CASE d # c
    <3>1. chan'[d] = chan[d]
      BY <1>5, <2>4 DEF OutDelivers, TypeOK
    <3>2. ASSUME NEW w \in Proc, status[w] = "BLOCKED", Link(w, At(w).arg) = d
          PROVE  Same(w)
      <4>1. w # p /\ w # r
        BY <3>2, <2>1, <2>2, <2>4 DEF Running, ParkedAt
      <4>. QED  BY <4>1, <1>5, <2>2 DEF OutDelivers, Rendezvous, TypeOK, ParkedAt
    <3>. QED  BY <3>1, <3>2, <1>a
  <2>. QED  BY <2>3, <2>4
<1>6. ASSUME NEW p \in Proc, OutParks(p) PROVE Goal
  <2>. DEFINE c == Link(p, At(p).arg)
  <2>1. Running(p) /\ c # 0 /\ c \in DOMAIN Edges /\ At(p).op = "OUT"
    BY <1>6, LinkFacts DEF OutParks, AtChannel
  <2>2. CASE d = c
    <3>1. /\ chan'[d].state = "WRITER_WAITING" /\ chan'[d].writer = p
          /\ chan'[d].value = areg[p]
      BY <1>6, <2>1, <2>2 DEF OutParks, TypeOK, Channel
    <3>2. /\ prog' = prog /\ pc' = pc /\ areg' = areg
          /\ status'[p] = "BLOCKED" /\ blockedSlot'[p] = At(p).arg
      BY <1>6 DEF OutParks, Park, TypeOK
    <3>. QED  BY <3>1, <3>2, <2>1, <2>2 DEF ParkedAt, At
  <2>3. CASE d # c
    BY <1>6, <2>1, <2>3, <1>a DEF OutParks, Park, Running, TypeOK
  <2>. QED  BY <2>2, <2>3
<1>7. ASSUME NEW p \in Proc, InTakes(p) PROVE Goal
  <2>. DEFINE c == Link(p, At(p).arg)
              r == chan[c].writer
  <2>1. Running(p) /\ c # 0 /\ c \in DOMAIN Edges
    BY <1>7, LinkFacts DEF InTakes, AtChannel
  <2>2. ParkedAt(r, "OUT", c)
    BY <1>7, <2>1 DEF InTakes, WaiterIsParked
  <2>3. CASE d = c
    BY <1>7, <2>1, <2>3 DEF InTakes, TypeOK, Channel
  <2>4. CASE d # c
    <3>1. chan'[d] = chan[d]
      BY <1>7, <2>4 DEF InTakes, TypeOK
    <3>2. ASSUME NEW w \in Proc, status[w] = "BLOCKED", Link(w, At(w).arg) = d
          PROVE  Same(w)
      <4>1. w # p /\ w # r
        BY <3>2, <2>1, <2>2, <2>4 DEF Running, ParkedAt
      <4>. QED  BY <4>1, <1>7, <2>2 DEF InTakes, Rendezvous, TypeOK, ParkedAt
    <3>. QED  BY <3>1, <3>2, <1>a
  <2>. QED  BY <2>3, <2>4
<1>8. ASSUME NEW p \in Proc, InParks(p) PROVE Goal
  <2>. DEFINE c == Link(p, At(p).arg)
  <2>1. Running(p) /\ c # 0 /\ c \in DOMAIN Edges /\ At(p).op = "IN"
    BY <1>8, LinkFacts DEF InParks, AtChannel
  <2>2. CASE d = c
    <3>1. chan'[d].state = "READER_WAITING" /\ chan'[d].reader = p
      BY <1>8, <2>1, <2>2 DEF InParks, TypeOK, Channel
    <3>2. /\ prog' = prog /\ pc' = pc /\ areg' = areg
          /\ status'[p] = "BLOCKED" /\ blockedSlot'[p] = At(p).arg
      BY <1>8 DEF InParks, Park, TypeOK
    <3>. QED  BY <3>1, <3>2, <2>1, <2>2 DEF ParkedAt, At
  <2>3. CASE d # c
    BY <1>8, <2>1, <2>3, <1>a DEF InParks, Park, Running, TypeOK
  <2>. QED  BY <2>2, <2>3
<1>9. CASE EndRound
  BY <1>9, <1>a DEF EndRound, procVars
<1>10. CASE UNCHANGED vars
  BY <1>10, <1>a DEF vars, procVars
<1>. QED
  BY <1>1, <1>2, <1>3, <1>4, <1>5, <1>6, <1>7, <1>8, <1>9, <1>10 DEF Next, Step, Ended

\* The channel of a parked processor q is in the state of its operation, and
\* names q or the processor at the other end.
Registered(q) ==
  LET c == Link(q, At(q).arg)
  IN  \/ /\ ParkedAt(q, "OUT", c)
         /\ chan[c].state = "WRITER_WAITING"
         /\ chan[c].writer \in {q, Peer(<<q, At(q).arg>>)[1]}
      \/ /\ ParkedAt(q, "IN", c)
         /\ chan[c].state = "READER_WAITING"
         /\ chan[c].reader \in {q, Peer(<<q, At(q).arg>>)[1]}

\* ParkedIsRegistered, processor by processor.
LEMMA RegisteredDef ==
  ParkedIsRegistered <=> \A q \in Proc : status[q] = "BLOCKED" => Registered(q)
BY DEF ParkedIsRegistered, Registered

\* The same in the next state.
LEMMA RegisteredDefNext ==
  ParkedIsRegistered' <=> \A q \in Proc : status'[q] = "BLOCKED" => Registered(q)'
BY DEF ParkedIsRegistered, Registered

\* No turn of run leaves a BLOCKED processor that its channel forgot.
LEMMA ParkedNext ==
  TypeOK /\ WaiterIsParked /\ ParkedIsRegistered /\ [Next]_vars => ParkedIsRegistered'
<1>. SUFFICES ASSUME TypeOK, WaiterIsParked, ParkedIsRegistered, [Next]_vars,
                     NEW q \in Proc, status'[q] = "BLOCKED"
              PROVE  Registered(q)'
  BY RegisteredDefNext
<1>. DEFINE e == Link(q, At(q).arg)
            Same == /\ prog' = prog /\ pc'[q] = pc[q] /\ status'[q] = status[q]
                    /\ blockedSlot'[q] = blockedSlot[q]
\* A processor is left parked where it was when its channel is left alone.
<1>a. ASSUME Same, chan'[e] = chan[e] PROVE Registered(q)'
  <2>1. Registered(q)
    BY <1>a, RegisteredDef
  <2>2. At(q)' = At(q)
    BY <1>a DEF At
  <2>. QED  BY <2>1, <2>2, <1>a DEF Registered, ParkedAt
<1>1. ASSUME NEW p \in Proc, Skip(p) PROVE Registered(q)'
  BY <1>1, <1>a DEF Skip, procVars
<1>2. ASSUME NEW p \in Proc, Local(p) PROVE Registered(q)'
  BY <1>2, <1>a DEF Local, Running, TypeOK
<1>3. ASSUME NEW p \in Proc, Exit(p) PROVE Registered(q)'
  BY <1>3, <1>a DEF Exit, Running, TypeOK
<1>4. ASSUME NEW p \in Proc, Throw(p) PROVE Registered(q)'
  BY <1>4, <1>a DEF Throw, procVars
<1>5. ASSUME NEW p \in Proc, OutDelivers(p) PROVE Registered(q)'
  <2>. DEFINE c == Link(p, At(p).arg)
              r == chan[c].reader
  <2>1. Running(p) /\ c # 0 /\ c \in DOMAIN Edges
    BY <1>5, LinkFacts DEF OutDelivers, AtChannel
  <2>2. ParkedAt(r, "IN", c)
    BY <1>5, <2>1 DEF OutDelivers, WaiterIsParked
  <2>3. r \in Proc
    BY <2>2 DEF ParkedAt
  <2>4. q # p /\ q # r
    BY <1>5, <2>3 DEF OutDelivers, Rendezvous, TypeOK
  <2>5. Same
    BY <1>5, <2>3, <2>4 DEF OutDelivers, Rendezvous, TypeOK
  <2>a. \A x, u : Link(x, u) = c => x \in {p, r}
    BY <2>1, <2>2, Movers
  <2>6. e # c
    BY <2>4, <2>a
  <2>7. chan'[e] = chan[e]
    BY <1>5, <2>6 DEF OutDelivers, TypeOK
  <2>. QED  BY <2>5, <2>7, <1>a
<1>6. ASSUME NEW p \in Proc, OutParks(p) PROVE Registered(q)'
  <2>. DEFINE c == Link(p, At(p).arg)
  <2>1. Running(p) /\ c # 0 /\ c \in DOMAIN Edges /\ At(p).op = "OUT"
    BY <1>6, LinkFacts DEF OutParks, AtChannel
  <2>2. prog' = prog /\ pc' = pc /\ At(q)' = At(q) /\ At(p)' = At(p)
    BY <1>6 DEF OutParks, Park, At
  <2>3. chan'[c].state = "WRITER_WAITING" /\ chan'[c].writer = p
    BY <1>6, <2>1 DEF OutParks, TypeOK, Channel
  <2>4. CASE q = p
    <3>1. ParkedAt(q, "OUT", c)'
      BY <1>6, <2>1, <2>2, <2>4 DEF OutParks, Park, ParkedAt, TypeOK
    <3>. QED  BY <3>1, <2>2, <2>3, <2>4 DEF Registered
  <2>5. CASE q # p /\ e = c
    <3>1. Same
      BY <1>6, <2>5 DEF OutParks, Park, TypeOK
    <3>2. ParkedAt(q, "OUT", c)
      BY <1>6, <2>5, <3>1, RegisteredDef DEF OutParks, Registered
    <3>3. Peer(<<q, At(q).arg>>)[1] = p
      <4>1. Peer(<<q, At(q).arg>>) = <<p, At(p).arg>>
        BY <2>1, <2>5, SameChannel
      <4>. QED  BY <4>1
    <3>4. ParkedAt(q, "OUT", c)'
      BY <3>1, <3>2, <2>2 DEF ParkedAt, At
    <3>5. Link(q, At(q).arg)' = c /\ Peer(<<q, At(q).arg>>)'[1] = p /\ c' = c
      BY <3>3, <2>2, <2>5
    <3>. QED  BY <3>4, <3>5, <2>3 DEF Registered
  <2>6. CASE q # p /\ e # c
    BY <1>6, <2>6, <1>a DEF OutParks, Park, TypeOK
  <2>. QED  BY <2>4, <2>5, <2>6
<1>7. ASSUME NEW p \in Proc, InTakes(p) PROVE Registered(q)'
  <2>. DEFINE c == Link(p, At(p).arg)
              r == chan[c].writer
  <2>1. Running(p) /\ c # 0 /\ c \in DOMAIN Edges
    BY <1>7, LinkFacts DEF InTakes, AtChannel
  <2>2. ParkedAt(r, "OUT", c)
    BY <1>7, <2>1 DEF InTakes, WaiterIsParked
  <2>3. r \in Proc
    BY <2>2 DEF ParkedAt
  <2>4. q # p /\ q # r
    BY <1>7, <2>3 DEF InTakes, Rendezvous, TypeOK
  <2>5. Same
    BY <1>7, <2>3, <2>4 DEF InTakes, Rendezvous, TypeOK
  <2>a. \A x, u : Link(x, u) = c => x \in {p, r}
    BY <2>1, <2>2, Movers
  <2>6. e # c
    BY <2>4, <2>a
  <2>7. chan'[e] = chan[e]
    BY <1>7, <2>6 DEF InTakes, TypeOK
  <2>. QED  BY <2>5, <2>7, <1>a
<1>8. ASSUME NEW p \in Proc, InParks(p) PROVE Registered(q)'
  <2>. DEFINE c == Link(p, At(p).arg)
  <2>1. Running(p) /\ c # 0 /\ c \in DOMAIN Edges /\ At(p).op = "IN"
    BY <1>8, LinkFacts DEF InParks, AtChannel
  <2>2. prog' = prog /\ pc' = pc /\ At(q)' = At(q) /\ At(p)' = At(p)
    BY <1>8 DEF InParks, Park, At
  <2>3. chan'[c].state = "READER_WAITING" /\ chan'[c].reader = p
    BY <1>8, <2>1 DEF InParks, TypeOK, Channel
  <2>4. CASE q = p
    <3>1. ParkedAt(q, "IN", c)'
      BY <1>8, <2>1, <2>2, <2>4 DEF InParks, Park, ParkedAt, TypeOK
    <3>. QED  BY <3>1, <2>2, <2>3, <2>4 DEF Registered
  <2>5. CASE q # p /\ e = c
    <3>1. Same
      BY <1>8, <2>5 DEF InParks, Park, TypeOK
    <3>2. ParkedAt(q, "IN", c)
      BY <1>8, <2>5, <3>1, RegisteredDef DEF InParks, Registered
    <3>3. Peer(<<q, At(q).arg>>)[1] = p
      <4>1. Peer(<<q, At(q).arg>>) = <<p, At(p).arg>>
        BY <2>1, <2>5, SameChannel
      <4>. QED  BY <4>1
    <3>4. ParkedAt(q, "IN", c)'
      BY <3>1, <3>2, <2>2 DEF ParkedAt, At
    <3>5. Link(q, At(q).arg)' = c /\ Peer(<<q, At(q).arg>>)'[1] = p /\ c' = c
      BY <3>3, <2>2, <2>5
    <3>. QED  BY <3>4, <3>5, <2>3 DEF Registered
  <2>6. CASE q # p /\ e # c
    BY <1>8, <2>6, <1>a DEF InParks, Park, TypeOK
  <2>. QED  BY <2>4, <2>5, <2>6
<1>9. CASE EndRound
  BY <1>9, <1>a DEF EndRound, procVars
<1>10. CASE UNCHANGED vars
  BY <1>10, <1>a DEF vars, procVars
<1>. QED
  BY <1>1, <1>2, <1>3, <1>4, <1>5, <1>6, <1>7, <1>8, <1>9, <1>10 DEF Next, Step, Ended

--------------------------------------------------------------------------------
(***************************************************************************)
(* The inductive invariant and what follows from it.                       *)
(***************************************************************************)
IInv == TypeOK /\ WaiterIsParked /\ ParkedIsRegistered

\* The inductive invariant holds after reset.
LEMMA InvInit == Init => IInv
<1>1. Init => WaiterIsParked
  BY DEF Init, WaiterIsParked
<1>2. Init => ParkedIsRegistered
  BY DEF Init, ParkedIsRegistered
<1>. QED  BY <1>1, <1>2, TypeInit DEF IInv

\* The inductive invariant is preserved by every turn and by the end of a round.
LEMMA InvNext == IInv /\ [Next]_vars => IInv'
BY TypeNext, WaiterNext, ParkedNext DEF IInv

\* The inductive invariant holds of every run.
LEMMA Invariance == Spec => []IInv
BY InvInit, InvNext, PTL DEF Spec

\* The variables of a run always have their types, and no processor that has
\* not exited fetches outside of its program.
THEOREM TypeCorrect == Spec => []TypeOK
BY Invariance, PTL DEF IInv

\* Every channel that says somebody waits names a processor parked at that
\* operation of that channel, and holds that writer's word.
THEOREM WaitersAreParked == Spec => []WaiterIsParked
BY Invariance, PTL DEF IInv

\* Every BLOCKED processor can still be reached from its channel.
THEOREM ParkedAreRegistered == Spec => []ParkedIsRegistered
BY Invariance, PTL DEF IInv

--------------------------------------------------------------------------------
(***************************************************************************)
(* The simulator implements the network of rendezvous.                     *)
(***************************************************************************)
\* The wiring and the instructions are the same in the abstract network.
LEMMA SamePrograms ==
  /\ R!Proc = Proc /\ R!LocalOp = LocalOp
  /\ \A e : R!Wired(e) <=> Wired(e)
  /\ \A e : R!Peer(e) = Peer(e)
  /\ \A op : R!Complement(op) = Complement(op)
  /\ \A i, k, v : R!NextPc(i, k, v) = NextPc(i, k, v)
  /\ \A i, v : R!NextAreg(i, v) = NextAreg(i, v)
<1>1. \A e : R!EdgesAt(e) = EdgesAt(e) /\ R!ChanOf(e) = ChanOf(e)
  BY DEF R!EdgesAt, EdgesAt, R!ChanOf, ChanOf
<1>2. \A e : (R!Wired(e) <=> Wired(e)) /\ R!Peer(e) = Peer(e)
  BY <1>1 DEF R!Wired, Wired, R!Peer, Peer
<1>. QED
  BY <1>2 DEF R!Proc, Proc, R!LocalOp, LocalOp, R!Complement, Complement,
              R!NextPc, NextPc, R!NextAreg, NextAreg

\* Two processors at the two halves of an operation on one channel match.
LEMMA LinkedMatch ==
  ASSUME NEW p \in Proc, NEW q \in Proc, p # q,
         Link(p, At(p).arg) # 0, Link(q, At(q).arg) = Link(p, At(p).arg),
         At(p).op \in {"IN", "OUT"}, At(q).op = Complement(At(p).op),
         status[p] # "HALTED", status[q] # "HALTED"
  PROVE  R!Matched(p) /\ R!Partner(p) = q
<1>1. Wired(<<p, At(p).arg>>) /\ Peer(<<p, At(p).arg>>) = <<q, At(q).arg>>
  BY LinkFacts, SameChannel
<1>2. At(q).op \in {"IN", "OUT"}
  BY DEF Complement
<1>3. \A r : R!At(r) = At(r) /\ R!End(r) = <<r, At(r).arg>>
  BY DEF R!At, At, R!End
<1>4. R!Peer(R!End(p)) = <<q, At(q).arg>> /\ R!Partner(p) = q
  BY <1>1, <1>3, SamePrograms DEF R!Partner
<1>5. R!InChan(p) /\ R!InChan(q)
  BY <1>2, <1>3 DEF R!InChan, R!Gone, Halted
<1>. QED
  BY <1>1, <1>3, <1>4, <1>5, SamePrograms DEF R!Matched

\* An instruction that concerns no channel is a move of one processor.
LEMMA MoveOne ==
  ASSUME NEW p \in Proc, TypeOK, Running(p), At(p).op \in LocalOp \cup {"EXIT"},
         prog' = prog,
         pc' = [pc EXCEPT ![p] = NextPc(At(p), pc[p], areg[p])],
         areg' = [areg EXCEPT ![p] = NextAreg(At(p), areg[p])],
         status' = [status EXCEPT ![p] =
                      IF At(p).op = "EXIT" THEN "HALTED" ELSE "RUNNING"]
  PROVE  R!Move({p})
<1>1. R!Ready(p) /\ ~R!Matched(p)
  BY SamePrograms DEF R!Ready, R!Gone, R!Matched, R!InChan, R!At, At, Halted, Running, LocalOp
<1>2. /\ pc' = [q \in Proc |->
            IF q \in {p} THEN NextPc(R!At(q), pc[q], areg[q]) ELSE pc[q]]
      /\ areg' = [q \in Proc |->
            IF q \notin {p} THEN areg[q]
            ELSE IF R!At(q).op = "IN" THEN areg[R!Partner(q)]
            ELSE NextAreg(R!At(q), areg[q])]
  BY DEF TypeOK, R!At, At, LocalOp
<1>3. Halted' = [q \in Proc |-> Halted[q] \/ (q \in {p} /\ R!At(q).op = "EXIT")]
  BY DEF TypeOK, R!At, At, Halted, Running
<1>. QED  BY <1>1, <1>2, <1>3, SamePrograms DEF R!Move

\* A rendezvous is a move of the two processors that match.
LEMMA MovePair ==
  ASSUME NEW p \in Proc, NEW q \in Proc, p # q, TypeOK,
         status[p] # "HALTED", status[q] # "HALTED",
         Link(p, At(p).arg) # 0, Link(q, At(q).arg) = Link(p, At(p).arg),
         At(p).op = "OUT", At(q).op = "IN",
         prog' = prog,
         pc' = [pc EXCEPT ![p] = pc[p] + 1, ![q] = pc[q] + 1],
         areg' = [areg EXCEPT ![q] = areg[p]],
         status' = [status EXCEPT ![p] = "RUNNING", ![q] = "RUNNING"]
  PROVE  R!Move({p, q})
<1>1. R!Matched(p) /\ R!Partner(p) = q
  BY LinkedMatch DEF Complement
<1>2. R!Matched(q) /\ R!Partner(q) = p
  BY LinkedMatch DEF Complement
<1>3. R!Ready(p) /\ R!Ready(q)
  BY <1>1, <1>2 DEF R!Ready, R!Gone, R!Matched, R!InChan
<1>4. /\ pc' = [r \in Proc |->
            IF r \in {p, q} THEN NextPc(R!At(r), pc[r], areg[r]) ELSE pc[r]]
      /\ areg' = [r \in Proc |->
            IF r \notin {p, q} THEN areg[r]
            ELSE IF R!At(r).op = "IN" THEN areg[R!Partner(r)]
            ELSE NextAreg(R!At(r), areg[r])]
  BY <1>2 DEF TypeOK, R!At, At, NextPc, NextAreg
<1>5. Halted' = [r \in Proc |-> Halted[r] \/ (r \in {p, q} /\ R!At(r).op = "EXIT")]
  BY DEF TypeOK, R!At, At, Halted
<1>. QED  BY <1>1, <1>2, <1>3, <1>4, <1>5, SamePrograms DEF R!Move

\* A network after reset is one the abstract network may start from.
LEMMA RendezvousInit == Init => R!Init
BY SamePrograms DEF Init, R!Init, Halted

\* A turn of run moves one processor, or the two ends of a channel, or none.
LEMMA RendezvousNext == IInv /\ [Next]_vars => [R!Next]_(R!vars)
<1>. SUFFICES ASSUME IInv, [Next]_vars PROVE [R!Next]_(R!vars)
  OBVIOUS
<1>. USE DEF IInv
<1>s. ASSUME prog' = prog, pc' = pc, areg' = areg,
             \A q \in Proc : status'[q] = "HALTED" <=> status[q] = "HALTED"
      PROVE  UNCHANGED R!vars
  BY <1>s DEF R!vars, Halted
<1>m. ASSUME NEW M \in SUBSET Proc, R!Move(M) PROVE R!Next
  BY <1>m, SamePrograms DEF R!Next
<1>1. ASSUME NEW p \in Proc, Skip(p) PROVE UNCHANGED R!vars
  BY <1>1, <1>s DEF Skip, procVars
<1>2. ASSUME NEW p \in Proc, Local(p) PROVE R!Next
  <2>1. status' = [status EXCEPT ![p] =
                     IF At(p).op = "EXIT" THEN "HALTED" ELSE "RUNNING"]
    BY <1>2 DEF Local, LocalOp, Running, TypeOK
  <2>2. R!Move({p})
    BY <1>2, <2>1, MoveOne DEF Local
  <2>. QED  BY <2>2, <1>m
<1>3. ASSUME NEW p \in Proc, Exit(p) PROVE R!Next
  <2>1. /\ pc' = [pc EXCEPT ![p] = NextPc(At(p), pc[p], areg[p])]
        /\ areg' = [areg EXCEPT ![p] = NextAreg(At(p), areg[p])]
    BY <1>3 DEF Exit, NextPc, NextAreg, TypeOK
  <2>2. R!Move({p})
    BY <1>3, <2>1, MoveOne DEF Exit
  <2>. QED  BY <2>2, <1>m
<1>4. ASSUME NEW p \in Proc, Throw(p) PROVE UNCHANGED R!vars
  BY <1>4, <1>s DEF Throw, procVars
<1>5. ASSUME NEW p \in Proc, OutDelivers(p) PROVE R!Next
  <2>. DEFINE c == Link(p, At(p).arg)
              r == chan[c].reader
  <2>1. Running(p) /\ c # 0 /\ c \in DOMAIN Edges /\ At(p).op = "OUT"
    BY <1>5, LinkFacts DEF OutDelivers, AtChannel
  <2>2. ParkedAt(r, "IN", c)
    BY <1>5, <2>1 DEF OutDelivers, WaiterIsParked
  <2>3. r \in Proc /\ At(r).op = "IN" /\ status[r] = "BLOCKED" /\ Link(r, At(r).arg) = c
    BY <2>2 DEF ParkedAt
  <2>4. R!Move({p, r})
    BY <1>5, <2>1, <2>3, MovePair DEF OutDelivers, Rendezvous, Running
  <2>. QED  BY <2>3, <2>4, <1>m
<1>6. ASSUME NEW p \in Proc, OutParks(p) PROVE UNCHANGED R!vars
  BY <1>6, <1>s DEF OutParks, Park, AtChannel, Running, TypeOK
<1>7. ASSUME NEW p \in Proc, InTakes(p) PROVE R!Next
  <2>. DEFINE c == Link(p, At(p).arg)
              w == chan[c].writer
  <2>1. Running(p) /\ c # 0 /\ c \in DOMAIN Edges /\ At(p).op = "IN"
    BY <1>7, LinkFacts DEF InTakes, AtChannel
  <2>2. ParkedAt(w, "OUT", c) /\ chan[c].value = areg[w]
    BY <1>7, <2>1 DEF InTakes, WaiterIsParked
  <2>3. w \in Proc /\ At(w).op = "OUT" /\ status[w] = "BLOCKED" /\ Link(w, At(w).arg) = c
    BY <2>2 DEF ParkedAt
  <2>4. /\ areg' = [areg EXCEPT ![p] = areg[w]]
        /\ pc' = [pc EXCEPT ![w] = pc[w] + 1, ![p] = pc[p] + 1]
        /\ status' = [status EXCEPT ![w] = "RUNNING", ![p] = "RUNNING"]
        /\ prog' = prog /\ p # w
    BY <1>7, <2>1, <2>2, <2>3 DEF InTakes, Rendezvous, Running, TypeOK
  <2>5. R!Move({w, p})
    BY <2>1, <2>3, <2>4, MovePair DEF Running
  <2>. QED  BY <2>3, <2>5, <1>m
<1>8. ASSUME NEW p \in Proc, InParks(p) PROVE UNCHANGED R!vars
  BY <1>8, <1>s DEF InParks, Park, AtChannel, Running, TypeOK
<1>9. CASE EndRound
  BY <1>9, <1>s DEF EndRound, procVars
<1>10. CASE UNCHANGED vars
  BY <1>10, <1>s DEF vars, procVars
<1>. QED
  BY <1>1, <1>2, <1>3, <1>4, <1>5, <1>6, <1>7, <1>8, <1>9, <1>10 DEF Next, Step, Ended

\* Whatever the network, the simulator takes it through steps of the network
\* of rendezvous: a word is delivered once, to the other end of its channel,
\* as the writer had it, and both ends go on with their next instruction.
THEOREM SimulatorImplementsRendezvous == Spec => Simulates
<1>1. Spec => []IInv
  BY Invariance
<1>. QED
  BY <1>1, RendezvousInit, RendezvousNext, PTL DEF Spec, Simulates, R!Spec

--------------------------------------------------------------------------------
(***************************************************************************)
(* The verdict of the simulator.                                           *)
(***************************************************************************)
\* When no processor is RUNNING, none of those that have not halted can move.
LEMMA NobodyReady ==
  ASSUME IInv, ~AnyRunning, NEW p \in Proc
  PROVE  ~R!Ready(p)
<1>. SUFFICES ASSUME R!Ready(p) PROVE FALSE
  OBVIOUS
<1>. DEFINE c == Link(p, At(p).arg)
            q == R!Partner(p)
<1>1. status[p] = "BLOCKED"
  BY DEF R!Ready, R!Gone, Halted, IInv, TypeOK, AnyRunning, Running
<1>2. Registered(p)
  BY <1>1, RegisteredDef DEF IInv
<1>3. At(p).op \in {"IN", "OUT"}
  BY <1>2 DEF Registered, ParkedAt
<1>4. R!Matched(p)
  BY <1>3, SamePrograms DEF R!Ready, R!Gone, R!At, At, LocalOp
<1>5. /\ Peer(<<p, At(p).arg>>) = <<q, At(q).arg>>
      /\ ~Halted[q] /\ At(q).op = Complement(At(p).op)
  BY <1>4, SamePrograms DEF R!Matched, R!InChan, R!Gone, R!End, R!At, At
<1>6. c # 0
  BY <1>4, SamePrograms, WiredLink DEF R!Matched, R!End, R!At, At
<1>7. q \in Proc /\ Link(q, At(q).arg) = c
  BY <1>5, <1>6, PeerLink
<1>8. status[q] = "BLOCKED" /\ Registered(q)
  BY <1>5, <1>7, RegisteredDef DEF IInv, TypeOK, Halted, AnyRunning, Running
<1>9. chan[c].state = "WRITER_WAITING" <=> At(p).op = "OUT"
  BY <1>2 DEF Registered, ParkedAt
<1>10. chan[c].state = "WRITER_WAITING" <=> At(q).op = "OUT"
  BY <1>7, <1>8 DEF Registered, ParkedAt
<1>. QED  BY <1>3, <1>5, <1>9, <1>10 DEF Complement

VerdictInv ==
  /\ result = "deadlock" => ~AllHalted /\ ~AnyRunning
  /\ result = "returned" => AllHalted

\* Once run has reported a deadlock, nobody is RUNNING and somebody is not HALTED; once
\* it has returned, everybody is.
LEMMA VerdictNext == VerdictInv /\ [Next]_vars => VerdictInv'
<1>. SUFFICES ASSUME VerdictInv, [Next]_vars PROVE VerdictInv'
  OBVIOUS
<1>1. ASSUME NEW p \in Proc, Step(p) PROVE result' \notin {"deadlock", "returned"}
  BY <1>1 DEF Step, Skip, Local, Exit, Throw, OutDelivers, OutParks, InTakes, InParks,
              AtChannel, Rendezvous, Park, Turn, sysVars
<1>2. CASE EndRound
  BY <1>2 DEF EndRound, VerdictInv, AllHalted, AnyRunning, Running, procVars
<1>3. CASE UNCHANGED vars
  BY <1>3 DEF vars, procVars, sysVars, VerdictInv, AllHalted, AnyRunning, Running
<1>. QED  BY <1>1, <1>2, <1>3 DEF Next, Ended, VerdictInv

\* So it is in every run.
LEMMA VerdictInvCorrect == Spec => []VerdictInv
<1>1. Init => VerdictInv
  BY DEF Init, VerdictInv
<1>. QED  BY <1>1, VerdictNext, PTL DEF Spec

\* A deadlock that is reported is one: somebody has not halted, and nobody
\* could take another step, however the processors had been scheduled.
THEOREM DeadlocksAreReal == Spec => []DeadlockIsReal
<1>1. IInv /\ VerdictInv => DeadlockIsReal
  <2>. SUFFICES ASSUME IInv, VerdictInv, result = "deadlock"
                PROVE  (\E p \in Proc : ~Halted[p]) /\ (\A p \in Proc : ~R!Ready(p))
    BY DEF DeadlockIsReal
  <2>1. ~AllHalted /\ ~AnyRunning
    BY DEF VerdictInv
  <2>2. \E p \in Proc : ~Halted[p]
    BY <2>1 DEF AllHalted, Halted
  <2>. QED  BY <2>1, <2>2, NobodyReady
<1>. QED  BY <1>1, VerdictInvCorrect, Invariance, PTL

--------------------------------------------------------------------------------
(***************************************************************************)
(* The exit code.                                                          *)
(***************************************************************************)
\* The processors that have halted are those of haltOrder.  Until an exit code
\* is taken they all have halted in this round, so the first is the least.
HaltInv ==
  /\ \A p \in Proc : status[p] = "HALTED" <=> \E i \in 1 .. Len(haltOrder) : haltOrder[i] = p
  /\ ~haveExit => \A i \in 1 .. Len(haltOrder) :
                    haltOrder[1] =< haltOrder[i] /\ haltOrder[i] < turn
  /\ ~haveExit /\ haltOrder # <<>> => result \in {"none", "error"}
  /\ haveExit => haltOrder # <<>> /\ exitCode = code[haltOrder[1]]

\* What the history of halts says, element by element.
LEMMA HaltOrderFacts ==
  ASSUME TypeOK
  PROVE  /\ haltOrder \in Seq(Proc) /\ Len(haltOrder) \in Nat
         /\ haltOrder # <<>> => 1 \in 1 .. Len(haltOrder)
         /\ \A i \in 1 .. Len(haltOrder) : haltOrder[i] \in Nat
         /\ Proc \subseteq Nat
<1>1. haltOrder \in Seq(Proc)
  BY DEF TypeOK
<1>2. Proc \subseteq Nat
  BY DEF Proc
<1>3. Len(haltOrder) \in Nat /\ (haltOrder # <<>> => 1 \in 1 .. Len(haltOrder))
  BY <1>1
<1>4. \A i \in 1 .. Len(haltOrder) : haltOrder[i] \in Proc
  BY <1>1
<1>. QED  BY <1>1, <1>2, <1>3, <1>4

\* Nobody has halted after reset.
LEMMA HaltInit == Init => HaltInv
BY DEF Init, HaltInv

\* A turn and the end of a round keep the history of halts and the exit code
\* in step.
LEMMA HaltNext == IInv /\ HaltInv /\ [Next]_vars => HaltInv'
<1>. SUFFICES ASSUME IInv, HaltInv, [Next]_vars PROVE HaltInv'
  OBVIOUS
<1>. USE DEF IInv
<1>t. haltOrder \in Seq(Proc) /\ Len(haltOrder) \in Nat
      /\ (haltOrder # <<>> => 1 \in 1 .. Len(haltOrder))
      /\ \A i \in 1 .. Len(haltOrder) : haltOrder[i] \in Nat
      /\ Proc \subseteq Nat
  BY HaltOrderFacts
\* A turn in which nobody halts.
<1>a. ASSUME NEW p \in Proc, turn = p, turn' \in {turn, turn + 1},
             UNCHANGED <<haltOrder, haveExit, exitCode, code>>,
             result' \in {result, "error"},
             \A q \in Proc : status'[q] = "HALTED" <=> status[q] = "HALTED"
      PROVE  HaltInv'
  <2>1. ASSUME NEW i \in 1 .. Len(haltOrder), haltOrder[i] < turn
        PROVE  haltOrder[i] < turn'
    BY <2>1, <1>a, <1>t
  <2>. QED  BY <2>1, <1>a DEF HaltInv
<1>1. ASSUME NEW p \in Proc, Skip(p) PROVE HaltInv'
  BY <1>1, <1>a DEF Skip, Turn, procVars, sysVars
<1>2. ASSUME NEW p \in Proc, Local(p) PROVE HaltInv'
  BY <1>2, <1>a DEF Local, Turn, sysVars
<1>3. ASSUME NEW p \in Proc, Exit(p) PROVE HaltInv'
  <2>1. /\ turn = p /\ turn' = p + 1 /\ haltOrder' = Append(haltOrder, p)
        /\ UNCHANGED <<haveExit, exitCode, result>> /\ result = "none"
        /\ status[p] = "RUNNING"
    BY <1>3 DEF Exit, Turn, Running, sysVars
  <2>2. /\ Len(haltOrder') = Len(haltOrder) + 1
        /\ \A i \in 1 .. Len(haltOrder) : haltOrder'[i] = haltOrder[i]
        /\ haltOrder'[Len(haltOrder) + 1] = p
    BY <2>1, <1>t
  <2>3. \A q \in Proc : status'[q] = "HALTED" <=>
                        \E i \in 1 .. Len(haltOrder') : haltOrder'[i] = q
    <3>1. \A q \in Proc : status'[q] = "HALTED" <=> q = p \/ status[q] = "HALTED"
      BY <1>3 DEF Exit, TypeOK
    <3>2. ASSUME NEW q \in Proc
          PROVE  (\E i \in 1 .. Len(haltOrder') : haltOrder'[i] = q) <=>
                   \/ q = p
                   \/ \E i \in 1 .. Len(haltOrder) : haltOrder[i] = q
      <4>1. 1 .. Len(haltOrder') = 1 .. Len(haltOrder) \cup {Len(haltOrder) + 1}
        BY <2>2, <1>t
      <4>. QED  BY <4>1, <2>2
    <3>. QED  BY <3>1, <3>2 DEF HaltInv
  <2>4. ~haveExit' => \A i \in 1 .. Len(haltOrder') :
                        haltOrder'[1] =< haltOrder'[i] /\ haltOrder'[i] < turn'
    <3>. SUFFICES ASSUME ~haveExit, NEW i \in 1 .. Len(haltOrder')
                  PROVE  haltOrder'[1] =< haltOrder'[i] /\ haltOrder'[i] < turn'
      BY <2>1
    <3>1. CASE i \in 1 .. Len(haltOrder)
      BY <3>1, <2>1, <2>2, <1>t DEF HaltInv
    <3>2. CASE i = Len(haltOrder) + 1
      <4>0. p \in Nat
        BY DEF Proc
      <4>1. haltOrder'[i] = p /\ p \in Nat /\ p < turn'
        BY <4>0, <3>2, <2>1, <2>2
      <4>2. CASE haltOrder = <<>>
        BY <4>1, <4>2, <3>2, <2>2
      <4>3. CASE haltOrder # <<>>
        <5>1. haltOrder'[1] = haltOrder[1] /\ haltOrder[1] < turn /\ haltOrder[1] \in Nat
          BY <4>3, <2>2, <1>t DEF HaltInv
        <5>. QED  BY <5>1, <4>1, <2>1
      <4>. QED  BY <4>1, <4>2, <4>3
    <3>. QED  BY <3>1, <3>2, <2>2, <1>t
  <2>5. haveExit' => haltOrder' # <<>> /\ exitCode' = code'[haltOrder'[1]]
    <3>. SUFFICES ASSUME haveExit
                  PROVE  haltOrder' # <<>> /\ exitCode' = code'[haltOrder'[1]]
      BY <2>1
    <3>1. haltOrder # <<>> /\ exitCode = code[haltOrder[1]]
      BY DEF HaltInv
    <3>2. haltOrder[1] \in Proc /\ haltOrder'[1] = haltOrder[1]
      BY <3>1, <2>2, <1>t
    <3>3. status[haltOrder[1]] = "HALTED"
      BY <3>1, <3>2, <1>t DEF HaltInv
    <3>4. code'[haltOrder[1]] = code[haltOrder[1]]
      BY <3>2, <3>3, <2>1, <1>3 DEF Exit, TypeOK
    <3>. QED  BY <3>1, <3>2, <3>4, <2>1, <2>2, <1>t
  <2>. QED  BY <2>1, <2>3, <2>4, <2>5 DEF HaltInv
<1>4. ASSUME NEW p \in Proc, Throw(p) PROVE HaltInv'
  BY <1>4, <1>a DEF Throw, Turn, procVars
<1>5. ASSUME NEW p \in Proc, OutDelivers(p) PROVE HaltInv'
  <2>1. \A q \in Proc : status'[q] = "HALTED" <=> status[q] = "HALTED"
    <3>. DEFINE c == Link(p, At(p).arg)
    <3>1. Running(p) /\ c \in DOMAIN Edges
      BY <1>5, LinkFacts DEF OutDelivers, AtChannel
    <3>2. ParkedAt(chan[c].reader, "IN", c)
      BY <1>5, <3>1 DEF OutDelivers, WaiterIsParked
    <3>. QED
      BY <1>5, <3>1, <3>2 DEF OutDelivers, Rendezvous, ParkedAt, Running, TypeOK
  <2>. QED  BY <1>5, <2>1, <1>a DEF OutDelivers, Rendezvous, AtChannel, Turn, sysVars
<1>6. ASSUME NEW p \in Proc, OutParks(p) PROVE HaltInv'
  BY <1>6, <1>a DEF OutParks, Park, AtChannel, Turn, Running, TypeOK, sysVars
<1>7. ASSUME NEW p \in Proc, InTakes(p) PROVE HaltInv'
  <2>1. \A q \in Proc : status'[q] = "HALTED" <=> status[q] = "HALTED"
    <3>. DEFINE c == Link(p, At(p).arg)
    <3>1. Running(p) /\ c \in DOMAIN Edges
      BY <1>7, LinkFacts DEF InTakes, AtChannel
    <3>2. ParkedAt(chan[c].writer, "OUT", c)
      BY <1>7, <3>1 DEF InTakes, WaiterIsParked
    <3>. QED
      BY <1>7, <3>1, <3>2 DEF InTakes, Rendezvous, ParkedAt, Running, TypeOK
  <2>. QED  BY <1>7, <2>1, <1>a DEF InTakes, Rendezvous, AtChannel, Turn, sysVars
<1>8. ASSUME NEW p \in Proc, InParks(p) PROVE HaltInv'
  BY <1>8, <1>a DEF InParks, Park, AtChannel, Turn, Running, TypeOK, sysVars
<1>9. CASE EndRound
  <2>1. UNCHANGED <<haltOrder, status, code>>
    BY <1>9 DEF EndRound, procVars
  <2>2. CASE ~haveExit /\ haltOrder = <<>>
    <3>1. \A p \in Proc : status[p] # "HALTED"
      BY <2>2 DEF HaltInv
    <3>2. ~haveExit'
      BY <1>9, <2>2, <3>1 DEF EndRound, RecordExit, FirstHalted
    <3>. QED  BY <2>1, <2>2, <3>1, <3>2 DEF HaltInv
  <2>3. CASE ~haveExit /\ haltOrder # <<>>
    <3>. DEFINE h == haltOrder[1]
    <3>1. h \in Proc /\ status[h] = "HALTED"
      BY <2>3, <1>t DEF HaltInv
    <3>2. \A p \in Proc : FirstHalted(p) => p = h
      BY <2>3, <3>1, <1>t DEF FirstHalted, HaltInv, Proc
    <3>3. haveExit' /\ exitCode' = code[h]
      BY <1>9, <2>3, <3>1, <3>2 DEF EndRound, RecordExit
    <3>. QED  BY <2>1, <2>3, <3>3 DEF HaltInv
  <2>4. CASE haveExit
    <3>1. haveExit' /\ exitCode' = exitCode
      BY <1>9, <2>4 DEF EndRound, RecordExit
    <3>. QED  BY <2>1, <2>4, <3>1 DEF HaltInv
  <2>. QED  BY <2>2, <2>3, <2>4
<1>10. CASE UNCHANGED vars
  BY <1>10 DEF vars, procVars, sysVars, HaltInv
<1>. QED
  BY <1>1, <1>2, <1>3, <1>4, <1>5, <1>6, <1>7, <1>8, <1>9, <1>10 DEF Next, Step, Ended

\* The exit code is that of the processor that halted before all others.
THEOREM ExitCodeIsOfFirst == Spec => []FirstToHalt
<1>1. IInv /\ HaltInv => FirstToHalt
  <2>. SUFFICES ASSUME IInv, HaltInv, ~haveExit, haltOrder # <<>> PROVE turn # 0
    BY DEF FirstToHalt, HaltInv
  <2>1. 1 \in 1 .. Len(haltOrder) /\ haltOrder[1] \in Nat
    BY HaltOrderFacts DEF IInv
  <2>. QED  BY <2>1 DEF HaltInv
<1>. QED  BY <1>1, HaltInit, HaltNext, Invariance, PTL DEF Spec

\* When run is over, an exit code has been taken if anybody has halted, and is that
\* of somebody who has.
ExitTaken ==
  /\ result \in {"returned", "deadlock"} /\ (\E p \in Proc : status[p] = "HALTED") =>
       haveExit
  /\ haveExit => \E p \in Proc : status[p] = "HALTED" /\ exitCode = code[p]

\* This is what HaltInv says of the two.
LEMMA ExitTakenCorrect == Spec => []ExitTaken
<1>1. IInv /\ HaltInv => ExitTaken
  <2>. SUFFICES ASSUME IInv, HaltInv PROVE ExitTaken
    OBVIOUS
  <2>1. /\ haltOrder \in Seq(Proc)
        /\ haltOrder # <<>> => 1 \in 1 .. Len(haltOrder)
    BY HaltOrderFacts DEF IInv
  <2>2. haltOrder # <<>> => haltOrder[1] \in Proc /\ status[haltOrder[1]] = "HALTED"
    BY <2>1 DEF HaltInv
  <2>3. (\E p \in Proc : status[p] = "HALTED") => haltOrder # <<>>
    BY <2>1 DEF HaltInv
  <2>. QED  BY <2>2, <2>3 DEF HaltInv, ExitTaken
<1>. QED  BY <1>1, HaltInit, HaltNext, Invariance, PTL DEF Spec

\* A processor that has halted is one past the EXIT that gave its code.
CodeInv ==
  \A p \in Proc : status[p] = "HALTED" => code[p] = prog[p][pc[p] - 1].arg

\* Nothing moves a processor that has halted.
LEMMA CodeNext == IInv /\ CodeInv /\ [Next]_vars => CodeInv'
<1>. SUFFICES ASSUME IInv, CodeInv, [Next]_vars PROVE CodeInv'
  OBVIOUS
<1>. USE DEF IInv
<1>a. ASSUME \A q \in Proc : status'[q] = "HALTED" =>
                              /\ status[q] = "HALTED" /\ pc'[q] = pc[q]
                              /\ code'[q] = code[q] /\ prog'[q] = prog[q]
      PROVE  CodeInv'
  BY <1>a DEF CodeInv
<1>1. ASSUME NEW p \in Proc, Skip(p) PROVE CodeInv'
  BY <1>1, <1>a DEF Skip, procVars
<1>2. ASSUME NEW p \in Proc, Local(p) PROVE CodeInv'
  BY <1>2, <1>a DEF Local, Running, TypeOK
<1>3. ASSUME NEW p \in Proc, Exit(p) PROVE CodeInv'
  <2>. SUFFICES ASSUME NEW q \in Proc, status'[q] = "HALTED"
                PROVE  code'[q] = prog'[q][pc'[q] - 1].arg
    BY DEF CodeInv
  <2>1. CASE q = p
    <3>1. pc[p] \in Nat /\ pc'[p] = pc[p] + 1 /\ code'[p] = prog[p][pc[p]].arg
      BY <1>3 DEF Exit, TypeOK, At
    <3>2. pc'[p] - 1 = pc[p]
      BY <3>1
    <3>. QED  BY <1>3, <2>1, <3>1, <3>2 DEF Exit
  <2>2. CASE q # p
    BY <1>3, <2>2 DEF Exit, TypeOK, CodeInv
  <2>. QED  BY <2>1, <2>2
<1>4. ASSUME NEW p \in Proc, Throw(p) PROVE CodeInv'
  BY <1>4, <1>a DEF Throw, procVars
<1>5. ASSUME NEW p \in Proc, OutDelivers(p) PROVE CodeInv'
  <2>. DEFINE c == Link(p, At(p).arg)
  <2>1. Running(p) /\ c \in DOMAIN Edges
    BY <1>5, LinkFacts DEF OutDelivers, AtChannel
  <2>2. ParkedAt(chan[c].reader, "IN", c)
    BY <1>5, <2>1 DEF OutDelivers, WaiterIsParked
  <2>. QED
    BY <1>5, <1>a, <2>1, <2>2 DEF OutDelivers, Rendezvous, ParkedAt, Running, TypeOK
<1>6. ASSUME NEW p \in Proc, OutParks(p) PROVE CodeInv'
  BY <1>6, <1>a DEF OutParks, Park, AtChannel, Running, TypeOK
<1>7. ASSUME NEW p \in Proc, InTakes(p) PROVE CodeInv'
  <2>. DEFINE c == Link(p, At(p).arg)
  <2>1. Running(p) /\ c \in DOMAIN Edges
    BY <1>7, LinkFacts DEF InTakes, AtChannel
  <2>2. ParkedAt(chan[c].writer, "OUT", c)
    BY <1>7, <2>1 DEF InTakes, WaiterIsParked
  <2>. QED
    BY <1>7, <1>a, <2>1, <2>2 DEF InTakes, Rendezvous, ParkedAt, Running, TypeOK
<1>8. ASSUME NEW p \in Proc, InParks(p) PROVE CodeInv'
  BY <1>8, <1>a DEF InParks, Park, AtChannel, Running, TypeOK
<1>9. CASE EndRound
  BY <1>9, <1>a DEF EndRound, procVars
<1>10. CASE UNCHANGED vars
  BY <1>10 DEF vars, procVars, CodeInv
<1>. QED
  BY <1>1, <1>2, <1>3, <1>4, <1>5, <1>6, <1>7, <1>8, <1>9, <1>10 DEF Next, Step, Ended

\* So its code stays that of the EXIT.
LEMMA CodeInvCorrect == Spec => []CodeInv
<1>1. Init => CodeInv
  BY DEF Init, CodeInv
<1>. QED  BY <1>1, CodeNext, Invariance, PTL DEF Spec
================================================================================
