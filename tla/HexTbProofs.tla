------------------------------- MODULE HexTbProofs -------------------------------
(***************************************************************************)
(* Proofs about HexTb, for any network, any threshold and any cycle limit: *)
(* no EXIT is missed, and what the testbench makes of the hardware is a    *)
(* run of the network of rendezvous.                                       *)
(***************************************************************************)
EXTENDS HexTb, HexRtlProofs

--------------------------------------------------------------------------------
(***************************************************************************)
(* The testbench only watches: what holds of the hardware holds under it.  *)
(***************************************************************************)
LEMMA TbRunsHardware == TbSpec => Spec
<1>1. TbInit => Init
  BY DEF TbInit
<1>2. [TbNext]_allVars => [Tick]_vars
  BY DEF TbNext, Cycle, Ended, allVars
<1>. QED  BY <1>1, <1>2, PTL DEF TbSpec, Spec

\* What is proved of the hardware.
HardwareInv == PlacedInv /\ prog \in Images

\* What holds of the hardware holds of it under the testbench.
LEMMA HardwareInvCorrect == TbSpec => []HardwareInv
BY TbRunsHardware, PlacedInvCorrect, ProgramsAreImages, PTL DEF HardwareInv

--------------------------------------------------------------------------------
(***************************************************************************)
(* Exits.                                                                  *)
(***************************************************************************)
\* A core has exited when it has executed an EXIT or is at one: the testbench looks
\* after the edge that brings the core there, and the next one takes it away.
ExitInv ==
  \A k \in Proc :
    /\ exited[k] <=> executed[k] \/ (Fetches(k) /\ At(k).op = "EXIT")
    /\ ~Fetches(k) => executed[k]

\* Where the clock edge leaves a core.
LEMMA PcMoves ==
  ASSUME HardwareInv, RunsToExit, Tick, NEW k \in Proc
  PROVE  Fetches(k) /\ At(k).op # "EXIT" => Fetches(k)'
<1>1. IsProgram(prog[k]) /\ prog' = prog
  BY DEF HardwareInv, PlacedInv, TokenInv, CoreInv, TypeOK, Tick
<1>2. pc'[k] = IF Advances(k) THEN NextPc(At(k), pc[k], areg[k]) ELSE pc[k]
  BY DEF Tick, ProcessorsClock
<1>4. ASSUME Fetches(k), At(k).op # "EXIT" PROVE Fetches(k)'
  <2>1. At(k).op # "ILL" /\ At(k) \in Instr
    BY <1>1, <1>4 DEF RunsToExit, HardwareInv, Fetches, At, IsProgram
  <2>2. /\ At(k).op # "BR" => pc[k] + 1 \in DOMAIN prog[k]
        /\ At(k).op \in {"BR", "BRZ"} => At(k).arg \in DOMAIN prog[k]
    BY <1>1, <1>4, <2>1 DEF IsProgram, Fetches, At
  <2>3. NextPc(At(k), pc[k], areg[k]) \in DOMAIN prog[k]
    BY <2>2 DEF NextPc
  <2>. QED  BY <1>1, <1>2, <1>4, <2>3 DEF Fetches
<1>. QED  BY <1>4

\* No core begins at an EXIT.
LEMMA ExitInit == ASSUME RunsToExit PROVE TbInit => ExitInv
<1>. SUFFICES ASSUME TbInit, NEW k \in Proc
              PROVE  ~exited[k] /\ ~executed[k] /\ Fetches(k) /\ At(k).op # "EXIT"
  BY DEF ExitInv
<1>1. prog \in Images /\ pc[k] = 0 /\ ~exited[k] /\ ~executed[k]
  BY DEF TbInit, Init
<1>2. 0 \in DOMAIN prog[k]
  BY <1>1, ImagesAssumption DEF ImagesAssumption, IsProgram
<1>. QED  BY <1>1, <1>2 DEF RunsToExit, Fetches, At

\* The cores whose exit is served at a cycle.
LEMMA ServedFacts ==
  ASSUME ServeExits, NEW k \in Proc
  PROVE  exited'[k] <=> exited[k] \/ (Fetches(k)' /\ At(k)'.op = "EXIT")
BY DEF ServeExits, Exiting, AtExit

\* The cores that have executed an EXIT when the edge has passed.
LEMMA ExecutedFacts ==
  ASSUME Cycle, NEW k \in Proc
  PROVE  executed'[k] = (executed[k] \/ (Fetches(k) /\ At(k).op = "EXIT"))
BY DEF Cycle

\* The testbench looks after every edge, so that it sees each EXIT arrive.
LEMMA ExitNext ==
  ASSUME HardwareInv, RunsToExit, ExitInv, Cycle
  PROVE  ExitInv'
<1>. SUFFICES ASSUME NEW k \in Proc
              PROVE  /\ exited'[k] <=> executed'[k] \/ (Fetches(k)' /\ At(k)'.op = "EXIT")
                     /\ ~Fetches(k)' => executed'[k]
  BY DEF ExitInv
<1>1. Tick /\ ServeExits
  BY DEF Cycle
<1>2. exited[k] <=> executed'[k]
  BY ExecutedFacts DEF ExitInv
<1>. QED  BY <1>1, <1>2, ExecutedFacts, PcMoves, ServedFacts DEF ExitInv

\* Who has exited is at every point who has executed an EXIT or is about to.
LEMMA ExitInvCorrect ==
  ASSUME RunsToExit
  PROVE  TbSpec => []ExitInv
<1>1. HardwareInv /\ ExitInv /\ [TbNext]_allVars => ExitInv'
  <2>. SUFFICES ASSUME HardwareInv, ExitInv, [TbNext]_allVars PROVE ExitInv'
    OBVIOUS
  <2>1. CASE Cycle
    BY <2>1, ExitNext
  <2>2. CASE UNCHANGED allVars
    BY <2>2 DEF allVars, vars, coreVars, tbVars, ExitInv, Fetches, At
  <2>. QED  BY <2>1, <2>2 DEF TbNext, Ended
<1>. QED  BY <1>1, ExitInit, HardwareInvCorrect, PTL DEF TbSpec

\* A system call is there for one clock cycle, and the testbench serves it: no core
\* has executed an EXIT that the testbench has not seen, whatever the core does next.
THEOREM ExitCorrect ==
  ASSUME RunsToExit
  PROVE  TbSpec => []NoExitIsMissed
<1>1. ExitInv => NoExitIsMissed
  BY DEF ExitInv, NoExitIsMissed
<1>. QED  BY <1>1, ExitInvCorrect, PTL

--------------------------------------------------------------------------------
(***************************************************************************)
(* The refinement.  A cycle moves, in the network of rendezvous, the cores *)
(* that complete an instruction of their own, and both ends of every       *)
(* rendezvous whose reader acknowledges.                                   *)
(***************************************************************************)
\* The operators of the two modules are the same.
LEMMA SameNetwork ==
  /\ N!Proc = Proc /\ N!LocalOp = LocalOp
  /\ \A e : N!Wired(e) <=> Wired(e)
  /\ \A e : N!Peer(e) = Peer(e)
  /\ \A op : N!Complement(op) = Complement(op)
  /\ \A i, k, v : N!NextPc(i, k, v) = NextPc(i, k, v)
  /\ \A i, v : N!NextAreg(i, v) = NextAreg(i, v)
<1>1. \A e : N!EdgesAt(e) = EdgesAt(e) /\ N!ChanOf(e) = ChanOf(e)
  BY DEF N!EdgesAt, EdgesAt, N!ChanOf, ChanOf
<1>2. \A e : (N!Wired(e) <=> Wired(e)) /\ N!Peer(e) = Peer(e)
  BY <1>1 DEF N!Wired, Wired, N!Peer, Peer
<1>. QED
  BY <1>2 DEF N!Proc, Proc, N!LocalOp, LocalOp, N!Complement, Complement,
              N!NextPc, NextPc, N!NextAreg, NextAreg

TbHypotheses == OnlyWired /\ RunsToExit

AgreeInv == HardwareInv /\ ExitInv

--------------------------------------------------------------------------------
\* Core w has been read, and the ACK of it is on its way.
Acked(w) == AcksFor(w) # {}

Readers == {k \in Proc : Acknowledges(k)}

ReadFrom(k) == rx[k][ChanSlot(k)].src

Writers == {ReadFrom(k) : k \in Readers}

Locals == {k \in Proc : Fetches(k) /\ At(k).op \in LocalOp \cup {"EXIT"}}

\* A writer is acknowledged by an ACK in either buffer of the ACK network,
LEMMA AckedFacts ==
  ASSUME NEW w \in Proc
  PROVE  Acked(w) <=> aobuf[w] # NoFlit \/ \E k \in Proc : InAibuf(w, k)
<1>1. ASSUME Acked(w), aobuf[w] = NoFlit PROVE \E k \in Proc : InAibuf(w, k)
  <2>1. \E t : t \in {"aibuf"} \X {k \in Proc : aibuf[k] # NoFlit /\ aibuf[k][1] = w}
    BY <1>1 DEF Acked, AcksFor
  <2>. QED  BY <2>1 DEF InAibuf
<1>2. ASSUME NEW k \in Proc, InAibuf(w, k) PROVE Acked(w)
  <2>1. <<"aibuf", k>> \in {"aibuf"} \X {i \in Proc : aibuf[i] # NoFlit /\ aibuf[i][1] = w}
    BY <1>2 DEF InAibuf
  <2>. QED  BY <2>1 DEF Acked, AcksFor
<1>3. aobuf[w] # NoFlit => Acked(w)
  BY DEF Acked, AcksFor
<1>. QED  BY <1>1, <1>2, <1>3

\* also in the next state.
LEMMA AckedFactsNext ==
  ASSUME NEW w \in Proc
  PROVE  Acked(w)' <=> aobuf'[w] # NoFlit \/ \E k \in Proc : InAibuf(w, k)'
<1>1. ASSUME Acked(w)', aobuf'[w] = NoFlit PROVE \E k \in Proc : InAibuf(w, k)'
  <2>1. \E t : t \in {"aibuf"} \X {k \in Proc : aibuf'[k] # NoFlit /\ aibuf'[k][1] = w}
    BY <1>1 DEF Acked, AcksFor
  <2>. QED  BY <2>1 DEF InAibuf
<1>2. ASSUME NEW k \in Proc, InAibuf(w, k)' PROVE Acked(w)'
  <2>1. <<"aibuf", k>> \in {"aibuf"} \X {i \in Proc : aibuf'[i] # NoFlit /\ aibuf'[i][1] = w}
    BY <1>2 DEF InAibuf
  <2>. QED  BY <2>1 DEF Acked, AcksFor
<1>3. aobuf'[w] # NoFlit => Acked(w)'
  BY DEF Acked, AcksFor
<1>. QED  BY <1>1, <1>2, <1>3

\* The two ends of a rendezvous.
LEMMA PairFacts ==
  ASSUME OnlyWired, HardwareInv, NEW k \in Readers
  PROVE  LET w == ReadFrom(k) IN
         /\ w \in Proc /\ k \in Proc
         /\ Op(k) = "IN" /\ Op(w) = "OUT"
         /\ st[w] = "OUT_WAIT" /\ aobuf[w] = NoFlit
         /\ ~Acked(w) /\ ~Acked(k)
         /\ InRx(w, k, ChanSlot(k))
         /\ Wired(<<k, At(k).arg>>) /\ Peer(<<k, At(k).arg>>) = <<w, At(w).arg>>
         /\ Wired(<<w, At(w).arg>>) /\ Peer(<<w, At(w).arg>>) = <<k, At(k).arg>>
         /\ rx[k][ChanSlot(k)].word = areg[w]
<1>. DEFINE w == ReadFrom(k)
            s == ChanSlot(k)
            t == <<"rx", <<k, s>>>>
<1>. USE DEF HardwareInv, PlacedInv, TokenInv, CoreInv
<1>1. k \in Proc /\ st[k] = "IN_ACK" /\ Op(k) = "IN" /\ rx[k][s] # NoFlit /\ s \in Slot
  BY InstructionFacts DEF Readers, Acknowledges, MidOperation
<1>2. w \in Proc
  BY <1>1, Names DEF TypeOK, L!LinkTypeOK, L!Received, ReadFrom
<1>3. InRx(w, k, s)
  BY <1>1 DEF InRx, ReadFrom
<1>. HIDE DEF w, s
<1>4. t \in Tokens(w)
  BY <1>1, <1>3 DEF Tokens, DataOf, InRx, Endpoint
<1>5. Op(w) = "OUT" /\ st[w] = "OUT_WAIT" /\ Tokens(w) = {t}
  BY <1>2, <1>4, WriterFacts
<1>6. aobuf[w] = NoFlit /\ \A i \in Proc : ~InAibuf(w, i)
  <2>1. t # <<"aobuf", w>> /\ \A i \in Proc : t # <<"aibuf", i>>
    OBVIOUS
  <2>. HIDE DEF t
  <2>. QED  BY <1>2, <1>5, <2>1, OnlyToken
<1>7. ~Acked(w)
  BY <1>2, <1>6, AckedFacts
<1>8. ~Acked(k)
  BY <1>1 DEF OneToken, Acked
<1>9. Dest(w) = <<k, s>> /\ rx[k][s].word = areg[w]
  BY <1>1, <1>2, <1>3 DEF Placed, InRxPlaced
<1>10. /\ Wired(<<k, At(k).arg>>) /\ s = At(k).arg
       /\ Wired(<<w, At(w).arg>>) /\ Peer(<<w, At(w).arg>>) = <<k, s>>
  BY <1>1, <1>2, <1>5, <1>9, EndFacts DEF s
<1>11. Peer(<<k, At(k).arg>>) = <<w, At(w).arg>>
  BY <1>10, PeerFacts
<1>. QED  BY <1>1, <1>2, <1>3, <1>5, <1>6, <1>7, <1>8, <1>9, <1>10, <1>11 DEF w, s

\* The ACK of a word is in the network from the cycle that reads it to the one in
\* which the writer completes.
LEMMA AckedMoves ==
  ASSUME OnlyWired, HardwareInv, Tick, NEW w \in Proc
  PROVE  Acked(w)' <=> w \in Writers \/ (Acked(w) /\ aobuf[w] = NoFlit)
<1>. USE DEF HardwareInv, PlacedInv, TokenInv
<1>1. ASSUME NEW k \in Readers, w = ReadFrom(k) PROVE Acked(w)'
  <2>1. k \in Proc /\ InRx(w, k, ChanSlot(k)) /\ Acknowledges(k)
    BY <1>1, PairFacts DEF Readers
  <2>2. InAibuf(w, k)'
    BY <2>1, AibufMoves
  <2>. QED  BY <2>1, <2>2, AckedFactsNext
<1>2. ASSUME Acked(w), aobuf[w] = NoFlit PROVE Acked(w)'
  <2>1. PICK k \in Proc : InAibuf(w, k)
    BY <1>2, AckedFacts
  <2>2. InAibuf(w, k)' \/ aobuf'[w] # NoFlit
    BY <2>1, AibufMoves, AobufMoves
  <2>. QED  BY <2>2, AckedFactsNext
<1>3. ASSUME NEW k \in Proc, InRx(w, k, ChanSlot(k)), Acknowledges(k) PROVE w \in Writers
  BY <1>3 DEF Writers, Readers, ReadFrom, InRx
<1>4. ASSUME NEW k \in Proc, InAibuf(w, k) PROVE Acked(w) /\ aobuf[w] = NoFlit
  <2>1. <<"aibuf", k>> \in Tokens(w)
    BY <1>4 DEF Tokens, AcksFor, InAibuf
  <2>2. Tokens(w) = {<<"aibuf", k>>}
    BY <2>1, WriterFacts
  <2>3. <<"aibuf", k>> # <<"aobuf", w>>
    OBVIOUS
  <2>4. aobuf[w] = NoFlit
    BY <2>2, <2>3, OnlyToken
  <2>. QED  BY <1>4, <2>4, AckedFacts
<1>5. ASSUME Acked(w)' PROVE w \in Writers \/ (Acked(w) /\ aobuf[w] = NoFlit)
  <2>1. CASE aobuf'[w] # NoFlit
    BY <1>4, <2>1, AobufMoves
  <2>2. CASE \E k \in Proc : InAibuf(w, k)'
    BY <1>3, <1>4, <2>2, AibufMoves
  <2>. QED  BY <1>5, <2>1, <2>2, AckedFactsNext
<1>. QED  BY <1>1, <1>2, <1>5 DEF Writers

\* Which cores complete an instruction at a clock edge.
LEMMA WhoAdvances ==
  ASSUME OnlyWired, RunsToExit, HardwareInv, NEW k \in Proc
  PROVE  Advances(k) <=> k \in Locals \/ k \in Readers \/ (Acked(k) /\ aobuf[k] # NoFlit)
<1>. USE DEF HardwareInv, PlacedInv, TokenInv, CoreInv
<1>1. Fetches(k) => At(k).op \in LocalOp \cup {"IN", "OUT", "EXIT"}
  <2>1. ASSUME Fetches(k) PROVE At(k) \in Instr /\ At(k).op # "ILL"
    BY <2>1, InstructionFacts DEF RunsToExit, Fetches, At
  <2>. QED  BY <2>1 DEF Instr
<1>2. ASSUME aobuf[k] # NoFlit PROVE st[k] = "OUT_WAIT" /\ Op(k) = "OUT" /\ Acked(k)
  <2>1. Acked(k)
    BY <1>2, AckedFacts
  <2>. QED  BY <2>1 DEF OneToken, Acked
<1>3. k \in Readers => st[k] = "IN_ACK" /\ Op(k) = "IN"
  BY DEF Readers, Acknowledges, MidOperation
<1>4. k \in Locals => Op(k) = "none"
  BY DEF Locals, Op, LocalOp
<1>5. Op(k) # "none" => Fetches(k)
  BY DEF Op
<1>6. Done(k) <=> (st[k] = "OUT_WAIT" /\ aobuf[k] # NoFlit) \/ k \in Readers
  BY DEF Done, L!Done, Readers, Acknowledges, A!InReady
<1>7. Fetches(k) /\ Op(k) = "none" <=> k \in Locals
  BY <1>1 DEF Locals, Op, LocalOp
<1>. QED  BY <1>2, <1>3, <1>4, <1>5, <1>6, <1>7 DEF Advances, Stall

--------------------------------------------------------------------------------
\* The set of processors that a clock edge moves.
Moves == Locals \cup Readers \cup Writers

\* Where the network of rendezvous has a core that moves: where the hardware has it.
LEMMA HereFacts ==
  ASSUME TbHypotheses, AgreeInv, NEW k \in Moves
  PROVE  /\ k \in Proc /\ Fetches(k) /\ ~N!Gone(k)
         /\ RendezvousPc[k] = pc[k] /\ N!At(k) = At(k)
         /\ k \in Locals => At(k).op \in LocalOp \cup {"EXIT"}
         /\ k \in Readers => At(k).op = "IN"
         /\ k \in Writers => At(k).op = "OUT"
<1>. USE DEF AgreeInv, TbHypotheses
<1>1. ASSUME k \in Locals
      PROVE  k \in Proc /\ ~Acked(k) /\ Fetches(k) /\ At(k).op \in LocalOp \cup {"EXIT"}
  <2>1. k \in Proc /\ Fetches(k) /\ At(k).op \in LocalOp \cup {"EXIT"} /\ Op(k) = "none"
    BY <1>1 DEF Locals, Op, LocalOp
  <2>2. st[k] # "OUT_WAIT"
    BY <2>1 DEF HardwareInv, PlacedInv, TokenInv, CoreInv, MidOperation
  <2>. QED  BY <2>1, <2>2 DEF HardwareInv, PlacedInv, TokenInv, OneToken, Acked
<1>2. ASSUME k \in Readers PROVE k \in Proc /\ ~Acked(k) /\ Op(k) = "IN"
  BY <1>2, PairFacts
<1>3. ASSUME k \in Writers PROVE k \in Proc /\ ~Acked(k) /\ Op(k) = "OUT"
  <2>1. PICK r \in Readers : k = ReadFrom(r)
    BY <1>3 DEF Writers
  <2>. QED  BY <2>1, PairFacts
<1>4. /\ k \in Proc /\ ~Acked(k) /\ Fetches(k)
      /\ k \in Locals => At(k).op \in LocalOp \cup {"EXIT"}
      /\ k \in Readers => At(k).op = "IN"
      /\ k \in Writers => At(k).op = "OUT"
  BY <1>1, <1>2, <1>3 DEF Moves, Op
<1>5. RendezvousPc[k] = pc[k] /\ ~N!Gone(k)
  BY <1>4 DEF RendezvousPc, Acked, N!Gone, Fetches
<1>. QED  BY <1>4, <1>5 DEF N!At, At

\* The two ends of a rendezvous are matched, and both move.
LEMMA MatchedFacts ==
  ASSUME TbHypotheses, AgreeInv, NEW k \in Readers
  PROVE  LET w == ReadFrom(k) IN
         /\ k \in Moves /\ w \in Moves
         /\ N!Matched(k) /\ N!Partner(k) = w
         /\ N!Matched(w) /\ N!Partner(w) = k
<1>. DEFINE w == ReadFrom(k)
<1>1. k \in Moves /\ w \in Moves /\ w \in Writers
  BY DEF Moves, Writers
<1>2. /\ Wired(<<k, At(k).arg>>) /\ Peer(<<k, At(k).arg>>) = <<w, At(w).arg>>
      /\ Wired(<<w, At(w).arg>>) /\ Peer(<<w, At(w).arg>>) = <<k, At(k).arg>>
  BY PairFacts DEF AgreeInv, TbHypotheses
<1>. HIDE DEF w
<1>3. /\ ~N!Gone(k) /\ N!At(k) = At(k) /\ At(k).op = "IN"
      /\ ~N!Gone(w) /\ N!At(w) = At(w) /\ At(w).op = "OUT"
  BY <1>1, HereFacts
<1>4. N!InChan(k) /\ N!InChan(w)
  BY <1>3 DEF N!InChan
<1>5. N!End(k) = <<k, At(k).arg>> /\ N!End(w) = <<w, At(w).arg>>
  BY <1>3 DEF N!End
<1>6. N!Peer(N!End(k)) = N!End(w) /\ N!Peer(N!End(w)) = N!End(k)
  BY <1>2, <1>5, SameNetwork
<1>7. N!Partner(k) = w /\ N!Partner(w) = k
  BY <1>5, <1>6 DEF N!Partner
<1>8. N!Complement("IN") = "OUT" /\ N!Complement("OUT") = "IN"
  BY DEF N!Complement
<1>9. N!Matched(k)
  BY <1>2, <1>3, <1>4, <1>5, <1>6, <1>7, <1>8, SameNetwork DEF N!Matched
<1>10. N!Matched(w)
  BY <1>2, <1>3, <1>4, <1>5, <1>6, <1>7, <1>8, SameNetwork DEF N!Matched
<1>. QED  BY <1>1, <1>7, <1>9, <1>10 DEF w

\* Whoever moves is ready to, with its partner if it is at a channel.
LEMMA MovesAreReady ==
  ASSUME TbHypotheses, AgreeInv, NEW k \in Moves
  PROVE  N!Ready(k) /\ (N!Matched(k) => N!Partner(k) \in Moves)
<1>1. ~N!Gone(k) /\ N!At(k) = At(k)
  BY HereFacts
<1>2. CASE k \in Locals
  <2>1. At(k).op \in LocalOp \cup {"EXIT"}
    BY <1>2, HereFacts
  <2>2. ~N!Matched(k)
    BY <1>1, <2>1 DEF N!Matched, N!InChan, LocalOp
  <2>. QED  BY <1>1, <2>1, <2>2, SameNetwork DEF N!Ready
<1>3. CASE k \in Readers
  BY <1>1, <1>3, MatchedFacts DEF N!Ready
<1>4. CASE k \in Writers
  <2>1. PICK r \in Readers : k = ReadFrom(r)
    BY <1>4 DEF Writers
  <2>. QED  BY <1>1, <2>1, MatchedFacts DEF N!Ready
<1>. QED  BY <1>2, <1>3, <1>4 DEF Moves

\* The program counters of the network of rendezvous after a clock edge.
LEMMA PcAgrees ==
  ASSUME TbHypotheses, AgreeInv, Tick, NEW k \in Proc
  PROVE  RendezvousPc'[k] = IF k \in Moves
                            THEN NextPc(N!At(k), RendezvousPc[k], areg[k])
                            ELSE RendezvousPc[k]
<1>. USE DEF AgreeInv, TbHypotheses
<1>1. pc'[k] = IF Advances(k) THEN NextPc(At(k), pc[k], areg[k]) ELSE pc[k]
  BY DEF Tick, ProcessorsClock
<1>2. /\ RendezvousPc[k] = IF Acked(k) THEN pc[k] + 1 ELSE pc[k]
      /\ RendezvousPc'[k] = IF Acked(k)' THEN pc'[k] + 1 ELSE pc'[k]
  BY DEF RendezvousPc, Acked
<1>3. Acked(k)' <=> k \in Writers \/ (Acked(k) /\ aobuf[k] = NoFlit)
  BY AckedMoves
<1>4. Advances(k) <=> k \in Locals \/ k \in Readers \/ (Acked(k) /\ aobuf[k] # NoFlit)
  BY WhoAdvances
<1>5. k \in Moves => /\ ~Acked(k) /\ N!At(k) = At(k) /\ RendezvousPc[k] = pc[k]
                     /\ k \in Locals => At(k).op \in LocalOp \cup {"EXIT"}
                     /\ k \in Readers => At(k).op = "IN"
                     /\ k \in Writers => At(k).op = "OUT"
  <2>1. k \in Moves => RendezvousPc[k] = pc[k]
    BY HereFacts
  <2>2. pc[k] \in Nat
    BY DEF HardwareInv, PlacedInv, TokenInv, CoreInv, TypeOK
  <2>. QED  BY <1>2, <2>1, <2>2, HereFacts
<1>6. CASE k \in Writers
  <2>1. k \in Moves /\ At(k).op = "OUT" /\ ~Acked(k)
    BY <1>5, <1>6 DEF Moves
  <2>2. ~Advances(k)
    BY <1>4, <1>5, <2>1 DEF LocalOp, Moves
  <2>. QED  BY <1>1, <1>2, <1>3, <1>5, <1>6, <2>1, <2>2 DEF NextPc
<1>7. CASE k \in Moves /\ k \notin Writers
  <2>1. Advances(k) /\ ~Acked(k)'
    BY <1>3, <1>4, <1>5, <1>7 DEF Moves
  <2>. QED  BY <1>1, <1>2, <1>5, <1>7, <2>1
<1>8. CASE k \notin Moves
  <2>1. CASE Acked(k) /\ aobuf[k] # NoFlit
    <3>1. Advances(k) /\ ~Acked(k)'
      BY <1>3, <1>4, <1>8, <2>1 DEF Moves
    <3>2. At(k).op = "OUT"
      BY <2>1 DEF HardwareInv, PlacedInv, TokenInv, OneToken, Acked, Op
    <3>. QED  BY <1>1, <1>2, <1>8, <2>1, <3>1, <3>2 DEF NextPc
  <2>2. CASE ~(Acked(k) /\ aobuf[k] # NoFlit)
    <3>1. ~Advances(k) /\ (Acked(k)' <=> Acked(k))
      BY <1>3, <1>4, <1>8, <2>2 DEF Moves
    <3>. QED  BY <1>1, <1>2, <1>8, <3>1
  <2>. QED  BY <2>1, <2>2
<1>. QED  BY <1>6, <1>7, <1>8 DEF Moves

\* A reader has the value the writer sent, which the writer still has.
LEMMA AregAgrees ==
  ASSUME TbHypotheses, AgreeInv, Tick, NEW k \in Proc
  PROVE  areg'[k] = IF k \notin Moves THEN areg[k]
                    ELSE IF N!At(k).op = "IN" THEN areg[N!Partner(k)]
                    ELSE NextAreg(N!At(k), areg[k])
<1>. USE DEF AgreeInv, TbHypotheses
<1>1. areg'[k] = IF ~Advances(k) THEN areg[k]
                 ELSE IF At(k).op = "IN" THEN rx[k][ChanSlot(k)].word
                 ELSE NextAreg(At(k), areg[k])
  BY DEF Tick, ProcessorsClock
<1>2. Advances(k) <=> k \in Locals \/ k \in Readers \/ (Acked(k) /\ aobuf[k] # NoFlit)
  BY WhoAdvances
<1>3. CASE k \in Readers
  <2>1. At(k).op = "IN" /\ N!At(k) = At(k) /\ N!Partner(k) = ReadFrom(k) /\ k \in Moves
    BY <1>3, HereFacts, MatchedFacts
  <2>2. rx[k][ChanSlot(k)].word = areg[ReadFrom(k)]
    BY <1>3, PairFacts
  <2>. QED  BY <1>1, <1>2, <1>3, <2>1, <2>2
<1>4. CASE k \in Locals
  <2>1. At(k).op # "IN" /\ N!At(k) = At(k) /\ k \in Moves
    BY <1>4, HereFacts DEF Moves, LocalOp
  <2>. QED  BY <1>1, <1>2, <1>4, <2>1
<1>5. CASE k \in Writers
  <2>1. At(k).op = "OUT" /\ N!At(k) = At(k) /\ k \in Moves
    BY <1>5, HereFacts DEF Moves
  <2>. QED  BY <1>1, <2>1 DEF NextAreg
<1>6. CASE k \notin Moves
  <2>1. Advances(k) => Acked(k)
    BY <1>2, <1>6 DEF Moves
  <2>2. Acked(k) => At(k).op = "OUT"
    BY DEF HardwareInv, PlacedInv, TokenInv, OneToken, Acked, Op
  <2>. QED  BY <1>1, <1>6, <2>1, <2>2 DEF NextAreg
<1>. QED  BY <1>3, <1>4, <1>5, <1>6 DEF Moves

\* A core has halted in the network of rendezvous when it has executed its EXIT.
LEMMA HaltedAgrees ==
  ASSUME TbHypotheses, AgreeInv, Cycle, NEW k \in Proc
  PROVE  executed'[k] = (executed[k] \/ (k \in Moves /\ N!At(k).op = "EXIT"))
<1>1. ASSUME Fetches(k), At(k).op = "EXIT" PROVE k \in Locals
  BY <1>1 DEF Locals
<1>2. k \in Moves => Fetches(k) /\ N!At(k) = At(k)
  BY HereFacts
<1>3. Fetches(k) /\ At(k).op = "EXIT" <=> k \in Moves /\ N!At(k).op = "EXIT"
  BY <1>1, <1>2 DEF Moves
<1>. QED  BY <1>3, ExecutedFacts

\* Every edge moves a set of processors as a network of rendezvous does.
LEMMA AgreesNext ==
  ASSUME TbHypotheses, AgreeInv, Cycle
  PROVE  N!Next
<1>. Tick
  BY DEF Cycle
<1>1. Moves \in SUBSET N!Proc
  BY HereFacts, SameNetwork
<1>2. \A k \in Moves : N!Ready(k) /\ (N!Matched(k) => N!Partner(k) \in Moves)
  BY MovesAreReady
<1>3. RendezvousPc' = [k \in N!Proc |->
        IF k \in Moves THEN N!NextPc(N!At(k), RendezvousPc[k], areg[k]) ELSE RendezvousPc[k]]
  <2>1. RendezvousPc' = [k \in Proc |-> RendezvousPc'[k]]
    BY DEF RendezvousPc
  <2>. QED  BY <2>1, PcAgrees, SameNetwork
<1>4. areg' = [k \in N!Proc |->
        IF k \notin Moves THEN areg[k]
        ELSE IF N!At(k).op = "IN" THEN areg[N!Partner(k)]
        ELSE N!NextAreg(N!At(k), areg[k])]
  <2>1. areg' = [k \in Proc |-> areg'[k]]
    BY DEF Tick, ProcessorsClock
  <2>. QED  BY <2>1, AregAgrees, SameNetwork
<1>5. executed' = [k \in N!Proc |-> executed[k] \/ (k \in Moves /\ N!At(k).op = "EXIT")]
  <2>1. executed' = [k \in Proc |-> executed'[k]]
    BY DEF Cycle
  <2>. QED  BY <2>1, HaltedAgrees, SameNetwork
<1>6. prog' = prog
  BY DEF Tick
<1>7. N!Move(Moves)
  BY <1>2, <1>3, <1>4, <1>5, <1>6 DEF N!Move
<1>. QED  BY <1>1, <1>7 DEF N!Next

\* Both start at the beginning of the same programs.
LEMMA AgreesInit ==
  ASSUME TbHypotheses
  PROVE  TbInit => N!Init
<1>. SUFFICES ASSUME TbInit PROVE N!Init
  OBVIOUS
<1>1. prog \in Images /\ areg = [k \in Proc |-> 0]
  BY DEF TbInit, Init
<1>2. ASSUME NEW k \in Proc PROVE ~Acked(k) /\ pc[k] = 0
  BY AckedFacts, AckRouter DEF TbInit, Init, A!RouterInit, InAibuf
<1>3. RendezvousPc = [k \in Proc |-> 0]
  BY <1>2 DEF RendezvousPc, Acked
<1>4. executed = [k \in Proc |-> FALSE]
  BY DEF TbInit
<1>. QED  BY <1>1, <1>3, <1>4, SameNetwork DEF N!Init

\* The hardware under its testbench is a network of rendezvous, also with the cores
\* that run on after their EXIT into whatever their image has there: a word is read
\* once, by the core at the other end, in the order the two cores are in, whatever the
\* routers make of it.  The programs use only wired slots, and none begins with EXIT or
\* has an instruction that the simulator rejects.
THEOREM TestbenchImplementsRendezvous ==
  ASSUME OnlyWired, RunsToExit
  PROVE  TbSpec => Implements
<1>. USE DEF TbHypotheses
<1>1. AgreeInv /\ [TbNext]_allVars => [N!Next]_(N!vars)
  <2>. SUFFICES ASSUME AgreeInv, [TbNext]_allVars PROVE [N!Next]_(N!vars)
    OBVIOUS
  <2>1. CASE Cycle
    BY <2>1, AgreesNext
  <2>2. CASE UNCHANGED allVars
    BY <2>2 DEF allVars, vars, coreVars, netVars, tbVars, N!vars, RendezvousPc, AcksFor
  <2>. QED  BY <2>1, <2>2 DEF TbNext, Ended
<1>2. TbSpec => []ExitInv
  BY ExitInvCorrect
<1>3. TbInit => N!Init
  BY AgreesInit
<1>. QED  BY <1>1, <1>2, <1>3, HardwareInvCorrect, PTL DEF TbSpec, Implements, N!Spec, AgreeInv

--------------------------------------------------------------------------------
(***************************************************************************)
(* Deadlocks are real.  First, nothing in the network waits but for a turn *)
(* at an output of the DATA router.                                        *)
(***************************************************************************)
\* An ACK has its output to itself: whoever it is for waits for one ACK only.
LEMMA AcksDoNotWait ==
  ASSUME HardwareInv, NEW k \in Proc, aibuf[k] # NoFlit
  PROVE  AckTaken(k)
<1>. USE DEF HardwareInv, PlacedInv, TokenInv
<1>. DEFINE w == aibuf[k][1]
<1>1. AF!RouterTypeOK /\ AF!Port = Proc
  BY AckRouter DEF CoreInv, TypeOK
<1>2. w \in Proc
  BY <1>1 DEF AF!RouterTypeOK, AF!Packet
<1>. HIDE DEF w
<1>3. ASSUME NEW i \in Proc, aibuf[i] # NoFlit, aibuf[i][1] = w PROVE i = k
  <2>1. <<"aibuf", i>> \in Tokens(w) /\ <<"aibuf", k>> \in Tokens(w)
    BY <1>3 DEF Tokens, AcksFor, w
  <2>2. <<"aibuf", i>> = <<"aibuf", k>>
    BY <1>2, <2>1, WriterFacts
  <2>. QED  BY <2>2
<1>4. AF!Requests(w) = {k}
  BY <1>1, <1>3 DEF AF!Requests, w
<1>5. AF!Fills(w, AckDrained)
  BY <1>2, <1>4 DEF AF!Fills, AckDrained
<1>6. AF!Grant(w) = k
  BY <1>1, <1>2, <1>4, RouterAssumptions, AF!GrantFacts
<1>. QED  BY <1>1, <1>2, <1>5, <1>6 DEF AckTaken, AF!Granted

\* How many grants of the output for core k can come before that of writer w: the
\* inputs nearer to the priority pointer, without that of k, which is reading.
Wait(w, k) ==
  DF!Distance(w, k) - (IF DF!Distance(k, k) < DF!Distance(w, k) THEN 1 ELSE 0)

\* A word waits at most for all other writers of its port.
LEMMA WaitFacts ==
  ASSUME NEW w \in Proc, NEW k \in Proc, w # k
  PROVE  /\ DF!RouterTypeOK => Wait(w, k) \in 0 .. NumProcs - 2
         /\ DF!RouterTypeOK' => Wait(w, k)' \in 0 .. NumProcs - 2
<1>1. DF!Port = Proc /\ NumProcs \in Nat
  BY DataRouter, SizeAssumption DEF SizeAssumption
<1>2. ASSUME NEW i \in Proc, NEW r \in Proc
      PROVE  /\ (i - r + NumProcs) % NumProcs = IF i >= r THEN i - r ELSE i - r + NumProcs
             /\ (i - r + NumProcs) % NumProcs \in Proc
  BY <1>1, <1>2, RouterAssumptions, DF!RoundFacts
<1>3. ASSUME DF!RouterTypeOK PROVE Wait(w, k) \in 0 .. NumProcs - 2
  <2>1. drr[k] \in Proc
    BY <1>1, <1>3 DEF DF!RouterTypeOK
  <2>2. /\ DF!Distance(w, k) = IF w >= drr[k] THEN w - drr[k] ELSE w - drr[k] + NumProcs
        /\ DF!Distance(k, k) = IF k >= drr[k] THEN k - drr[k] ELSE k - drr[k] + NumProcs
    BY <1>2, <2>1 DEF DF!Distance
  <2>. QED  BY SMTT(30), <1>1, <2>1, <2>2 DEF Wait, Proc
<1>4. ASSUME DF!RouterTypeOK' PROVE Wait(w, k)' \in 0 .. NumProcs - 2
  <2>1. drr'[k] \in Proc
    BY <1>1, <1>4 DEF DF!RouterTypeOK
  <2>2. /\ DF!Distance(w, k)' = IF w >= drr'[k] THEN w - drr'[k] ELSE w - drr'[k] + NumProcs
        /\ DF!Distance(k, k)' = IF k >= drr'[k] THEN k - drr'[k] ELSE k - drr'[k] + NumProcs
    BY <1>2, <2>1 DEF DF!Distance
  <2>. QED  BY SMTT(30), <1>1, <2>1, <2>2 DEF Wait, Proc
<1>. QED  BY <1>3, <1>4

\* A grant to another input, not that of the reader, is one less to wait for.
LEMMA WaitMoves ==
  ASSUME CoreInv, CoreInv', Tick, NEW w \in Proc, NEW k \in Proc, w # k,
         dibuf[k] = NoFlit, dibuf[w] # NoFlit, dibuf[w][1] = k, ~DataTaken(w),
         dobuf[k] = NoFlit \/ L!DataReady(k, dobuf[k])
  PROVE  Wait(w, k)' < Wait(w, k)
<1>1. /\ DF!RouterTypeOK /\ DF!RouterTypeOK' /\ DF!Port = Proc
      /\ DF!RouterClock(DataIn, DataDrained)
  <2>1. DF!RouterTypeOK'
    BY DataRouter DEF CoreInv, TypeOK, D!RouterTypeOK, DF!RouterTypeOK
  <2>. QED  BY <2>1, DataRouter, DataRouterClock DEF CoreInv, TypeOK
<1>2. w \in DF!Requests(k)
  BY <1>1 DEF DF!Requests
<1>3. DF!Fills(k, DataDrained)
  BY <1>2 DEF DF!Fills, DataDrained
<1>4. DF!Grant(k) # w
  BY <1>1, <1>3 DEF DataTaken, DF!Granted
<1>5. DF!Grant(k) # k
  BY <1>1, <1>3, RouterAssumptions, DF!FillsFacts
<1>. DEFINE d == DF!Distance(DF!Grant(k), k)
            dw == DF!Distance(w, k)
            dk == DF!Distance(k, k)
<1>6. d =< dw
  BY <1>1, <1>2, RouterAssumptions, DF!GrantFacts
<1>7. /\ d \in Proc /\ dw \in Proc
      /\ dw # d
      /\ dw' = IF dw > d THEN dw - d - 1 ELSE dw - d - 1 + NumProcs
  BY <1>1, <1>3, <1>4, RouterAssumptions, DF!DistanceMoves
<1>8. /\ dk \in Proc
      /\ dk # d
      /\ dk' = IF dk > d THEN dk - d - 1 ELSE dk - d - 1 + NumProcs
  BY <1>1, <1>3, <1>5, RouterAssumptions, DF!DistanceMoves
<1>9. Wait(w, k) = dw - (IF dk < dw THEN 1 ELSE 0)
      /\ Wait(w, k)' = dw' - (IF dk' < dw' THEN 1 ELSE 0)
  BY DEF Wait
<1>10. NumProcs \in Nat /\ Proc = 0 .. NumProcs - 1
  BY SizeAssumption DEF SizeAssumption, Proc
<1>. HIDE DEF d, dw, dk
<1>. QED  BY <1>6, <1>7, <1>8, <1>9, <1>10

--------------------------------------------------------------------------------
(***************************************************************************)
(* Then how long the two ends of a channel that face each other take.      *)
(***************************************************************************)
\* Writer w and reader k are at the two ends of a channel, and w has not been read.
Facing(w, k) ==
  /\ Op(w) = "OUT" /\ Op(k) = "IN"
  /\ Peer(<<w, At(w).arg>>) = <<k, At(k).arg>>
  /\ ~Acked(w)

\* The cycles, at most, before the reader completes and the testbench sees it move,
\* counted so that two cores that have just come to face each other have them all.
Left(w, k) ==
  IF st[w] = "IDLE" THEN NumProcs + 4
  ELSE IF st[w] = "OUT_SEND" THEN NumProcs + 3
  ELSE IF dibuf[w] # NoFlit THEN Wait(w, k) + 4
  ELSE IF InDobuf(w, k) THEN 3
  ELSE IF st[k] = "IDLE" THEN 2
  ELSE 1

\* A rendezvous that both ends have come to is within a bounded number of edges.
LEMMA LeftFacts ==
  ASSUME NEW w \in Proc, NEW k \in Proc, w # k
  PROVE  /\ DF!RouterTypeOK => Left(w, k) \in 1 .. NumProcs + 4
         /\ DF!RouterTypeOK' => Left(w, k)' \in 1 .. NumProcs + 4
<1>1. NumProcs \in Nat /\ NumProcs >= 2
  BY SizeAssumption DEF SizeAssumption, Proc
<1>2. ASSUME DF!RouterTypeOK PROVE Left(w, k) \in 1 .. NumProcs + 4
  BY <1>1, <1>2, WaitFacts DEF Left
<1>3. ASSUME DF!RouterTypeOK' PROVE Left(w, k)' \in 1 .. NumProcs + 4
  <2>1. Wait(w, k)' \in 0 .. NumProcs - 2
    BY <1>3, WaitFacts
  <2>. QED  BY <1>1, <2>1 DEF Left
<1>. QED  BY <1>2, <1>3

\* Where the word of a writer that faces a reader is.
LEMMA FacingFacts ==
  ASSUME OnlyWired, HardwareInv, NEW w \in Proc, NEW k \in Proc, Facing(w, k)
  PROVE  /\ w # k /\ Dest(w) = <<k, ChanSlot(k)>>
         /\ st[w] \in {"IDLE", "OUT_SEND", "OUT_WAIT"} /\ st[k] \in {"IDLE", "IN_ACK"}
         /\ aobuf[w] = NoFlit
         /\ dibuf[k] = NoFlit
         /\ st[w] # "OUT_WAIT" => dibuf[w] = NoFlit /\ \A j \in Proc : ~InDobuf(w, j)
         /\ st[w] = "OUT_WAIT" => InDibuf(w, w) \/ InDobuf(w, k) \/ InRx(w, k, ChanSlot(k))
         /\ InDibuf(w, w) => dibuf[w][1] = k /\ ~InDobuf(w, k)
         /\ InDobuf(w, k) => dobuf[k].dst_slot = ChanSlot(k)
<1>. USE DEF HardwareInv, PlacedInv, TokenInv, CoreInv
<1>. DEFINE s == ChanSlot(k)
<1>1. Op(w) = "OUT" /\ Op(k) = "IN" /\ ~Acked(w) /\ s \in Slot
  BY InstructionFacts DEF Facing
<1>2. Dest(w) = <<k, s>>
  BY <1>1, EndFacts DEF Facing
<1>. HIDE DEF s
<1>3. st[w] \in {"IDLE", "OUT_SEND", "OUT_WAIT"} /\ st[k] \in {"IDLE", "IN_ACK"}
  BY <1>1, Names DEF MidOperation, TypeOK, L!LinkTypeOK
<1>4. aobuf[w] = NoFlit /\ \A i \in Proc : ~InAibuf(w, i)
  BY <1>1, AckedFacts
<1>5. ASSUME NEW i \in Proc, dibuf[i] # NoFlit
      PROVE  /\ InDibuf(i, i) /\ <<"dibuf", i>> \in Tokens(i)
             /\ st[i] = "OUT_WAIT" /\ Tokens(i) = {<<"dibuf", i>>}
  <2>1. InDibuf(i, i)
    BY <1>5 DEF Placed, InDibufPlaced, InDibuf
  <2>2. <<"dibuf", i>> \in Tokens(i)
    BY <1>5, <2>1 DEF Tokens, DataOf, InDibuf
  <2>. QED  BY <2>1, <2>2, WriterFacts
<1>6. dibuf[k] = NoFlit
  BY <1>3, <1>5
<1>7. ASSUME NEW j \in Proc, InDobuf(w, j)
      PROVE  st[w] = "OUT_WAIT" /\ Tokens(w) = {<<"dobuf", j>>} /\ <<j, dobuf[j].dst_slot>> = <<k, s>>
  <2>1. <<"dobuf", j>> \in Tokens(w)
    BY <1>7 DEF Tokens, DataOf, InDobuf
  <2>2. <<j, dobuf[j].dst_slot>> = <<k, s>>
    BY <1>2, <1>7 DEF Placed, InDobufPlaced
  <2>. QED  BY <2>1, <2>2, WriterFacts
<1>8. ASSUME NEW i \in Proc, NEW r \in Slot, InRx(w, i, r) PROVE i = k /\ r = s
  BY <1>2, <1>8 DEF Placed, InRxPlaced
<1>9. ASSUME NEW i \in Proc, InDibuf(w, i) PROVE i = w
  BY <1>9 DEF Placed, InDibufPlaced, InDibuf
<1>10. st[w] = "OUT_WAIT" => InDibuf(w, w) \/ InDobuf(w, k) \/ InRx(w, k, s)
  <2>1. ASSUME st[w] = "OUT_WAIT" PROVE \E t : t \in Tokens(w)
    BY <2>1 DEF OneToken, Tokens
  <2>. QED  BY <2>1, <1>4, <1>7, <1>8, <1>9, TokenFacts
<1>11. InDibuf(w, w) => dibuf[w][1] = k /\ ~InDobuf(w, k)
  <2>. SUFFICES ASSUME InDibuf(w, w) PROVE dibuf[w][1] = k /\ ~InDobuf(w, k)
    OBVIOUS
  <2>1. <<dibuf[w][1], dibuf[w][2].dst_slot>> = <<k, s>>
    BY <1>2 DEF Placed, InDibufPlaced, InDibuf
  <2>2. Tokens(w) = {<<"dibuf", w>>}
    BY <1>5 DEF InDibuf
  <2>3. <<"dibuf", w>> # <<"dobuf", k>>
    OBVIOUS
  <2>. QED  BY <1>7, <2>1, <2>2, <2>3
<1>12. w # k
  BY <1>1
<1>. QED  BY <1>2, <1>3, <1>4, <1>5, <1>6, <1>7, <1>10, <1>11, <1>12 DEF s

\* While the two stay, every cycle brings the word nearer.
LEMMA LeftMoves ==
  ASSUME OnlyWired, HardwareInv, CoreInv', Tick, NEW w \in Proc, NEW k \in Proc,
         Facing(w, k), ~Advances(k), st[k] = "IN_ACK" => aibuf[k] = NoFlit
  PROVE  Left(w, k)' < Left(w, k)
<1>. USE DEF HardwareInv, PlacedInv, TokenInv
<1>1. /\ w # k /\ Dest(w) = <<k, ChanSlot(k)>>
      /\ st[w] \in {"IDLE", "OUT_SEND", "OUT_WAIT"} /\ st[k] \in {"IDLE", "IN_ACK"}
      /\ aobuf[w] = NoFlit
      /\ dibuf[k] = NoFlit
      /\ st[w] # "OUT_WAIT" => dibuf[w] = NoFlit /\ \A j \in Proc : ~InDobuf(w, j)
      /\ st[w] = "OUT_WAIT" => InDibuf(w, w) \/ InDobuf(w, k) \/ InRx(w, k, ChanSlot(k))
      /\ InDibuf(w, w) => dibuf[w][1] = k /\ ~InDobuf(w, k)
      /\ InDobuf(w, k) => dobuf[k].dst_slot = ChanSlot(k)
  BY FacingFacts
<1>2. /\ Wait(w, k) \in 0 .. NumProcs - 2 /\ Wait(w, k)' \in 0 .. NumProcs - 2
      /\ NumProcs \in Nat
  <2>1. DF!RouterTypeOK /\ DF!RouterTypeOK'
    BY DataRouter DEF CoreInv, TypeOK, D!RouterTypeOK, DF!RouterTypeOK
  <2>. QED  BY <1>1, <2>1, WaitFacts, SizeAssumption DEF SizeAssumption
<1>3. dobuf[k] = NoFlit \/ L!DataReady(k, dobuf[k])
  BY FreeFacts DEF ReceiverIsFree
<1>4. Op(w) = "OUT" /\ Op(k) = "IN"
  BY DEF Facing
<1>5. /\ st'[w] = L!NextState(w, Op(w), ChanSlot(w), D!InReady(w), aobuf[w], A!InReady(w))
      /\ st'[k] = L!NextState(k, Op(k), ChanSlot(k), D!InReady(k), aobuf[k], A!InReady(k))
  BY DEF Tick, LinksClock
<1>6. CASE st[w] = "IDLE"
  <2>1. st'[w] = "OUT_SEND"
    BY <1>4, <1>5, <1>6 DEF L!NextState, L!Done
  <2>. QED  BY <1>2, <1>6, <2>1 DEF Left
<1>7. CASE st[w] = "OUT_SEND"
  <2>1. Injects(w)
    BY <1>1, <1>7 DEF Injects
  <2>2. st'[w] = "OUT_WAIT" /\ dibuf'[w] # NoFlit
    BY <2>1, WriterMoves, DibufMoves DEF InDibuf
  <2>. QED  BY <1>2, <1>7, <2>2 DEF Left
<1>8. CASE st[w] = "OUT_WAIT"
  <2>1. st'[w] = "OUT_WAIT"
    BY <1>1, <1>8, WriterMoves
  <2>2. CASE InDibuf(w, w)
    <3>1. dibuf[w] # NoFlit /\ dibuf[w][1] = k /\ Left(w, k) = Wait(w, k) + 4
      BY <1>1, <1>8, <2>2 DEF InDibuf, Left
    <3>2. CASE DataTaken(w)
      <4>1. dibuf'[w] = NoFlit /\ InDobuf(w, k)'
        BY <2>2, <3>1, <3>2, DataMoves, DobufMoves
      <4>2. Left(w, k)' = 3
        BY <2>1, <4>1 DEF Left
      <4>. QED  BY <1>2, <3>1, <4>2
    <3>3. CASE ~DataTaken(w)
      <4>1. dibuf'[w] # NoFlit
        BY <3>1, <3>3, DataMoves
      <4>2. Wait(w, k)' < Wait(w, k)
        BY <1>1, <1>3, <3>1, <3>3, WaitMoves
      <4>3. Left(w, k)' = Wait(w, k)' + 4
        BY <2>1, <4>1 DEF Left
      <4>. QED  BY <1>2, <3>1, <4>2, <4>3
    <3>. QED  BY <3>2, <3>3
  <2>3. ASSUME ~InDibuf(w, w)
        PROVE  /\ dibuf[w] = NoFlit /\ dibuf'[w] = NoFlit
               /\ \A i \in Proc : ~InDibuf(w, i)
    <3>1. \A i \in Proc : ~InDibuf(w, i)
      BY <2>3 DEF Placed, InDibufPlaced, InDibuf
    <3>2. dibuf[w] = NoFlit
      BY <2>3 DEF Placed, InDibufPlaced, InDibuf
    <3>3. dibuf'[w] = DataIn[w]
      BY <3>2, DataMoves
    <3>. QED  BY <1>8, <3>1, <3>2, <3>3 DEF DataIn, L!DataOut
  <2>4. CASE ~InDibuf(w, w) /\ InDobuf(w, k)
    <3>1. ~InDobuf(w, k)'
      BY <1>3, <2>3, <2>4, DobufMoves DEF InDobuf
    <3>2. Left(w, k) = 3 /\ Left(w, k)' \in {1, 2}
      BY <1>8, <2>1, <2>3, <2>4, <3>1 DEF Left
    <3>. QED  BY <3>2
  <2>5. CASE ~InDibuf(w, w) /\ ~InDobuf(w, k)
    <3>1. InRx(w, k, ChanSlot(k))
      BY <1>1, <1>8, <2>5
    <3>2. ~InDobuf(w, k)'
      BY <2>3, <2>5, DobufMoves
    <3>3. st[k] # "IN_ACK"
      BY <1>4, InstructionFacts DEF CoreInv, Advances, Stall, Done, L!Done, A!InReady
    <3>4. st'[k] = "IN_ACK"
      BY <1>1, <1>4, <1>5, <3>1, <3>3 DEF L!NextState, L!Done, InRx
    <3>5. Left(w, k) = 2 /\ Left(w, k)' = 1
      BY <1>1, <1>8, <2>1, <2>3, <2>5, <3>2, <3>3, <3>4 DEF Left
    <3>. QED  BY <3>5
  <2>. QED  BY <2>2, <2>4, <2>5
<1>. QED  BY <1>1, <1>6, <1>7, <1>8

--------------------------------------------------------------------------------
(***************************************************************************)
(* The testbench counts for how many cycles nothing has moved; a core that *)
(* can move will have before that is more than NumProcs + 3.               *)
(***************************************************************************)
\* The core at the other end of the channel that w is at.
Reader(w) == Peer(<<w, At(w).arg>>)[1]

\* The program counter the testbench compares with is the one before the edge, and
\* an IN is never held up by an earlier ACK of its core.
Watched ==
  /\ exited \in [Proc -> BOOLEAN]
  /\ \A k \in Proc : exited[k] \/ prevPc[k] \in {-1, pc[k]}
  /\ \A k \in Proc : st[k] = "IN_ACK" => aibuf[k] = NoFlit
  /\ noProgress \in Nat

\* The testbench watches the cores that have not exited.  Where one of them, or two that
\* face each other, can go on, it has not waited for long.
Timely ==
  /\ \A k \in Locals : ~exited[k] => noProgress = 0
  /\ \A w \in Proc : Acked(w) /\ ~exited[Reader(w)] =>
       /\ noProgress =< 1
       /\ aobuf[w] = NoFlit => noProgress = 0
  /\ \A w, k \in Proc : Facing(w, k) /\ ~exited[w] /\ ~exited[k] =>
       noProgress + Left(w, k) =< NumProcs + 4

Reported == result = "deadlock" => noProgress > Threshold /\ ~AllExited

TimelyHypotheses == TbHypotheses /\ NoSelfBranch

\* The testbench remembers the pc of every core that has not exited.
LEMMA WatchedNext ==
  ASSUME AgreeInv, CoreInv', Watched, Cycle
  PROVE  Watched'
<1>. USE DEF AgreeInv, HardwareInv, PlacedInv, TokenInv
<1>1. Tick /\ ServeExits
  BY DEF Cycle
<1>2. ASSUME NEW k \in Proc PROVE exited'[k] \/ prevPc'[k] \in {-1, pc'[k]}
  <2>1. exited[k] => exited'[k]
    BY <1>1, ServedFacts
  <2>2. prevPc'[k] = IF exited[k] THEN prevPc[k] ELSE pc'[k]
    BY DEF Cycle, NextPrevPc
  <2>. QED  BY <2>1, <2>2
<1>3. ASSUME NEW k \in Proc, st'[k] = "IN_ACK" PROVE aibuf'[k] = NoFlit
  <2>1. st'[k] = L!NextState(k, Op(k), ChanSlot(k), D!InReady(k), aobuf[k], A!InReady(k))
    BY <1>1 DEF Tick, LinksClock
  <2>2. st[k] # "IN_ACK"
    BY <1>3, <2>1 DEF L!NextState, L!Done, A!InReady, Watched
  <2>3. AckIn[k] = NoFlit
    BY <2>2 DEF AckIn, L!AckOut
  <2>. QED  BY <1>1, <2>3, AckMoves, AcksDoNotWait
<1>4. noProgress' \in Nat
  BY DEF Cycle, NextNoProgress, Watched
<1>5. exited' \in [Proc -> BOOLEAN]
  BY <1>1 DEF ServeExits
<1>. QED  BY <1>2, <1>3, <1>4, <1>5 DEF Watched

\* An instruction that completes leaves its address.
LEMMA AdvancingMoves ==
  ASSUME TimelyHypotheses, AgreeInv, Tick, NEW k \in Proc, Advances(k)
  PROVE  pc'[k] # pc[k]
<1>1. Fetches(k) /\ pc'[k] = NextPc(At(k), pc[k], areg[k])
  BY DEF Advances, Tick, ProcessorsClock
<1>2. pc[k] \in Nat
  BY DEF AgreeInv, HardwareInv, PlacedInv, TokenInv, CoreInv, TypeOK
<1>3. At(k).op \in {"BR", "BRZ"} => At(k).arg # pc[k]
  BY <1>1 DEF TimelyHypotheses, NoSelfBranch, AgreeInv, HardwareInv, Fetches, At
<1>. QED  BY <1>1, <1>2, <1>3 DEF NextPc

\* In a cycle in which the testbench sees nothing move, nobody that has not exited
\* completes anything.
LEMMA StandstillFacts ==
  ASSUME TimelyHypotheses, AgreeInv, CoreInv', Watched, Cycle, noProgress' # 0
  PROVE  /\ noProgress' = noProgress + 1
         /\ exited' = exited
         /\ \A k \in Proc : ~exited[k] =>
              /\ ~Advances(k) /\ Fetches(k) /\ At(k).op # "EXIT"
              /\ At(k)' = At(k) /\ Op(k)' = Op(k) /\ ChanSlot(k)' = ChanSlot(k)
              /\ Fetches(k)'
<1>. USE DEF AgreeInv, HardwareInv, PlacedInv, TokenInv
<1>1. ~Progressed /\ noProgress' = noProgress + 1 /\ Tick /\ ServeExits
  BY DEF Cycle, NextNoProgress
<1>2. exited' = exited
  <2>1. /\ exited' = [k \in Proc |-> exited[k] \/ k \in Exiting] /\ Exiting = {}
        /\ exited = [k \in Proc |-> exited[k]] /\ \A k \in Proc : exited[k] \in BOOLEAN
    BY <1>1 DEF ServeExits, Progressed, Watched
  <2>. QED  BY <2>1
<1>3. ASSUME NEW k \in Proc, ~exited[k]
      PROVE  ~Advances(k) /\ Fetches(k) /\ At(k).op # "EXIT"
  <2>1. Fetches(k) /\ At(k).op # "EXIT"
    BY <1>3 DEF ExitInv
  <2>2. pc'[k] = prevPc[k]
    BY <1>1, <1>3 DEF Progressed
  <2>3. pc'[k] \in Nat
    BY DEF CoreInv, TypeOK
  <2>4. pc'[k] = pc[k]
    BY <1>3, <2>2, <2>3 DEF Watched
  <2>. QED  BY <1>1, <2>1, <2>4, AdvancingMoves
<1>. QED  BY <1>1, <1>2, <1>3, StallFacts

\* A core with an instruction of its own moves: the testbench sees it.
LEMMA LocalsTimely ==
  ASSUME TimelyHypotheses, AgreeInv, CoreInv', Watched, Cycle,
         noProgress' # 0, NEW k \in Locals', ~exited'[k]
  PROVE  FALSE
<1>. USE DEF AgreeInv, HardwareInv, PlacedInv, TokenInv
<1>1. k \in Proc /\ At(k)'.op \in LocalOp \cup {"EXIT"}
  BY DEF Locals
<1>2. ~Advances(k) /\ Fetches(k) /\ At(k)' = At(k)
  BY <1>1, StandstillFacts
<1>3. k \in Locals
  BY <1>1, <1>2 DEF Locals
<1>4. OnlyWired /\ RunsToExit
  BY DEF TimelyHypotheses, TbHypotheses
<1>. QED  BY <1>1, <1>2, <1>3, <1>4, WhoAdvances

\* A writer whose ACK is still on its way stays at its OUT.
LEMMA AckedStays ==
  ASSUME TbHypotheses, AgreeInv, Tick, NEW w \in Proc, Acked(w)'
  PROVE  /\ At(w).op = "OUT" /\ pc'[w] = pc[w] /\ At(w)' = At(w)
         /\ w \in Writers \/ (Acked(w) /\ aobuf[w] = NoFlit)
<1>. USE DEF AgreeInv, HardwareInv, PlacedInv, TokenInv, TbHypotheses
<1>1. w \in Writers \/ (Acked(w) /\ aobuf[w] = NoFlit)
  BY AckedMoves
<1>2. At(w).op = "OUT" /\ Op(w) = "OUT" /\ ~(Acked(w) /\ aobuf[w] # NoFlit)
  <2>1. CASE w \in Writers
    BY <2>1, PairFacts DEF Writers, Op
  <2>2. CASE Acked(w) /\ aobuf[w] = NoFlit
    BY <2>2 DEF OneToken, Acked, Op
  <2>. QED  BY <1>1, <2>1, <2>2
<1>3. w \notin Locals /\ w \notin Readers
  <2>1. w \in Readers => Op(w) = "IN"
    BY PairFacts
  <2>. QED  BY <1>2, <2>1 DEF Locals, LocalOp
<1>4. ~Advances(w)
  BY <1>2, <1>3, WhoAdvances
<1>5. pc'[w] = pc[w] /\ prog' = prog
  BY <1>4 DEF Tick, ProcessorsClock
<1>. QED  BY <1>1, <1>2, <1>5 DEF At

\* An ACK is at its writer one edge after the word was read.
LEMMA AckedTimely ==
  ASSUME TimelyHypotheses, AgreeInv, CoreInv', Watched, Timely, Cycle,
         noProgress' # 0, NEW w \in Proc, Acked(w)', ~exited'[Reader(w)']
  PROVE  noProgress' =< 1 /\ aobuf'[w] # NoFlit
<1>. USE DEF AgreeInv, HardwareInv, PlacedInv, TokenInv
<1>1. Tick /\ OnlyWired /\ RunsToExit /\ TbHypotheses
  BY DEF Cycle, TimelyHypotheses, TbHypotheses
<1>2. Reader(w)' = Reader(w) /\ exited' = exited
  BY <1>1, AckedStays, StandstillFacts DEF Reader
<1>3. w \notin Writers
  <2>. SUFFICES ASSUME NEW r \in Readers, w = ReadFrom(r) PROVE FALSE
    BY DEF Writers
  <2>1. r \in Proc /\ Peer(<<w, At(w).arg>>) = <<r, At(r).arg>>
    BY <1>1, PairFacts
  <2>2. Advances(r) /\ ~exited[r]
    BY <1>1, <1>2, <2>1, WhoAdvances DEF Reader
  <2>. QED  BY <2>1, <2>2, StandstillFacts
<1>4. Acked(w) /\ aobuf[w] = NoFlit
  BY <1>1, <1>3, AckedStays
<1>5. PICK i \in Proc : InAibuf(w, i)
  BY <1>4, AckedFacts
<1>6. aobuf'[w] # NoFlit
  BY <1>1, <1>5, AcksDoNotWait, AobufMoves DEF InAibuf
<1>7. noProgress = 0
  BY <1>2, <1>4 DEF Timely
<1>. QED  BY <1>6, <1>7, StandstillFacts

\* Each edge without progress brings two cores that face each other closer to it.
LEMMA FacingTimely ==
  ASSUME TimelyHypotheses, AgreeInv, CoreInv', Watched, Timely, Cycle,
         NEW w \in Proc, NEW k \in Proc, Facing(w, k)', ~exited'[w], ~exited'[k]
  PROVE  noProgress' + Left(w, k)' =< NumProcs + 4
<1>. USE DEF AgreeInv, HardwareInv, PlacedInv, TokenInv
<1>1. Tick /\ OnlyWired /\ RunsToExit
  BY DEF Cycle, TimelyHypotheses, TbHypotheses
<1>2. Op(w)' = "OUT" /\ Op(k)' = "IN" /\ ~Acked(w)'
  BY DEF Facing
<1>3. w # k
  BY <1>2
<1>4. Left(w, k) \in 1 .. NumProcs + 4 /\ Left(w, k)' \in 1 .. NumProcs + 4 /\ NumProcs \in Nat
  <2>1. DF!RouterTypeOK /\ DF!RouterTypeOK'
    BY DataRouter DEF CoreInv, TypeOK, D!RouterTypeOK, DF!RouterTypeOK
  <2>. QED  BY <1>3, <2>1, LeftFacts, SizeAssumption DEF SizeAssumption
<1>5. CASE noProgress' = 0
  BY <1>4, <1>5
<1>6. CASE noProgress' # 0
  <2>1. /\ noProgress' = noProgress + 1 /\ noProgress \in Nat
        /\ ~exited[w] /\ ~Advances(w) /\ At(w)' = At(w) /\ Op(w)' = Op(w)
        /\ ~exited[k] /\ ~Advances(k) /\ At(k)' = At(k) /\ Op(k)' = Op(k)
    BY <1>6, StandstillFacts DEF Watched
  <2>2. ~Acked(w)
    <3>1. ASSUME Acked(w) PROVE aobuf[w] # NoFlit
      BY <1>1, <1>2, <3>1, AckedMoves
    <3>. QED  BY <1>1, <2>1, <3>1, WhoAdvances
  <2>3. Facing(w, k)
    BY <2>1, <2>2 DEF Facing
  <2>4. Left(w, k)' < Left(w, k)
    BY <1>1, <2>1, <2>3, LeftMoves DEF Watched
  <2>5. noProgress + Left(w, k) =< NumProcs + 4
    BY <2>1, <2>3 DEF Timely
  <2>. QED  BY <1>4, <2>1, <2>4, <2>5
<1>. QED  BY <1>5, <1>6

\* So no rendezvous is overdue after an edge,
LEMMA TimelyNext ==
  ASSUME TimelyHypotheses, AgreeInv, CoreInv', Watched, Timely, Cycle
  PROVE  Timely'
<1>1. \A k \in Locals' : ~exited'[k] => noProgress' = 0
  BY LocalsTimely
<1>2. ASSUME NEW w \in Proc, Acked(w)', ~exited'[Reader(w)']
      PROVE  noProgress' =< 1 /\ (aobuf'[w] = NoFlit => noProgress' = 0)
  BY <1>2, AckedTimely
<1>3. \A w, k \in Proc : Facing(w, k)' /\ ~exited'[w] /\ ~exited'[k] =>
                           noProgress' + Left(w, k)' =< NumProcs + 4
  BY FacingTimely
<1>. QED  BY <1>1, <1>2, <1>3 DEF Timely

TimelyInv == Watched /\ Timely /\ Reported

\* nor at the beginning,
LEMMA TimelyInit ==
  ASSUME TbInit, CoreInv
  PROVE  TimelyInv
<1>1. /\ noProgress = 0 /\ result = "none"
      /\ \A k \in Proc : prevPc[k] = -1 /\ st[k] = "IDLE"
      /\ exited = [k \in Proc |-> FALSE]
  BY Names DEF TbInit, Init, L!LinkInit
<1>2. DF!RouterTypeOK /\ NumProcs \in Nat
  BY DataRouter, SizeAssumption DEF CoreInv, TypeOK, SizeAssumption
<1>3. ASSUME NEW w \in Proc, NEW k \in Proc, Facing(w, k)
      PROVE  noProgress + Left(w, k) =< NumProcs + 4
  <2>1. w # k
    BY <1>3 DEF Facing
  <2>2. Left(w, k) \in 1 .. NumProcs + 4
    BY <1>2, <2>1, LeftFacts
  <2>. QED  BY <1>1, <1>2, <2>2
<1>. QED  BY <1>1, <1>3 DEF TimelyInv, Watched, Timely, Reported

\* nor ever.
LEMMA TimelyInvCorrect ==
  ASSUME TimelyHypotheses
  PROVE  TbSpec => []TimelyInv
<1>1. TbSpec => []AgreeInv
  <2>1. TbSpec => []ExitInv
    BY ExitInvCorrect DEF TimelyHypotheses, TbHypotheses
  <2>. QED  BY <2>1, HardwareInvCorrect, PTL DEF AgreeInv
<1>2. AgreeInv => CoreInv
  BY DEF AgreeInv, HardwareInv, PlacedInv, TokenInv
<1>3. AgreeInv /\ CoreInv' /\ TimelyInv /\ [TbNext]_allVars => TimelyInv'
  <2>. SUFFICES ASSUME AgreeInv, CoreInv', TimelyInv, [TbNext]_allVars PROVE TimelyInv'
    OBVIOUS
  <2>1. CASE Cycle
    <3>1. Reported'
      <4>1. result' = Verdict
        BY <2>1 DEF Cycle
      <4>. QED  BY <4>1 DEF Verdict, Reported
    <3>. QED  BY <2>1, <3>1, WatchedNext, TimelyNext DEF TimelyInv
  <2>2. CASE UNCHANGED allVars
    <3>1. /\ prog' = prog /\ pc' = pc /\ areg' = areg /\ st' = st /\ rx' = rx
          /\ dibuf' = dibuf /\ dobuf' = dobuf /\ drr' = drr
          /\ aibuf' = aibuf /\ aobuf' = aobuf /\ arr' = arr
          /\ exited' = exited /\ prevPc' = prevPc /\ noProgress' = noProgress
          /\ result' = result
      BY <2>2 DEF allVars, vars, coreVars, netVars, tbVars
    <3>2. Watched' /\ Reported'
      BY <3>1 DEF TimelyInv, Watched, Reported, AllExited
    <3>3. /\ Locals' = Locals
          /\ \A k : Acked(k)' = Acked(k)
          /\ \A w, k : Facing(w, k)' = Facing(w, k)
          /\ \A w, k : Left(w, k)' = Left(w, k)
          /\ \A w : Reader(w)' = Reader(w)
      BY <3>1 DEF Reader, Locals, Acked, AcksFor, Facing, Left, Wait, DF!Distance, InDobuf,
                  Op, Fetches, At
    <3>4. Timely'
      BY <3>1, <3>3 DEF TimelyInv, Timely
    <3>. QED  BY <3>2, <3>4 DEF TimelyInv
  <2>. QED  BY <2>1, <2>2 DEF TbNext, Ended
<1>4. TbInit /\ AgreeInv => TimelyInv
  BY <1>2, TimelyInit
<1>. QED  BY <1>1, <1>2, <1>3, <1>4, PTL DEF TbSpec

\* The network of the cores that have not exited is wired as the hardware is.
LEMMA WatchedNetwork ==
  /\ G!LocalOp = LocalOp
  /\ \A e : G!Wired(e) <=> Wired(e)
  /\ \A e : G!Peer(e) = Peer(e)
  /\ \A op : G!Complement(op) = Complement(op)
  /\ \A k : G!At(k) = At(k)
<1>1. \A e : G!EdgesAt(e) = EdgesAt(e) /\ G!ChanOf(e) = ChanOf(e)
  BY DEF G!EdgesAt, EdgesAt, G!ChanOf, ChanOf
<1>2. \A e : (G!Wired(e) <=> Wired(e)) /\ G!Peer(e) = Peer(e)
  BY <1>1 DEF G!Wired, Wired, G!Peer, Peer
<1>. QED  BY <1>2 DEF G!LocalOp, LocalOp, G!Complement, Complement, G!At, At

\* The two ends of a channel at which two cores are matched.
LEMMA WatchedPair ==
  ASSUME AgreeInv, NEW k \in Proc, G!Matched(k)
  PROVE  \E w, r \in Proc :
           /\ Op(w) = "OUT" /\ Op(r) = "IN" /\ ~exited[w] /\ ~exited[r]
           /\ Peer(<<w, At(w).arg>>) = <<r, At(r).arg>>
<1>. DEFINE p == G!Partner(k)
<1>1. /\ ~exited[k] /\ At(k).op \in {"IN", "OUT"} /\ Wired(G!End(k))
      /\ ~exited[p] /\ At(p).op = Complement(At(k).op)
      /\ G!End(p) = Peer(G!End(k))
  BY WatchedNetwork DEF G!Matched, G!InChan, G!Gone
<1>2. G!End(k) = <<k, At(k).arg>> /\ G!End(p) = <<p, At(p).arg>>
  BY WatchedNetwork DEF G!End
<1>. HIDE DEF p
<1>3. p \in Proc /\ Peer(<<p, At(p).arg>>) = <<k, At(k).arg>>
  BY <1>1, <1>2, PeerFacts DEF Endpoint
<1>4. Fetches(k) /\ Fetches(p)
  BY <1>1, <1>3 DEF AgreeInv, ExitInv
<1>5. CASE At(k).op = "OUT"
  <2>1. Op(k) = "OUT" /\ Op(p) = "IN" /\ Peer(<<k, At(k).arg>>) = <<p, At(p).arg>>
    BY <1>1, <1>2, <1>4, <1>5 DEF Op, Complement
  <2>. QED  BY <1>1, <1>3, <2>1
<1>6. CASE At(k).op = "IN"
  <2>1. Op(p) = "OUT" /\ Op(k) = "IN"
    BY <1>1, <1>4, <1>6 DEF Op, Complement
  <2>. QED  BY <1>1, <1>3, <2>1
<1>. QED  BY <1>1, <1>5, <1>6

\* A core that has not exited and can move, alone or with another such core, has not
\* kept the testbench waiting for longer than that.
LEMMA ReadyIsTimely ==
  ASSUME TimelyHypotheses, AgreeInv, TimelyInv, NEW k \in Proc, G!Ready(k)
  PROVE  noProgress =< NumProcs + 3
<1>. USE DEF AgreeInv, HardwareInv, PlacedInv, TokenInv, TimelyInv
<1>1. noProgress \in Nat /\ NumProcs \in Nat
  BY SizeAssumption DEF SizeAssumption, Watched
<1>2. CASE At(k).op \in LocalOp \cup {"EXIT"}
  <2>1. k \in Locals /\ ~exited[k]
    BY <1>2 DEF Locals, G!Ready, G!Gone, ExitInv
  <2>. QED  BY <1>1, <2>1 DEF Timely
<1>3. CASE G!Matched(k)
  <2>1. PICK w \in Proc, r \in Proc :
          /\ Op(w) = "OUT" /\ Op(r) = "IN" /\ ~exited[w] /\ ~exited[r]
          /\ Peer(<<w, At(w).arg>>) = <<r, At(r).arg>>
    BY <1>3, WatchedPair
  <2>2. CASE Acked(w)
    <3>1. Reader(w) = r
      BY <2>1 DEF Reader
    <3>. QED  BY <1>1, <2>1, <2>2, <3>1 DEF Timely
  <2>3. CASE ~Acked(w)
    <3>1. Facing(w, r) /\ w # r
      BY <2>1, <2>3 DEF Facing
    <3>2. Left(w, r) \in 1 .. NumProcs + 4
      BY <3>1, LeftFacts, DataRouter DEF CoreInv, TypeOK
    <3>. QED  BY <1>1, <2>1, <3>1, <3>2 DEF Timely
  <2>. QED  BY <2>2, <2>3
<1>. QED  BY <1>2, <1>3, WatchedNetwork DEF G!Ready

\* With a threshold of at least three cycles more than there are cores (the code's is
\* 256), a deadlock is reported only of a network in which somebody has not exited and
\* nobody who has not could go on with another of them, however the cores contend for
\* the routers, those included that have exited and run on.
THEOREM DeadlockCorrect ==
  ASSUME OnlyWired, RunsToExit, NoSelfBranch,
         NumProcs + 3 =< Threshold
  PROVE  TbSpec => []DeadlockIsReal
<1>. USE DEF TimelyHypotheses, TbHypotheses
<1>1. AgreeInv /\ TimelyInv => DeadlockIsReal
  <2>. SUFFICES ASSUME AgreeInv, TimelyInv, result = "deadlock"
                PROVE  (\E k \in Proc : ~exited[k]) /\ (\A k \in Proc : ~G!Ready(k))
    BY DEF DeadlockIsReal
  <2>1. noProgress > Threshold /\ \E k \in Proc : ~exited[k]
    BY DEF TimelyInv, Reported, AllExited
  <2>2. noProgress \in Nat /\ NumProcs \in Nat /\ Threshold \in Nat
    BY SizeAssumption, TbAssumption DEF SizeAssumption, TbAssumption, TimelyInv, Watched
  <2>3. \A k \in Proc : G!Ready(k) => noProgress =< NumProcs + 3
    BY ReadyIsTimely
  <2>. QED  BY <2>1, <2>2, <2>3
<1>2. TbSpec => []ExitInv
  BY ExitInvCorrect
<1>3. TbSpec => []TimelyInv
  BY TimelyInvCorrect
<1>. QED  BY <1>1, <1>2, <1>3, HardwareInvCorrect, PTL DEF AgreeInv
================================================================================
