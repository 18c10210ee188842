------------------------------ MODULE HexRtlProofs ------------------------------
(***************************************************************************)
(* Proofs about HexRtl, for any number of cores and links, any wiring and  *)
(* any programs.                                                           *)
(***************************************************************************)
EXTENDS HexRtl, TLAPS

DF == INSTANCE RouterFacts WITH
       NumPorts <- NumProcs, Flit <- L!DataFlit,
       ibuf <- dibuf, obuf <- dobuf, rr <- drr

AF == INSTANCE RouterFacts WITH
       NumPorts <- NumProcs, Flit <- {Ack},
       ibuf <- aibuf, obuf <- aobuf, rr <- arr

--------------------------------------------------------------------------------
(***************************************************************************)
(* The two routers are routers: what RouterFacts says, of D and of A.      *)
(***************************************************************************)
LEMMA RouterAssumptions ==
  /\ DF!PortAssumption /\ DF!FlitAssumption
  /\ AF!PortAssumption /\ AF!FlitAssumption
BY SizeAssumption, NoFlitAssumption
   DEF SizeAssumption, NoFlitAssumption, DF!PortAssumption, DF!FlitAssumption,
       AF!PortAssumption, AF!FlitAssumption, D!Packet, D!Port, DF!Packet, DF!Port,
       A!Packet, A!Port, AF!Packet, AF!Port

\* The DATA router as HexRtl has it is the one the router's theorems are about,
LEMMA DataRouter ==
  /\ D!Port = Proc /\ DF!Port = Proc
  /\ D!Packet = DF!Packet
  /\ D!RouterTypeOK <=> DF!RouterTypeOK
  /\ D!RouterInit <=> DF!RouterInit
  /\ \A j : D!Grant(j) = DF!Grant(j)
  /\ \A j, o : D!Fills(j, o) <=> DF!Fills(j, o)
<1>1. D!Port = Proc /\ DF!Port = Proc
  BY DEF D!Port, DF!Port, Proc
<1>2. \A j : D!Requests(j) = DF!Requests(j)
  BY <1>1 DEF D!Requests, DF!Requests
<1>3. \A i, j : D!Distance(i, j) = DF!Distance(i, j)
  BY DEF D!Distance, DF!Distance
<1>4. \A j : D!Grant(j) = DF!Grant(j)
  BY <1>2, <1>3 DEF D!Grant, DF!Grant
<1>. QED
  BY <1>1, <1>2, <1>4 DEF D!Packet, DF!Packet, D!RouterTypeOK, DF!RouterTypeOK, D!RouterInit,
     DF!RouterInit, D!Fills, DF!Fills

DataDrained == [k \in Proc |-> L!DataReady(k, dobuf[k])]

AckDrained == [k \in Proc |-> TRUE]

\* The packets offered to the routers.
DataIn == [k \in Proc |-> L!DataOut(k, ChanSlot(k), areg[k], Route)]

AckIn == [k \in Proc |-> L!AckOut(k, ChanSlot(k))]

\* and its clock edge is one of theirs.
LEMMA DataRouterClock == Tick => DF!RouterClock(DataIn, DataDrained)
<1>1. \A i : D!Granted(i, DataDrained) <=> DF!Granted(i, DataDrained)
  BY DataRouter DEF D!Granted, DF!Granted
<1>2. \A i : D!InReady(i) <=> DF!InReady(i)
  BY DEF D!InReady, DF!InReady
<1>3. \A j : D!NextPriority(j) = DF!NextPriority(j)
  BY DataRouter DEF D!NextPriority, DF!NextPriority
<1>. QED
  BY <1>1, <1>2, <1>3, DataRouter
  DEF Tick, RoutersClock, DataIn, DataDrained, D!RouterClock, DF!RouterClock

\* The same for the ACK router,
LEMMA AckRouter ==
  /\ A!Port = Proc /\ AF!Port = Proc
  /\ A!Packet = AF!Packet
  /\ A!RouterTypeOK <=> AF!RouterTypeOK
  /\ A!RouterInit <=> AF!RouterInit
  /\ \A j : A!Grant(j) = AF!Grant(j)
  /\ \A j, o : A!Fills(j, o) <=> AF!Fills(j, o)
<1>1. A!Port = Proc /\ AF!Port = Proc
  BY DEF A!Port, AF!Port, Proc
<1>2. \A j : A!Requests(j) = AF!Requests(j)
  BY <1>1 DEF A!Requests, AF!Requests
<1>3. \A i, j : A!Distance(i, j) = AF!Distance(i, j)
  BY DEF A!Distance, AF!Distance
<1>4. \A j : A!Grant(j) = AF!Grant(j)
  BY <1>2, <1>3 DEF A!Grant, AF!Grant
<1>. QED
  BY <1>1, <1>2, <1>4 DEF A!Packet, AF!Packet, A!RouterTypeOK, AF!RouterTypeOK, A!RouterInit,
     AF!RouterInit, A!Fills, AF!Fills

\* and its clock edge.
LEMMA AckRouterClock == Tick => AF!RouterClock(AckIn, AckDrained)
<1>1. \A i : A!Granted(i, AckDrained) <=> AF!Granted(i, AckDrained)
  BY AckRouter DEF A!Granted, AF!Granted
<1>2. \A i : A!InReady(i) <=> AF!InReady(i)
  BY DEF A!InReady, AF!InReady
<1>3. \A j : A!NextPriority(j) = AF!NextPriority(j)
  BY AckRouter DEF A!NextPriority, AF!NextPriority
<1>. QED
  BY <1>1, <1>2, <1>3, AckRouter
  DEF Tick, RoutersClock, AckIn, AckDrained, A!RouterClock, AF!RouterClock

--------------------------------------------------------------------------------
(***************************************************************************)
(* Type correctness.  The types are inductive only together with what the  *)
(* states of the link interfaces say of the instructions of their cores.   *)
(***************************************************************************)
\* A link interface is in the middle of the operation its core is at, and has
\* the word the core is to read while it acknowledges it.
MidOperation ==
  \A k \in Proc :
    /\ st[k] \in {"OUT_SEND", "OUT_WAIT"} => Op(k) = "OUT"
    /\ st[k] = "IN_ACK" => Op(k) = "IN" /\ rx[k][ChanSlot(k)] # NoFlit

CoreInv == TypeOK /\ MidOperation

\* The names the instances give to the same sets.
LEMMA Names ==
  /\ L!Core = Proc /\ L!Slot = Slot
  /\ Endpoint = Proc \X Slot
BY DEF L!Core, L!Slot, Proc, Slot, Endpoint

\* The other end of an edge is a slot of a processor, and so is every entry of
\* the route tables.
LEMMA RouteFacts ==
  ASSUME NEW e \in Endpoint
  PROVE  /\ Wired(e) => Peer(e) \in Endpoint
         /\ Route[e] \in Endpoint
         /\ Wired(e) => Route[e] = Peer(e)
<1>1. ASSUME Wired(e) PROVE Peer(e) \in Endpoint
  <2>1. PICK i \in DOMAIN Edges : e \in {Edges[i].a, Edges[i].b}
    BY <1>1 DEF Wired, EdgesAt
  <2>2. ChanOf(e) \in DOMAIN Edges
    BY <2>1 DEF ChanOf
  <2>3. Edges[ChanOf(e)] \in Edge
    BY <2>2, EdgesAssumption DEF EdgesAssumption
  <2>. QED  BY <2>3 DEF Peer, Edge
<1>. QED  BY <1>1, UnroutedAssumption DEF UnroutedAssumption, Route

\* The instruction a core is at, and its slot.
LEMMA InstructionFacts ==
  ASSUME TypeOK, NEW k \in Proc
  PROVE  /\ pc[k] \in Nat /\ areg[k] \in Nat
         /\ Fetches(k) => At(k) \in Instr
         /\ Op(k) \in {"IN", "OUT", "none"}
         /\ Op(k) # "none" => Fetches(k) /\ At(k).op = Op(k)
         /\ ChanSlot(k) \in Slot
<1>1. pc[k] \in Nat /\ areg[k] \in Nat /\ IsProgram(prog[k])
  BY DEF TypeOK
<1>2. Fetches(k) => At(k) \in Instr
  BY <1>1 DEF IsProgram, Fetches, At
<1>3. Op(k) \in {"IN", "OUT", "none"} /\ (Op(k) # "none" => Fetches(k) /\ At(k).op = Op(k))
  BY DEF Op
<1>4. NumLinks \in Nat /\ NumLinks > 0
  BY SizeAssumption DEF SizeAssumption
<1>5. ASSUME Op(k) # "none" PROVE At(k).arg % NumLinks \in Slot
  <2>. DEFINE x == At(k).arg
  <2>1. x \in Nat
    BY <1>2, <1>3, <1>5 DEF Instr
  <2>. HIDE DEF x
  <2>2. x % NumLinks \in 0 .. NumLinks - 1
    BY <1>4, <2>1
  <2>. QED  BY <2>2 DEF Slot, x
<1>6. ChanSlot(k) \in Slot
  BY <1>4, <1>5 DEF ChanSlot, Slot
<1>. QED  BY <1>1, <1>2, <1>3, <1>6

\* What the link interfaces offer to the routers are packets.
LEMMA OfferFacts ==
  ASSUME CoreInv, NEW k \in Proc
  PROVE  /\ DataIn[k] \in DF!Packet \cup {NoFlit}
         /\ AckIn[k] \in AF!Packet \cup {NoFlit}
<1>1. ChanSlot(k) \in Slot /\ areg[k] \in Nat
  BY InstructionFacts DEF CoreInv
<1>2. Route[<<k, ChanSlot(k)>>] \in Proc \X Slot
  BY <1>1, RouteFacts, Names DEF Endpoint
<1>3. Route[<<k, ChanSlot(k)>>][1] \in Proc /\ Route[<<k, ChanSlot(k)>>][2] \in Slot
  BY <1>2
<1>4. DataIn[k] \in DF!Packet \cup {NoFlit}
  BY <1>1, <1>3, Names, DataRouter DEF DataIn, L!DataOut, DF!Packet, L!DataFlit
<1>5. ASSUME st[k] = "IN_ACK" PROVE rx[k][ChanSlot(k)].src \in Proc
  BY <1>1, <1>5, Names DEF CoreInv, TypeOK, MidOperation, L!LinkTypeOK, L!Received
<1>6. AckIn[k] \in AF!Packet \cup {NoFlit}
  BY <1>5, AckRouter DEF AckIn, L!AckOut, AF!Packet
<1>. QED  BY <1>4, <1>6

\* Reset leaves every register with a value of its type.
LEMMA TypeInit == Init => CoreInv
<1>. SUFFICES ASSUME Init PROVE CoreInv
  OBVIOUS
<1>1. DOMAIN prog = Proc /\ \A k \in Proc : IsProgram(prog[k])
  BY ImagesAssumption DEF ImagesAssumption, Init
<1>2. D!RouterTypeOK
  BY DataRouter, RouterAssumptions, DF!RouterTypeInit DEF Init
<1>3. A!RouterTypeOK
  BY AckRouter, RouterAssumptions, AF!RouterTypeInit DEF Init
<1>4. L!LinkTypeOK
  BY DEF Init, L!LinkInit, L!LinkTypeOK
<1>5. pc \in [Proc -> Nat] /\ areg \in [Proc -> Nat]
  BY DEF Init
<1>6. MidOperation
  BY Names DEF Init, L!LinkInit, MidOperation
<1>. QED  BY <1>1, <1>2, <1>3, <1>4, <1>5, <1>6 DEF CoreInv, TypeOK

\* A core completes an OUT when it has its ACK, and an IN when it has sent one.
LEMMA AdvanceFacts ==
  ASSUME CoreInv, NEW k \in Proc, Advances(k)
  PROVE  /\ At(k).op = "OUT" => st[k] = "OUT_WAIT" /\ aobuf[k] # NoFlit
         /\ At(k).op = "IN" => /\ st[k] = "IN_ACK" /\ A!InReady(k)
                               /\ rx[k][ChanSlot(k)] # NoFlit
         /\ At(k).op \notin {"IN", "OUT"} => st[k] = "IDLE"
BY Names DEF Advances, Stall, Done, L!Done, Op, CoreInv, MidOperation, TypeOK, L!LinkTypeOK

\* A core that is in the middle of an operation stays at it.
LEMMA StallFacts ==
  ASSUME CoreInv, Tick, NEW k \in Proc, ~Advances(k)
  PROVE  /\ pc'[k] = pc[k] /\ areg'[k] = areg[k]
         /\ Fetches(k)' = Fetches(k) /\ At(k)' = At(k)
         /\ Op(k)' = Op(k) /\ ChanSlot(k)' = ChanSlot(k)
BY DEF Tick, ProcessorsClock, Fetches, At, Op, ChanSlot

\* So does a clock edge the registers of the link interfaces,
LEMMA LinkTypeNext == CoreInv /\ Tick => L!LinkTypeOK'
<1>. SUFFICES ASSUME CoreInv, Tick PROVE L!LinkTypeOK'
  OBVIOUS
<1>1. \A k \in Proc : st'[k] \in {"IDLE", "OUT_SEND", "OUT_WAIT", "IN_ACK"}
  BY Names DEF Tick, LinksClock, L!NextState, CoreInv, TypeOK, L!LinkTypeOK
<1>2. ASSUME NEW k \in Proc, NEW s \in Slot PROVE rx'[k][s] \in L!Received \cup {NoFlit}
  <2>1. rx'[k][s] = L!NextReceived(k, s, ChanSlot(k), dobuf[k], A!InReady(k))
    BY DEF Tick, LinksClock
  <2>2. dobuf[k] \in L!DataFlit \cup {NoFlit} /\ rx[k][s] \in L!Received \cup {NoFlit}
    BY Names, DataRouter DEF CoreInv, TypeOK, D!RouterTypeOK, L!LinkTypeOK
  <2>. QED  BY <2>1, <2>2 DEF L!NextReceived, L!DataReady, L!DataFlit, L!Received
<1>3. st' = [k \in Proc |-> st'[k]] /\ rx' = [k \in Proc |-> [s \in Slot |-> rx'[k][s]]]
  BY DEF Tick, LinksClock
<1>. QED  BY <1>1, <1>2, <1>3, Names DEF L!LinkTypeOK

\* and with them all others.
LEMMA TypeNext == CoreInv /\ Tick => TypeOK'
<1>. SUFFICES ASSUME CoreInv, Tick PROVE TypeOK'
  OBVIOUS
<1>1. prog' = prog
  BY DEF Tick
<1>2. ASSUME NEW k \in Proc PROVE pc'[k] \in Nat
  BY <1>2, InstructionFacts DEF CoreInv, Tick, ProcessorsClock, Advances, NextPc, Instr
<1>3. ASSUME NEW k \in Proc PROVE areg'[k] \in Nat
  <2>1. ASSUME Advances(k), At(k).op = "IN" PROVE rx[k][ChanSlot(k)].word \in Nat
    <3>1. rx[k][ChanSlot(k)] # NoFlit /\ ChanSlot(k) \in Slot
      BY <2>1, AdvanceFacts, InstructionFacts DEF CoreInv
    <3>. QED  BY <3>1, Names DEF CoreInv, TypeOK, L!LinkTypeOK, L!Received
  <2>. QED  BY <2>1, InstructionFacts
            DEF CoreInv, Tick, ProcessorsClock, Advances, NextAreg, Instr
<1>4. pc' \in [Proc -> Nat] /\ areg' \in [Proc -> Nat]
  BY <1>2, <1>3 DEF Tick, ProcessorsClock
<1>5. D!RouterTypeOK'
  <2>1. DF!RouterTypeOK /\ \A k \in DF!Port : DataIn[k] \in DF!Packet \cup {NoFlit}
    BY OfferFacts, DataRouter DEF CoreInv, TypeOK
  <2>2. DF!RouterTypeOK'
    BY <2>1, DataRouterClock, RouterAssumptions, DF!RouterTypeClock
  <2>. QED  BY <2>2, DataRouter DEF D!RouterTypeOK, DF!RouterTypeOK
<1>6. A!RouterTypeOK'
  <2>1. AF!RouterTypeOK /\ \A k \in AF!Port : AckIn[k] \in AF!Packet \cup {NoFlit}
    BY OfferFacts, AckRouter DEF CoreInv, TypeOK
  <2>2. AF!RouterTypeOK'
    BY <2>1, AckRouterClock, RouterAssumptions, AF!RouterTypeClock
  <2>. QED  BY <2>2, AckRouter DEF A!RouterTypeOK, AF!RouterTypeOK
<1>. QED  BY <1>1, <1>4, <1>5, <1>6, LinkTypeNext DEF CoreInv, TypeOK

\* A core in the middle of an OUT or an IN stays there: the processor is stalled.
LEMMA MidNext == CoreInv /\ Tick => MidOperation'
<1>. SUFFICES ASSUME CoreInv, Tick, NEW k \in Proc
              PROVE  /\ st'[k] \in {"OUT_SEND", "OUT_WAIT"} => Op(k)' = "OUT"
                     /\ st'[k] = "IN_ACK" =>
                          Op(k)' = "IN" /\ rx'[k][ChanSlot(k)'] # NoFlit
  BY DEF MidOperation
<1>1. st'[k] = L!NextState(k, Op(k), ChanSlot(k), D!InReady(k), aobuf[k], A!InReady(k))
  BY DEF Tick, LinksClock
<1>2. CASE st'[k] \in {"OUT_SEND", "OUT_WAIT"}
  <2>1. Op(k) = "OUT" /\ ~Done(k)
    BY <1>1, <1>2 DEF CoreInv, MidOperation, L!NextState, Done, L!Done
  <2>2. ~Advances(k)
    BY <2>1 DEF Advances, Stall
  <2>. QED  BY <1>2, <2>1, <2>2, StallFacts
<1>3. CASE st'[k] = "IN_ACK"
  <2>1. Op(k) = "IN" /\ ~Done(k) /\ rx[k][ChanSlot(k)] # NoFlit
    BY <1>1, <1>3 DEF CoreInv, MidOperation, L!NextState, Done, L!Done
  <2>2. ~Advances(k)
    BY <2>1 DEF Advances, Stall
  <2>3. ChanSlot(k) \in Slot
    BY InstructionFacts DEF CoreInv
  <2>4. rx'[k][ChanSlot(k)] = L!NextReceived(k, ChanSlot(k), ChanSlot(k), dobuf[k], A!InReady(k))
    BY <2>3 DEF Tick, LinksClock
  <2>5. rx'[k][ChanSlot(k)] = rx[k][ChanSlot(k)]
    BY <2>1, <2>4 DEF L!NextReceived, L!DataReady, Done, L!Done
  <2>. QED  BY <1>3, <2>1, <2>2, <2>5, StallFacts
<1>. QED  BY <1>2, <1>3

\* Types and stalls, in every state.
LEMMA CoreInvCorrect == Spec => []CoreInv
<1>1. CoreInv /\ [Tick]_vars => CoreInv'
  <2>. SUFFICES ASSUME CoreInv, [Tick]_vars PROVE CoreInv'
    OBVIOUS
  <2>1. CASE Tick
    BY <2>1, TypeNext, MidNext DEF CoreInv
  <2>2. CASE UNCHANGED vars
    <3>1. /\ prog' = prog /\ pc' = pc /\ areg' = areg /\ st' = st /\ rx' = rx
          /\ dibuf' = dibuf /\ dobuf' = dobuf /\ drr' = drr
          /\ aibuf' = aibuf /\ aobuf' = aobuf /\ arr' = arr
      BY <2>2 DEF vars, coreVars, netVars
    <3>2. TypeOK'
      BY <3>1 DEF CoreInv, TypeOK, L!LinkTypeOK, D!RouterTypeOK, A!RouterTypeOK
    <3>3. MidOperation'
      BY <3>1 DEF CoreInv, MidOperation, Op, ChanSlot, Fetches, At
    <3>. QED  BY <3>2, <3>3 DEF CoreInv
  <2>. QED  BY <2>1, <2>2
<1>. QED  BY <1>1, TypeInit, PTL DEF Spec

\* The registers of the network keep to their widths and kinds: no link interface
\* sends, reads or acknowledges what is not there.
THEOREM TypeCorrect == Spec => []TypeOK
<1>1. CoreInv => TypeOK
  BY DEF CoreInv
<1>. QED  BY <1>1, CoreInvCorrect, PTL

--------------------------------------------------------------------------------
(***************************************************************************)
(* One token: what core w has in the network is in one place.  First where *)
(* a clock edge takes what is there.                                       *)
(***************************************************************************)
\* Core w injects its word at this clock edge.
Injects(w) == st[w] = "OUT_SEND" /\ dibuf[w] = NoFlit

\* Core k completes an IN: it clears the buffer it has read and injects an ACK.
Acknowledges(k) == st[k] = "IN_ACK" /\ aibuf[k] = NoFlit

\* An input buffer is emptied into an output.
DataTaken(k) == DF!Granted(k, DataDrained)

AckTaken(k) == AF!Granted(k, AckDrained)

\* The DATA router at a clock edge.
LEMMA DataMoves ==
  ASSUME CoreInv, Tick, NEW k \in Proc
  PROVE  /\ dibuf[k] = NoFlit => dibuf'[k] = DataIn[k]
         /\ dibuf[k] # NoFlit =>
              /\ dibuf[k][1] \in Proc /\ dibuf[k][2] \in L!DataFlit
              /\ \/ ~DataTaken(k) /\ dibuf'[k] = dibuf[k]
                 \/ /\ DataTaken(k) /\ dibuf'[k] = NoFlit
                    /\ dobuf'[dibuf[k][1]] = dibuf[k][2]
         /\ DataTaken(k) => dibuf[k] # NoFlit
         /\ dobuf[k] # NoFlit => dobuf[k] \in L!DataFlit
         /\ \/ \E i \in Proc : /\ DataTaken(i) /\ dibuf[i][1] = k
                               /\ dobuf'[k] = dibuf[i][2]
                               /\ \A j \in Proc : DataTaken(j) /\ dibuf[j][1] = k => j = i
                               /\ dobuf[k] = NoFlit \/ L!DataReady(k, dobuf[k])
            \/ /\ \A i \in Proc : ~(DataTaken(i) /\ dibuf[i][1] = k)
               /\ dobuf'[k] = IF L!DataReady(k, dobuf[k]) THEN NoFlit ELSE dobuf[k]
<1>1. DF!RouterTypeOK /\ DF!Port = Proc /\ DF!RouterClock(DataIn, DataDrained)
  BY DataRouter, DataRouterClock DEF CoreInv, TypeOK
<1>2. /\ dibuf[k] \in DF!Packet \cup {NoFlit}
      /\ dobuf[k] \in L!DataFlit \cup {NoFlit}
  BY <1>1 DEF DF!RouterTypeOK
<1>3. /\ \A i \in Proc : dibuf[i] = NoFlit => dibuf'[i] = DataIn[i]
      /\ \A i \in Proc : dibuf[i] # NoFlit =>
           \/ ~DataTaken(i) /\ dibuf'[i] = dibuf[i]
           \/ /\ DataTaken(i) /\ dibuf'[i] = NoFlit
              /\ dobuf'[dibuf[i][1]] = dibuf[i][2]
      /\ \A j \in Proc :
           \/ DF!Fills(j, DataDrained) /\ dobuf'[j] = dibuf[DF!Grant(j)][2]
           \/ ~DF!Fills(j, DataDrained) /\ DataDrained[j] /\ dobuf'[j] = NoFlit
           \/ ~DF!Fills(j, DataDrained) /\ ~DataDrained[j] /\ dobuf'[j] = dobuf[j]
  BY <1>1, RouterAssumptions, DF!ClockFacts DEF DataTaken
<1>4. \A i \in Proc : DataTaken(i) =>
        /\ dibuf[i] # NoFlit
        /\ DF!Fills(dibuf[i][1], DataDrained) /\ DF!Grant(dibuf[i][1]) = i
  BY <1>1, RouterAssumptions, DF!GrantedFacts DEF DataTaken
<1>5. \A j \in Proc : DF!Fills(j, DataDrained) =>
        /\ DF!Grant(j) \in Proc
        /\ dibuf[DF!Grant(j)][1] = j
        /\ DataTaken(DF!Grant(j))
  BY <1>1, RouterAssumptions, DF!FillsFacts DEF DataTaken
<1>6. DataDrained[k] = L!DataReady(k, dobuf[k])
  BY DEF DataDrained
<1>7. ASSUME DF!Fills(k, DataDrained)
      PROVE  \E i \in Proc : /\ DataTaken(i) /\ dibuf[i][1] = k
                             /\ dobuf'[k] = dibuf[i][2]
                             /\ \A j \in Proc : DataTaken(j) /\ dibuf[j][1] = k => j = i
                             /\ dobuf[k] = NoFlit \/ L!DataReady(k, dobuf[k])
  <2>1. dobuf[k] = NoFlit \/ L!DataReady(k, dobuf[k])
    BY <1>6, <1>7 DEF DF!Fills
  <2>2. \A j \in Proc : DataTaken(j) /\ dibuf[j][1] = k => j = DF!Grant(k)
    BY <1>4
  <2>3. dobuf'[k] = dibuf[DF!Grant(k)][2]
    BY <1>3, <1>7
  <2>. QED  BY <1>5, <1>7, <2>1, <2>2, <2>3
<1>8. ASSUME ~DF!Fills(k, DataDrained)
      PROVE  /\ \A i \in Proc : ~(DataTaken(i) /\ dibuf[i][1] = k)
             /\ dobuf'[k] = IF L!DataReady(k, dobuf[k]) THEN NoFlit ELSE dobuf[k]
  <2>1. \A i \in Proc : ~(DataTaken(i) /\ dibuf[i][1] = k)
    BY <1>4, <1>8
  <2>2. dobuf'[k] = IF L!DataReady(k, dobuf[k]) THEN NoFlit ELSE dobuf[k]
    BY <1>3, <1>6, <1>8
  <2>. QED  BY <2>1, <2>2
<1>9. dibuf[k] # NoFlit => dibuf[k][1] \in Proc /\ dibuf[k][2] \in L!DataFlit
  BY <1>1, <1>2 DEF DF!Packet
<1>. QED  BY <1>2, <1>3, <1>4, <1>7, <1>8, <1>9

\* The ACK router at a clock edge: an output is always drained.
LEMMA AckMoves ==
  ASSUME CoreInv, Tick, NEW k \in Proc
  PROVE  /\ aibuf[k] = NoFlit => aibuf'[k] = AckIn[k]
         /\ aibuf[k] # NoFlit =>
              /\ aibuf[k][1] \in Proc
              /\ \/ ~AckTaken(k) /\ aibuf'[k] = aibuf[k]
                 \/ /\ AckTaken(k) /\ aibuf'[k] = NoFlit
                    /\ aobuf'[aibuf[k][1]] # NoFlit
         /\ AckTaken(k) => aibuf[k] # NoFlit
         /\ aobuf'[k] # NoFlit => \E i \in Proc : AckTaken(i) /\ aibuf[i][1] = k
<1>1. AF!RouterTypeOK /\ AF!Port = Proc /\ AF!RouterClock(AckIn, AckDrained)
  BY AckRouter, AckRouterClock DEF CoreInv, TypeOK
<1>2. \A i \in Proc : aibuf[i] \in AF!Packet \cup {NoFlit}
  BY <1>1 DEF AF!RouterTypeOK
<1>3. /\ \A i \in Proc : aibuf[i] = NoFlit => aibuf'[i] = AckIn[i]
      /\ \A i \in Proc : aibuf[i] # NoFlit =>
           \/ ~AckTaken(i) /\ aibuf'[i] = aibuf[i]
           \/ /\ AckTaken(i) /\ aibuf'[i] = NoFlit
              /\ aobuf'[aibuf[i][1]] = aibuf[i][2]
      /\ \A j \in Proc :
           \/ AF!Fills(j, AckDrained) /\ aobuf'[j] = aibuf[AF!Grant(j)][2]
           \/ ~AF!Fills(j, AckDrained) /\ AckDrained[j] /\ aobuf'[j] = NoFlit
           \/ ~AF!Fills(j, AckDrained) /\ ~AckDrained[j] /\ aobuf'[j] = aobuf[j]
  BY <1>1, RouterAssumptions, AF!ClockFacts DEF AckTaken
<1>4. \A i \in Proc : AckTaken(i) => aibuf[i] # NoFlit
  BY <1>1, RouterAssumptions, AF!GrantedFacts DEF AckTaken
<1>5. \A j \in Proc : AF!Fills(j, AckDrained) =>
        /\ AF!Grant(j) \in Proc
        /\ aibuf[AF!Grant(j)][1] = j
        /\ AckTaken(AF!Grant(j))
  BY <1>1, RouterAssumptions, AF!FillsFacts DEF AckTaken
<1>6. AckDrained[k] = TRUE
  BY DEF AckDrained
<1>7. aibuf[k] # NoFlit => aibuf[k][1] \in Proc /\ aibuf[k][2] = Ack /\ Ack # NoFlit
  BY <1>1, <1>2, NoFlitAssumption DEF AF!Packet, NoFlitAssumption
<1>8. aobuf'[k] # NoFlit => \E i \in Proc : AckTaken(i) /\ aibuf[i][1] = k
  BY <1>3, <1>5, <1>6
<1>. QED  BY <1>3, <1>4, <1>7, <1>8

\* The link interface of core k at a clock edge.
LEMMA LinkMoves ==
  ASSUME CoreInv, Tick, NEW k \in Proc, NEW s \in Slot
  PROVE  /\ Acknowledges(k) /\ s = ChanSlot(k) => rx[k][s] # NoFlit /\ rx'[k][s] = NoFlit
         /\ L!DataReady(k, dobuf[k]) /\ dobuf[k].dst_slot = s =>
              /\ rx[k][s] = NoFlit
              /\ rx'[k][s] = [src |-> dobuf[k].src_core, word |-> dobuf[k].word]
         /\ \/ Acknowledges(k) /\ s = ChanSlot(k)
            \/ L!DataReady(k, dobuf[k]) /\ dobuf[k].dst_slot = s
            \/ rx'[k][s] = rx[k][s]
<1>1. rx'[k][s] = L!NextReceived(k, s, ChanSlot(k), dobuf[k], A!InReady(k))
  BY DEF Tick, LinksClock
<1>2. Acknowledges(k) => rx[k][ChanSlot(k)] # NoFlit
  BY DEF CoreInv, MidOperation, Acknowledges
<1>. QED  BY <1>1, <1>2 DEF L!NextReceived, L!DataReady, A!InReady, Acknowledges

--------------------------------------------------------------------------------
(***************************************************************************)
(* Then where a thing that is here after the edge was before it.           *)
(***************************************************************************)
InDibuf(w, k) == dibuf[k] # NoFlit /\ dibuf[k][2].src_core = w

InDobuf(w, j) == dobuf[j] # NoFlit /\ dobuf[j].src_core = w

InRx(w, k, s) == rx[k][s] # NoFlit /\ rx[k][s].src = w

InAibuf(w, k) == aibuf[k] # NoFlit /\ aibuf[k][1] = w

Tokens(w) == DataOf(w) \cup AcksFor(w)

\* The five places a token can be in.
LEMMA TokenFacts ==
  ASSUME NEW w \in Proc, NEW t
  PROVE  t \in Tokens(w) <=>
           \/ \E k \in Proc : t = <<"dibuf", k>> /\ InDibuf(w, k)
           \/ \E j \in Proc : t = <<"dobuf", j>> /\ InDobuf(w, j)
           \/ \E k \in Proc, s \in Slot : t = <<"rx", <<k, s>>>> /\ InRx(w, k, s)
           \/ \E k \in Proc : t = <<"aibuf", k>> /\ InAibuf(w, k)
           \/ t = <<"aobuf", w>> /\ aobuf[w] # NoFlit
<1>1. t \in {"rx"} \X {e \in Endpoint : rx[e[1]][e[2]] # NoFlit /\ rx[e[1]][e[2]].src = w}
        <=> \E k \in Proc, s \in Slot : t = <<"rx", <<k, s>>>> /\ InRx(w, k, s)
  BY DEF InRx, Endpoint
<1>2. t \in {"dibuf"} \X {k \in Proc : dibuf[k] # NoFlit /\ dibuf[k][2].src_core = w}
        <=> \E k \in Proc : t = <<"dibuf", k>> /\ InDibuf(w, k)
  BY DEF InDibuf
<1>3. t \in {"dobuf"} \X {k \in Proc : dobuf[k] # NoFlit /\ dobuf[k].src_core = w}
        <=> \E k \in Proc : t = <<"dobuf", k>> /\ InDobuf(w, k)
  BY DEF InDobuf
<1>4. t \in {"aibuf"} \X {k \in Proc : aibuf[k] # NoFlit /\ aibuf[k][1] = w}
        <=> \E k \in Proc : t = <<"aibuf", k>> /\ InAibuf(w, k)
  BY DEF InAibuf
<1>5. t \in (IF aobuf[w] # NoFlit THEN {<<"aobuf", w>>} ELSE {})
        <=> t = <<"aobuf", w>> /\ aobuf[w] # NoFlit
  OBVIOUS
<1>. QED  BY <1>1, <1>2, <1>3, <1>4, <1>5 DEF Tokens, DataOf, AcksFor

\* Where the word of a writer, or its ACK, can be after an edge.
LEMMA TokenFactsNext ==
  ASSUME NEW w \in Proc, NEW t
  PROVE  t \in Tokens(w)' <=>
           \/ \E k \in Proc : t = <<"dibuf", k>> /\ InDibuf(w, k)'
           \/ \E j \in Proc : t = <<"dobuf", j>> /\ InDobuf(w, j)'
           \/ \E k \in Proc, s \in Slot : t = <<"rx", <<k, s>>>> /\ InRx(w, k, s)'
           \/ \E k \in Proc : t = <<"aibuf", k>> /\ InAibuf(w, k)'
           \/ t = <<"aobuf", w>> /\ aobuf'[w] # NoFlit
<1>1. t \in {"rx"} \X {e \in Endpoint : rx'[e[1]][e[2]] # NoFlit /\ rx'[e[1]][e[2]].src = w}
        <=> \E k \in Proc, s \in Slot : t = <<"rx", <<k, s>>>> /\ InRx(w, k, s)'
  BY DEF InRx, Endpoint
<1>2. t \in {"dibuf"} \X {k \in Proc : dibuf'[k] # NoFlit /\ dibuf'[k][2].src_core = w}
        <=> \E k \in Proc : t = <<"dibuf", k>> /\ InDibuf(w, k)'
  BY DEF InDibuf
<1>3. t \in {"dobuf"} \X {k \in Proc : dobuf'[k] # NoFlit /\ dobuf'[k].src_core = w}
        <=> \E k \in Proc : t = <<"dobuf", k>> /\ InDobuf(w, k)'
  BY DEF InDobuf
<1>4. t \in {"aibuf"} \X {k \in Proc : aibuf'[k] # NoFlit /\ aibuf'[k][1] = w}
        <=> \E k \in Proc : t = <<"aibuf", k>> /\ InAibuf(w, k)'
  BY DEF InAibuf
<1>5. t \in (IF aobuf'[w] # NoFlit THEN {<<"aobuf", w>>} ELSE {})
        <=> t = <<"aobuf", w>> /\ aobuf'[w] # NoFlit
  OBVIOUS
<1>. QED  BY <1>1, <1>2, <1>3, <1>4, <1>5 DEF Tokens, DataOf, AcksFor

\* A word is injected, and stays until its port takes it.
LEMMA DibufMoves ==
  ASSUME CoreInv, Tick, NEW w \in Proc, NEW k \in Proc
  PROVE  InDibuf(w, k)' <=>
           (k = w /\ Injects(w)) \/ (InDibuf(w, k) /\ ~DataTaken(k))
<1>1. DataIn[k] = IF st[k] = "OUT_SEND"
                  THEN << Route[<<k, ChanSlot(k)>>][1],
                          [dst_slot |-> Route[<<k, ChanSlot(k)>>][2],
                           src_core |-> k, word |-> areg[k]] >>
                  ELSE NoFlit
  BY DEF DataIn, L!DataOut
<1>2. DataIn[k] \in DF!Packet \cup {NoFlit} /\ NoFlit \notin DF!Packet
  BY OfferFacts, DataRouter, NoFlitAssumption DEF NoFlitAssumption
<1>3. st[k] = "OUT_SEND" => DataIn[k] # NoFlit /\ DataIn[k][2].src_core = k
  <2>. SUFFICES ASSUME st[k] = "OUT_SEND" PROVE DataIn[k] # NoFlit /\ DataIn[k][2].src_core = k
    OBVIOUS
  <2>1. Route[<<k, ChanSlot(k)>>] \in Proc \X Slot /\ areg[k] \in Nat
    BY InstructionFacts, RouteFacts, Names DEF CoreInv
  <2>2. << Route[<<k, ChanSlot(k)>>][1],
          [dst_slot |-> Route[<<k, ChanSlot(k)>>][2],
           src_core |-> k, word |-> areg[k]] >> \in DF!Packet
    BY <2>1, Names, DataRouter DEF DF!Packet, L!DataFlit
  <2>. QED  BY <1>1, <1>2, <2>2
<1>. QED  BY <1>1, <1>3, DataMoves DEF InDibuf, Injects

\* It crosses the router, and stays until it is received.
LEMMA DobufMoves ==
  ASSUME CoreInv, Tick, NEW w \in Proc, NEW j \in Proc
  PROVE  InDobuf(w, j)' <=>
           \/ \E k \in Proc : InDibuf(w, k) /\ DataTaken(k) /\ dibuf[k][1] = j
           \/ InDobuf(w, j) /\ ~L!DataReady(j, dobuf[j])
<1>1. \A k \in Proc : dibuf[k] # NoFlit => dibuf[k][2] \in L!DataFlit
  BY DataMoves
<1>2. NoFlit \notin L!DataFlit
  BY NoFlitAssumption DEF NoFlitAssumption
<1>3. \A k \in Proc : DataTaken(k) => dibuf[k] # NoFlit
  BY DataMoves
<1>4. CASE \E i \in Proc : DataTaken(i) /\ dibuf[i][1] = j
  <2>1. PICK i \in Proc : /\ DataTaken(i) /\ dibuf[i][1] = j
                          /\ dobuf'[j] = dibuf[i][2]
                          /\ \A k \in Proc : DataTaken(k) /\ dibuf[k][1] = j => k = i
                          /\ dobuf[j] = NoFlit \/ L!DataReady(j, dobuf[j])
    BY <1>4, DataMoves
  <2>. QED  BY <1>1, <1>2, <1>3, <2>1 DEF InDobuf, InDibuf
<1>5. CASE \A i \in Proc : ~(DataTaken(i) /\ dibuf[i][1] = j)
  <2>1. dobuf'[j] = IF L!DataReady(j, dobuf[j]) THEN NoFlit ELSE dobuf[j]
    BY <1>5, DataMoves
  <2>. QED  BY <1>5, <2>1 DEF InDobuf, InDibuf
<1>. QED  BY <1>4, <1>5

\* It is received at the slot it is for, and stays until it is read.
LEMMA RxMoves ==
  ASSUME CoreInv, Tick, NEW w \in Proc, NEW k \in Proc, NEW s \in Slot
  PROVE  InRx(w, k, s)' <=>
           \/ InDobuf(w, k) /\ L!DataReady(k, dobuf[k]) /\ dobuf[k].dst_slot = s
           \/ InRx(w, k, s) /\ ~(Acknowledges(k) /\ s = ChanSlot(k))
<1>1. L!DataReady(k, dobuf[k]) => dobuf[k] # NoFlit /\ dobuf[k] \in L!DataFlit
  BY DataMoves DEF L!DataReady
<1>2. L!DataReady(k, dobuf[k]) =>
        [src |-> dobuf[k].src_core, word |-> dobuf[k].word] \in L!Received
  BY <1>1 DEF L!DataFlit, L!Received
<1>3. NoFlit \notin L!Received
  BY NoFlitAssumption DEF NoFlitAssumption
<1>. QED  BY <1>1, <1>2, <1>3, LinkMoves DEF InRx, InDobuf

\* Reading it makes the ACK, which stays until its port takes it,
LEMMA AibufMoves ==
  ASSUME CoreInv, Tick, NEW w \in Proc, NEW k \in Proc
  PROVE  InAibuf(w, k)' <=>
           \/ InRx(w, k, ChanSlot(k)) /\ Acknowledges(k)
           \/ InAibuf(w, k) /\ ~AckTaken(k)
<1>1. AckIn[k] = IF st[k] = "IN_ACK" THEN <<rx[k][ChanSlot(k)].src, Ack>> ELSE NoFlit
  BY DEF AckIn, L!AckOut
<1>2. st[k] = "IN_ACK" => rx[k][ChanSlot(k)] # NoFlit
  BY DEF CoreInv, MidOperation
<1>3. st[k] = "IN_ACK" => AckIn[k] # NoFlit /\ AckIn[k][1] = rx[k][ChanSlot(k)].src
  <2>. SUFFICES ASSUME st[k] = "IN_ACK"
                PROVE  AckIn[k] # NoFlit /\ AckIn[k][1] = rx[k][ChanSlot(k)].src
    OBVIOUS
  <2>1. rx[k][ChanSlot(k)].src \in Proc
    BY <1>2, InstructionFacts, Names DEF CoreInv, TypeOK, L!LinkTypeOK, L!Received
  <2>2. <<rx[k][ChanSlot(k)].src, Ack>> \in A!Packet
    BY <2>1, AckRouter DEF A!Packet
  <2>. QED  BY <1>1, <2>2, NoFlitAssumption DEF NoFlitAssumption
<1>. QED  BY <1>1, <1>2, <1>3, AckMoves DEF InAibuf, InRx, Acknowledges

\* and is at the writer one edge later.
LEMMA AobufMoves ==
  ASSUME CoreInv, Tick, NEW w \in Proc
  PROVE  aobuf'[w] # NoFlit <=> \E k \in Proc : InAibuf(w, k) /\ AckTaken(k)
<1>1. ASSUME NEW k \in Proc, InAibuf(w, k), AckTaken(k) PROVE aobuf'[w] # NoFlit
  BY <1>1, AckMoves DEF InAibuf
<1>2. ASSUME aobuf'[w] # NoFlit PROVE \E k \in Proc : InAibuf(w, k) /\ AckTaken(k)
  BY <1>2, AckMoves DEF InAibuf
<1>. QED  BY <1>1, <1>2

\* A writer waits from when its word is injected until it has the ACK.
LEMMA WriterMoves ==
  ASSUME CoreInv, Tick, NEW w \in Proc
  PROVE  /\ st'[w] = "OUT_WAIT" <=> Injects(w) \/ (st[w] = "OUT_WAIT" /\ aobuf[w] = NoFlit)
         /\ st'[w] = "OUT_WAIT" => Op(w)' = "OUT"
<1>1. st'[w] = L!NextState(w, Op(w), ChanSlot(w), D!InReady(w), aobuf[w], A!InReady(w))
  BY DEF Tick, LinksClock
<1>2. st[w] \in {"IDLE", "OUT_SEND", "OUT_WAIT", "IN_ACK"}
  BY Names DEF CoreInv, TypeOK, L!LinkTypeOK
<1>3. st'[w] = "OUT_WAIT" <=> Injects(w) \/ (st[w] = "OUT_WAIT" /\ aobuf[w] = NoFlit)
  BY <1>1, <1>2 DEF L!NextState, L!Done, D!InReady, Injects
<1>4. st'[w] = "OUT_WAIT" => Op(w)' = "OUT"
  BY MidNext DEF MidOperation
<1>. QED  BY <1>3, <1>4

\* What a writer has in the network when it injects, if it has nothing else.
LEMMA TokenInjected ==
  ASSUME CoreInv, Tick, NEW w \in Proc, Tokens(w) = {}
  PROVE  Tokens(w)' = IF Injects(w) THEN {<<"dibuf", w>>} ELSE {}
<1>1. /\ \A k \in Proc : ~InDibuf(w, k) /\ ~InDobuf(w, k) /\ ~InAibuf(w, k)
      /\ \A k \in Proc, s \in Slot : ~InRx(w, k, s)
      /\ aobuf[w] = NoFlit
  BY TokenFacts
<1>2. \A k \in Proc : ~InRx(w, k, ChanSlot(k))
  BY <1>1, InstructionFacts DEF CoreInv
<1>3. /\ \A k \in Proc : InDibuf(w, k)' <=> k = w /\ Injects(w)
      /\ \A k \in Proc : ~InDobuf(w, k)' /\ ~InAibuf(w, k)'
      /\ \A k \in Proc, s \in Slot : ~InRx(w, k, s)'
      /\ aobuf'[w] = NoFlit
  BY <1>1, <1>2, DibufMoves, DobufMoves, RxMoves, AibufMoves, AobufMoves
<1>. QED  BY <1>3, TokenFactsNext

\* Where the one thing a core has in the network is.
LEMMA OnlyToken ==
  ASSUME NEW w \in Proc, NEW t, Tokens(w) = {t}
  PROVE  /\ \A k \in Proc : InDibuf(w, k) <=> t = <<"dibuf", k>>
         /\ \A k \in Proc : InDobuf(w, k) <=> t = <<"dobuf", k>>
         /\ \A k \in Proc, s \in Slot : InRx(w, k, s) <=> t = <<"rx", <<k, s>>>>
         /\ \A k \in Proc : InAibuf(w, k) <=> t = <<"aibuf", k>>
         /\ aobuf[w] # NoFlit <=> t = <<"aobuf", w>>
<1>1. \A u : u \in Tokens(w) <=> u = t
  OBVIOUS
<1>2. ASSUME NEW k \in Proc PROVE InDibuf(w, k) <=> <<"dibuf", k>> \in Tokens(w)
  BY DEF Tokens, DataOf, AcksFor, InDibuf
<1>3. ASSUME NEW k \in Proc PROVE InDobuf(w, k) <=> <<"dobuf", k>> \in Tokens(w)
  BY DEF Tokens, DataOf, AcksFor, InDobuf
<1>4. ASSUME NEW k \in Proc, NEW s \in Slot
      PROVE  InRx(w, k, s) <=> <<"rx", <<k, s>>>> \in Tokens(w)
  BY DEF Tokens, DataOf, AcksFor, InRx, Endpoint
<1>5. ASSUME NEW k \in Proc PROVE InAibuf(w, k) <=> <<"aibuf", k>> \in Tokens(w)
  BY DEF Tokens, DataOf, AcksFor, InAibuf
<1>6. aobuf[w] # NoFlit <=> <<"aobuf", w>> \in Tokens(w)
  BY DEF Tokens, DataOf, AcksFor
<1>. QED  BY <1>1, <1>2, <1>3, <1>4, <1>5, <1>6

\* The one thing a waiting writer has in the network moves on or stays, and is the
\* one thing it has there until it is the ACK the writer takes.
LEMMA TokenMoves ==
  ASSUME CoreInv, Tick, NEW w \in Proc, st[w] = "OUT_WAIT", NEW t, Tokens(w) = {t}
  PROVE  IF aobuf[w] # NoFlit THEN Tokens(w)' = {} ELSE \E u : Tokens(w)' = {u}
<1>1. t \in Tokens(w) /\ \A u : u \in Tokens(w) => u = t
  OBVIOUS
<1>2. ~Injects(w)
  BY DEF Injects
<1>. USE <1>2
<1>3. CASE t = <<"aobuf", w>>
  <2>1. /\ \A k \in Proc : ~InDibuf(w, k) /\ ~InDobuf(w, k) /\ ~InAibuf(w, k)
        /\ \A k \in Proc, s \in Slot : ~InRx(w, k, s)
        /\ aobuf[w] # NoFlit
    BY <1>3, OnlyToken
  <2>2. \A k \in Proc : ~InRx(w, k, ChanSlot(k))
    BY <2>1, InstructionFacts DEF CoreInv
  <2>3. /\ \A k \in Proc : ~InDibuf(w, k)' /\ ~InDobuf(w, k)' /\ ~InAibuf(w, k)'
        /\ \A k \in Proc, s \in Slot : ~InRx(w, k, s)'
        /\ aobuf'[w] = NoFlit
    BY <2>1, <2>2, DibufMoves, DobufMoves, RxMoves, AibufMoves, AobufMoves
  <2>. QED  BY <2>1, <2>3, TokenFactsNext
<1>4. ASSUME NEW i \in Proc, t = <<"aibuf", i>>
      PROVE  aobuf[w] = NoFlit /\ \E u : Tokens(w)' = {u}
  <2>1. /\ \A k \in Proc : ~InDibuf(w, k) /\ ~InDobuf(w, k) /\ (InAibuf(w, k) <=> k = i)
        /\ \A k \in Proc, s \in Slot : ~InRx(w, k, s)
        /\ aobuf[w] = NoFlit
    BY <1>4, OnlyToken
  <2>2. \A k \in Proc : ~InRx(w, k, ChanSlot(k))
    BY <2>1, InstructionFacts DEF CoreInv
  <2>3. /\ \A k \in Proc : ~InDibuf(w, k)' /\ ~InDobuf(w, k)'
        /\ \A k \in Proc : InAibuf(w, k)' <=> k = i /\ ~AckTaken(i)
        /\ \A k \in Proc, s \in Slot : ~InRx(w, k, s)'
        /\ aobuf'[w] # NoFlit <=> AckTaken(i)
    BY <2>1, <2>2, DibufMoves, DobufMoves, RxMoves, AibufMoves, AobufMoves
  <2>4. CASE AckTaken(i)
    <3>1. Tokens(w)' = {<<"aobuf", w>>}
      BY <2>3, <2>4, TokenFactsNext
    <3>. QED  BY <2>1, <3>1
  <2>5. CASE ~AckTaken(i)
    <3>1. Tokens(w)' = {<<"aibuf", i>>}
      BY <2>3, <2>5, TokenFactsNext
    <3>. QED  BY <2>1, <3>1
  <2>. QED  BY <2>4, <2>5
<1>5. ASSUME NEW i \in Proc, NEW s \in Slot, t = <<"rx", <<i, s>>>>
      PROVE  aobuf[w] = NoFlit /\ \E u : Tokens(w)' = {u}
  <2>1. /\ \A k \in Proc : ~InDibuf(w, k) /\ ~InDobuf(w, k) /\ ~InAibuf(w, k)
        /\ \A k \in Proc, r \in Slot : InRx(w, k, r) <=> k = i /\ r = s
        /\ aobuf[w] = NoFlit
    BY <1>5, OnlyToken
  <2>. DEFINE Read == Acknowledges(i) /\ s = ChanSlot(i)
  <2>2. \A k \in Proc : InRx(w, k, ChanSlot(k)) <=> k = i /\ ChanSlot(k) = s
    BY <2>1, InstructionFacts DEF CoreInv
  <2>3. /\ \A k \in Proc : ~InDibuf(w, k)' /\ ~InDobuf(w, k)'
        /\ \A k \in Proc : InAibuf(w, k)' <=> k = i /\ Read
        /\ \A k \in Proc, r \in Slot : InRx(w, k, r)' <=> k = i /\ r = s /\ ~Read
        /\ aobuf'[w] = NoFlit
    BY <2>1, <2>2, DibufMoves, DobufMoves, RxMoves, AibufMoves, AobufMoves
  <2>4. CASE Read
    <3>1. Tokens(w)' = {<<"aibuf", i>>}
      BY <2>3, <2>4, TokenFactsNext
    <3>. QED  BY <2>1, <3>1
  <2>5. CASE ~Read
    <3>1. Tokens(w)' = {<<"rx", <<i, s>>>>}
      BY <2>3, <2>5, TokenFactsNext
    <3>. QED  BY <2>1, <3>1
  <2>. QED  BY <2>4, <2>5
<1>6. ASSUME NEW i \in Proc, t = <<"dobuf", i>>
      PROVE  aobuf[w] = NoFlit /\ \E u : Tokens(w)' = {u}
  <2>1. /\ \A k \in Proc : ~InDibuf(w, k) /\ ~InAibuf(w, k) /\ (InDobuf(w, k) <=> k = i)
        /\ \A k \in Proc, s \in Slot : ~InRx(w, k, s)
        /\ aobuf[w] = NoFlit
    BY <1>6, OnlyToken
  <2>2. \A k \in Proc : ~InRx(w, k, ChanSlot(k))
    BY <2>1, InstructionFacts DEF CoreInv
  <2>. DEFINE Ready == L!DataReady(i, dobuf[i])
              r == dobuf[i].dst_slot
  <2>3. r \in Slot
    BY <2>1, DataMoves, Names DEF InDobuf, L!DataFlit
  <2>4. /\ \A k \in Proc : ~InDibuf(w, k)' /\ ~InAibuf(w, k)'
        /\ \A k \in Proc : InDobuf(w, k)' <=> k = i /\ ~Ready
        /\ \A k \in Proc, s \in Slot : InRx(w, k, s)' <=> k = i /\ s = r /\ Ready
        /\ aobuf'[w] = NoFlit
    BY <2>1, <2>2, DibufMoves, DobufMoves, RxMoves, AibufMoves, AobufMoves
  <2>. HIDE DEF Ready, r
  <2>5. CASE Ready
    <3>1. Tokens(w)' = {<<"rx", <<i, r>>>>}
      BY <2>3, <2>4, <2>5, TokenFactsNext
    <3>. QED  BY <2>1, <3>1
  <2>6. CASE ~Ready
    <3>1. Tokens(w)' = {<<"dobuf", i>>}
      BY <2>4, <2>6, TokenFactsNext
    <3>. QED  BY <2>1, <3>1
  <2>. QED  BY <2>5, <2>6
<1>7. ASSUME NEW i \in Proc, t = <<"dibuf", i>>
      PROVE  aobuf[w] = NoFlit /\ \E u : Tokens(w)' = {u}
  <2>1. /\ \A k \in Proc : (InDibuf(w, k) <=> k = i) /\ ~InAibuf(w, k) /\ ~InDobuf(w, k)
        /\ \A k \in Proc, s \in Slot : ~InRx(w, k, s)
        /\ aobuf[w] = NoFlit
    BY <1>7, OnlyToken
  <2>2. \A k \in Proc : ~InRx(w, k, ChanSlot(k))
    BY <2>1, InstructionFacts DEF CoreInv
  <2>. DEFINE j == dibuf[i][1]
  <2>3. j \in Proc
    BY <2>1, DataMoves DEF InDibuf
  <2>4. /\ \A k \in Proc : ~InAibuf(w, k)' /\ (InDibuf(w, k)' <=> k = i /\ ~DataTaken(i))
        /\ \A k \in Proc : InDobuf(w, k)' <=> k = j /\ DataTaken(i)
        /\ \A k \in Proc, s \in Slot : ~InRx(w, k, s)'
        /\ aobuf'[w] = NoFlit
    BY <2>1, <2>2, DibufMoves, DobufMoves, RxMoves, AibufMoves, AobufMoves
  <2>. HIDE DEF j
  <2>5. CASE DataTaken(i)
    <3>1. Tokens(w)' = {<<"dobuf", j>>}
      BY <2>3, <2>4, <2>5, TokenFactsNext
    <3>. QED  BY <2>1, <3>1
  <2>6. CASE ~DataTaken(i)
    <3>1. Tokens(w)' = {<<"dibuf", i>>}
      BY <2>4, <2>6, TokenFactsNext
    <3>. QED  BY <2>1, <3>1
  <2>. QED  BY <2>5, <2>6
<1>8. aobuf[w] # NoFlit => t = <<"aobuf", w>>
  BY <1>1, TokenFacts
<1>. QED
  <2>1. \/ t = <<"aobuf", w>>
        \/ \E i \in Proc : t \in {<<"dibuf", i>>, <<"dobuf", i>>, <<"aibuf", i>>}
        \/ \E i \in Proc, s \in Slot : t = <<"rx", <<i, s>>>>
    BY <1>1, TokenFacts
  <2>2. t = <<"aobuf", w>> => aobuf[w] # NoFlit
    BY <1>1, TokenFacts
  <2>. QED  BY <1>3, <1>4, <1>5, <1>6, <1>7, <2>1, <2>2

TokenInv == CoreInv /\ OneToken

\* No edge doubles or drops what a writer has on the way.
LEMMA OneTokenNext == TokenInv /\ Tick => OneToken'
<1>. SUFFICES ASSUME TokenInv, Tick, NEW w \in Proc
              PROVE  IF st'[w] = "OUT_WAIT"
                     THEN Op(w)' = "OUT" /\ \E t \in Tokens(w)' : Tokens(w)' = {t}
                     ELSE Tokens(w)' = {}
  BY DEF OneToken, Tokens
<1>. USE DEF TokenInv
<1>1. CASE st[w] = "OUT_WAIT"
  <2>1. PICK t : Tokens(w) = {t}
    BY <1>1 DEF OneToken, Tokens
  <2>2. IF aobuf[w] # NoFlit THEN Tokens(w)' = {} ELSE \E u : Tokens(w)' = {u}
    BY <1>1, <2>1, TokenMoves
  <2>3. st'[w] = "OUT_WAIT" <=> aobuf[w] = NoFlit
    BY <1>1, WriterMoves DEF Injects
  <2>. QED  BY <2>2, <2>3, WriterMoves
<1>2. CASE st[w] # "OUT_WAIT"
  <2>1. Tokens(w) = {}
    BY <1>2 DEF OneToken, Tokens
  <2>2. Tokens(w)' = IF Injects(w) THEN {<<"dibuf", w>>} ELSE {}
    BY <2>1, TokenInjected
  <2>. QED  BY <1>2, <2>2, WriterMoves
<1>. QED  BY <1>1, <1>2

\* A word or an ACK for each writer that waits, in every state.
LEMMA TokenInvCorrect == Spec => []TokenInv
<1>1. Init => OneToken
  <2>. SUFFICES ASSUME Init, NEW w \in Proc
                PROVE  st[w] = "IDLE" /\ Tokens(w) = {}
    BY DEF OneToken, Tokens
  <2>1. /\ st[w] = "IDLE" /\ aobuf[w] = NoFlit
        /\ \A k \in Proc : dibuf[k] = NoFlit /\ dobuf[k] = NoFlit /\ aibuf[k] = NoFlit
        /\ \A k \in Proc, s \in Slot : rx[k][s] = NoFlit
    BY Names, DataRouter, AckRouter DEF Init, L!LinkInit, D!RouterInit, A!RouterInit
  <2>. QED  BY <2>1, TokenFacts DEF InDibuf, InDobuf, InRx, InAibuf
<1>2. TokenInv /\ CoreInv' /\ [Tick]_vars => TokenInv'
  <2>. SUFFICES ASSUME TokenInv, CoreInv', [Tick]_vars PROVE OneToken'
    BY DEF TokenInv
  <2>1. CASE Tick
    BY <2>1, OneTokenNext
  <2>2. CASE UNCHANGED vars
    <3>1. /\ prog' = prog /\ pc' = pc /\ st' = st /\ rx' = rx
          /\ dibuf' = dibuf /\ dobuf' = dobuf /\ aibuf' = aibuf /\ aobuf' = aobuf
      BY <2>2 DEF vars, coreVars, netVars
    <3>. QED  BY <3>1 DEF TokenInv, OneToken, DataOf, AcksFor, Op, Fetches, At
  <2>. QED  BY <2>1, <2>2
<1>. QED  BY <1>1, <1>2, CoreInvCorrect, PTL DEF Spec, TokenInv

\* The link interface takes an ACK for its own without looking: none reaches a core
\* that does not wait for it, and none is sent twice or lost on the way.
THEOREM TokenCorrect == Spec => []OneToken
<1>1. TokenInv => OneToken
  BY DEF TokenInv
<1>. QED  BY <1>1, TokenInvCorrect, PTL

--------------------------------------------------------------------------------
(***************************************************************************)
(* A word in the network is the writer's, and is on its way to the slot    *)
(* that the writer's route table names.                                    *)
(***************************************************************************)
\* Where what core w sends, at the operation it is at, is to go.
Dest(w) == Route[<<w, ChanSlot(w)>>]

InDibufPlaced ==
  \A k \in Proc : dibuf[k] # NoFlit =>
    /\ dibuf[k][2].src_core = k
    /\ <<dibuf[k][1], dibuf[k][2].dst_slot>> = Dest(k)
    /\ dibuf[k][2].word = areg[k]

InDobufPlaced ==
  \A w, j \in Proc : InDobuf(w, j) =>
    <<j, dobuf[j].dst_slot>> = Dest(w) /\ dobuf[j].word = areg[w]

InRxPlaced ==
  \A w, k \in Proc, s \in Slot : InRx(w, k, s) =>
    <<k, s>> = Dest(w) /\ rx[k][s].word = areg[w]

Placed == InDibufPlaced /\ InDobufPlaced /\ InRxPlaced

PlacedInv == TokenInv /\ Placed

\* A core with something in the network is at its OUT, and stays at it until the
\* ACK is in the ACK router's output.
LEMMA WriterStays ==
  ASSUME TokenInv, Tick, NEW w \in Proc,
         \/ st[w] = "OUT_SEND"
         \/ \E k \in Proc : InDibuf(w, k) \/ InDobuf(w, k)
         \/ \E k \in Proc, s \in Slot : InRx(w, k, s)
  PROVE  Dest(w)' = Dest(w) /\ areg'[w] = areg[w]
<1>1. CASE st[w] = "OUT_SEND"
  <2>1. ~Advances(w)
    BY <1>1, AdvanceFacts DEF TokenInv
  <2>. QED  BY <2>1, StallFacts DEF TokenInv, Dest, Route
<1>2. CASE st[w] # "OUT_SEND"
  <2>1. PICK t : t \in Tokens(w) /\ t # <<"aobuf", w>>
    <3>1. ASSUME NEW k \in Proc, InDibuf(w, k)
          PROVE  \E t \in Tokens(w) : t # <<"aobuf", w>>
      <4>1. <<"dibuf", k>> \in Tokens(w)
        BY <3>1 DEF Tokens, DataOf, InDibuf
      <4>2. <<"dibuf", k>> # <<"aobuf", w>>
        OBVIOUS
      <4>. QED  BY <4>1, <4>2
    <3>2. ASSUME NEW k \in Proc, InDobuf(w, k)
          PROVE  \E t \in Tokens(w) : t # <<"aobuf", w>>
      <4>1. <<"dobuf", k>> \in Tokens(w)
        BY <3>2 DEF Tokens, DataOf, InDobuf
      <4>2. <<"dobuf", k>> # <<"aobuf", w>>
        OBVIOUS
      <4>. QED  BY <4>1, <4>2
    <3>3. ASSUME NEW k \in Proc, NEW s \in Slot, InRx(w, k, s)
          PROVE  \E t \in Tokens(w) : t # <<"aobuf", w>>
      <4>1. <<"rx", <<k, s>>>> \in Tokens(w)
        BY <3>3 DEF Tokens, DataOf, InRx, Endpoint
      <4>2. <<"rx", <<k, s>>>> # <<"aobuf", w>>
        OBVIOUS
      <4>. QED  BY <4>1, <4>2
    <3>. QED  BY <1>2, <3>1, <3>2, <3>3
  <2>2. Tokens(w) # {} /\ Tokens(w) = {t} /\ st[w] = "OUT_WAIT"
    BY <2>1 DEF TokenInv, OneToken, Tokens
  <2>3. aobuf[w] = NoFlit
    BY <2>1, <2>2, OnlyToken
  <2>4. ~Advances(w)
    BY <2>2, <2>3, AdvanceFacts DEF TokenInv
  <2>. QED  BY <2>4, StallFacts DEF TokenInv, Dest, Route
<1>. QED  BY <1>1, <1>2

\* A route leads to a slot of a core.
LEMMA DestFacts ==
  ASSUME CoreInv, NEW w \in Proc
  PROVE  Dest(w) \in Proc \X Slot
BY InstructionFacts, RouteFacts, Names DEF CoreInv, Dest

\* Words stay on the way that the route table gives them.
LEMMA PlacedNext == PlacedInv /\ Tick => Placed'
<1>. SUFFICES ASSUME PlacedInv, Tick PROVE Placed'
  OBVIOUS
<1>. USE DEF PlacedInv, TokenInv
<1>1. ASSUME NEW k \in Proc, dibuf'[k] # NoFlit
      PROVE  /\ dibuf'[k][2].src_core = k
             /\ <<dibuf'[k][1], dibuf'[k][2].dst_slot>> = Dest(k)'
             /\ dibuf'[k][2].word = areg'[k]
  <2>1. CASE dibuf[k] = NoFlit
    <3>1. dibuf'[k] = DataIn[k]
      BY <2>1, DataMoves
    <3>2. st[k] = "OUT_SEND"
      BY <1>1, <3>1 DEF DataIn, L!DataOut
    <3>3. dibuf'[k] = <<Dest(k)[1],
                        [dst_slot |-> Dest(k)[2], src_core |-> k, word |-> areg[k]]>>
      BY <3>1, <3>2 DEF DataIn, L!DataOut, Dest
    <3>4. Dest(k)' = Dest(k) /\ areg'[k] = areg[k]
      BY <3>2, WriterStays
    <3>. QED  BY <3>3, <3>4, DestFacts
  <2>2. CASE dibuf[k] # NoFlit
    <3>1. dibuf'[k] = dibuf[k]
      BY <1>1, <2>2, DataMoves
    <3>2. InDibuf(k, k)
      BY <2>2 DEF Placed, InDibufPlaced, InDibuf
    <3>3. Dest(k)' = Dest(k) /\ areg'[k] = areg[k]
      BY <3>2, WriterStays
    <3>. QED  BY <2>2, <3>1, <3>3 DEF Placed, InDibufPlaced
  <2>. QED  BY <2>1, <2>2
<1>2. ASSUME NEW w \in Proc, NEW j \in Proc, InDobuf(w, j)'
      PROVE  <<j, dobuf'[j].dst_slot>> = Dest(w)' /\ dobuf'[j].word = areg'[w]
  <2>1. CASE \E i \in Proc : DataTaken(i) /\ dibuf[i][1] = j
    <3>1. PICK i \in Proc : DataTaken(i) /\ dibuf[i][1] = j /\ dobuf'[j] = dibuf[i][2]
      BY <2>1, DataMoves
    <3>2. dibuf[i] # NoFlit /\ dibuf[i][2].src_core = w
      BY <1>2, <3>1, DataMoves DEF InDobuf
    <3>3. /\ i = w /\ InDibuf(w, w)
          /\ <<dibuf[i][1], dibuf[i][2].dst_slot>> = Dest(w)
          /\ dibuf[i][2].word = areg[w]
      BY <3>2 DEF Placed, InDibufPlaced, InDibuf
    <3>4. Dest(w)' = Dest(w) /\ areg'[w] = areg[w]
      BY <3>3, WriterStays
    <3>. QED  BY <3>1, <3>3, <3>4
  <2>2. CASE \A i \in Proc : ~(DataTaken(i) /\ dibuf[i][1] = j)
    <3>1. dobuf'[j] = dobuf[j] /\ InDobuf(w, j)
      BY <1>2, <2>2, DataMoves DEF InDobuf
    <3>2. Dest(w)' = Dest(w) /\ areg'[w] = areg[w]
      BY <3>1, WriterStays
    <3>. QED  BY <3>1, <3>2 DEF Placed, InDobufPlaced
  <2>. QED  BY <2>1, <2>2
<1>3. ASSUME NEW w \in Proc, NEW k \in Proc, NEW s \in Slot, InRx(w, k, s)'
      PROVE  <<k, s>> = Dest(w)' /\ rx'[k][s].word = areg'[w]
  <2>1. CASE L!DataReady(k, dobuf[k]) /\ dobuf[k].dst_slot = s
    <3>1. /\ dobuf[k] # NoFlit
          /\ rx'[k][s] = [src |-> dobuf[k].src_core, word |-> dobuf[k].word]
      BY <2>1, LinkMoves DEF L!DataReady
    <3>2. InDobuf(w, k) /\ rx'[k][s].word = dobuf[k].word
      BY <1>3, <3>1 DEF InDobuf, InRx
    <3>3. Dest(w)' = Dest(w) /\ areg'[w] = areg[w]
      BY <3>2, WriterStays
    <3>. QED  BY <2>1, <3>2, <3>3 DEF Placed, InDobufPlaced
  <2>2. CASE ~(L!DataReady(k, dobuf[k]) /\ dobuf[k].dst_slot = s)
    <3>1. rx'[k][s] = rx[k][s] /\ InRx(w, k, s)
      BY <1>3, <2>2, LinkMoves DEF InRx
    <3>2. Dest(w)' = Dest(w) /\ areg'[w] = areg[w]
      BY <3>1, WriterStays
    <3>. QED  BY <3>1, <3>2 DEF Placed, InRxPlaced
  <2>. QED  BY <2>1, <2>2
<1>. QED  BY <1>1, <1>2, <1>3 DEF Placed, InDibufPlaced, InDobufPlaced, InRxPlaced

\* Every word is on its writer's way, in every state.
LEMMA PlacedInvCorrect == Spec => []PlacedInv
<1>1. Init => Placed
  BY Names, DataRouter DEF Init, L!LinkInit, D!RouterInit,
     Placed, InDibufPlaced, InDobufPlaced, InRxPlaced, InDobuf, InRx
<1>2. PlacedInv /\ TokenInv' /\ [Tick]_vars => PlacedInv'
  <2>. SUFFICES ASSUME PlacedInv, TokenInv', [Tick]_vars PROVE Placed'
    BY DEF PlacedInv
  <2>1. CASE Tick
    BY <2>1, PlacedNext
  <2>2. CASE UNCHANGED vars
    <3>1. /\ prog' = prog /\ pc' = pc /\ areg' = areg /\ rx' = rx
          /\ dibuf' = dibuf /\ dobuf' = dobuf
      BY <2>2 DEF vars, coreVars, netVars
    <3>2. \A w : Dest(w)' = Dest(w)
      BY <3>1 DEF Dest, Route, ChanSlot, Op, Fetches, At
    <3>. QED  BY <3>1, <3>2 DEF PlacedInv, Placed, InDibufPlaced, InDobufPlaced, InRxPlaced,
                               InDobuf, InRx
  <2>. QED  BY <2>1, <2>2
<1>. QED  BY <1>1, <1>2, TokenInvCorrect, PTL DEF Spec, PlacedInv

--------------------------------------------------------------------------------
(***************************************************************************)
(* A network whose programs use only the slots that are wired.             *)
(***************************************************************************)
\* The other end of a channel: the ends are each other's peers.
LEMMA PeerFacts ==
  ASSUME NEW e, Wired(e)
  PROVE  /\ e \in Endpoint /\ Peer(e) \in Endpoint
         /\ Wired(Peer(e)) /\ Peer(Peer(e)) = e
         /\ Peer(e) # e
<1>1. \A i \in DOMAIN Edges :
        /\ Edges[i].a \in Endpoint /\ Edges[i].b \in Endpoint
        /\ Edges[i].a # Edges[i].b
  <2>1. \A i \in DOMAIN Edges : Edges[i] \in Edge
    BY EdgesAssumption DEF EdgesAssumption
  <2>. QED  BY <2>1, EdgesAssumption DEF EdgesAssumption, WellWired, Edge
<1>. DEFINE c == ChanOf(e)
<1>2. c \in DOMAIN Edges /\ e \in {Edges[c].a, Edges[c].b}
  <2>1. \E i \in DOMAIN Edges : e \in {Edges[i].a, Edges[i].b}
    BY DEF Wired, EdgesAt
  <2>. QED  BY <2>1 DEF ChanOf
<1>3. Peer(e) = IF Edges[c].a = e THEN Edges[c].b ELSE Edges[c].a
  BY DEF Peer
<1>4. Peer(e) \in {Edges[c].a, Edges[c].b}
  BY <1>3
<1>5. Wired(Peer(e))
  BY <1>2, <1>4 DEF Wired, EdgesAt
<1>6. ChanOf(Peer(e)) = c
  <2>1. /\ ChanOf(Peer(e)) \in DOMAIN Edges
        /\ Peer(e) \in {Edges[ChanOf(Peer(e))].a, Edges[ChanOf(Peer(e))].b}
    BY <1>2, <1>4 DEF ChanOf
  <2>. QED  BY <1>2, <1>4, <2>1, EdgesAssumption DEF EdgesAssumption, WellWired
<1>7. Peer(Peer(e)) = IF Edges[c].a = Peer(e) THEN Edges[c].b ELSE Edges[c].a
  BY <1>6 DEF Peer
<1>. HIDE DEF c
<1>. QED  BY <1>1, <1>2, <1>3, <1>5, <1>7

\* The programs are the images.
LEMMA ProgramsAreImages == Spec => [](prog \in Images)
<1>1. Init => prog \in Images
  BY DEF Init
<1>2. prog \in Images /\ [Tick]_vars => (prog \in Images)'
  BY DEF Tick, vars
<1>. QED  BY <1>1, <1>2, PTL DEF Spec

\* The end of a channel a core is at, where every operation is at a wired slot.
LEMMA EndFacts ==
  ASSUME OnlyWired, CoreInv, prog \in Images, NEW k \in Proc, Op(k) # "none"
  PROVE  /\ Wired(<<k, At(k).arg>>) /\ ChanSlot(k) = At(k).arg
         /\ Dest(k) = Peer(<<k, At(k).arg>>)
<1>1. Fetches(k) /\ At(k).op \in {"IN", "OUT"}
  BY InstructionFacts DEF CoreInv
<1>2. Wired(<<k, At(k).arg>>)
  BY <1>1 DEF OnlyWired, At, Fetches
<1>3. <<k, At(k).arg>> \in Endpoint
  BY <1>2, PeerFacts
<1>4. ChanSlot(k) = At(k).arg
  <2>. DEFINE x == At(k).arg
  <2>1. x \in 0 .. NumLinks - 1 /\ NumLinks \in Nat
    BY <1>3, SizeAssumption DEF SizeAssumption, Endpoint, Slot
  <2>. HIDE DEF x
  <2>2. x % NumLinks = x
    BY <2>1
  <2>. QED  BY <2>2 DEF ChanSlot, x
<1>. QED  BY <1>2, <1>3, <1>4, RouteFacts DEF Dest

\* A writer whose word is in the network is at an OUT, and has nothing else there.
LEMMA WriterFacts ==
  ASSUME TokenInv, NEW w \in Proc, NEW t, t \in Tokens(w)
  PROVE  Op(w) = "OUT" /\ st[w] = "OUT_WAIT" /\ Tokens(w) = {t}
BY DEF TokenInv, OneToken, Tokens

\* Two words for one buffer would be of one writer, which has one at a time.
LEMMA FreeFacts == OnlyWired /\ PlacedInv /\ prog \in Images => ReceiverIsFree
<1>. SUFFICES ASSUME OnlyWired, PlacedInv, prog \in Images,
                     NEW k \in Proc, dobuf[k] # NoFlit,
                     rx[k][dobuf[k].dst_slot] # NoFlit
              PROVE  FALSE
  BY DEF ReceiverIsFree, L!DataReady
<1>. USE DEF PlacedInv, TokenInv
<1>. DEFINE s == dobuf[k].dst_slot
            w == dobuf[k].src_core
            v == rx[k][s].src
<1>1. dobuf[k] \in L!DataFlit
  BY Names, DataRouter DEF CoreInv, TypeOK, D!RouterTypeOK
<1>2. s \in Slot /\ w \in Proc
  BY <1>1, Names DEF L!DataFlit
<1>3. v \in Proc
  BY <1>2, Names DEF CoreInv, TypeOK, L!LinkTypeOK, L!Received
<1>4. InDobuf(w, k) /\ InRx(v, k, s)
  BY DEF InDobuf, InRx
<1>5. Dest(w) = <<k, s>> /\ Dest(v) = <<k, s>>
  BY <1>2, <1>3, <1>4 DEF Placed, InDobufPlaced, InRxPlaced
<1>. HIDE DEF s, w, v
<1>6. <<"dobuf", k>> \in Tokens(w) /\ <<"rx", <<k, s>>>> \in Tokens(v)
  BY <1>2, <1>4 DEF Tokens, DataOf, InDobuf, InRx, Endpoint
<1>7. /\ Op(w) = "OUT" /\ Tokens(w) = {<<"dobuf", k>>}
      /\ Op(v) = "OUT" /\ Tokens(v) = {<<"rx", <<k, s>>>>}
  BY <1>2, <1>3, <1>6, WriterFacts
<1>8. w # v
  <2>1. <<"dobuf", k>> # <<"rx", <<k, s>>>>
    OBVIOUS
  <2>. QED  BY <1>7, <2>1
<1>9. /\ Wired(<<w, At(w).arg>>) /\ Peer(<<w, At(w).arg>>) = <<k, s>>
      /\ Wired(<<v, At(v).arg>>) /\ Peer(<<v, At(v).arg>>) = <<k, s>>
  BY <1>2, <1>3, <1>5, <1>7, EndFacts
<1>10. <<w, At(w).arg>> = <<v, At(v).arg>>
  BY <1>9, PeerFacts
<1>. QED  BY <1>8, <1>10

\* A word in flight always finds the buffer it is for empty: the programs use only
\* wired slots, so a slot has one writer, and that writer waits for the ACK.
THEOREM ReceiverCorrect ==
  ASSUME OnlyWired
  PROVE  Spec => []ReceiverIsFree
<1>. QED  BY PlacedInvCorrect, ProgramsAreImages, FreeFacts, PTL

================================================================================
