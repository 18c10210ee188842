----------------------------- MODULE RouterEnvProofs -----------------------------
(***************************************************************************)
(* Proofs about RouterEnv: a router of any number of ports, in any         *)
(* environment, loses, repeats and reorders nothing, and makes nobody wait *)
(* for longer than the other inputs take.                                  *)
(***************************************************************************)
EXTENDS RouterEnv, RouterFacts, SequenceTheorems

\* What an edge presents to the inputs, and who is drained.
Drained(drained) == [j \in Port |-> j \in drained]

\* What an injector offers carries the injector's name.
LEMMA OffersFacts ==
  ASSUME NEW inPacket \in Inputs, NEW i \in Port, inPacket[i] # NoFlit
  PROVE  inPacket[i] \in Packet /\ inPacket[i][2].src = i
<1>1. inPacket[i] \in Offers(i)
  BY DEF Inputs
<1>2. PICK j \in Dest, t \in Tag : i \in Source /\ inPacket[i] = <<j, [src |-> i, tag |-> t]>>
  BY <1>1 DEF Offers
<1>3. j \in Port /\ [src |-> i, tag |-> t] \in Flit
  BY EnvAssumption DEF EnvAssumption
<1>. QED  BY <1>2, <1>3 DEF Packet

--------------------------------------------------------------------------------
(***************************************************************************)
(* Type correctness.                                                       *)
(***************************************************************************)
\* Buffers hold packets, outputs flits, and pointers point at inputs, whatever the
\* environment offers and drains (the registers of router.sv).
THEOREM RouterTypeCorrect == Spec => []RouterTypeOK
<1>1. Init => RouterTypeOK
  BY RouterTypeInit DEF Init
<1>2. RouterTypeOK /\ [Next]_vars => RouterTypeOK'
  <2>1. ASSUME RouterTypeOK, NEW inPacket \in Inputs, NEW drained \in SUBSET Dest,
               Clock(inPacket, Drained(drained))
        PROVE  RouterTypeOK'
    <3>1. \A i \in Port : inPacket[i] \in Packet \cup {NoFlit}
      BY OffersFacts
    <3>. QED  BY <2>1, <3>1, RouterTypeClock DEF Clock
  <2>2. RouterTypeOK /\ UNCHANGED vars => RouterTypeOK'
    BY DEF RouterTypeOK, vars, routerVars
  <2>. QED  BY <2>1, <2>2 DEF Next, Drained
<1>. QED  BY <1>1, <1>2, PTL DEF Spec

--------------------------------------------------------------------------------
(***************************************************************************)
(* Nothing is lost.                                                        *)
(***************************************************************************)
\* A buffered flit bears the port it was injected at.
Marked == \A i \in Port : ibuf[i] # NoFlit => ibuf[i][2].src = i

LossInv == Marked /\ NoFlitLoss

\* Two flits in a row, of which the first goes.
LEMMA PairFacts ==
  ASSUME NEW f, NEW g
  PROVE  <<f>> \o <<g>> = <<f, g>> /\ Tail(<<f, g>>) = <<g>> /\ <<f, g>> # <<>>
<1>. DEFINE S == {f, g}
<1>. f \in S /\ g \in S
  OBVIOUS
<1>. HIDE DEF S
<1>1. <<f>> \in Seq(S) /\ <<g>> \in Seq(S) /\ <<f, g>> \in Seq(S)
  OBVIOUS
<1>2. /\ <<f>> \o <<g>> \in Seq(S)
      /\ Len(<<f>> \o <<g>>) = 2
      /\ \A i \in 1 .. 2 : (<<f>> \o <<g>>)[i] = IF i =< 1 THEN <<f>>[i] ELSE <<g>>[i - 1]
  BY <1>1, ConcatProperties
<1>3. <<f>> \o <<g>> = <<f, g>>
  <2>1. \A i \in 1 .. 2 : (<<f>> \o <<g>>)[i] = <<f, g>>[i]
    BY <1>2
  <2>. QED  BY <1>1, <1>2, <2>1, SeqEqual
<1>. QED  BY <1>3

\* A packet keeps the mark of its injector on the way through the router.
LEMMA MarkedNext ==
  ASSUME RouterTypeOK, Marked, NEW inPacket \in Inputs, NEW outReady,
         RouterClock(inPacket, outReady)
  PROVE  Marked'
<1>. SUFFICES ASSUME NEW i \in Port, ibuf'[i] # NoFlit PROVE ibuf'[i][2].src = i
  BY DEF Marked
<1>1. \/ ibuf[i] = NoFlit /\ ibuf'[i] = inPacket[i]
      \/ ibuf[i] # NoFlit /\ ibuf'[i] = ibuf[i]
  BY ClockFacts
<1>. QED  BY <1>1, OffersFacts DEF Marked

\* A clock edge, as the pair of input i and output j sees it.
LEMMA LossNext ==
  ASSUME RouterTypeOK, LossInv, NEW inPacket \in Inputs, NEW outReady,
         Clock(inPacket, outReady)
  PROVE  LossInv'
<1>0. RouterClock(inPacket, outReady) /\ RouterTypeOK /\ Marked
  BY DEF Clock, LossInv
<1>1. Marked'
  BY <1>0, MarkedNext
<1>2. ASSUME NEW i \in Port, NEW j \in Port PROVE (pending[i][j] = Held(i, j))'
  <2>. DEFINE Out == obuf[j] # NoFlit /\ obuf[j].src = i
              In == ibuf[i] # NoFlit /\ ibuf[i][1] = j
              Moves == Fills(j, outReady) /\ Grant(j) = i
              Comes == ibuf[i] = NoFlit /\ inPacket[i] # NoFlit /\ inPacket[i][1] = j
              Goes == Delivered(i, j, outReady)
  <2>1. Goes <=> Out /\ outReady[j]
    BY DEF Delivered
  <2>2. Fills(j, outReady) /\ Out => Goes
    BY <2>1 DEF Fills
  <2>3. Comes => ~In /\ ~Moves
    BY FillsFacts
  <2>4. Moves => In /\ Out' /\ obuf'[j] = ibuf[i][2] /\ ~In' /\ (Out => Goes)
    <3>. SUFFICES ASSUME Moves PROVE In /\ Out' /\ obuf'[j] = ibuf[i][2] /\ ~In' /\ (Out => Goes)
      OBVIOUS
    <3>1. In /\ ibuf[i][2] \in Flit /\ Granted(i, outReady)
      BY FillsFacts
    <3>2. obuf'[j] = ibuf[i][2] /\ ibuf'[i] = NoFlit
      BY <1>0, <3>1, ClockFacts
    <3>3. obuf'[j] # NoFlit /\ obuf'[j].src = i
      BY <1>0, <3>1, <3>2, FlitAssumption DEF FlitAssumption, Marked
    <3>. QED  BY <2>2, <3>1, <3>2, <3>3
  <2>5. ~Moves => /\ Out' <=> Out /\ ~Goes
                  /\ Out' => obuf'[j] = obuf[j]
    <3>1. CASE Fills(j, outReady)
      <4>1. ~Moves => ~Out'
        <5>1. Grant(j) \in Port /\ ibuf[Grant(j)] # NoFlit /\ obuf'[j] = ibuf[Grant(j)][2]
          BY <1>0, <3>1, FillsFacts, ClockFacts
        <5>2. obuf'[j].src = Grant(j)
          BY <1>0, <5>1 DEF Marked
        <5>. QED  BY <3>1, <5>2
      <4>. QED  BY <2>2, <3>1, <4>1
    <3>2. CASE ~Fills(j, outReady)
      BY <1>0, <2>1, <3>2, ClockFacts
    <3>. QED  BY <3>1, <3>2
  <2>6. ~Moves => /\ In' <=> In \/ Comes
                  /\ In => ibuf'[i] = ibuf[i]
                  /\ Comes => ibuf'[i] = inPacket[i]
    <3>1. In /\ ~Moves => ~Granted(i, outReady)
      BY GrantedFacts
    <3>2. CASE ibuf[i] = NoFlit
      BY <1>0, <3>2, ClockFacts
    <3>3. CASE ibuf[i] # NoFlit
      BY <1>0, <3>1, <3>3, ClockFacts
    <3>. QED  BY <3>2, <3>3
  <2>7. pending'[i][j] = (IF Goes /\ Held(i, j) # <<>> THEN Tail(Held(i, j)) ELSE Held(i, j))
                         \o (IF Comes THEN <<inPacket[i][2]>> ELSE <<>>)
    BY <1>0 DEF Clock, Accepted, InReady, LossInv, NoFlitLoss
  <2>. DEFINE o == obuf[j]  p == ibuf[i][2]
  <2>8. Held(i, j) = (IF Out THEN <<o>> ELSE <<>>) \o (IF In THEN <<p>> ELSE <<>>)
    BY DEF Held
  <2>9. Held(i, j)' = (IF Out' THEN <<o'>> ELSE <<>>) \o (IF In' THEN <<p'>> ELSE <<>>)
    BY DEF Held
  <2>. HIDE DEF Out, In, Moves, Comes, Goes
  <2>10. Goes => Out
    BY <2>1
  <2>11. CASE Moves
    BY <2>11, <2>3, <2>4, <2>7, <2>8, <2>9, <2>10, PairFacts
  <2>12. CASE ~Moves
    <3>1. In => p' = p
      BY <2>6, <2>12
    <3>2. Comes => p' = inPacket[i][2]
      BY <2>6, <2>12
    <3>3. Out' => o' = o
      BY <2>5, <2>12
    <3>. HIDE DEF o, p
    <3>4. CASE In
      <4>1. In' /\ ~Comes /\ p' = p
        BY <2>3, <2>6, <2>12, <3>1, <3>4
      <4>2. Held(i, j)' = (IF Out' THEN <<o>> ELSE <<>>) \o <<p>>
        BY <2>9, <3>3, <4>1
      <4>3. CASE Goes
        BY <2>5, <2>7, <2>8, <2>10, <2>12, <3>4, <4>1, <4>2, <4>3, PairFacts
      <4>4. CASE ~Goes
        BY <2>5, <2>7, <2>8, <2>12, <3>4, <4>1, <4>2, <4>4, PairFacts
      <4>. QED  BY <4>3, <4>4
    <3>5. CASE ~In
      <4>1. Held(i, j) = IF Out THEN <<o>> ELSE <<>>
        BY <2>8, <3>5
      <4>2. Held(i, j)' = (IF Out' THEN <<o>> ELSE <<>>) \o (IF Comes THEN <<inPacket[i][2]>> ELSE <<>>)
        BY <2>6, <2>9, <2>12, <3>2, <3>3, <3>5
      <4>3. (IF Goes /\ Held(i, j) # <<>> THEN Tail(Held(i, j)) ELSE Held(i, j))
              = IF Out' THEN <<o>> ELSE <<>>
        BY <2>5, <2>10, <2>12, <4>1
      <4>4. pending'[i][j] = (IF Out' THEN <<o>> ELSE <<>>)
                             \o (IF Comes THEN <<inPacket[i][2]>> ELSE <<>>)
        BY <2>7, <4>3, Zenon
      <4>. QED  BY <4>2, <4>4
    <3>. QED  BY <3>4, <3>5
  <2>. QED  BY <2>11, <2>12
<1>. QED  BY <1>1, <1>2 DEF LossInv, NoFlitLoss

\* The router holds exactly what has been accepted and not been delivered, in order:
\* a stalled output keeps its flit, and one drained and refilled at the same edge
\* neither repeats nor skips one.
THEOREM NothingIsLost == Spec => []NoFlitLoss
<1>1. Init => LossInv
  BY DEF Init, RouterInit, LossInv, Marked, NoFlitLoss, Held
<1>2. RouterTypeOK /\ LossInv /\ [Next]_vars => LossInv'
  <2>1. ASSUME RouterTypeOK, LossInv, NEW inPacket \in Inputs, NEW drained \in SUBSET Dest,
               Clock(inPacket, Drained(drained))
        PROVE  LossInv'
    BY <2>1, LossNext
  <2>2. LossInv /\ UNCHANGED vars => LossInv'
    BY DEF LossInv, Marked, NoFlitLoss, Held, vars, routerVars
  <2>. QED  BY <2>1, <2>2 DEF Next, Drained
<1>3. LossInv => NoFlitLoss
  BY DEF LossInv
<1>. QED  BY <1>1, <1>2, <1>3, RouterTypeCorrect, PTL DEF Spec

--------------------------------------------------------------------------------
(***************************************************************************)
(* Nobody waits for long.                                                  *)
(***************************************************************************)
\* How many inputs the output looks at before the packet of input i.
Ahead(i) == IF InReady(i) THEN 0 ELSE Distance(i, ibuf[i][1])

\* What has passed a packet, and what may pass it still, are other inputs.
WaitInv ==
  \A i \in Port :
    /\ passed[i] \in Nat
    /\ InReady(i) => passed[i] = 0
    /\ passed[i] + Ahead(i) + 1 =< NumPorts

\* An output that takes another's packet has come nearer to that of input i.
LEMMA ComesNearer ==
  ASSUME RouterTypeOK, NEW STATE outReady, NEW STATE inPacket,
         RouterClock(inPacket, outReady), RouterTypeOK',
         NEW j \in Port, Fills(j, outReady), NEW i \in Requests(j), i # Grant(j)
  PROVE  Distance(i, j)' < Distance(i, j)
<1>1. i \in Port /\ Distance(Grant(j), j) =< Distance(i, j)
  BY GrantFacts DEF Fills, Requests
<1>2. Port \subseteq Nat
  BY PortAssumption DEF PortAssumption, Port
<1>3. /\ Distance(Grant(j), j) \in Nat /\ Distance(i, j) \in Nat
      /\ Distance(i, j) # Distance(Grant(j), j)
      /\ Distance(i, j)' = IF Distance(i, j) > Distance(Grant(j), j)
                           THEN Distance(i, j) - Distance(Grant(j), j) - 1
                           ELSE Distance(i, j) - Distance(Grant(j), j) - 1 + NumPorts
  BY <1>1, <1>2, DistanceMoves
<1>. QED  BY <1>1, <1>3

\* Nobody has more than all others ahead of them,
LEMMA AheadFacts ==
  ASSUME RouterTypeOK, NEW i \in Port
  PROVE  Ahead(i) \in 0 .. NumPorts - 1
<1>1. CASE InReady(i)
  BY <1>1, PortAssumption DEF Ahead, PortAssumption
<1>2. CASE ~InReady(i)
  <2>1. ibuf[i][1] \in Port
    BY <1>2 DEF InReady, RouterTypeOK, Packet
  <2>2. Distance(i, ibuf[i][1]) \in Port
    BY <2>1, DistanceFacts
  <2>. QED  BY <1>2, <2>2 DEF Ahead, Port
<1>. QED  BY <1>1, <1>2

\* nor in the next state.
LEMMA AheadNext ==
  ASSUME RouterTypeOK', NEW i \in Port
  PROVE  Ahead(i)' \in 0 .. NumPorts - 1
<1>1. CASE InReady(i)'
  BY <1>1, PortAssumption DEF Ahead, PortAssumption
<1>2. CASE ~InReady(i)'
  <2>1. ibuf'[i][1] \in Port /\ rr'[ibuf'[i][1]] \in Port
    BY <1>2 DEF InReady, RouterTypeOK, Packet
  <2>2. Distance(i, ibuf[i][1])' \in Port
    BY <2>1, RoundFacts DEF Distance
  <2>. QED  BY <1>2, <2>2 DEF Ahead, Port
<1>. QED  BY <1>1, <1>2

\* Every grant to another brings the pointer closer to whoever waits.
LEMMA WaitNext ==
  ASSUME RouterTypeOK, RouterTypeOK', WaitInv, NEW inPacket, NEW outReady,
         Clock(inPacket, outReady)
  PROVE  WaitInv'
<1>. SUFFICES ASSUME NEW i \in Port
              PROVE  (/\ passed[i] \in Nat
                      /\ InReady(i) => passed[i] = 0
                      /\ passed[i] + Ahead(i) + 1 =< NumPorts)'
  BY DEF WaitInv
<1>0. /\ RouterClock(inPacket, outReady)
      /\ passed'[i] = NextPassed(i, outReady)
      /\ NumPorts \in Nat \ {0}
      /\ passed[i] \in Nat /\ passed[i] + Ahead(i) + 1 =< NumPorts
  BY PortAssumption DEF Clock, WaitInv, PortAssumption
<1>3. Ahead(i) \in 0 .. NumPorts - 1
  BY AheadFacts
<1>4. Ahead(i)' \in 0 .. NumPorts - 1
  BY AheadNext
<1>1. CASE InReady(i) \/ Granted(i, outReady)
  <2>1. passed'[i] = 0
    BY <1>0, <1>1 DEF NextPassed
  <2>. QED  BY <1>0, <1>4, <2>1
<1>2. CASE ~InReady(i) /\ ~Granted(i, outReady)
  <2>. DEFINE j == ibuf[i][1]
  <2>1. ibuf[i] # NoFlit /\ ibuf'[i] = ibuf[i] /\ j \in Port
    BY <1>0, <1>2, ClockFacts DEF InReady, RouterTypeOK, Packet
  <2>2. Ahead(i) = Distance(i, j) /\ Ahead(i)' = Distance(i, j)'
    BY <2>1 DEF Ahead, InReady
  <2>3. CASE Fills(j, outReady)
    <3>1. i \in Requests(j) /\ i # Grant(j)
      BY <1>2, <2>1, <2>3 DEF Requests, Granted
    <3>2. Distance(i, j)' < Distance(i, j)
      BY <1>0, <2>1, <2>3, <3>1, ComesNearer
    <3>3. passed'[i] = IF passed[i] < NumPorts THEN passed[i] + 1 ELSE passed[i]
      BY <1>0, <1>2, <2>3 DEF NextPassed
    <3>4. ~InReady(i)'
      BY <2>1 DEF InReady
    <3>5. Ahead(i)' < Ahead(i)
      BY <2>2, <3>2
    <3>. QED  BY <1>0, <1>3, <1>4, <3>3, <3>4, <3>5
  <2>4. CASE ~Fills(j, outReady)
    <3>1. rr'[j] = rr[j]
      BY <1>0, <2>1, <2>4 DEF RouterClock
    <3>2. Distance(i, j)' = Distance(i, j)
      BY <2>1, <3>1 DEF Distance
    <3>. QED  BY <1>0, <1>2, <2>1, <2>2, <2>4, <3>2 DEF NextPassed, InReady
  <2>. QED  BY <2>3, <2>4
<1>. QED  BY <1>1, <1>2

\* A packet is passed by at most one packet of each of the other inputs, however
\* often the output stalls and however many contend for it: every grant to another
\* moves the priority pointer of the output towards it.
THEOREM WaitIsBounded == Spec => []BoundedWait
<1>1. Init => WaitInv
  BY PortAssumption DEF PortAssumption, Init, RouterInit, WaitInv, Ahead, InReady
<1>2. RouterTypeOK /\ RouterTypeOK' /\ WaitInv /\ [Next]_vars => WaitInv'
  <2>1. ASSUME RouterTypeOK, RouterTypeOK', WaitInv, NEW inPacket \in Inputs,
               NEW drained \in SUBSET Dest, Clock(inPacket, Drained(drained))
        PROVE  WaitInv'
    BY <2>1, WaitNext
  <2>2. WaitInv /\ UNCHANGED vars => WaitInv'
    BY DEF WaitInv, Ahead, InReady, Distance, vars, routerVars
  <2>. QED  BY <2>1, <2>2 DEF Next, Drained
<1>3. RouterTypeOK /\ WaitInv => BoundedWait
  <2>1. ASSUME RouterTypeOK, WaitInv, NEW i \in Port PROVE passed[i] + 1 =< NumPorts
    <3>1. Ahead(i) \in 0 .. NumPorts - 1
      BY <2>1, AheadFacts
    <3>. QED  BY <2>1, <3>1, PortAssumption DEF WaitInv, PortAssumption
  <2>. QED  BY <2>1 DEF BoundedWait
<1>. QED  BY <1>1, <1>2, <1>3, RouterTypeCorrect, PTL DEF Spec
================================================================================
