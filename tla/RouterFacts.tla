------------------------------ MODULE RouterFacts ------------------------------
(***************************************************************************)
(* What a clock edge does to a router (Router), for any number of ports,   *)
(* anything it is offered and any output that is drained.  The router is   *)
(* proved right on its own in RouterEnvProofs; HexRtlProofs has two.       *)
(***************************************************************************)
EXTENDS Router, WellFoundedInduction, TLAPS

--------------------------------------------------------------------------------
(***************************************************************************)
(* The arbiter.                                                            *)
(***************************************************************************)
\* What a value below twice the number of ports is modulo that number.
LEMMA ModFacts ==
  ASSUME NEW x \in 0 .. 2 * NumPorts - 1
  PROVE  x % NumPorts = IF x < NumPorts THEN x ELSE x - NumPorts
<1>1. NumPorts \in Nat /\ NumPorts > 0
  BY PortAssumption DEF PortAssumption
<1>. QED  BY <1>1

\* The way from port r to port i, going up and round.
LEMMA RoundFacts ==
  ASSUME NEW i \in Port, NEW r \in Port
  PROVE  /\ (i - r + NumPorts) % NumPorts \in Port
         /\ (i - r + NumPorts) % NumPorts = IF i >= r THEN i - r ELSE i - r + NumPorts
<1>1. /\ NumPorts \in Nat /\ NumPorts > 0
      /\ i \in 0 .. NumPorts - 1 /\ r \in 0 .. NumPorts - 1
  BY PortAssumption DEF PortAssumption, Port
<1>. DEFINE x == i - r + NumPorts
<1>2. x \in 0 .. 2 * NumPorts - 1
  BY <1>1
<1>3. x % NumPorts = IF x < NumPorts THEN x ELSE x - NumPorts
  <2>. HIDE DEF x
  <2>. QED  BY <1>2, ModFacts
<1>. QED  BY <1>1, <1>3 DEF Port

\* How far a request is from the pointer, without the modulus.
LEMMA DistanceFacts ==
  ASSUME RouterTypeOK, NEW i \in Port, NEW j \in Port
  PROVE  /\ Distance(i, j) \in Port
         /\ Distance(i, j) = IF i >= rr[j] THEN i - rr[j] ELSE i - rr[j] + NumPorts
<1>1. rr[j] \in Port
  BY DEF RouterTypeOK
<1>. QED  BY <1>1, RoundFacts DEF Distance

\* An output with requests grants one of them, and none nearer to its pointer.
LEMMA GrantFacts ==
  ASSUME RouterTypeOK, NEW j \in Port, Requests(j) # {}
  PROVE  /\ Grant(j) \in Requests(j)
         /\ \A k \in Requests(j) : Distance(Grant(j), j) =< Distance(k, j)
<1>. DEFINE Distances == {Distance(k, j) : k \in Requests(j)}
<1>1. Distances \subseteq Nat /\ Distances # {}
  <2>1. \A k \in Requests(j) : Distance(k, j) \in Port
    BY DistanceFacts DEF Requests
  <2>2. Port \subseteq Nat
    BY PortAssumption DEF PortAssumption, Port
  <2>. QED  BY <2>1, <2>2
<1>2. PICK d \in Distances : \A e \in Distances : ~(<<e, d>> \in OpToRel(<, Nat))
  BY <1>1, WFMin, NatLessThanWellFounded, Zenon
<1>3. \A e \in Distances : ~(e < d)
  BY <1>1, <1>2, Zenon DEF OpToRel
<1>4. PICK i \in Requests(j) : d = Distance(i, j)
  OBVIOUS
<1>5. \A k \in Requests(j) : Distance(i, j) =< Distance(k, j)
  BY <1>1, <1>3, <1>4
<1>. QED  BY <1>4, <1>5, Zenon DEF Grant

\* What an output takes is a packet for it, of an input of its own.
LEMMA FillsFacts ==
  ASSUME RouterTypeOK, NEW j \in Port, NEW STATE outReady, Fills(j, outReady)
  PROVE  /\ Grant(j) \in Port
         /\ ibuf[Grant(j)] \in Packet
         /\ ibuf[Grant(j)] # NoFlit
         /\ ibuf[Grant(j)][1] = j
         /\ ibuf[Grant(j)][2] \in Flit
         /\ Granted(Grant(j), outReady)
<1>1. Requests(j) # {}
  BY DEF Fills
<1>2. Grant(j) \in Port /\ ibuf[Grant(j)] # NoFlit /\ ibuf[Grant(j)][1] = j
  BY <1>1, GrantFacts DEF Requests
<1>3. ibuf[Grant(j)] \in Packet
  BY <1>2 DEF RouterTypeOK
<1>. QED  BY <1>2, <1>3 DEF Granted, Packet

\* What an input gives up goes to the output it is for, and to no other.
LEMMA GrantedFacts ==
  ASSUME RouterTypeOK, NEW i \in Port, NEW STATE outReady, Granted(i, outReady)
  PROVE  /\ ibuf[i] # NoFlit
         /\ ibuf[i][1] \in Port
         /\ Fills(ibuf[i][1], outReady)
         /\ Grant(ibuf[i][1]) = i
BY FillsFacts DEF Granted

--------------------------------------------------------------------------------
(***************************************************************************)
(* The registers after a clock edge.                                       *)
(***************************************************************************)
LEMMA PriorityFacts ==
  ASSUME NEW i \in Port
  PROVE  /\ (i + 1) % NumPorts \in Port
         /\ (i + 1) % NumPorts = IF i + 1 = NumPorts THEN 0 ELSE i + 1
<1>1. NumPorts \in Nat /\ NumPorts > 0 /\ i \in 0 .. NumPorts - 1
  BY PortAssumption DEF PortAssumption, Port
<1>2. i + 1 \in 0 .. 2 * NumPorts - 1
  BY <1>1
<1>3. (i + 1) % NumPorts = IF i + 1 < NumPorts THEN i + 1 ELSE i + 1 - NumPorts
  <2>. DEFINE x == i + 1
  <2>1. x \in 0 .. 2 * NumPorts - 1
    BY <1>2
  <2>2. x % NumPorts = IF x < NumPorts THEN x ELSE x - NumPorts
    <3>. HIDE DEF x
    <3>. QED  BY <2>1, ModFacts
  <2>. QED  BY <1>1, <2>2
<1>. QED  BY <1>1, <1>3 DEF Port

\* A router just out of reset is well typed.
LEMMA RouterTypeInit == RouterInit => RouterTypeOK
BY PortAssumption DEF RouterInit, RouterTypeOK, PortAssumption, Port

\* A clock edge keeps the types, whatever is offered and drained.
LEMMA RouterTypeClock ==
  ASSUME RouterTypeOK, NEW STATE inPacket, NEW STATE outReady,
         \A i \in Port : inPacket[i] \in Packet \cup {NoFlit},
         RouterClock(inPacket, outReady)
  PROVE  RouterTypeOK'
<1>1. ibuf' \in [Port -> Packet \cup {NoFlit}]
  BY DEF RouterTypeOK, RouterClock
<1>2. obuf' \in [Port -> Flit \cup {NoFlit}]
  BY FillsFacts DEF RouterTypeOK, RouterClock
<1>3. ASSUME NEW j \in Port, Fills(j, outReady) PROVE NextPriority(j) \in Port
  BY <1>3, FillsFacts, PriorityFacts DEF NextPriority
<1>4. rr' \in [Port -> Port]
  BY <1>3 DEF RouterTypeOK, RouterClock
<1>. QED  BY <1>1, <1>2, <1>4 DEF RouterTypeOK

\* An input keeps its packet until the output it is for has taken it, and an output
\* its flit until it is drained.
LEMMA ClockFacts ==
  ASSUME RouterTypeOK, NEW STATE inPacket, NEW STATE outReady,
         RouterClock(inPacket, outReady)
  PROVE  /\ \A i \in Port : ibuf[i] = NoFlit => ibuf'[i] = inPacket[i]
         /\ \A i \in Port : ibuf[i] # NoFlit =>
              \/ ~Granted(i, outReady) /\ ibuf'[i] = ibuf[i]
              \/ /\ Granted(i, outReady) /\ ibuf'[i] = NoFlit
                 /\ obuf'[ibuf[i][1]] = ibuf[i][2]
         /\ \A j \in Port :
              \/ Fills(j, outReady) /\ obuf'[j] = ibuf[Grant(j)][2]
              \/ ~Fills(j, outReady) /\ outReady[j] /\ obuf'[j] = NoFlit
              \/ ~Fills(j, outReady) /\ ~outReady[j] /\ obuf'[j] = obuf[j]
<1>1. ASSUME NEW i \in Port, Granted(i, outReady)
      PROVE  obuf'[ibuf[i][1]] = ibuf[i][2]
  BY <1>1, GrantedFacts DEF RouterClock
<1>. QED  BY <1>1 DEF RouterClock, InReady

\* An output that takes a packet looks next past the input it came from: the inputs
\* behind that one come nearer, the others are now behind them.
LEMMA DistanceMoves ==
  ASSUME RouterTypeOK, NEW STATE outReady, NEW STATE inPacket,
         RouterClock(inPacket, outReady), RouterTypeOK',
         NEW j \in Port, Fills(j, outReady), NEW i \in Port
  PROVE  LET d == Distance(Grant(j), j) IN
         /\ d \in Port /\ Distance(i, j) \in Port
         /\ Distance(i, j) = d <=> i = Grant(j)
         /\ Distance(i, j)' = IF Distance(i, j) > d THEN Distance(i, j) - d - 1
                              ELSE Distance(i, j) - d - 1 + NumPorts
<1>. DEFINE k == Grant(j)
<1>1. k \in Port
  BY FillsFacts
<1>2. rr'[j] = (k + 1) % NumPorts
  BY DEF RouterClock, NextPriority
<1>. HIDE DEF k
<1>3. rr'[j] = IF k + 1 = NumPorts THEN 0 ELSE k + 1
  BY <1>1, <1>2, PriorityFacts
<1>4. /\ Distance(i, j) = IF i >= rr[j] THEN i - rr[j] ELSE i - rr[j] + NumPorts
      /\ Distance(k, j) = IF k >= rr[j] THEN k - rr[j] ELSE k - rr[j] + NumPorts
      /\ Distance(i, j) \in Port /\ Distance(k, j) \in Port
  BY <1>1, DistanceFacts
<1>5. Distance(i, j)' = IF i >= rr'[j] THEN i - rr'[j] ELSE i - rr'[j] + NumPorts
  BY <1>1, RoundFacts DEF Distance, RouterTypeOK
<1>6. /\ NumPorts \in Nat /\ i \in 0 .. NumPorts - 1 /\ k \in 0 .. NumPorts - 1
      /\ rr[j] \in 0 .. NumPorts - 1
  BY <1>1, PortAssumption DEF PortAssumption, Port, RouterTypeOK
<1>7. Distance(i, j) = Distance(k, j) <=> i = k
  BY <1>4, <1>6
<1>8. Distance(i, j)' = IF Distance(i, j) > Distance(k, j)
                        THEN Distance(i, j) - Distance(k, j) - 1
                        ELSE Distance(i, j) - Distance(k, j) - 1 + NumPorts
  BY <1>3, <1>4, <1>5, <1>6
<1>. QED  BY <1>4, <1>7, <1>8 DEF k
================================================================================
