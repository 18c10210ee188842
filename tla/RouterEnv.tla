-------------------------------- MODULE RouterEnv --------------------------------
(***************************************************************************)
(* The router on its own, in an environment that offers it any packets and *)
(* is ready for what it delivers whenever it likes.  A flit bears the port *)
(* it was injected at (a DATA flit does: src_core) and a tag.              *)
(***************************************************************************)
EXTENDS Router, Sequences

CONSTANTS
  Source, Dest,   \* the ports that inject, and those packets are sent to
  Tag

ASSUME EnvAssumption ==
  /\ Source \subseteq Port /\ Dest \subseteq Port
  /\ Flit = [src : Port, tag : Tag]

VARIABLES
  pending,  \* history: pending[i][j], the flits from i to j not yet delivered
  passed    \* history: passed[i], how many flits its output took before i's,
            \* counted up to NumPorts

vars == <<routerVars, pending, passed>>

Init ==
  /\ RouterInit
  /\ pending = [i \in Port |-> [j \in Port |-> <<>>]]
  /\ passed = [i \in Port |-> 0]

\* What port i may be offered in a cycle.
Offers(i) ==
  {NoFlit} \cup
  (IF i \in Source THEN {<<j, [src |-> i, tag |-> t]>> : j \in Dest, t \in Tag} ELSE {})

\* The flits from i to j that change hands at a clock edge: in, and out.
Accepted(i, j, inPacket) ==
  IF InReady(i) /\ inPacket[i] # NoFlit /\ inPacket[i][1] = j
  THEN <<inPacket[i][2]>> ELSE <<>>

Delivered(i, j, outReady) == outReady[j] /\ obuf[j] # NoFlit /\ obuf[j].src = i

NextPassed(i, outReady) ==
  IF InReady(i) \/ Granted(i, outReady) THEN 0
  ELSE IF Fills(ibuf[i][1], outReady) /\ passed[i] < NumPorts THEN passed[i] + 1
  ELSE passed[i]

Clock(inPacket, outReady) ==
  /\ RouterClock(inPacket, outReady)
  /\ pending' = [i \in Port |-> [j \in Port |->
       (IF Delivered(i, j, outReady) /\ pending[i][j] # <<>>
        THEN Tail(pending[i][j]) ELSE pending[i][j])
       \o Accepted(i, j, inPacket)]]
  /\ passed' = [i \in Port |-> NextPassed(i, outReady)]

Inputs == {f \in [Port -> UNION {Offers(i) : i \in Port}] : \A i \in Port : f[i] \in Offers(i)}

\* Whoever an output delivers to takes what is there, or lets it wait.
Next ==
  \E inPacket \in Inputs, drained \in SUBSET Dest :
    Clock(inPacket, [j \in Port |-> j \in drained])

Spec == Init /\ [][Next]_vars

--------------------------------------------------------------------------------
\* The flits from i to j the router holds, the first to come out first.
Held(i, j) ==
  (IF obuf[j] # NoFlit /\ obuf[j].src = i THEN <<obuf[j]>> ELSE <<>>)
  \o
  (IF ibuf[i] # NoFlit /\ ibuf[i][1] = j THEN <<ibuf[i][2]>> ELSE <<>>)

\* The router holds exactly the flits that have been accepted and not been
\* delivered, between the ports they are for, in the order they came in: a
\* stalled output loses none, and one that is drained and refilled in the
\* same cycle neither repeats nor skips one.
NoFlitLoss == \A i, j \in Port : pending[i][j] = Held(i, j)

\* However busy an output is, it takes at most NumPorts - 1 flits ahead of one
\* that waits for it, as many as there are other inputs.
BoundedWait == \A i \in Port : passed[i] + 1 =< NumPorts
================================================================================
