--------------------------------- MODULE HexRtl ---------------------------------
(***************************************************************************)
(* The hardware network (rtl/network_top.sv): the cores, each a processor  *)
(* and a link interface, core k at port k of a DATA and of an ACK router.  *)
(* Tick is one rising edge of the clock: every register of the network     *)
(* takes its next value at once, from the values they all had.             *)
(***************************************************************************)
EXTENDS HexPrograms

CONSTANTS
  Unrouted,  \* what a route table entry holds that was never written
  NoFlit, Ack

ASSUME UnroutedAssumption == Unrouted \in [Endpoint -> Endpoint]

VARIABLES
  prog, pc, areg,          \* the processors
  st, rx,                  \* the link interfaces
  dibuf, dobuf, drr,       \* the DATA router
  aibuf, aobuf, arr        \* the ACK router

coreVars == <<pc, areg, st, rx>>
netVars == <<dibuf, dobuf, drr, aibuf, aobuf, arr>>
vars == <<prog, coreVars, netVars>>

L == INSTANCE LinkInterface WITH NumCores <- NumProcs, Word <- Nat

D == INSTANCE Router WITH
       NumPorts <- NumProcs, Flit <- L!DataFlit,
       ibuf <- dibuf, obuf <- dobuf, rr <- drr

A == INSTANCE Router WITH
       NumPorts <- NumProcs, Flit <- {Ack},
       ibuf <- aibuf, obuf <- aobuf, rr <- arr

\* A low valid bit is told from every payload.
ASSUME NoFlitAssumption ==
  /\ NoFlit \notin L!DataFlit /\ NoFlit \notin D!Packet
  /\ NoFlit # Ack /\ NoFlit \notin A!Packet
  /\ NoFlit \notin L!Received

--------------------------------------------------------------------------------
\* The route tables, programmed for both directions of every edge at reset.
Route == [e \in Endpoint |-> IF Wired(e) THEN Peer(e) ELSE Unrouted[e]]

\* A core past the end of its program is in memory nobody wrote: it is taken
\* to do nothing.  Any other operation than these leaves the channels alone.
Fetches(k) == pc[k] \in DOMAIN prog[k]

At(k) == prog[k][pc[k]]

Op(k) == IF Fetches(k) /\ At(k).op \in {"IN", "OUT"} THEN At(k).op ELSE "none"

\* o_chan_slot: the low bits of breg.
ChanSlot(k) == IF Op(k) = "none" THEN 0 ELSE At(k).arg % NumLinks

\* The core's operation completes at this clock edge.
Done(k) == L!Done(k, aobuf[k], A!InReady(k))

Stall(k) == Op(k) # "none" /\ ~Done(k)

\* The instruction of core k completes at this clock edge.
Advances(k) == Fetches(k) /\ ~Stall(k)

Init ==
  /\ prog \in Images
  /\ pc = [k \in Proc |-> 0]
  /\ areg = [k \in Proc |-> 0]
  /\ L!LinkInit
  /\ D!RouterInit
  /\ A!RouterInit

ProcessorsClock ==
  /\ pc' = [k \in Proc |->
       IF Advances(k) THEN NextPc(At(k), pc[k], areg[k]) ELSE pc[k]]
  /\ areg' = [k \in Proc |->
       IF ~Advances(k) THEN areg[k]
       ELSE IF At(k).op = "IN" THEN rx[k][ChanSlot(k)].word
       ELSE NextAreg(At(k), areg[k])]

LinksClock ==
  /\ st' = [k \in Proc |->
       L!NextState(k, Op(k), ChanSlot(k), D!InReady(k), aobuf[k], A!InReady(k))]
  /\ rx' = [k \in Proc |-> [s \in Slot |->
       L!NextReceived(k, s, ChanSlot(k), dobuf[k], A!InReady(k))]]

RoutersClock ==
  /\ D!RouterClock([k \in Proc |-> L!DataOut(k, ChanSlot(k), areg[k], Route)],
                   [k \in Proc |-> L!DataReady(k, dobuf[k])])
  /\ A!RouterClock([k \in Proc |-> L!AckOut(k, ChanSlot(k))],
                   [k \in Proc |-> TRUE])

Tick ==
  /\ ProcessorsClock
  /\ LinksClock
  /\ RoutersClock
  /\ UNCHANGED prog

Spec == Init /\ [][Tick]_vars

\* The clock does not stop.
FairSpec == Spec /\ WF_vars(Tick)

--------------------------------------------------------------------------------
(***************************************************************************)
(* Properties.                                                             *)
(***************************************************************************)
TypeOK ==
  /\ DOMAIN prog = Proc /\ \A k \in Proc : IsProgram(prog[k])
  /\ pc \in [Proc -> Nat]
  /\ areg \in [Proc -> Nat]
  /\ L!LinkTypeOK
  /\ D!RouterTypeOK
  /\ A!RouterTypeOK

\* Where something core w has sent, and is not yet acknowledged, can be.
DataOf(w) ==
  ({"dibuf"} \X {k \in Proc : dibuf[k] # NoFlit /\ dibuf[k][2].src_core = w})
  \cup
  ({"dobuf"} \X {k \in Proc : dobuf[k] # NoFlit /\ dobuf[k].src_core = w})
  \cup
  ({"rx"} \X {e \in Endpoint : rx[e[1]][e[2]] # NoFlit /\ rx[e[1]][e[2]].src = w})

AcksFor(w) ==
  ({"aibuf"} \X {k \in Proc : aibuf[k] # NoFlit /\ aibuf[k][1] = w})
  \cup
  (IF aobuf[w] # NoFlit THEN {<<"aobuf", w>>} ELSE {})

\* A core that waits for an ACK is at an OUT and has one thing in the network, its
\* word or the ACK of it, and a core that does not wait has nothing there: an ACK,
\* which the link interface takes for its own whatever it is, reaches only the core
\* that waits for it.
OneToken ==
  \A w \in Proc :
    IF st[w] = "OUT_WAIT"
    THEN Op(w) = "OUT" /\ \E t \in DataOf(w) \cup AcksFor(w) : DataOf(w) \cup AcksFor(w) = {t}
    ELSE DataOf(w) \cup AcksFor(w) = {}

\* The slot buffer a delivered word is for is empty: a word is never held up
\* at its reader, behind another or in front of one.
ReceiverIsFree ==
  \A k \in Proc : dobuf[k] # NoFlit => L!DataReady(k, dobuf[k])

\* Every channel operation of every image is at a slot something is attached to:
\* the simulator rejects another, and the hardware sends it wherever the entry of
\* the route table nobody wrote says.
OnlyWired ==
  \A f \in Images, p \in Proc : \A i \in DOMAIN f[p] :
    f[p][i].op \in {"IN", "OUT"} => Wired(<<p, f[p][i].arg>>)

\* In the network of rendezvous this implements, an OUT is done when its word
\* has been read, although the writer learns of it later.
RendezvousPc ==
  [k \in Proc |-> IF AcksFor(k) # {} THEN pc[k] + 1 ELSE pc[k]]
================================================================================
