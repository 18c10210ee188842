--------------------------------- MODULE Router ---------------------------------
(***************************************************************************)
(* The crossbar of the hardware network (rtl/router.sv): a one-deep buffer *)
(* on every input, a register on every output, and a round-robin arbiter   *)
(* per output.  The network has two of them, for data and for ACKs.        *)
(*                                                                         *)
(* A buffer whose valid bit is low holds NoFlit; the payload a cleared     *)
(* buffer still carries in the hardware is never looked at.                *)
(*                                                                         *)
(* Here and in the other modules, a definition with an underscore in its   *)
(* name, before the one it is named after, is a mistake the code does not  *)
(* make; the properties are checked to tell it from the code.              *)
(***************************************************************************)
EXTENDS Integers

CONSTANTS
  NumPorts,   \* NUM_CORES
  Flit,       \* what is carried
  NoFlit      \* valid = 0

Port == 0 .. NumPorts - 1

\* A flit with its destination, as an injector presents it.
Packet == Port \X Flit

ASSUME PortAssumption == NumPorts \in Nat \ {0}
ASSUME FlitAssumption == NoFlit \notin Flit /\ NoFlit \notin Packet

VARIABLES
  ibuf,   \* ibuf[i]: a packet, or NoFlit
  obuf,   \* obuf[j]: a flit, or NoFlit
  rr      \* rr[j]: the input output j looks at first

routerVars == <<ibuf, obuf, rr>>

RouterTypeOK ==
  /\ ibuf \in [Port -> Packet \cup {NoFlit}]
  /\ obuf \in [Port -> Flit \cup {NoFlit}]
  /\ rr \in [Port -> Port]

\* Reset.
RouterInit ==
  /\ ibuf = [i \in Port |-> NoFlit]
  /\ obuf = [j \in Port |-> NoFlit]
  /\ rr = [j \in Port |-> 0]

--------------------------------------------------------------------------------
\* o_in_ready: an injection is accepted only into an empty buffer.
InReady(i) == ibuf[i] = NoFlit

\* The inputs with a packet for output j.
Requests(j) == {i \in Port : ibuf[i] # NoFlit /\ ibuf[i][1] = j}

\* How far input i is from the priority pointer of output j.
Distance(i, j) == (i - rr[j] + NumPorts) % NumPorts

\* grant_idx: the request nearest the priority pointer.
Grant(j) ==
  CHOOSE i \in Requests(j) :
    \A k \in Requests(j) : Distance(i, j) =< Distance(k, j)

\* Where output j looks first after it has taken a packet: past its input.
NextPriority_NoWrap(j) == Grant(j) + 1

NextPriority_Fixed(j) == 0

NextPriority(j) == (Grant(j) + 1) % NumPorts

\* Output j takes a packet at this clock edge: it is free, or being freed, and
\* there is a request (grant_vld).
Fills_Overwriting(j, outReady) == Requests(j) # {}

Fills_InTurn(j, outReady) == (obuf[j] = NoFlit \/ outReady[j]) /\ rr[j] \in Requests(j)

Fills(j, outReady) == (obuf[j] = NoFlit \/ outReady[j]) /\ Requests(j) # {}

Granted(i, outReady) ==
  \E j \in Port : Fills(j, outReady) /\ Grant(j) = i

\* A clock edge, with inPacket[i] presented to input i (NoFlit: i_in_valid is
\* low) and outReady[j] the ready signal of whoever output j delivers to.
RouterClock(inPacket, outReady) ==
  /\ ibuf' = [i \in Port |->
       IF InReady(i) THEN inPacket[i]
       ELSE IF Granted(i, outReady) THEN NoFlit ELSE ibuf[i]]
  /\ obuf' = [j \in Port |->
       IF Fills(j, outReady) THEN ibuf[Grant(j)][2]
       ELSE IF outReady[j] THEN NoFlit ELSE obuf[j]]
  /\ rr' = [j \in Port |->
       IF Fills(j, outReady) THEN NextPriority(j) ELSE rr[j]]
================================================================================
