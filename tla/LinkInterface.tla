------------------------------ MODULE LinkInterface ------------------------------
(***************************************************************************)
(* The link interfaces of the cores (rtl/link_interface.sv), one per core. *)
(* An OUT injects one DATA flit and waits for the ACK of it; an IN waits   *)
(* for a word in the receive buffer of its slot, and completes when the    *)
(* ACK is injected.  The processor is stalled meanwhile.                   *)
(***************************************************************************)
EXTENDS Integers

CONSTANTS
  NumCores, NumLinks,
  Word,      \* what a channel carries
  NoFlit,    \* the valid bit of a buffer or a port is low
  Ack        \* the ACK flit: it has no payload

Core == 0 .. NumCores - 1

Slot == 0 .. NumLinks - 1

DataFlit == [dst_slot : Slot, src_core : Core, word : Word]

Received == [src : Core, word : Word]

VARIABLES
  st,   \* st[k]: the state of the FSM
  rx    \* rx[k][s]: what the receive buffer of slot s holds, or NoFlit

linkVars == <<st, rx>>

LinkTypeOK ==
  /\ st \in [Core -> {"IDLE", "OUT_SEND", "OUT_WAIT", "IN_ACK"}]
  /\ rx \in [Core -> [Slot -> Received \cup {NoFlit}]]

\* Reset.
LinkInit ==
  /\ st = [k \in Core |-> "IDLE"]
  /\ rx = [k \in Core |-> [s \in Slot |-> NoFlit]]

--------------------------------------------------------------------------------
(***************************************************************************)
(* The combinational outputs.  slot is the slot of the operation core k is *)
(* at, areg its register, route its route table.                           *)
(***************************************************************************)
\* What is offered to the DATA router, with its destination core.
DataOut(k, slot, areg, route) ==
  IF st[k] = "OUT_SEND"
  THEN << route[<<k, slot>>][1],
          [dst_slot |-> route[<<k, slot>>][2], src_core |-> k, word |-> areg] >>
  ELSE NoFlit

\* A delivered flit is accepted only into an empty buffer.
DataReady(k, flit) == flit # NoFlit /\ rx[k][flit.dst_slot] = NoFlit

\* What is offered to the ACK router.
AckOut(k, slot) ==
  IF st[k] = "IN_ACK" THEN <<rx[k][slot].src, Ack>> ELSE NoFlit

\* The rendezvous completes at this clock edge: o_done.
Done_WithoutAck(k, ack, ackInReady) ==
  st[k] = "OUT_WAIT" \/ (st[k] = "IN_ACK" /\ ackInReady)

Done(k, ack, ackInReady) ==
  \/ st[k] = "OUT_WAIT" /\ ack # NoFlit
  \/ st[k] = "IN_ACK" /\ ackInReady

\* The FSM of core k, at operation op on a slot.
NextState(k, op, slot, dataInReady, ack, ackInReady) ==
  CASE st[k] = "IDLE" /\ op = "OUT" -> "OUT_SEND"
    [] st[k] = "IDLE" /\ op = "IN" /\ rx[k][slot] # NoFlit -> "IN_ACK"
    [] st[k] = "OUT_SEND" /\ dataInReady -> "OUT_WAIT"
    [] Done(k, ack, ackInReady) -> "IDLE"
    [] OTHER -> st[k]

\* Receive buffer s of core k, with a flit (or none) delivered to the core.
NextReceived_Kept(k, s, slot, flit, ackInReady) ==
  IF DataReady(k, flit) /\ flit.dst_slot = s
  THEN [src |-> flit.src_core, word |-> flit.word]
  ELSE rx[k][s]

NextReceived(k, s, slot, flit, ackInReady) ==
  IF st[k] = "IN_ACK" /\ ackInReady /\ s = slot THEN NoFlit
  ELSE IF DataReady(k, flit) /\ flit.dst_slot = s
  THEN [src |-> flit.src_core, word |-> flit.word]
  ELSE rx[k][s]
================================================================================
