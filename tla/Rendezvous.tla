------------------------------- MODULE Rendezvous -------------------------------
(***************************************************************************)
(* What the processors of a network promise to each other: a channel is    *)
(* synchronous and unbuffered.  An OUT and the IN at the other end of its   *)
(* channel complete together, in one step, and the value goes across; no    *)
(* channel operation completes on its own.  Everything else a processor     *)
(* does is its own business.                                                *)
(*                                                                         *)
(* A step moves a set of processors, so that it stands for one turn of the  *)
(* simulator (a processor, or the two ends of a rendezvous) and for one     *)
(* clock cycle of the hardware (any number of them).                        *)
(*                                                                         *)
(* A processor of the simulator stops at its EXIT.  A core of the hardware *)
(* does not, and may run into what its image has next: every image that    *)
(* xcmp emits has its procedures there.                                    *)
(***************************************************************************)
EXTENDS HexPrograms

CONSTANT Stops   \* whether a processor that has executed EXIT stops: TRUE or FALSE

VARIABLES
  prog,    \* prog[p]: the image processor p was given
  pc,      \* pc[p]: the instruction p is at
  areg,    \* areg[p]
  halted   \* halted[p]: p has executed EXIT

vars == <<prog, pc, areg, halted>>

At(p) == prog[p][pc[p]]

\* p takes no more steps: it has stopped, or there is nothing after its EXIT.
Gone(p) == halted[p] /\ (Stops \/ pc[p] \notin DOMAIN prog[p])

InChan(p) == ~Gone(p) /\ At(p).op \in {"IN", "OUT"}

\* The endpoint of the channel operation p is at.
End(p) == <<p, At(p).arg>>

Partner(p) == Peer(End(p))[1]

\* The processor at the other end of p's channel is there, for the other half.
Matched(p) ==
  /\ InChan(p)
  /\ Wired(End(p))
  /\ InChan(Partner(p))
  /\ At(Partner(p)).op = Complement(At(p).op)
  /\ End(Partner(p)) = Peer(End(p))

\* p has a next step to take, alone or with its partner.
Ready(p) ==
  /\ ~Gone(p)
  /\ At(p).op \in LocalOp \cup {"EXIT"} \/ Matched(p)

Init ==
  /\ prog \in Images
  /\ pc = [p \in Proc |-> 0]
  /\ areg = [p \in Proc |-> 0]
  /\ halted = [p \in Proc |-> FALSE]

\* The processors of M complete an instruction each.
Move(M) ==
  /\ \A p \in M : Ready(p) /\ (Matched(p) => Partner(p) \in M)
  /\ pc' = [p \in Proc |->
       IF p \in M THEN NextPc(At(p), pc[p], areg[p]) ELSE pc[p]]
  /\ areg' = [p \in Proc |->
       IF p \notin M THEN areg[p]
       ELSE IF At(p).op = "IN" THEN areg[Partner(p)]
       ELSE NextAreg(At(p), areg[p])]
  /\ halted' = [p \in Proc |-> halted[p] \/ (p \in M /\ At(p).op = "EXIT")]
  /\ UNCHANGED prog

Next == \E M \in SUBSET Proc : Move(M)

Spec == Init /\ [][Next]_vars

\* No processor that can move is left behind for ever.
FairSpec ==
  Spec /\ \A p \in Proc : WF_vars(\E M \in SUBSET Proc : p \in M /\ Move(M))
================================================================================
