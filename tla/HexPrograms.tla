------------------------------ MODULE HexPrograms ------------------------------
(***************************************************************************)
(* What every model of a network of Hex processors starts from: the        *)
(* processors, the channels that join them, and the programs they run.     *)
(*                                                                         *)
(* An instruction is a record [op, arg].  The operand of the code (oreg,   *)
(* built by PFIX and NFIX) is the field arg; the slot of IN and OUT (breg) *)
(* and the exit code (memory[sp + 2]) are also arg.  LDAC stands for every *)
(* instruction that gives areg a value, BRZ for a conditional branch, and  *)
(* ILL for one the simulator rejects.  A branch names its target.          *)
(***************************************************************************)
EXTENDS Integers, Sequences

CONSTANTS
  NumProcs,   \* number of images in the container
  NumLinks,   \* hex::NUM_LINKS, the channel slots of a processor
  Edges,      \* the container's edges, in file order
  Images      \* the images the container may hold: one program per processor

Proc == 0 .. NumProcs - 1

Slot == 0 .. NumLinks - 1

\* A place a channel can be attached to: a slot of a processor.
Endpoint == Proc \X Slot

\* One edge of the container; the code has the four fields in a row.
Edge == [a : Endpoint, b : Endpoint]

LocalOp == {"LDAC", "BR", "BRZ"}

Instr == [op : LocalOp \cup {"IN", "OUT", "EXIT", "ILL"}, arg : Nat]

(***************************************************************************)
(* A program is a function from addresses.  Execution starts at 0 and runs *)
(* within the program until EXIT: the last instruction branches or exits.  *)
(***************************************************************************)
IsProgram(g) ==
  /\ 0 \in DOMAIN g
  /\ DOMAIN g \subseteq Nat
  /\ \A i \in DOMAIN g :
       /\ g[i] \in Instr
       /\ g[i].op \notin {"BR", "EXIT", "ILL"} => i + 1 \in DOMAIN g
       /\ g[i].op \in {"BR", "BRZ"} => g[i].arg \in DOMAIN g

\* The two ends of every edge are distinct, and an end belongs to one edge:
\* the compiler gives each endpoint of a channel the next free slot.
WellWired ==
  /\ \A i \in DOMAIN Edges : Edges[i].a # Edges[i].b
  /\ \A i, j \in DOMAIN Edges :
       {Edges[i].a, Edges[i].b} \cap {Edges[j].a, Edges[j].b} # {} => i = j

ASSUME SizeAssumption == NumProcs \in Nat \ {0} /\ NumLinks \in Nat \ {0}

ASSUME EdgesAssumption == Edges \in Seq(Edge) /\ WellWired

ASSUME ImagesAssumption ==
  \A f \in Images : DOMAIN f = Proc /\ \A p \in Proc : IsProgram(f[p])

--------------------------------------------------------------------------------
\* The edges attached to an endpoint, the endpoints something is attached to,
\* and the other end of the channel at a wired endpoint.
EdgesAt(e) == {i \in DOMAIN Edges : e \in {Edges[i].a, Edges[i].b}}

Wired(e) == EdgesAt(e) # {}

ChanOf(e) == CHOOSE i \in DOMAIN Edges : e \in {Edges[i].a, Edges[i].b}

Peer(e) ==
  LET c == ChanOf(e)
  IN  IF Edges[c].a = e THEN Edges[c].b ELSE Edges[c].a

--------------------------------------------------------------------------------
\* Where an instruction that completes leaves the program counter, and areg
\* when it is not a channel input.
NextPc(instr, i, a) ==
  IF instr.op = "BR" \/ (instr.op = "BRZ" /\ a = 0) THEN instr.arg ELSE i + 1

NextAreg(instr, a) == IF instr.op = "LDAC" THEN instr.arg ELSE a

Complement(op) == CASE op = "IN" -> "OUT" [] op = "OUT" -> "IN"
================================================================================
