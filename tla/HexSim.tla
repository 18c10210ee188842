--------------------------------- MODULE HexSim ---------------------------------
(***************************************************************************)
(* The C++ simulator of a network (src/hexsim.hpp): System::run steps the  *)
(* processors round-robin, in order of their ids, and looks at the whole   *)
(* network after every round.  A channel is a mailbox with three states; a *)
(* processor that finds nobody there leaves itself in it and is BLOCKED    *)
(* until its partner's turn, which moves them both past the operation.     *)
(***************************************************************************)
EXTENDS HexPrograms

CONSTANT MaxCycles   \* System::maxCycles; 0 is no limit

ASSUME MaxCyclesAssumption == MaxCycles \in Nat

Nobody == NumProcs     \* the null Processor pointer of a channel

Channel ==
  [state : {"IDLE", "WRITER_WAITING", "READER_WAITING"},
   value : Nat, writer : Proc \cup {Nobody}, reader : Proc \cup {Nobody}]

VARIABLES
  prog,         \* the images (Processor::memory)
  pc, areg,     \* the registers of each processor
  status,       \* status[p]: RUNNING, BLOCKED or HALTED
  blockedSlot,  \* blockedSlot[p]: the slot p last blocked on
  code,         \* code[p]: Processor::exitCode
  chan,         \* chan[c]: the channel of edge c
  turn,         \* the position in the round; NumProcs is its end
  ticks,        \* completed rounds, counted when MaxCycles bounds them
  exitCode, haveExit,
  result,       \* how run ended, "none" while it has not
  haltOrder     \* history: the processors that have halted, in order

procVars == <<pc, areg, status, blockedSlot, code>>
sysVars == <<ticks, exitCode, haveExit, result>>
vars == <<prog, procVars, chan, turn, sysVars, haltOrder>>

--------------------------------------------------------------------------------
\* Wiring sets the links edge by edge, so the last edge naming a slot has it.
Link(p, s) == IF s \in Slot /\ Wired(<<p, s>>) THEN ChanOf(<<p, s>>) ELSE 0

At(p) == prog[p][pc[p]]

Running(p) == status[p] = "RUNNING"

Init ==
  /\ prog \in Images
  /\ pc = [p \in Proc |-> 0]
  /\ areg = [p \in Proc |-> 0]
  /\ status = [p \in Proc |-> "RUNNING"]
  /\ blockedSlot = [p \in Proc |-> 0]
  /\ code = [p \in Proc |-> 0]
  /\ chan = [c \in DOMAIN Edges |->
       [state |-> "IDLE", value |-> 0, writer |-> Nobody, reader |-> Nobody]]
  /\ turn = 0
  /\ ticks = 0
  /\ exitCode = 0
  /\ haveExit = FALSE
  /\ result = "none"
  /\ haltOrder = <<>>

--------------------------------------------------------------------------------
(***************************************************************************)
(* The turn of a processor.                                                *)
(***************************************************************************)
Turn(p) == result = "none" /\ turn = p

Skip(p) ==
  /\ Turn(p)
  /\ ~Running(p)
  /\ turn' = turn + 1
  /\ UNCHANGED <<prog, procVars, chan, sysVars, haltOrder>>

Local(p) ==
  /\ Turn(p)
  /\ Running(p)
  /\ At(p).op \in LocalOp
  /\ pc' = [pc EXCEPT ![p] = NextPc(At(p), @, areg[p])]
  /\ areg' = [areg EXCEPT ![p] = NextAreg(At(p), @)]
  /\ turn' = turn + 1
  /\ UNCHANGED <<prog, status, blockedSlot, code, chan, sysVars, haltOrder>>

\* SVC with areg = EXIT: the processor runs no more.
Exit(p) ==
  /\ Turn(p)
  /\ Running(p)
  /\ At(p).op = "EXIT"
  /\ pc' = [pc EXCEPT ![p] = @ + 1]
  /\ code' = [code EXCEPT ![p] = At(p).arg]
  /\ status' = [status EXCEPT ![p] = "HALTED"]
  /\ haltOrder' = Append(haltOrder, p)
  /\ turn' = turn + 1
  /\ UNCHANGED <<prog, areg, blockedSlot, chan, sysVars>>

\* stepChannel, for the processor whose turn it is, at a wired slot.
AtChannel(p, op) ==
  /\ Turn(p)
  /\ Running(p)
  /\ At(p).op = op
  /\ Link(p, At(p).arg) # 0

\* advanceInstr on p and unblockAdvance on its parked partner q.
Rendezvous_Twice(p, q) ==
  /\ pc' = [pc EXCEPT ![p] = @ + 1, ![q] = @ + 2]
  /\ status' = [status EXCEPT ![p] = "RUNNING", ![q] = "RUNNING"]
  /\ turn' = turn + 1
  /\ UNCHANGED <<prog, blockedSlot, code, sysVars, haltOrder>>

Rendezvous_NotWoken(p, q) ==
  /\ pc' = [pc EXCEPT ![p] = @ + 1, ![q] = @ + 1]
  /\ turn' = turn + 1
  /\ UNCHANGED <<prog, status, blockedSlot, code, sysVars, haltOrder>>

Rendezvous_NotAdvanced(p, q) ==
  /\ pc' = [pc EXCEPT ![p] = @ + 1]
  /\ status' = [status EXCEPT ![p] = "RUNNING", ![q] = "RUNNING"]
  /\ turn' = turn + 1
  /\ UNCHANGED <<prog, blockedSlot, code, sysVars, haltOrder>>

Rendezvous(p, q) ==
  /\ pc' = [pc EXCEPT ![p] = @ + 1, ![q] = @ + 1]
  /\ status' = [status EXCEPT ![p] = "RUNNING", ![q] = "RUNNING"]
  /\ turn' = turn + 1
  /\ UNCHANGED <<prog, blockedSlot, code, sysVars, haltOrder>>

\* p waits where it is; the partner will advance it.
Park(p) ==
  /\ blockedSlot' = [blockedSlot EXCEPT ![p] = At(p).arg]
  /\ status' = [status EXCEPT ![p] = "BLOCKED"]
  /\ turn' = turn + 1
  /\ UNCHANGED <<prog, pc, areg, code, sysVars, haltOrder>>

OutDelivers(p) ==
  LET c == Link(p, At(p).arg)
      r == chan[c].reader
  IN  /\ AtChannel(p, "OUT")
      /\ chan[c].state = "READER_WAITING"
      /\ areg' = [areg EXCEPT ![r] = areg[p]]
      /\ chan' = [chan EXCEPT ![c] = [@ EXCEPT !.state = "IDLE", !.reader = Nobody]]
      /\ Rendezvous(p, r)

OutParks(p) ==
  LET c == Link(p, At(p).arg)
  IN  /\ AtChannel(p, "OUT")
      /\ chan[c].state # "READER_WAITING"
      /\ chan' = [chan EXCEPT ![c] = [@ EXCEPT !.state = "WRITER_WAITING",
                                               !.value = areg[p],
                                               !.writer = p]]
      /\ Park(p)

InTakes_NotIdle(p) ==
  LET c == Link(p, At(p).arg)
  IN  /\ AtChannel(p, "IN")
      /\ chan[c].state = "WRITER_WAITING"
      /\ areg' = [areg EXCEPT ![p] = chan[c].value]
      /\ UNCHANGED chan
      /\ Rendezvous(p, chan[c].writer)

InTakes(p) ==
  LET c == Link(p, At(p).arg)
  IN  /\ AtChannel(p, "IN")
      /\ chan[c].state = "WRITER_WAITING"
      /\ areg' = [areg EXCEPT ![p] = chan[c].value]
      /\ chan' = [chan EXCEPT ![c] = [@ EXCEPT !.state = "IDLE", !.writer = Nobody]]
      /\ Rendezvous(p, chan[c].writer)

InParks(p) ==
  LET c == Link(p, At(p).arg)
  IN  /\ AtChannel(p, "IN")
      /\ chan[c].state # "WRITER_WAITING"
      /\ chan' = [chan EXCEPT ![c] = [@ EXCEPT !.state = "READER_WAITING", !.reader = p]]
      /\ Park(p)

\* The exceptions of step: an instruction it rejects, an unwired slot.  The
\* run is over; the system it leaves is not looked at again.
Throw(p) ==
  /\ Turn(p)
  /\ Running(p)
  /\ \/ At(p).op = "ILL"
     \/ At(p).op \in {"IN", "OUT"} /\ Link(p, At(p).arg) = 0
  /\ result' = "error"
  /\ UNCHANGED <<prog, procVars, chan, turn, ticks, exitCode, haveExit, haltOrder>>

--------------------------------------------------------------------------------
(***************************************************************************)
(* The end of a round: exit code, termination, deadlock, cycle limit.      *)
(***************************************************************************)
AllHalted == \A p \in Proc : status[p] = "HALTED"

AnyRunning_AllOf == \A p \in Proc : Running(p)

AnyRunning_NotHalted == \E p \in Proc : status[p] # "HALTED"

AnyRunning == \E p \in Proc : Running(p)

\* The exit code is that of the lowest id among those halted when any is.
FirstHalted_Last(p) ==
  /\ status[p] = "HALTED"
  /\ \A q \in Proc : q > p => status[q] # "HALTED"

FirstHalted(p) ==
  /\ status[p] = "HALTED"
  /\ \A q \in Proc : q < p => status[q] # "HALTED"

RecordExit ==
  \/ /\ ~haveExit
     /\ \E p \in Proc : FirstHalted(p) /\ exitCode' = code[p]
     /\ haveExit' = TRUE
  \/ /\ haveExit \/ \A p \in Proc : status[p] # "HALTED"
     /\ UNCHANGED <<exitCode, haveExit>>

\* ticks after a round that leaves somebody RUNNING.
NextTicks_Reset == 0

NextTicks == IF MaxCycles > 0 THEN ticks + 1 ELSE ticks

EndRound ==
  /\ result = "none"
  /\ turn = NumProcs
  /\ RecordExit
  /\ \/ /\ AllHalted
        /\ result' = "returned"
        /\ UNCHANGED ticks
     \/ /\ ~AllHalted /\ ~AnyRunning
        /\ result' = "deadlock"
        /\ UNCHANGED ticks
     \/ /\ ~AllHalted /\ AnyRunning
        /\ ticks' = NextTicks
        /\ result' = IF MaxCycles > 0 /\ ticks' > MaxCycles THEN "cutoff" ELSE "none"
  /\ turn' = 0
  /\ UNCHANGED <<prog, procVars, chan, haltOrder>>

\* run has returned or thrown.
Ended == result # "none" /\ UNCHANGED vars

Step(p) ==
  \/ Skip(p) \/ Local(p) \/ Exit(p) \/ Throw(p)
  \/ OutDelivers(p) \/ OutParks(p) \/ InTakes(p) \/ InParks(p)

Next == (\E p \in Proc : Step(p)) \/ EndRound \/ Ended

Spec == Init /\ [][Next]_vars

\* The loop of run is not interrupted.
FairSpec == Spec /\ WF_vars(Next)

--------------------------------------------------------------------------------
(***************************************************************************)
(* Properties.                                                             *)
(***************************************************************************)
Halted == [p \in Proc |-> status[p] = "HALTED"]

\* The network of rendezvous this simulates.
R == INSTANCE Rendezvous WITH Stops <- TRUE, halted <- Halted

\* Every variable has its type; a processor that may still fetch has a program
\* counter inside its program.
TypeOK ==
  /\ DOMAIN prog = Proc /\ \A p \in Proc : IsProgram(prog[p])
  /\ pc \in [Proc -> Nat]
  /\ areg \in [Proc -> Nat]
  /\ status \in [Proc -> {"RUNNING", "BLOCKED", "HALTED"}]
  /\ blockedSlot \in [Proc -> Nat]
  /\ code \in [Proc -> Nat]
  /\ chan \in [DOMAIN Edges -> Channel]
  /\ turn \in 0 .. NumProcs
  /\ ticks \in 0 .. MaxCycles + 1
  /\ result # "cutoff" => ticks =< MaxCycles
  /\ exitCode \in Nat
  /\ haveExit \in BOOLEAN
  /\ result \in {"none", "returned", "deadlock", "cutoff", "error"}
  /\ haltOrder \in Seq(Proc)
  /\ \A p \in Proc : status[p] # "HALTED" => pc[p] \in DOMAIN prog[p]

\* Processor w is parked at an operation op on channel c.
ParkedAt(w, op, c) ==
  /\ w \in Proc
  /\ status[w] = "BLOCKED"
  /\ At(w).op = op
  /\ At(w).arg = blockedSlot[w]
  /\ Link(w, At(w).arg) = c

\* stepChannel wakes whoever the channel names, without a look at what that
\* processor is doing: a channel that says someone waits names a processor
\* that is parked at that very operation, and holds that writer's word.
WaiterIsParked ==
  \A c \in DOMAIN Edges :
    /\ chan[c].state = "WRITER_WAITING" =>
         ParkedAt(chan[c].writer, "OUT", c) /\ chan[c].value = areg[chan[c].writer]
    /\ chan[c].state = "READER_WAITING" =>
         ParkedAt(chan[c].reader, "IN", c)

\* Nothing but its channel can move a BLOCKED processor again: the channel
\* names it, or names the processor at the other end, parked for the same
\* operation (two writers or two readers, that no order of steps can serve).
ParkedIsRegistered ==
  \A p \in Proc : status[p] = "BLOCKED" =>
    LET c == Link(p, At(p).arg)
    IN  \/ /\ ParkedAt(p, "OUT", c)
           /\ chan[c].state = "WRITER_WAITING"
           /\ chan[c].writer \in {p, Peer(<<p, At(p).arg>>)[1]}
        \/ /\ ParkedAt(p, "IN", c)
           /\ chan[c].state = "READER_WAITING"
           /\ chan[c].reader \in {p, Peer(<<p, At(p).arg>>)[1]}

\* A deadlock is reported only of a network in which somebody has not halted
\* and nobody could go on, whatever the order of the steps had been.
DeadlockIsReal ==
  result = "deadlock" =>
    (\E p \in Proc : ~Halted[p]) /\ (\A p \in Proc : ~R!Ready(p))

\* The exit code of the system is that of the processor that halted before
\* all others, and is taken in the round in which it did.
FirstToHalt ==
  /\ haveExit => haltOrder # <<>> /\ exitCode = code[haltOrder[1]]
  /\ ~haveExit /\ haltOrder # <<>> => result \in {"none", "error"} /\ turn # 0

\* Each step of the simulator is a step of the network of rendezvous, or
\* none: no word is lost, duplicated, reordered or taken from a stale
\* register, and a processor wakes exactly one instruction further on.
Simulates == R!Spec

\* A network without illegal operations is simulated to its end: no
\* processor that can move, alone or with its partner, waits for ever.
SimulatesFairly == R!FairSpec

\* A network in which nobody can move does not go round for ever.
StuckIsReported ==
  (\A p \in Proc : ~R!Ready(p)) ~> result \in {"returned", "deadlock", "error"}

\* With a cycle limit every run ends.
EndsByLimit == <>(result # "none")
================================================================================
