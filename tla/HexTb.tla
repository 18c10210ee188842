---------------------------------- MODULE HexTb ----------------------------------
(***************************************************************************)
(* The testbench of the hardware network (tools/hextb.cpp): run clocks the *)
(* network and, after every rising edge, looks at the cores it has not yet *)
(* seen exit.  It ends when all have, when nothing has moved for too long, *)
(* or at a cycle limit.  A core that has exited is not stopped.            *)
(***************************************************************************)
EXTENDS HexRtl

CONSTANTS
  Threshold,   \* DEADLOCK_THRESHOLD
  MaxCycles    \* maxCycles; 0 is no limit

ASSUME TbAssumption == Threshold \in Nat /\ MaxCycles \in Nat

VARIABLES
  executed,    \* executed[k]: core k has executed an EXIT (a history variable: no code has it)
  exited,      \* exited[k]: the testbench has served an EXIT of core k
  prevPc,      \* prevPc[k]: the program counter it last saw, -1 at first
  noProgress,  \* for how many cycles it has seen nothing move
  exitCode, haveExit,
  cycles,      \* counted when MaxCycles bounds them
  result       \* how run ended, "none" while it has not

tbVars == <<executed, exited, prevPc, noProgress, exitCode, haveExit, cycles, result>>
allVars == <<vars, tbVars>>

TbInit ==
  /\ Init
  /\ executed = [k \in Proc |-> FALSE]
  /\ exited = [k \in Proc |-> FALSE]
  /\ prevPc = [k \in Proc |-> -1]
  /\ noProgress = 0
  /\ exitCode = 0
  /\ haveExit = FALSE
  /\ cycles = 0
  /\ result = "none"

--------------------------------------------------------------------------------
\* The cores that have not exited and, as the edge leaves them, are at an
\* EXIT: o_syscall_valid is high before the instruction has executed.
AtExit(k) == ~exited[k] /\ Fetches(k)' /\ At(k)'.op = "EXIT"

Exiting_One == {k \in Proc : AtExit(k) /\ \A j \in Proc : AtExit(j) => k =< j}

Exiting == {k \in Proc : AtExit(k)}

\* The first in the order of the loop gives the exit code.
ServeExits ==
  /\ exited' = [k \in Proc |-> exited[k] \/ k \in Exiting]
  /\ haveExit' = (haveExit \/ Exiting # {})
  /\ IF ~haveExit /\ Exiting # {}
     THEN \E k \in Exiting :
            (\A j \in Exiting : k =< j) /\ exitCode' = At(k)'.arg
     ELSE UNCHANGED exitCode

\* A system call was served, or a core not seen to exit has moved.
Progressed == Exiting # {} \/ \E k \in Proc : ~exited[k] /\ pc'[k] # prevPc[k]

NextNoProgress_Kept == IF Progressed THEN noProgress ELSE noProgress + 1

NextNoProgress == IF Progressed THEN 0 ELSE noProgress + 1

\* The program counters it compares with in the next cycle.
NextPrevPc_Kept(k) == prevPc[k]

NextPrevPc(k) == IF exited[k] THEN prevPc[k] ELSE pc'[k]

AllExited == \A k \in Proc : exited[k]

NextCycles_Reset == 0

NextCycles == IF MaxCycles > 0 THEN cycles + 1 ELSE cycles

\* The loop condition and the deadlock test, after a cycle.
Verdict ==
  IF noProgress' > Threshold /\ ~AllExited' THEN "deadlock"
  ELSE IF AllExited' THEN "returned"
  ELSE IF MaxCycles > 0 /\ cycles' > MaxCycles THEN "cutoff"
  ELSE "none"

Cycle ==
  /\ result = "none"
  /\ Tick
  /\ executed' = [k \in Proc |-> executed[k] \/ (Fetches(k) /\ At(k).op = "EXIT")]
  /\ ServeExits
  /\ prevPc' = [k \in Proc |-> NextPrevPc(k)]
  /\ noProgress' = NextNoProgress
  /\ cycles' = NextCycles
  /\ result' = Verdict

\* run has returned or thrown.
Ended == result # "none" /\ UNCHANGED allVars

TbNext == Cycle \/ Ended

TbSpec == TbInit /\ [][TbNext]_allVars

\* The loop of run is not interrupted.
TbFairSpec == TbSpec /\ WF_allVars(TbNext)

--------------------------------------------------------------------------------
(***************************************************************************)
(* Properties.                                                             *)
(***************************************************************************)
\* No program runs into an instruction that is rejected, and none begins with EXIT:
\* the hardware has executed that one before the testbench first looks.
RunsToExit ==
  \A f \in Images, p \in Proc : \A i \in DOMAIN f[p] :
    f[p][i].op # "ILL" /\ (f[p][i].op = "EXIT" => i # 0)

\* No instruction branches to itself: the testbench would take the core for one that
\* waits.  The operand of a branch is its distance from the next instruction, and a
\* negative one has a prefix, where the program counter is in between.
NoSelfBranch ==
  \A f \in Images, p \in Proc : \A i \in DOMAIN f[p] :
    f[p][i].op \in {"BR", "BRZ"} => f[p][i].arg # i

\* The network of rendezvous the hardware is: a core does not stop at its EXIT.
N == INSTANCE Rendezvous WITH
       Stops <- FALSE, pc <- RendezvousPc, halted <- executed

\* Router buffers, ACKs and all, the hardware does nothing but rendezvous, also with
\* cores that run on after an EXIT.
Implements == N!Spec

\* The network of rendezvous the simulator is, and whether the hardware is that one
\* too, as it is meant to be.
H == INSTANCE Rendezvous WITH
       Stops <- TRUE, pc <- RendezvousPc, halted <- executed

Agrees == H!Spec

\* The network of the cores the testbench still looks at: one that has exited takes
\* no more part in it.
G == INSTANCE Rendezvous WITH Stops <- TRUE, halted <- exited

\* While the run goes on, a core that can move, alone or with its partner, is
\* not left behind for ever, whoever it shares a router with.
NobodyIsLeftBehind ==
  \A k \in Proc :
    <>[](result = "none" /\ N!Ready(k)) =>
      []<><<\E M \in SUBSET Proc : k \in M /\ N!Move(M)>>_allVars

\* A deadlock is reported only of a network in which somebody has not exited, and
\* nobody who has not could go on, alone or with another of them, however long the
\* routers were busy.
DeadlockIsReal ==
  result = "deadlock" =>
    (\E k \in Proc : ~exited[k]) /\ (\A k \in Proc : ~G!Ready(k))

\* The testbench looks between two edges, and a system call is there for one of them
\* only: no core gets past its EXIT unseen, whatever comes after it.
NoExitIsMissed == \A k \in Proc : executed[k] => exited[k]

\* When nobody who has not exited can move any more, a verdict is given in the end,
\* whatever those that have exited go on doing.
StuckIsReported ==
  <>[](\A k \in Proc : ~exited[k] => ~N!Ready(k)) => <>(result # "none")

\* With a cycle limit every run ends.
EndsByLimit == <>(result # "none")
================================================================================
