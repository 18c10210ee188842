------------------------------- MODULE CrossCheck -------------------------------
(***************************************************************************)
(* The cross-check of tests/tests.py: one container is run on the          *)
(* simulator, to its end, and then on the hardware under its testbench.    *)
(* The two share the images; the variables of the simulator have names of  *)
(* their own here.                                                         *)
(***************************************************************************)
EXTENDS HexTb

CONSTANT SimMaxCycles   \* System::maxCycles; 0 is no limit

ASSUME CrossCheckAssumption == SimMaxCycles \in Nat

VARIABLES
  simPc, simAreg, simStatus, simBlockedSlot, simCode, chan, turn, ticks,
  simExitCode, simHaveExit, simResult, haltOrder

simVars ==
  <<simPc, simAreg, simStatus, simBlockedSlot, simCode, chan, turn, ticks,
    simExitCode, simHaveExit, simResult, haltOrder>>

crossVars == <<allVars, simVars>>

\* The simulator, with what is proved of it.
S == INSTANCE HexSimProofs WITH
       MaxCycles <- SimMaxCycles, pc <- simPc, areg <- simAreg,
       status <- simStatus, blockedSlot <- simBlockedSlot, code <- simCode,
       exitCode <- simExitCode, haveExit <- simHaveExit, result <- simResult

CrossInit == S!Init /\ TbInit

RunSimulator == simResult = "none" /\ S!Next /\ UNCHANGED allVars

RunTestbench == simResult # "none" /\ TbNext /\ UNCHANGED simVars

CrossNext == RunSimulator \/ RunTestbench

CrossSpec == CrossInit /\ [][CrossNext]_crossVars

\* The loops of the two are not interrupted.
CrossFairSpec == CrossSpec /\ WF_crossVars(CrossNext)

--------------------------------------------------------------------------------
(***************************************************************************)
(* Properties.                                                             *)
(***************************************************************************)
\* The simulator has come to an end of the network, not of its patience.
SimOver == simResult \in {"returned", "deadlock"}

\* No processor is left waiting for one that has HALTED: the hardware does not stop
\* such a core, and it may come to the other end of the channel after its EXIT.
Comparable ==
  /\ SimOver
  /\ \A p \in Proc : simStatus[p] = "BLOCKED" => simStatus[S!R!Partner(p)] # "HALTED"

\* At whatever point of its run the hardware is then: a core that has exited there is
\* HALTED here, with the areg it came to its EXIT with; the exit code is one that a
\* processor gives here, and the same if all that exit give the same; and the
\* testbench returns only of a network of which the simulator does.
OutcomesAgree ==
  Comparable =>
    /\ \A k \in Proc : exited[k] =>
         /\ simStatus[k] = "HALTED"
         /\ ~executed[k] => simAreg[k] = areg[k]
    /\ haveExit =>
         /\ simHaveExit
         /\ \E k \in Proc : simStatus[k] = "HALTED" /\ exitCode = simCode[k]
         /\ (\A j, k \in Proc :
               simStatus[j] = "HALTED" /\ simStatus[k] = "HALTED" => simCode[j] = simCode[k])
              => exitCode = simExitCode
    /\ result = "returned" => simResult = "returned"

\* Of a network that cannot go on both report it, the same processors have exited, and
\* both leave every other one where the other does, with what it has.
DeadlocksAgree ==
  Comparable /\ result = "deadlock" =>
    /\ simResult = "deadlock"
    /\ \A k \in Proc :
         IF exited[k] THEN simStatus[k] = "HALTED"
         ELSE simStatus[k] # "HALTED" /\ pc[k] = simPc[k] /\ areg[k] = simAreg[k]
================================================================================
