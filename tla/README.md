# Verification of the Hex processor network and its tools

The repository holds a small processor (Hex), a cycle-accurate Verilog network of
such processors, a C++ simulator of the same network, an assembler, a compiler for
the language X that maps a `par` of processes onto a network, and the formats and
testbenches that join them. Each of them has its own idea of when a channel
operation completes, when the network has deadlocked and what exit code comes out.
This directory states what they have to agree on, and checks that they do.

All line numbers are those of the sources in this repository. `PROJECT.json` maps
every definition to its lines.

## 1. The system

| component | state | operations | talks to |
|---|---|---|---|
| Simulator (`src/hexsim.hpp`) | per processor `pc, areg, breg, oreg`, memory, status, blocked slot; per channel a mailbox (state, value, writer, reader); exit code, tick count | `step`, `stepChannel`, `syscall`, `System::run` | containers, simulated I/O |
| Router (`rtl/router.sv`) | a one-deep buffer per input, a register per output, a priority pointer per output | one clock edge: arbitrate, drain, refill | link interfaces, by valid/ready |
| Link interface (`rtl/link_interface.sv`) | FSM (`IDLE`, `OUT_WAIT`), four receive buffers, a route table | inject a word, wait for its ACK, receive, acknowledge | its processor (`busy`), both routers |
| Core and network (`rtl/processor.sv`, `core.sv`, `network_top.sv`) | the registers of the processor, and all the above | one clock edge | the testbench, which sees `pc` and the syscall signals |
| Testbench (`tools/hextb.cpp`) | exited flags, previous pcs, cycles without progress, cycle count, exit code | reset and loading, one cycle of `run` | the network, simulated I/O |
| Assembler (`src/hexasm.hpp`) | directives with offsets, label values, operands | `resolveLabels`, `emitProgramBin` | the compiler's directives, images |
| Compiler, front end (`src/xcmp.hpp:1502-2137`) | place in the tokens, the tree, the symbol table | `parseProgram`, `CreateSymbols`, the checks of `ConstProp`, `Driver::run` | the stages after it |
| Compiler, networks (`src/xcmp.hpp:3594-3742`, 3778-3843) | endpoints of each channel | `analyseNetwork`, `compileProcessorImage`, `emitNetworkContainer` | containers |
| Compiler, code (`src/xcmp.hpp:2142-3532`) | symbol table, frames, constants, directives | constant propagation, expression and statement code, lowering, peephole | the assembler |
| Formats (`src/heximage.hpp`, `hexcontainer.hpp`) | none | read, write | all tools |
| Simulated I/O (`src/hexsimio.hpp`) | a table of eight file streams, each opened once | `output`, `input` | simulator and testbench |
| Disassembler (`src/hexdis.hpp`) | `oreg`, as the processor has it | `disassemble` | images |
| Tools, older Verilog | none to speak of | command lines, text output | |

What is hard here:

* The simulator is sequential and asynchronous: a turn may complete the operation of
  a processor whose own turn has been or is still to come in the same round. The
  hardware is synchronous and buffered: a word, then an ACK, cross two routers under
  contention, and reader and writer learn of the rendezvous in different cycles.
* Both infer *deadlock*, one from statuses, the other from a number of cycles without
  progress, and neither may be wrong.
* Link interfaces rely on things no signal tells them: that the buffer a word arrives
  for is empty (`link_interface.sv:50`), that an ACK is for the core it reaches.
* The compiler keeps temporaries, actuals and results at offsets of one frame that several
  generators move and put back, and evaluates operands and actuals out of order.
* The assembler iterates to a fixed point that it detects by the total size alone.
* A network is analysed once, and each of its processors compiled from a source that is
  parsed again: slots, names and constants have to come out the same every time, and the
  only thing that says which process holds which end of a channel is their order.
* The hardware executes an instruction per edge from a memory that the testbench reads and
  writes between two edges; the simulator, the disassembler and the hardware each take
  bytes apart with prefixes of their own.

What makes each component right, in a line: the simulator and the hardware both
*implement a network of synchronous rendezvous*; a deadlock verdict is given when and
only when nobody can move; the exit code is that of the first to halt; the router
loses, repeats and starves nothing; an assembled reference reaches its label; an
encoded operand is decoded to itself, by both processors and the disassembler; what is
accepted by the parser is what is written; an accepted network does what its processes
say, and deadlocks only where they do; optimised code computes what the source says.

## 2. Modules

```
HexPrograms     processors, channels, programs: what all network models start from
  Rendezvous    the abstract specification: an OUT and its IN complete together
  HexSim        the simulator            --implements-->  Rendezvous
    HexSimProofs   theorems, for every network
  HexRtl        the hardware network: Router (twice), LinkInterface, processors
    HexRtlProofs   theorems, for every network
    HexTb       the testbench over it    --implements-->  Rendezvous
      HexTbProofs  theorems, for every network and threshold
      CrossCheck   one container on the simulator, then on the hardware
        CrossCheckProofs  theorems, for every network and threshold
Router          the router
  RouterFacts   lemmas about it, for its three users
  RouterEnv     the router alone, in any environment
    RouterEnvProofs  theorems, for any number of ports
Encoding        operands to prefixes and back
  Isa           the simulated and the hardware processor, in lock-step, and the listing
    IsaProofs   theorems, for every program
  Assembler     label resolution, layout, emission
    AssemblerProofs  theorems, for every program
XLanguage       programs in X and what they mean
  XGrammar      how they are written
  XParser       from tokens to the tree
  XSymbols      the symbol table, constants, names
    XNetwork    from a par to processors and edges, and what a network means
    XCodeGen    from the tree to directives
      XProcessor   an image, and what a processor does with it; its streams: HexSimIO
        XMachine   one processor          --against-->  the meaning of a program
        XDriver    tokens, tree, network, images, container, simulator
                                          --against-->  the meaning of a network
MC*             small instances for TLC
```

Definitions with an underscore in the name (`Rendezvous_Twice`) are plausible mistakes
the code does not make. They are used in no specification; each property is known to
fail when one of them takes the place of the definition it is named after.

### HexPrograms and Rendezvous

An instruction is a record `[op, arg]`. The models are about control, so `LDAC` stands
for every instruction that gives `areg` a value, `BRZ` for the conditional branches,
`BR` for the others, and `ILL` for what `step` rejects. `arg` is the operand that
`PFIX` and `NFIX` build, the slot in `breg`, or the exit code at `memory[sp + 2]`;
prefixes are turns that change nothing a partner can see. WRITE and READ system calls
are local instructions as well. Branch targets are inside the program.

`Rendezvous` moves any set of processors in a step, a channel operation only with its
partner. A step therefore stands for one turn of the simulator and for one clock cycle
of the hardware. It does not say which output comes first: the simulator and the
hardware may interleave the output of two cores differently, and may return different
exit codes when several cores exit, which is why neither is part of it.

The constant `Stops` says what an EXIT does. A processor of the simulator stops there
(`hexsim.hpp:459`); a core of the hardware does not, and goes on as long as its program
has something after the EXIT. Every image that `xcmp` emits has: the SVC of `_exit` is
the last instruction of the program's prologue (`xcmp.hpp:3245-3259`), and the procedures
follow it at once. The core falls into the first of them.

### HexSim (`System::run`, `Processor::step`, `stepChannel`)

One action is one turn: `Skip`, `Local`, `Exit`, `OutDelivers`, `OutParks`, `InTakes`,
`InParks`, `Throw`; `EndRound` is what `run` does after the inner loop (exit code,
`allHalted`, deadlock, `maxCycles`), in the order of the code. The variable `turn` is
the position in the inner loop, so the whole model is as deterministic as the code, and
the nondeterminism is all in the programs. `chan[c]` is a mailbox. `haltOrder` is a
history variable. `ticks` counts only when there is a limit.

The compiler excludes channels that both ends write; the simulator has to cope with
any container, and the models allow it. (The second writer then overwrites the first:
`ParkedIsRegistered` says exactly that much.)

### Router, LinkInterface, HexRtl (`rtl/`)

`RouterClock`, `NextState`, `NextReceived`, `DataOut`, ... are the registers' next
values and the combinational outputs as functions of the present state and inputs;
`HexRtl!Tick` sets all registers of the network at one edge, as nonblocking assignments
do. A valid bit and its payload are one value, `NoFlit` when the bit is low; a payload
behind a low bit is never looked at. Route tables are written before reset is
released and are a constant; an entry nobody wrote has any value (`Unrouted`).
A core that runs off the end of its program, behind a last EXIT, is taken to do nothing.

`RouterEnv` puts a router between injectors that offer anything at any cycle, also to a
full buffer, and receivers that stall at will.

### HexTb (`hextb.cpp:115-203`)

One action is one iteration of `run`: an edge, then the system calls as the new state
presents them, progress, exit, deadlock and cycle-limit tests in the code's order. The
number of active cores is the number of modelled cores: inactive cores of the hardware
never inject, and an arbiter that only ever sees requests of the first `n` of four
inputs grants them in the same order as one with `n` inputs.

A core that has exited is not stopped: it runs on through what its program has after the
EXIT, with channel operations and all, and the testbench no longer looks at it. `executed` is
a history variable: which cores have executed an EXIT, whether or not the testbench has seen
it. Three networks of rendezvous are told apart: `N`, in which an EXIT stops nobody, which
is what the hardware is (`Implements`); `H`, in which it does, which is what the simulator is and
what the hardware is meant to be (`Agrees`, which run `tb_exit` shows violated); and `G`,
the network of the cores that have not been seen to exit, of which the testbench judges
whether it is stuck (`DeadlockIsReal`).

Left out: an EXIT at address 0, that is at the address `prevPc` starts the first cycle
with, and a single-byte self-branch through `BRB`: both have the same `pc` in all
cycles. Every other loop changes `pc`, since a backward branch needs an NFIX.

### CrossCheck (`tests.py:101-111`)

The tests run one container on the simulator and, for a cross-check, on the hardware.
`CrossCheck` is that: the images of `HexTb`, an instance `S` of the simulator with variables of
its own that runs to its end (`RunSimulator`), and then the testbench cycle by cycle
(`RunTestbench`). `OutcomesAgree` and `DeadlocksAgree` compare the two: who has exited and
with what in `areg`, the exit code, the verdict, and in a deadlock where everybody is. They
are about the networks that are `Comparable`: the simulator has ended, by return or deadlock,
and has left nobody waiting for a processor that is HALTED. Whatever it returns from is among
them, whether or not there is code after the EXITs. What is not is the situation of `tb_exit`,
and only that: somebody waits for a halted processor, which on the hardware may still come.

### Encoding, Isa, Assembler (`hexasm.hpp`, `hexsim.hpp:352-463`, `processor.sv`, `hexdis.hpp`)

`Encoding` has `numNibbles`, `getSize` and the emission of prefixes as operators.
`std::abs` of the most negative number is what the builds produce, itself.

`Isa` has a program in memory, byte by byte, and two processors that start on it: one
`Step` of the simulator (registers, memory, what it has written and read, its exit; where
it throws, `status` says so) and one clock edge of `processor.sv` and `memory.sv`, followed
by `handleSyscall` of the testbench, which looks between the edges. Programs load two
operands of any length and go on with any two bytes; the program may overwrite itself and
jump anywhere in its memory. `HardwareFollows` says how far the two are the same, and names
the one difference that is by design: the testbench serves a call an edge early.
`straight` and `strayed` are history variables: that the program has been executed in
order so far, and that the hardware has gone a way of its own, for one of the two reasons
that section 5 gives (an address it has cut, a READ over itself). The image covers the
memory, so that nobody reads a word that was never written.

`Assembler` has one action per iteration of the inner loop of `resolveLabels`, one for
the outer loop's test, one per iteration of `emitProgramBin`, and the final padding.
A directive is reduced to its kind and its label or operand. The label map keeps the
last of two labels of one name, as `std::map` assignment does. Assertions are not
compiled in: where one fails, the run goes on, and the property states the assertion.

### XLanguage, XGrammar (the reference)

`XLanguage` has the tree (the classes of `xcmp.hpp:718-1281`) and, as recursive
operators, what a program means: the sequence of what it writes, reads, sends, receives
and exits with, given what there is to read. It knows nothing of registers, frames or
symbol tables; a name is looked up in the procedure and then in the program, an array is
passed by its name, a stream or a channel is a source of words. `XGrammar` is the grammar
in the comments of the parser, read in the other direction: the tokens of a tree, with no
bracket too many. `NetworkMeaning` (in `XNetwork`) is the least fixed point of every
process doing what its procedure says with what the others have sent it. None of these is
translated from the compiler, and none is mapped beyond the tree.

### XParser, XSymbols, XCodeGen (`xcmp.hpp:1502-3532`)

`XParser` has an operator for each function of `Parser`; where the code throws, it `Fails`.
`XSymbols` is the symbol table (a function from names to what is known of them, for each
procedure), `ConstProp` with what it accepts, and `OptimiseExpr`.

`XCodeGen` is the code generator. Where the code appends to a `CodeBuffer` and moves the
offset of a `Frame`, the model has values: a generator yields the sequence of directives it
appends. What the code does with `incOffset` ... `setOffset(stackOffset)` is the context a
generator hands to its parts (`In`). `RESERVE n` among the directives is the maximum that
`incOffset` keeps: `GenProc` takes the largest `n` and drops them. Labels are named by their place
in the tree instead of by a counter. Two things that look like mistakes of the model are
the code's: a folded operation ignores the register it is asked for (`GenExpr`), and a
subscript is generated twice (`GenSubscript`).

### XProcessor, XMachine, XNetwork, XDriver, HexSimIO

`XProcessor` is `Processor::step` on a compiled program, with labels resolved and prefixes
combined (`Assembler` and `Isa` are about those), as functions of an image and the state of
a processor. `HexSimIO` is its streams: a file index has one stream, opened by the first
use and in its direction. The files are each processor's own, the console is one for all
(`hexsim.hpp:574` gives every processor the same `istream`): in `XDriver` a character that one
takes is gone for the others (`Sharing`). Which of them gets which then depends on the
order of turns, unless the channels fix it; `NetworkMeaning` gives the console to its readers in
the order of the branches, and the network of the run that reads it makes its processes take turns. `log` and `calls` are history variables.

`XMachine` is one processor. It starts with any program loaded, with and without
`OptimiseDirectives`; what it receives is there from the start.

`XDriver` is the whole way: a text in tokens, `Driver::run` stage by stage (`Parse`,
`Resolve`, `Analyse`, `CompileImage` once for each processor), `Load`, and then `System::run`
turn by turn on the compiled images: `Execute`, `Send`, `Receive`, `Park`, `Unwired`. A
channel that has somebody waiting is a processor in `blocked` at the other end of the edge,
which is the mailbox of `HexSim` (whose `WaiterIsParked` and `ParkedIsRegistered` say that
the two are the same when a channel has one writer and one reader). Slots are given by
`analyseNetwork` from the actuals and by `compileProcessorImage` from the formals, in
two definitions, as in the code.

Not in the model: strings; the lexer; calls of procedure and function formals (the label
they branch to is never defined); `Driver::run` for the actions that print a later stage.
`PoolLimit` stands for 2^16, `WordBits` for 32, `FileStreamBase` and `NumStreams` for 256 and 8.

## 3. Checked

| run | bounds | shows |
|---|---|---|
| `sim_pair` | every pair of 3-instruction programs over OUT/IN on two channels, LDAC, BRZ, ending in EXIT or a loop | `TypeOK`, `FirstToHalt`; `SimulatesFairly`: refinement of `Rendezvous` with its fairness; `StuckIsReported` |
| `sim_ring` | three processors, three channels, all orders of waiting, one processor that may execute what `step` rejects; a limit of 8 rounds | `WaiterIsParked`, `ParkedIsRegistered`, `DeadlockIsReal`, `Simulates`, `EndsByLimit` |
| `router` | three inputs, two contended outputs, any injection and stall pattern | `NoFlitLoss`, `BoundedWait`, pointer in range for a count that is no power of two |
| `cross_pair` | 9025 networks: every pair of programs of three instructions, or with an EXIT in the middle or at the end and code after it, and a third core that exits and runs on; on the simulator, limit 12 rounds, and then on hardware with a testbench, threshold 5, limit 24 cycles | `OutcomesAgree`, `DeadlocksAgree`: what both find is the same; `NoExitIsMissed`, `EndsByLimit` |
| `tb_farm` | 2880 networks of four cores and four slots: three writers contending for one port, workers that write or read or loop, workers and collectors that run on after their EXIT; threshold 7, no limit | `TypeOK`, `OneToken`, `ReceiverIsFree`, `Implements`: refinement of `Rendezvous`; `NobodyIsLeftBehind` (fairness), `DeadlockIsReal`, `StuckIsReported` |
| `tb_exit` | a core with an OUT after its EXIT | violated: see findings |
| `isa` | words of 16 bits, 16 words of memory; operands within 33 of every boundary of their length, of either sign; any two instructions of 80 bytes after four pairs of register values; a READ whose word is before, among or behind the instructions; 14 edges | `OperandIsRebuilt`, `HardwareFollows`, `ListingIsWhatRuns` |
| `asm_mixed` | a reference followed by every five of seven directives (labels, branches, 1- and 4-byte instructions, DATA) | `Terminates`, `EmittedWhereResolved` |
| `asm_settled` | the same programs | violated: see findings |
| `xcmp` | 1022 programs, each with and without the peephole pass: every operator within every other on either side, calls within calls and operators, every statement in both branches of an `if` and in a loop, recursion, arrays, channels and constants as actuals, files and channels read to their end and written | `DoesWhatItSays`: what is seen of the program is what its source means; `FramesAreApart`, `ReturnsToCaller`, `Ends` |
| `xcmp_actuals` | ten programs | violated: see findings |
| `xdriver` | 1240 texts: 14 networks of one to five processes, pipelines, rings, a farm, crossed orders, processes that take turns at the console, either order of the branches and of `main`; 8 that are refused; 8 sequential programs; 877 programs of statements and expressions that are parsed; 333 texts with a token missing, repeated, exchanged or added | `ParsesWhatIsWritten`, `NoUnwiredSlot`, `DoesWhatItSays`, `GoesAsFarAsItSays`, `Ends` (fairness) |

**Bounds.** Two three-instruction programs are enough for every pair of states a channel
can be in at each order of arrival, twice around, with a value that differs from the
initial one. Three processors are the smallest ring, the smallest network in which a
processor that waits has others moving around it, and in which the partner's turn may
be before, after, and not adjacent. Eight rounds take every three-instruction program
round its loop at least twice. In `cross_pair` the twelve rounds of the simulator are more
than a network that ends needs, and the limit takes those that loop out of the comparison; the
24 cycles of the testbench cut off only these and networks that are not `Comparable`. Among the
others are networks that return, that deadlock with and without an exit, that exit with
different codes, and in which a core that has exited comes to a channel its partner is long
past. The code after an EXIT ends in a branch back to the beginning, so that such a core goes
round, through its EXIT again, for as long as the run lasts; in a compiled image it gets
there too, by the return of the procedure it has fallen into, whose link is the 0 that
`_exit` has left in `areg`. The third core does nothing but that, so that somebody is always
moving whom the testbench must not look at. In the router a third input is what tells a round-robin
from an alternation. The farm is the network of the shipped hardware (`NUM_CORES` and
`NUM_LINKS` are four) with the worst contention a tree of channels allows. An operand's
treatment depends on its number of nibbles (1, 2, more), its sign and its low 8 bits:
16 bits have all combinations, 32 add only further PFIX. Two bytes are a prefix and an
instruction, or two instructions of which the first prepares a register, memory or an
address for the second; 14 edges are more than any of the programs needs to reach its EXIT. Assembler programs of six
directives contain two references whose lengths depend on each other, with distances
on both sides of 16.

The compiler's generators look one level into an operand (is it constant, zero, a name,
does it contain a call), so expressions of two levels with every combination of these,
and of three levels where temporaries nest, take every path through them. The parser looks
one token ahead, so that every statement in every other, and one damaged token, are enough
to see each of its decisions taken rightly and wrongly. The networks have each number of
slots up to three, both directions at each of them, channels whose two processes come in
either order, and processes that end, wait for ever or are blocked in a circle.
`MaxTurns` (30) bounds the iteration of `NetworkMeaning`: five processes that have at most
three words each on a channel are at their fixed point long before. The words are
of eight bits, with values far from overflow. Programs of which the meaning depends on
the order of two operands are left out (`Unordered`): "this does not respect
left-to-right ordering" (`xcmp.hpp:2568`). So are those with one of five patterns that
are known to go wrong, which `MCXMachine` defines one by one and section 5 describes;
what `xcmp` shows is that nothing else does.

**The threshold.** `DEADLOCK_THRESHOLD` is 256 cycles. A rendezvous takes a bounded
number of cycles without any `pc` moving; a smaller threshold is a stronger claim. The
model shows that 5 is enough for two cores that communicate (`cross_pair`) and 7 for the farm,
and that with 4 and 6 the testbench reports false deadlocks; for any number of cores it is proved (section 4) that
three more than there are cores are enough. 256 leaves a wide margin.

**Fairness.** `FairSpec` of HexSim, `TbFairSpec` of HexTb, `CrossFairSpec` of CrossCheck,
`FairSpec` of Assembler and of XMachine say only that the program's single loop keeps running: `WF(Next)`; in XDriver it is
`WF(Run \/ EndOfRun)`, the loop of `System::run` alone. Everything else
(that a processor gets its turn, that an arbiter comes round, that a word reaches its
reader) is a consequence that the runs check.

## 4. Proved

With TLAPS, for all values of the constants that satisfy the assumptions named below. The
assumptions are `ASSUME`s of the modules (or, where a theorem needs more, its hypotheses),
and TLC evaluates them on the instances of the runs.

### The simulator (`HexSimProofs`)

For any number of processors, any wiring that gives an
endpoint to one channel only (`WellWired`), any programs and any cycle limit:

* `TypeCorrect`, `WaitersAreParked`, `ParkedAreRegistered`: the inductive invariant is
  `IInv == TypeOK /\ WaiterIsParked /\ ParkedIsRegistered`. None of the three is
  inductive alone. `stepChannel` advances whoever the channel names, so the type of
  `pc` (that it stays inside the program) needs `WaiterIsParked`: the woken processor
  is at a channel operation, which has a successor. `WaiterIsParked` is kept because a
  parked processor is moved by its own channel only, and a channel has two ends
  (`TwoEnds`). `ParkedIsRegistered` needs both.
* `SimulatorImplementsRendezvous` (`Spec => R!Spec`): from `IInv`, each turn maps to
  `Move({p})`, `Move({p, q})` or a stutter. That the word handed over is the writer's
  present `areg`, although it was copied when the writer parked, is the second half of
  `WaiterIsParked`.
* `DeadlocksAreReal`: `result = "deadlock"` means nobody RUNNING and somebody not
  HALTED (`VerdictInv`, which says the like of `returned`); by `ParkedIsRegistered` each BLOCKED processor's partner is
  not at the other half, so nobody is `Ready`.
* `ExitCodeIsOfFirst`: by `HaltInv`, which relates `haltOrder` to statuses and to the
  position in the round: processors that halt in one round do so in order of their ids.

Two more invariants are stated for the cross-check: `ExitTaken` (a run that returns, or
deadlocks with somebody halted, has an exit code, which is that of a halted processor) and `CodeInv` (a halted processor has the
code of the EXIT it is behind).

### The router (`RouterFacts`, `RouterEnvProofs`)

For any number of ports, any packets, and whatever is injected and drained at each edge:

* `RouterTypeCorrect`: `NextPriority` stays below the number of ports, also when that is
  no power of two.
* `NothingIsLost`: from `LossInv`, in which `Marked` (a flit is in the buffer of the input
  that it names as its source) is what makes the flits of two inputs different.
* `WaitIsBounded`: from `WaitInv`. `Distance(i, j)` is how many inputs the arbiter of
  output `j` looks at before input `i`. Every grant to somebody else makes it smaller
  (`DistanceMoves`), so that `passed[i] + Distance + 1 <= NumPorts` is inductive.

`RouterFacts` has what one edge does to an output and to an input (`GrantFacts`,
`ClockFacts`, `DistanceMoves`). `HexRtlProofs` uses it for both routers of the network.

### The hardware network (`HexRtlProofs`)

For any number of cores and slots, any wiring and any programs:

* `TypeCorrect`, from `CoreInv == TypeOK /\ MidOperation`: the states of a link interface
  are those of the operation its core is at, since `busy` stalls the core; without it
  a core could be taken to read an empty buffer.
* `TokenCorrect`: `OneToken` is inductive with `CoreInv`. The proof follows the one token of
  a writer through the five places where it can be (`DibufMoves`, `DobufMoves`, `RxMoves`,
  `AibufMoves`, `AobufMoves`), each of which hands it to the next or keeps it.
* `ReceiverCorrect`, if every channel operation is at a wired slot (`OnlyWired`): from
  `PlacedInv`, which adds that every word is on its way to the endpoint that the route table
  gives for the OUT its writer is at (`Placed`). Two words for one buffer would then be of one
  writer, which has but one.

`OnlyWired` is a hypothesis because it has to be: a word sent by a slot without an entry in
the route table arrives at any core. The simulator rejects such a program
(`hexsim.hpp:309-313`), and the compiler makes none (`NoUnwiredSlot`, run `xdriver`).

### The testbench (`HexTbProofs`)

`TbRunsHardware` (`TbSpec => Spec`) carries the theorems about the hardware over.

* `ExitCorrect`: no core has executed an EXIT that the testbench has not served. A core is at
  an EXIT for one edge only, and a program that does not begin with one is seen there before
  that edge (`ExitInv`); what comes after the EXIT does not matter.
  Hypothesis `RunsToExit`: no rejected instruction, no EXIT at address 0.
* `TestbenchImplementsRendezvous` (`TbSpec => Implements`). The refinement mapping says that a
  writer has gone on as soon as its ACK exists (`RendezvousPc`), which is when its reader
  goes on; so a cycle is a move of the cores at a local instruction, of the readers that
  acknowledge and of the writers they acknowledge (`Moves`), who are all `Ready`
  (`MovesAreReady`). With the theorem about `HexSim` this says that the simulator and
  the hardware are two implementations of one specification, which differ in `Stops` alone.
  Hypotheses: `OnlyWired` and `RunsToExit`. Nothing is assumed of what comes after an EXIT.
* `DeadlockCorrect`: a deadlock is reported only when nobody who has not exited could go on, alone
  or with another who has not, whatever the others do meanwhile. Further hypotheses:
  `NumProcs + 3 <= Threshold`, and `NoSelfBranch`. The proof bounds the number of cycles a
  rendezvous takes: once a writer and its reader face each other, `Left` counts down in every
  cycle in which nothing moves. `Left` is an upper bound on the injection, the grants the
  word may have to wait for (`Wait`, from the distance of the router; the reader's own input
  is one that is not in the way, because the reader is not writing), the delivery and the
  acknowledgement, and `noProgress + Left <= NumProcs + 4` is what `Timely` says. ACKs do not
  wait at all (`AcksDoNotWait`): nobody but the partner sends one to a writer. Cores that have
  exited take part in the contention, and are counted. The bound is
  tight: with one cycle less TLC finds a false deadlock for two cores and for four.

The code satisfies the last two: `DEADLOCK_THRESHOLD` is 256 for at most four cores, and a
backward branch has a negative operand and therefore an NFIX, so that no branch goes to its own
first byte. A single-byte branch to itself by BRB is excluded as it is in the model (section 2).

### The processors (`IsaProofs`)

For any programs, size of word and of memory:

* `RegistersAreWords`: `TypeInv`, which adds types of the hosts and of the hardware's memory.
* `ProcessorsAgree`: `HardwareFollows` is not inductive. `Follows` adds that the hardware is
  about to execute the same byte, and, at an SVC, that its memory and host are those the
  simulator will have after it (`Ahead`). `EdgeMatches` is the step, one case per instruction,
  `CallsAgree` that both see the same call in the next one. The proof did not go through with
  the property as it first stood: a READ whose word holds the SVC itself is served before the
  SVC executes. TLC confirmed it, and it is now part of `strayed` and of section 5.

* `ListingIsRight`: `Lists` says that, in a program that has been executed in order so far,
  `oreg` is what the fold of the disassembler (`Left`) has in front of the next byte, and the
  program is in memory as it was loaded. The listing starts at address 0 and the processor
  jumps over the stack pointer; they meet behind it, because the highest byte of a stack
  pointer is no prefix, whatever the disassembler took the bytes before it for.
* `OperandsAreRebuilt`: `Rebuilds` says where a program is after each clock edge up to the last
  byte of its second operand, and `Partial(v, k)` what the first `k` bytes of an operand `v` leave
  in `oreg`: the top nibbles of `v`, shifted, cut to a word. `PartialNext` is the arithmetic of
  one more: PFIX shifts in a nibble, an NFIX in front makes the sign, since what is above the
  top nibble of a negative operand is all ones (`SignAbove`, from `numNibbles`).

Both rest on what the loaders put into memory (`Layout`, `ImageType`, `ByteOfImage`, `Digits`: the
byte at an address of the image is the byte of the program). That is induction over data. It
is done on sets of numbers (`SetInduction`, from the well-foundedness of `<`); that a recursive
function has the values its equations say follows from the existence of one (`Recursion`).

Assumptions: `IsaAssumption` (a word has two to eight bytes, so that the branch over two of them
is one instruction), `AddressAssumption` (an address of the hardware is the low bits of a word:
21 of 32), `FitAssumption` (the program fits into memory), `ProgramsAssumption`, and
`PowersAssumption`, which is what a power is, the provers having no definition of one.
`ListingIsWhatRuns` is about execution in order only, and `OperandIsRebuilt` leaves out the most
negative number, in the theorems as in the runs.

### The cross-check (`CrossCheckProofs`)

For any network, any cycle limits and whatever the two runs do, at every point of the
hardware's run, of every network that is `Comparable` (section 2): those the simulator returns
from, and those it finds deadlocked with nobody waiting for a halted processor. The programs
may have any code after their EXITs, as compiled images do.

* `OutcomeCorrect`: a core that exits on the hardware is halted in the simulator, with the
  `areg` it came to its EXIT with; the exit code of the testbench is one a processor gives in
  the simulator, and the same as the simulator's if all that exit give the same; and the
  testbench returns only if the simulator did.
* `DeadlockOutcomeCorrect`: when the testbench reports a deadlock, so does the simulator, the same
  processors have exited, and every other has stopped at the same instruction with the same `areg`.
* `CrossCheckCorrect`: both, of `CrossSpec`.

That both refine `Rendezvous` is not enough for this: two runs of one specification may take
different moves. The proof is that its moves commute. `Diamond` says of the states of a network
(`State`: who is where, with what) that two moves from one state lead to states from which one
state can be come to by at most one move each. A processor that can move stays able to while
others do, and its move is then the same, because a channel has two ends (`LeftAlone`,
`RestIsMovable`). A final state that can be come to from a state can therefore still be come to
after any move (`FinalIsKept`), and from a final state there is only itself. `LeadsTo(p, s, t)` is
that `t` is in every set that has `s` and is closed under moves, which makes each of these an
argument about one set and no induction over the length of a run.

`SimReach` carries along the simulator that its state can be come to from the start;
`SimEnd` that it is final when it stops, which is `DeadlocksAreReal` and `VerdictInv`, so that a
comparable network has come to an `Outcome`: a final state in which nobody waits for a halted
processor (`SimOutcome`).

The hardware's network has other moves: cores that have executed an EXIT go on. `TbState(f)` is
its state with each of these clipped to where it is in the outcome `f`. A move of the hardware is
then a move there of the cores that have not exited, and nothing for the rest (`TbSteps`),
provided that no core that has not is matched with one that has. That is `Parted`: such a core
would wait, in a network of processors that stop, for one that has halted, and would do so
for ever (`HaltedIsNotServed`), while in `f` nobody does. So `f` can be come to from `TbState(f)`
all along (`TbReach`). A core that is about to execute an EXIT is there at the EXIT it is
halted behind in `f` (`ExitedInv`), which gives `OutcomeCorrect`.

For deadlocks, a core that has not exited and cannot move with another that has not, by
`DeadlockCorrect`, cannot move in `TbState(f)` either, which is therefore final, and *is* `f`
(`DeadlockIsOutcome`). For that, no rendezvous may be half done at the verdict, a writer still
waiting for the ACK of a word that has been read: the reader has not exited either, so that
the testbench has seen it move, and the ACK is there one edge later (`ServedInv`, `ReaderMoves`).

Hypotheses: `OnlyWired` and `RunsToExit`, and for deadlocks `NoSelfBranch` and
`NumProcs + 3 <= Threshold`. The last three hold of what the compiler emits and the testbench is
built with. `OnlyWired` is about the code after an EXIT too. Up to it, the compiler uses wired
slots only (`NoUnwiredSlot`). After it, the first procedure of the source runs once, with
whatever is above the stack pointer for its formals, and returns to the beginning of the image. In
the containers of `tests.py:113-144` that procedure is `putval`, which has no channel: they are
within the hypotheses. A first procedure that has channels takes their slots from words that
nobody has passed, and one of these may be a slot that is not wired. `Comparable` leaves out the
situation of run `tb_exit`, where the two do differ.
What is not claimed: which exit code comes out when processors exit with different ones (it
depends on the schedule, and does differ), and anything of a network that neither returns nor
deadlocks in the simulator. That the testbench also ends is `StuckIsReported` and
`NobodyIsLeftBehind`, which are liveness.

### The assembler (`AssemblerProofs`)

For every program: `EmissionCorrect`. `Chained` says that each offset follows from that of the
directive before and from the *present* operands. It holds in every pass for what has been
gone over, and at the end for all; emission recomputes the same chain. That the operands are
those of the labels is not part of it, and false (`asm_settled`).

### Only model-checked

* Liveness: `SimulatesFairly`, `StuckIsReported`, `NobodyIsLeftBehind`, `EndsByLimit`,
  `Terminates`, `Ends`, which need fairness and `ENABLED`.
* The compiler: `XMachine` and `XDriver`. Its modules are recursive over trees, which the
  prover cannot use.

Assumptions on constants, besides those above: `SizeAssumption`, `EdgesAssumption`,
`ImagesAssumption` (HexPrograms), `MaxCyclesAssumption`, `TbAssumption`, `UnroutedAssumption`,
`PortAssumption`, `FlitAssumption`, `EnvAssumption`, `WordAssumption`, `CrossCheckAssumption`. A
container with no processors is not covered; `WellWired` is what the compiler's
`analyseNetwork` produces. `MCHexTb` assumes the hypotheses of the testbench's theorems of its
programs (`HypothesesAssumption`), so that TLC evaluates them too, in all runs of the testbench.

## 5. Findings

* **Stale references** (`hexasm.hpp:738`, run `asm_settled`). Resolution stops when the
  total size repeats, though labels moved. `BR b; LDAC 0; b; OPR ADD; DATA 0` assembles
  to a branch of operand 2, that jumps to 3; `b` is at 2.
* **Actuals over kept values** (`xcmp.hpp:3084`, run `xcmp_actuals`). In
  `f(a - (b - c), g(7))` the temporary for `b - c` is put where the value of `g(7)` is
  kept, and becomes the second actual (`OverCall`).
* **Code after EXIT** (`hextb.cpp:158`, run `tb_exit`). The simulator halts a processor at
  EXIT; the testbench merely stops looking, and the core can still complete channel
  operations. `tests.py:102-104` has the two as a cross-check that agrees. This is not about
  unusual programs: every compiled image has its procedures right after its EXIT
  (`xcmp.hpp:3258`), and runs into them. As long as they use wired slots, they do
  no harm to a network that the simulator returns from, nor to one that deadlocks with nobody
  waiting for a halted processor (`CrossCheckCorrect`); the word of an unwired slot goes to
  any core (section 4). Where the simulator has a processor wait for a halted one
  for ever, the hardware may come to serve it, and the verdicts differ: that is `tb_exit`.

Met while modelling, and without a run of their own. The assembler and the code generator:

* Distance 17 (`hexasm.hpp:303`): `instrLen` takes two bytes for the branch, what is left
  of the distance is 15 and emitted with one, and the branch falls one short. With
  `LDAC x; BR b; <16 bytes>; b; <45 bytes>; x`, where the first reference grows only when
  the label is known, that is where resolution ends.
* A folded operation as right operand goes to `areg` (`xcmp.hpp:2590`), over the left one:
  `x - (2 - 1)` (`FoldedOperand`).
* `and`, `or` of constants are folded to 0 or 1 (`xcmp.hpp:2184-2189`), where the code for
  them gives the value of the second operand (`FoldedTruth`).
* An actual with several temporaries overwrites actuals that are in place already
  (`OverActual`): `f(x, (a - (b - c)) - (d - e))`.
* A call in a subscript is made twice (`xcmp.hpp:754-759` and 2721; `EffectInSubscript`).
* `if f() then skip else skip` does not call `f` (`xcmp.hpp:2779`), `<` is wrong when the
  subtraction overflows (2652), and a program with fewer than two words of arrays stores
  behind the memory when it exits (3338, 2317).
* A label in front of DATA has the address before the padding (`hexasm.hpp:749`):
  `LDAC 0; lab; DATA 5; LDAM lab` fails the assertion at 773.
* The most negative number is encoded as -256 (`hexasm.hpp:283`, `std::abs`); `OperandIsRebuilt`
  leaves it out.

The rest of the compiler:

* A channel of which both ends are one process is accepted (`xcmp.hpp:3720`, which says
  "must connect exactly two processes") and deadlocks; run `xdriver` has one, and its reference meaning waits in the same way, so that
  no property objects. One end that
  both reads and writes, with another that does neither, is accepted too (3729).
* Directions are those of the entry procedure's own text (3631): a process that hands its
  channel to a helper is refused, and what a helper does beyond that is not looked at. The
  actuals of a branch may be any names, not only channels; the entry may be a function, of
  which the formals are then found one word off.
* One token of any kind after the last procedure is dropped (1965).
* A `par` that is not the body of `main` is compiled to a sequence of calls (1164).
* A local channel of a sequential procedure has no place in the frame (3224-3231), and a
  local variable has, besides, a word of data that nobody uses (3293). A `val` whose value
  is not constant, or is looked up before it is declared, has none (2148).
* Of two procedures of one name `findProc` takes the first, the code the last. Calls of
  `proc` and `func` formals branch to a label that is not there. The number of actuals is
  not checked, but for branches; formals declared `var` are passed by value.

The processors, their streams and the disassembler:

* The testbench serves a READ before the SVC of it has executed (`hextb.cpp:158`, `handleSyscall`).
  If `sp + 1` is the word that holds the SVC, the hardware executes the character instead of
  what is left of the call, and the simulator executes the call (`HwReadsOverItself`).
* The hardware keeps 21 bits of the address that LDAP puts into `areg` (`strayed` in `Isa`).
  Where the simulator throws (opcode 12, an operation beyond OUT or with a prefix in front,
  a system call above 2, a channel that is not wired) the hardware goes on in its own
  way: the operation is the low nibble alone, the call `areg` modulo 4. An SVC that is the
  very first instruction is never seen by the testbench. An address beyond the memory is
  undefined behaviour in the simulator, and a word that the image does not cover is
  uninitialised.
* A file index of the simulator is for reading or for writing, whichever comes first
  (`hexsimio.hpp:41`, 56): what is then written is lost, what is then read is the end of the
  file. Each simulated processor has files of its own, and all have one
  console (`hexsim.hpp:574`); the testbench has one set for all cores.
* The disassembler carries `oreg` on through data words: what it lists after them may have
  the operand of a prefix that never runs.

## 6. Not modelled, and the plan

Every safety invariant and step property of the network, the processors and the assembler that
a run checks is proved. What could be added:

1. The parts of the compiler's models that are not recursive: the frames of `XProcessor`, the
   mailboxes of `XDriver` against those of `HexSim`. They are reached through recursive modules
   now, and would have to be taken out of them first.
2. The passes of the assembler by a theorem on what holds when they are settled, that is when
   no label moves in the last one; `asm_settled` shows that the code does not wait for that.

Left out for good: the lexers (characters to tokens, without state that matters beyond the
line they are in), the assembler's parser, AST printing and text listings; strings, which
are data that nothing here computes with; option parsing in `tools/`; the byte layout of
images and containers and the debug symbols, beyond what the models carry; tracing;
`rtl/hex.sv` and `rtl/processor.v`, which the network does not use.
