---------------------------------- MODULE Isa ----------------------------------
(***************************************************************************)
(* One program on the simulated processor (Processor::step of              *)
(* src/hexsim.hpp) and on the hardware one (rtl/processor.sv,              *)
(* rtl/memory.sv, with handleSyscall of tools/hextb.cpp), in lock-step:    *)
(* an instruction of the one for every clock edge of the other.            *)
(*                                                                         *)
(* The program is given by its source instructions, which the assembler    *)
(* encodes, and by bytes that are in memory as they stand: they may be any *)
(* instructions, with prefixes or without.  The image covers the memory,   *)
(* so that nothing uninitialised is read; a channel is never wired here.   *)
(***************************************************************************)
EXTENDS Encoding, SequencesExt

CONSTANTS
  MemoryWords,   \* hex::MAX_MEMORY_SIZE_WORDS
  AddressBits,   \* hex_pkg::MEM_ADDR_WIDTH
  StackPointer,  \* the second word of the image
  Programs,      \* the programs to run: see IsProgramSource
  MaxClock       \* bound: clock edges

WordBytes == WordNibbles \div 2

AddressSize == 2 ^ AddressBits

HwWords == AddressSize \div WordBytes

\* A word has two bytes or more, and so few that the branch over two of them is one
\* instruction; the hardware has no less memory than the simulator.
ASSUME IsaAssumption ==
  /\ 2 * WordBytes = WordNibbles /\ WordBytes \in 2 .. 8
  /\ MemoryWords \in Nat /\ MemoryWords * WordBytes <= AddressSize
  /\ StackPointer \in 2 .. MemoryWords - 1
  /\ MaxClock \in Nat

\* A hardware address, of a byte or of a word, is the low bits of a word.
ASSUME AddressAssumption ==
  /\ WordSize % AddressSize = 0 /\ WordSize % HwWords = 0
  /\ HwWords * WordBytes = AddressSize

\* What a power is.
ASSUME PowersAssumption ==
  /\ 16 ^ 0 = 1 /\ \A i \in 0 .. WordNibbles - 1 : 16 ^ (i + 1) = 16 * 16 ^ i
  /\ 256 ^ 0 = 1 /\ \A i \in 0 .. WordBytes - 1 : 256 ^ (i + 1) = 256 * 256 ^ i
  /\ AddressSize \in Nat \ {0}

\* A program loads its two registers, and goes on with the bytes of its body.
IsProgramSource(p) ==
  /\ p.a \in Int32
  /\ p.b \in Int32
  /\ p.body \in Seq(0 .. 255)

ASSUME ProgramsAssumption == \A p \in Programs : IsProgramSource(p)

--------------------------------------------------------------------------------
(***************************************************************************)
(* The image.                                                              *)
(***************************************************************************)
Opcode == <<"LDAM", "LDBM", "STAM", "LDAC", "LDBC", "LDAP", "LDAI", "LDBI", "STAI",
            "BR", "BRZ", "BRN", "NONE", "OPR", "PFIX", "NFIX">>

OprInstr == <<"BRB", "ADD", "SUB", "SVC", "IN", "OUT">>

Code == [op \in ToSet(Opcode) |-> CHOOSE code \in 0 .. 15 : Opcode[code + 1] = op]

Assembled(op, v) ==
  [i \in 1 .. Size(v) |->
     16 * (IF i = Size(v) THEN Code[op] ELSE Code[Prefix(v, i)]) + Nibble(v, Size(v) - i)]

\* The program starts with a branch over the stack pointer, and ends by EXIT.
CodeBytes(p) ==
  Assembled("BR", 2 * WordBytes - 1) \o [i \in 1 .. WordBytes - 1 |-> 0]
  \o [i \in 1 .. WordBytes |-> (StackPointer \div 256 ^ (i - 1)) % 256]
  \o Assembled("LDAC", p.a) \o Assembled("LDBC", p.b) \o p.body
  \o Assembled("LDAC", 0) \o Assembled("OPR", 3)

\* Words are little-endian.
WordAt(bytes, address) ==
  LET low[n \in 0 .. WordBytes] ==   \* the lowest n bytes
        IF n = 0 THEN 0
        ELSE low[n - 1] + 256 ^ (n - 1) * (IF address * WordBytes + n \in DOMAIN bytes
                                           THEN bytes[address * WordBytes + n] ELSE 0)
  IN  low[WordBytes]

\* What the loaders put into memory.
Image(bytes) == [i \in 0 .. MemoryWords - 1 |-> WordAt(bytes, i)]

\* The byte at an address of a memory.
ByteAt(mem, address) == (mem[address \div WordBytes] \div 256 ^ (address % WordBytes)) % 256

\* A program is no larger than the memory it is loaded into.
ASSUME FitAssumption == \A p \in Programs : Len(CodeBytes(p)) <= MemoryWords * WordBytes

\* disassemble: the operand printed for every byte, which is that of the byte, and
\* what the prefixes before it have left.
Listed_NoShift(oreg, byte) ==
  CASE byte \div 16 = 14 -> oreg + (byte % 16)
    [] byte \div 16 = 15 -> (WordSize - 256) + ((oreg + (byte % 16)) % 256)
    [] OTHER -> 0

Listed(oreg, byte) ==
  CASE byte \div 16 = 14 -> ((oreg + (byte % 16)) * 16) % WordSize
    [] byte \div 16 = 15 -> (WordSize - 256) + (((oreg + (byte % 16)) * 16) % 256)
    [] OTHER -> 0

Listing(bytes) ==
  LET left[n \in 0 .. Len(bytes)] ==   \* oreg, after n bytes
        IF n = 0 THEN 0 ELSE Listed(left[n - 1], bytes[n])
  IN  [i \in DOMAIN bytes |-> left[i - 1] + (bytes[i] % 16)]

--------------------------------------------------------------------------------
VARIABLES
  program,   \* the source, what the disassembler lists for it, and its bytes
  pc, areg, breg, oreg, memory,   \* the simulated processor
  status,    \* of the simulated processor
  host,      \* what its system calls have done
  hw,        \* the hardware processor, its memory, and its host
  clock,     \* history: the instructions executed
  straight,  \* history: every one was the next byte of the program as it was loaded
  strayed    \* history: the hardware has gone a way of its own

vars == <<program, pc, areg, breg, oreg, memory, status, host, hw, clock, straight, strayed>>

NewHost == [out |-> <<>>, reads |-> 0, exit |-> <<>>]

\* The loader of either machine, and their reset.
Init ==
  /\ \E p \in Programs : \E bytes \in {CodeBytes(p)} :
       program = [a |-> p.a, b |-> p.b, bytes |-> bytes, listing |-> Listing(bytes)]
  /\ pc = 0 /\ areg = 0 /\ breg = 0 /\ oreg = 0
  /\ memory = Image(program.bytes)
  /\ status = "running"
  /\ host = NewHost
  /\ hw = [pc |-> 0, areg |-> 0, breg |-> 0, oreg |-> 0, host |-> NewHost,
           memory |-> [i \in 0 .. HwWords - 1 |->
                         IF i < MemoryWords THEN memory[i] ELSE 0]]
  /\ clock = 0
  /\ straight = TRUE
  /\ strayed = FALSE

--------------------------------------------------------------------------------
(***************************************************************************)
(* System calls: what they do with the memory and the host, for the        *)
(* simulator and the testbench alike.  The n-th character read is n.       *)
(***************************************************************************)
SP(mem) == mem[1]

\* The words a system call looks at.
SyscallWords(call, mem) ==
  CASE call = 0 -> {SP(mem) + 2}
    [] call = 1 -> {SP(mem) + 2, SP(mem) + 3}
    [] call = 2 -> {SP(mem) + 1, SP(mem) + 2}

SyscallHost(call, mem, h) ==
  CASE call = 0 -> [h EXCEPT !.exit = <<mem[SP(mem) + 2]>>]
    [] call = 1 -> [h EXCEPT !.out = Append(@, <<mem[SP(mem) + 2] % 256, mem[SP(mem) + 3]>>)]
    [] call = 2 -> [h EXCEPT !.reads = @ + 1]

SyscallMemory(call, mem, h) ==
  IF call = 2 THEN [mem EXCEPT ![SP(mem) + 1] = (h.reads + 1) % 256] ELSE mem

--------------------------------------------------------------------------------
(***************************************************************************)
(* The simulated processor.                                                *)
(***************************************************************************)
InMemory(word) == word < MemoryWords

\* The instruction is fetched, when there is one.
Byte == ByteAt(memory, pc)

Op == Opcode[Byte \div 16 + 1]

Operand == oreg + (Byte % 16)

\* The operation of OPR; the cast drops all but the low byte of the operand.
Opr == IF Operand % 256 < 6 THEN OprInstr[(Operand % 256) + 1] ELSE "NONE"

Fetched == status = "running" /\ InMemory(pc \div WordBytes)

Goes(to) == pc' = to % WordSize

Clears == oreg' = 0

\* The word of memory that a load or a store is about.
DataAddress ==
  CASE Op \in {"LDAM", "LDBM", "STAM"} -> Operand
    [] Op = "LDAI" -> (areg + Operand) % WordSize
    [] Op \in {"LDBI", "STAI"} -> (breg + Operand) % WordSize

Load ==
  /\ Op \in {"LDAM", "LDBM", "LDAI", "LDBI"}
  /\ InMemory(DataAddress)
  /\ areg' = IF Op \in {"LDAM", "LDAI"} THEN memory[DataAddress] ELSE areg
  /\ breg' = IF Op \in {"LDBM", "LDBI"} THEN memory[DataAddress] ELSE breg
  /\ Goes(pc + 1)
  /\ Clears
  /\ UNCHANGED <<memory, status, host>>

Store ==
  /\ Op \in {"STAM", "STAI"}
  /\ InMemory(DataAddress)
  /\ memory' = [memory EXCEPT ![DataAddress] = areg]
  /\ Goes(pc + 1)
  /\ Clears
  /\ UNCHANGED <<areg, breg, status, host>>

Constant ==
  /\ Op \in {"LDAC", "LDBC", "LDAP"}
  /\ areg' = CASE Op = "LDAC" -> Operand
               [] Op = "LDAP" -> (pc + 1 + Operand) % WordSize
               [] Op = "LDBC" -> areg
  /\ breg' = IF Op = "LDBC" THEN Operand ELSE breg
  /\ Goes(pc + 1)
  /\ Clears
  /\ UNCHANGED <<memory, status, host>>

Taken ==
  \/ Op = "BR"
  \/ Op = "BRZ" /\ areg = 0
  \/ Op = "BRN" /\ areg >= WordSize \div 2

Branch ==
  /\ Op \in {"BR", "BRZ", "BRN"}
  /\ Goes(IF Taken THEN pc + 1 + Operand ELSE pc + 1)
  /\ Clears
  /\ UNCHANGED <<areg, breg, memory, status, host>>

Prefixed_NotShifted ==
  /\ Op \in {"PFIX", "NFIX"}
  /\ oreg' = IF Op = "PFIX" THEN (Operand * 16) % WordSize
             ELSE (WordSize - 256) + (Operand % 256)
  /\ Goes(pc + 1)
  /\ UNCHANGED <<areg, breg, memory, status, host>>

Prefixed ==
  /\ Op \in {"PFIX", "NFIX"}
  /\ oreg' = IF Op = "PFIX" THEN (Operand * 16) % WordSize
             ELSE (WordSize - 256) + ((Operand * 16) % 256)
  /\ Goes(pc + 1)
  /\ UNCHANGED <<areg, breg, memory, status, host>>

Operate ==
  /\ Op = "OPR"
  /\ Opr \in {"BRB", "ADD", "SUB"}
  /\ areg' = CASE Opr = "ADD" -> (areg + breg) % WordSize
               [] Opr = "SUB" -> (areg - breg) % WordSize
               [] Opr = "BRB" -> areg
  /\ Goes(IF Opr = "BRB" THEN breg ELSE pc + 1)
  /\ Clears
  /\ UNCHANGED <<breg, memory, status, host>>

Svc ==
  /\ Op = "OPR"
  /\ Opr = "SVC"
  /\ areg \in 0 .. 2
  /\ \A word \in SyscallWords(areg, memory) : InMemory(word)
  /\ host' = SyscallHost(areg, memory, host)
  /\ memory' = SyscallMemory(areg, memory, host)
  /\ status' = IF areg = 0 THEN "halted" ELSE status
  /\ Goes(pc + 1)
  /\ Clears
  /\ UNCHANGED <<areg, breg>>

\* The simulator rejects the instruction.
Throws ==
  /\ \/ Op = "NONE"
     \/ Op = "OPR" /\ Opr \in {"NONE", "IN", "OUT"}
     \/ Op = "OPR" /\ Opr = "SVC" /\ areg \notin 0 .. 2
  /\ status' = "thrown"
  /\ UNCHANGED <<pc, areg, breg, oreg, memory, host>>

\* An index beyond the array that is the memory: nothing is promised from here on.
Leaves ==
  /\ \/ Op \in {"LDAM", "LDBM", "LDAI", "LDBI", "STAM", "STAI"} /\ ~InMemory(DataAddress)
     \/ /\ Op = "OPR" /\ Opr = "SVC" /\ areg \in 0 .. 2
        /\ \E word \in SyscallWords(areg, memory) : ~InMemory(word)
  /\ status' = "undefined"
  /\ UNCHANGED <<pc, areg, breg, oreg, memory, host>>

LeavesByFetch ==
  /\ status = "running"
  /\ ~InMemory(pc \div WordBytes)
  /\ status' = "undefined"
  /\ UNCHANGED <<pc, areg, breg, oreg, memory, host>>

Step ==
  \/ Fetched /\ (Load \/ Store \/ Constant \/ Branch \/ Prefixed \/ Operate \/ Svc
                  \/ Throws \/ Leaves)
  \/ LeavesByFetch

--------------------------------------------------------------------------------
(***************************************************************************)
(* The hardware processor: what its nets are, for its registers in h.      *)
(***************************************************************************)
HwByte(h) == ByteAt(h.memory, h.pc)

HwOp(h) == Opcode[HwByte(h) \div 16 + 1]

\* Of the operand of OPR only the four bits of the byte itself.
HwOpr(h) == IF HwByte(h) % 16 < 6 THEN OprInstr[(HwByte(h) % 16) + 1] ELSE "NONE"

HwIs(h, opr) == HwOp(h) = "OPR" /\ HwOpr(h) = opr

\* opr_d
HwOperand(h) == h.oreg + (HwByte(h) % 16)

HwTaken(h) ==
  \/ HwOp(h) = "BR"
  \/ HwOp(h) = "BRZ" /\ h.areg = 0
  \/ HwOp(h) = "BRN" /\ h.areg >= WordSize \div 2

HwNextPc(h) ==
  CASE HwTaken(h) -> (h.pc + 1 + HwOperand(h)) % AddressSize
    [] HwIs(h, "BRB") -> h.breg % AddressSize
    [] OTHER -> (h.pc + 1) % AddressSize

HwNextOreg(h) ==
  CASE HwOp(h) = "PFIX" -> (HwOperand(h) * 16) % WordSize
    [] HwOp(h) = "NFIX" -> (WordSize - 256) + ((HwOperand(h) * 16) % 256)
    [] OTHER -> 0

\* o_d_addr
HwDataAddress_ByBreg(h) ==
  CASE HwOp(h) \in {"LDAM", "LDBM", "STAM"} -> HwOperand(h) % HwWords
    [] HwOp(h) \in {"LDAI", "LDBI", "STAI"} ->
         (h.breg + HwOperand(h)) % HwWords

HwDataAddress(h) ==
  CASE HwOp(h) \in {"LDAM", "LDBM", "STAM"} -> HwOperand(h) % HwWords
    [] HwOp(h) = "LDAI" -> (h.areg + HwOperand(h)) % HwWords
    [] HwOp(h) \in {"LDBI", "STAI"} -> (h.breg + HwOperand(h)) % HwWords

HwNextAreg(h) ==
  CASE HwOp(h) \in {"LDAM", "LDAI"} -> h.memory[HwDataAddress(h)]
    [] HwOp(h) = "LDAC" -> HwOperand(h)
    [] HwOp(h) = "LDAP" -> (h.pc + 1 + HwOperand(h)) % AddressSize
    [] HwIs(h, "ADD") -> (h.areg + h.breg) % WordSize
    [] HwIs(h, "SUB") -> (h.areg - h.breg) % WordSize
    [] OTHER -> h.areg

HwNextBreg(h) ==
  CASE HwOp(h) \in {"LDBM", "LDBI"} -> h.memory[HwDataAddress(h)]
    [] HwOp(h) = "LDBC" -> HwOperand(h)
    [] OTHER -> h.breg

HwNextMemory(h) ==
  IF HwOp(h) \in {"STAM", "STAI"}
  THEN [h.memory EXCEPT ![HwDataAddress(h)] = h.areg] ELSE h.memory

\* A clock edge of processor and memory.  No IN or OUT gets here.
HwClocked(h) ==
  [h EXCEPT !.pc = HwNextPc(h), !.oreg = HwNextOreg(h),
            !.areg = HwNextAreg(h), !.breg = HwNextBreg(h),
            !.memory = HwNextMemory(h)]

\* The testbench sees, after the edge, a system call that is about to execute, and
\* the low two bits of areg; 3 is invalid, and a core that has exited is ignored.
\* A word of the call beyond the memory is beyond that of the simulator too.
HwCalls(h) ==
  /\ HwIs(h, "SVC")
  /\ h.areg % 4 # 3
  /\ h.host.exit = <<>>
  /\ SyscallWords(h.areg % 4, h.memory) \subseteq DOMAIN h.memory

HwServed(h) ==
  IF HwCalls(h)
  THEN [h EXCEPT !.memory = SyscallMemory(h.areg % 4, @, h.host),
                 !.host = SyscallHost(h.areg % 4, h.memory, @)]
  ELSE h

\* The character of a READ goes over the call itself, which is still to execute.
HwReadsOverItself(h) ==
  HwCalls(h) /\ h.areg % 4 = 2 /\ SP(h.memory) + 1 = h.pc \div WordBytes

--------------------------------------------------------------------------------
\* LDAP has made an address the hardware does not have.
WideAddress == Fetched /\ Op = "LDAP" /\ areg' >= AddressSize

InProgram(word) == word * WordBytes < Len(program.bytes)

\* The bound is on both machines.
Tick ==
  /\ clock < MaxClock
  /\ Step
  /\ \E edge \in {HwClocked(hw)} :
       /\ hw' = HwServed(edge)
       /\ strayed' = (strayed \/ WideAddress \/ HwReadsOverItself(edge))
  /\ clock' = clock + 1
  /\ straight' = (/\ straight
                  /\ clock > 0 => pc' = pc + 1
                  /\ \A i \in DOMAIN memory : InProgram(i) => memory'[i] = memory[i])
  /\ UNCHANGED program

Ended == (clock = MaxClock \/ status # "running") /\ UNCHANGED vars

Next == Tick \/ Ended

Spec == Init /\ [][Next]_vars

--------------------------------------------------------------------------------
(***************************************************************************)
(* Properties.                                                             *)
(***************************************************************************)
\* Registers are words, and the low nibble of oreg is free for the next operand.
TypeOK ==
  /\ {pc, areg, breg} \subseteq 0 .. WordSize - 1
  /\ oreg \in 0 .. WordSize - 1 /\ oreg % 16 = 0
  /\ memory \in [0 .. MemoryWords - 1 -> 0 .. WordSize - 1]
  /\ {hw.areg, hw.breg} \subseteq 0 .. WordSize - 1
  /\ hw.pc \in 0 .. AddressSize - 1

\* LDAC and LDBC load the operands of the source, whatever their sign and length:
\* the assembler's prefixes neither lose nor add a bit.  (The branch at the start
\* is one instruction.)
OperandIsRebuilt ==
  /\ program.a # MinInt /\ clock = 1 + Size(program.a) => areg = program.a % WordSize
  /\ /\ {program.a, program.b} \cap {MinInt} = {}
     /\ clock = 1 + Size(program.a) + Size(program.b)
     => breg = program.b % WordSize

\* As long as the simulator has not rejected an instruction or left its memory, the
\* hardware has the same registers and the same memory, and its system calls have
\* had the same effects; it is ahead by the call that executes next.  It goes a way
\* of its own after LDAP of an address it does not have, and at a READ over itself.
HardwareFollows ==
  status \in {"running", "halted"} /\ ~strayed =>
    /\ hw.pc = pc % AddressSize
    /\ hw.areg = areg /\ hw.breg = breg /\ hw.oreg = oreg
    /\ status = "halted" \/ ~HwIs(hw, "SVC") =>
         /\ hw.host = host
         /\ \A i \in DOMAIN memory : hw.memory[i] = memory[i]

\* The listing of the disassembler gives every instruction the operand it has when
\* control comes to it from the one before.
ListingIsWhatRuns ==
  status = "running" /\ straight /\ clock > 0 /\ pc < Len(program.bytes) =>
    Operand = program.listing[pc + 1]
================================================================================
