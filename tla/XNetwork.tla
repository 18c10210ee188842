-------------------------------- MODULE XNetwork --------------------------------
(***************************************************************************)
(* Networks in X (namespace network of src/xcmp.hpp): a program of which   *)
(* main is a par is one processor for each branch, and a channel joins the *)
(* two actuals that bear its name.  First what the compiler makes of it,   *)
(* then what it means.                                                     *)
(***************************************************************************)
EXTENDS XSymbols

NumLinks == 4

ProcsNamed(program, name) == {i \in DOMAIN program.procs : program.procs[i].name = name}

\* findProc, of a name that there is.
FindProc(program, name) == program.procs[Min(ProcsNamed(program, name))]

\* getTopLevelPar does not give nullptr.
IsNetwork(program) ==
  ProcsNamed(program, "main") # {} /\ FindProc(program, "main").body.kind = "par"

Branches(program) ==
  LET branches == FindProc(program, "main").body.branches
  IN  [p \in DOMAIN branches |-> branches[p].call]

\* ChannelDirections: the names with which s itself outputs, or inputs.
RECURSIVE Channels(_, _)

Channels(s, kind) ==
  CASE s.kind = kind -> IF s.chan.kind = "ref" THEN {s.chan.name} ELSE {}
    [] s.kind = "if" -> Channels(s.then, kind) \cup Channels(s.else, kind)
    [] s.kind = "while" -> Channels(s.body, kind)
    [] s.kind = "seq" -> UNION {Channels(t, kind) : t \in ToSet(s.stmts)}
    [] OTHER -> {}

\* The ends of channels: an actual of a branch, which is a link slot of a processor.
ChannelActuals(program) ==
  LET calls == Branches(program)
  IN  {<<p, k>> \in (DOMAIN calls) \X (1 .. NumLinks) : k \in DOMAIN calls[p].args}

Endpoint_Reversed(program, p, k) ==
  LET call == Branches(program)[p]
      entry == FindProc(program, call.name)
      formal == entry.formals[k].name
  IN  [proc |-> p, slot |-> Len(call.args) - k, channel |-> call.args[k].name,
       isWriter |-> formal \in Channels(entry.body, "out"),
       isReader |-> formal \in Channels(entry.body, "in")]

Endpoint(program, p, k) ==
  LET call == Branches(program)[p]
      entry == FindProc(program, call.name)
      formal == entry.formals[k].name
  IN  [proc |-> p, slot |-> k - 1, channel |-> call.args[k].name,
       isWriter |-> formal \in Channels(entry.body, "out"),
       isReader |-> formal \in Channels(entry.body, "in")]

\* A branch that a processor can be made of.
IsProcess(program, call) ==
  /\ call.kind = "call"
  /\ ProcsNamed(program, call.name) # {}
  /\ Len(call.args) <= NumLinks
  /\ Len(call.args) = Len(FindProc(program, call.name).formals)
  /\ \A k \in DOMAIN call.args : call.args[k].kind = "ref"

AreJoined_Uncounted(ends) ==
  /\ Cardinality({e \in ends : e.isWriter}) = 1
  /\ Cardinality({e \in ends : e.isReader}) <= 1

\* The ends of a channel that can be wired: two, one that writes and one that reads.
AreJoined(ends) ==
  /\ Cardinality(ends) = 2
  /\ Cardinality({e \in ends : e.isWriter}) = 1
  /\ Cardinality({e \in ends : e.isReader}) = 1

\* An edge joins two ends, each a processor and a slot.
EdgeOf(ends) == {<<e.proc, e.slot>> : e \in ends}

\* No network, or one, with what its processors run.
AnalyseNetwork(program) ==
  LET calls == Branches(program)
      ends == {Endpoint(program, a[1], a[2]) : a \in ChannelActuals(program)}
      channels == {{e \in ends : e.channel = d.channel} : d \in ends}
  IN  IF /\ \A p \in DOMAIN calls : IsProcess(program, calls[p])
         /\ \A channel \in channels : AreJoined(channel)
      THEN <<[entries |-> [p \in DOMAIN calls |-> calls[p].name],
              edges |-> {EdgeOf(channel) : channel \in channels}]>>
      ELSE <<>>

\* The actuals of the entry procedure of a processor: the numbers of its slots.
Slots(n) == [k \in 1 .. n |-> Num(k - 1)]

\* compileProcessorImage: the program, of which main is the call of an entry.
ProcessorProgram(program, entry) ==
  LET main == Min(ProcsNamed(program, "main"))
      n == Len(FindProc(program, entry).formals)
  IN  [program EXCEPT !.procs[main].locals = <<>>,
                      !.procs[main].body = CallS(Call(entry, Slots(n)))]

--------------------------------------------------------------------------------
(***************************************************************************)
(* Meaning: every process does what its source says, as far as what it has *)
(* been sent lets it.  The words that one end of a channel outputs are     *)
(* those that the other one has to input, so that the meaning, a sequence  *)
(* of events for each process, is the least fixed point of this.           *)
(***************************************************************************)
\* What has been output to a slot.
Sent(log, slot) ==
  LET outs == SelectSeq(log, LAMBDA event : event[1] = "out" /\ event[2] = slot)
  IN  [k \in DOMAIN outs |-> outs[k][3]]

\* The processes have one console.  Those that read it do so one after the other, in the
\* order of the branches: what each has to read is what those before it have left.
ConsoleLeft(logs, p, inputs) ==
  LET IsRead(event) == event = <<"read", Stream(0)>>
      taken == FoldLeft(LAMBDA n, q : n + Len(SelectSeq(logs[q], IsRead)), 0,
                        [q \in 1 .. p - 1 |-> q])
  IN  SubSeq(inputs[Stream(0)], taken + 1, Len(inputs[Stream(0)]))

\* What a process has to read when the processes have done logs: from the streams,
\* and at each slot what has been output with the same channel.
Readable(calls, logs, p, inputs) ==
  LET Outputs(k) ==
        UNION {{Sent(logs[q], l - 1) : l \in {l \in DOMAIN calls[q].args :
                  <<q, l>> # <<p, k>> /\ calls[q].args[l] = calls[p].args[k]}}
               : q \in DOMAIN calls}
  IN  [source \in DOMAIN inputs |->
         IF source[1] = "channel" /\ source[2] < Len(calls[p].args)
         THEN CHOOSE outputs \in Outputs(source[2] + 1) : TRUE
         ELSE IF source = Stream(0) THEN ConsoleLeft(logs, p, inputs)
         ELSE inputs[source]]

\* The processes take turns to go as far as they can, so many turns all in all; more
\* turns than there are words to pass on, for each of them, do not change it.
NetworkMeaning(program, calls, inputs, turns) ==
  LET GoOn(logs, turn) ==
        LET p == 1 + (turn % Len(calls))
        IN  [logs EXCEPT ![p] =
               Meaning(program, Call(calls[p].name, Slots(Len(calls[p].args))),
                       Readable(calls, logs, p, inputs))]
  IN  FoldLeft(GoOn, [p \in DOMAIN calls |-> <<>>], [turn \in 1 .. turns |-> turn])
================================================================================
