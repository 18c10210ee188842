-------------------------------- MODULE HexSimIO --------------------------------
(***************************************************************************)
(* The streams of a simulated processor (src/hexsimio.hpp): the console    *)
(* and a number of files, each of which is one to read, siminN, and one to *)
(* write, simoutN.                                                         *)
(*                                                                         *)
(* What is left to read is a sequence of words for each source.  A file    *)
(* index has one file stream, opened when it is first used, and in the     *)
(* direction of that use: who then uses it in the other one writes nothing *)
(* and reads the end of the file.                                          *)
(***************************************************************************)
EXTENDS Integers, Sequences

CONSTANTS
  FileStreamBase,  \* FILE_STREAM_BASE, a power of 2, and FILE_INDEX_SHIFT is which
  NumStreams,      \* NUM_IO_STREAMS, a power of 2
  EndOfFile        \* what istream::get gives at the end

Console == <<"console", 0>>

NewIO(inputs) ==
  [left |-> inputs, connected |-> [index \in 0 .. NumStreams - 1 |-> "closed"]]

FileIndex(stream) == (stream \div FileStreamBase) % NumStreams

IsFile(stream) == stream >= FileStreamBase

Source(stream) == IF IsFile(stream) THEN <<"file", FileIndex(stream)>> ELSE Console

Connected(io, stream, direction) ==
  IF IsFile(stream) /\ io.connected[FileIndex(stream)] = "closed"
  THEN [io EXCEPT !.connected[FileIndex(stream)] = direction] ELSE io

\* The stream is there, and open in this direction.
IsOpen(io, stream, direction) ==
  IsFile(stream) => Connected(io, stream, direction).connected[FileIndex(stream)] = direction

\* The streams after a write, and what has been written.
Output(io, value, stream) ==
  [io |-> Connected(io, stream, "out"),
   written |-> IF IsOpen(io, stream, "out") THEN <<<<Source(stream), value>>>> ELSE <<>>]

\* The streams after a read, and the value.
Input(io, stream) ==
  LET left == IF IsOpen(io, stream, "in") THEN io.left[Source(stream)] ELSE <<>>
      opened == Connected(io, stream, "in")
  IN  IF left = <<>> THEN [io |-> opened, value |-> EndOfFile]
      ELSE [io |-> [opened EXCEPT !.left[Source(stream)] = Tail(left)],
            value |-> Head(left)]
================================================================================
