---------------------------- MODULE OutputFiles ----------------------------
(***************************************************************************)
(* instrumentation::outstream: where the instruments write.  A ToOstream   *)
(* owns a std::ofstream, opened when the instrument is built: opening      *)
(* empties the file, what is put out collects in a buffer, and a buffer    *)
(* that is full, or whose stream is destroyed, goes to the position the    *)
(* stream has reached, whatever the file holds by then.  A VTU outstream   *)
(* writes one whole file per call, all processes together, and counts      *)
(* them.                                                                   *)
(*                                                                         *)
(* An "io" is a record of the disk, the open streams of a process, and the *)
(* counters of its VTU outstreams.  A .csv file is a sequence of pieces:   *)
(* a literal is one, a number as many as it has characters, so that        *)
(* streams that write one file with different numbers cut the lines of     *)
(* each other.                                                             *)
(***************************************************************************)
EXTENDS Integers, Sequences, FiniteSetsExt, SequencesExt, TLC

CONSTANTS
  Hole,       \* what a file holds between its end and a later write
  Width(_)    \* characters of a printed number

\* The pieces operator<< puts into a stream for a text of module Converters.
Printed(text) ==
  FlattenSeq([i \in DOMAIN text |->
    IF text[i][1] = "value" THEN [j \in 1..Width(text[i][2]) |-> <<"value", text[i][2], j>>]
    ELSE <<text[i]>>])

\* Writing at a position replaces what is there and fills what is missing.
Overlaid(content, offset, buffer) ==
  [i \in 1..Max({Len(content), offset + Len(buffer)}) |->
     IF i > offset /\ i <= offset + Len(buffer) THEN buffer[i - offset]
     ELSE IF i <= Len(content) THEN content[i]
     ELSE Hole]

\* std::ofstream(filename): the file is made, or emptied (external).
OpenStream(io, id, path) ==
  [io EXCEPT !.disk = (path :> <<>>) @@ @,
             !.streams = (id :> [path |-> path, offset |-> 0, buffer |-> <<>>]) @@ @]

\* The buffer of a stream goes to its file (external).
Flush(io, id) ==
  LET s == io.streams[id]
  IN [io EXCEPT !.disk[s.path] = Overlaid(@, s.offset, s.buffer),
                !.streams[id].offset = @ + Len(s.buffer),
                !.streams[id].buffer = <<>>]

\* Closing or destroying a stream flushes it (external).
CloseStream(io, id) ==
  LET flushed == Flush(io, id)
  IN [flushed EXCEPT !.streams = [other \in DOMAIN @ \ {id} |-> @[other]]]

CloseStreams(io, ids) == FoldSet(LAMBDA id, left : CloseStream(left, id), io, ids)

\* ToOstream::Output: the text joins the buffer of size characters.
ToOstream(io, id, size, text) ==
  LET put == [io EXCEPT !.streams[id].buffer = @ \o Printed(text)]
  IN IF Len(put.streams[id].buffer) >= size THEN Flush(put, id) ELSE put

\* VectorToVTU and VectorMapToVTU::Output: the file with the number of the
\* counter is written, and the counter goes on.
ToVTU(io, id, path, data) ==
  [io EXCEPT !.disk = ([path EXCEPT !.number = io.counters[id]] :> data) @@ @,
             !.counters[id] = @ + 1]

NewCounter(io, id) == [io EXCEPT !.counters = (id :> 0) @@ @]

\* ToConditionalOstream::Output: only process 0 prints.
ToConditionalOstream(console, process, text) == IF process = 0 THEN text ELSE console
=============================================================================
