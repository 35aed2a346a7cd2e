----------------------------- MODULE SceneRecord -----------------------------
(***************************************************************************)
(* A scene record on disk: two tables that grow with every frame, a row of *)
(* values and a row of scalar statuses, and scene.json, which says how     *)
(* many rows there are and is renamed into place last.  The tables are     *)
(* written through stream buffers; a write may fail part of the way, the   *)
(* process may be killed, and another process may read at any moment.      *)
(*                                                                         *)
(* A row of values is two units long, a row of statuses one; a unit is     *)
(* named by the WriteFrame call it comes from.                             *)
(***************************************************************************)
EXTENDS Integers, Sequences, SequencesExt

CONSTANT Calls   \* bound on the WriteFrame calls

CallsAssumption == Calls \in Nat

VARIABLES
  frames,    \* frames_: what is on disk, what is in the buffer, its state
  statuses,  \* statuses_, likewise
  count,     \* frame_count_
  document,  \* the directory's scene.json, 0 or 1, and what it counts
  writer,    \* what the writer is doing
  calls,     \* WriteFrame calls made
  accepted   \* those that returned

vars == <<frames, statuses, count, document, writer, calls, accepted>>

Units == 1..Calls
Streams == [disk : Seq(Units), buffer : Seq(Units), good : BOOLEAN, open : BOOLEAN]
Opened == [disk |-> <<>>, buffer |-> <<>>, good |-> TRUE, open |-> TRUE]
NoDocument == [there |-> FALSE, count |-> 0]

TypeOK ==
  /\ frames \in Streams /\ statuses \in Streams
  /\ count \in 0..Calls
  /\ document \in [there : BOOLEAN, count : 0..Calls]
  /\ writer \in {"new", "ready", "status row", "close frames", "close statuses", "document",
                 "closed", "dead"}
  /\ calls \in 0..Calls
  /\ accepted \in Seq(Units)

Init ==
  /\ frames = [Opened EXCEPT !.open = FALSE]
  /\ statuses = frames
  /\ count = 0 /\ calls = 0 /\ accepted = <<>>
  /\ document = NoDocument
  /\ writer = "new"

\* The constructor creates the directory, which must not be there, and opens
\* both tables.
Construct ==
  /\ writer = "new"
  /\ frames' = Opened /\ statuses' = Opened
  /\ writer' = "ready"
  /\ UNCHANGED <<count, document, calls, accepted>>

\* ofstream::write of the units: they reach the buffer, or some of them do and
\* the stream is bad for good.
Put(stream, units) ==
  IF stream.good /\ stream.open
  THEN {[stream EXCEPT !.buffer = @ \o units]}
         \cup {[stream EXCEPT !.buffer = @ \o part, !.good = FALSE] : part \in Prefixes(units)}
  ELSE {[stream EXCEPT !.good = FALSE]}

\* WriteFrame, the row of values; what is wrong with the frame itself is
\* refused before anything is written.
WriteRow ==
  /\ writer = "ready" /\ calls < Calls
  /\ calls' = calls + 1
  /\ frames' \in Put(frames, <<calls + 1, calls + 1>>)
  /\ writer' = IF frames'.good THEN "status row" ELSE "ready"
  /\ UNCHANGED <<statuses, count, document, accepted>>

\* WriteFrame, the statuses.  The caller may go on after an exception.
WriteStatuses ==
  /\ writer = "status row"
  /\ statuses' \in Put(statuses, <<calls>>)
  /\ IF statuses'.good
       THEN count' = count + 1 /\ accepted' = Append(accepted, calls)
       ELSE UNCHANGED <<count, accepted>>
  /\ writer' = "ready"
  /\ UNCHANGED <<frames, document, calls>>

\* A full buffer is written out whenever the stream pleases.
Drained(stream) ==
  {[stream EXCEPT !.disk = @ \o SubSeq(stream.buffer, 1, n),
                  !.buffer = SubSeq(@, n + 1, Len(@))] : n \in 1..Len(stream.buffer)}

Drain ==
  /\ writer # "dead"
  /\ \/ frames' \in Drained(frames) /\ UNCHANGED statuses
     \/ statuses' \in Drained(statuses) /\ UNCHANGED frames
  /\ UNCHANGED <<count, document, writer, calls, accepted>>

\* A slip CloseChecked does not make: what cannot be flushed is left behind.
CloseUnchecked(stream) ==
  {[stream EXCEPT !.disk = @ \o stream.buffer, !.buffer = <<>>, !.open = FALSE],
   [stream EXCEPT !.buffer = <<>>, !.open = FALSE]}

\* CloseChecked: flush and close, or an exception.  A stream that is closed
\* already cannot be closed again.
CloseChecked(stream) ==
  IF stream.good /\ stream.open
  THEN {[stream EXCEPT !.disk = @ \o stream.buffer, !.buffer = <<>>, !.open = FALSE],
        [stream EXCEPT !.good = FALSE]}
  ELSE {[stream EXCEPT !.good = FALSE]}

\* Close, which may be called again after an exception.
CloseFrames ==
  /\ writer = "ready"
  /\ frames' \in CloseChecked(frames)
  /\ writer' = IF frames'.good THEN "close statuses" ELSE "ready"
  /\ UNCHANGED <<statuses, count, document, calls, accepted>>

CloseStatuses ==
  /\ writer = "close statuses"
  /\ statuses' \in CloseChecked(statuses)
  /\ writer' = IF statuses'.good THEN "document" ELSE "ready"
  /\ UNCHANGED <<frames, count, document, calls, accepted>>

\* WriteSceneDocumentLast: a whole file under another name, then the rename.
WriteSceneDocumentLast ==
  /\ writer = "document"
  /\ document' = [there |-> TRUE, count |-> count]
  /\ writer' = "closed"
  /\ UNCHANGED <<frames, statuses, count, calls, accepted>>

WriteSceneDocumentFails ==
  /\ writer = "document"
  /\ writer' = "ready"
  /\ UNCHANGED <<frames, statuses, count, document, calls, accepted>>

\* A kill, at whatever point: the buffers are lost.
Kill ==
  /\ writer # "dead"
  /\ writer' = "dead"
  /\ frames' = [frames EXCEPT !.buffer = <<>>, !.open = FALSE]
  /\ statuses' = [statuses EXCEPT !.buffer = <<>>, !.open = FALSE]
  /\ UNCHANGED <<count, document, calls, accepted>>

Next ==
  \/ Construct \/ WriteRow \/ WriteStatuses \/ Drain
  \/ CloseFrames \/ CloseStatuses \/ WriteSceneDocumentLast \/ WriteSceneDocumentFails
  \/ Kill

Spec == Init /\ [][Next]_vars
-----------------------------------------------------------------------------
\* ReadSceneRecord: refused without scene.json and when a table has not the
\* length it states.
Readable ==
  /\ document.there
  /\ Len(frames.disk) = 2 * document.count
  /\ Len(statuses.disk) = document.count

Twice(s) == [i \in 1..(2 * Len(s)) |-> s[(i + 1) \div 2]]

(***************************************************************************)
(* Whenever a reader finds scene.json, the record is readable and holds    *)
(* exactly the frames whose WriteFrame returned, whatever failed, was      *)
(* tried again or was killed: a record is whole or is none                 *)
(* (scene_record_reader.cc: "the record is incomplete or absent").         *)
(***************************************************************************)
ReadableIsWhole ==
  document.there =>
    /\ Readable
    /\ statuses.disk = accepted
    /\ frames.disk = Twice(accepted)
=============================================================================
