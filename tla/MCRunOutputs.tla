---------------------------- MODULE MCRunOutputs ----------------------------
(***************************************************************************)
(* The ways in which a result leaves the program and reaches a reader,     *)
(* side by side: the output directory that several runs compete for, a     *)
(* scene record, and a stream: its sender, the receiver that reports on    *)
(* it, and the two buffers a live state passes, the receiver of the server *)
(* and the display of the page.  One of them is at work.                   *)
(*                                                                         *)
(* Two qualification runs, an experiment and a co-simulation are given one *)
(* path.  Streamed runs compete for fewer places.  One changes its         *)
(* description, one sends a state laid out by another description, one a   *)
(* malformed state.                                                        *)
(***************************************************************************)
EXTENDS OutputDirectory, TLC

CONSTANTS
    q1, q2, x, s,
    Calls,                                                        \* see SceneRecord
    Destinations, MaxParts, Messages, Millisecond, Budget, Late,  \* see StateSender
    \* see StreamReceiver
    Run, NoRun, MaxSequence, NoMessage, Invalid, MaxPartials, MaxRuns, a, b, c, one, two,
    \* see ReportingReceiver
    MaxPending, MaxStates, Missing,
    MaxShown, MaxTime, MaxNow, Delay, MaxSamples, NoState         \* see LiveController

MCProgram == (q1 :> "qualification") @@ (q2 :> "qualification") @@
             (x :> "experiment") @@ (s :> "cosimulation")

MCParts == ("description" :> 1) @@ ("state" :> 2)

VARIABLES
    atWork,
    frames, statuses, count, document, writer, calls, accepted,
    clock, message, parts, address, part, call, timeout, waited, sent, failed,
    partials, arrival, runs, registered, active, published,
    recent, known, pending, evicted, state_frames, gaps, reason,
    samples, displayed, lastArrival, now, paused, disconnected, lastState

recordVars == <<frames, statuses, count, document, writer, calls, accepted>>
senderVars == <<clock, message, parts, address, part, call, timeout, waited, sent, failed>>
receiverVars == <<partials, arrival, runs, registered, active, published>>
reporterVars == <<recent, known, pending, evicted, state_frames, gaps, reason>>
displayVars == <<samples, displayed, lastArrival, now, paused, disconnected, lastState>>

Record == INSTANCE SceneRecord
Sender == INSTANCE StateSender
Display == INSTANCE LiveController WITH MaxSequence <- MaxShown

MCContent ==
    [m \in [run : Run, kind : DOMAIN MCParts, sequence : 0 .. MaxSequence] |->
       CASE m = [run |-> a, kind |-> "description", sequence |-> 1] -> two
         [] m = [run |-> b, kind |-> "state", sequence |-> 0]       -> two
         [] m = [run |-> c, kind |-> "state", sequence |-> 1]       -> Invalid
         [] OTHER                                                   -> one]

\* The second description names one scalar more.
MCScalars ==
    [m \in [run : Run, kind : {"state"}, sequence : {0, 2}] \cup
          [run : Run, kind : {"description"}, sequence : {0, 1}] |->
       IF m \notin DOMAIN MCContent THEN 1
       ELSE IF MCContent[m] = Invalid THEN Invalid ELSE IF MCContent[m] = two THEN 2 ELSE 1]

Receiver == INSTANCE StreamReceiver WITH
    Layout <- {one, two}, Content <- MCContent, Parts <- MCParts

Reporter == INSTANCE ReportingReceiver WITH
    None <- Missing, runs <- recent, frames <- state_frames, Content <- MCScalars, Parts <- MCParts,
    Numbers <- ("description" :> {0, 1}) @@ ("state" :> {0, 2})

ASSUME OutputAssumptions ==
    /\ Record!CallsAssumption /\ Sender!SenderAssumption
    /\ Receiver!ReceiverAssumption /\ Reporter!ReceiverAssumption /\ Display!ControllerAssumption

MCInit ==
    /\ atWork \in {"directory", "record", "sender", "receiver", "reporter", "display"}
    /\ Init /\ Record!Init /\ Sender!Init /\ Receiver!Init /\ Reporter!Init /\ Display!Init
    /\ atWork # "display" => displayed.time = 0

MCNext ==
    /\ UNCHANGED atWork
    /\ \/ atWork = "directory" /\ Next
            /\ UNCHANGED <<recordVars, senderVars, receiverVars, reporterVars, displayVars>>
       \/ atWork = "record" /\ Record!Next
            /\ UNCHANGED <<vars, senderVars, receiverVars, reporterVars, displayVars>>
       \/ atWork = "sender" /\ Sender!Next
            /\ UNCHANGED <<vars, recordVars, receiverVars, reporterVars, displayVars>>
       \/ atWork = "receiver" /\ Receiver!Next
            /\ UNCHANGED <<vars, recordVars, senderVars, reporterVars, displayVars>>
       \/ atWork = "reporter" /\ Reporter!Next
            /\ UNCHANGED <<vars, recordVars, senderVars, receiverVars, displayVars>>
       \/ atWork = "display" /\ Display!Next
            /\ UNCHANGED <<vars, recordVars, senderVars, receiverVars, reporterVars>>

MCSpec ==
    /\ MCInit
    /\ [][MCNext]_<<atWork, vars, recordVars, senderVars, receiverVars, reporterVars, displayVars>>
    /\ WF_senderVars(atWork = "sender" /\ Sender!Tick)
    /\ WF_senderVars(atWork = "sender" /\ Sender!Send)
-----------------------------------------------------------------------------
\* A scene record is whole or is none; see SceneRecord.
ReadableIsWhole == Record!ReadableIsWhole

\* Within the budget's waits, every datagram is sent to each destination or
\* counted as failed there; see StateSender.
EveryDatagramIsAccountedInTime == Sender!EveryDatagramIsAccountedInTime

\* Publish returns; see StateSender.
PublishReturns == Sender!PublishReturns

\* Neither receiver is filled by runs or messages, and what they keep is of use; see
\* StreamReceiver and ReportingReceiver.
MemoryIsBounded == Receiver!MemoryIsBounded /\ Reporter!BufferIsBounded

\* A state is bound only to a description it is laid out by; see StreamReceiver.
StatesFitDescriptions == Receiver!StatesFitDescriptions

\* The run on display is the latest that can be shown; see StreamReceiver.
LatestReadyRunIsActive == Receiver!LatestReadyRunIsActive

\* The report adds up however messages were lost, repeated and reordered; see
\* ReportingReceiver.
ReportAddsUp == Reporter!ReportAddsUp

\* What the server broadcasts is what StreamFeed promises; see StreamReceiver.
ImplementsFeed == Receiver!ImplementsFeed

\* A lane of the report never turns back, and the report forgets only the run not
\* heard of for the longest; the display of a live run goes back only where its
\* watermark was lost, to the newest state; see ReportingReceiver and LiveController.
StreamFollowsItsWatermarks ==
    Reporter!LanesMoveForward /\ Display!DisplayFollowsTheWatermark
=============================================================================
