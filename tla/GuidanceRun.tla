----------------------------- MODULE GuidanceRun -----------------------------
(***************************************************************************)
(* RunIrwGuidanceExperiment: the run that drives a control event session   *)
(* and an advancer, writes one observation row per observation period and  *)
(* one endpoint diagnostic per event, and publishes its directory when the *)
(* terminal event is committed.  Whatever fails ends the run unpublished.  *)
(*                                                                         *)
(* Rows and diagnostics are calculated from an observation context, a      *)
(* second runtime context that the run keeps in step with the accepted one *)
(* by hand.  Instants are observation periods: Period is                   *)
(* kSamplesPerControlInterval, and row n belongs to instant n.             *)
(***************************************************************************)
EXTENDS Trajectories, Sequences

CONSTANTS
  Period, Memory, InitialMemory, Control(_, _),  \* see GuidanceLoop
  MaxOrdinal   \* maximum_control_event_ordinal

RunAssumption ==
  /\ MaxOrdinal \in Nat \ {0}
  /\ MaxOrdinal * Period \in Time

VARIABLES
  accepted, blocked, unsynchronized, returned, phase, ordinal, memory,  \* see GuidanceLoop
  stage,        \* the next statement of the run
  interval,     \* the loop's ordinal, 0 before the loop
  sample,       \* the loop's local_sample
  observer,     \* observation_context
  rows,         \* observations.tsv: [time, context], time from sample_index
  events,       \* control_events.tsv: the torques of each event
  diagnostics   \* endpoint_diagnostics.tsv: [event, context]

sessionVars == <<accepted, blocked, unsynchronized, returned, phase, ordinal, memory>>
loopVars    == <<interval, sample>>
files       == <<rows, events, diagnostics>>
vars == <<accepted, blocked, unsynchronized, returned, phase, ordinal, memory,
          stage, interval, sample, observer, rows, events, diagnostics>>

Session == INSTANCE GuidanceLoop

Stage == {"initialize", "synchronize", "confirm", "observe_startup", "advance", "observe",
          "diagnose", "control", "finalize", "published", "rejected"}

TypeOK ==
  /\ Session!TypeOK
  /\ stage \in Stage
  /\ interval \in 0..MaxOrdinal /\ sample \in 1..Period
  /\ observer \in Context
  /\ rows \in Seq([time : Time, context : Context])
  /\ events \in Seq(Local)
  /\ diagnostics \in Seq([event : Nat, context : Context])

\* The observation context exists only from the startup observation on.
Init ==
  /\ Session!Init
  /\ stage = "initialize"
  /\ interval = 0 /\ sample = 1
  /\ observer = accepted
  /\ rows = <<>> /\ events = <<>> /\ diagnostics = <<>>

Initialize ==
  /\ stage = "initialize"
  /\ Session!ApplyInitializationUpdate
  /\ events' = Append(events, Session!Candidate.torques)
  /\ stage' = "synchronize"
  /\ UNCHANGED <<loopVars, observer, rows, diagnostics>>

\* A slip Synchronize does not make: the session is not told.
SynchronizeUnconfirmed ==
  /\ stage = "synchronize"
  /\ Session!Synchronize
  /\ stage' = IF interval = 0 THEN "observe_startup" ELSE "advance"
  /\ interval' = IF interval = 0 THEN 0 ELSE interval + 1
  /\ UNCHANGED <<sample, observer, files>>

\* The constructor of the advancer, and later its synchronization.
Synchronize ==
  /\ stage = "synchronize"
  /\ Session!Synchronize
  /\ stage' = "confirm"
  /\ UNCHANGED <<loopVars, observer, files>>

\* The session is told, and the next interval begins.
Confirm ==
  /\ stage = "confirm"
  /\ Session!ConfirmBackendSynchronized
  /\ stage' = IF interval = 0 THEN "observe_startup" ELSE "advance"
  /\ interval' = IF interval = 0 THEN 0 ELSE interval + 1
  /\ UNCHANGED <<sample, observer, files>>

\* The observation context is created, takes the context-local data, and then
\* time, state and hints: all of the accepted context.
ObserveStartup ==
  /\ stage = "observe_startup"
  /\ observer' = accepted
  /\ rows' = Append(rows, [time |-> 0, context |-> observer'])
  /\ diagnostics' = Append(diagnostics, [event |-> 0, context |-> observer'])
  /\ interval' = 1
  /\ stage' = "advance"
  /\ UNCHANGED <<sessionVars, sample, events>>

SampleIndex(i) == (interval - 1) * Period + i

\* The first sample time is the accepted time and the last is the event's.
SampleTimes ==
  {accepted.time} \cup {SampleIndex(i) : i \in 1..Period - 1} \cup {Session!NextEventTime}

Advance ==
  /\ stage = "advance"
  /\ Session!Advance(Session!NextEventTime, SampleTimes)
  /\ sample' = 1
  /\ stage' = "observe"
  /\ UNCHANGED <<interval, observer, files>>

SampleTime(i) == IF i = Period THEN Session!NextEventTime ELSE SampleIndex(i)

\* The context-local data stay those of the last copy.
Observe ==
  /\ stage = "observe"
  /\ LET s == returned[SampleTime(sample)] IN
       observer' = [observer EXCEPT !.time = SampleTime(sample), !.state = s, !.hints = s]
  /\ rows' = Append(rows, [time |-> SampleIndex(sample), context |-> observer'])
  /\ IF sample = Period
       THEN stage' = "diagnose" /\ UNCHANGED sample
       ELSE sample' = sample + 1 /\ UNCHANGED stage
  /\ UNCHANGED <<sessionVars, interval, events, diagnostics>>

Diagnose ==
  /\ stage = "diagnose"
  /\ diagnostics' = Append(diagnostics, [event |-> interval - 1, context |-> observer])
  /\ stage' = "control"
  /\ UNCHANGED <<sessionVars, loopVars, observer, rows, events>>

\* A slip ApplyEvent does not make: the copy is forgotten.
ApplyEventWithoutCopy(reached) ==
  LET terminal == reached \/ interval = MaxOrdinal
  IN  /\ stage = "control"
      /\ Session!ApplyScheduledUpdate(terminal)
      /\ events' = Append(events, Session!Candidate.torques)
      /\ stage' = IF terminal THEN "finalize" ELSE "synchronize"
      /\ UNCHANGED <<loopVars, observer, rows, diagnostics>>

\* A slip ApplyEvent does not make: source and destination are exchanged.
ApplyEventCopyingBack(reached) ==
  LET terminal == reached \/ interval = MaxOrdinal
  IN  /\ stage = "control"
      /\ Session!EventDue
      /\ accepted' = [accepted EXCEPT !.local = observer.local]
      /\ memory' = Session!Candidate.memory /\ ordinal' = ordinal + 1
      /\ phase' = IF terminal THEN "terminal_event_committed" ELSE "synchronization_required"
      /\ unsynchronized' = TRUE /\ returned' = NoSamples
      /\ events' = Append(events, Session!Candidate.torques)
      /\ stage' = IF terminal THEN "finalize" ELSE "synchronize"
      /\ UNCHANGED <<blocked, loopVars, observer, rows, diagnostics>>

\* The event, terminal when every axle has reached the terminal station of a
\* definition that has one or when the duration is over; then the observation
\* context takes the context-local data, the torques of this event.
ApplyEvent(reached) ==
  LET terminal == reached \/ interval = MaxOrdinal
  IN  /\ stage = "control"
      /\ Session!ApplyScheduledUpdate(terminal)
      /\ events' = Append(events, Session!Candidate.torques)
      /\ observer' = [observer EXCEPT !.local = accepted'.local]
      /\ stage' = IF terminal THEN "finalize" ELSE "synchronize"
      /\ UNCHANGED <<loopVars, rows, diagnostics>>

\* The duration is over short of the terminal station of a definition that has
\* one.
RejectDuration ==
  /\ stage = "control"
  /\ interval = MaxOrdinal
  /\ stage' = "rejected"
  /\ UNCHANGED <<sessionVars, loopVars, observer, files>>

Publish ==
  /\ stage = "finalize"
  /\ phase = "terminal_event_committed"
  /\ stage' = "published"
  /\ UNCHANGED <<sessionVars, loopVars, observer, files>>

\* An exception of the statement leaves the run, and the directory is removed.
Reject ==
  /\ stage \notin {"published", "rejected"}
  /\ \/ stage = "control" /\ Session!ScheduledUpdateFails
     \/ stage = "advance" /\ Session!AdvanceFails
     \/ stage = "synchronize" /\ Session!SynchronizeFails
     \/ UNCHANGED sessionVars
  /\ stage' = "rejected"
  /\ UNCHANGED <<loopVars, observer, files>>

Proceed ==
  \/ Initialize
  \/ Synchronize
  \/ Confirm
  \/ ObserveStartup
  \/ Advance
  \/ Observe
  \/ Diagnose
  \/ \E reached \in BOOLEAN : ApplyEvent(reached)
  \/ RejectDuration
  \/ Publish

Next == Proceed \/ Reject

\* The statement that is next is executed, and returns or throws.
Spec == Init /\ [][Next]_vars /\ WF_vars(Proceed)
-----------------------------------------------------------------------------
\* Event e's torques; events are numbered from 0.
TorquesOf(e) == events[e + 1]

(***************************************************************************)
(* The rows are the trajectory on the observation clock: row n has the     *)
(* time its label says, and its state is the state of the row before it    *)
(* moved one period under the torques of the event that ruled the period.  *)
(* A published directory is whole: its files end at the terminal event,    *)
(* with all the rows of every interval and a diagnostic for each event.    *)
(***************************************************************************)
RowsAreTheTrajectory ==
  /\ \A n \in 1..Len(rows) :
       /\ rows[n].time = n - 1 /\ rows[n].context.time = n - 1
       /\ n > 1 => rows[n].context.state =
                     Flow(rows[n - 1].context.state, TorquesOf((n - 2) \div Period), n - 2, n - 1)
  /\ stage = "published" =>
       /\ phase = "terminal_event_committed"
       /\ Len(events) = ordinal /\ Len(diagnostics) = ordinal
       /\ Len(rows) = (ordinal - 1) * Period + 1
       /\ rows[Len(rows)].context.state = accepted.state

(***************************************************************************)
(* The two contexts the run keeps in step by hand agree wherever forces    *)
(* are evaluated on the observer: every row and diagnostic is calculated   *)
(* under the torques that led to its state, the diagnostic names the event *)
(* those torques come from, and it stands at the end of that interval.     *)
(***************************************************************************)
ObserverHoldsTheRightTorques ==
  /\ \A n \in 1..Len(rows) :
       rows[n].context.local = TorquesOf(IF n = 1 THEN 0 ELSE (n - 2) \div Period)
  /\ \A d \in 1..Len(diagnostics) :
       /\ diagnostics[d].context.local = TorquesOf(diagnostics[d].event)
       /\ d > 1 => diagnostics[d].context.time = (diagnostics[d].event + 1) * Period

(***************************************************************************)
(* The three files tell the run: the trajectory, and forces as they were   *)
(* on it (RunIrwGuidanceExperiment).                                       *)
(***************************************************************************)
FilesTellTheRun == RowsAreTheTrajectory /\ ObserverHoldsTheRightTorques

(***************************************************************************)
(* The run keeps the rules of GuidanceLoop: every step of it is one of the *)
(* session's and the advancer's or leaves both alone.                      *)
(***************************************************************************)
DrivesTheLoop == Session!Spec

(***************************************************************************)
(* The session refuses none of the run's statements and none of them waits *)
(* for another: unless one throws, the run reaches its end.                *)
(***************************************************************************)
Ends == <>(stage \in {"published", "rejected"})
=============================================================================
