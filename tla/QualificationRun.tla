-------------------------- MODULE QualificationRun --------------------------
(***************************************************************************)
(* The guided qualification run: an IrwFullStateControlEventSession whose  *)
(* first event follows an initialization recurrence at the same instant    *)
(* and precedes the backend, a QualificationIntegrationRun that counts the *)
(* work of every epoch of the backend and reports a failure, the rows of   *)
(* continuous states, and observations calculated on a second context.     *)
(* The advancer is taken at its promise, the actions of AcceptedAdvance.   *)
(*                                                                         *)
(* Instants are observation periods; Period is                             *)
(* kObservationsPerEventPeriod.  Of the eight counters of the statistics,  *)
(* added and compared alike, two are kept: one that every advance moves    *)
(* and one that a start of the backend may move too.                       *)
(***************************************************************************)
EXTENDS Trajectories, Sequences

CONSTANTS
  Period, Memory, InitialMemory, Control(_, _),  \* see GuidanceLoop
  TerminalOrdinal,  \* terminal_event_ordinal
  MostWork,         \* bound on the evaluations of one call of the backend
  Unprimed          \* the memory before the initialization, outside Memory

RunAssumption ==
  /\ Period \in Nat \ {0} /\ TerminalOrdinal \in Nat \ {0}
  /\ TerminalOrdinal * Period \in Time
  /\ InitialMemory \in Memory
  /\ \A s \in State, m \in Memory :
       Control(s, m) \in [torques : Local, memory : Memory]
  /\ MostWork \in Nat \ {0}
  /\ Unprimed \notin Memory

VARIABLES
  accepted, blocked, unsynchronized, returned,  \* see AcceptedAdvance
  phase, ordinal, memory,  \* the session's, see GuidanceLoop
  stage,         \* the next statement of the run
  interval,      \* the loop's ordinal, 0 before the loop
  observer,      \* observation_context
  states,        \* continuous_states.tsv: row n is sample n - 1
  observations,  \* observations: [sample, context]
  audits,        \* audits: the torques of each, None of the initialization
  counters,      \* integration_statistics() of the backend, zero before it exists
  ledger,        \* ledger_
  performed,     \* the work all backends of the run have done
  report         \* the failure result, once there is one

advancerVars == <<accepted, blocked, unsynchronized, returned>>
sessionVars  == <<phase, ordinal, memory>>
work         == <<counters, ledger, performed, report>>
data         == <<states, observations, audits>>
vars == <<accepted, blocked, unsynchronized, returned, phase, ordinal, memory, stage, interval,
          observer, states, observations, audits, counters, ledger, performed, report>>

Advancer == INSTANCE AcceptedAdvance

Zero == [steps |-> 0, evaluations |-> 0]

Plus(a, b) == [f \in DOMAIN Zero |-> a[f] + b[f]]
Minus(a, b) == [f \in DOMAIN Zero |-> a[f] - b[f]]
AtMost(a, b) == \A f \in DOMAIN Zero : a[f] <= b[f]

\* What one call of the backend can cost: its start no step, an advance at
\* least one, a call that fails any number.
StartWork   == [steps : {0}, evaluations : 0..MostWork]
AdvanceWork == [steps : {1}, evaluations : 1..MostWork]
FailedWork  == [steps : {0, 1}, evaluations : 0..MostWork]

NoReport == [failure_stage |-> "none", availability |-> "none", work |-> Zero, time |-> 0]

Init ==
  /\ Advancer!Init
  /\ phase = "initialization_required" /\ ordinal = 0 /\ memory = InitialMemory
  /\ stage = "initialize" /\ interval = 0
  /\ observer = accepted
  /\ states = <<>> /\ observations = <<>> /\ audits = <<>>
  /\ counters = Zero /\ performed = Zero
  /\ ledger = [total |-> Zero, accounted |-> Zero, available |-> FALSE, complete |-> TRUE,
               epochs |-> 0]
  /\ report = NoReport
-----------------------------------------------------------------------------
\* IrwFullStateControlEventSession.

NextEventTime == ordinal * Period

Candidate == Control(accepted.state, memory)

\* A slip it does not make: the memories start at the first event.
ApplyInitializationUpdateLater ==
  /\ phase = "initialization_required"
  /\ accepted.time = 0
  /\ phase' = "periodic_event_required"
  /\ UNCHANGED <<advancerVars, ordinal, memory>>

\* The recurrence moves the memories and leaves the torques alone.
ApplyInitializationUpdate ==
  /\ phase = "initialization_required"
  /\ accepted.time = 0
  /\ memory' = Candidate.memory
  /\ phase' = "periodic_event_required"
  /\ UNCHANGED <<advancerVars, ordinal>>

ApplyPeriodicUpdate ==
  /\ phase \in {"periodic_event_required", "ready_to_advance"}
  /\ accepted.time = NextEventTime
  /\ Advancer!SetLocal(Candidate.torques)
  /\ memory' = Candidate.memory
  /\ ordinal' = ordinal + 1
  /\ phase' = "synchronization_required"
  /\ unsynchronized' = TRUE
  /\ returned' = NoSamples
  /\ UNCHANGED blocked

ConfirmBackendSynchronized ==
  /\ phase = "synchronization_required"
  /\ phase' = "ready_to_advance"
  /\ UNCHANGED <<advancerVars, ordinal, memory>>

RequireReadyToAdvance == phase = "ready_to_advance"
-----------------------------------------------------------------------------
\* QualificationIntegrationWorkLedger and QualificationIntegrationRun.

\* A slip BeginEpoch does not make: the new backend is counted from the old one.
BeginEpochFromAccounted(l, current) ==
  [l EXCEPT !.total = IF AtMost(l.accounted, current) THEN Plus(@, Minus(current, l.accounted))
                      ELSE @,
            !.accounted = current, !.available = TRUE, !.epochs = @ + 1]

\* A new backend counts from zero.
BeginEpoch(l, current) ==
  [l EXCEPT !.total = Plus(@, current), !.accounted = current, !.available = TRUE,
            !.epochs = @ + 1]

\* Whether Capture throws: no epoch, or a counter that went back.
Capturable(l, current) == l.available /\ AtMost(l.accounted, current)

Capture(l, current) ==
  [l EXCEPT !.total = Plus(@, Minus(current, l.accounted)), !.accounted = current]

\* RecordFailure: what can be captured is, and what the report says of it.
Recorded(l, current, readable) ==
  IF readable /\ Capturable(l, current) THEN Capture(l, current)
  ELSE [l EXCEPT !.complete = FALSE]

Availability(l) ==
  IF ~l.available THEN "unavailable" ELSE IF l.complete THEN "complete" ELSE "partial"

\* The backend did work k, threw or could not be asked for its
\* statistics, and the run ends with a report.
RecordFailure(failure_stage, l, k, readable) ==
  /\ counters' = Plus(counters, k)
  /\ performed' = Plus(performed, k)
  /\ ledger' = Recorded(l, counters', readable)
  /\ report' = [failure_stage |-> failure_stage, availability |-> Availability(ledger'),
                work |-> ledger'.total, time |-> accepted'.time]
  /\ stage' = "rejected"
-----------------------------------------------------------------------------
Initialize ==
  /\ stage = "initialize"
  /\ ApplyInitializationUpdate
  /\ audits' = <<accepted.local>>
  /\ stage' = "start"
  /\ UNCHANGED <<interval, observer, states, observations, work>>

\* The event of instant zero, before there is a backend.
Start ==
  /\ stage = "start"
  /\ ApplyPeriodicUpdate
  /\ audits' = Append(audits, accepted'.local)
  /\ stage' = "construct"
  /\ UNCHANGED <<interval, observer, states, observations, work>>

\* The backend takes everything from the accepted context.
Construct ==
  /\ stage = "construct"
  /\ Advancer!Synchronize
  /\ \E k \in StartWork :
       /\ counters' = k /\ performed' = Plus(performed, k)
       /\ ledger' = BeginEpoch(ledger, k)
  /\ stage' = "confirm"
  /\ UNCHANGED <<sessionVars, interval, observer, data, report>>

\* No object is returned, and its work is not known.
ConstructFails ==
  /\ stage = "construct"
  /\ Advancer!Fail
  /\ \E k \in StartWork : performed' = Plus(performed, k)
  /\ ledger' = [ledger EXCEPT !.complete = FALSE]
  /\ report' = [failure_stage |-> "construction", availability |-> Availability(ledger'),
                work |-> ledger'.total, time |-> accepted.time]
  /\ stage' = "rejected"
  /\ UNCHANGED <<sessionVars, interval, observer, data, counters>>

Confirm ==
  /\ stage = "confirm"
  /\ ConfirmBackendSynchronized
  /\ stage' = IF interval = 0 THEN "observe_startup" ELSE "advance"
  /\ interval' = IF interval = 0 THEN 0 ELSE interval + 1
  /\ UNCHANGED <<observer, data, work>>

\* The observation context is created, takes the context-local data, then time,
\* state and hints; the states file is opened.
ObserveStartup ==
  /\ stage = "observe_startup"
  /\ observer' = accepted
  /\ observations' = <<[sample |-> 0, context |-> observer']>>
  /\ states' = <<accepted.state>>
  /\ interval' = 1
  /\ stage' = "advance"
  /\ UNCHANGED <<advancerVars, sessionVars, audits, work>>

SampleIndex(i) == (interval - 1) * Period + i

SampleTimes == {SampleIndex(i) : i \in 0..Period}

\* One dense batch to the next event; all columns but the first are appended.
\* The writer insists on the next sample, and its exception leaves the run.
Advance ==
  /\ stage = "advance"
  /\ RequireReadyToAdvance
  /\ Advancer!Advance(NextEventTime, SampleTimes)
  /\ \E k \in AdvanceWork :
       /\ counters' = Plus(counters, k) /\ performed' = Plus(performed, k)
       /\ ledger' = Capture(ledger, counters')
  /\ IF Len(states) = SampleIndex(1)
       THEN /\ states' = states \o [i \in 1..Period |-> returned'[SampleIndex(i)]]
            /\ stage' = "observe"
       ELSE stage' = "rejected" /\ UNCHANGED states
  /\ UNCHANGED <<sessionVars, interval, observer, observations, audits, report>>

AdvanceFails ==
  /\ stage = "advance"
  /\ RequireReadyToAdvance
  /\ Advancer!Fail
  /\ \E k \in FailedWork, readable \in BOOLEAN : RecordFailure("advance", ledger, k, readable)
  /\ UNCHANGED <<sessionVars, interval, observer, data>>

\* The endpoint is accepted, but Capture could not read the statistics.
AdvanceUncounted ==
  /\ stage = "advance"
  /\ RequireReadyToAdvance
  /\ Advancer!Advance(NextEventTime, SampleTimes)
  /\ \E k \in AdvanceWork, readable \in BOOLEAN : RecordFailure("advance", ledger, k, readable)
  /\ UNCHANGED <<sessionVars, interval, observer, data>>

\* The observation context at sample i of the interval; its context-local data
\* are those of the last copy.
Observed(i) ==
  LET s == returned[SampleIndex(i)]
  IN  [observer EXCEPT !.time = SampleIndex(i), !.state = s, !.hints = s]

Observe ==
  /\ stage = "observe"
  /\ observer' = Observed(Period)
  /\ observations' = observations \o
       [i \in 1..Period |-> [sample |-> SampleIndex(i), context |-> Observed(i)]]
  /\ stage' = "control"
  /\ UNCHANGED <<advancerVars, sessionVars, interval, states, audits, work>>

\* A slip ApplyEvent does not make: the copy is forgotten.
ApplyEventWithoutCopy ==
  /\ stage = "control"
  /\ ApplyPeriodicUpdate
  /\ audits' = Append(audits, accepted'.local)
  /\ stage' = IF interval < TerminalOrdinal THEN "synchronize" ELSE "finalize"
  /\ UNCHANGED <<interval, observer, states, observations, work>>

\* The event, then the context-local data for the next interval's samples.  The
\* terminal event is committed without a synchronization.
ApplyEvent ==
  /\ stage = "control"
  /\ ApplyPeriodicUpdate
  /\ audits' = Append(audits, accepted'.local)
  /\ observer' = [observer EXCEPT !.local = accepted'.local]
  /\ stage' = IF interval < TerminalOrdinal THEN "synchronize" ELSE "finalize"
  /\ UNCHANGED <<interval, states, observations, work>>

\* What the old epoch still owes is captured, then the backend starts anew and
\* its statistics with it.
Synchronize ==
  /\ stage = "synchronize"
  /\ Advancer!Synchronize
  /\ \E k \in StartWork :
       /\ counters' = k /\ performed' = Plus(performed, k)
       /\ ledger' = BeginEpoch(Capture(ledger, counters), k)
  /\ stage' = "confirm"
  /\ UNCHANGED <<sessionVars, interval, observer, data, report>>

\* The attempt is work of the old epoch: statistics are reset only by success.
SynchronizeFails ==
  /\ stage = "synchronize"
  /\ Advancer!Fail
  /\ \E k \in StartWork, readable \in BOOLEAN :
       RecordFailure("synchronization", Capture(ledger, counters), k, readable)
  /\ UNCHANGED <<sessionVars, interval, observer, data>>

\* The backend has started anew, but its statistics could not be read.
SynchronizeUncounted ==
  /\ stage = "synchronize"
  /\ Advancer!Synchronize
  /\ \E k \in StartWork, readable \in BOOLEAN :
       /\ counters' = k /\ performed' = Plus(performed, k)
       /\ ledger' = Recorded(Capture(ledger, counters), k, readable)
       /\ report' = [failure_stage |-> "synchronization", availability |-> Availability(ledger'),
                     work |-> ledger'.total, time |-> accepted.time]
  /\ stage' = "rejected"
  /\ UNCHANGED <<sessionVars, interval, observer, data>>

\* The states file is closed, which needs every sample; the other files follow,
\* then COMPLETE and the rename.
Publish ==
  /\ stage = "finalize"
  /\ Len(states) = TerminalOrdinal * Period + 1
  /\ stage' = "published"
  /\ UNCHANGED <<advancerVars, sessionVars, interval, observer, data, work>>

\* An exception outside the integration: the run ends without a report.
Reject ==
  /\ stage \notin {"published", "rejected"}
  /\ stage' = "rejected"
  /\ UNCHANGED <<advancerVars, sessionVars, interval, observer, data, work>>

Next ==
  \/ Initialize \/ Start \/ Construct \/ Confirm \/ ObserveStartup
  \/ Advance \/ Observe \/ ApplyEvent \/ Synchronize \/ Publish
  \/ ConstructFails \/ AdvanceFails \/ AdvanceUncounted
  \/ SynchronizeFails \/ SynchronizeUncounted \/ Reject

Spec == Init /\ [][Next]_vars
-----------------------------------------------------------------------------
(***************************************************************************)
(* The initialization recurrence and the event of instant zero are one     *)
(* event of the loop, whose control does both.                             *)
(***************************************************************************)
PrimedControl(s, m) == Control(s, IF m = Unprimed THEN Control(s, InitialMemory).memory ELSE m)

Loop == INSTANCE SampledDataLoop WITH
  Memory        <- Memory \cup {Unprimed},
  InitialMemory <- Unprimed,
  Control       <- PrimedControl,
  plant  <- [time |-> accepted.time, state |-> accepted.state],
  held   <- accepted.local,
  memory <- IF ordinal = 0 THEN Unprimed ELSE memory,
  over   <- FALSE

(***************************************************************************)
(* The startup rule and the event time rule of metadata.json: the run is   *)
(* the sampled-data loop whose first event steps the recurrence twice at   *)
(* the same state, and every interval is integrated under the torques of   *)
(* the event at its start, although the first of them were set before the  *)
(* backend existed.                                                        *)
(***************************************************************************)
DrivesTheLoop == Loop!Spec

\* The torques of event e; audits begins with the initialization.
TorquesOf(e) == audits[e + 2]

(***************************************************************************)
(* The two tables a reader joins by sample tell one story: states is the   *)
(* trajectory under the audited torques, and an observation is calculated  *)
(* at its state, its instant and the torques that led there, on a context  *)
(* that is not the integrated one.  What is published has every sample of  *)
(* both and an audit for every event.                                      *)
(***************************************************************************)
ObservationsJoinStates ==
  /\ \A n \in 2..Len(states) :
       states[n] = Flow(states[n - 1], TorquesOf((n - 2) \div Period), n - 2, n - 1)
  /\ \A n \in 1..Len(observations) :
       observations[n] =
         [sample  |-> n - 1,
          context |-> [time |-> n - 1, state |-> states[n], hints |-> states[n],
                       local |-> IF n = 1 THEN TorquesOf(0) ELSE TorquesOf((n - 2) \div Period)]]
  /\ stage = "published" =>
       /\ Len(states) = TerminalOrdinal * Period + 1
       /\ Len(observations) = Len(states)
       /\ Len(audits) = TerminalOrdinal + 2

(***************************************************************************)
(* The work a run states is the work it did: a summary that is published   *)
(* and a report that calls its statistics complete count every epoch of    *)
(* the backend once, the attempt of a failed call included.  Statistics    *)
(* that are not complete never claim too much.                             *)
(***************************************************************************)
StatedWorkIsTheWorkDone ==
  /\ stage = "published" => ledger.total = performed
  /\ report.availability = "complete" => report.work = performed
  /\ report.availability = "partial" => AtMost(report.work, performed)
=============================================================================
