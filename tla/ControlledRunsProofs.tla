------------------------- MODULE ControlledRunsProofs -------------------------
(***************************************************************************)
(* What is proved of the controlled runs, for every plant, every control   *)
(* law, every period, horizon and number of events: the session of control *)
(* events is the sampled-data loop; so are the guidance experiment, the    *)
(* qualification run and the co-simulation; and what each of them writes   *)
(* tells what its vehicle did.                                             *)
(*                                                                         *)
(* The parts, in this order: GuidanceLoop; the qualification run, its      *)
(* tables and its ledger of work; the experiment; the co-simulation; the   *)
(* session of a cruise; the passive run.                                   *)
(***************************************************************************)
EXTENDS MCControlledRuns, SequenceTheorems, NaturalsInduction, WellFoundedInduction, TLAPS

(***************************************************************************)
(* The invariants the runs check are inductive together: that the backend  *)
(* knows the torques keeps the trajectory the plant's, that events stay    *)
(* reachable keeps them on the grid.                                       *)
(***************************************************************************)
IInv == TypeOK /\ ReadyIsSynchronized /\ EventsStayReachable
-----------------------------------------------------------------------------
LEMMA FlowIsState ==
  ASSUME NEW s \in State, NEW l \in Local, NEW t \in Time, NEW u \in Time
  PROVE  Flow(s, l, t, u) \in State
BY FlowAssumption

LEMMA GridTimes ==
  ASSUME NEW n \in Nat
  PROVE  /\ n * Period \in Nat
         /\ (n + 1) * Period = n * Period + Period
         /\ 0 * Period = 0
BY ControlAssumption, SMT

LEMMA Fields ==
  ASSUME TypeOK
  PROVE  /\ accepted.time \in Time /\ accepted.state \in State
         /\ accepted.local \in Local /\ accepted.hints \in State
BY DEF TypeOK, Context

LEMMA NoSamplesAreSamples == IsSamples(NoSamples)
BY DEF IsSamples, NoSamples

LEMMA CandidateFits ==
  ASSUME TypeOK
  PROVE  Candidate.torques \in Local /\ Candidate.memory \in Memory
BY Fields, ControlAssumption DEF TypeOK, Candidate

LEMMA InitIInv == Init => IInv
<1> SUFFICES ASSUME Init PROVE IInv
  OBVIOUS
<1>1. PICK s \in Installed, l \in Local :
        accepted = [time |-> 0, state |-> s, local |-> l, hints |-> s]
  BY DEF Init, Advancer!Init
<1>2. s \in State /\ 0 \in Time
  BY FlowAssumption DEF Time
<1>3. returned = NoSamples
  BY DEF Init, Advancer!Init, Advancer!NoSamples, NoSamples
<1>4. TypeOK
  BY <1>1, <1>2, <1>3, NoSamplesAreSamples, ControlAssumption
     DEF Init, Advancer!Init, TypeOK, Context, Phase
<1>5. ordinal = 0 /\ phase = "initialization_required"
  BY DEF Init
<1>6. ReadyIsSynchronized
  BY <1>5 DEF ReadyIsSynchronized, RequireReadyToAdvance
<1>7. EventsStayReachable
  <2>1. ~(ordinal > 0)
    BY <1>5
  <2> QED
    BY <2>1, Zenon DEF EventsStayReachable
<1> QED
  BY <1>4, <1>6, <1>7 DEF IInv

\* A committed event starts the interval that ends at the next one.
LEMMA CommitEventIInv ==
  ASSUME TypeOK, NEW next \in {"synchronization_required", "terminal_event_committed"},
         accepted.time = NextEventTime, CommitEvent(next)
  PROVE  IInv'
<1>1. /\ accepted' = [accepted EXCEPT !.local = Candidate.torques]
      /\ memory' = Candidate.memory /\ ordinal' = ordinal + 1 /\ phase' = next
      /\ returned' = NoSamples /\ unsynchronized' = TRUE /\ blocked' = blocked
  BY DEF CommitEvent, Advancer!SetLocal
<1>2. accepted' \in Context /\ accepted'.time = accepted.time
  BY <1>1, CandidateFits DEF TypeOK, Context
<1>3. TypeOK'
  <2>1. phase' \in Phase /\ phase' # "initialization_required"
    BY <1>1 DEF Phase
  <2>3. ordinal' \in Nat /\ ordinal' # 0
    <3>1. ordinal \in Nat /\ ordinal' = ordinal + 1
      BY <1>1 DEF TypeOK
    <3> QED
      BY <3>1
  <2>2. IsSamples(returned)' /\ memory' \in Memory
    BY <1>1, CandidateFits, NoSamplesAreSamples DEF IsSamples
  <2> QED
    BY <1>1, <1>2, <2>1, <2>2, <2>3 DEF TypeOK
<1>4. /\ NextEventTime' = NextEventTime + Period /\ NextEventTime \in Nat
      /\ Period \in Nat
  BY <1>1, GridTimes, ControlAssumption DEF NextEventTime, TypeOK
<1>5. EventsStayReachable'
  <2>1. /\ accepted'.time = NextEventTime' - Period
        /\ NextEventTime' - Period <= accepted'.time
        /\ accepted'.time <= NextEventTime'
    <3>1. accepted'.time = NextEventTime
      BY <1>2
    <3> QED
      BY <1>4, <3>1
  <2>2. phase' # "periodic_event_required"
    BY <1>1
  <2> QED
    BY <2>1, <2>2, Zenon DEF EventsStayReachable
<1>6. ReadyIsSynchronized'
  BY <1>1 DEF ReadyIsSynchronized, RequireReadyToAdvance
<1> QED
  BY <1>3, <1>5, <1>6 DEF IInv

\* The advance the session lets through follows the trajectory of the accepted
\* state under the torques the context holds.
LEMMA AdvanceFollowsTheFlow ==
  ASSUME IInv, NEW target \in Time, NEW request, Advance(target, request)
  PROVE  /\ accepted.time < target /\ target <= NextEventTime
         /\ accepted' = [accepted EXCEPT !.time = target,
                           !.state = Flow(accepted.state, accepted.local, accepted.time, target),
                           !.hints = Flow(accepted.state, accepted.local, accepted.time, target)]
         /\ returned' \in IF request = {} THEN {NoSamples}
                          ELSE {[t \in request |->
                                   Flow(accepted.state, accepted.local, accepted.time, t)]}
<1>1. ~unsynchronized
  BY DEF IInv, Advance, ReadyIsSynchronized
<1> QED
  BY <1>1 DEF Advance, Advancer!Advance, Advancer!Ends, Advancer!Matrices,
              Advancer!OnTrajectory, Advancer!NoSamples, NoSamples

LEMMA AdvanceIInv ==
  ASSUME IInv, NEW target \in Time, NEW request \in Requests(accepted.time, target),
         Advance(target, request)
  PROVE  IInv'
<1> DEFINE end == Flow(accepted.state, accepted.local, accepted.time, target)
<1>1. TypeOK /\ phase = "ready_to_advance"
  BY DEF IInv, Advance, RequireReadyToAdvance
<1>2. /\ accepted.time \in Time /\ accepted.state \in State /\ accepted.local \in Local
      /\ end \in State
  BY <1>1, Fields, FlowIsState
<1>3. /\ accepted' = [accepted EXCEPT !.time = target, !.state = end, !.hints = end]
      /\ accepted.time < target /\ target <= NextEventTime
  BY AdvanceFollowsTheFlow
<1>4. accepted' \in Context /\ accepted'.time = target
  BY <1>1, <1>2, <1>3 DEF TypeOK, Context
<1>5. IsSamples(returned')
  <2>1. request \subseteq accepted.time..target
    BY DEF Requests
  <2>4. request \subseteq Time
    BY <1>2, <2>1, FlowAssumption DEF Time
  <2>2. CASE request = {}
    BY <2>2, AdvanceFollowsTheFlow, NoSamplesAreSamples
  <2>3. CASE request # {}
    <3>1. returned' = [t \in request |->
                         Flow(accepted.state, accepted.local, accepted.time, t)]
      BY <2>3, AdvanceFollowsTheFlow
    <3>2. \A t \in request : Flow(accepted.state, accepted.local, accepted.time, t) \in State
      BY <1>2, <2>4, FlowIsState
    <3> QED
      BY <2>4, <3>1, <3>2 DEF IsSamples
  <2> QED
    BY <2>2, <2>3
<1>6. UNCHANGED <<blocked, unsynchronized, phase, ordinal, memory>>
  BY DEF Advance, Advancer!Advance, sessionVars
<1>7. TypeOK'
  BY <1>1, <1>4, <1>5, <1>6 DEF TypeOK
<1>8. EventsStayReachable'
  <2>1. NextEventTime' = NextEventTime /\ NextEventTime \in Nat
    BY <1>1, <1>6, GridTimes DEF NextEventTime, TypeOK
  <2>2. NextEventTime - Period <= accepted.time \/ ~(ordinal > 0)
    BY DEF IInv, EventsStayReachable
  <2>3. ordinal > 0
    <3>1. ordinal \in Nat /\ ordinal # 0
      BY <1>1 DEF TypeOK
    <3> QED
      BY <3>1
  <2>4. /\ phase' = "ready_to_advance"
        /\ phase' \notin {"synchronization_required", "terminal_event_committed"}
        /\ phase' # "periodic_event_required"
    BY <1>1, <1>6
  <2>5. NextEventTime' - Period <= accepted'.time /\ accepted'.time <= NextEventTime'
    <3>1. accepted.time \in Int /\ target \in Int /\ Period \in Int
      BY <1>2, ControlAssumption, FlowAssumption DEF Time
    <3>2. /\ accepted'.time = target /\ NextEventTime' = NextEventTime
          /\ NextEventTime - Period <= accepted.time
      BY <1>4, <2>1, <2>2, <2>3
    <3> QED
      BY <3>1, <3>2, <2>1, <1>3
  <2> QED
    BY <2>4, <2>5, Zenon DEF EventsStayReachable
<1> QED
  BY <1>6, <1>7, <1>8 DEF IInv, ReadyIsSynchronized, RequireReadyToAdvance

LEMMA StepIInv == IInv /\ [Next]_vars => IInv'
<1> SUFFICES ASSUME IInv, [Next]_vars PROVE IInv'
  OBVIOUS
<1>1. TypeOK
  BY DEF IInv
<1>2. CASE UNCHANGED vars
  BY <1>2 DEF vars, IInv, TypeOK, IsSamples, ReadyIsSynchronized, RequireReadyToAdvance,
              EventsStayReachable, NextEventTime
<1>3. CASE ApplyInitializationUpdate
  <2>1. accepted.time = NextEventTime
    BY <1>1, <1>3, GridTimes DEF ApplyInitializationUpdate, NextEventTime, TypeOK
  <2> QED
    BY <1>1, <1>3, <2>1, CommitEventIInv DEF ApplyInitializationUpdate
<1>4. ASSUME NEW terminal \in BOOLEAN, ApplyScheduledUpdate(terminal) PROVE IInv'
  BY <1>1, <1>4, CommitEventIInv DEF ApplyScheduledUpdate, EventDue
<1>5. CASE ScheduledUpdateFails
  BY <1>5, <1>1, ControlAssumption, GridTimes
     DEF ScheduledUpdateFails, EventDue, advancerVars, IInv, TypeOK, IsSamples, Phase,
         ReadyIsSynchronized, RequireReadyToAdvance, EventsStayReachable, NextEventTime
<1>6. ASSUME NEW target \in Time, NEW request \in Requests(accepted.time, target),
             Advance(target, request)
      PROVE  IInv'
  BY <1>6, AdvanceIInv
<1>7. CASE AdvanceFails \/ SynchronizeFails
  <2>1. /\ UNCHANGED <<accepted, unsynchronized, phase, ordinal, memory>>
        /\ blocked' = TRUE /\ returned' = NoSamples
    BY <1>7 DEF AdvanceFails, SynchronizeFails, Advancer!Fail, sessionVars,
                Advancer!NoSamples, NoSamples
  <2> QED
    BY <2>1, NoSamplesAreSamples
       DEF IInv, TypeOK, ReadyIsSynchronized, RequireReadyToAdvance, EventsStayReachable,
           NextEventTime
<1>8. CASE Synchronize
  <2>1. /\ UNCHANGED <<accepted, phase, ordinal, memory>>
        /\ blocked' = FALSE /\ unsynchronized' = FALSE /\ returned' = NoSamples
    BY <1>8 DEF Synchronize, Advancer!Synchronize, sessionVars, Advancer!NoSamples, NoSamples
  <2> QED
    BY <2>1, NoSamplesAreSamples
       DEF IInv, TypeOK, ReadyIsSynchronized, RequireReadyToAdvance, EventsStayReachable,
           NextEventTime
<1>9. CASE ConfirmBackendSynchronized
  BY <1>9, <1>1
     DEF ConfirmBackendSynchronized, advancerVars, IInv, TypeOK, IsSamples, Phase,
         ReadyIsSynchronized, RequireReadyToAdvance, EventsStayReachable, NextEventTime
<1> QED
  BY <1>2, <1>3, <1>4, <1>5, <1>6, <1>7, <1>8, <1>9 DEF Next

THEOREM Invariance == Spec => []IInv
BY InitIInv, StepIInv, PTL DEF Spec

(***************************************************************************)
(* Type correctness: the session's phase and ordinal agree, and whatever   *)
(* the control law returns ends up where it belongs.                       *)
(***************************************************************************)
THEOREM TypeCorrect == Spec => []TypeOK
<1>1. IInv => TypeOK
  BY DEF IInv
<1> QED
  BY <1>1, Invariance, PTL

(***************************************************************************)
(* The session never lets a run advance on a backend that has not seen the *)
(* held torques.                                                           *)
(***************************************************************************)
THEOREM ReadyIsAlwaysSynchronized == Spec => []ReadyIsSynchronized
<1>1. IInv => ReadyIsSynchronized
  BY DEF IInv
<1> QED
  BY <1>1, Invariance, PTL

(***************************************************************************)
(* No event is overtaken, and one that failed stays due where it failed.   *)
(***************************************************************************)
THEOREM EventsAlwaysStayReachable == Spec => []EventsStayReachable
<1>1. IInv => EventsStayReachable
  BY DEF IInv
<1> QED
  BY <1>1, Invariance, PTL
-----------------------------------------------------------------------------
LEMMA InitImplements == Init => Loop!Init
<1> SUFFICES ASSUME Init PROVE Loop!Init
  OBVIOUS
<1>1. PICK s \in Installed, l \in Local :
        accepted = [time |-> 0, state |-> s, local |-> l, hints |-> s]
  BY DEF Init, Advancer!Init
<1>2. (phase = "terminal_event_committed") = FALSE
  BY DEF Init
<1> QED
  BY <1>1, <1>2 DEF Init, Loop!Init

\* An event of the session is the loop's event of the same ordinal.
LEMMA CommitEventImplements ==
  ASSUME TypeOK, NEW next \in {"synchronization_required", "terminal_event_committed"},
         accepted.time = NextEventTime, CommitEvent(next),
         phase # "terminal_event_committed",
         ordinal = 0 => next = "synchronization_required"
  PROVE  Loop!Event
<1>1. /\ accepted' = [accepted EXCEPT !.local = Candidate.torques]
      /\ memory' = Candidate.memory /\ ordinal' = ordinal + 1 /\ phase' = next
  BY DEF CommitEvent, Advancer!SetLocal
<1>2. /\ accepted'.local = Candidate.torques
      /\ accepted'.time = accepted.time /\ accepted'.state = accepted.state
  BY <1>1 DEF TypeOK, Context
<1> QED
  BY <1>1, <1>2 DEF Loop!Event, Candidate, NextEventTime

LEMMA AdvanceImplements ==
  ASSUME IInv, NEW target \in Time, NEW request, Advance(target, request)
  PROVE  Loop!Hold(target)
<1>1. TypeOK /\ phase = "ready_to_advance" /\ UNCHANGED <<phase, ordinal, memory>>
  BY DEF IInv, Advance, RequireReadyToAdvance, sessionVars
<1>2. /\ accepted'.time = target /\ accepted'.local = accepted.local
      /\ accepted'.state = Flow(accepted.state, accepted.local, accepted.time, target)
      /\ accepted.time < target /\ target <= NextEventTime
  BY <1>1, AdvanceFollowsTheFlow DEF TypeOK, Context
<1> QED
  BY <1>1, <1>2 DEF Loop!Hold, NextEventTime

LEMMA StepImplements == IInv /\ [Next]_vars => [Loop!Next]_(Loop!vars)
<1> SUFFICES ASSUME IInv, [Next]_vars PROVE [Loop!Next]_(Loop!vars)
  OBVIOUS
<1>1. TypeOK
  BY DEF IInv
<1>2. CASE UNCHANGED vars
  BY <1>2 DEF vars, Loop!vars
<1>3. CASE ApplyInitializationUpdate
  <2>1. accepted.time = NextEventTime
    BY <1>1, <1>3, GridTimes DEF ApplyInitializationUpdate, NextEventTime, TypeOK
  <2> QED
    BY <1>1, <1>3, <2>1, CommitEventImplements DEF ApplyInitializationUpdate, Loop!Next
<1>4. ASSUME NEW terminal \in BOOLEAN, ApplyScheduledUpdate(terminal) PROVE Loop!Event
  <2>1. /\ accepted.time = NextEventTime /\ ordinal # 0
        /\ phase # "terminal_event_committed"
    BY <1>1, <1>4 DEF ApplyScheduledUpdate, EventDue, TypeOK
  <2> QED
    BY <1>1, <1>4, <2>1, CommitEventImplements DEF ApplyScheduledUpdate
<1>5. CASE ScheduledUpdateFails \/ ConfirmBackendSynchronized
  BY <1>5 DEF ScheduledUpdateFails, EventDue, ConfirmBackendSynchronized, advancerVars, Loop!vars
<1>6. ASSUME NEW target \in Time, NEW request \in Requests(accepted.time, target),
             Advance(target, request)
      PROVE  Loop!Next
  BY <1>6, AdvanceImplements DEF Loop!Next, Loop!Time, Time
<1>7. CASE AdvanceFails \/ Synchronize \/ SynchronizeFails
  BY <1>7 DEF AdvanceFails, SynchronizeFails, Synchronize, Advancer!Fail,
              Advancer!Synchronize, sessionVars, Loop!vars
<1> QED
  BY <1>2, <1>3, <1>4, <1>5, <1>6, <1>7 DEF Next, Loop!Next

(***************************************************************************)
(* Failures and retries included, the controlled run is the sampled-data   *)
(* loop with its zero-order hold.                                          *)
(***************************************************************************)
THEOREM SessionImplementsLoop == Spec => ImplementsLoop
<1>1. Init => Loop!Init
  BY InitImplements
<1>2. IInv /\ [Next]_vars => [Loop!Next]_(Loop!vars)
  BY StepImplements
<1> QED
  BY <1>1, <1>2, Invariance, PTL DEF Spec, ImplementsLoop, Loop!Spec
-----------------------------------------------------------------------------
(***************************************************************************)
(* The qualification run.  What can be said of the clock, the session, the *)
(* audits and the rows at each statement: the statements are a loop over   *)
(* intervals, and the interval says the rest.                              *)
(***************************************************************************)
Grid(k) == k * OtherPeriod

Ended == {"published", "rejected"}
Early == {"initialize", "start", "construct", "observe_startup"}
Interval == {"advance", "observe", "control"}
AfterEvent == {"confirm", "synchronize", "finalize"}

RunTypes ==
  /\ q_stage \in Ended \cup Early \cup Interval \cup AfterEvent
  /\ q_accepted \in Context /\ q_observer \in Context
  /\ q_memory \in Memory /\ q_ordinal \in Nat /\ q_interval \in 0..TerminalOrdinal
  /\ states \in Seq(State) /\ audits \in Seq(Local)
  /\ q_observations \in Seq([sample : Nat, context : Context])

RunCounts ==
  /\ q_stage \in {"initialize", "start"} => q_interval = 0 /\ q_ordinal = 0
  /\ q_stage \in {"construct", "observe_startup"} => q_interval = 0 /\ q_ordinal = 1
  /\ q_stage \in Interval => q_interval # 0 /\ q_ordinal = q_interval
  /\ q_stage \in AfterEvent => q_ordinal = q_interval + 1
  /\ q_stage = "confirm" => q_interval < TerminalOrdinal
  /\ q_stage = "synchronize" => q_interval # 0 /\ q_interval < TerminalOrdinal
  /\ q_stage = "finalize" => q_interval = TerminalOrdinal

RunClock ==
  q_stage \notin Ended =>
    /\ q_accepted.time = Grid(IF q_stage = "advance" THEN q_interval - 1 ELSE q_interval)
    /\ q_accepted.hints = q_accepted.state

RunAudits ==
  /\ q_stage \notin Ended =>
       Len(audits) = IF q_stage = "initialize" THEN 0 ELSE q_ordinal + 1
  /\ q_stage \notin Ended \cup {"initialize", "start"} => q_accepted.local = audits[Len(audits)]
  /\ q_stage = "start" =>
       q_memory = QualificationControl(q_accepted.state, InitialMemory).memory
  /\ q_stage = "initialize" => q_memory = InitialMemory
  /\ q_stage \in {"confirm", "observe_startup", "advance"} => ~q_unsynchronized

RowsBegun == q_stage \in Interval \cup AfterEvent /\ q_interval # 0

RunRows ==
  /\ q_stage \notin Ended /\ ~RowsBegun => states = <<>> /\ q_observations = <<>>
  /\ RowsBegun =>
       /\ Len(states) = Grid(IF q_stage = "advance" THEN q_interval - 1 ELSE q_interval) + 1
       /\ Len(q_observations) =
            Grid(IF q_stage \in {"advance", "observe"} THEN q_interval - 1 ELSE q_interval) + 1
       /\ states[Len(states)] = q_accepted.state
       /\ q_observer.local = q_accepted.local
  /\ q_stage = "observe" =>
       \A i \in 1..OtherPeriod :
         q_returned[Grid(q_interval - 1) + i] = states[Grid(q_interval - 1) + i + 1]

\* The audit of the event that ruled the period that ends with row n.
Ruler(n) == (n - 2) \div OtherPeriod + 2

RowsAreAudited ==
  /\ \A n \in 2..Len(states) : Ruler(n) \in 1..Len(audits)
  /\ Len(q_observations) <= Len(states)
  /\ states # <<>> => 2 \in 1..Len(audits)

\* The three parts of ObservationsJoinStates.
StatesFollow ==
  \A n \in 2..Len(states) : states[n] = Flow(states[n - 1], audits[Ruler(n)], n - 2, n - 1)

ObservationOf(n) ==
  [sample  |-> n - 1,
   context |-> [time |-> n - 1, state |-> states[n], hints |-> states[n],
                local |-> audits[IF n = 1 THEN 2 ELSE Ruler(n)]]]

ObservationsMatch == \A n \in 1..Len(q_observations) : q_observations[n] = ObservationOf(n)

PublishedWhole ==
  q_stage = "published" =>
    /\ Len(states) = Grid(TerminalOrdinal) + 1
    /\ Len(q_observations) = Len(states)
    /\ Len(audits) = TerminalOrdinal + 2

RunInv ==
  /\ RunTypes /\ RunCounts /\ RunClock /\ RunAudits /\ RunRows /\ RowsAreAudited
  /\ StatesFollow /\ ObservationsMatch /\ PublishedWhole

(***************************************************************************)
(* The ledger: while the run goes on, it has counted all the work of all   *)
(* backends, and an epoch that has advanced has a step to its account.     *)
(***************************************************************************)
Work == [steps : Nat, evaluations : Nat]

LedgerTypes ==
  /\ counters \in Work /\ performed \in Work
  /\ ledger \in [total : Work, accounted : Work, available : BOOLEAN, complete : BOOLEAN,
                  epochs : Nat]
  /\ report.availability \in {"none", "unavailable", "partial", "complete"}

LedgerCounts ==
  /\ q_stage # "rejected" =>
       /\ report.availability = "none"
       /\ ledger.total = performed /\ ledger.complete
  /\ q_stage \in {"initialize", "start", "construct"} => ~ledger.available
  /\ q_stage \in Interval \cup AfterEvent \cup {"observe_startup"} =>
       /\ ledger.available /\ ledger.accounted = counters
  /\ q_stage \in {"observe", "control", "synchronize"} => counters.steps > 0

LedgerInv == LedgerTypes /\ LedgerCounts /\ StatedWorkIsTheWorkDone
-----------------------------------------------------------------------------
LEMMA FunctionIsSeq ==
  ASSUME NEW S, NEW n \in Nat, NEW f \in [1..n -> S]
  PROVE  f \in Seq(S) /\ Len(f) = n
<1>1. f \in Seq(S)
  BY SeqDef
<1>2. Len(f) \in Nat /\ DOMAIN f = 1..Len(f)
  BY <1>1, LenProperties
<1>3. DOMAIN f = 1..n
  OBVIOUS
<1> QED
  BY <1>1, <1>2, <1>3, SMT

LEMMA Appended ==
  ASSUME NEW S, NEW s \in Seq(S), NEW x \in S
  PROVE  /\ Append(s, x) \in Seq(S) /\ Len(Append(s, x)) = Len(s) + 1
         /\ \A i \in 1..Len(s) : Append(s, x)[i] = s[i]
         /\ Append(s, x)[Len(s) + 1] = x
         /\ Len(s) \in Nat
BY LenProperties, AppendProperties

LEMMA Prolonged ==
  ASSUME NEW S, NEW s \in Seq(S), NEW n \in Nat, NEW f \in [1..n -> S]
  PROVE  /\ s \o f \in Seq(S) /\ Len(s \o f) = Len(s) + n
         /\ \A i \in 1..Len(s) : (s \o f)[i] = s[i]
         /\ \A i \in 1..n : (s \o f)[Len(s) + i] = f[i]
         /\ Len(s) \in Nat
<1>1. f \in Seq(S) /\ Len(f) = n /\ Len(s) \in Nat
  BY FunctionIsSeq, LenProperties
<1>2. /\ s \o f \in Seq(S) /\ Len(s \o f) = Len(s) + Len(f)
      /\ \A i \in 1..Len(s) + Len(f) :
           (s \o f)[i] = IF i <= Len(s) THEN s[i] ELSE f[i - Len(s)]
  BY <1>1, ConcatProperties
<1>3. ASSUME NEW i \in 1..Len(s) PROVE (s \o f)[i] = s[i]
  BY <1>1, <1>2
<1>4. ASSUME NEW i \in 1..n PROVE (s \o f)[Len(s) + i] = f[i]
  <2>1. Len(s) + i \in 1..Len(s) + Len(f) /\ ~(Len(s) + i <= Len(s)) /\ (Len(s) + i) - Len(s) = i
    BY <1>1
  <2> QED
    BY <1>2, <2>1
<1> QED
  BY <1>1, <1>2, <1>3, <1>4

LEMMA QualificationFacts ==
  /\ OtherPeriod \in Nat \ {0} /\ TerminalOrdinal \in Nat \ {0} /\ MostWork \in Nat \ {0}
  /\ TerminalOrdinal * OtherPeriod \in Time
  /\ InitialMemory \in Memory /\ Unprimed \notin Memory
  /\ \A s \in State, m \in Memory :
       /\ QualificationControl(s, m).torques \in Local
       /\ QualificationControl(s, m).memory \in Memory
<1>1. Qualification!RunAssumption
  BY RunAssumptions
<1> QED
  BY <1>1 DEF Qualification!RunAssumption, Qualification!Time, Time

LEMMA GridFacts ==
  ASSUME NEW k \in Nat
  PROVE  /\ Grid(k) \in Nat /\ Grid(0) = 0
         /\ Grid(k + 1) = Grid(k) + OtherPeriod
         /\ k # 0 => k - 1 \in Nat /\ Grid(k - 1) \in Nat /\ Grid(k) = Grid(k - 1) + OtherPeriod
BY QualificationFacts, SMT DEF Grid

LEMMA GridInTime ==
  ASSUME NEW k \in 0..TerminalOrdinal
  PROVE  Grid(k) \in Time /\ k \in Nat
<1>1. k \in Nat /\ TerminalOrdinal - k \in Nat
  BY QualificationFacts
<1>2. Grid(TerminalOrdinal) = Grid(k) + Grid(TerminalOrdinal - k)
  BY <1>1, QualificationFacts, SMT DEF Grid
<1>3. Grid(k) \in Nat /\ Grid(TerminalOrdinal - k) \in Nat
  BY <1>1, GridFacts
<1>4. Grid(TerminalOrdinal) \in 0..Horizon
  BY QualificationFacts DEF Grid, Time
<1> QED
  BY <1>1, <1>2, <1>3, <1>4, FlowAssumption DEF Time

LEMMA MultiplesAreApart ==
  ASSUME NEW p \in Nat, NEW d \in Int, NEW e \in Int, p * d = e, -p < e, e < p
  PROVE  d = 0
<1>1. CASE d >= 1
  <2>1. p * d = p + p * (d - 1) /\ p * (d - 1) >= 0
    BY <1>1, SMT
  <2> QED
    BY <2>1
<1>2. CASE d <= -1
  <2>1. p * d = p * (d + 1) - p /\ p * (d + 1) <= 0
    BY <1>2, SMT
  <2> QED
    BY <2>1
<1> QED
  BY <1>1, <1>2

LEMMA QuotientOfSum ==
  ASSUME NEW p \in Nat, p > 0, NEW k \in Nat, NEW j \in Nat, j < p,
         NEW m \in Nat, m = k * p + j
  PROVE  m \div p = k
<1>1. PICK q \in Int, r \in Int :
        q = m \div p /\ r = m % p /\ 0 <= r /\ r < p /\ m = p * q + r
  OBVIOUS
<1>2. p * (q - k) = j - r
  BY <1>1, SMT
<1>3. q - k \in Int /\ j - r \in Int /\ -p < j - r /\ j - r < p
  BY <1>1
<1>4. q - k = 0
  BY <1>2, <1>3, MultiplesAreApart
<1> QED
  BY <1>1, <1>4

LEMMA RulerOfGrid ==
  ASSUME NEW k \in Nat, NEW i \in 1..OtherPeriod
  PROVE  Ruler(Grid(k) + i + 1) = k + 2
<1>1. OtherPeriod \in Nat /\ OtherPeriod > 0 /\ i - 1 \in Nat /\ i - 1 < OtherPeriod
  BY QualificationFacts
<1>2. Grid(k) \in Nat
  BY GridFacts
<1>3. (Grid(k) + i + 1) - 2 \in Nat /\ (Grid(k) + i + 1) - 2 = Grid(k) + (i - 1)
  BY <1>1, <1>2
<1>4. (Grid(k) + i + 1) - 2 = k * OtherPeriod + (i - 1)
  BY <1>3 DEF Grid
<1>5. ((Grid(k) + i + 1) - 2) \div OtherPeriod = k
  BY <1>1, <1>3, <1>4, QuotientOfSum
<1> QED
  BY <1>5, Zenon DEF Ruler

\* One advance carries the trajectory from any instant of it to any later one.
LEMMA FlowGoesOn ==
  ASSUME NEW s \in State, NEW l \in Local, NEW t \in Time, NEW x \in Time, NEW y \in Time,
         t <= x, x <= y
  PROVE  /\ Flow(s, l, t, y) \in State
         /\ Flow(s, l, t, y) = Flow(Flow(s, l, t, x), l, x, y)
         /\ Flow(s, l, t, t) = s
BY FlowAssumption

LEMMA RunParts == RunInv => ObservationsJoinStates
<1> SUFFICES ASSUME RunInv PROVE ObservationsJoinStates
  OBVIOUS
<1>1. \A n \in 2..Len(states) :
        states[n] =
           Flow(states[n - 1], Qualification!TorquesOf((n - 2) \div OtherPeriod), n - 2, n - 1)
  BY DEF RunInv, StatesFollow, Ruler, Qualification!TorquesOf
<1>2. ASSUME NEW n \in 1..Len(q_observations)
      PROVE  audits[IF n = 1 THEN 2 ELSE Ruler(n)] =
               IF n = 1 THEN Qualification!TorquesOf(0)
               ELSE Qualification!TorquesOf((n - 2) \div OtherPeriod)
  BY DEF Ruler, Qualification!TorquesOf
<1>3. \A n \in 1..Len(q_observations) :
        q_observations[n] =
         [sample  |-> n - 1,
          context |-> [time |-> n - 1, state |-> states[n], hints |-> states[n],
                       local |-> IF n = 1 THEN Qualification!TorquesOf(0)
                                 ELSE Qualification!TorquesOf((n - 2) \div OtherPeriod)]]
  BY <1>2 DEF RunInv, ObservationsMatch, ObservationOf
<1> QED
  BY <1>1, <1>3 DEF RunInv, PublishedWhole, Grid, ObservationsJoinStates,
     Qualification!ObservationsJoinStates

LEMMA RunFields ==
  ASSUME RunTypes
  PROVE  /\ q_accepted.time \in Time /\ q_accepted.state \in State
         /\ q_accepted.local \in Local /\ q_accepted.hints \in State
         /\ q_observer.time \in Time /\ q_observer.state \in State
         /\ q_observer.local \in Local /\ q_observer.hints \in State
         /\ Len(states) \in Nat /\ Len(audits) \in Nat /\ Len(q_observations) \in Nat
         /\ q_interval \in Nat
<1>1. Len(states) \in Nat /\ Len(audits) \in Nat /\ Len(q_observations) \in Nat
  BY LenProperties DEF RunTypes
<1> QED
  BY <1>1, QualificationFacts DEF RunTypes, Context

\* Rows and observations are left alone, and at most an audit is added.
LEMMA RowsKeep ==
  ASSUME RunInv, UNCHANGED <<states, q_observations>>,
         audits' = audits \/ \E x \in Local : audits' = Append(audits, x)
  PROVE  RowsAreAudited' /\ StatesFollow' /\ ObservationsMatch'
<1>1. RunTypes /\ RowsAreAudited /\ StatesFollow /\ ObservationsMatch
  BY DEF RunInv
<1>2. Len(audits) \in Nat /\ Len(states) \in Nat /\ Len(q_observations) \in Nat
  BY <1>1, RunFields
<1>3. /\ Len(audits') \in Nat /\ Len(audits') >= Len(audits)
      /\ \A i \in 1..Len(audits) : audits'[i] = audits[i]
  <2>1. CASE audits' = audits
    BY <2>1, <1>2
  <2>2. ASSUME NEW x \in Local, audits' = Append(audits, x)
        PROVE  /\ Len(audits') = Len(audits) + 1
               /\ \A i \in 1..Len(audits) : audits'[i] = audits[i]
    BY <2>2, <1>1, Appended DEF RunTypes
  <2> QED
    BY <2>1, <2>2, <1>2
<1>4. \A n : Ruler(n)' = Ruler(n)
  BY DEF Ruler
<1>5. RowsAreAudited'
  BY <1>1, <1>2, <1>3, <1>4 DEF RowsAreAudited
<1>6. ASSUME NEW n \in 2..Len(states)
      PROVE  states[n] = Flow(states[n - 1], audits'[Ruler(n)], n - 2, n - 1)
  <2>1. Ruler(n) \in 1..Len(audits)
    BY <1>1 DEF RowsAreAudited
  <2> QED
    BY <1>1, <1>3, <2>1 DEF StatesFollow
<1>7. StatesFollow'
  BY <1>4, <1>6 DEF StatesFollow
<1>8. ASSUME NEW n \in 1..Len(q_observations)
      PROVE  q_observations[n] = ObservationOf(n)'
  <2>1. n \in 1..Len(states)
    BY <1>1, <1>2 DEF RowsAreAudited
  <2>2. states # <<>>
    BY <1>2, <2>1
  <2>3. (IF n = 1 THEN 2 ELSE Ruler(n)) \in 1..Len(audits)
    BY <1>1, <1>2, <2>1, <2>2 DEF RowsAreAudited
  <2>4. ObservationOf(n)' = ObservationOf(n)
    BY <1>3, <1>4, <2>3 DEF ObservationOf
  <2> QED
    BY <1>1, <2>4 DEF ObservationsMatch
<1>9. ObservationsMatch'
  BY <1>8 DEF ObservationsMatch
<1> QED
  BY <1>5, <1>7, <1>9

\* A run that ends leaves what it has.
LEMMA RunEnds ==
  ASSUME RunInv, q_stage' = "rejected",
         UNCHANGED <<q_memory, q_ordinal, q_interval, q_observer,
                    states, q_observations, audits>>,
         q_accepted' \in Context
  PROVE  RunInv'
<1>1. RunTypes'
  BY DEF RunInv, RunTypes, Ended
<1>2. q_stage' \in Ended /\ q_stage' \notin Interval \cup AfterEvent \cup Early
  BY DEF Ended, Interval, AfterEvent, Early
<1>3. RunCounts'
  BY <1>2 DEF RunCounts, Interval, AfterEvent, Early
<1>4. RunClock' /\ RunAudits'
  BY <1>2 DEF RunClock, RunAudits, Early, AfterEvent, Interval, Ended
<1>5. RunRows'
  <2>1. ~RowsBegun'
    BY <1>2 DEF RowsBegun, Interval, AfterEvent
  <2> QED
    BY <1>2, <2>1 DEF RunRows
<1>6. PublishedWhole'
  BY DEF PublishedWhole
<1> QED
  BY <1>1, <1>3, <1>4, <1>5, <1>6, RowsKeep DEF RunInv

LEMMA RunInit == Qualification!Init => RunInv
<1> SUFFICES ASSUME Qualification!Init PROVE RunInv
  OBVIOUS
<1>1. PICK s \in Installed, l \in Local :
        q_accepted = [time |-> 0, state |-> s, local |-> l, hints |-> s]
  BY DEF Qualification!Init, Qualification!Advancer!Init
<1>2. /\ q_stage = "initialize" /\ q_interval = 0 /\ q_ordinal = 0 /\ q_memory = InitialMemory
      /\ q_observer = q_accepted /\ states = <<>> /\ q_observations = <<>> /\ audits = <<>>
  BY DEF Qualification!Init
<1>3. q_accepted \in Context /\ q_accepted.time = 0 /\ q_accepted.hints = q_accepted.state
  BY <1>1, FlowAssumption DEF Context, Time
<1>4. RunTypes
  <2>1. /\ <<>> \in Seq(State) /\ <<>> \in Seq(Local)
        /\ <<>> \in Seq([sample : Nat, context : Context])
    BY EmptySeq
  <2>2. q_stage \in Early /\ 0 \in Nat /\ 0 \in 0..TerminalOrdinal
    BY <1>2, QualificationFacts DEF Early
  <2> QED
    BY <1>2, <1>3, <2>1, <2>2, QualificationFacts DEF RunTypes
<1>5. Len(states) = 0 /\ Len(q_observations) = 0 /\ Len(audits) = 0
  BY <1>2, EmptySeq
<1>6. RunCounts
  BY <1>2 DEF RunCounts, Interval, AfterEvent
<1>7. RunClock /\ RunAudits
  BY <1>2, <1>3, <1>5, GridFacts DEF RunClock, RunAudits, Ended
<1>8. RunRows
  <2>1. ~RowsBegun
    BY <1>2 DEF RowsBegun, Interval, AfterEvent
  <2> QED
    BY <1>2, <2>1 DEF RunRows
<1>9. RowsAreAudited /\ StatesFollow /\ ObservationsMatch /\ PublishedWhole
  BY <1>2, <1>5 DEF RowsAreAudited, StatesFollow, ObservationsMatch, PublishedWhole
<1> QED
  BY <1>4, <1>6, <1>7, <1>8, <1>9 DEF RunInv

\* An event of the session.
LEMMA RunEvent ==
  ASSUME RunTypes, Qualification!ApplyPeriodicUpdate
  PROVE  LET event == QualificationControl(q_accepted.state, q_memory)
         IN  /\ event.torques \in Local /\ event.memory \in Memory
             /\ q_accepted' = [q_accepted EXCEPT !.local = event.torques]
             /\ q_accepted' \in Context
             /\ q_accepted'.time = q_accepted.time /\ q_accepted'.state = q_accepted.state
             /\ q_accepted'.hints = q_accepted.hints /\ q_accepted'.local = event.torques
             /\ q_memory' = event.memory /\ q_ordinal' = q_ordinal + 1
<1> DEFINE event == QualificationControl(q_accepted.state, q_memory)
<1>1. event.torques \in Local /\ event.memory \in Memory
  BY RunFields, QualificationFacts DEF RunTypes
<1>2. /\ q_accepted' = [q_accepted EXCEPT !.local = event.torques]
      /\ q_memory' = event.memory /\ q_ordinal' = q_ordinal + 1
  BY DEF Qualification!ApplyPeriodicUpdate, Qualification!Advancer!SetLocal,
         Qualification!Candidate
<1> HIDE DEF event
<1>3. q_accepted' \in Context
  BY <1>1, <1>2 DEF RunTypes, Context
<1>4. /\ q_accepted'.time = q_accepted.time /\ q_accepted'.state = q_accepted.state
      /\ q_accepted'.hints = q_accepted.hints /\ q_accepted'.local = event.torques
  BY <1>1, <1>2 DEF RunTypes, Context
<1> QED
  BY <1>1, <1>2, <1>3, <1>4 DEF event

LEMMA RunInitialize == ASSUME RunInv, Qualification!Initialize PROVE RunInv'
<1>1. /\ q_stage = "initialize" /\ q_stage' = "start"
      /\ audits' = <<q_accepted.local>>
      /\ UNCHANGED <<q_accepted, q_ordinal, q_interval, q_observer, states, q_observations>>
      /\ q_memory' = QualificationControl(q_accepted.state, q_memory).memory
  BY DEF Qualification!Initialize, Qualification!ApplyInitializationUpdate,
         Qualification!advancerVars, Qualification!Candidate
<1>2. RunTypes /\ RunCounts /\ RunClock /\ RunAudits /\ RunRows
  BY DEF RunInv
<1>3. q_interval = 0 /\ q_ordinal = 0 /\ q_memory = InitialMemory /\ Len(audits) = 0
  BY <1>1, <1>2 DEF RunCounts, RunAudits, Ended
<1>4. audits = <<>> /\ audits' = Append(audits, q_accepted.local) /\ q_accepted.local \in Local
  <2>1. audits = <<>>
    BY <1>2, <1>3, EmptySeq DEF RunTypes
  <2> QED
    BY <2>1, <1>1, <1>2, RunFields
<1>5. audits' \in Seq(Local) /\ Len(audits') = 1
  BY <1>2, <1>3, <1>4, Appended DEF RunTypes
<1>6. q_memory' \in Memory
  BY <1>1, <1>2, RunFields, QualificationFacts DEF RunTypes
<1>7. RunTypes'
  BY <1>1, <1>2, <1>5, <1>6 DEF RunTypes, Early
<1>8. RunCounts'
  BY <1>1, <1>3 DEF RunCounts, Interval, AfterEvent
<1>9. RunClock'
  BY <1>1, <1>2 DEF RunClock, Ended, Grid
<1>10. RunAudits'
  BY <1>1, <1>3, <1>5 DEF RunAudits, Ended
<1>11. RunRows'
  <2>1. ~RowsBegun' /\ ~RowsBegun
    BY <1>1 DEF RowsBegun, Interval, AfterEvent
  <2> QED
    BY <1>1, <1>2, <2>1 DEF RunRows, Ended
<1>12. PublishedWhole'
  BY <1>1 DEF PublishedWhole
<1> QED
  BY <1>1, <1>4, <1>7, <1>8, <1>9, <1>10, <1>11, <1>12, RowsKeep DEF RunInv

LEMMA RunStart == ASSUME RunInv, Qualification!Start PROVE RunInv'
<1> DEFINE torques == q_accepted'.local
<1>1. /\ q_stage = "start" /\ q_stage' = "construct"
      /\ audits' = Append(audits, torques)
      /\ UNCHANGED <<q_interval, q_observer, states, q_observations>>
      /\ Qualification!ApplyPeriodicUpdate
  BY DEF Qualification!Start
<1>2. RunTypes /\ RunCounts /\ RunClock /\ RunAudits /\ RunRows
  BY DEF RunInv
<1>3. /\ torques \in Local /\ q_accepted' \in Context /\ q_memory' \in Memory
      /\ q_accepted'.time = q_accepted.time /\ q_accepted'.state = q_accepted.state
      /\ q_accepted'.hints = q_accepted.hints /\ q_ordinal' = q_ordinal + 1
  BY <1>1, <1>2, RunEvent
<1> HIDE DEF torques
<1>4. q_interval = 0 /\ q_ordinal = 0 /\ Len(audits) = 1
  BY <1>1, <1>2 DEF RunCounts, RunAudits, Ended
<1>5. audits' \in Seq(Local) /\ Len(audits') = 2 /\ audits'[2] = torques
  <2>1. audits \in Seq(Local)
    BY <1>2 DEF RunTypes
  <2>2. /\ Append(audits, torques) \in Seq(Local)
        /\ Len(Append(audits, torques)) = Len(audits) + 1
        /\ Append(audits, torques)[Len(audits) + 1] = torques
    BY <2>1, <1>3, Appended
  <2> QED
    BY <2>2, <1>1, <1>4
<1>7. RunTypes'
  BY <1>1, <1>2, <1>3, <1>4, <1>5 DEF RunTypes, Early
<1>8. RunCounts'
  BY <1>1, <1>3, <1>4 DEF RunCounts, Interval, AfterEvent
<1>9. RunClock'
  BY <1>1, <1>2, <1>3 DEF RunClock, Ended, Grid
<1>10. RunAudits'
  BY <1>1, <1>3, <1>4, <1>5 DEF RunAudits, Ended, torques
<1>11. RunRows'
  <2>1. ~RowsBegun' /\ ~RowsBegun
    BY <1>1 DEF RowsBegun, Interval, AfterEvent
  <2> QED
    BY <1>1, <1>2, <2>1 DEF RunRows, Ended
<1>12. PublishedWhole'
  BY <1>1 DEF PublishedWhole
<1> QED
  BY <1>1, <1>3, <1>7, <1>8, <1>9, <1>10, <1>11, <1>12, RowsKeep DEF RunInv

\* Construct and Synchronize: the backend takes what there is.
LEMMA RunBackendStarts ==
  ASSUME RunInv, q_stage \in {"construct", "synchronize"}, q_stage' = "confirm",
         UNCHANGED <<q_accepted, q_memory, q_ordinal, q_interval, q_observer, states,
                     q_observations, audits>>,
         q_unsynchronized' = FALSE
  PROVE  RunInv'
<1>1. RunTypes /\ RunCounts /\ RunClock /\ RunAudits /\ RunRows
  BY DEF RunInv
<1>2. RunTypes'
  BY <1>1 DEF RunTypes, AfterEvent
<1>3. q_ordinal = q_interval + 1 /\ q_interval < TerminalOrdinal
  BY <1>1, QualificationFacts DEF RunCounts, AfterEvent
<1>4. RunCounts'
  BY <1>3 DEF RunCounts, Interval, AfterEvent
<1>5. RunClock'
  BY <1>1 DEF RunClock, Ended, Grid
<1>6. RunAudits'
  BY <1>1 DEF RunAudits, Ended
<1>7. RowsBegun' = RowsBegun
  BY <1>1 DEF RowsBegun, Interval, AfterEvent, RunCounts
<1>8. RunRows'
  BY <1>1, <1>7 DEF RunRows, Ended, Grid
<1>9. PublishedWhole'
  BY DEF PublishedWhole
<1> QED
  BY <1>2, <1>4, <1>5, <1>6, <1>8, <1>9, RowsKeep DEF RunInv

LEMMA RunConfirm == ASSUME RunInv, Qualification!Confirm PROVE RunInv'
<1>1. /\ q_stage = "confirm"
      /\ q_stage' = IF q_interval = 0 THEN "observe_startup" ELSE "advance"
      /\ q_interval' = IF q_interval = 0 THEN 0 ELSE q_interval + 1
      /\ UNCHANGED <<q_accepted, q_unsynchronized, q_memory, q_ordinal, q_observer, states,
                     q_observations, audits>>
  BY DEF Qualification!Confirm, Qualification!ConfirmBackendSynchronized,
         Qualification!advancerVars, Qualification!data
<1>2. RunTypes /\ RunCounts /\ RunClock /\ RunAudits /\ RunRows
  BY DEF RunInv
<1>3. q_interval \in Nat /\ q_ordinal = q_interval + 1 /\ q_interval < TerminalOrdinal
  BY <1>1, <1>2, RunFields DEF RunCounts, AfterEvent
<1>4. q_interval' \in 0..TerminalOrdinal
  BY <1>1, <1>3, QualificationFacts
<1>5. RunTypes'
  BY <1>1, <1>2, <1>4 DEF RunTypes, Early, Interval
<1>6. RunCounts'
  BY <1>1, <1>3 DEF RunCounts, Interval, AfterEvent
<1>7. /\ q_stage' = "advance" => q_interval' - 1 = q_interval
      /\ q_stage' # "advance" => q_interval' = q_interval
  BY <1>1, <1>3
<1>8. RunClock'
  BY <1>1, <1>2, <1>7 DEF RunClock, Ended, Grid
<1>9. RunAudits'
  BY <1>1, <1>2 DEF RunAudits, Ended
<1>10. RowsBegun' = RowsBegun
  BY <1>1, <1>3 DEF RowsBegun, Interval, AfterEvent
<1>11. RunRows'
  BY <1>1, <1>2, <1>7, <1>10 DEF RunRows, RowsBegun, Ended, Grid, Interval, AfterEvent
<1>12. PublishedWhole'
  BY <1>1 DEF PublishedWhole
<1> QED
  BY <1>1, <1>5, <1>6, <1>8, <1>9, <1>11, <1>12, RowsKeep DEF RunInv

LEMMA RunObserveStartup == ASSUME RunInv, Qualification!ObserveStartup PROVE RunInv'
<1> DEFINE row == [sample |-> 0, context |-> q_accepted]
<1>1. /\ q_stage = "observe_startup" /\ q_stage' = "advance"
      /\ q_interval' = 1 /\ q_observer' = q_accepted
      /\ q_observations' = <<row>> /\ states' = <<q_accepted.state>>
      /\ UNCHANGED <<q_accepted, q_unsynchronized, q_memory, q_ordinal, audits>>
  BY DEF Qualification!ObserveStartup, Qualification!advancerVars, Qualification!sessionVars
<1>2. RunTypes /\ RunCounts /\ RunClock /\ RunAudits /\ RunRows
  BY DEF RunInv
<1>3. q_interval = 0 /\ q_ordinal = 1
  BY <1>1, <1>2 DEF RunCounts
<1>8. /\ Len(audits) = 2 /\ q_accepted.local = audits[2]
      /\ q_accepted.time = 0 /\ q_accepted.hints = q_accepted.state
  <2>1. Grid(0) = 0
    BY GridFacts
  <2>2. q_accepted.time = Grid(q_interval) /\ q_accepted.hints = q_accepted.state
    BY <1>1, <1>2 DEF RunClock, Ended
  <2>3. Len(audits) = 2
    BY <1>1, <1>2, <1>3 DEF RunAudits, Ended
  <2>4. q_accepted.local = audits[Len(audits)]
    BY <1>1, <1>2 DEF RunAudits, Ended
  <2> QED
    BY <1>3, <2>1, <2>2, <2>3, <2>4
<1>4. /\ q_accepted \in Context /\ q_accepted.state \in State
      /\ row \in [sample : Nat, context : Context]
  BY <1>2, RunFields DEF RunTypes
<1>5. /\ states' \in Seq(State) /\ Len(states') = 1 /\ states'[1] = q_accepted.state
      /\ q_observations' \in Seq([sample : Nat, context : Context])
      /\ Len(q_observations') = 1 /\ q_observations'[1] = row
  BY <1>1, <1>4
<1>6. q_accepted = [time |-> 0, state |-> states'[1], hints |-> states'[1], local |-> audits[2]]
  BY <1>4, <1>5, <1>8 DEF Context
<1>7. row = ObservationOf(1)'
  BY <1>1, <1>6 DEF ObservationOf
<1>9. RunTypes'
  BY <1>1, <1>2, <1>4, <1>5, QualificationFacts DEF RunTypes, Interval
<1>10. RunCounts'
  BY <1>1, <1>3 DEF RunCounts, Interval, AfterEvent
<1>11. RunClock' /\ RunAudits'
  BY <1>1, <1>2, <1>3 DEF RunClock, RunAudits, Ended, Grid
<1>12. RunRows'
  <2>1. RowsBegun' /\ Grid(0) = 0
    BY <1>1, GridFacts DEF RowsBegun, Interval
  <2>2. Len(states') = Grid(0)' + 1 /\ Len(q_observations') = Grid(0)' + 1
    BY <1>5, <2>1 DEF Grid
  <2>3. states'[Len(states')] = q_accepted'.state /\ q_observer'.local = q_accepted'.local
    BY <1>1, <1>5
  <2> QED
    BY <1>1, <2>1, <2>2, <2>3 DEF RunRows, Ended, RowsBegun, Interval
<1>13. RowsAreAudited' /\ StatesFollow' /\ PublishedWhole'
  BY <1>1, <1>5, <1>8 DEF RowsAreAudited, StatesFollow, PublishedWhole
<1>14. ObservationsMatch'
  BY <1>5, <1>7 DEF ObservationsMatch
<1> QED
  BY <1>9, <1>10, <1>11, <1>12, <1>13, <1>14 DEF RunInv

\* The batch of an interval: the endpoint and the samples are the trajectory of the
\* accepted state, sample i of it i instants on.
Batch(i) ==
  Flow(q_accepted.state, q_accepted.local, Grid(q_interval - 1), Grid(q_interval - 1) + i)

LEMMA IntervalTimes ==
  ASSUME RunInv, q_stage = "advance"
  PROVE  /\ q_interval \in Nat /\ q_interval # 0 /\ q_interval - 1 \in Nat
         /\ q_ordinal = q_interval
         /\ Grid(q_interval - 1) \in Nat
         /\ Grid(q_interval) = Grid(q_interval - 1) + OtherPeriod
         /\ q_accepted.time = Grid(q_interval - 1)
         /\ \A i \in 0..OtherPeriod : Grid(q_interval - 1) + i \in Time
<1>1. RunTypes /\ RunCounts /\ RunClock
  BY DEF RunInv
<1>2. q_interval \in Nat /\ q_interval # 0 /\ q_ordinal = q_interval
  BY <1>1, RunFields DEF RunCounts, Interval
<1>3. /\ q_interval - 1 \in Nat /\ Grid(q_interval - 1) \in Nat
      /\ Grid(q_interval) = Grid(q_interval - 1) + OtherPeriod
  BY <1>2, GridFacts
<1>4. q_accepted.time = Grid(q_interval - 1)
  BY <1>1 DEF RunClock, Ended
<1>5. Grid(q_interval) \in Time
  BY <1>1, GridInTime DEF RunTypes
<1>6. \A i \in 0..OtherPeriod : Grid(q_interval - 1) + i \in Time
  BY <1>3, <1>5, FlowAssumption, QualificationFacts DEF Time
<1> QED
  BY <1>2, <1>3, <1>4, <1>6

LEMMA BatchFlows ==
  ASSUME RunInv, q_stage = "advance"
  PROVE  /\ Batch(0) = q_accepted.state
         /\ \A i \in 0..OtherPeriod : Batch(i) \in State
         /\ \A i \in 1..OtherPeriod :
              Batch(i) = Flow(Batch(i - 1), q_accepted.local,
                              Grid(q_interval - 1) + (i - 1), Grid(q_interval - 1) + i)
<1> DEFINE from == Grid(q_interval - 1)
<1>1. from \in Nat /\ \A i \in 0..OtherPeriod : from + i \in Time
  BY IntervalTimes
<1>2. q_accepted.state \in State /\ q_accepted.local \in Local
  BY RunFields DEF RunInv
<1>3. OtherPeriod \in Nat /\ 0 \in 0..OtherPeriod /\ from + 0 = from
  BY <1>1, QualificationFacts
<1>4. from \in Time
  BY <1>1, <1>3
<1> HIDE DEF from
<1>5. ASSUME NEW i \in 0..OtherPeriod
      PROVE  Flow(q_accepted.state, q_accepted.local, from, from + i) \in State
  BY <1>1, <1>2, <1>4, FlowAssumption
<1>6. Flow(q_accepted.state, q_accepted.local, from, from + 0) = q_accepted.state
  BY <1>2, <1>3, <1>4, FlowAssumption
<1>7. ASSUME NEW i \in 1..OtherPeriod
      PROVE  Flow(q_accepted.state, q_accepted.local, from, from + i) =
               Flow(Flow(q_accepted.state, q_accepted.local, from, from + (i - 1)),
                    q_accepted.local, from + (i - 1), from + i)
  <2>1. i \in 0..OtherPeriod /\ i - 1 \in 0..OtherPeriod
    BY <1>3
  <2>2. from + i \in Time /\ from + (i - 1) \in Time
    BY <1>1, <2>1
  <2>3. from <= from + (i - 1) /\ from + (i - 1) <= from + i
    BY <1>1, <1>3 DEF from
  <2> QED
    BY <1>2, <1>4, <2>2, <2>3, FlowGoesOn
<1> QED
  BY <1>5, <1>6, <1>7 DEF Batch, from

LEMMA RunBatch ==
  ASSUME RunInv, q_stage = "advance",
         Qualification!Advancer!Advance(Qualification!NextEventTime, Qualification!SampleTimes)
  PROVE  /\ q_accepted' \in Context
         /\ q_accepted'.time = Grid(q_interval)
         /\ q_accepted'.state = Batch(OtherPeriod) /\ q_accepted'.hints = Batch(OtherPeriod)
         /\ q_accepted'.local = q_accepted.local
         /\ \A i \in 1..OtherPeriod : q_returned'[Qualification!SampleIndex(i)] = Batch(i)
         /\ UNCHANGED q_unsynchronized
<1> DEFINE request == Qualification!SampleTimes
           end == Batch(OtherPeriod)
<1>1. RunTypes /\ ~q_unsynchronized
  BY DEF RunInv, RunAudits
<1>2. /\ q_interval - 1 \in Nat /\ q_ordinal = q_interval
      /\ q_accepted.time = Grid(q_interval - 1)
      /\ Grid(q_interval) = Grid(q_interval - 1) + OtherPeriod
      /\ Grid(q_interval - 1) \in Nat
  BY IntervalTimes
<1>3. Qualification!NextEventTime = Grid(q_interval)
  BY <1>2 DEF Qualification!NextEventTime, Grid
<1>4. \A i : Qualification!SampleIndex(i) = Grid(q_interval - 1) + i
  BY DEF Qualification!SampleIndex, Grid
<1>5. /\ \A i \in 1..OtherPeriod : Grid(q_interval - 1) + i \in request
      /\ request # {}
  <2>1. \A i \in 0..OtherPeriod : Qualification!SampleIndex(i) \in request
    BY DEF Qualification!SampleTimes
  <2>2. 1..OtherPeriod \subseteq 0..OtherPeriod /\ 0 \in 0..OtherPeriod
    BY QualificationFacts
  <2> QED
    BY <2>1, <2>2, <1>4
<1>6. Qualification!Advancer!OnTrajectory(Grid(q_interval)) = end
  BY <1>2 DEF Qualification!Advancer!OnTrajectory, Batch
<1>7. /\ q_accepted' = [q_accepted EXCEPT !.time = Grid(q_interval), !.state = end, !.hints = end]
      /\ q_returned' = [t \in request |-> Qualification!Advancer!OnTrajectory(t)]
      /\ UNCHANGED q_unsynchronized
  BY <1>1, <1>3, <1>5, <1>6 DEF Qualification!Advancer!Advance, Qualification!Advancer!Ends,
     Qualification!Advancer!Matrices
<1>8. end \in State /\ Grid(q_interval) \in Time
  BY BatchFlows, QualificationFacts, GridInTime, <1>1 DEF RunTypes
<1>9. \A i \in 1..OtherPeriod : q_returned'[Grid(q_interval - 1) + i] = Batch(i)
  BY <1>2, <1>5, <1>7 DEF Qualification!Advancer!OnTrajectory, Batch
<1>10. q_accepted \in Context
  BY <1>1 DEF RunTypes
<1> HIDE DEF end, request
<1>11. q_accepted' \in Context
  BY <1>7, <1>8, <1>10 DEF Context
<1>12. /\ q_accepted'.time = Grid(q_interval) /\ q_accepted'.state = end
       /\ q_accepted'.hints = end /\ q_accepted'.local = q_accepted.local
  BY <1>7, <1>10 DEF Context
<1> QED
  BY <1>4, <1>7, <1>9, <1>11, <1>12 DEF end

LEMMA RunAdvance == ASSUME RunInv, Qualification!Advance PROVE RunInv'
<1> DEFINE from == Grid(q_interval - 1)
           batch == [i \in 1..OtherPeriod |-> Batch(i)]
<1>1. /\ q_stage = "advance"
      /\ Qualification!Advancer!Advance(Qualification!NextEventTime, Qualification!SampleTimes)
      /\ IF Len(states) = Qualification!SampleIndex(1)
           THEN /\ states' = states \o
                     [i \in 1..OtherPeriod |-> q_returned'[Qualification!SampleIndex(i)]]
                /\ q_stage' = "observe"
           ELSE q_stage' = "rejected" /\ UNCHANGED states
      /\ UNCHANGED <<q_memory, q_ordinal, q_interval, q_observer, q_observations, audits>>
  BY DEF Qualification!Advance, Qualification!sessionVars
<1>2. RunTypes /\ RunCounts /\ RunClock /\ RunAudits /\ RunRows
  BY DEF RunInv
<1>3. /\ q_accepted' \in Context
      /\ q_accepted'.time = Grid(q_interval)
      /\ q_accepted'.state = Batch(OtherPeriod) /\ q_accepted'.hints = Batch(OtherPeriod)
      /\ q_accepted'.local = q_accepted.local
      /\ \A i \in 1..OtherPeriod : q_returned'[Qualification!SampleIndex(i)] = Batch(i)
  BY <1>1, RunBatch
<1>4. /\ q_interval \in Nat /\ q_interval # 0 /\ q_interval - 1 \in Nat /\ q_ordinal = q_interval
      /\ from \in Nat /\ Grid(q_interval) = from + OtherPeriod
      /\ OtherPeriod \in Nat /\ OtherPeriod > 0
  BY <1>1, IntervalTimes, QualificationFacts
<1>5. \A i : Qualification!SampleIndex(i) = from + i
  BY DEF Qualification!SampleIndex, Grid
<1>6. RowsBegun
  BY <1>1, <1>4 DEF RowsBegun, Interval
<1>7. /\ Len(states) = from + 1 /\ Len(q_observations) = from + 1
      /\ states[Len(states)] = q_accepted.state /\ q_observer.local = q_accepted.local
  BY <1>1, <1>2, <1>6 DEF RunRows
<1>8. q_stage' = "observe" /\ states' = states \o batch
  BY <1>1, <1>3, <1>5, <1>7
<1>9. /\ Batch(0) = q_accepted.state
      /\ \A i \in 0..OtherPeriod : Batch(i) \in State
      /\ \A i \in 1..OtherPeriod :
           Batch(i) = Flow(Batch(i - 1), q_accepted.local, from + (i - 1), from + i)
  BY <1>1, BatchFlows
<1>10. batch \in [1..OtherPeriod -> State]
  BY <1>4, <1>9
<1> HIDE DEF from, batch
<1>11. /\ states' \in Seq(State) /\ Len(states') = Len(states) + OtherPeriod
       /\ \A i \in 1..Len(states) : states'[i] = states[i]
       /\ \A i \in 1..OtherPeriod : states'[Len(states) + i] = batch[i]
  BY <1>2, <1>4, <1>8, <1>10, Prolonged DEF RunTypes
<1>12. Len(states') = Grid(q_interval) + 1
  BY <1>4, <1>7, <1>11
<1>13. \A i \in 0..OtherPeriod :
         /\ from + i + 1 \in 1..Len(states')
         /\ states'[from + i + 1] = Batch(i)
  <2>1. states'[from + 1] = Batch(0)
    BY <1>4, <1>7, <1>9, <1>11
  <2>2. ASSUME NEW i \in 1..OtherPeriod PROVE states'[from + i + 1] = Batch(i)
    <3>1. Len(states) + i = from + i + 1
      BY <1>4, <1>7
    <3> QED
      BY <3>1, <1>11 DEF batch
  <2>3. ASSUME NEW i \in 0..OtherPeriod PROVE from + i + 1 \in 1..Len(states')
    BY <1>4, <1>7, <1>11
  <2>4. ASSUME NEW i \in 0..OtherPeriod PROVE states'[from + i + 1] = Batch(i)
    <3>1. CASE i = 0
      BY <3>1, <2>1, <1>4
    <3>2. CASE i # 0
      BY <3>2, <2>2, <1>4
    <3> QED
      BY <3>1, <3>2
  <2> QED
    BY <2>3, <2>4
<1>14. Len(audits) = q_interval + 1 /\ q_accepted.local = audits[Len(audits)]
  BY <1>1, <1>2, <1>4 DEF RunAudits, Ended
\* The rows of the batch, and no others, are new.
<1>15. ASSUME NEW n \in 2..Len(states'), ~(n <= Len(states))
       PROVE  \E i \in 1..OtherPeriod : n = from + i + 1
  <2>1. n - (from + 1) \in 1..OtherPeriod
    BY <1>4, <1>7, <1>11, <1>15
  <2>2. n = from + (n - (from + 1)) + 1
    BY <1>4
  <2> QED
    BY <2>1, <2>2
<1>16. ASSUME NEW i \in 1..OtherPeriod
       PROVE  Ruler(from + i + 1) = q_interval + 1
  BY <1>4, <1>16, RulerOfGrid DEF from
<1>17. \A n : Ruler(n)' = Ruler(n)
  BY DEF Ruler
<1>18. RowsAreAudited'
  <2>1. ASSUME NEW n \in 2..Len(states') PROVE Ruler(n) \in 1..Len(audits)
    <3>1. CASE n <= Len(states)
      BY <3>1, <1>4, <1>7 DEF RunInv, RowsAreAudited
    <3>2. CASE ~(n <= Len(states))
      <4>1. PICK i \in 1..OtherPeriod : n = from + i + 1
        BY <3>2, <1>15
      <4>2. Ruler(n) = q_interval + 1
        BY <4>1, <1>16
      <4> QED
        BY <4>2, <1>4, <1>14
    <3> QED
      BY <3>1, <3>2
  <2>2. Len(q_observations) <= Len(states')
    BY <1>4, <1>7, <1>11
  <2>3. 2 \in 1..Len(audits)
    BY <1>4, <1>14
  <2> QED
    BY <1>1, <1>17, <2>1, <2>2, <2>3 DEF RowsAreAudited
<1>19. StatesFollow'
  <2>1. ASSUME NEW n \in 2..Len(states')
        PROVE  states'[n] = Flow(states'[n - 1], audits[Ruler(n)], n - 2, n - 1)
    <3>1. CASE n <= Len(states)
      <4>1. n \in 2..Len(states) /\ n \in 1..Len(states) /\ n - 1 \in 1..Len(states)
        BY <3>1, <1>4, <1>7
      <4>2. states'[n] = states[n] /\ states'[n - 1] = states[n - 1]
        BY <4>1, <1>11
      <4> QED
        BY <4>1, <4>2 DEF RunInv, StatesFollow
    <3>2. CASE ~(n <= Len(states))
      <4>1. PICK i \in 1..OtherPeriod : n = from + i + 1
        BY <3>2, <1>15
      <4>2. i \in 0..OtherPeriod /\ i - 1 \in 0..OtherPeriod
        BY <1>4
      <4>3. n - 1 = from + (i - 1) + 1 /\ n - 2 = from + (i - 1) /\ n - 1 = from + i
        BY <4>1, <1>4
      <4>4. states'[n] = Batch(i) /\ states'[n - 1] = Batch(i - 1)
        BY <4>1, <4>2, <4>3, <1>13
      <4>5. Ruler(n) = q_interval + 1
        BY <4>1, <1>16
      <4> QED
        BY <4>3, <4>4, <4>5, <1>9, <1>14
    <3> QED
      BY <3>1, <3>2
  <2> QED
    BY <1>1, <1>17, <2>1 DEF StatesFollow
<1>20. ObservationsMatch'
  <2>1. ASSUME NEW n \in 1..Len(q_observations) PROVE ObservationOf(n)' = ObservationOf(n)
    <3>1. n \in 1..Len(states)
      BY <1>7
    <3> QED
      BY <1>1, <1>11, <1>17, <3>1 DEF ObservationOf
  <2> QED
    BY <1>1, <2>1 DEF RunInv, ObservationsMatch
<1>21. RunTypes'
  BY <1>1, <1>2, <1>3, <1>8, <1>11 DEF RunTypes, Interval
<1>22. RunCounts'
  BY <1>1, <1>4, <1>8 DEF RunCounts, Interval, AfterEvent
<1>23. RunClock'
  BY <1>1, <1>3, <1>8 DEF RunClock, Ended, Grid
<1>24. RunAudits'
  BY <1>1, <1>3, <1>4, <1>8, <1>14 DEF RunAudits, Ended
<1>25. RunRows'
  <2>1. RowsBegun'
    BY <1>1, <1>4, <1>8 DEF RowsBegun, Interval
  <2>2. OtherPeriod \in 0..OtherPeriod /\ Len(states') = from + OtherPeriod + 1
    BY <1>4, <1>12
  <2>3. states'[Len(states')] = q_accepted'.state
    BY <1>3, <1>13, <2>2
  <2>4. q_observer'.local = q_accepted'.local
    BY <1>1, <1>3, <1>7
  <2>5. \A i \in 1..OtherPeriod : q_returned'[from + i] = states'[from + i + 1]
    <3>1. 1..OtherPeriod \subseteq 0..OtherPeriod
      BY <1>4
    <3> QED
      BY <1>3, <1>5, <1>13, <3>1
  <2>6. Grid(q_interval)' = Grid(q_interval) /\ Grid(q_interval - 1)' = from
    BY <1>1 DEF Grid, from
  <2>7. Len(q_observations') = Grid(q_interval - 1)' + 1 /\ Len(states') = Grid(q_interval)' + 1
    BY <1>1, <1>7, <1>12, <2>6
  <2>8. \A i \in 1..OtherPeriod :
          q_returned'[Grid(q_interval - 1)' + i] = states'[Grid(q_interval - 1)' + i + 1]
    BY <2>5, <2>6
  <2> QED
    BY <1>8, <2>1, <2>3, <2>4, <2>7, <2>8 DEF RunRows
<1>26. PublishedWhole'
  BY <1>8 DEF PublishedWhole
<1> QED
  BY <1>18, <1>19, <1>20, <1>21, <1>22, <1>23, <1>24, <1>25, <1>26 DEF RunInv

LEMMA RunObserve == ASSUME RunInv, Qualification!Observe PROVE RunInv'
<1> DEFINE from == Grid(q_interval - 1)
           Row(i) == [sample |-> from + i, context |-> Qualification!Observed(i)]
           batch == [i \in 1..OtherPeriod |-> Row(i)]
<1>1. /\ q_stage = "observe" /\ q_stage' = "control"
      /\ q_observer' = Qualification!Observed(OtherPeriod)
      /\ q_observations' = q_observations \o
           [i \in 1..OtherPeriod |-> [sample  |-> Qualification!SampleIndex(i),
                                      context |-> Qualification!Observed(i)]]
      /\ UNCHANGED <<q_accepted, q_memory, q_ordinal, q_interval, states, audits>>
  BY DEF Qualification!Observe, Qualification!advancerVars, Qualification!sessionVars
<1>2. RunTypes /\ RunCounts /\ RunClock /\ RunAudits /\ RunRows /\ RowsAreAudited
  BY DEF RunInv
<1>3. q_interval \in Nat /\ q_interval # 0 /\ q_ordinal = q_interval
  BY <1>1, <1>2, RunFields DEF RunCounts, Interval
<1>4. /\ q_interval - 1 \in Nat /\ from \in Nat /\ Grid(q_interval) = from + OtherPeriod
      /\ OtherPeriod \in Nat /\ OtherPeriod > 0
  BY <1>3, GridFacts, QualificationFacts
<1>5. Grid(q_interval) \in Time
  BY <1>2, GridInTime DEF RunTypes
<1>6. \A i : Qualification!SampleIndex(i) = from + i
  BY DEF Qualification!SampleIndex, Grid
<1>7. RowsBegun
  BY <1>1, <1>3 DEF RowsBegun, Interval
<1>8. /\ Len(states) = from + OtherPeriod + 1 /\ Len(q_observations) = from + 1
      /\ states[Len(states)] = q_accepted.state /\ q_observer.local = q_accepted.local
      /\ \A i \in 1..OtherPeriod : q_returned[from + i] = states[from + i + 1]
  <2>1. /\ Len(states) = Grid(q_interval) + 1 /\ Len(q_observations) = from + 1
        /\ states[Len(states)] = q_accepted.state /\ q_observer.local = q_accepted.local
        /\ \A i \in 1..OtherPeriod : q_returned[from + i] = states[from + i + 1]
    BY <1>1, <1>2, <1>7 DEF RunRows
  <2> QED
    BY <2>1, <1>4
<1>9. Len(audits) = q_interval + 1 /\ q_accepted.local = audits[Len(audits)]
  BY <1>1, <1>2, <1>3 DEF RunAudits, Ended
<1>10. q_observations' = q_observations \o batch
  BY <1>1, <1>6
<1>11. ASSUME NEW i \in 1..OtherPeriod
       PROVE  /\ from + i + 1 \in 1..Len(states) /\ from + i \in Time /\ from + i \in Nat
              /\ states[from + i + 1] \in State
              /\ Qualification!Observed(i) =
                   [time |-> from + i, state |-> states[from + i + 1],
                    hints |-> states[from + i + 1], local |-> q_accepted.local]
  <2>1. from + i + 1 \in 1..Len(states) /\ from + i \in Nat
    BY <1>4, <1>8
  <2>2. from + i \in Time
    BY <1>4, <1>5, FlowAssumption DEF Time
  <2>3. states[from + i + 1] \in State
    BY <1>2, <2>1, ElementOfSeq DEF RunTypes
  <2>4. q_returned[Qualification!SampleIndex(i)] = states[from + i + 1]
    BY <1>6, <1>8
  <2>5. Qualification!Observed(i) =
          [q_observer EXCEPT !.time = from + i, !.state = states[from + i + 1],
                             !.hints = states[from + i + 1]]
    BY <1>6, <2>4 DEF Qualification!Observed
  <2>6. q_observer \in Context /\ q_observer.local = q_accepted.local
    BY <1>2, <1>8 DEF RunTypes
  <2>7. Qualification!Observed(i) =
          [time |-> from + i, state |-> states[from + i + 1],
           hints |-> states[from + i + 1], local |-> q_accepted.local]
    BY <2>5, <2>6 DEF Context
  <2> QED
    BY <2>1, <2>2, <2>3, <2>7
<1>12. ASSUME NEW i \in 1..OtherPeriod PROVE Qualification!Observed(i) \in Context
  <2>1. q_accepted.local \in Local
    BY <1>2, RunFields
  <2> QED
    BY <2>1, <1>11 DEF Context
<1>13. batch \in [1..OtherPeriod -> [sample : Nat, context : Context]]
  BY <1>11, <1>12
<1>14. ASSUME NEW i \in 1..OtherPeriod PROVE Row(i) = ObservationOf(from + i + 1)
  <2>1. (from + i + 1) - 1 = from + i /\ from + i + 1 # 1
    BY <1>4
  <2>2. Ruler(from + i + 1) = q_interval + 1
    <3>1. Ruler(Grid(q_interval - 1) + i + 1) = (q_interval - 1) + 2
      BY <1>4, RulerOfGrid
    <3> QED
      BY <3>1, <1>3
  <2>3. audits[Ruler(from + i + 1)] = q_accepted.local
    BY <2>2, <1>9
  <2> QED
    BY <2>1, <2>3, <1>11 DEF ObservationOf
<1> HIDE DEF from, batch, Row
<1>15. /\ q_observations' \in Seq([sample : Nat, context : Context])
       /\ Len(q_observations') = Len(q_observations) + OtherPeriod
       /\ \A i \in 1..Len(q_observations) : q_observations'[i] = q_observations[i]
       /\ \A i \in 1..OtherPeriod : q_observations'[Len(q_observations) + i] = batch[i]
  <2> DEFINE U == [sample : Nat, context : Context]
  <2>1. q_observations \in Seq(U) /\ batch \in [1..OtherPeriod -> U]
    BY <1>2, <1>13 DEF RunTypes
  <2> HIDE DEF U
  <2>2. /\ q_observations \o batch \in Seq(U)
        /\ Len(q_observations \o batch) = Len(q_observations) + OtherPeriod
        /\ \A i \in 1..Len(q_observations) : (q_observations \o batch)[i] = q_observations[i]
        /\ \A i \in 1..OtherPeriod :
             (q_observations \o batch)[Len(q_observations) + i] = batch[i]
    BY <2>1, <1>4, Prolonged
  <2> QED
    BY <2>2, <1>10 DEF U
<1>16. ObservationsMatch'
  <2>1. ASSUME NEW n \in 1..Len(q_observations')
        PROVE  q_observations'[n] = ObservationOf(n)
    <3>1. CASE n <= Len(q_observations)
      <4>1. n \in 1..Len(q_observations)
        BY <3>1, <1>4, <1>8, <1>15
      <4>2. q_observations'[n] = q_observations[n]
        BY <4>1, <1>15
      <4>3. ObservationsMatch
        BY DEF RunInv
      <4> QED
        BY <4>1, <4>2, <4>3 DEF ObservationsMatch
    <3>2. CASE ~(n <= Len(q_observations))
      <4>1. n - (from + 1) \in 1..OtherPeriod /\ Len(q_observations) + (n - (from + 1)) = n
            /\ from + (n - (from + 1)) + 1 = n
        BY <3>2, <1>4, <1>8, <1>15
      <4>2. q_observations'[n] = Row(n - (from + 1))
        BY <4>1, <1>15 DEF batch
      <4> QED
        BY <4>1, <4>2, <1>14
    <3> QED
      BY <3>1, <3>2
  <2>2. \A n : ObservationOf(n)' = ObservationOf(n)
    BY <1>1 DEF ObservationOf, Ruler
  <2> QED
    BY <2>1, <2>2 DEF ObservationsMatch
<1>17. RowsAreAudited' /\ StatesFollow'
  <2>1. Len(q_observations') <= Len(states)
    BY <1>4, <1>8, <1>15
  <2>2. StatesFollow
    BY DEF RunInv
  <2> QED
    BY <2>1, <2>2, <1>1, <1>2 DEF RowsAreAudited, StatesFollow, Ruler
<1>18. RunTypes'
  <2>1. q_observer' \in Context
    <3>1. OtherPeriod \in 1..OtherPeriod
      BY <1>4
    <3> QED
      BY <1>1, <1>12, <3>1
  <2> QED
    BY <1>1, <1>2, <1>15, <2>1 DEF RunTypes, Interval
<1>19. RunCounts'
  BY <1>1, <1>3 DEF RunCounts, Interval, AfterEvent
<1>20. RunClock' /\ RunAudits'
  BY <1>1, <1>2 DEF RunClock, RunAudits, Ended, Grid
<1>21. RunRows'
  <2>1. RowsBegun'
    BY <1>1, <1>3 DEF RowsBegun, Interval
  <2>2. Len(states') = Grid(q_interval)' + 1 /\ Len(q_observations') = Grid(q_interval)' + 1
    <3>1. Grid(q_interval)' = Grid(q_interval)
      BY <1>1 DEF Grid
    <3> QED
      BY <3>1, <1>1, <1>4, <1>8, <1>15
  <2>3. q_observer'.local = q_accepted'.local
    <3>1. OtherPeriod \in 1..OtherPeriod
      BY <1>4
    <3> QED
      BY <1>1, <1>11, <3>1
  <2> QED
    BY <1>1, <1>8, <2>1, <2>2, <2>3 DEF RunRows
<1>22. PublishedWhole'
  BY <1>1 DEF PublishedWhole
<1> QED
  BY <1>16, <1>17, <1>18, <1>19, <1>20, <1>21, <1>22 DEF RunInv

LEMMA RunApplyEvent == ASSUME RunInv, Qualification!ApplyEvent PROVE RunInv'
<1> DEFINE torques == q_accepted'.local
<1>1. /\ q_stage = "control"
      /\ q_stage' = IF q_interval < TerminalOrdinal THEN "synchronize" ELSE "finalize"
      /\ audits' = Append(audits, torques)
      /\ q_observer' = [q_observer EXCEPT !.local = torques]
      /\ UNCHANGED <<q_interval, states, q_observations>>
      /\ Qualification!ApplyPeriodicUpdate
  BY DEF Qualification!ApplyEvent
<1>2. RunTypes /\ RunCounts /\ RunClock /\ RunAudits /\ RunRows
  BY DEF RunInv
<1>3. /\ torques \in Local /\ q_accepted' \in Context /\ q_memory' \in Memory
      /\ q_accepted'.time = q_accepted.time /\ q_accepted'.state = q_accepted.state
      /\ q_accepted'.hints = q_accepted.hints /\ q_ordinal' = q_ordinal + 1
  BY <1>1, <1>2, RunEvent
<1> HIDE DEF torques
<1>4. /\ q_interval \in 0..TerminalOrdinal /\ q_interval \in Nat /\ q_interval # 0
      /\ q_ordinal = q_interval /\ Len(audits) = q_ordinal + 1
  BY <1>1, <1>2, RunFields DEF RunCounts, RunAudits, RunTypes, Ended, Interval
<1>5. /\ audits' \in Seq(Local) /\ Len(audits') = q_ordinal' + 1
      /\ audits'[Len(audits')] = torques
  <2>1. audits \in Seq(Local)
    BY <1>2 DEF RunTypes
  <2>2. /\ Append(audits, torques) \in Seq(Local)
        /\ Len(Append(audits, torques)) = Len(audits) + 1
        /\ Append(audits, torques)[Len(audits) + 1] = torques
    BY <2>1, <1>3, Appended
  <2> QED
    BY <2>2, <1>1, <1>3, <1>4
<1>6. q_observer' \in Context /\ q_observer'.local = torques
  BY <1>1, <1>2, <1>3 DEF RunTypes, Context
<1>7. RunTypes'
  BY <1>1, <1>2, <1>3, <1>4, <1>5, <1>6 DEF RunTypes, AfterEvent
<1>8. RunCounts'
  BY <1>1, <1>3, <1>4, QualificationFacts DEF RunCounts, Interval, AfterEvent
<1>9. RunClock'
  BY <1>1, <1>2, <1>3 DEF RunClock, Ended, Grid
<1>10. RunAudits'
  BY <1>1, <1>3, <1>4, <1>5 DEF RunAudits, Ended, torques
<1>11. RunRows'
  <2>1. RowsBegun /\ RowsBegun'
    BY <1>1, <1>4 DEF RowsBegun, Interval, AfterEvent
  <2>2. /\ Len(states) = Grid(q_interval) + 1 /\ Len(q_observations) = Grid(q_interval) + 1
        /\ states[Len(states)] = q_accepted.state
    BY <1>1, <1>2, <2>1 DEF RunRows
  <2>3. Grid(q_interval)' = Grid(q_interval)
    BY <1>1 DEF Grid
  <2>4. q_observer'.local = q_accepted'.local
    BY <1>6 DEF torques
  <2> QED
    BY <1>1, <1>3, <2>1, <2>2, <2>3, <2>4 DEF RunRows
<1>12. PublishedWhole'
  BY <1>1 DEF PublishedWhole
<1> QED
  BY <1>1, <1>3, <1>7, <1>8, <1>9, <1>10, <1>11, <1>12, RowsKeep DEF RunInv

LEMMA RunPublish == ASSUME RunInv, Qualification!Publish PROVE RunInv'
<1>1. /\ q_stage = "finalize" /\ q_stage' = "published"
      /\ UNCHANGED <<q_accepted, q_memory, q_ordinal, q_interval, q_observer, states,
                     q_observations, audits>>
  BY DEF Qualification!Publish, Qualification!advancerVars, Qualification!sessionVars,
         Qualification!data
<1>2. RunTypes /\ RunCounts /\ RunAudits /\ RunRows
  BY DEF RunInv
<1>3. q_interval = TerminalOrdinal /\ q_ordinal = TerminalOrdinal + 1 /\ TerminalOrdinal # 0
  BY <1>1, <1>2, QualificationFacts DEF RunCounts, AfterEvent
<1>4. RowsBegun
  BY <1>1, <1>3 DEF RowsBegun, AfterEvent
<1>5. /\ Len(states) = Grid(TerminalOrdinal) + 1
      /\ Len(q_observations) = Grid(TerminalOrdinal) + 1
  BY <1>1, <1>2, <1>3, <1>4 DEF RunRows
<1>6. Len(audits) = TerminalOrdinal + 2
  BY <1>1, <1>2, <1>3, QualificationFacts DEF RunAudits, Ended
<1>7. PublishedWhole'
  BY <1>1, <1>5, <1>6 DEF PublishedWhole, Grid
<1>8. RunTypes'
  BY <1>1, <1>2 DEF RunTypes, Ended
<1>9. RunCounts' /\ RunClock' /\ RunAudits'
  BY <1>1 DEF RunCounts, RunClock, RunAudits, Interval, AfterEvent, Ended
<1>10. RunRows'
  <2>1. ~RowsBegun'
    BY <1>1 DEF RowsBegun, Interval, AfterEvent
  <2> QED
    BY <1>1, <2>1 DEF RunRows, Ended
<1> QED
  BY <1>1, <1>7, <1>8, <1>9, <1>10, RowsKeep DEF RunInv

LEMMA RunStep == RunInv /\ [Qualification!Next]_(Qualification!vars) => RunInv'
<1> SUFFICES ASSUME RunInv, [Qualification!Next]_(Qualification!vars) PROVE RunInv'
  OBVIOUS
<1>1. CASE UNCHANGED Qualification!vars
  <2>1. /\ RunTypes /\ RunCounts /\ RunClock /\ RunAudits /\ RunRows /\ PublishedWhole
        /\ UNCHANGED <<q_accepted, q_unsynchronized, q_returned, q_memory, q_ordinal, q_stage,
                       q_interval, q_observer, states, q_observations, audits>>
    BY <1>1 DEF RunInv, Qualification!vars
  <2>2. RunTypes' /\ RunCounts' /\ RunAudits' /\ PublishedWhole'
    BY <2>1 DEF RunTypes, RunCounts, RunAudits, PublishedWhole, Grid
  <2>3. RunClock' /\ RunRows'
    BY <2>1 DEF RunClock, RunRows, RowsBegun, Grid
  <2> QED
    BY <2>1, <2>2, <2>3, RowsKeep DEF RunInv
<1>2. CASE Qualification!Construct \/ Qualification!Synchronize
  BY <1>2, RunBackendStarts
     DEF Qualification!Construct, Qualification!Synchronize, Qualification!Advancer!Synchronize,
         Qualification!sessionVars, Qualification!data
<1>3. CASE \/ Qualification!ConstructFails \/ Qualification!AdvanceFails
           \/ Qualification!SynchronizeFails \/ Qualification!SynchronizeUncounted
           \/ Qualification!Reject
  <2>1. /\ q_stage' = "rejected"
        /\ UNCHANGED <<q_accepted, q_memory, q_ordinal, q_interval, q_observer, states,
                       q_observations, audits>>
    BY <1>3
       DEF Qualification!ConstructFails, Qualification!AdvanceFails,
           Qualification!SynchronizeFails, Qualification!SynchronizeUncounted,
           Qualification!Reject, Qualification!RecordFailure, Qualification!Advancer!Fail,
           Qualification!Advancer!Synchronize, Qualification!advancerVars,
           Qualification!sessionVars, Qualification!data
  <2>2. q_accepted' \in Context
    BY <2>1 DEF RunInv, RunTypes
  <2> QED
    BY <2>1, <2>2, RunEnds
<1>4. CASE Qualification!AdvanceUncounted
  <2>1. /\ q_stage = "advance" /\ q_stage' = "rejected"
        /\ Qualification!Advancer!Advance(Qualification!NextEventTime, Qualification!SampleTimes)
        /\ UNCHANGED <<q_memory, q_ordinal, q_interval, q_observer, states, q_observations,
                       audits>>
    BY <1>4 DEF Qualification!AdvanceUncounted, Qualification!RecordFailure,
                Qualification!sessionVars, Qualification!data
  <2> QED
    BY <2>1, RunBatch, RunEnds
<1> QED
  BY <1>1, <1>2, <1>3, <1>4, RunInitialize, RunStart, RunConfirm, RunObserveStartup, RunAdvance,
     RunObserve, RunApplyEvent, RunPublish
     DEF Qualification!Next

-----------------------------------------------------------------------------
LEMMA PlusOfWork ==
  ASSUME NEW a \in Work, NEW b \in Work
  PROVE  /\ Qualification!Plus(a, b) \in Work
         /\ Qualification!Plus(a, b).steps = a.steps + b.steps
         /\ Qualification!Plus(a, b).evaluations = a.evaluations + b.evaluations
<1>1. DOMAIN Qualification!Zero = {"steps", "evaluations"}
  BY DEF Qualification!Zero
<1>2. Qualification!Plus(a, b) = [steps |-> a.steps + b.steps,
                                  evaluations |-> a.evaluations + b.evaluations]
  BY <1>1 DEF Qualification!Plus
<1> QED
  BY <1>2 DEF Work

LEMMA MinusOfWork ==
  ASSUME NEW a \in Work, NEW b \in Work, Qualification!AtMost(b, a)
  PROVE  /\ Qualification!Minus(a, b) \in Work
         /\ Qualification!Minus(a, b).steps = a.steps - b.steps
         /\ Qualification!Minus(a, b).evaluations = a.evaluations - b.evaluations
<1>1. DOMAIN Qualification!Zero = {"steps", "evaluations"}
  BY DEF Qualification!Zero
<1>2. Qualification!Minus(a, b) = [steps |-> a.steps - b.steps,
                                   evaluations |-> a.evaluations - b.evaluations]
  BY <1>1 DEF Qualification!Minus
<1>3. b.steps <= a.steps /\ b.evaluations <= a.evaluations
  BY <1>1 DEF Qualification!AtMost
<1> QED
  BY <1>2, <1>3 DEF Work

LEMMA WorkFacts ==
  ASSUME NEW a \in Work, NEW b \in Work
  PROVE  /\ a.steps \in Nat /\ a.evaluations \in Nat
         /\ Qualification!AtMost(a, b) <=> a.steps <= b.steps /\ a.evaluations <= b.evaluations
         /\ a.steps = b.steps /\ a.evaluations = b.evaluations => a = b
<1>1. DOMAIN Qualification!Zero = {"steps", "evaluations"}
  BY DEF Qualification!Zero
<1> QED
  BY <1>1 DEF Work, Qualification!AtMost

\* What a counter gains can be read off it again.
LEMMA GainOfWork ==
  ASSUME NEW t \in Work, NEW c \in Work, NEW k \in Work
  PROVE  /\ Qualification!AtMost(c, Qualification!Plus(c, k))
         /\ Qualification!Plus(t, Qualification!Minus(Qualification!Plus(c, k), c))
              = Qualification!Plus(t, k)
         /\ Qualification!Plus(t, Qualification!Minus(c, c)) = t
         /\ Qualification!AtMost(t, Qualification!Plus(t, k))
<1> DEFINE more == Qualification!Plus(c, k)
           gain == Qualification!Minus(more, c)
           none == Qualification!Minus(c, c)
           one == Qualification!Plus(t, gain)
           other == Qualification!Plus(t, k)
<1>1. /\ more \in Work /\ more.steps = c.steps + k.steps
      /\ more.evaluations = c.evaluations + k.evaluations
  BY PlusOfWork
<1>2. c.steps \in Nat /\ c.evaluations \in Nat /\ k.steps \in Nat /\ k.evaluations \in Nat
      /\ t.steps \in Nat /\ t.evaluations \in Nat
  BY WorkFacts
<1>3. Qualification!AtMost(c, more) /\ Qualification!AtMost(c, c)
  BY <1>1, <1>2, WorkFacts
<1> HIDE DEF more
<1>4. gain \in Work /\ gain.steps = k.steps /\ gain.evaluations = k.evaluations
  <2>1. /\ gain \in Work /\ gain.steps = more.steps - c.steps
        /\ gain.evaluations = more.evaluations - c.evaluations
    BY <1>1, <1>3, MinusOfWork
  <2> QED
    BY <2>1, <1>1, <1>2
<1>5. none \in Work /\ none.steps = 0 /\ none.evaluations = 0
  <2>1. /\ none \in Work /\ none.steps = c.steps - c.steps
        /\ none.evaluations = c.evaluations - c.evaluations
    BY <1>3, MinusOfWork
  <2> QED
    BY <2>1, <1>2
<1> HIDE DEF gain, none
<1>6. gain = k
  BY <1>4, WorkFacts
<1>7. Qualification!Plus(t, none) = t
  <2>1. /\ Qualification!Plus(t, none) \in Work
        /\ Qualification!Plus(t, none).steps = t.steps + none.steps
        /\ Qualification!Plus(t, none).evaluations = t.evaluations + none.evaluations
    BY <1>5, PlusOfWork
  <2>2. /\ Qualification!Plus(t, none).steps = t.steps
        /\ Qualification!Plus(t, none).evaluations = t.evaluations
    BY <2>1, <1>2, <1>5
  <2> QED
    BY <2>1, <2>2, WorkFacts
<1>8. Qualification!AtMost(t, other)
  <2>1. /\ other \in Work /\ other.steps = t.steps + k.steps
        /\ other.evaluations = t.evaluations + k.evaluations
    BY PlusOfWork
  <2> QED
    BY <2>1, <1>2, WorkFacts
<1> QED
  BY <1>3, <1>6, <1>7, <1>8 DEF more, gain, none

LEMMA CallsCostWork ==
  /\ Qualification!StartWork \subseteq Work /\ Qualification!AdvanceWork \subseteq Work
  /\ Qualification!FailedWork \subseteq Work
  /\ \A k \in Qualification!StartWork : k.steps = 0
  /\ \A k \in Qualification!AdvanceWork : k.steps = 1
BY QualificationFacts
   DEF Qualification!StartWork, Qualification!AdvanceWork, Qualification!FailedWork, Work

\* The ledger of a run that goes on, with a backend that has been counted.
Counted(l, c, p) ==
  /\ l \in [total : Work, accounted : Work, available : BOOLEAN, complete : BOOLEAN, epochs : Nat]
  /\ l.total = p /\ l.accounted = c /\ l.available /\ l.complete

\* A counted ledger owes nothing, so capturing changes nothing.
LEMMA CaptureOfCounted ==
  ASSUME NEW l, NEW c \in Work, NEW p \in Work, Counted(l, c, p)
  PROVE  Qualification!Capture(l, c) = l
<1>1. Qualification!Plus(l.total, Qualification!Minus(c, l.accounted)) = l.total
  BY GainOfWork DEF Counted
<1>2. l = [l EXCEPT !.total = l.total, !.accounted = c]
  BY DEF Counted
<1> QED
  BY <1>1, <1>2 DEF Qualification!Capture

LEMMA CaptureCounts ==
  ASSUME NEW l, NEW c \in Work, NEW p \in Work, Counted(l, c, p), NEW k \in Work
  PROVE  /\ Counted(Qualification!Capture(l, Qualification!Plus(c, k)),
                    Qualification!Plus(c, k), Qualification!Plus(p, k))
         /\ Qualification!Capturable(l, Qualification!Plus(c, k))
<1> DEFINE more == Qualification!Plus(c, k)
           total == Qualification!Plus(l.total, Qualification!Minus(more, l.accounted))
<1>1. more \in Work /\ Qualification!AtMost(c, more)
  BY PlusOfWork, GainOfWork
<1>2. total = Qualification!Plus(p, k) /\ total \in Work
  BY GainOfWork, PlusOfWork DEF Counted
<1>3. Qualification!Capture(l, more) = [l EXCEPT !.total = total, !.accounted = more]
  BY DEF Qualification!Capture
<1> HIDE DEF total, more
<1>4. Counted([l EXCEPT !.total = total, !.accounted = more], more, Qualification!Plus(p, k))
  <2>1. [l EXCEPT !.total = total, !.accounted = more] \in
          [total : Work, accounted : Work, available : BOOLEAN, complete : BOOLEAN, epochs : Nat]
    BY <1>1, <1>2 DEF Counted
  <2>2. /\ [l EXCEPT !.total = total, !.accounted = more].total = total
        /\ [l EXCEPT !.total = total, !.accounted = more].accounted = more
        /\ [l EXCEPT !.total = total, !.accounted = more].available = l.available
        /\ [l EXCEPT !.total = total, !.accounted = more].complete = l.complete
    BY DEF Counted
  <2> QED
    BY <2>1, <2>2, <1>2 DEF Counted
<1>5. Qualification!Capturable(l, more)
  BY <1>1 DEF Qualification!Capturable, Counted
<1> QED
  BY <1>3, <1>4, <1>5 DEF more

LEMMA EpochCounts ==
  ASSUME NEW l, NEW k \in Work, NEW p \in Work,
         l \in [total : Work, accounted : Work, available : BOOLEAN, complete : BOOLEAN,
                epochs : Nat],
         l.total = p, l.complete
  PROVE  Counted(Qualification!BeginEpoch(l, k), k, Qualification!Plus(p, k))
<1> DEFINE total == Qualification!Plus(l.total, k)
           epochs == l.epochs + 1
           next == [l EXCEPT !.total = total, !.accounted = k, !.available = TRUE,
                             !.epochs = epochs]
<1>1. total = Qualification!Plus(p, k) /\ total \in Work /\ epochs \in Nat
  BY PlusOfWork
<1>2. Qualification!BeginEpoch(l, k) = next
  BY DEF Qualification!BeginEpoch
<1> HIDE DEF total, epochs
<1>3. next \in [total : Work, accounted : Work, available : BOOLEAN, complete : BOOLEAN,
                epochs : Nat]
  BY <1>1
<1>4. /\ next.total = total /\ next.accounted = k /\ next.available = TRUE
      /\ next.complete = l.complete
  OBVIOUS
<1> QED
  BY <1>1, <1>2, <1>3, <1>4 DEF Counted

LedgerRecords ==
  [total : Work, accounted : Work, available : BOOLEAN, complete : BOOLEAN, epochs : Nat]

\* A statement that does no work and does not end the run badly.
LEMMA LedgerRests ==
  ASSUME LedgerInv, UNCHANGED Qualification!work, q_stage # "rejected",
         q_stage' \in {"initialize", "start", "construct"} =>
           q_stage \in {"initialize", "start", "construct"},
         q_stage' \in Interval \cup AfterEvent \cup {"observe_startup"} =>
           q_stage \in Interval \cup AfterEvent \cup {"observe_startup"},
         q_stage' \in {"observe", "control", "synchronize"} =>
           q_stage \in {"observe", "control", "synchronize"}
  PROVE  LedgerInv'
<1>1. UNCHANGED <<counters, ledger, performed, report>>
  BY DEF Qualification!work
<1>2. LedgerTypes'
  BY <1>1 DEF LedgerInv, LedgerTypes
<1>3. LedgerCounts'
  BY <1>1 DEF LedgerInv, LedgerCounts
<1>4. StatedWorkIsTheWorkDone'
  BY <1>1, <1>3 DEF LedgerInv, LedgerCounts, StatedWorkIsTheWorkDone,
     Qualification!StatedWorkIsTheWorkDone
<1> QED
  BY <1>2, <1>3, <1>4 DEF LedgerInv

LEMMA LedgerIsCounted ==
  ASSUME LedgerInv, q_stage \in Interval \cup AfterEvent \cup {"observe_startup"}
  PROVE  Counted(ledger, counters, performed) /\ counters \in Work /\ performed \in Work
<1>1. q_stage # "rejected"
  BY DEF Interval, AfterEvent
<1> QED
  BY <1>1 DEF LedgerInv, LedgerTypes, LedgerCounts, Counted

\* The run goes on with a ledger that has counted everything.
LEMMA LedgerGoesOn ==
  ASSUME LedgerInv, q_stage # "rejected", UNCHANGED report,
         counters' \in Work, performed' \in Work, Counted(ledger', counters', performed'),
         q_stage' \in Interval \cup AfterEvent,
         q_stage' \in {"observe", "control", "synchronize"} => counters'.steps > 0
  PROVE  LedgerInv'
<1>1. /\ ledger' \in [total : Work, accounted : Work, available : BOOLEAN, complete : BOOLEAN,
                      epochs : Nat]
      /\ ledger'.total = performed' /\ ledger'.accounted = counters'
      /\ ledger'.available /\ ledger'.complete
  BY DEF Counted
<1>2. report.availability = "none"
  BY DEF LedgerInv, LedgerCounts
<1>3. LedgerTypes'
  BY <1>1, <1>2 DEF LedgerTypes
<1>4. LedgerCounts'
  BY <1>1, <1>2 DEF LedgerCounts, Interval, AfterEvent
<1>5. StatedWorkIsTheWorkDone'
  BY <1>1, <1>2 DEF StatedWorkIsTheWorkDone, Qualification!StatedWorkIsTheWorkDone
<1> QED
  BY <1>3, <1>4, <1>5 DEF LedgerInv

\* A run that is rejected with a report.
LEMMA LedgerIsReported ==
  ASSUME q_stage' = "rejected", counters' \in Work, performed' \in Work,
         ledger' \in LedgerRecords,
         report'.availability \in {"unavailable", "partial", "complete"},
         report'.availability = "complete" => report'.work = performed',
         report'.availability = "partial" => Qualification!AtMost(report'.work, performed')
  PROVE  LedgerInv'
<1>1. LedgerTypes'
  BY DEF LedgerTypes, LedgerRecords
<1>2. LedgerCounts'
  BY DEF LedgerCounts, Interval, AfterEvent
<1>3. StatedWorkIsTheWorkDone'
  BY DEF StatedWorkIsTheWorkDone, Qualification!StatedWorkIsTheWorkDone,
     Qualification!AtMost, Qualification!Zero
<1> QED
  BY <1>1, <1>2, <1>3 DEF LedgerInv

LEMMA RecordedIsTrue ==
  ASSUME NEW l, NEW c \in Work, NEW p \in Work, Counted(l, c, p), NEW k \in Work,
         NEW readable \in BOOLEAN
  PROVE  LET now == Qualification!Plus(c, k)
             done == Qualification!Plus(p, k)
             noted == Qualification!Recorded(l, now, readable)
         IN  /\ noted \in LedgerRecords
             /\ Qualification!Availability(noted) \in {"unavailable", "partial", "complete"}
             /\ Qualification!Availability(noted) = "complete" => noted.total = done
             /\ Qualification!Availability(noted) = "partial" =>
                 Qualification!AtMost(noted.total, done)
<1> DEFINE now == Qualification!Plus(c, k)
           done == Qualification!Plus(p, k)
           noted == Qualification!Recorded(l, now, readable)
<1>1. Counted(Qualification!Capture(l, now), now, done) /\ Qualification!Capturable(l, now)
  BY CaptureCounts
<1>2. now \in Work /\ done \in Work /\ Qualification!AtMost(p, done)
  BY PlusOfWork, GainOfWork
<1>3. CASE readable
  <2>1. noted = Qualification!Capture(l, now)
    BY <1>1, <1>3 DEF Qualification!Recorded
  <2> HIDE DEF noted, now, done
  <2>2. noted \in LedgerRecords /\ noted.total = done /\ noted.available /\ noted.complete
    BY <2>1, <1>1 DEF Counted, LedgerRecords
  <2>3. Qualification!Availability(noted) = "complete"
    BY <2>2 DEF Qualification!Availability
  <2> QED
    BY <2>2, <2>3 DEF noted, now, done
<1>4. CASE ~readable
  <2>1. noted = [l EXCEPT !.complete = FALSE]
    BY <1>4 DEF Qualification!Recorded
  <2> HIDE DEF noted, now, done
  <2>2. noted \in LedgerRecords /\ noted.total = p /\ noted.available /\ ~noted.complete
    BY <2>1 DEF Counted, LedgerRecords
  <2>3. Qualification!Availability(noted) = "partial"
    BY <2>2 DEF Qualification!Availability
  <2> QED
    BY <2>2, <2>3, <1>2 DEF noted, now, done
<1> QED
  BY <1>3, <1>4

\* The failure of an advance or a synchronization, when all work before it is counted.
LEMMA LedgerRecordsFailure ==
  ASSUME LedgerInv, q_stage \in Interval \cup AfterEvent,
         NEW k \in Work, NEW readable \in BOOLEAN,
         NEW failed, Qualification!RecordFailure(failed, ledger, k, readable)
  PROVE  LedgerInv'
<1>1. Counted(ledger, counters, performed) /\ counters \in Work /\ performed \in Work
  BY LedgerIsCounted
<1>2. /\ counters' = Qualification!Plus(counters, k)
      /\ performed' = Qualification!Plus(performed, k)
      /\ ledger' = Qualification!Recorded(ledger, counters', readable)
      /\ report'.availability = Qualification!Availability(ledger')
      /\ report'.work = ledger'.total
      /\ q_stage' = "rejected"
  BY DEF Qualification!RecordFailure
<1>3. counters' \in Work /\ performed' \in Work
  BY <1>1, <1>2, PlusOfWork
<1>4. /\ ledger' \in LedgerRecords
      /\ Qualification!Availability(ledger') \in {"unavailable", "partial", "complete"}
      /\ Qualification!Availability(ledger') = "complete" => ledger'.total = performed'
      /\ Qualification!Availability(ledger') = "partial" =>
           Qualification!AtMost(ledger'.total, performed')
  BY <1>1, <1>2, RecordedIsTrue
<1> QED
  BY <1>2, <1>3, <1>4, LedgerIsReported

LEMMA LedgerInit == Qualification!Init => LedgerInv
<1> SUFFICES ASSUME Qualification!Init PROVE LedgerInv
  OBVIOUS
<1>1. /\ q_stage = "initialize" /\ counters = Qualification!Zero /\ performed = Qualification!Zero
      /\ ledger = [total |-> Qualification!Zero, accounted |-> Qualification!Zero,
                   available |-> FALSE, complete |-> TRUE, epochs |-> 0]
      /\ report = Qualification!NoReport
  BY DEF Qualification!Init
<1>2. Qualification!Zero \in Work
  BY DEF Qualification!Zero, Work
<1>3. report.availability = "none"
  BY <1>1 DEF Qualification!NoReport
<1>4. LedgerTypes
  BY <1>1, <1>2, <1>3 DEF LedgerTypes
<1>5. LedgerCounts
  BY <1>1, <1>3 DEF LedgerCounts, Interval, AfterEvent
<1>6. StatedWorkIsTheWorkDone
  BY <1>1, <1>3 DEF StatedWorkIsTheWorkDone, Qualification!StatedWorkIsTheWorkDone
<1> QED
  BY <1>4, <1>5, <1>6 DEF LedgerInv

LEMMA LedgerConstruct == ASSUME LedgerInv, Qualification!Construct PROVE LedgerInv'
<1>1. PICK k \in Qualification!StartWork :
        /\ counters' = k /\ performed' = Qualification!Plus(performed, k)
        /\ ledger' = Qualification!BeginEpoch(ledger, k)
  BY DEF Qualification!Construct
<1>2. q_stage = "construct" /\ q_stage' = "confirm" /\ UNCHANGED report
  BY DEF Qualification!Construct
<1>3. /\ ledger \in LedgerRecords /\ ledger.total = performed /\ ledger.complete
      /\ performed \in Work
  BY <1>2 DEF LedgerInv, LedgerTypes, LedgerCounts, LedgerRecords
<1>4. k \in Work /\ counters' \in Work /\ performed' \in Work
  BY <1>1, <1>3, CallsCostWork, PlusOfWork
<1>5. Counted(ledger', counters', performed')
  BY <1>1, <1>3, <1>4, EpochCounts DEF LedgerRecords
<1> QED
  BY <1>2, <1>4, <1>5, LedgerGoesOn DEF AfterEvent

LEMMA LedgerSynchronize == ASSUME LedgerInv, Qualification!Synchronize PROVE LedgerInv'
<1>1. PICK k \in Qualification!StartWork :
        /\ counters' = k /\ performed' = Qualification!Plus(performed, k)
        /\ ledger' = Qualification!BeginEpoch(Qualification!Capture(ledger, counters), k)
  BY DEF Qualification!Synchronize
<1>2. q_stage = "synchronize" /\ q_stage' = "confirm" /\ UNCHANGED report
  BY DEF Qualification!Synchronize
<1>3. Counted(ledger, counters, performed) /\ counters \in Work /\ performed \in Work
  BY <1>2, LedgerIsCounted DEF AfterEvent
<1>4. k \in Work /\ counters' \in Work /\ performed' \in Work
  BY <1>1, <1>3, CallsCostWork, PlusOfWork
<1>5. ledger' = Qualification!BeginEpoch(ledger, k)
  BY <1>1, <1>3, CaptureOfCounted
<1>6. Counted(ledger', counters', performed')
  BY <1>1, <1>3, <1>4, <1>5, EpochCounts DEF Counted
<1> QED
  BY <1>2, <1>4, <1>6, LedgerGoesOn DEF AfterEvent

LEMMA LedgerAdvance == ASSUME LedgerInv, Qualification!Advance PROVE LedgerInv'
<1>1. PICK k \in Qualification!AdvanceWork :
        /\ counters' = Qualification!Plus(counters, k)
        /\ performed' = Qualification!Plus(performed, k)
        /\ ledger' = Qualification!Capture(ledger, counters')
  BY DEF Qualification!Advance
<1>2. q_stage = "advance" /\ q_stage' \in {"observe", "rejected"} /\ UNCHANGED report
  BY DEF Qualification!Advance
<1>3. Counted(ledger, counters, performed) /\ counters \in Work /\ performed \in Work
  BY <1>2, LedgerIsCounted DEF Interval
<1>4. k \in Work /\ k.steps = 1 /\ counters' \in Work /\ performed' \in Work
  BY <1>1, <1>3, CallsCostWork, PlusOfWork
<1>5. Counted(ledger', counters', performed')
  BY <1>1, <1>3, <1>4, CaptureCounts
<1>6. counters'.steps > 0
  <2>1. counters'.steps = counters.steps + k.steps /\ counters.steps \in Nat
    BY <1>1, <1>3, <1>4, PlusOfWork, WorkFacts
  <2> QED
    BY <2>1, <1>4
<1>7. CASE q_stage' = "observe"
  BY <1>2, <1>4, <1>5, <1>6, <1>7, LedgerGoesOn DEF Interval
<1>8. CASE q_stage' = "rejected"
  <2>1. report'.availability = "none"
    BY <1>2 DEF LedgerInv, LedgerCounts
  <2>2. LedgerTypes'
    BY <1>4, <1>5, <2>1 DEF LedgerTypes, Counted
  <2>3. LedgerCounts' /\ StatedWorkIsTheWorkDone'
    BY <1>8, <2>1 DEF LedgerCounts, StatedWorkIsTheWorkDone, Interval, AfterEvent,
       Qualification!StatedWorkIsTheWorkDone
  <2> QED
    BY <2>2, <2>3 DEF LedgerInv
<1> QED
  BY <1>2, <1>7, <1>8

LEMMA LedgerConstructFails == ASSUME LedgerInv, Qualification!ConstructFails PROVE LedgerInv'
<1>1. PICK k \in Qualification!StartWork : performed' = Qualification!Plus(performed, k)
  BY DEF Qualification!ConstructFails
<1>2. /\ q_stage = "construct" /\ q_stage' = "rejected" /\ UNCHANGED counters
      /\ ledger' = [ledger EXCEPT !.complete = FALSE]
      /\ report'.availability = Qualification!Availability(ledger')
  BY DEF Qualification!ConstructFails
<1>3. /\ ledger \in LedgerRecords /\ ~ledger.available /\ performed \in Work /\ counters \in Work
  BY <1>2 DEF LedgerInv, LedgerTypes, LedgerCounts, LedgerRecords
<1>4. k \in Work /\ performed' \in Work
  BY <1>1, <1>3, CallsCostWork, PlusOfWork
<1>5. ledger' \in LedgerRecords /\ ~ledger'.available
  BY <1>2, <1>3 DEF LedgerRecords
<1>6. report'.availability = "unavailable"
  BY <1>2, <1>5 DEF Qualification!Availability
<1> QED
  BY <1>2, <1>3, <1>4, <1>5, <1>6, LedgerIsReported

\* The new epoch has made no step, and the old one had: its counters cannot be taken
\* for those of the old.
LEMMA LedgerSynchronizeUncounted ==
  ASSUME LedgerInv, Qualification!SynchronizeUncounted PROVE LedgerInv'
<1>1. PICK k \in Qualification!StartWork, readable \in BOOLEAN :
        /\ counters' = k /\ performed' = Qualification!Plus(performed, k)
        /\ ledger' = Qualification!Recorded(Qualification!Capture(ledger, counters), k, readable)
        /\ report'.availability = Qualification!Availability(ledger')
        /\ report'.work = ledger'.total
  BY DEF Qualification!SynchronizeUncounted
<1>2. q_stage = "synchronize" /\ q_stage' = "rejected"
  BY DEF Qualification!SynchronizeUncounted
<1>3. Counted(ledger, counters, performed) /\ counters \in Work /\ performed \in Work
  BY <1>2, LedgerIsCounted DEF AfterEvent
<1>4. k \in Work /\ k.steps = 0 /\ counters' \in Work /\ performed' \in Work
  BY <1>1, <1>3, CallsCostWork, PlusOfWork
<1>5. counters.steps > 0
  BY <1>2 DEF LedgerInv, LedgerCounts
<1>6. ~Qualification!Capturable(ledger, k)
  <2>1. ~Qualification!AtMost(counters, k)
    BY <1>3, <1>4, <1>5, WorkFacts
  <2> QED
    BY <2>1, <1>3 DEF Qualification!Capturable, Counted
<1>7. ledger' = [ledger EXCEPT !.complete = FALSE]
  BY <1>1, <1>3, <1>6, CaptureOfCounted DEF Qualification!Recorded
<1>8. /\ ledger' \in LedgerRecords /\ ledger'.total = performed
      /\ ledger'.available /\ ~ledger'.complete
  BY <1>3, <1>7 DEF Counted, LedgerRecords
<1>9. report'.availability = "partial"
  BY <1>1, <1>8 DEF Qualification!Availability
<1>10. Qualification!AtMost(report'.work, performed')
  BY <1>1, <1>3, <1>4, <1>8, GainOfWork
<1> QED
  BY <1>2, <1>4, <1>8, <1>9, <1>10, LedgerIsReported

LEMMA LedgerStep == LedgerInv /\ [Qualification!Next]_(Qualification!vars) => LedgerInv'
<1> SUFFICES ASSUME LedgerInv, [Qualification!Next]_(Qualification!vars) PROVE LedgerInv'
  OBVIOUS
<1>1. CASE UNCHANGED Qualification!vars
  <2>1. UNCHANGED <<counters, ledger, performed, report, q_stage>>
    BY <1>1 DEF Qualification!vars
  <2> QED
    BY <2>1 DEF LedgerInv, LedgerTypes, LedgerCounts, StatedWorkIsTheWorkDone,
       Qualification!StatedWorkIsTheWorkDone, Qualification!AtMost
<1>2. CASE Qualification!Initialize \/ Qualification!Start
  <2>1. /\ UNCHANGED Qualification!work
        /\ q_stage \in {"initialize", "start"} /\ q_stage' \in {"start", "construct"}
    BY <1>2 DEF Qualification!Initialize, Qualification!Start
  <2> QED
    BY <2>1, LedgerRests DEF Interval, AfterEvent
<1>3. CASE Qualification!Confirm \/ Qualification!ObserveStartup
  <2>1. /\ UNCHANGED Qualification!work
        /\ q_stage \in {"confirm", "observe_startup"}
        /\ q_stage' \in {"observe_startup", "advance"}
    BY <1>3 DEF Qualification!Confirm, Qualification!ObserveStartup
  <2> QED
    BY <2>1, LedgerRests DEF Interval, AfterEvent
<1>4. CASE Qualification!Observe \/ Qualification!ApplyEvent
  <2>1. /\ UNCHANGED Qualification!work
        /\ q_stage \in {"observe", "control"}
        /\ q_stage' \in {"control", "synchronize", "finalize"}
    BY <1>4 DEF Qualification!Observe, Qualification!ApplyEvent
  <2> QED
    BY <2>1, LedgerRests DEF Interval, AfterEvent
<1>5. CASE Qualification!Publish \/ Qualification!Reject
  <2>1. /\ UNCHANGED Qualification!work /\ q_stage # "rejected"
        /\ q_stage' \in {"published", "rejected"}
    BY <1>5 DEF Qualification!Publish, Qualification!Reject
  <2> QED
    BY <2>1, LedgerRests DEF Interval, AfterEvent
<1>6. CASE Qualification!AdvanceFails
  <2>1. PICK k \in Qualification!FailedWork, readable \in BOOLEAN :
          Qualification!RecordFailure("advance", ledger, k, readable)
    BY <1>6 DEF Qualification!AdvanceFails
  <2>2. q_stage \in Interval \cup AfterEvent /\ k \in Work
    BY <1>6, CallsCostWork DEF Qualification!AdvanceFails, Interval
  <2> QED
    BY <2>1, <2>2, LedgerRecordsFailure
<1>7. CASE Qualification!AdvanceUncounted
  <2>1. PICK k \in Qualification!AdvanceWork, readable \in BOOLEAN :
          Qualification!RecordFailure("advance", ledger, k, readable)
    BY <1>7 DEF Qualification!AdvanceUncounted
  <2>2. q_stage \in Interval \cup AfterEvent /\ k \in Work
    BY <1>7, CallsCostWork DEF Qualification!AdvanceUncounted, Interval
  <2> QED
    BY <2>1, <2>2, LedgerRecordsFailure
<1>8. CASE Qualification!SynchronizeFails
  <2>1. PICK k \in Qualification!StartWork, readable \in BOOLEAN :
          Qualification!RecordFailure("synchronization", Qualification!Capture(ledger, counters),
                                      k, readable)
    BY <1>8 DEF Qualification!SynchronizeFails
  <2>2. q_stage \in Interval \cup AfterEvent /\ k \in Work
    BY <1>8, CallsCostWork DEF Qualification!SynchronizeFails, AfterEvent
  <2>3. Qualification!Capture(ledger, counters) = ledger
    BY <2>2, LedgerIsCounted, CaptureOfCounted
  <2>4. Qualification!RecordFailure("synchronization", ledger, k, readable)
    BY <2>1, <2>3
  <2> QED
    BY <2>2, <2>4, LedgerRecordsFailure
<1> QED
  BY <1>1, <1>2, <1>3, <1>4, <1>5, <1>6, <1>7, <1>8, LedgerConstruct, LedgerSynchronize,
     LedgerAdvance, LedgerConstructFails, LedgerSynchronizeUncounted
     DEF Qualification!Next
-----------------------------------------------------------------------------
\* The qualification run drives the loop: its event is the loop's, the two of
\* instant zero together the first, and its batch is a hold.
LEMMA RunEventIsTheLoops ==
  ASSUME RunInv, q_stage \in {"start", "control"}, Qualification!ApplyPeriodicUpdate
  PROVE  Qualification!Loop!Event
<1> DEFINE event == QualificationControl(q_accepted.state, q_memory)
           primed == IF q_ordinal = 0 THEN Unprimed ELSE q_memory
<1>1. RunTypes /\ RunCounts /\ RunAudits
  BY DEF RunInv
<1>2. /\ q_accepted'.time = q_accepted.time /\ q_accepted'.state = q_accepted.state
      /\ q_accepted'.local = event.torques /\ q_memory' = event.memory
      /\ q_ordinal' = q_ordinal + 1
  BY <1>1, RunEvent
<1>3. q_accepted.time = q_ordinal * OtherPeriod
  BY DEF Qualification!ApplyPeriodicUpdate, Qualification!NextEventTime
<1>4. Qualification!PrimedControl(q_accepted.state, primed) = event
  <2>1. CASE q_stage = "start"
    <3>1. q_ordinal = 0
      BY <1>1, <2>1 DEF RunCounts
    <3>2. q_memory = QualificationControl(q_accepted.state, InitialMemory).memory
      BY <1>1, <2>1 DEF RunAudits
    <3> QED
      BY <3>1, <3>2 DEF Qualification!PrimedControl
  <2>2. CASE q_stage = "control"
    <3>1. q_ordinal # 0
      BY <1>1, <2>2 DEF RunCounts, Interval
    <3>2. q_memory # Unprimed
      BY <1>1, QualificationFacts DEF RunTypes
    <3> QED
      BY <3>1, <3>2 DEF Qualification!PrimedControl
  <2> QED
    BY <2>1, <2>2
<1>5. (IF q_ordinal = 0 THEN Unprimed ELSE q_memory)' = event.memory
  <2>1. q_ordinal' # 0
    BY <1>1, <1>2 DEF RunTypes
  <2> QED
    BY <2>1, <1>2
<1> HIDE DEF event
<1> QED
  BY <1>2, <1>3, <1>4, <1>5 DEF Qualification!Loop!Event

LEMMA RunBatchIsAHold ==
  ASSUME RunInv, q_stage = "advance",
         Qualification!Advancer!Advance(Qualification!NextEventTime, Qualification!SampleTimes),
         UNCHANGED <<q_memory, q_ordinal>>
  PROVE  Qualification!Loop!Hold(Grid(q_interval)) /\ Grid(q_interval) \in Time
<1>1. /\ q_accepted'.time = Grid(q_interval) /\ q_accepted'.state = Batch(OtherPeriod)
      /\ q_accepted'.local = q_accepted.local
  BY RunBatch
<1>2. /\ q_ordinal = q_interval /\ q_accepted.time = Grid(q_interval - 1)
      /\ Grid(q_interval) = Grid(q_interval - 1) + OtherPeriod
      /\ Grid(q_interval - 1) \in Nat /\ OtherPeriod \in Nat /\ OtherPeriod > 0
      /\ Grid(q_interval - 1) + OtherPeriod \in Time
  BY IntervalTimes, QualificationFacts
<1>3. /\ q_accepted.time < Grid(q_interval) /\ Grid(q_interval) <= q_ordinal * OtherPeriod
  <2>1. Grid(q_interval) = q_ordinal * OtherPeriod
    BY <1>2 DEF Grid
  <2> QED
    BY <2>1, <1>2
<1>4. Batch(OtherPeriod) =
        Flow(q_accepted.state, q_accepted.local, q_accepted.time, Grid(q_interval))
  BY <1>2 DEF Batch
<1> QED
  BY <1>1, <1>2, <1>3, <1>4 DEF Qualification!Loop!Hold

LEMMA RunLoopInit == Qualification!Init => Qualification!Loop!Init
<1> SUFFICES ASSUME Qualification!Init PROVE Qualification!Loop!Init
  OBVIOUS
<1>1. PICK s \in Installed, l \in Local :
        q_accepted = [time |-> 0, state |-> s, local |-> l, hints |-> s]
  BY DEF Qualification!Init, Qualification!Advancer!Init
<1> QED
  BY <1>1 DEF Qualification!Init, Qualification!Loop!Init

LEMMA RunLoopStep ==
  RunInv /\ [Qualification!Next]_(Qualification!vars)
    => [Qualification!Loop!Next]_(Qualification!Loop!vars)
<1> SUFFICES ASSUME RunInv, [Qualification!Next]_(Qualification!vars)
             PROVE  [Qualification!Loop!Next]_(Qualification!Loop!vars)
  OBVIOUS
<1>1. CASE Qualification!Start \/ Qualification!ApplyEvent
  BY <1>1, RunEventIsTheLoops
     DEF Qualification!Start, Qualification!ApplyEvent, Qualification!Loop!Next
<1>2. CASE Qualification!Advance \/ Qualification!AdvanceUncounted
  <2>1. /\ q_stage = "advance" /\ UNCHANGED <<q_memory, q_ordinal>>
        /\ Qualification!Advancer!Advance(Qualification!NextEventTime, Qualification!SampleTimes)
    BY <1>2 DEF Qualification!Advance, Qualification!AdvanceUncounted, Qualification!sessionVars
  <2>2. Qualification!Loop!Hold(Grid(q_interval)) /\ Grid(q_interval) \in Time
    BY <2>1, RunBatchIsAHold
  <2> QED
    BY <2>2 DEF Qualification!Loop!Next, Qualification!Loop!Time, Time
<1>3. CASE Qualification!Initialize
  <2>1. q_ordinal = 0 /\ UNCHANGED <<q_accepted, q_ordinal>>
    BY <1>3 DEF RunInv, RunCounts, Qualification!Initialize,
       Qualification!ApplyInitializationUpdate, Qualification!advancerVars
  <2> QED
    BY <2>1 DEF Qualification!Loop!vars
<1>4. CASE UNCHANGED Qualification!vars
  BY <1>4 DEF Qualification!vars, Qualification!Loop!vars
<1>5. CASE \/ Qualification!Construct \/ Qualification!Synchronize \/ Qualification!Confirm
           \/ Qualification!ObserveStartup \/ Qualification!Observe \/ Qualification!Publish
           \/ Qualification!ConstructFails \/ Qualification!AdvanceFails
           \/ Qualification!SynchronizeFails \/ Qualification!SynchronizeUncounted
           \/ Qualification!Reject
  <2>1. UNCHANGED <<q_accepted, q_memory, q_ordinal>>
    BY <1>5
       DEF Qualification!Construct, Qualification!Synchronize, Qualification!Confirm,
           Qualification!ConfirmBackendSynchronized, Qualification!ObserveStartup,
           Qualification!Observe, Qualification!Publish, Qualification!ConstructFails,
           Qualification!AdvanceFails, Qualification!SynchronizeFails,
           Qualification!SynchronizeUncounted, Qualification!Reject,
           Qualification!Advancer!Fail, Qualification!Advancer!Synchronize,
           Qualification!advancerVars, Qualification!sessionVars
  <2> QED
    BY <2>1 DEF Qualification!Loop!vars
<1> QED
  BY <1>1, <1>2, <1>3, <1>4, <1>5 DEF Qualification!Next
-----------------------------------------------------------------------------
\* Whatever is started, the step is one of the qualification run or none of its.
LEMMA QualificationSteps ==
  /\ MCInit => Qualification!Init
  /\ [MCNext]_<<started, vars, runVars, cruiseVars, qualificationVars, realtimeVars, passiveVars,
                lawVars, tableVars>> => [Qualification!Next]_(Qualification!vars)
<1>1. MCInit => Qualification!Init
  BY DEF MCInit
<1>2. MCNext => [Qualification!Next]_(Qualification!vars)
  BY DEF MCNext, qualificationVars, Qualification!vars
<1> QED
  BY <1>1, <1>2 DEF qualificationVars, Qualification!vars

(***************************************************************************)
(* A sample of the states table and one of the observations that a reader  *)
(* joins belong together, whatever fails, in every qualification run.      *)
(***************************************************************************)
THEOREM ObservationsAlwaysJoin == MCSpec => []ObservationsJoinStates
<1>1. RunInv => ObservationsJoinStates
  BY RunParts
<1> QED
  BY <1>1, QualificationSteps, RunInit, RunStep, PTL DEF MCSpec

(***************************************************************************)
(* The summary and every report of a qualification run count each epoch of *)
(* the backend once, whatever failed and whatever could not be read.       *)
(***************************************************************************)
THEOREM WorkIsStatedTruly == MCSpec => []StatedWorkIsTheWorkDone
<1>1. LedgerInv => StatedWorkIsTheWorkDone
  BY DEF LedgerInv
<1> QED
  BY <1>1, QualificationSteps, LedgerInit, LedgerStep, PTL DEF MCSpec
-----------------------------------------------------------------------------
(***************************************************************************)
(* The guidance experiment.  Again the interval says at each statement     *)
(* where the clock, the session, the three files and the observation       *)
(* context stand; between the samples of an interval, what the advancer    *)
(* returned is the rows to come.                                           *)
(***************************************************************************)
Mark(k) == k * Period

Sampling == {"advance", "observe", "diagnose", "control"}

ExperimentCounts ==
  /\ stage = "initialize" => interval = 0 /\ ordinal = 0
  /\ stage \in {"synchronize", "confirm"} =>
       ordinal = interval + 1 /\ interval < MaxOrdinal /\ phase = "synchronization_required"
  /\ stage = "observe_startup" => interval = 0 /\ ordinal = 1 /\ phase = "ready_to_advance"
  /\ stage \in Sampling => interval # 0 /\ ordinal = interval /\ phase = "ready_to_advance"
  /\ stage = "finalize" =>
       interval # 0 /\ ordinal = interval + 1 /\ phase = "terminal_event_committed"

ExperimentClock ==
  stage \notin Ended => accepted.time = Mark(IF stage = "advance" THEN interval - 1 ELSE interval)

ExperimentEvents ==
  /\ stage \notin Ended => Len(events) = ordinal
  /\ stage \notin Ended \cup {"initialize"} => accepted.local = events[Len(events)]

\* The state at sample i of the interval; sample 0 is its first instant.
Sampled(i) ==
  IF i = 0 THEN rows[Mark(interval - 1) + 1].context.state ELSE returned[Mark(interval - 1) + i]

RowsStarted == stage \notin Ended /\ interval # 0

ExperimentRows ==
  /\ stage \notin Ended /\ interval = 0 => rows = <<>> /\ diagnostics = <<>>
  /\ RowsStarted =>
       /\ Len(rows) = IF stage = "advance" THEN Mark(interval - 1) + 1
                      ELSE IF stage = "observe" THEN Mark(interval - 1) + sample
                      ELSE Mark(interval) + 1
       /\ rows[Len(rows)].context.state =
            IF stage = "observe" THEN Sampled(sample - 1) ELSE accepted.state
       /\ Len(diagnostics) =
            IF stage \in {"advance", "observe", "diagnose"} THEN interval ELSE interval + 1
       /\ observer.local = accepted.local
  /\ stage \in {"diagnose", "control"} => observer.time = Mark(interval)

SamplesAreTheTrajectory ==
  stage = "observe" =>
    /\ Sampled(Period) = accepted.state
    /\ \A i \in 1..Period :
         /\ Sampled(i) \in State
         /\ Sampled(i) = Flow(Sampled(i - 1), accepted.local,
                              Mark(interval - 1) + (i - 1), Mark(interval - 1) + i)

\* The event that ruled the period that ends with row n.
RowRuler(n) == IF n = 1 THEN 1 ELSE (n - 2) \div Period + 1

RowTells(n) ==
  /\ RowRuler(n) \in 1..Len(events)
  /\ rows[n].time = n - 1 /\ rows[n].context.time = n - 1
  /\ rows[n].context.local = events[RowRuler(n)]
  /\ n > 1 => rows[n].context.state =
                Flow(rows[n - 1].context.state, events[RowRuler(n)], n - 2, n - 1)

RowsTell == \A n \in 1..Len(rows) : RowTells(n)

DiagnosticTells(d) ==
  /\ diagnostics[d].event + 1 \in 1..Len(events)
  /\ diagnostics[d].context.local = events[diagnostics[d].event + 1]
  /\ d > 1 => diagnostics[d].context.time = Mark(diagnostics[d].event + 1)

DiagnosticsTell == \A d \in 1..Len(diagnostics) : DiagnosticTells(d)

ExperimentWhole ==
  stage = "published" =>
    /\ phase = "terminal_event_committed"
    /\ Len(events) = ordinal /\ Len(diagnostics) = ordinal
    /\ Len(rows) = Mark(ordinal - 1) + 1
    /\ rows[Len(rows)].context.state = accepted.state

ExperimentInv ==
  /\ Experiment!TypeOK
  /\ ExperimentCounts /\ ExperimentClock /\ ExperimentEvents
  /\ ExperimentRows /\ SamplesAreTheTrajectory
  /\ RowsTell /\ DiagnosticsTell /\ ExperimentWhole

\* An experiment that is not started has no files.
FilesInv ==
  /\ IInv
  /\ IF started = "experiment" THEN ExperimentInv
     ELSE stage = "initialize" /\ rows = <<>> /\ diagnostics = <<>>
-----------------------------------------------------------------------------
LEMMA ExperimentFacts ==
  /\ Period \in Nat \ {0} /\ MaxOrdinal \in Nat \ {0}
  /\ MaxOrdinal * Period \in Time
<1>1. Experiment!RunAssumption
  BY RunAssumptions
<1> QED
  BY <1>1, ControlAssumption DEF Experiment!RunAssumption, Experiment!Time, Time

LEMMA MarkFacts ==
  ASSUME NEW k \in Nat
  PROVE  /\ Mark(k) \in Nat /\ Mark(0) = 0
         /\ Mark(k + 1) = Mark(k) + Period
         /\ k # 0 => k - 1 \in Nat /\ Mark(k - 1) \in Nat /\ Mark(k) = Mark(k - 1) + Period
BY ExperimentFacts, SMT DEF Mark

LEMMA MarkInTime ==
  ASSUME NEW k \in 0..MaxOrdinal
  PROVE  Mark(k) \in Time /\ k \in Nat
<1>1. k \in Nat /\ MaxOrdinal - k \in Nat
  BY ExperimentFacts
<1>2. Mark(MaxOrdinal) = Mark(k) + Mark(MaxOrdinal - k)
  BY <1>1, ExperimentFacts, SMT DEF Mark
<1>3. Mark(k) \in Nat /\ Mark(MaxOrdinal - k) \in Nat
  BY <1>1, MarkFacts
<1>4. Mark(MaxOrdinal) \in 0..Horizon
  BY ExperimentFacts DEF Mark, Time
<1> QED
  BY <1>1, <1>2, <1>3, <1>4, FlowAssumption DEF Time

LEMMA RulerOfMark ==
  ASSUME NEW k \in Nat, NEW i \in 1..Period
  PROVE  RowRuler(Mark(k) + i + 1) = k + 1
<1>1. Period \in Nat /\ Period > 0 /\ i - 1 \in Nat /\ i - 1 < Period
  BY ExperimentFacts
<1>2. Mark(k) \in Nat
  BY MarkFacts
<1>3. (Mark(k) + i + 1) - 2 \in Nat /\ Mark(k) + i + 1 # 1
  BY <1>1, <1>2
<1>4. (Mark(k) + i + 1) - 2 = k * Period + (i - 1)
  BY <1>1, <1>2 DEF Mark
<1>5. ((Mark(k) + i + 1) - 2) \div Period = k
  BY <1>1, <1>3, <1>4, QuotientOfSum
<1> QED
  BY <1>3, <1>5, Zenon DEF RowRuler

\* The session and the advancer of the experiment are those of GuidanceLoop.
LEMMA SessionIsTheLoops ==
  /\ Experiment!Session!TypeOK <=> TypeOK
  /\ Experiment!Session!Init <=> Init
  /\ Experiment!Session!Candidate = Candidate
  /\ Experiment!Session!NextEventTime = NextEventTime
  /\ Experiment!Context = Context
  /\ Experiment!Session!vars = vars
  /\ Experiment!sessionVars = vars
<1>1. Experiment!Session!TypeOK <=> TypeOK
  BY DEF Experiment!Session!TypeOK, TypeOK, Experiment!Session!Phase, Phase,
         Experiment!Session!IsSamples,
     IsSamples, Experiment!Session!Context, Context, Experiment!Session!Time, Time
<1>2. Experiment!Session!Init <=> Init
  BY DEF Experiment!Session!Init, Init, Experiment!Session!Advancer!Init, Advancer!Init,
     Experiment!Session!Advancer!NoSamples, Advancer!NoSamples
<1> QED
  BY <1>1, <1>2
     DEF Experiment!Session!Candidate, Candidate, Experiment!Session!NextEventTime, NextEventTime,
         Experiment!Context, Context, Experiment!Time, Time, Experiment!Session!vars, vars,
         Experiment!sessionVars

LEMMA SessionTypesNext == (Experiment!Session!TypeOK)' <=> TypeOK'
BY DEF Experiment!Session!TypeOK, TypeOK, Experiment!Session!Phase, Phase,
       Experiment!Session!IsSamples,
   IsSamples, Experiment!Session!Context, Context, Experiment!Session!Time, Time

LEMMA SessionCommits ==
  /\ Experiment!Session!ApplyInitializationUpdate <=> ApplyInitializationUpdate
  /\ \A terminal \in BOOLEAN :
       Experiment!Session!ApplyScheduledUpdate(terminal) <=> ApplyScheduledUpdate(terminal)
  /\ Experiment!Session!ScheduledUpdateFails <=> ScheduledUpdateFails
BY DEF Experiment!Session!ApplyInitializationUpdate, ApplyInitializationUpdate,
   Experiment!Session!ApplyScheduledUpdate, ApplyScheduledUpdate,
   Experiment!Session!ScheduledUpdateFails, ScheduledUpdateFails,
   Experiment!Session!EventDue, EventDue, Experiment!Session!NextEventTime, NextEventTime,
   Experiment!Session!CommitEvent, CommitEvent, Experiment!Session!Candidate, Candidate,
   Experiment!Session!Advancer!SetLocal, Advancer!SetLocal,
   Experiment!Session!NoSamples, NoSamples, Experiment!Session!advancerVars, advancerVars

LEMMA SessionSynchronizes ==
  /\ Experiment!Session!Synchronize <=> Synchronize
  /\ Experiment!Session!SynchronizeFails <=> SynchronizeFails
  /\ Experiment!Session!AdvanceFails <=> AdvanceFails
  /\ Experiment!Session!ConfirmBackendSynchronized <=> ConfirmBackendSynchronized
BY DEF Experiment!Session!Synchronize, Synchronize,
   Experiment!Session!SynchronizeFails, SynchronizeFails,
   Experiment!Session!AdvanceFails, AdvanceFails,
   Experiment!Session!ConfirmBackendSynchronized, ConfirmBackendSynchronized,
   Experiment!Session!RequireReadyToAdvance, RequireReadyToAdvance,
   Experiment!Session!NextEventTime, NextEventTime,
   Experiment!Session!Advancer!Synchronize, Advancer!Synchronize,
   Experiment!Session!Advancer!Fail, Advancer!Fail,
   Experiment!Session!Advancer!NoSamples, Advancer!NoSamples,
   Experiment!Session!advancerVars, advancerVars, Experiment!Session!sessionVars, sessionVars

LEMMA SessionAdvances ==
  ASSUME NEW target, NEW request
  PROVE  Experiment!Session!Advance(target, request) <=> Advance(target, request)
BY DEF Experiment!Session!Advance, Advance,
   Experiment!Session!RequireReadyToAdvance, RequireReadyToAdvance,
   Experiment!Session!NextEventTime, NextEventTime,
   Experiment!Session!Advancer!Advance, Advancer!Advance,
   Experiment!Session!Advancer!Ends, Advancer!Ends,
   Experiment!Session!Advancer!Matrices, Advancer!Matrices,
   Experiment!Session!Advancer!OnTrajectory, Advancer!OnTrajectory,
   Experiment!Session!Advancer!NoSamples, Advancer!NoSamples,
   Experiment!Session!sessionVars, sessionVars

LEMMA SessionNext == Experiment!Session!Next <=> Next
<1>1. \A t, r : Experiment!Session!Advance(t, r) <=> Advance(t, r)
  BY SessionAdvances
<1>2. /\ Experiment!Session!Time = Time
      /\ \A now, target : Experiment!Session!Requests(now, target) = Requests(now, target)
  BY DEF Experiment!Session!Time, Time, Experiment!Session!Requests, Requests
<1> QED
  BY <1>1, <1>2, SessionCommits, SessionSynchronizes DEF Experiment!Session!Next, Next
-----------------------------------------------------------------------------
LEMMA ExperimentParts == ExperimentInv => Experiment!FilesTellTheRun
<1> SUFFICES ASSUME ExperimentInv PROVE Experiment!FilesTellTheRun
  OBVIOUS
<1>1. \A n \in 1..Len(rows) : RowTells(n)
  BY DEF ExperimentInv, RowsTell
<1>2. ASSUME NEW n \in 1..Len(rows)
      PROVE  /\ rows[n].time = n - 1 /\ rows[n].context.time = n - 1
             /\ n > 1 => rows[n].context.state =
                  Flow(rows[n - 1].context.state, Experiment!TorquesOf((n - 2) \div Period),
                       n - 2, n - 1)
             /\ rows[n].context.local =
                  Experiment!TorquesOf(IF n = 1 THEN 0 ELSE (n - 2) \div Period)
  <2>1. RowTells(n)
    BY <1>1
  <2>2. CASE n = 1
    BY <2>1, <2>2 DEF RowTells, RowRuler, Experiment!TorquesOf
  <2>3. CASE n # 1
    <3>1. n > 1
      BY <2>3
    <3>2. RowRuler(n) = (n - 2) \div Period + 1
      BY <2>3 DEF RowRuler
    <3> QED
      BY <2>1, <2>3, <3>1, <3>2 DEF RowTells, Experiment!TorquesOf
  <2> QED
    BY <2>2, <2>3
<1>3. Experiment!RowsAreTheTrajectory
  <2>1. ExperimentWhole
    BY DEF ExperimentInv
  <2> QED
    BY <1>2, <2>1 DEF Experiment!RowsAreTheTrajectory, ExperimentWhole, Mark
<1>4. Experiment!ObserverHoldsTheRightTorques
  <2>1. \A d \in 1..Len(diagnostics) : DiagnosticTells(d)
    BY DEF ExperimentInv, DiagnosticsTell
  <2> QED
    BY <1>2, <2>1
       DEF Experiment!ObserverHoldsTheRightTorques, DiagnosticTells, Experiment!TorquesOf, Mark
<1> QED
  BY <1>3, <1>4 DEF Experiment!FilesTellTheRun

LEMMA ExperimentFields ==
  ASSUME Experiment!TypeOK
  PROVE  /\ TypeOK
         /\ stage \in Experiment!Stage /\ observer \in Context /\ events \in Seq(Local)
         /\ rows \in Seq([time : Time, context : Context])
         /\ diagnostics \in Seq([event : Nat, context : Context])
         /\ Len(rows) \in Nat /\ Len(events) \in Nat /\ Len(diagnostics) \in Nat
         /\ interval \in 0..MaxOrdinal /\ interval \in Nat
         /\ sample \in 1..Period /\ sample \in Nat
         /\ ordinal \in Nat
         /\ accepted \in Context /\ accepted.local \in Local /\ accepted.state \in State
<1>1. /\ TypeOK /\ stage \in Experiment!Stage /\ observer \in Context /\ events \in Seq(Local)
      /\ rows \in Seq([time : Time, context : Context])
      /\ diagnostics \in Seq([event : Nat, context : Context])
      /\ interval \in 0..MaxOrdinal /\ sample \in 1..Period
  BY SessionIsTheLoops DEF Experiment!TypeOK, Experiment!Time, Time, Experiment!Context, Context
<1>2. Len(rows) \in Nat /\ Len(events) \in Nat /\ Len(diagnostics) \in Nat
  BY <1>1, LenProperties
<1>3. ordinal \in Nat /\ accepted \in Context
  BY <1>1 DEF TypeOK
<1> QED
  BY <1>1, <1>2, <1>3, Fields, ExperimentFacts

\* Files keep what they tell, events may be added.
LEMMA FilesKeep ==
  ASSUME ExperimentInv, UNCHANGED <<rows, diagnostics>>,
         events' = events \/ \E x \in Local : events' = Append(events, x)
  PROVE  RowsTell' /\ DiagnosticsTell'
<1>1. RowsTell /\ DiagnosticsTell /\ Len(events) \in Nat /\ events \in Seq(Local)
  BY ExperimentFields DEF ExperimentInv
<1>2. /\ Len(events') \in Nat /\ Len(events') >= Len(events)
      /\ \A i \in 1..Len(events) : events'[i] = events[i]
  <2>1. CASE events' = events
    BY <2>1, <1>1
  <2>2. ASSUME NEW x \in Local, events' = Append(events, x)
        PROVE  /\ Len(events') = Len(events) + 1
               /\ \A i \in 1..Len(events) : events'[i] = events[i]
    BY <2>2, <1>1, Appended
  <2> QED
    BY <2>1, <2>2, <1>1
<1>3. ASSUME NEW n \in 1..Len(rows) PROVE RowTells(n)'
  <2>1. RowTells(n)
    BY <1>1 DEF RowsTell
  <2>2. RowRuler(n)' = RowRuler(n)
    BY DEF RowRuler
  <2>3. RowRuler(n) \in 1..Len(events) /\ RowRuler(n) \in 1..Len(events')
    BY <2>1, <1>1, <1>2 DEF RowTells
  <2>4. events'[RowRuler(n)] = events[RowRuler(n)]
    BY <2>3, <1>2
  <2> QED
    BY <2>1, <2>2, <2>3, <2>4 DEF RowTells
<1>4. ASSUME NEW d \in 1..Len(diagnostics) PROVE DiagnosticTells(d)'
  <2>1. DiagnosticTells(d)
    BY <1>1 DEF DiagnosticsTell
  <2>2. /\ diagnostics[d].event + 1 \in 1..Len(events)
        /\ diagnostics[d].event + 1 \in 1..Len(events')
    BY <2>1, <1>1, <1>2 DEF DiagnosticTells
  <2>3. events'[diagnostics[d].event + 1] = events[diagnostics[d].event + 1]
    BY <2>2, <1>2
  <2> QED
    BY <2>1, <2>2, <2>3 DEF DiagnosticTells, Mark
<1> QED
  BY <1>3, <1>4 DEF RowsTell, DiagnosticsTell

\* A row that tells its part is added to those that do.
LEMMA RowAdded ==
  ASSUME ExperimentInv, UNCHANGED events,
         NEW row \in [time : Time, context : Context], rows' = Append(rows, row),
         NEW n, n = Len(rows) + 1,
         RowRuler(n) \in 1..Len(events),
         row.time = n - 1, row.context.time = n - 1,
         row.context.local = events[RowRuler(n)],
         n > 1 => row.context.state =
                    Flow(rows[n - 1].context.state, events[RowRuler(n)], n - 2, n - 1)
  PROVE  /\ RowsTell' /\ rows' \in Seq([time : Time, context : Context])
         /\ Len(rows') = n /\ rows'[n] = row
         /\ \A i \in 1..Len(rows) : rows'[i] = rows[i]
<1> DEFINE U == [time : Time, context : Context]
<1>1. rows \in Seq(U) /\ Len(rows) \in Nat /\ RowsTell
  BY ExperimentFields DEF ExperimentInv
<1>2. row \in U
  OBVIOUS
<1> HIDE DEF U
<1>3. /\ rows' \in Seq(U) /\ Len(rows') = n /\ rows'[n] = row
      /\ \A i \in 1..Len(rows) : rows'[i] = rows[i]
  BY <1>1, <1>2, Appended
<1>4. ASSUME NEW i \in 1..Len(rows') PROVE RowTells(i)'
  <2>1. RowRuler(i)' = RowRuler(i)
    BY DEF RowRuler
  <2>2. CASE i = n
    <3>1. n > 1 => rows'[n - 1] = rows[n - 1]
      BY <1>1, <1>3
    <3> QED
      BY <2>1, <2>2, <3>1, <1>3 DEF RowTells
  <2>3. CASE i # n
    <3>1. i \in 1..Len(rows) /\ (i > 1 => i - 1 \in 1..Len(rows))
      BY <2>3, <1>1, <1>3
    <3>2. rows'[i] = rows[i] /\ (i > 1 => rows'[i - 1] = rows[i - 1])
      BY <3>1, <1>3
    <3>3. RowTells(i)
      BY <3>1, <1>1 DEF RowsTell
    <3> QED
      BY <2>1, <3>2, <3>3 DEF RowTells
  <2> QED
    BY <2>2, <2>3
<1> QED
  BY <1>3, <1>4 DEF RowsTell, U

LEMMA DiagnosticAdded ==
  ASSUME ExperimentInv, UNCHANGED events,
         NEW row \in [event : Nat, context : Context], diagnostics' = Append(diagnostics, row),
         row.event + 1 \in 1..Len(events),
         row.context.local = events[row.event + 1],
         Len(diagnostics) > 0 => row.context.time = Mark(row.event + 1)
  PROVE  /\ DiagnosticsTell' /\ diagnostics' \in Seq([event : Nat, context : Context])
         /\ Len(diagnostics') = Len(diagnostics) + 1
<1> DEFINE U == [event : Nat, context : Context]
<1>1. diagnostics \in Seq(U) /\ Len(diagnostics) \in Nat /\ DiagnosticsTell
  BY ExperimentFields DEF ExperimentInv
<1>2. row \in U
  OBVIOUS
<1> HIDE DEF U
<1>3. /\ diagnostics' \in Seq(U) /\ Len(diagnostics') = Len(diagnostics) + 1
      /\ diagnostics'[Len(diagnostics) + 1] = row
      /\ \A i \in 1..Len(diagnostics) : diagnostics'[i] = diagnostics[i]
  BY <1>1, <1>2, Appended
<1>4. ASSUME NEW d \in 1..Len(diagnostics') PROVE DiagnosticTells(d)'
  <2>1. CASE d = Len(diagnostics) + 1
    <3>1. d > 1 => Len(diagnostics) > 0
      BY <1>1, <2>1
    <3>2. diagnostics'[d] = row
      BY <2>1, <1>3
    <3> QED
      BY <3>1, <3>2 DEF DiagnosticTells, Mark
  <2>2. CASE d # Len(diagnostics) + 1
    <3>1. d \in 1..Len(diagnostics)
      BY <2>2, <1>1, <1>3
    <3>2. diagnostics'[d] = diagnostics[d]
      BY <3>1, <1>3
    <3>3. DiagnosticTells(d)
      BY <3>1, <1>1 DEF DiagnosticsTell
    <3> QED
      BY <3>2, <3>3 DEF DiagnosticTells, Mark
  <2> QED
    BY <2>1, <2>2
<1> QED
  BY <1>3, <1>4 DEF DiagnosticsTell, U

\* An experiment that is rejected leaves what it has.
LEMMA ExperimentRejects ==
  ASSUME ExperimentInv, TypeOK', stage' = "rejected",
         UNCHANGED <<interval, sample, observer, rows, events, diagnostics>>
  PROVE  ExperimentInv'
<1>1. Experiment!TypeOK'
  BY SessionTypesNext DEF ExperimentInv, Experiment!TypeOK, Experiment!Stage
<1>2. /\ stage' \in Ended /\ stage' \notin Sampling /\ stage' # "published"
      /\ stage' \notin {"initialize", "synchronize", "confirm", "observe_startup", "finalize"}
      /\ stage' \notin {"diagnose", "control"} /\ stage' # "observe"
  BY DEF Ended, Sampling
<1>3. ExperimentCounts' /\ ExperimentClock' /\ ExperimentEvents'
  BY <1>2 DEF ExperimentCounts, ExperimentClock, ExperimentEvents
<1>4. ExperimentRows' /\ SamplesAreTheTrajectory' /\ ExperimentWhole'
  BY <1>2 DEF ExperimentRows, RowsStarted, SamplesAreTheTrajectory, ExperimentWhole
<1> QED
  BY <1>1, <1>3, <1>4, FilesKeep DEF ExperimentInv

LEMMA ExperimentInterval ==
  ASSUME ExperimentInv, stage \in Sampling
  PROVE  /\ interval \in Nat /\ interval # 0 /\ interval - 1 \in Nat
         /\ ordinal = interval /\ Len(events) = interval
         /\ Mark(interval - 1) \in Nat /\ Mark(interval) = Mark(interval - 1) + Period
         /\ Mark(interval) \in Time /\ NextEventTime = Mark(interval)
         /\ Period \in Nat /\ Period > 0
         /\ \A i \in 0..Period : Mark(interval - 1) + i \in Time
         /\ \A i : Experiment!SampleIndex(i) = Mark(interval - 1) + i
         /\ accepted.local = events[interval]
<1>1. Experiment!TypeOK /\ ExperimentCounts /\ ExperimentEvents
  BY DEF ExperimentInv
<1>2. stage \notin Ended /\ stage # "initialize"
  BY DEF Sampling, Ended
<1>3. interval \in Nat /\ interval # 0 /\ ordinal = interval /\ Len(events) = interval
  BY <1>1, <1>2, ExperimentFields DEF ExperimentCounts, ExperimentEvents
<1>4. /\ interval - 1 \in Nat /\ Mark(interval - 1) \in Nat
      /\ Mark(interval) = Mark(interval - 1) + Period
      /\ Period \in Nat /\ Period > 0
  BY <1>3, MarkFacts, ExperimentFacts
<1>5. Mark(interval) \in Time
  BY <1>1, ExperimentFields, MarkInTime
<1>6. \A i \in 0..Period : Mark(interval - 1) + i \in Time
  BY <1>4, <1>5, FlowAssumption DEF Time
<1>7. /\ NextEventTime = Mark(interval)
      /\ \A i : Experiment!SampleIndex(i) = Mark(interval - 1) + i
  BY <1>3 DEF NextEventTime, Mark, Experiment!SampleIndex
<1>8. accepted.local = events[interval]
  <2>1. accepted.local = events[Len(events)]
    BY <1>1, <1>2 DEF ExperimentEvents
  <2> QED
    BY <2>1, <1>3
<1> QED
  BY <1>3, <1>4, <1>5, <1>6, <1>7, <1>8

LEMMA SampleTimesAreARequest ==
  ASSUME ExperimentInv, stage = "advance"
  PROVE  /\ Experiment!SampleTimes \in Requests(accepted.time, NextEventTime)
         /\ accepted.time = Mark(interval - 1)
         /\ Experiment!SampleTimes # {}
         /\ \A i \in 0..Period : Mark(interval - 1) + i \in Experiment!SampleTimes
<1> DEFINE from == Mark(interval - 1)
           request == Experiment!SampleTimes
<1>1. stage \in Sampling /\ stage \notin Ended
  BY DEF Sampling, Ended
<1>2. /\ from \in Nat /\ Mark(interval) = from + Period /\ NextEventTime = Mark(interval)
      /\ Period \in Nat /\ Period > 0
      /\ \A i : Experiment!SampleIndex(i) = from + i
  BY <1>1, ExperimentInterval
<1>3. accepted.time = from
  BY <1>1 DEF ExperimentInv, ExperimentClock
<1>4. request = {from} \cup {from + i : i \in 1..Period - 1} \cup {from + Period}
  BY <1>2, <1>3, SessionIsTheLoops DEF Experiment!SampleTimes
<1> HIDE DEF from, request
<1>5. request \subseteq from..(from + Period)
  BY <1>2, <1>4
<1>6. ASSUME NEW i \in 0..Period PROVE from + i \in request
  <2>1. CASE i = 0
    BY <2>1, <1>2, <1>4
  <2>2. CASE i = Period
    BY <2>2, <1>4
  <2>3. CASE i # 0 /\ i # Period
    <3>1. i \in 1..Period - 1
      BY <2>3, <1>2
    <3> QED
      BY <3>1, <1>4
  <2> QED
    BY <2>1, <2>2, <2>3
<1>7. {from, from + Period} \subseteq request
  BY <1>4
<1>8. request \in Requests(from, from + Period)
  BY <1>5, <1>7 DEF Requests
<1> QED
  BY <1>2, <1>3, <1>6, <1>7, <1>8 DEF from, request

\* Every step of the experiment is one of the session and the advancer, or leaves
\* them alone.
LEMMA ExperimentDrives ==
  ASSUME ExperimentInv, [Experiment!Next]_(Experiment!vars)
  PROVE  [Next]_vars
<1>1. CASE Experiment!Initialize
  BY <1>1, SessionCommits DEF Experiment!Initialize, Next
<1>2. CASE Experiment!Synchronize \/ Experiment!Confirm
  BY <1>2, SessionSynchronizes DEF Experiment!Synchronize, Experiment!Confirm, Next
<1>3. CASE Experiment!Advance
  <2>1. Advance(NextEventTime, Experiment!SampleTimes) /\ stage = "advance"
    <3>1. Experiment!Session!Advance(NextEventTime, Experiment!SampleTimes)
      BY <1>3, SessionIsTheLoops DEF Experiment!Advance
    <3> QED
      BY <3>1, <1>3, SessionAdvances DEF Experiment!Advance
  <2>2. NextEventTime \in Time
    BY <2>1, ExperimentInterval DEF Sampling
  <2>3. Experiment!SampleTimes \in Requests(accepted.time, NextEventTime)
    BY <2>1, SampleTimesAreARequest
  <2> QED
    BY <2>1, <2>2, <2>3 DEF Next
<1>4. ASSUME NEW reached \in BOOLEAN, Experiment!ApplyEvent(reached) PROVE Next
  <2>1. Experiment!Session!ApplyScheduledUpdate(reached \/ interval = MaxOrdinal)
    BY <1>4 DEF Experiment!ApplyEvent
  <2>2. (reached \/ interval = MaxOrdinal) \in BOOLEAN
    BY Zenon
  <2>3. ApplyScheduledUpdate(reached \/ interval = MaxOrdinal)
    BY <2>1, <2>2, SessionCommits
  <2> QED
    BY <2>2, <2>3 DEF Next
<1>5. CASE \/ Experiment!ObserveStartup \/ Experiment!Observe \/ Experiment!Diagnose
           \/ Experiment!RejectDuration \/ Experiment!Publish
  <2>1. Experiment!sessionVars' = Experiment!sessionVars
    BY <1>5 DEF Experiment!ObserveStartup, Experiment!Observe, Experiment!Diagnose,
       Experiment!RejectDuration, Experiment!Publish
  <2> QED
    BY <2>1 DEF Experiment!sessionVars, vars
<1>6. CASE Experiment!Reject
  <2>1. \/ Experiment!Session!ScheduledUpdateFails \/ Experiment!Session!AdvanceFails
        \/ Experiment!Session!SynchronizeFails
        \/ Experiment!sessionVars' = Experiment!sessionVars
    BY <1>6 DEF Experiment!Reject
  <2> QED
    BY <2>1, SessionCommits, SessionSynchronizes DEF Experiment!sessionVars, vars, Next
<1>7. CASE UNCHANGED Experiment!vars
  BY <1>7 DEF Experiment!vars, vars
<1> QED
  BY <1>1, <1>2, <1>3, <1>4, <1>5, <1>6, <1>7 DEF Experiment!Next, Experiment!Proceed
-----------------------------------------------------------------------------
LEMMA ExperimentTypes ==
  ASSUME TypeOK', stage' \in Experiment!Stage,
         interval' \in 0..MaxOrdinal, sample' \in 1..Period, observer' \in Context,
         rows' \in Seq([time : Time, context : Context]), events' \in Seq(Local),
         diagnostics' \in Seq([event : Nat, context : Context])
  PROVE  Experiment!TypeOK'
BY SessionTypesNext DEF Experiment!TypeOK, Experiment!Stage, Experiment!Time, Time,
   Experiment!Context, Context

LEMMA Committed ==
  ASSUME ExperimentInv, NEW next, CommitEvent(next), Len(events) = ordinal,
         events' = Append(events, Candidate.torques)
  PROVE  /\ accepted'.time = accepted.time /\ accepted'.state = accepted.state
         /\ accepted'.local \in Local /\ accepted'.local = Candidate.torques
         /\ ordinal' = ordinal + 1 /\ phase' = next
         /\ events' \in Seq(Local) /\ Len(events') = ordinal'
         /\ accepted'.local = events'[Len(events')]
<1>1. TypeOK /\ events \in Seq(Local) /\ Len(events) \in Nat
  BY ExperimentFields DEF ExperimentInv
<1>2. Candidate.torques \in Local
  BY <1>1, CandidateFits
<1>3. /\ accepted' = [accepted EXCEPT !.local = Candidate.torques]
      /\ ordinal' = ordinal + 1 /\ phase' = next
  BY DEF CommitEvent, Advancer!SetLocal
<1> DEFINE torques == Candidate.torques
<1> HIDE DEF torques
<1>4. /\ accepted'.time = accepted.time /\ accepted'.state = accepted.state
      /\ accepted'.local = torques
  <2>1. accepted' = [accepted EXCEPT !.local = torques] /\ accepted \in Context
    BY <1>1, <1>3 DEF torques, TypeOK
  <2> QED
    BY <2>1 DEF Context
<1>5. /\ Append(events, torques) \in Seq(Local)
      /\ Len(Append(events, torques)) = Len(events) + 1
      /\ Append(events, torques)[Len(events) + 1] = torques
  BY <1>1, <1>2, Appended DEF torques
<1>6. events' = Append(events, torques)
  BY DEF torques
<1> QED
  BY <1>2, <1>3, <1>4, <1>5, <1>6 DEF torques

LEMMA ExperimentInitialize ==
  ASSUME ExperimentInv, TypeOK', Experiment!Initialize
  PROVE  ExperimentInv'
<1>1. /\ stage = "initialize" /\ stage' = "synchronize"
      /\ CommitEvent("synchronization_required")
      /\ events' = Append(events, Candidate.torques)
      /\ UNCHANGED <<interval, sample, observer, rows, diagnostics>>
  <2>1. ApplyInitializationUpdate
    BY SessionCommits DEF Experiment!Initialize
  <2> QED
    BY <2>1, SessionIsTheLoops
       DEF Experiment!Initialize, Experiment!loopVars, ApplyInitializationUpdate
<1>2. /\ Experiment!TypeOK /\ ExperimentCounts /\ ExperimentClock /\ ExperimentEvents
      /\ ExperimentRows
  BY DEF ExperimentInv
<1>3. interval = 0 /\ ordinal = 0 /\ Len(events) = ordinal
  BY <1>1, <1>2 DEF ExperimentCounts, ExperimentEvents, Ended
<1>4. /\ accepted'.time = accepted.time /\ accepted'.local \in Local
      /\ ordinal' = ordinal + 1 /\ phase' = "synchronization_required"
      /\ events' \in Seq(Local) /\ Len(events') = ordinal'
      /\ accepted'.local = events'[Len(events')]
  BY <1>1, <1>3, Committed
<1>5. Experiment!TypeOK'
  BY <1>1, <1>2, <1>4, ExperimentFields, ExperimentTypes DEF Experiment!Stage
<1>6. ExperimentCounts'
  BY <1>1, <1>3, <1>4, ExperimentFacts DEF ExperimentCounts, Sampling
<1>7. ExperimentClock' /\ ExperimentEvents'
  BY <1>1, <1>2, <1>4 DEF ExperimentClock, ExperimentEvents, Ended, Mark
<1>8. ExperimentRows' /\ SamplesAreTheTrajectory' /\ ExperimentWhole'
  BY <1>1, <1>2, <1>3
     DEF ExperimentRows, RowsStarted, SamplesAreTheTrajectory, ExperimentWhole, Ended
<1>9. \E x \in Local : events' = Append(events, x)
  BY <1>1, <1>2, CandidateFits, ExperimentFields
<1> QED
  BY <1>1, <1>5, <1>6, <1>7, <1>8, <1>9, FilesKeep DEF ExperimentInv

LEMMA ExperimentSynchronize ==
  ASSUME ExperimentInv, TypeOK', Experiment!Synchronize
  PROVE  ExperimentInv'
<1>1. /\ stage = "synchronize" /\ stage' = "confirm"
      /\ UNCHANGED <<accepted, phase, ordinal, memory,
                     interval, sample, observer, rows, events, diagnostics>>
  <2>1. Synchronize
    BY SessionSynchronizes DEF Experiment!Synchronize
  <2> QED
    BY <2>1 DEF Experiment!Synchronize, Experiment!loopVars, Experiment!files, Synchronize,
       Advancer!Synchronize, sessionVars
<1>2. /\ Experiment!TypeOK /\ ExperimentCounts /\ ExperimentClock /\ ExperimentEvents
      /\ ExperimentRows
  BY DEF ExperimentInv
<1>3. Experiment!TypeOK'
  BY <1>1, <1>2, ExperimentFields, ExperimentTypes DEF Experiment!Stage
<1>4. ExperimentCounts'
  BY <1>1, <1>2 DEF ExperimentCounts, Sampling
<1>5. ExperimentClock' /\ ExperimentEvents'
  BY <1>1, <1>2 DEF ExperimentClock, ExperimentEvents, Ended, Mark
<1>6. ExperimentRows' /\ SamplesAreTheTrajectory' /\ ExperimentWhole'
  BY <1>1, <1>2
     DEF ExperimentRows, RowsStarted, SamplesAreTheTrajectory, ExperimentWhole, Ended, Mark
<1> QED
  BY <1>1, <1>3, <1>4, <1>5, <1>6, FilesKeep DEF ExperimentInv

LEMMA ExperimentConfirm ==
  ASSUME ExperimentInv, TypeOK', Experiment!Confirm
  PROVE  ExperimentInv'
<1>1. /\ stage = "confirm"
      /\ stage' = IF interval = 0 THEN "observe_startup" ELSE "advance"
      /\ interval' = IF interval = 0 THEN 0 ELSE interval + 1
      /\ phase' = "ready_to_advance"
      /\ UNCHANGED <<accepted, returned, ordinal, memory, sample, observer, rows, events,
                     diagnostics>>
  <2>1. ConfirmBackendSynchronized
    BY SessionSynchronizes DEF Experiment!Confirm
  <2> QED
    BY <2>1 DEF Experiment!Confirm, Experiment!files, ConfirmBackendSynchronized, advancerVars
<1>2. /\ Experiment!TypeOK /\ ExperimentCounts /\ ExperimentClock /\ ExperimentEvents
      /\ ExperimentRows
  BY DEF ExperimentInv
<1>3. interval \in Nat /\ ordinal = interval + 1 /\ interval < MaxOrdinal
  BY <1>1, <1>2, ExperimentFields DEF ExperimentCounts
<1>4. /\ interval' \in 0..MaxOrdinal
      /\ stage' = "advance" => interval # 0 /\ interval' # 0 /\ interval' - 1 = interval
      /\ stage' # "advance" => interval = 0 /\ interval' = interval
  BY <1>1, <1>3, ExperimentFacts
<1>5. Experiment!TypeOK'
  BY <1>1, <1>2, <1>4, ExperimentFields, ExperimentTypes DEF Experiment!Stage
<1>6. ExperimentCounts'
  BY <1>1, <1>3 DEF ExperimentCounts, Sampling
<1>7. ExperimentClock' /\ ExperimentEvents'
  BY <1>1, <1>2, <1>4 DEF ExperimentClock, ExperimentEvents, Ended, Mark
<1>8. ExperimentRows'
  <2>1. CASE interval = 0
    BY <1>1, <1>2, <2>1 DEF ExperimentRows, RowsStarted, Ended
  <2>2. CASE interval # 0
    <3>1. stage' = "advance" /\ interval' # 0 /\ interval' - 1 = interval
      BY <1>1, <1>4, <2>2
    <3>2. RowsStarted
      BY <1>1, <2>2 DEF RowsStarted, Ended
    <3>3. /\ Len(rows) = Mark(interval) + 1
          /\ rows[Len(rows)].context.state = accepted.state
          /\ Len(diagnostics) = interval + 1 /\ observer.local = accepted.local
      BY <1>1, <1>2, <3>2 DEF ExperimentRows
    <3>4. Mark(interval - 1)' = Mark(interval)
      BY <3>1 DEF Mark
    <3>5. Len(diagnostics) = interval'
      BY <1>1, <2>2, <3>3
    <3> QED
      BY <1>1, <3>1, <3>3, <3>4, <3>5 DEF ExperimentRows, RowsStarted
  <2> QED
    BY <2>1, <2>2
<1>9. SamplesAreTheTrajectory' /\ ExperimentWhole'
  BY <1>1 DEF SamplesAreTheTrajectory, ExperimentWhole
<1> QED
  BY <1>1, <1>5, <1>6, <1>7, <1>8, <1>9, FilesKeep DEF ExperimentInv

LEMMA ExperimentObserveStartup ==
  ASSUME ExperimentInv, TypeOK', Experiment!ObserveStartup
  PROVE  ExperimentInv'
<1> DEFINE row == [time |-> 0, context |-> accepted]
           diagnostic == [event |-> 0, context |-> accepted]
<1>1. /\ stage = "observe_startup" /\ stage' = "advance"
      /\ observer' = accepted /\ interval' = 1
      /\ rows' = Append(rows, row) /\ diagnostics' = Append(diagnostics, diagnostic)
      /\ UNCHANGED <<accepted, returned, phase, ordinal, memory, sample, events>>
  BY DEF Experiment!ObserveStartup, Experiment!sessionVars
<1>2. /\ Experiment!TypeOK /\ ExperimentCounts /\ ExperimentClock /\ ExperimentEvents
      /\ ExperimentRows
  BY DEF ExperimentInv
<1>3. interval = 0 /\ ordinal = 1 /\ phase = "ready_to_advance"
  BY <1>1, <1>2 DEF ExperimentCounts
<1>4. /\ stage \notin Ended /\ stage # "initialize" /\ stage # "advance"
  BY <1>1 DEF Ended
<1>5. Len(events) = 1 /\ accepted.local = events[1]
  <2>1. Len(events) = ordinal /\ accepted.local = events[Len(events)]
    BY <1>2, <1>4 DEF ExperimentEvents
  <2> QED
    BY <1>3, <2>1
<1>6. accepted.time = 0
  <2>1. accepted.time = Mark(interval)
    BY <1>2, <1>4 DEF ExperimentClock
  <2> QED
    BY <1>3, <2>1, MarkFacts
<1>7. rows = <<>> /\ diagnostics = <<>> /\ Len(rows) = 0 /\ Len(diagnostics) = 0
  BY <1>2, <1>3, <1>4 DEF ExperimentRows
<1>8. /\ row \in [time : Time, context : Context]
      /\ diagnostic \in [event : Nat, context : Context]
  BY <1>2, ExperimentFields, FlowAssumption DEF Time
<1>9. RowRuler(1) = 1
  BY DEF RowRuler
<1>10. /\ RowsTell' /\ rows' \in Seq([time : Time, context : Context])
       /\ Len(rows') = 1 /\ rows'[1] = row
  <2>1. row.time = 0 /\ row.context = accepted
    OBVIOUS
  <2> HIDE DEF row
  <2> DEFINE n == Len(rows) + 1
  <2>2. n = 1 /\ RowRuler(n) = 1 /\ n - 1 = 0 /\ ~(n > 1)
    BY <1>7, <1>9
  <2> HIDE DEF n
  <2>3. RowRuler(n) \in 1..Len(events)
    BY <2>2, <1>5
  <2>4. /\ RowsTell' /\ rows' \in Seq([time : Time, context : Context])
        /\ Len(rows') = n /\ rows'[n] = row
    BY <1>1, <1>5, <1>6, <1>8, <2>1, <2>2, <2>3, RowAdded DEF n
  <2> QED
    BY <2>2, <2>4
<1>11. /\ DiagnosticsTell' /\ diagnostics' \in Seq([event : Nat, context : Context])
       /\ Len(diagnostics') = 1
  <2>1. diagnostic.event + 1 = 1 /\ diagnostic.context = accepted
    OBVIOUS
  <2> HIDE DEF diagnostic
  <2>2. diagnostic.event + 1 \in 1..Len(events) /\ ~(Len(diagnostics) > 0)
    BY <2>1, <1>5, <1>7
  <2>3. /\ DiagnosticsTell' /\ diagnostics' \in Seq([event : Nat, context : Context])
        /\ Len(diagnostics') = Len(diagnostics) + 1
    BY <1>1, <1>5, <1>8, <2>1, <2>2, DiagnosticAdded
  <2> QED
    BY <2>3, <1>7
<1>12. Experiment!TypeOK'
  <2>1. interval' \in 0..MaxOrdinal
    BY <1>1, ExperimentFacts
  <2> QED
    BY <1>1, <1>2, <1>10, <1>11, <2>1, ExperimentFields, ExperimentTypes DEF Experiment!Stage
<1>13. ExperimentCounts'
  BY <1>1, <1>3 DEF ExperimentCounts, Sampling
<1>14. ExperimentClock' /\ ExperimentEvents'
  <2>1. (interval - 1)' = interval
    BY <1>1, <1>3
  <2> QED
    BY <1>1, <1>2, <1>4, <2>1 DEF ExperimentClock, ExperimentEvents, Mark
<1>15. ExperimentRows'
  <2>1. Mark(interval - 1)' = 0
    <3>1. (interval - 1)' = 0 /\ 0 * Period = 0
      BY <1>1, ExperimentFacts
    <3> QED
      BY <3>1 DEF Mark
  <2>2. rows'[Len(rows')].context.state = accepted'.state
    BY <1>1, <1>10
  <2> QED
    BY <1>1, <1>10, <1>11, <2>1, <2>2 DEF ExperimentRows, RowsStarted
<1>16. SamplesAreTheTrajectory' /\ ExperimentWhole'
  BY <1>1 DEF SamplesAreTheTrajectory, ExperimentWhole
<1> QED
  BY <1>10, <1>11, <1>12, <1>13, <1>14, <1>15, <1>16 DEF ExperimentInv

LEMMA ExperimentAdvance ==
  ASSUME IInv, ExperimentInv, TypeOK', Experiment!Advance
  PROVE  ExperimentInv'
<1> DEFINE from == Mark(interval - 1)
           At(i) == Flow(accepted.state, accepted.local, from, from + i)
<1>1. /\ stage = "advance" /\ stage' = "observe" /\ sample' = 1
      /\ Advance(NextEventTime, Experiment!SampleTimes)
      /\ UNCHANGED <<interval, observer, rows, events, diagnostics>>
  <2>1. Experiment!Session!Advance(NextEventTime, Experiment!SampleTimes)
    BY SessionIsTheLoops DEF Experiment!Advance
  <2> QED
    BY <2>1, SessionAdvances DEF Experiment!Advance, Experiment!files
<1>2. /\ Experiment!TypeOK /\ ExperimentCounts /\ ExperimentClock /\ ExperimentEvents
      /\ ExperimentRows
  BY DEF ExperimentInv
<1>3. stage \in Sampling /\ stage \notin Ended /\ stage' \in Sampling /\ stage' \notin Ended
  BY <1>1 DEF Sampling, Ended
<1>4. /\ interval \in Nat /\ interval # 0 /\ interval - 1 \in Nat
      /\ ordinal = interval /\ Len(events) = interval
      /\ from \in Nat /\ Mark(interval) = from + Period
      /\ Mark(interval) \in Time /\ NextEventTime = Mark(interval)
      /\ Period \in Nat /\ Period > 0
      /\ \A i \in 0..Period : from + i \in Time
      /\ accepted.local = events[interval]
  BY <1>3, ExperimentInterval
<1>5. /\ accepted.time = from /\ Experiment!SampleTimes # {}
      /\ \A i \in 0..Period : from + i \in Experiment!SampleTimes
  BY <1>1, SampleTimesAreARequest
<1>6. accepted \in Context /\ accepted.state \in State /\ accepted.local \in Local
  BY <1>2, ExperimentFields
<1>7. /\ accepted' = [accepted EXCEPT !.time = NextEventTime, !.state = At(Period),
                                      !.hints = At(Period)]
      /\ returned' = [t \in Experiment!SampleTimes |->
                        Flow(accepted.state, accepted.local, accepted.time, t)]
  BY <1>1, <1>4, <1>5, AdvanceFollowsTheFlow
<1>8. UNCHANGED <<phase, ordinal, memory>>
  BY <1>1 DEF Advance, sessionVars
<1>9. /\ accepted'.time = Mark(interval) /\ accepted'.state = At(Period)
      /\ accepted'.local = accepted.local
  <2> HIDE DEF At
  <2> QED
    BY <1>4, <1>6, <1>7 DEF Context
<1>10. \A i \in 0..Period : returned'[from + i] = At(i)
  BY <1>5, <1>7
<1>11. RowsStarted
  BY <1>3, <1>4 DEF RowsStarted
<1>12. /\ Len(rows) = from + 1 /\ rows[Len(rows)].context.state = accepted.state
       /\ Len(diagnostics) = interval /\ observer.local = accepted.local
  BY <1>1, <1>2, <1>11 DEF ExperimentRows
<1>13. Mark(interval - 1)' = from /\ Mark(interval)' = Mark(interval)
  BY <1>1 DEF Mark
<1>14. /\ from \in Time /\ At(0) = accepted.state
       /\ \A i \in 0..Period : At(i) \in State
       /\ \A i \in 1..Period : At(i) = Flow(At(i - 1), accepted.local, from + (i - 1), from + i)
  <2>1. from \in Time /\ from + 0 = from
    <3>1. 0 \in 0..Period /\ from + 0 = from
      BY <1>4
    <3> QED
      BY <3>1, <1>4
  <2> HIDE DEF from
  <2>2. ASSUME NEW i \in 0..Period PROVE At(i) \in State
    BY <1>4, <1>6, <2>1, FlowAssumption
  <2>3. At(0) = accepted.state
    BY <1>6, <2>1, FlowAssumption
  <2>4. ASSUME NEW i \in 1..Period
        PROVE  At(i) = Flow(At(i - 1), accepted.local, from + (i - 1), from + i)
    <3>1. i \in 0..Period /\ i - 1 \in 0..Period
      BY <1>4
    <3>2. from + i \in Time /\ from + (i - 1) \in Time
      BY <1>4, <3>1
    <3>3. from <= from + (i - 1) /\ from + (i - 1) <= from + i
      BY <1>4 DEF from
    <3> QED
      BY <1>6, <2>1, <3>2, <3>3, FlowGoesOn
  <2> QED
    BY <2>1, <2>2, <2>3, <2>4
<1> HIDE DEF At, from
<1>15. \A i \in 0..Period : Sampled(i)' = At(i)
  <2>1. ASSUME NEW i \in 0..Period PROVE Sampled(i)' = At(i)
    <3>1. CASE i = 0
      <4>1. Sampled(i)' = rows[from + 1].context.state
        BY <3>1, <1>1, <1>13 DEF Sampled
      <4> QED
        BY <3>1, <4>1, <1>12, <1>14
    <3>2. CASE i # 0
      <4>1. Sampled(i)' = returned'[from + i]
        BY <3>2, <1>13 DEF Sampled
      <4> QED
        BY <4>1, <1>10
    <3> QED
      BY <3>1, <3>2
  <2> QED
    BY <2>1
<1>16. SamplesAreTheTrajectory'
  <2>1. Sampled(Period)' = accepted'.state
    BY <1>4, <1>9, <1>15
  <2>2. ASSUME NEW i \in 1..Period
        PROVE  /\ Sampled(i)' \in State
               /\ Sampled(i)' = Flow(Sampled(i - 1)', accepted'.local, from + (i - 1), from + i)
    <3>1. i \in 0..Period /\ i - 1 \in 0..Period
      BY <1>4
    <3> QED
      BY <3>1, <1>9, <1>14, <1>15
  <2> QED
    BY <2>1, <2>2, <1>13 DEF SamplesAreTheTrajectory
<1>17. Experiment!TypeOK'
  <2>1. sample' \in 1..Period
    BY <1>1, <1>4
  <2> QED
    BY <1>1, <1>2, <2>1, ExperimentFields, ExperimentTypes DEF Experiment!Stage
<1>18. ExperimentCounts'
  BY <1>1, <1>2, <1>3, <1>8 DEF ExperimentCounts
<1>19. ExperimentClock'
  BY <1>1, <1>9, <1>13 DEF ExperimentClock
<1>20. ExperimentEvents'
  BY <1>1, <1>4, <1>8, <1>9 DEF ExperimentEvents
<1>21. ExperimentRows'
  <2>1. (sample - 1)' = 0 /\ from + sample' = from + 1
    BY <1>1
  <2>2. Sampled(sample - 1)' = At(0)
    <3>1. 0 \in 0..Period
      BY <1>4
    <3>2. Sampled(0)' = At(0)
      BY <3>1, <1>15
    <3> QED
      BY <3>2, <2>1 DEF Sampled
  <2>3. rows'[Len(rows')].context.state = Sampled(sample - 1)'
    BY <1>1, <1>12, <1>14, <2>2
  <2>4. Len(rows') = Mark(interval - 1)' + sample'
    BY <1>1, <1>12, <1>13, <2>1
  <2> QED
    BY <1>1, <1>4, <1>9, <1>12, <2>3, <2>4 DEF ExperimentRows, RowsStarted
<1>22. ExperimentWhole'
  BY <1>1 DEF ExperimentWhole
<1> QED
  BY <1>1, <1>16, <1>17, <1>18, <1>19, <1>20, <1>21, <1>22, FilesKeep DEF ExperimentInv

LEMMA ExperimentObserve ==
  ASSUME ExperimentInv, TypeOK', Experiment!Observe
  PROVE  ExperimentInv'
<1> DEFINE from == Mark(interval - 1)
           end == from + sample
           context == [observer EXCEPT !.time = end, !.state = Sampled(sample),
                                       !.hints = Sampled(sample)]
           row == [time |-> end, context |-> context]
<1>1. /\ stage = "observe"
      /\ observer' = [observer EXCEPT !.time = Experiment!SampleTime(sample),
                        !.state = returned[Experiment!SampleTime(sample)],
                        !.hints = returned[Experiment!SampleTime(sample)]]
      /\ rows' = Append(rows, [time |-> Experiment!SampleIndex(sample), context |-> observer'])
      /\ IF sample = Period THEN stage' = "diagnose" /\ UNCHANGED sample
         ELSE sample' = sample + 1 /\ UNCHANGED stage
      /\ UNCHANGED <<accepted, returned, phase, ordinal, memory, interval, events, diagnostics>>
  BY DEF Experiment!Observe, Experiment!sessionVars
<1>2. /\ Experiment!TypeOK /\ ExperimentCounts /\ ExperimentClock /\ ExperimentEvents
      /\ ExperimentRows /\ SamplesAreTheTrajectory
  BY DEF ExperimentInv
<1>3. stage \in Sampling /\ stage \notin Ended /\ stage' \in Sampling /\ stage' \notin Ended
  BY <1>1 DEF Sampling, Ended
<1>4. /\ interval \in Nat /\ interval # 0 /\ interval - 1 \in Nat
      /\ ordinal = interval /\ Len(events) = interval
      /\ from \in Nat /\ Mark(interval) = from + Period
      /\ NextEventTime = Mark(interval)
      /\ Period \in Nat /\ Period > 0
      /\ \A i \in 0..Period : from + i \in Time
      /\ \A i : Experiment!SampleIndex(i) = from + i
      /\ accepted.local = events[interval]
  BY <1>3, ExperimentInterval
<1>5. /\ observer \in Context /\ sample \in 1..Period /\ sample \in 0..Period /\ sample \in Nat
      /\ Len(rows) \in Nat
  BY <1>2, ExperimentFields
<1>6. RowsStarted
  BY <1>3, <1>4 DEF RowsStarted
<1>7. /\ Len(rows) = end /\ rows[Len(rows)].context.state = Sampled(sample - 1)
      /\ Len(diagnostics) = interval /\ observer.local = accepted.local
  BY <1>1, <1>2, <1>6 DEF ExperimentRows
<1>8. /\ Sampled(Period) = accepted.state
      /\ \A i \in 1..Period :
           /\ Sampled(i) \in State
           /\ Sampled(i) = Flow(Sampled(i - 1), accepted.local, from + (i - 1), from + i)
  BY <1>1, <1>2 DEF SamplesAreTheTrajectory
<1>9. Experiment!SampleTime(sample) = end /\ Experiment!SampleIndex(sample) = end
  BY <1>4, SessionIsTheLoops DEF Experiment!SampleTime
<1>10. returned[end] = Sampled(sample)
  <2>1. sample # 0
    BY <1>5
  <2> QED
    BY <2>1 DEF Sampled
<1>11. observer' = context /\ rows' = Append(rows, row)
  BY <1>1, <1>9, <1>10
<1>12. end \in Time /\ end \in Nat /\ Sampled(sample) \in State
  <2>1. end \in Time
    BY <1>4, <1>5
  <2>2. from \in Nat /\ sample \in Nat
    BY <1>4, <1>5
  <2>3. Sampled(sample) \in State
    BY <1>5, <1>8
  <2> QED
    BY <2>1, <2>2, <2>3
<1>13. /\ context \in Context /\ context.time = end /\ context.state = Sampled(sample)
       /\ context.local = accepted.local
  <2> HIDE DEF end
  <2> QED
    BY <1>5, <1>7, <1>12 DEF Context
<1> HIDE DEF context
<1>14. /\ row \in [time : Time, context : Context] /\ row.time = end
       /\ row.context = context
  <2> HIDE DEF end
  <2> QED
    BY <1>12, <1>13
<1>15. RowRuler(end + 1) = interval
  <2>1. RowRuler(from + sample + 1) = (interval - 1) + 1
    BY <1>4, <1>5, RulerOfMark
  <2> QED
    BY <2>1, <1>4
<1> HIDE DEF row
<1>16. /\ RowsTell' /\ rows' \in Seq([time : Time, context : Context])
       /\ Len(rows') = end + 1 /\ rows'[end + 1] = row
       /\ \A i \in 1..Len(rows) : rows'[i] = rows[i]
  <2> DEFINE n == end + 1
  <2>1. /\ n = Len(rows) + 1 /\ n - 1 = end /\ n - 1 = Len(rows)
        /\ n - 2 = from + (sample - 1) /\ RowRuler(n) = interval
    <3> HIDE DEF from
    <3>1. from \in Nat /\ sample \in Nat /\ Len(rows) = from + sample
      BY <1>4, <1>5, <1>7
    <3>2. /\ n = Len(rows) + 1 /\ n - 1 = end /\ n - 1 = Len(rows)
          /\ n - 2 = from + (sample - 1)
      BY <3>1
    <3> QED
      BY <3>2, <1>15
  <2>2. interval \in 1..Len(events)
    BY <1>4
  <2>3. row.context.state = Flow(rows[n - 1].context.state, events[interval], n - 2, n - 1)
    BY <2>1, <1>4, <1>5, <1>7, <1>8, <1>13, <1>14
  <2> HIDE DEF n, end
  <2>5. /\ RowRuler(n) \in 1..Len(events) /\ row.time = n - 1 /\ row.context.time = n - 1
        /\ row.context.local = events[RowRuler(n)]
        /\ row.context.state = Flow(rows[n - 1].context.state, events[RowRuler(n)], n - 2, n - 1)
    BY <1>4, <1>13, <1>14, <2>1, <2>2, <2>3
  <2>6. n = Len(rows) + 1 /\ events' = events
    BY <1>1, <2>1
  <2>4. /\ RowsTell' /\ rows' \in Seq([time : Time, context : Context])
        /\ Len(rows') = n /\ rows'[n] = row
        /\ \A i \in 1..Len(rows) : rows'[i] = rows[i]
    BY <1>11, <1>14, <2>5, <2>6, RowAdded
  <2> QED
    BY <2>4 DEF n
<1>17. Mark(interval - 1)' = from /\ Mark(interval)' = Mark(interval)
  BY <1>1 DEF Mark
<1>18. \A i \in 0..Period : Sampled(i)' = Sampled(i)
  <2>1. rows'[from + 1] = rows[from + 1]
    <3> HIDE DEF from
    <3>1. from \in Nat /\ sample \in Nat /\ sample >= 1 /\ Len(rows) = from + sample
      BY <1>4, <1>5, <1>7
    <3>2. from + 1 \in 1..Len(rows)
      BY <3>1
    <3> QED
      BY <3>2, <1>16
  <2> QED
    BY <2>1, <1>1, <1>17 DEF Sampled
<1>19. DiagnosticsTell'
  BY <1>1 DEF ExperimentInv, DiagnosticsTell, DiagnosticTells, Mark
<1>20. Experiment!TypeOK'
  <2>1. sample' \in 1..Period
    BY <1>1, <1>4, <1>5
  <2>2. stage' \in Experiment!Stage
    BY <1>1 DEF Experiment!Stage
  <2> QED
    BY <1>1, <1>2, <1>11, <1>13, <1>16, <2>1, <2>2, ExperimentFields, ExperimentTypes
<1>21. ExperimentCounts'
  BY <1>1, <1>2, <1>3 DEF ExperimentCounts, Sampling
<1>22. ExperimentClock' /\ ExperimentEvents'
  BY <1>1, <1>2, <1>3 DEF ExperimentClock, ExperimentEvents, Mark, Sampling
<1>23. ExperimentRows' /\ SamplesAreTheTrajectory'
  <2>1. rows'[Len(rows')].context.state = Sampled(sample)
    BY <1>13, <1>14, <1>16
  <2>2. observer'.local = accepted'.local /\ observer'.time = end
    BY <1>1, <1>11, <1>13
  <2>3. CASE sample = Period
    <3>1. /\ stage' = "diagnose" /\ Len(rows') = Mark(interval)' + 1
          /\ observer'.time = Mark(interval)'
      BY <1>1, <1>4, <1>16, <1>17, <2>2, <2>3
    <3>2. rows'[Len(rows')].context.state = accepted'.state
      BY <1>1, <1>8, <2>1, <2>3
    <3> QED
      BY <1>1, <1>4, <1>7, <2>2, <3>1, <3>2
         DEF ExperimentRows, RowsStarted, SamplesAreTheTrajectory
  <2>4. CASE sample # Period
    <3>1. /\ stage' = "observe" /\ sample' = sample + 1 /\ sample' - 1 = sample
          /\ Len(rows') = from + sample'
      <4>1. stage' = "observe" /\ sample' = sample + 1
        BY <1>1, <2>4
      <4>2. Len(rows') = (from + sample) + 1
        BY <1>16
      <4> QED
        <5>1. from \in Nat /\ sample \in Nat
          BY <1>4, <1>5
        <5>2. sample' - 1 = sample
          BY <4>1, <5>1
        <5>3. Len(rows') = from + sample'
          BY <4>1, <4>2, <5>1
        <5> QED
          BY <4>1, <5>2, <5>3
    <3>2. Sampled(sample - 1)' = Sampled(sample)
      <4>1. Sampled(sample)' = Sampled(sample)' /\ (sample - 1)' = sample
        BY <3>1
      <4>2. Sampled(sample - 1)' =
              IF sample = 0 THEN rows'[from + 1].context.state ELSE returned'[from + sample]
        BY <4>1, <1>17 DEF Sampled
      <4> QED
        <5>1. sample # 0 /\ returned' = returned
          BY <1>1, <1>5
        <5>2. Sampled(sample) = returned[from + sample]
          BY <5>1 DEF Sampled
        <5> QED
          BY <4>2, <5>1, <5>2
    <3>3. SamplesAreTheTrajectory'
      <4>1. Sampled(Period)' = accepted'.state
        BY <1>1, <1>4, <1>8, <1>18
      <4>2. ASSUME NEW i \in 1..Period
            PROVE  /\ Sampled(i)' \in State
                   /\ Sampled(i)' =
                         Flow(Sampled(i - 1)', accepted'.local, from + (i - 1), from + i)
        <5>1. i \in 0..Period /\ i - 1 \in 0..Period
          BY <1>4
        <5>2. Sampled(i)' = Sampled(i) /\ Sampled(i - 1)' = Sampled(i - 1)
          BY <5>1, <1>18
        <5> QED
          BY <5>2, <1>1, <1>8
      <4> QED
        BY <4>1, <4>2, <1>17 DEF SamplesAreTheTrajectory
    <3>4. ExperimentRows'
      BY <1>1, <1>3, <1>4, <1>7, <1>17, <2>1, <2>2, <3>1, <3>2 DEF ExperimentRows, RowsStarted
    <3> QED
      BY <3>3, <3>4
  <2> QED
    BY <2>3, <2>4
<1>24. ExperimentWhole'
  BY <1>1 DEF ExperimentWhole
<1> QED
  BY <1>16, <1>19, <1>20, <1>21, <1>22, <1>23, <1>24 DEF ExperimentInv

LEMMA ExperimentDiagnose ==
  ASSUME ExperimentInv, TypeOK', Experiment!Diagnose
  PROVE  ExperimentInv'
<1> DEFINE row == [event |-> interval - 1, context |-> observer]
<1>1. /\ stage = "diagnose" /\ stage' = "control"
      /\ diagnostics' = Append(diagnostics, row)
      /\ UNCHANGED <<accepted, returned, phase, ordinal, memory, interval, sample, observer, rows,
                     events>>
  BY DEF Experiment!Diagnose, Experiment!sessionVars, Experiment!loopVars
<1>2. /\ Experiment!TypeOK /\ ExperimentCounts /\ ExperimentClock /\ ExperimentEvents
      /\ ExperimentRows /\ RowsTell
  BY DEF ExperimentInv
<1>3. stage \in Sampling /\ stage \notin Ended
  BY <1>1 DEF Sampling, Ended
<1>4. /\ interval \in Nat /\ interval # 0 /\ interval - 1 \in Nat /\ Len(events) = interval
      /\ accepted.local = events[interval]
  BY <1>3, ExperimentInterval
<1>5. RowsStarted
  BY <1>3, <1>4 DEF RowsStarted
<1>6. /\ Len(rows) = Mark(interval) + 1 /\ rows[Len(rows)].context.state = accepted.state
      /\ Len(diagnostics) = interval /\ observer.local = accepted.local
      /\ observer.time = Mark(interval)
  BY <1>1, <1>2, <1>5 DEF ExperimentRows
<1>7. /\ row \in [event : Nat, context : Context] /\ row.event + 1 = interval
      /\ row.context = observer
  BY <1>2, <1>4, ExperimentFields
<1> HIDE DEF row
<1>8. /\ DiagnosticsTell' /\ diagnostics' \in Seq([event : Nat, context : Context])
      /\ Len(diagnostics') = Len(diagnostics) + 1
  <2>1. interval \in 1..Len(events)
    BY <1>4
  <2> QED
    BY <1>1, <1>4, <1>6, <1>7, <2>1, DiagnosticAdded
<1>9. RowsTell'
  BY <1>1, <1>2 DEF RowsTell, RowTells, RowRuler
<1>10. Experiment!TypeOK'
  BY <1>1, <1>2, <1>8, ExperimentFields, ExperimentTypes DEF Experiment!Stage
<1>11. ExperimentCounts'
  BY <1>1, <1>2 DEF ExperimentCounts, Sampling
<1>12. ExperimentClock' /\ ExperimentEvents'
  BY <1>1, <1>2 DEF ExperimentClock, ExperimentEvents, Mark, Ended
<1>13. ExperimentRows'
  <2>1. Mark(interval)' = Mark(interval)
    BY <1>1 DEF Mark
  <2>2. Len(diagnostics') = interval' + 1
    BY <1>1, <1>6, <1>8
  <2> QED
    BY <1>1, <1>4, <1>6, <2>1, <2>2 DEF ExperimentRows, RowsStarted
<1>14. SamplesAreTheTrajectory' /\ ExperimentWhole'
  BY <1>1 DEF SamplesAreTheTrajectory, ExperimentWhole
<1> QED
  BY <1>8, <1>9, <1>10, <1>11, <1>12, <1>13, <1>14 DEF ExperimentInv

LEMMA ExperimentApplyEvent ==
  ASSUME ExperimentInv, TypeOK', NEW reached \in BOOLEAN, Experiment!ApplyEvent(reached)
  PROVE  ExperimentInv'
<1> DEFINE terminal == reached \/ interval = MaxOrdinal
<1>1. /\ stage = "control"
      /\ CommitEvent(IF terminal THEN "terminal_event_committed" ELSE "synchronization_required")
      /\ events' = Append(events, Candidate.torques)
      /\ observer' = [observer EXCEPT !.local = accepted'.local]
      /\ stage' = IF terminal THEN "finalize" ELSE "synchronize"
      /\ UNCHANGED <<interval, sample, rows, diagnostics>>
  <2>1. terminal \in BOOLEAN
    BY Zenon
  <2>2. ApplyScheduledUpdate(terminal)
    <3>1. Experiment!Session!ApplyScheduledUpdate(terminal)
      BY DEF Experiment!ApplyEvent
    <3> QED
      BY <2>1, <3>1, SessionCommits
  <2> QED
    BY <2>2, SessionIsTheLoops
       DEF Experiment!ApplyEvent, Experiment!loopVars, ApplyScheduledUpdate
<1>2. /\ Experiment!TypeOK /\ ExperimentCounts /\ ExperimentClock /\ ExperimentEvents
      /\ ExperimentRows
  BY DEF ExperimentInv
<1>3. stage \in Sampling /\ stage \notin Ended /\ stage' \notin Ended /\ stage' # "initialize"
  BY <1>1 DEF Sampling, Ended
<1>4. /\ interval \in Nat /\ interval # 0 /\ ordinal = interval /\ Len(events) = ordinal
  BY <1>3, ExperimentInterval
<1>5. /\ accepted'.time = accepted.time /\ accepted'.state = accepted.state
      /\ accepted'.local \in Local /\ ordinal' = ordinal + 1
      /\ phase' = IF terminal THEN "terminal_event_committed" ELSE "synchronization_required"
      /\ events' \in Seq(Local) /\ Len(events') = ordinal'
      /\ accepted'.local = events'[Len(events')]
  BY <1>1, <1>4, Committed
<1>6. observer' \in Context /\ observer'.local = accepted'.local
  <2>1. observer \in Context
    BY <1>2, ExperimentFields
  <2> QED
    BY <2>1, <1>1, <1>5 DEF Context
<1>7. ~terminal => interval < MaxOrdinal
  BY <1>2, <1>4, ExperimentFields, ExperimentFacts
<1> HIDE DEF terminal
<1>8. Experiment!TypeOK'
  BY <1>1, <1>2, <1>5, <1>6, ExperimentFields, ExperimentTypes DEF Experiment!Stage
<1>9. ExperimentCounts'
  BY <1>1, <1>4, <1>5, <1>7 DEF ExperimentCounts, Sampling
<1>10. ExperimentClock' /\ ExperimentEvents'
  BY <1>1, <1>2, <1>3, <1>5 DEF ExperimentClock, ExperimentEvents, Mark
<1>11. ExperimentRows'
  <2>1. RowsStarted
    BY <1>3, <1>4 DEF RowsStarted
  <2>2. /\ Len(rows) = Mark(interval) + 1 /\ rows[Len(rows)].context.state = accepted.state
        /\ Len(diagnostics) = interval + 1
    BY <1>1, <1>2, <2>1 DEF ExperimentRows
  <2>3. Mark(interval)' = Mark(interval)
    BY <1>1 DEF Mark
  <2> QED
    BY <1>1, <1>4, <1>5, <1>6, <2>2, <2>3 DEF ExperimentRows, RowsStarted
<1>12. SamplesAreTheTrajectory' /\ ExperimentWhole'
  BY <1>1 DEF SamplesAreTheTrajectory, ExperimentWhole
<1>13. \E x \in Local : events' = Append(events, x)
  BY <1>1, <1>2, CandidateFits, ExperimentFields
<1> QED
  BY <1>1, <1>8, <1>9, <1>10, <1>11, <1>12, <1>13, FilesKeep DEF ExperimentInv

LEMMA ExperimentPublish ==
  ASSUME ExperimentInv, TypeOK', Experiment!Publish
  PROVE  ExperimentInv'
<1>1. /\ stage = "finalize" /\ stage' = "published" /\ phase = "terminal_event_committed"
      /\ UNCHANGED <<accepted, phase, ordinal, interval, sample, observer, rows, events,
                     diagnostics>>
  BY DEF Experiment!Publish, Experiment!sessionVars, Experiment!loopVars, Experiment!files
<1>2. Experiment!TypeOK /\ ExperimentCounts /\ ExperimentEvents /\ ExperimentRows
  BY DEF ExperimentInv
<1>3. /\ interval \in Nat /\ interval # 0 /\ ordinal = interval + 1 /\ ordinal - 1 = interval
  BY <1>1, <1>2, ExperimentFields DEF ExperimentCounts
<1>4. RowsStarted /\ stage \notin Ended
  BY <1>1, <1>3 DEF RowsStarted, Ended
<1>5. /\ Len(rows) = Mark(interval) + 1 /\ rows[Len(rows)].context.state = accepted.state
      /\ Len(diagnostics) = interval + 1 /\ Len(events) = ordinal
  BY <1>1, <1>2, <1>4 DEF ExperimentRows, ExperimentEvents
<1>6. ExperimentWhole'
  <2>1. Mark(ordinal - 1)' = Mark(interval)
    BY <1>1, <1>3 DEF Mark
  <2> QED
    BY <1>1, <1>3, <1>5, <2>1 DEF ExperimentWhole
<1>7. Experiment!TypeOK'
  BY <1>1, <1>2, ExperimentFields, ExperimentTypes DEF Experiment!Stage
<1>8. stage' \in Ended /\ stage' \notin Sampling
  BY <1>1 DEF Ended, Sampling
<1>9. ExperimentCounts' /\ ExperimentClock' /\ ExperimentEvents'
  BY <1>1, <1>8 DEF ExperimentCounts, ExperimentClock, ExperimentEvents
<1>10. ExperimentRows' /\ SamplesAreTheTrajectory'
  BY <1>1, <1>8 DEF ExperimentRows, RowsStarted, SamplesAreTheTrajectory
<1> QED
  BY <1>1, <1>6, <1>7, <1>9, <1>10, FilesKeep DEF ExperimentInv

LEMMA ExperimentStep ==
  ASSUME IInv, ExperimentInv, [Experiment!Next]_(Experiment!vars)
  PROVE  IInv' /\ ExperimentInv'
<1>1. IInv'
  BY ExperimentDrives, StepIInv
<1>2. TypeOK'
  BY <1>1 DEF IInv
<1>3. CASE \/ Experiment!Initialize \/ Experiment!Synchronize \/ Experiment!Confirm
           \/ Experiment!ObserveStartup \/ Experiment!Advance \/ Experiment!Observe
           \/ Experiment!Diagnose \/ Experiment!Publish
  BY <1>1, <1>2, <1>3, ExperimentInitialize, ExperimentSynchronize, ExperimentConfirm,
     ExperimentObserveStartup, ExperimentAdvance, ExperimentObserve, ExperimentDiagnose,
     ExperimentPublish
<1>4. ASSUME NEW reached \in BOOLEAN, Experiment!ApplyEvent(reached) PROVE ExperimentInv'
  BY <1>2, <1>4, ExperimentApplyEvent
<1>5. CASE Experiment!RejectDuration \/ Experiment!Reject
  <2>1. /\ stage' = "rejected"
        /\ UNCHANGED <<interval, sample, observer, rows, events, diagnostics>>
    BY <1>5 DEF Experiment!RejectDuration, Experiment!Reject, Experiment!loopVars,
       Experiment!files
  <2> QED
    BY <1>1, <1>2, <2>1, ExperimentRejects
<1>6. CASE UNCHANGED Experiment!vars
  <2>1. UNCHANGED <<accepted, returned, phase, ordinal, memory, stage, interval, sample, observer,
                    rows, events, diagnostics>>
    BY <1>6 DEF Experiment!vars
  <2>2. /\ Experiment!TypeOK /\ ExperimentCounts /\ ExperimentClock /\ ExperimentEvents
        /\ ExperimentRows /\ SamplesAreTheTrajectory /\ ExperimentWhole
    BY DEF ExperimentInv
  <2>3. Experiment!TypeOK'
    BY <1>2, <2>1, <2>2, ExperimentFields, ExperimentTypes
  <2>4. ExperimentCounts' /\ ExperimentClock' /\ ExperimentEvents'
    BY <2>1, <2>2 DEF ExperimentCounts, ExperimentClock, ExperimentEvents, Mark
  <2>5. ExperimentRows' /\ SamplesAreTheTrajectory' /\ ExperimentWhole'
    <3>1. /\ Mark(interval)' = Mark(interval) /\ Mark(interval - 1)' = Mark(interval - 1)
          /\ Mark(ordinal - 1)' = Mark(ordinal - 1) /\ RowsStarted' = RowsStarted
          /\ \A i : Sampled(i)' = Sampled(i)
      BY <2>1 DEF Mark, RowsStarted, Sampled
    <3>2. Sampled(sample - 1)' = Sampled(sample - 1) /\ Sampled(Period)' = Sampled(Period)
      BY <2>1 DEF Sampled, Mark
    <3>3. ExperimentRows'
      BY <2>1, <2>2, <3>1, <3>2 DEF ExperimentRows
    <3>4. SamplesAreTheTrajectory'
      <4>1. \A i : Sampled(i - 1)' = Sampled(i - 1)
        BY <2>1 DEF Sampled, Mark
      <4> QED
        BY <2>1, <2>2, <3>1, <3>2, <4>1 DEF SamplesAreTheTrajectory
    <3>5. ExperimentWhole'
      BY <2>1, <2>2, <3>1 DEF ExperimentWhole
    <3> QED
      BY <3>3, <3>4, <3>5
  <2> QED
    BY <1>1, <2>1, <2>3, <2>4, <2>5, FilesKeep DEF ExperimentInv
<1> QED
  BY <1>1, <1>3, <1>4, <1>5, <1>6 DEF Experiment!Next, Experiment!Proceed

LEMMA ExperimentInit == Experiment!Init => Init /\ ExperimentInv
<1> SUFFICES ASSUME Experiment!Init PROVE Init /\ ExperimentInv
  OBVIOUS
<1>1. /\ Init /\ stage = "initialize" /\ interval = 0 /\ sample = 1 /\ observer = accepted
      /\ rows = <<>> /\ events = <<>> /\ diagnostics = <<>>
  BY SessionIsTheLoops DEF Experiment!Init
<1>2. PICK s \in Installed, l \in Local :
        accepted = [time |-> 0, state |-> s, local |-> l, hints |-> s]
  BY <1>1 DEF Init, Advancer!Init
<1>3. TypeOK /\ ordinal = 0 /\ accepted \in Context
  BY <1>1, InitIInv DEF IInv, Init, TypeOK
<1>4. Experiment!TypeOK
  <2>1. /\ rows \in Seq([time : Time, context : Context]) /\ events \in Seq(Local)
        /\ diagnostics \in Seq([event : Nat, context : Context])
    BY <1>1, EmptySeq
  <2>2. interval \in 0..MaxOrdinal /\ sample \in 1..Period
    BY <1>1, ExperimentFacts
  <2> QED
    BY <1>1, <1>3, <2>1, <2>2, SessionIsTheLoops
       DEF Experiment!TypeOK, Experiment!Stage, Experiment!Time, Time, Experiment!Context, Context
<1>5. ExperimentCounts
  BY <1>1, <1>3 DEF ExperimentCounts, Sampling
<1>6. Len(events) = 0 /\ Len(rows) = 0 /\ Len(diagnostics) = 0
  BY <1>1
<1>7. ExperimentClock /\ ExperimentEvents
  BY <1>1, <1>2, <1>3, <1>6, MarkFacts DEF ExperimentClock, ExperimentEvents
<1>8. ExperimentRows /\ SamplesAreTheTrajectory /\ ExperimentWhole
  BY <1>1 DEF ExperimentRows, RowsStarted, SamplesAreTheTrajectory, ExperimentWhole
<1>9. RowsTell /\ DiagnosticsTell
  BY <1>6 DEF RowsTell, DiagnosticsTell
<1> QED
  BY <1>1, <1>4, <1>5, <1>7, <1>8, <1>9 DEF ExperimentInv

LEMMA FilesInit == MCInit => FilesInv
<1> SUFFICES ASSUME MCInit PROVE FilesInv
  OBVIOUS
<1>1. Experiment!Init
  BY DEF MCInit
<1>2. Init /\ ExperimentInv
  BY <1>1, ExperimentInit
<1> QED
  BY <1>1, <1>2, InitIInv DEF FilesInv, Experiment!Init

\* Whatever is started, the accepted context moves as the session and the advancer
\* move it, and the files as the experiment writes them.
LEMMA FilesStep ==
  FilesInv /\ [MCNext]_<<started, vars, runVars, cruiseVars, qualificationVars, realtimeVars,
                         passiveVars, lawVars, tableVars>>
    => FilesInv' /\ [Next]_vars
<1> SUFFICES ASSUME FilesInv,
                    [MCNext]_<<started, vars, runVars, cruiseVars, qualificationVars,
                               realtimeVars,
                               passiveVars, lawVars, tableVars>>
             PROVE  FilesInv' /\ [Next]_vars
  OBVIOUS
<1>1. IInv /\ started' = started
  BY DEF FilesInv, MCNext
<1>2. CASE started = "experiment"
  <2>1. ExperimentInv
    BY <1>2 DEF FilesInv
  <2>2. [Experiment!Next]_(Experiment!vars)
    BY <1>2 DEF MCNext, vars, runVars, Experiment!vars
  <2>3. IInv' /\ ExperimentInv' /\ [Next]_vars
    BY <1>1, <2>1, <2>2, ExperimentStep, ExperimentDrives
  <2> QED
    BY <1>1, <1>2, <2>3 DEF FilesInv
<1>3. CASE started # "experiment"
  <2>1. [Next]_vars /\ UNCHANGED runVars
    BY <1>3 DEF MCNext
  <2>2. IInv'
    BY <1>1, <2>1, StepIInv
  <2> QED
    BY <1>1, <1>3, <2>1, <2>2 DEF FilesInv, runVars
<1> QED
  BY <1>2, <1>3

(***************************************************************************)
(* The three files a guidance experiment publishes tell the run, at every  *)
(* point of it: the rows are the trajectory, each calculated under the     *)
(* torques that led to its state, and each diagnostic under those of the   *)
(* event it names.                                                         *)
(***************************************************************************)
THEOREM FilesAlwaysTellTheRun == MCSpec => []Experiment!FilesTellTheRun
<1>1. FilesInv => Experiment!FilesTellTheRun
  <2>1. CASE started = "experiment"
    BY <2>1, ExperimentParts DEF FilesInv
  <2>2. CASE started # "experiment"
    BY <2>2 DEF FilesInv, Experiment!FilesTellTheRun, Experiment!RowsAreTheTrajectory,
       Experiment!ObserverHoldsTheRightTorques
  <2> QED
    BY <2>1, <2>2
<1> QED
  BY <1>1, FilesInit, FilesStep, PTL DEF MCSpec

LEMMA ExperimentDrivesIt == MCSpec => Experiment!DrivesTheLoop
<1>1. MCInit => Experiment!Session!Init
  BY DEF MCInit, Experiment!Init
<1>2. [Next]_vars => [Experiment!Session!Next]_(Experiment!Session!vars)
  BY SessionNext DEF Experiment!Session!vars, vars
<1> QED
  BY <1>1, <1>2, FilesInit, FilesStep, PTL
     DEF MCSpec, Experiment!DrivesTheLoop, Experiment!Session!Spec

LEMMA QualificationDrivesIt == MCSpec => Qualification!DrivesTheLoop
BY QualificationSteps, RunInit, RunStep, RunLoopInit, RunLoopStep, PTL
   DEF MCSpec, Qualification!DrivesTheLoop, Qualification!Loop!Spec
-----------------------------------------------------------------------------
(***************************************************************************)
(* The co-simulation.  The ordinal says which period of the grid the       *)
(* samples are in; the solver, the instance and the decoded outputs agree  *)
(* whenever the loop is between two calls.                                 *)
(***************************************************************************)
Instant(n) == Realtime!Target(n)

UnderWay == {"begin", "communicate", "control"}
Complete == {"finalize", "published"}

SimulationTypes ==
  /\ r_stage \in {"initialize", "rejected"} \cup UnderWay \cup Complete
  /\ program \in Realtime!Programs
  /\ plant \in [time : Time, state : State]
  /\ inputs \in Local /\ held \in Local /\ r_memory \in Memory
  /\ outputs.state \in State
  /\ r_ordinal \in Nat /\ r_sample \in Nat
  /\ observations \in Seq([sample : Nat, torques : Local,
                           outputs : [time : Time, state : State, inputs : Local]])
  /\ controls \in Seq([ordinal : Nat, kind : {"initialization", "periodic", "terminal"},
                       torques : Local])

SimulationCounts ==
  /\ r_stage = "initialize" =>
       /\ r_ordinal = 0 /\ r_sample = 0 /\ ~r_started
       /\ last_target = 0 /\ plant.time = 0 /\ outputs.state = plant.state
       /\ controls = <<>> /\ observations = <<>>
  /\ r_stage = "begin" => r_ordinal = 1 /\ r_sample = 0 /\ ~r_started
  /\ r_stage \in {"communicate", "control"} => r_started
  /\ r_stage \in UnderWay =>
       /\ r_ordinal \in 1..CommunicationOrdinals /\ Len(controls) = r_ordinal
       /\ held = controls[Len(controls)].torques
       /\ r_stage # "communicate" => inputs = held
       /\ plant.time = Instant(r_sample) /\ last_target = plant.time
       /\ outputs = [time |-> plant.time, state |-> plant.state, inputs |-> inputs]

SimulationClock ==
  /\ r_stage \in {"begin", "communicate"} =>
       /\ Grid(r_ordinal - 1) <= Instant(r_sample) /\ Instant(r_sample) < Grid(r_ordinal)
       /\ program = "cruise" => r_sample + 1 = r_ordinal
  /\ r_stage = "control" =>
       /\ Instant(r_sample) = Grid(r_ordinal)
       /\ program = "cruise" => r_sample = r_ordinal

NoneTerminal ==
  r_stage \notin Complete \cup {"rejected"} =>
    \A e \in 1..Len(controls) : controls[e].kind # "terminal"

\* The event whose torques were held on the way to sample n.
Holder(n) == (Instant(n) - 1) \div OtherPeriod + 1

RowsAreRead ==
  \A i \in 1..Len(observations) :
    /\ observations[i].torques = observations[i].outputs.inputs
    /\ observations[i].outputs.time = Instant(observations[i].sample)
    /\ i > 1 => /\ observations[i - 1].sample < observations[i].sample
                /\ Holder(observations[i].sample) \in 1..Len(controls)
                /\ observations[i].torques = controls[Holder(observations[i].sample)].torques

ControlsAreNumbered == \A e \in 1..Len(controls) : controls[e].ordinal = e - 1

\* What is due by now; the row of a cruise's sample comes with its event.
Due(n) ==
  /\ n \in 0..(IF program = "cruise" /\ r_stage = "control" THEN r_sample - 1 ELSE r_sample)
  /\ \/ program = "single_curve" \/ n % Decimation = 0
     \/ r_stage \in Complete /\ n = r_sample

Recorded(n) == \E i \in 1..Len(observations) : observations[i].sample = n

DueIsRecorded ==
  r_stage \in UnderWay \cup Complete =>
    /\ \A n \in Nat : Recorded(n) <=> Due(n)
    /\ observations # <<>>
    /\ r_stage \in Complete => Len(controls) = Instant(r_sample) \div OtherPeriod + 1

SimulationInv ==
  /\ SimulationTypes /\ SimulationCounts /\ SimulationClock /\ NoneTerminal
  /\ RowsAreRead /\ ControlsAreNumbered /\ DueIsRecorded
-----------------------------------------------------------------------------
LEMMA SimulationFacts ==
  /\ OtherPeriod \in Nat \ {0} /\ CommunicationOrdinals \in Nat \ {0}
  /\ Decimation \in Nat \ {0}
  /\ CommunicationOrdinals * OtherPeriod \in Time
  /\ InitialMemory \in Memory
  /\ \A s \in State, m \in Memory :
       /\ RealtimeControl(s, m).torques \in Local
       /\ RealtimeControl(s, m).memory \in Memory
<1>1. Realtime!RunAssumption
  BY RunAssumptions
<1> QED
  BY <1>1 DEF Realtime!RunAssumption, Realtime!Time, Time

LEMMA GridWithinCap ==
  ASSUME NEW k \in 0..CommunicationOrdinals
  PROVE  Grid(k) \in Time /\ k \in Nat /\ Grid(k) \in Nat
<1>1. k \in Nat /\ CommunicationOrdinals - k \in Nat
  BY SimulationFacts
<1>2. Grid(CommunicationOrdinals) = Grid(k) + Grid(CommunicationOrdinals - k)
  BY <1>1, SimulationFacts, SMT DEF Grid
<1>3. Grid(k) \in Nat /\ Grid(CommunicationOrdinals - k) \in Nat
  BY <1>1, GridFacts
<1>4. Grid(CommunicationOrdinals) \in 0..Horizon
  BY SimulationFacts DEF Grid, Time
<1> QED
  BY <1>1, <1>2, <1>3, <1>4, FlowAssumption DEF Time

LEMMA RemainderOfSum ==
  ASSUME NEW p \in Nat, p > 0, NEW k \in Nat, NEW j \in Nat, j < p,
         NEW m \in Nat, m = k * p + j
  PROVE  m % p = j
<1>1. PICK q \in Int, r \in Int :
        q = m \div p /\ r = m % p /\ 0 <= r /\ r < p /\ m = p * q + r
  OBVIOUS
<1>2. q = k
  BY <1>1, QuotientOfSum
<1> QED
  BY <1>1, <1>2, SMT

LEMMA InstantFacts ==
  ASSUME NEW n \in Nat
  PROVE  /\ Instant(n) \in Nat /\ Instant(0) = 0
         /\ Instant(n) < Instant(n + 1)
         /\ program = "cruise" => Instant(n) = Grid(n)
         /\ program # "cruise" => Instant(n) = n
<1>1. CASE program = "cruise"
  <2>1. \A m : Instant(m) = Grid(m)
    BY <1>1 DEF Instant, Realtime!Target, Realtime!Stride, Grid
  <2> QED
    BY <1>1, <2>1, GridFacts, SimulationFacts
<1>2. CASE program # "cruise"
  <2>1. \A m : Instant(m) = m * 1
    BY <1>2 DEF Instant, Realtime!Target, Realtime!Stride
  <2>2. Instant(0) = 0 /\ Instant(n) = n /\ Instant(n + 1) = n + 1
    BY <2>1
  <2> QED
    BY <1>2, <2>2
<1> QED
  BY <1>1, <1>2

\* Where a sample stands in its period.
LEMMA SampleInPeriod ==
  ASSUME NEW n \in Nat, NEW k \in Nat, Grid(k) < Instant(n), Instant(n) <= Grid(k + 1)
  PROVE  /\ Holder(n) = k + 1
         /\ Instant(n) % OtherPeriod = 0 <=> Instant(n) = Grid(k + 1)
<1> DEFINE t == Instant(n)
           j == t - Grid(k)
<1>1. /\ t \in Nat /\ Grid(k) \in Nat /\ Grid(k + 1) = Grid(k) + OtherPeriod
      /\ OtherPeriod \in Nat /\ OtherPeriod > 0
  BY InstantFacts, GridFacts, SimulationFacts
<1>2. j \in 1..OtherPeriod /\ t = Grid(k) + j
  BY <1>1
<1> HIDE DEF t, j
<1>3. Holder(n) = k + 1
  <2>1. t - 1 \in Nat /\ j - 1 \in Nat /\ j - 1 < OtherPeriod /\ t - 1 = Grid(k) + (j - 1)
    BY <1>1, <1>2
  <2>2. Grid(k) = k * OtherPeriod
    BY DEF Grid
  <2>3. ASSUME NEW m \in Nat, NEW i \in Nat, i < OtherPeriod, m = Grid(k) + i
        PROVE  m \div OtherPeriod = k
    BY <1>1, <2>2, <2>3, QuotientOfSum
  <2>4. (t - 1) \div OtherPeriod = k
    BY <2>1, <2>3
  <2> QED
    BY <2>4 DEF Holder, t
<1>4. ASSUME NEW q \in Nat, NEW i \in Nat, i < OtherPeriod, t = Grid(q) + i
      PROVE  t % OtherPeriod = i
  <2>1. t = q * OtherPeriod + i
    BY <1>4 DEF Grid
  <2> QED
    BY <1>1, <1>4, <2>1, RemainderOfSum
<1>5. CASE j = OtherPeriod
  <2>1. t = Grid(k + 1) /\ k + 1 \in Nat /\ t = Grid(k + 1) + 0
    BY <1>1, <1>2, <1>5
  <2>2. t % OtherPeriod = 0
    BY <1>1, <1>4, <2>1
  <2> QED
    BY <1>3, <2>1, <2>2 DEF t
<1>6. CASE j # OtherPeriod
  <2>1. j \in Nat /\ j < OtherPeriod /\ t # Grid(k + 1) /\ j # 0
    BY <1>1, <1>2, <1>6
  <2>2. t % OtherPeriod = j
    BY <1>2, <1>4, <2>1
  <2> QED
    BY <1>3, <2>1, <2>2 DEF t
<1> QED
  BY <1>5, <1>6

LEMMA OrdinalOfGrid ==
  ASSUME NEW k \in Nat
  PROVE  Grid(k) \div OtherPeriod = k /\ 0 % Decimation = 0
<1>1. /\ Grid(k) \in Nat /\ OtherPeriod \in Nat /\ OtherPeriod > 0
      /\ Decimation \in Nat /\ Decimation > 0
  BY GridFacts, SimulationFacts
<1>2. Grid(k) = k * OtherPeriod + 0
  BY <1>1 DEF Grid
<1>3. 0 = 0 * Decimation + 0
  BY <1>1
<1>4. Grid(k) \div OtherPeriod = k
  BY <1>1, <1>2, QuotientOfSum
<1>5. 0 % Decimation = 0
  BY <1>1, <1>3, RemainderOfSum
<1> QED
  BY <1>4, <1>5

ObservationRow ==
  [sample : Nat, torques : Local, outputs : [time : Time, state : State, inputs : Local]]
ControlRow == [ordinal : Nat, kind : {"initialization", "periodic", "terminal"}, torques : Local]

LEMMA SimulationFields ==
  ASSUME SimulationTypes
  PROVE  /\ observations \in Seq(ObservationRow) /\ controls \in Seq(ControlRow)
         /\ Len(observations) \in Nat /\ Len(controls) \in Nat
         /\ plant.time \in Time /\ plant.state \in State /\ plant.time \in Nat
         /\ RealtimeControl(outputs.state, r_memory).torques \in Local
         /\ RealtimeControl(outputs.state, r_memory).memory \in Memory
         /\ program \in {"cruise", "single_curve"}
<1>1. observations \in Seq(ObservationRow) /\ controls \in Seq(ControlRow)
  BY DEF SimulationTypes, ObservationRow, ControlRow
<1>2. Len(observations) \in Nat /\ Len(controls) \in Nat
  BY <1>1, LenProperties
<1>3. plant.time \in Time /\ plant.state \in State /\ plant.time \in Nat
  BY FlowAssumption DEF SimulationTypes, Time
<1>4. /\ RealtimeControl(outputs.state, r_memory).torques \in Local
      /\ RealtimeControl(outputs.state, r_memory).memory \in Memory
  BY SimulationFacts DEF SimulationTypes
<1> QED
  BY <1>1, <1>2, <1>3, <1>4 DEF SimulationTypes, Realtime!Programs

\* Both tables only grow, and what they held they hold.
LEMMA TablesGrow ==
  ASSUME SimulationTypes, RowsAreRead, program' = program,
         controls' = controls \/ \E c \in ControlRow : controls' = Append(controls, c),
         \/ observations' = observations
         \/ \E row \in ObservationRow :
              /\ observations' = Append(observations, row)
              /\ row.torques = row.outputs.inputs
              /\ row.outputs.time = Instant(row.sample)
              /\ observations[Len(observations)].sample < row.sample
              /\ Holder(row.sample) \in 1..Len(controls)
              /\ row.torques = controls[Holder(row.sample)].torques
  PROVE  RowsAreRead'
<1>1. /\ observations \in Seq(ObservationRow) /\ controls \in Seq(ControlRow)
      /\ Len(observations) \in Nat /\ Len(controls) \in Nat
  BY SimulationFields
<1>2. /\ Len(controls') \in Nat /\ Len(controls') >= Len(controls)
      /\ \A e \in 1..Len(controls) : controls'[e] = controls[e]
  <2>1. CASE controls' = controls
    BY <1>1, <2>1
  <2>2. ASSUME NEW c \in ControlRow, controls' = Append(controls, c)
        PROVE  /\ Len(controls') = Len(controls) + 1
               /\ \A e \in 1..Len(controls) : controls'[e] = controls[e]
    BY <1>1, <2>2, Appended
  <2> QED
    BY <1>1, <2>1, <2>2
<1>3. \A n : Instant(n)' = Instant(n) /\ Holder(n)' = Holder(n)
  BY DEF Instant, Realtime!Target, Realtime!Stride, Holder
<1>4. \A e \in 1..Len(controls) : e \in 1..Len(controls') /\ controls'[e] = controls[e]
  BY <1>1, <1>2
<1> DEFINE Reads(i) ==
             /\ observations[i].torques = observations[i].outputs.inputs
             /\ observations[i].outputs.time = Instant(observations[i].sample)
             /\ i > 1 => /\ observations[i - 1].sample < observations[i].sample
                         /\ Holder(observations[i].sample) \in 1..Len(controls)
                         /\ observations[i].torques =
                              controls[Holder(observations[i].sample)].torques
<1>5. \A i \in 1..Len(observations) : Reads(i)
  BY DEF RowsAreRead
<1>6. CASE observations' = observations
  <2>1. ASSUME NEW i \in 1..Len(observations) PROVE Reads(i)'
    <3>1. Reads(i)
      BY <1>5
    <3> QED
      BY <3>1, <1>3, <1>4, <1>6
  <2> QED
    BY <2>1, <1>6 DEF RowsAreRead
<1>7. ASSUME NEW row \in ObservationRow,
             observations' = Append(observations, row),
             row.torques = row.outputs.inputs,
             row.outputs.time = Instant(row.sample),
             observations[Len(observations)].sample < row.sample,
             Holder(row.sample) \in 1..Len(controls),
             row.torques = controls[Holder(row.sample)].torques
      PROVE  RowsAreRead'
  <2>1. /\ Len(observations') = Len(observations) + 1
        /\ \A i \in 1..Len(observations) : observations'[i] = observations[i]
        /\ observations'[Len(observations) + 1] = row
    BY <1>1, <1>7, Appended
  <2>2. ASSUME NEW i \in 1..Len(observations') PROVE Reads(i)'
    <3>1. CASE i = Len(observations) + 1
      <4>1. observations'[i] = row
        BY <2>1, <3>1
      <4>2. i > 1 => observations'[i - 1] = observations[Len(observations)]
        BY <1>1, <2>1, <3>1
      <4> QED
        BY <4>1, <4>2, <1>3, <1>4, <1>7
    <3>2. CASE i # Len(observations) + 1
      <4>1. i \in 1..Len(observations) /\ (i > 1 => i - 1 \in 1..Len(observations))
        BY <1>1, <2>1, <3>2
      <4>2. /\ observations'[i] = observations[i]
            /\ (i > 1 => observations'[i - 1] = observations[i - 1])
        BY <2>1, <4>1
      <4>3. Reads(i)
        BY <1>5, <4>1
      <4> QED
        BY <4>2, <4>3, <1>3, <1>4
    <3> QED
      BY <3>1, <3>2
  <2> QED
    BY <2>2 DEF RowsAreRead
<1> QED
  BY <1>6, <1>7

LEMMA RecordedGrows ==
  ASSUME SimulationTypes, NEW row \in ObservationRow, observations' = Append(observations, row)
  PROVE  /\ \A n : Recorded(n)' <=> Recorded(n) \/ n = row.sample
         /\ observations' # <<>> /\ observations' \in Seq(ObservationRow)
<1>1. observations \in Seq(ObservationRow) /\ Len(observations) \in Nat
  BY SimulationFields
<1>2. /\ observations' \in Seq(ObservationRow) /\ Len(observations') = Len(observations) + 1
      /\ \A i \in 1..Len(observations) : observations'[i] = observations[i]
      /\ observations'[Len(observations) + 1] = row
  BY <1>1, Appended
<1>3. ASSUME NEW n PROVE Recorded(n)' <=> Recorded(n) \/ n = row.sample
  <2>1. ASSUME Recorded(n)' PROVE Recorded(n) \/ n = row.sample
    <3>1. PICK i \in 1..Len(observations') : observations'[i].sample = n
      BY <2>1 DEF Recorded
    <3>2. CASE i = Len(observations) + 1
      BY <3>1, <3>2, <1>2
    <3>3. CASE i # Len(observations) + 1
      <4>1. i \in 1..Len(observations)
        BY <3>3, <1>1, <1>2
      <4> QED
        BY <3>1, <4>1, <1>2 DEF Recorded
    <3> QED
      BY <3>2, <3>3
  <2>2. ASSUME Recorded(n) PROVE Recorded(n)'
    <3>1. PICK i \in 1..Len(observations) : observations[i].sample = n
      BY <2>2 DEF Recorded
    <3>2. i \in 1..Len(observations') /\ observations'[i].sample = n
      BY <3>1, <1>1, <1>2
    <3> QED
      BY <3>2 DEF Recorded
  <2>3. ASSUME n = row.sample PROVE Recorded(n)'
    <3>1. Len(observations) + 1 \in 1..Len(observations')
      BY <1>1, <1>2
    <3> QED
      BY <2>3, <3>1, <1>2 DEF Recorded
  <2> QED
    BY <2>1, <2>2, <2>3
<1>4. observations' # <<>>
  BY <1>1, <1>2
<1> QED
  BY <1>2, <1>3, <1>4

LEMMA LastRow ==
  ASSUME SimulationInv, r_stage \in UnderWay
  PROVE  /\ observations[Len(observations)].sample \in Nat
         /\ Due(observations[Len(observations)].sample)
<1>1. SimulationTypes /\ DueIsRecorded
  BY DEF SimulationInv
<1>2. observations \in Seq(ObservationRow) /\ Len(observations) \in Nat /\ observations # <<>>
  BY <1>1, SimulationFields DEF DueIsRecorded
<1>3. Len(observations) \in 1..Len(observations)
  BY <1>2, EmptySeq
<1>4. observations[Len(observations)] \in ObservationRow
  BY <1>2, <1>3, ElementOfSeq
<1>5. observations[Len(observations)].sample \in Nat
  BY <1>4 DEF ObservationRow
<1>6. Recorded(observations[Len(observations)].sample)
  BY <1>3 DEF Recorded
<1> QED
  BY <1>1, <1>5, <1>6 DEF DueIsRecorded

LEMMA SimulationInit == Realtime!Init => SimulationInv
<1> SUFFICES ASSUME Realtime!Init PROVE SimulationInv
  OBVIOUS
<1>1. /\ program \in Realtime!Programs /\ inputs \in Local /\ held \in Local
      /\ r_started = FALSE /\ last_target = 0
      /\ outputs = [time |-> 0, state |-> plant.state, inputs |-> inputs]
      /\ r_memory = InitialMemory /\ r_ordinal = 0 /\ r_sample = 0 /\ r_stage = "initialize"
      /\ observations = <<>> /\ controls = <<>>
  BY DEF Realtime!Init
<1>2. PICK s \in Installed : plant = [time |-> 0, state |-> s]
  BY DEF Realtime!Init
<1>3. plant \in [time : Time, state : State] /\ plant.time = 0 /\ plant.state \in State
  BY <1>2, FlowAssumption DEF Time
<1>4. outputs.state = plant.state
  BY <1>1
<1>5. SimulationTypes
  <2>1. observations \in Seq(ObservationRow) /\ controls \in Seq(ControlRow)
    BY <1>1, EmptySeq
  <2> QED
    BY <1>1, <1>3, <1>4, <2>1, SimulationFacts
       DEF SimulationTypes, ObservationRow, ControlRow
<1>6. SimulationCounts /\ SimulationClock /\ NoneTerminal
  BY <1>1, <1>3, <1>4 DEF SimulationCounts, SimulationClock, NoneTerminal, UnderWay
<1>7. RowsAreRead /\ ControlsAreNumbered /\ DueIsRecorded
  BY <1>1 DEF RowsAreRead, ControlsAreNumbered, DueIsRecorded, UnderWay, Complete
<1> QED
  BY <1>5, <1>6, <1>7 DEF SimulationInv

LEMMA SimulationInitialize == ASSUME SimulationInv, Realtime!Initialize PROVE SimulationInv'
<1> DEFINE event == RealtimeControl(outputs.state, r_memory)
           row == [sample |-> 0, outputs |-> outputs', torques |-> held']
           control == [ordinal |-> 0, kind |-> "initialization", torques |-> held']
<1>1. /\ r_stage = "initialize" /\ r_stage' = "begin"
      /\ held' = event.torques /\ r_memory' = event.memory /\ r_ordinal' = r_ordinal + 1
      /\ ~r_started /\ inputs' = held'
      /\ UNCHANGED <<plant, r_started, last_target, program, r_sample>>
      /\ outputs' = [time |-> plant'.time, state |-> plant'.state, inputs |-> inputs']
      /\ observations' = <<row>> /\ controls' = <<control>>
  BY DEF Realtime!Initialize, Realtime!Adopt, Realtime!Event, Realtime!SetInitialInputs,
     Realtime!ReadOutputs, Realtime!instanceVars
<1>2. SimulationTypes /\ SimulationCounts
  BY DEF SimulationInv
<1>3. /\ r_ordinal = 0 /\ r_sample = 0 /\ last_target = 0 /\ plant.time = 0
  BY <1>1, <1>2 DEF SimulationCounts
<1>4. held' \in Local /\ r_memory' \in Memory
  BY <1>1, <1>2, SimulationFields
<1> HIDE DEF event
<1>5. /\ outputs' \in [time : Time, state : State, inputs : Local]
      /\ outputs'.time = 0 /\ outputs'.inputs = held' /\ outputs'.state = plant'.state
  BY <1>1, <1>2, <1>3, <1>4, SimulationFields
<1>6. /\ row \in ObservationRow /\ row.sample = 0 /\ row.outputs = outputs' /\ row.torques = held'
      /\ control \in ControlRow /\ control.ordinal = 0 /\ control.kind = "initialization"
      /\ control.torques = held'
  BY <1>4, <1>5 DEF ObservationRow, ControlRow
<1> HIDE DEF row, control
<1>7. /\ observations' \in Seq(ObservationRow) /\ Len(observations') = 1 /\ observations'[1] = row
      /\ controls' \in Seq(ControlRow) /\ Len(controls') = 1 /\ controls'[1] = control
  BY <1>1, <1>6
<1>8. Instant(0)' = 0 /\ Grid(0)' = 0 /\ Grid(1)' > 0
  <2>1. Instant(0) = 0 /\ Grid(0) = 0 /\ Grid(0 + 1) = Grid(0) + OtherPeriod
    BY InstantFacts, GridFacts
  <2>2. Instant(0)' = Instant(0) /\ Grid(0)' = Grid(0) /\ Grid(1)' = Grid(0 + 1)
    BY <1>1 DEF Instant, Realtime!Target, Realtime!Stride, Grid
  <2> QED
    BY <2>1, <2>2, SimulationFacts
<1>9. SimulationTypes'
  BY <1>1, <1>2, <1>3, <1>4, <1>5, <1>7
     DEF SimulationTypes, UnderWay, Complete, ObservationRow, ControlRow
<1>10. Instant(r_sample)' = 0 /\ Grid(r_ordinal - 1)' = 0 /\ Grid(r_ordinal)' > 0
  <2>1. r_sample' = 0 /\ (r_ordinal - 1)' = 0 /\ r_ordinal' = 1
    BY <1>1, <1>3
  <2> QED
    BY <1>8, <2>1 DEF Instant, Realtime!Target, Grid
<1>11. SimulationCounts'
  <2>1. r_ordinal' \in 1..CommunicationOrdinals /\ Len(controls') = r_ordinal'
    BY <1>1, <1>3, <1>7, SimulationFacts
  <2>2. held' = controls'[Len(controls')].torques
    BY <1>6, <1>7
  <2>3. plant'.time = Instant(r_sample)' /\ last_target' = plant'.time
    BY <1>1, <1>3, <1>10
  <2> QED
    BY <1>1, <1>3, <2>1, <2>2, <2>3 DEF SimulationCounts
<1>12. SimulationClock'
  BY <1>1, <1>3, <1>10 DEF SimulationClock
<1>13. NoneTerminal' /\ ControlsAreNumbered'
  BY <1>6, <1>7 DEF NoneTerminal, ControlsAreNumbered
<1>14. RowsAreRead'
  <2>1. /\ observations'[1].torques = observations'[1].outputs.inputs
        /\ observations'[1].outputs.time = 0 /\ observations'[1].sample = 0
    BY <1>5, <1>6, <1>7
  <2>2. Instant(observations[1].sample)' = 0
    <3>1. 0 * OtherPeriod = 0 /\ 0 * 1 = 0
      BY SimulationFacts
    <3> QED
      BY <2>1, <3>1 DEF Instant, Realtime!Target, Realtime!Stride
  <2>3. ASSUME NEW i \in 1..Len(observations') PROVE i = 1
    BY <1>7
  <2> QED
    BY <2>1, <2>2, <2>3 DEF RowsAreRead
<1>15. DueIsRecorded'
  <2>1. ASSUME NEW n \in Nat PROVE Recorded(n)' <=> n = 0
    BY <1>6, <1>7 DEF Recorded
  <2>2. ASSUME NEW n \in Nat PROVE Due(n)' <=> n = 0
    <3>1. program \in {"cruise", "single_curve"} /\ 0 % Decimation = 0
      BY <1>2, SimulationFields, OrdinalOfGrid
    <3>2. r_sample' = 0 /\ r_stage' # "control"
      BY <1>1, <1>3
    <3> QED
      BY <1>1, <3>1, <3>2 DEF Due
  <2>3. observations' # <<>> /\ r_stage' \notin Complete
    BY <1>1 DEF Complete
  <2> QED
    BY <2>1, <2>2, <2>3 DEF DueIsRecorded
<1> QED
  BY <1>9, <1>11, <1>12, <1>13, <1>14, <1>15 DEF SimulationInv

\* A statement that touches neither table nor clock.
LEMMA TablesKeep ==
  ASSUME SimulationInv,
         UNCHANGED <<program, plant, inputs, last_target, outputs, held, r_memory, r_ordinal,
                     r_sample, observations, controls>>
  PROVE  /\ RowsAreRead' /\ ControlsAreNumbered'
         /\ r_stage' \in {"initialize", "rejected"} \cup UnderWay \cup Complete
              => SimulationTypes'
         /\ \A n : Recorded(n)' = Recorded(n) /\ Instant(n)' = Instant(n) /\ Grid(n)' = Grid(n)
         /\ Instant(r_sample)' = Instant(r_sample) /\ Grid(r_ordinal)' = Grid(r_ordinal)
         /\ Grid(r_ordinal - 1)' = Grid(r_ordinal - 1)
<1>1. \A n : Recorded(n)' = Recorded(n) /\ Instant(n)' = Instant(n) /\ Grid(n)' = Grid(n)
  BY DEF Recorded, Instant, Realtime!Target, Realtime!Stride, Grid
<1>2. /\ Instant(r_sample)' = Instant(r_sample) /\ Grid(r_ordinal)' = Grid(r_ordinal)
      /\ Grid(r_ordinal - 1)' = Grid(r_ordinal - 1)
  BY DEF Instant, Realtime!Target, Realtime!Stride, Grid
<1>3. ControlsAreNumbered'
  BY DEF SimulationInv, ControlsAreNumbered
<1>4. RowsAreRead'
  BY TablesGrow DEF SimulationInv
<1>5. r_stage' \in {"initialize", "rejected"} \cup UnderWay \cup Complete => SimulationTypes'
  BY DEF SimulationInv, SimulationTypes, Realtime!Programs
<1> QED
  BY <1>1, <1>2, <1>3, <1>4, <1>5

LEMMA SimulationBegin == ASSUME SimulationInv, Realtime!Begin PROVE SimulationInv'
<1>1. /\ r_stage = "begin" /\ r_stage' = "communicate" /\ r_started' = TRUE
      /\ UNCHANGED <<program, plant, inputs, last_target, outputs, held, r_memory, r_ordinal,
                     r_sample, observations, controls>>
  BY DEF Realtime!Begin, Realtime!Start, Realtime!solverVars, Realtime!controlVars,
     Realtime!files
<1>2. /\ SimulationTypes /\ SimulationCounts /\ SimulationClock /\ NoneTerminal /\ DueIsRecorded
  BY DEF SimulationInv
<1>3. r_stage \in UnderWay /\ r_stage' \in UnderWay /\ r_stage' \notin Complete
  BY <1>1 DEF UnderWay, Complete
<1>4. SimulationCounts'
  BY <1>1, <1>2, <1>3, TablesKeep DEF SimulationCounts
<1>5. SimulationClock'
  BY <1>1, <1>2, TablesKeep DEF SimulationClock
<1>6. NoneTerminal'
  BY <1>1, <1>2, <1>3 DEF NoneTerminal, Complete
<1>7. DueIsRecorded'
  <2>1. \A n \in Nat : Due(n)' = Due(n)
    BY <1>1 DEF Due, Complete
  <2> QED
    BY <1>1, <1>2, <1>3, <2>1, TablesKeep DEF DueIsRecorded
<1> QED
  BY <1>1, <1>3, <1>4, <1>5, <1>6, <1>7, TablesKeep DEF SimulationInv

LEMMA SimulationStops ==
  ASSUME SimulationInv, Realtime!BeginAtStop \/ Realtime!Publish \/ Realtime!Reject
  PROVE  SimulationInv'
<1>1. /\ UNCHANGED <<program, plant, inputs, last_target, outputs, held, r_memory, r_ordinal,
                     r_sample, observations, controls>>
      /\ \/ r_stage = "begin" /\ r_stage' = "finalize"
         \/ r_stage = "finalize" /\ r_stage' = "published"
         \/ r_stage' = "rejected"
  BY DEF Realtime!BeginAtStop, Realtime!Publish, Realtime!Reject, Realtime!solverVars,
     Realtime!instanceVars, Realtime!controlVars, Realtime!files
<1>2. /\ SimulationTypes /\ SimulationCounts /\ SimulationClock /\ NoneTerminal /\ DueIsRecorded
  BY DEF SimulationInv
<1>3. r_stage' \in Complete \cup {"rejected"} /\ r_stage' \notin UnderWay
  BY <1>1 DEF UnderWay, Complete
<1>4. SimulationCounts' /\ SimulationClock' /\ NoneTerminal'
  BY <1>3 DEF SimulationCounts, SimulationClock, NoneTerminal, Complete, UnderWay
<1>5. DueIsRecorded'
  <2>1. CASE r_stage' = "rejected"
    BY <2>1 DEF DueIsRecorded, UnderWay, Complete
  <2>2. CASE r_stage = "finalize" /\ r_stage' = "published"
    <3>1. \A n \in Nat : Due(n)' = Due(n)
      BY <1>1, <2>2 DEF Due, Complete
    <3> QED
      BY <1>1, <1>2, <2>2, <3>1, TablesKeep DEF DueIsRecorded, Complete
  <2>3. CASE r_stage = "begin" /\ r_stage' = "finalize"
    <3>1. r_sample = 0 /\ Len(controls) = 1 /\ 0 % Decimation = 0
      BY <1>2, <2>3, OrdinalOfGrid DEF SimulationCounts, UnderWay
    <3>2. program \in {"cruise", "single_curve"}
      BY <1>2, SimulationFields
    <3>3. \A n \in Nat : Due(n)' = Due(n)
      BY <1>1, <2>3, <3>1, <3>2 DEF Due, Complete
    <3>4. Len(controls') = Instant(r_sample)' \div OtherPeriod + 1
      <4>1. Instant(r_sample)' = 0 /\ Grid(0) = 0 /\ Grid(0) \div OtherPeriod = 0
        BY <1>1, <3>1, TablesKeep, InstantFacts, GridFacts, OrdinalOfGrid
      <4> QED
        BY <1>1, <3>1, <4>1
    <3> QED
      BY <1>1, <1>2, <2>3, <3>3, <3>4, TablesKeep DEF DueIsRecorded, UnderWay
  <2> QED
    BY <1>1, <2>1, <2>2, <2>3
<1> QED
  BY <1>1, <1>3, <1>4, <1>5, TablesKeep DEF SimulationInv

\* A communication: the instants it is between and the state it leads to.
LEMMA CommunicationTimes ==
  ASSUME SimulationInv, r_stage = "communicate", NEW next, next = r_sample + 1
  PROVE  /\ r_ordinal \in 1..CommunicationOrdinals /\ r_ordinal - 1 \in Nat /\ r_ordinal \in Nat
         /\ Len(controls) = r_ordinal /\ held = controls[Len(controls)].torques
         /\ plant.time = Instant(r_sample) /\ r_sample \in Nat /\ held \in Local
         /\ program = "cruise" => next = r_ordinal /\ Instant(next) = Grid(next)
         /\ next \in Nat /\ Instant(next) \in Nat /\ Instant(r_sample) \in Nat
         /\ Instant(r_sample) < Instant(next)
         /\ Grid(r_ordinal) \in Nat /\ Grid(r_ordinal - 1) \in Nat
         /\ Grid(r_ordinal - 1) < Instant(next) /\ Instant(next) <= Grid(r_ordinal)
         /\ Holder(next) = r_ordinal
         /\ Instant(next) % OtherPeriod = 0 <=> Instant(next) = Grid(r_ordinal)
         /\ Instant(next) \in Time
         /\ Flow(plant.state, held, plant.time, Instant(next)) \in State
<1> DEFINE target == Instant(next)
           state == Flow(plant.state, held, plant.time, target)
<1>2. /\ SimulationTypes /\ SimulationCounts /\ SimulationClock /\ NoneTerminal /\ RowsAreRead
      /\ ControlsAreNumbered /\ DueIsRecorded
  BY DEF SimulationInv
<1>3. r_stage \in UnderWay
  BY DEF UnderWay
<1>4. /\ r_ordinal \in 1..CommunicationOrdinals /\ r_ordinal - 1 \in Nat /\ r_ordinal \in Nat
      /\ (r_ordinal - 1) + 1 = r_ordinal
      /\ Len(controls) = r_ordinal /\ held = controls[Len(controls)].torques
      /\ plant.time = Instant(r_sample) /\ r_sample \in Nat /\ held \in Local
  BY <1>2, <1>3, SimulationFacts DEF SimulationCounts, SimulationTypes
<1>5. /\ Grid(r_ordinal - 1) <= Instant(r_sample) /\ Instant(r_sample) < Grid(r_ordinal)
      /\ program = "cruise" => next = r_ordinal
  BY <1>2 DEF SimulationClock
<1>6. /\ next \in Nat /\ target \in Nat /\ Instant(r_sample) \in Nat /\ Instant(r_sample) < target
      /\ program = "cruise" => target = Grid(next)
      /\ program # "cruise" => target = Instant(r_sample) + 1
  <2>1. next \in Nat /\ r_sample + 1 = next
    BY <1>4
  <2>2. /\ Instant(r_sample) \in Nat /\ Instant(r_sample) < Instant(next) /\ Instant(next) \in Nat
        /\ program # "cruise" => Instant(r_sample) = r_sample /\ Instant(next) = next
        /\ program = "cruise" => Instant(next) = Grid(next)
    BY <2>1, <1>4, InstantFacts
  <2> QED
    BY <2>1, <2>2
<1>7. /\ Grid(r_ordinal) \in Time /\ Grid(r_ordinal) \in Nat /\ Grid(r_ordinal - 1) \in Nat
  <2>1. r_ordinal \in 0..CommunicationOrdinals
    BY <1>4
  <2> QED
    BY <2>1, <1>4, GridWithinCap, GridFacts
<1>8. Grid(r_ordinal - 1) < target /\ target <= Grid(r_ordinal)
  BY <1>5, <1>6, <1>7
<1>9. Holder(next) = r_ordinal /\ (target % OtherPeriod = 0 <=> target = Grid(r_ordinal))
  BY <1>4, <1>6, <1>8, SampleInPeriod
<1>10. target \in Time /\ state \in State
  <2>1. target \in Time
    BY <1>6, <1>7, <1>8, FlowAssumption DEF Time
  <2> QED
    BY <2>1, <1>2, <1>4, FlowAssumption, SimulationFields
<1> QED
  BY <1>4, <1>5, <1>6, <1>7, <1>8, <1>9, <1>10

LEMMA SimulationCommunicate == ASSUME SimulationInv, Realtime!Communicate PROVE SimulationInv'
<1> DEFINE next == r_sample + 1
           target == Instant(next)
           state == Flow(plant.state, held, plant.time, target)
           row == [sample |-> next, outputs |-> outputs', torques |-> held]
<1>1. /\ r_stage = "communicate" /\ r_sample' = next /\ r_started
      /\ inputs' = held /\ last_target' = target
      /\ plant' = [time |-> target, state |-> state]
      /\ outputs' = [time |-> plant'.time, state |-> plant'.state, inputs |-> inputs']
      /\ r_stage' = IF target % OtherPeriod = 0 THEN "control" ELSE "communicate"
      /\ observations' = IF program = "cruise" THEN observations ELSE Append(observations, row)
      /\ UNCHANGED <<program, r_started, held, r_memory, r_ordinal, controls>>
  BY DEF Realtime!Communicate, Realtime!SetInputsAndAdvance, Realtime!ReadOutputs, Instant,
     Realtime!Target, Realtime!Stride, Realtime!controlVars
<1>2. /\ SimulationTypes /\ SimulationCounts /\ SimulationClock /\ NoneTerminal /\ RowsAreRead
      /\ ControlsAreNumbered /\ DueIsRecorded
  BY DEF SimulationInv
<1>3. r_stage \in UnderWay /\ r_stage' \in UnderWay /\ r_stage' \notin Complete
  BY <1>1 DEF UnderWay, Complete
<1>4. /\ r_ordinal \in 1..CommunicationOrdinals /\ r_ordinal - 1 \in Nat /\ r_ordinal \in Nat
      /\ Len(controls) = r_ordinal /\ held = controls[Len(controls)].torques
      /\ plant.time = Instant(r_sample) /\ r_sample \in Nat /\ held \in Local
      /\ program = "cruise" => next = r_ordinal /\ target = Grid(next)
  BY <1>1, CommunicationTimes
<1>6. /\ next \in Nat /\ target \in Nat /\ Instant(r_sample) \in Nat /\ Instant(r_sample) < target
      /\ Grid(r_ordinal) \in Nat /\ Grid(r_ordinal - 1) \in Nat
      /\ Grid(r_ordinal - 1) < target /\ target <= Grid(r_ordinal)
  BY <1>1, CommunicationTimes
<1>9. Holder(next) = r_ordinal /\ (target % OtherPeriod = 0 <=> target = Grid(r_ordinal))
  BY <1>1, CommunicationTimes
<1>10. target \in Time /\ state \in State
  BY <1>1, CommunicationTimes
<1>11. /\ outputs' \in [time : Time, state : State, inputs : Local]
       /\ outputs'.time = target /\ outputs'.inputs = held /\ outputs'.state = state
       /\ outputs'.state \in State /\ plant'.time = target
  <2> HIDE DEF state, target
  <2> QED
    BY <1>1, <1>4, <1>10
<1>12. /\ row \in ObservationRow /\ row.sample = next /\ row.outputs = outputs'
       /\ row.torques = held
  BY <1>4, <1>6, <1>11 DEF ObservationRow
<1> HIDE DEF row, state
<1>13. /\ \A n : Instant(n)' = Instant(n) /\ Grid(n)' = Grid(n) /\ Holder(n)' = Holder(n)
       /\ Instant(r_sample)' = target
       /\ Grid(r_ordinal)' = Grid(r_ordinal) /\ Grid(r_ordinal - 1)' = Grid(r_ordinal - 1)
  BY <1>1 DEF Instant, Realtime!Target, Realtime!Stride, Grid, Holder
<1> HIDE DEF target, next
<1>14. observations' \in Seq(ObservationRow)
  <2>1. observations \in Seq(ObservationRow)
    BY <1>2, SimulationFields
  <2> QED
    BY <2>1, <1>1, <1>12, Appended
<1>15. SimulationTypes'
  <2>1. r_sample' \in Nat /\ plant' \in [time : Time, state : State]
    BY <1>1, <1>6, <1>10
  <2> QED
    BY <1>1, <1>2, <1>3, <1>4, <1>11, <1>14, <2>1
       DEF SimulationTypes, ObservationRow, Realtime!Programs
<1>16. SimulationCounts'
  BY <1>1, <1>3, <1>4, <1>11, <1>13 DEF SimulationCounts
<1>17. SimulationClock'
  <2>1. /\ r_stage' = "control" => target = Grid(r_ordinal)
        /\ r_stage' # "control" => r_stage' = "communicate" /\ target < Grid(r_ordinal)
    BY <1>1, <1>6, <1>9
  <2>2. program = "cruise" => r_stage' = "control" /\ next = r_ordinal
    BY <1>1, <1>4, <1>6, <1>9
  <2>3. Grid(r_ordinal - 1) <= target
    BY <1>6
  <2> QED
    BY <1>1, <1>13, <2>1, <2>2, <2>3 DEF SimulationClock
<1>18. NoneTerminal' /\ ControlsAreNumbered'
  BY <1>1, <1>2, <1>3 DEF NoneTerminal, ControlsAreNumbered, UnderWay, Complete
<1>19. RowsAreRead'
  <2>1. CASE program = "cruise"
    BY <2>1, <1>1, <1>2, TablesGrow
  <2>2. CASE program # "cruise"
    <3>1. observations[Len(observations)].sample < next
      <4>1. /\ observations[Len(observations)].sample \in Nat
            /\ Due(observations[Len(observations)].sample)
        BY <1>3, LastRow
      <4>2. observations[Len(observations)].sample <= r_sample
        BY <4>1, <1>1, <1>4 DEF Due
      <4> QED
        BY <4>1, <4>2, <1>4 DEF next
    <3>2. r_ordinal \in 1..Len(controls)
      BY <1>4
    <3>3. row.outputs.time = Instant(row.sample)
      BY <1>11, <1>12 DEF target
    <3>4. /\ Holder(row.sample) \in 1..Len(controls)
          /\ row.torques = controls[Holder(row.sample)].torques
      BY <1>4, <1>9, <1>12, <3>2
    <3>5. row.torques = row.outputs.inputs
      BY <1>11, <1>12
    <3>6. observations' = Append(observations, row)
      BY <1>1, <2>2
    <3> QED
      BY <1>1, <1>2, <1>12, <3>1, <3>3, <3>4, <3>5, <3>6, TablesGrow
  <2> QED
    BY <2>1, <2>2
<1>20. DueIsRecorded'
  <2>1. CASE program = "cruise"
    <3>1. r_stage' = "control" /\ r_sample' - 1 = r_sample
      BY <1>1, <1>4, <1>6, <1>9, <2>1 DEF next
    <3>2. ASSUME NEW n \in Nat PROVE Due(n)' <=> Due(n)
      BY <1>1, <2>1, <3>1 DEF Due, Complete
    <3>3. \A n : Recorded(n)' <=> Recorded(n)
      BY <1>1, <2>1 DEF Recorded
    <3> QED
      BY <1>1, <1>2, <1>3, <2>1, <3>2, <3>3 DEF DueIsRecorded
  <2>2. CASE program # "cruise"
    <3>1. /\ \A n : Recorded(n)' <=> Recorded(n) \/ n = next
          /\ observations' # <<>>
      BY <1>1, <1>2, <1>12, <2>2, RecordedGrows
    <3>2. program = "single_curve"
      BY <1>2, <2>2, SimulationFields
    <3>3. ASSUME NEW n \in Nat PROVE Due(n)' <=> Due(n) \/ n = next
      BY <1>1, <1>4, <2>2, <3>2 DEF Due, next
    <3> QED
      BY <1>2, <1>3, <3>1, <3>3 DEF DueIsRecorded
  <2> QED
    BY <2>1, <2>2
<1> QED
  BY <1>15, <1>16, <1>17, <1>18, <1>19, <1>20 DEF SimulationInv

\* An event at the end of a period: what the two programs share.
LEMMA EventTimes ==
  ASSUME SimulationInv, r_stage = "control"
  PROVE  /\ r_stage \in UnderWay
         /\ r_ordinal \in 1..CommunicationOrdinals /\ r_ordinal \in Nat /\ r_sample \in Nat
         /\ Len(controls) = r_ordinal /\ held = controls[r_ordinal].torques /\ inputs = held
         /\ Instant(r_sample) = Grid(r_ordinal) /\ Grid(r_ordinal) \in Nat
         /\ Instant(r_sample) \div OtherPeriod = r_ordinal
         /\ ~Realtime!AtCap => r_ordinal + 1 \in 1..CommunicationOrdinals
         /\ plant.time = Grid(r_ordinal) /\ plant.state = outputs.state
         /\ outputs.time = plant.time /\ outputs.inputs = inputs
<1>1. SimulationTypes /\ SimulationCounts /\ SimulationClock
  BY DEF SimulationInv
<1>2. r_stage \in UnderWay
  BY DEF UnderWay
<1>3. /\ r_ordinal \in 1..CommunicationOrdinals /\ r_ordinal \in Nat /\ r_sample \in Nat
      /\ Len(controls) = r_ordinal /\ held = controls[r_ordinal].torques /\ inputs = held
      /\ plant.time = Instant(r_sample)
      /\ outputs = [time |-> plant.time, state |-> plant.state, inputs |-> inputs]
  BY <1>1, <1>2, SimulationFacts DEF SimulationCounts, SimulationTypes
<1>4. Instant(r_sample) = Grid(r_ordinal)
  BY <1>1 DEF SimulationClock
<1>5. Grid(r_ordinal) \in Nat /\ Instant(r_sample) \div OtherPeriod = r_ordinal
  BY <1>3, <1>4, GridFacts, OrdinalOfGrid
<1>6. ~Realtime!AtCap => r_ordinal + 1 \in 1..CommunicationOrdinals
  <2>1. r_ordinal = CommunicationOrdinals => Realtime!AtCap
    BY <1>4 DEF Realtime!AtCap, Instant, Grid
  <2> QED
    BY <2>1, <1>3, SimulationFacts
<1> QED
  BY <1>2, <1>3, <1>4, <1>5, <1>6

LEMMA SimulationControlSingleCurve ==
  ASSUME SimulationInv, NEW reached \in BOOLEAN, Realtime!ControlSingleCurve(reached)
  PROVE  SimulationInv'
<1> DEFINE event == RealtimeControl(outputs.state, r_memory)
           control == [ordinal |-> Instant(r_sample) \div OtherPeriod,
                       kind |-> IF reached THEN "terminal" ELSE "periodic",
                       torques |-> event.torques]
<1>1. /\ r_stage = "control" /\ program = "single_curve"
      /\ held' = event.torques /\ r_memory' = event.memory /\ r_ordinal' = r_ordinal + 1
      /\ controls' = Append(controls, control)
      /\ r_stage' = IF reached THEN "finalize"
                    ELSE IF Realtime!AtCap THEN "rejected" ELSE "communicate"
      /\ UNCHANGED <<program, plant, inputs, r_started, last_target, outputs, r_sample,
                     observations>>
  BY DEF Realtime!ControlSingleCurve, Realtime!Adopt, Realtime!Event, Realtime!solverVars,
     Realtime!instanceVars, Instant
<1>2. /\ SimulationTypes /\ SimulationCounts /\ SimulationClock /\ NoneTerminal /\ RowsAreRead
      /\ ControlsAreNumbered /\ DueIsRecorded
  BY DEF SimulationInv
<1>3. /\ r_stage \in UnderWay
      /\ r_ordinal \in 1..CommunicationOrdinals /\ r_ordinal \in Nat /\ r_sample \in Nat
      /\ Len(controls) = r_ordinal
      /\ Instant(r_sample) = Grid(r_ordinal) /\ Grid(r_ordinal) \in Nat
      /\ Instant(r_sample) \div OtherPeriod = r_ordinal
      /\ ~Realtime!AtCap => r_ordinal + 1 \in 1..CommunicationOrdinals
  BY <1>1, EventTimes
<1>4. event.torques \in Local /\ event.memory \in Memory
  BY <1>2, SimulationFields
<1> HIDE DEF event
<1>5. /\ control \in ControlRow /\ control.ordinal = r_ordinal /\ control.torques = event.torques
      /\ ~reached => control.kind # "terminal"
  BY <1>3, <1>4 DEF ControlRow
<1> HIDE DEF control
<1>6. /\ controls' \in Seq(ControlRow) /\ Len(controls') = r_ordinal + 1
      /\ controls'[r_ordinal + 1] = control
      /\ \A e \in 1..r_ordinal : controls'[e] = controls[e]
  <2>1. controls \in Seq(ControlRow)
    BY <1>2, SimulationFields
  <2> QED
    BY <2>1, <1>1, <1>3, <1>5, Appended
<1>7. r_stage' \in {"finalize", "rejected", "communicate"}
  BY <1>1
<1>8. SimulationTypes'
  BY <1>1, <1>2, <1>3, <1>4, <1>6, <1>7
     DEF SimulationTypes, UnderWay, Complete, ControlRow, Realtime!Programs
<1>9. Instant(r_sample)' = Instant(r_sample) /\ Grid(r_ordinal)' = Grid(r_ordinal + 1)
      /\ Grid(r_ordinal - 1)' = Grid(r_ordinal)
  <2>1. (r_ordinal - 1)' = r_ordinal
    BY <1>1, <1>3
  <2> QED
    BY <2>1, <1>1 DEF Instant, Realtime!Target, Realtime!Stride, Grid
<1>10. SimulationCounts'
  <2>1. CASE r_stage' = "communicate"
    <3>1. ~Realtime!AtCap
      BY <1>1, <2>1
    <3>2. held' = controls'[Len(controls')].torques
      BY <1>1, <1>5, <1>6
    <3>3. r_ordinal' \in 1..CommunicationOrdinals /\ Len(controls') = r_ordinal'
      BY <1>1, <1>3, <1>6, <3>1
    <3> QED
      BY <1>1, <1>2, <1>3, <1>9, <2>1, <3>2, <3>3 DEF SimulationCounts
  <2>2. CASE r_stage' # "communicate"
    BY <1>7, <2>2 DEF SimulationCounts, UnderWay
  <2> QED
    BY <2>1, <2>2
<1>11. SimulationClock'
  <2>1. Grid(r_ordinal) < Grid(r_ordinal + 1)
    BY <1>3, GridFacts, SimulationFacts
  <2> QED
    BY <1>1, <1>3, <1>7, <1>9, <2>1 DEF SimulationClock
<1>12. NoneTerminal'
  <2>1. CASE reached
    BY <1>1, <2>1 DEF NoneTerminal, Complete
  <2>2. CASE ~reached
    <3>1. \A e \in 1..r_ordinal : controls[e].kind # "terminal"
      BY <1>1, <1>2, <1>3 DEF NoneTerminal, Complete
    <3>2. ASSUME NEW e \in 1..Len(controls') PROVE controls'[e].kind # "terminal"
      <4>1. CASE e = r_ordinal + 1
        BY <4>1, <1>5, <1>6, <2>2
      <4>2. CASE e # r_ordinal + 1
        <5>1. e \in 1..r_ordinal
          BY <4>2, <1>3, <1>6
        <5> QED
          BY <5>1, <3>1, <1>6
      <4> QED
        BY <4>1, <4>2
    <3> QED
      BY <3>2 DEF NoneTerminal
  <2> QED
    BY <2>1, <2>2
<1>13. ControlsAreNumbered'
  <2>1. ASSUME NEW e \in 1..Len(controls') PROVE controls'[e].ordinal = e - 1
    <3>1. CASE e = r_ordinal + 1
      BY <3>1, <1>3, <1>5, <1>6
    <3>2. CASE e # r_ordinal + 1
      <4>1. e \in 1..r_ordinal
        BY <3>2, <1>3, <1>6
      <4> QED
        BY <4>1, <1>2, <1>3, <1>6 DEF ControlsAreNumbered
    <3> QED
      BY <3>1, <3>2
  <2> QED
    BY <2>1 DEF ControlsAreNumbered
<1>14. RowsAreRead'
  BY <1>1, <1>2, <1>5, TablesGrow
<1>15. DueIsRecorded'
  <2>1. ASSUME NEW n \in Nat PROVE Due(n)' <=> Due(n)
    BY <1>1 DEF Due
  <2>2. \A n : Recorded(n)' <=> Recorded(n)
    BY <1>1 DEF Recorded
  <2>3. Len(controls') = Instant(r_sample)' \div OtherPeriod + 1
    BY <1>3, <1>6, <1>9
  <2> QED
    BY <1>1, <1>2, <1>3, <2>1, <2>2, <2>3 DEF DueIsRecorded
<1> QED
  BY <1>8, <1>10, <1>11, <1>12, <1>13, <1>14, <1>15 DEF SimulationInv

LEMMA SimulationControlCruise ==
  ASSUME SimulationInv, NEW reached \in BOOLEAN, Realtime!ControlCruise(reached)
  PROVE  SimulationInv'
<1> DEFINE event == RealtimeControl(outputs.state, r_memory)
           control == [ordinal |-> r_sample, kind |-> "periodic", torques |-> event.torques]
           row == [sample |-> r_sample, outputs |-> outputs, torques |-> held]
           written == r_sample % Decimation = 0 \/ reached \/ Realtime!AtCap
<1>1. /\ r_stage = "control" /\ program = "cruise"
      /\ observations' = IF written THEN Append(observations, row) ELSE observations
      /\ controls' = Append(controls, control)
      /\ IF reached \/ Realtime!AtCap THEN UNCHANGED <<held, r_memory, r_ordinal>>
         ELSE held' = event.torques /\ r_memory' = event.memory /\ r_ordinal' = r_ordinal + 1
      /\ r_stage' = IF reached THEN "finalize"
                    ELSE IF Realtime!AtCap THEN "rejected" ELSE "communicate"
      /\ UNCHANGED <<program, plant, inputs, r_started, last_target, outputs, r_sample>>
  BY DEF Realtime!ControlCruise, Realtime!Adopt, Realtime!Event, Realtime!solverVars,
     Realtime!instanceVars, Realtime!controlVars
<1>2. /\ SimulationTypes /\ SimulationCounts /\ SimulationClock /\ NoneTerminal /\ RowsAreRead
      /\ ControlsAreNumbered /\ DueIsRecorded
  BY DEF SimulationInv
<1>3. /\ r_stage \in UnderWay
      /\ r_ordinal \in 1..CommunicationOrdinals /\ r_ordinal \in Nat /\ r_sample \in Nat
      /\ Len(controls) = r_ordinal /\ held = controls[r_ordinal].torques /\ inputs = held
      /\ Instant(r_sample) = Grid(r_ordinal) /\ Grid(r_ordinal) \in Nat
      /\ Instant(r_sample) \div OtherPeriod = r_ordinal
      /\ ~Realtime!AtCap => r_ordinal + 1 \in 1..CommunicationOrdinals
      /\ plant.time = Grid(r_ordinal) /\ outputs.time = plant.time /\ outputs.inputs = inputs
  BY <1>1, EventTimes
<1>4. r_sample = r_ordinal
  BY <1>1, <1>2 DEF SimulationClock
<1>5. event.torques \in Local /\ event.memory \in Memory
  BY <1>2, SimulationFields
<1> HIDE DEF event, written
<1>6. /\ control \in ControlRow /\ control.ordinal = r_ordinal /\ control.torques = event.torques
      /\ control.kind # "terminal"
  BY <1>3, <1>4, <1>5 DEF ControlRow
<1>7. /\ row \in ObservationRow /\ row.sample = r_sample /\ row.outputs = outputs
      /\ row.torques = held
  <2>1. outputs \in [time : Time, state : State, inputs : Local] /\ held \in Local
    <3>1. outputs = [time |-> plant.time, state |-> plant.state, inputs |-> inputs]
      BY <1>2, <1>3 DEF SimulationCounts
    <3> QED
      BY <3>1, <1>2, SimulationFields DEF SimulationTypes
  <2> QED
    BY <2>1, <1>3 DEF ObservationRow
<1> HIDE DEF control, row
<1>8. /\ controls' \in Seq(ControlRow) /\ Len(controls') = r_ordinal + 1
      /\ controls'[r_ordinal + 1] = control
      /\ \A e \in 1..r_ordinal : controls'[e] = controls[e]
  <2>1. controls \in Seq(ControlRow)
    BY <1>2, SimulationFields
  <2> QED
    BY <2>1, <1>1, <1>3, <1>6, Appended
<1>9. r_stage' \in {"finalize", "rejected", "communicate"}
  BY <1>1
<1>10. observations' \in Seq(ObservationRow)
  <2>1. observations \in Seq(ObservationRow)
    BY <1>2, SimulationFields
  <2> QED
    BY <2>1, <1>1, <1>7, Appended
<1>11. SimulationTypes'
  <2>1. held' \in Local /\ r_memory' \in Memory /\ r_ordinal' \in Nat
    BY <1>1, <1>2, <1>3, <1>5 DEF SimulationTypes
  <2>2. r_stage' \in {"initialize", "rejected"} \cup UnderWay \cup Complete
    BY <1>9 DEF UnderWay, Complete
  <2> QED
    BY <1>1, <1>2, <1>8, <1>10, <2>1, <2>2
       DEF SimulationTypes, ControlRow, ObservationRow, Realtime!Programs
<1>12. /\ \A n : Instant(n)' = Instant(n)
       /\ Instant(r_sample)' = Instant(r_sample)
  BY <1>1 DEF Instant, Realtime!Target, Realtime!Stride
<1>13. r_stage' = "communicate" =>
         /\ ~reached /\ ~Realtime!AtCap /\ held' = event.torques /\ r_ordinal' = r_ordinal + 1
         /\ Grid(r_ordinal)' = Grid(r_ordinal + 1) /\ Grid(r_ordinal - 1)' = Grid(r_ordinal)
  <2>1. r_stage' = "communicate" =>
          /\ ~reached /\ ~Realtime!AtCap /\ held' = event.torques /\ r_ordinal' = r_ordinal + 1
    BY <1>1
  <2>2. r_ordinal' = r_ordinal + 1 => r_ordinal' - 1 = r_ordinal
    BY <1>3
  <2> QED
    BY <2>1, <2>2 DEF Grid
<1>14. SimulationCounts'
  <2>1. CASE r_stage' = "communicate"
    <3>1. held' = controls'[Len(controls')].torques
      BY <1>6, <1>8, <1>13, <2>1
    <3>2. r_ordinal' \in 1..CommunicationOrdinals /\ Len(controls') = r_ordinal'
      BY <1>3, <1>8, <1>13, <2>1
    <3> QED
      BY <1>1, <1>2, <1>3, <1>12, <2>1, <3>1, <3>2 DEF SimulationCounts
  <2>2. CASE r_stage' # "communicate"
    BY <1>9, <2>2 DEF SimulationCounts, UnderWay
  <2> QED
    BY <2>1, <2>2
<1>15. SimulationClock'
  <2>1. Grid(r_ordinal) < Grid(r_ordinal + 1)
    BY <1>3, GridFacts, SimulationFacts
  <2> QED
    BY <1>1, <1>3, <1>4, <1>9, <1>12, <1>13, <2>1 DEF SimulationClock
<1>16. NoneTerminal'
  <2>1. \A e \in 1..r_ordinal : controls[e].kind # "terminal"
    BY <1>1, <1>2, <1>3 DEF NoneTerminal, Complete
  <2>2. ASSUME NEW e \in 1..Len(controls') PROVE controls'[e].kind # "terminal"
    <3>1. CASE e = r_ordinal + 1
      BY <3>1, <1>6, <1>8
    <3>2. CASE e # r_ordinal + 1
      <4>1. e \in 1..r_ordinal
        BY <3>2, <1>3, <1>8
      <4> QED
        BY <4>1, <2>1, <1>8
    <3> QED
      BY <3>1, <3>2
  <2> QED
    BY <2>2 DEF NoneTerminal
<1>17. ControlsAreNumbered'
  <2>1. ASSUME NEW e \in 1..Len(controls') PROVE controls'[e].ordinal = e - 1
    <3>1. CASE e = r_ordinal + 1
      BY <3>1, <1>3, <1>6, <1>8
    <3>2. CASE e # r_ordinal + 1
      <4>1. e \in 1..r_ordinal
        BY <3>2, <1>3, <1>8
      <4> QED
        BY <4>1, <1>2, <1>3, <1>8 DEF ControlsAreNumbered
    <3> QED
      BY <3>1, <3>2
  <2> QED
    BY <2>1 DEF ControlsAreNumbered
<1>19. RowsAreRead'
  <2>1. CASE written
    <3>1. observations[Len(observations)].sample < r_sample
      <4>1. /\ observations[Len(observations)].sample \in Nat
            /\ Due(observations[Len(observations)].sample)
        BY <1>3, LastRow
      <4> QED
        BY <4>1, <1>1, <1>3 DEF Due
    <3>2. Holder(r_sample) = r_ordinal
      <4>1. r_ordinal - 1 \in Nat /\ (r_ordinal - 1) + 1 = r_ordinal
        BY <1>3, SimulationFacts
      <4>3. Grid(r_ordinal - 1) < Grid((r_ordinal - 1) + 1)
        BY <4>1, GridFacts, SimulationFacts
      <4>4. Grid(r_ordinal - 1) < Instant(r_sample)
        BY <1>3, <4>1, <4>3
      <4>2. Instant(r_sample) <= Grid((r_ordinal - 1) + 1)
        BY <1>3, <4>1
      <4> QED
        BY <4>1, <4>2, <4>4, <1>3, SampleInPeriod
    <3>3. r_ordinal \in 1..Len(controls)
      BY <1>3
    <3>4. /\ row.torques = row.outputs.inputs /\ row.outputs.time = Instant(row.sample)
          /\ Holder(row.sample) \in 1..Len(controls)
          /\ row.torques = controls[Holder(row.sample)].torques
      BY <1>3, <1>7, <3>2, <3>3
    <3> QED
      BY <1>1, <1>2, <1>6, <1>7, <2>1, <3>1, <3>4, TablesGrow
  <2>2. CASE ~written
    BY <1>1, <1>2, <1>6, <2>2, TablesGrow
  <2> QED
    BY <2>1, <2>2
<1>20. DueIsRecorded'
  <2>1. observations # <<>> /\ \A n \in Nat : Recorded(n) <=> Due(n)
    BY <1>2, <1>3 DEF DueIsRecorded
  <2>2. /\ \A n \in Nat : Recorded(n)' <=> Recorded(n) \/ (written /\ n = r_sample)
        /\ observations' # <<>>
    <3>1. CASE written
      BY <3>1, <1>1, <1>2, <1>7, RecordedGrows
    <3>2. CASE ~written
      BY <3>2, <1>1, <2>1 DEF Recorded
    <3> QED
      BY <3>1, <3>2
  <2>3. r_stage' \in UnderWay \cup Complete =>
          \A n \in Nat : Due(n)' <=> Due(n) \/ (written /\ n = r_sample)
    <3>1. ASSUME NEW n \in Nat
          PROVE  Due(n) <=> n \in 0..(r_sample - 1) /\ n % Decimation = 0
      BY <1>1 DEF Due, Complete
    <3>2. CASE r_stage' = "finalize"
      <4>1. written
        BY <1>1, <3>2 DEF written
      <4>2. ASSUME NEW n \in Nat
            PROVE  Due(n)' <=> n \in 0..r_sample /\ (n % Decimation = 0 \/ n = r_sample)
        BY <1>1, <3>2 DEF Due, Complete
      <4>3. ASSUME NEW n \in Nat
            PROVE  n \in 0..r_sample <=> n \in 0..(r_sample - 1) \/ n = r_sample
        BY <1>3
      <4> QED
        BY <3>1, <4>1, <4>2, <4>3
    <3>3. CASE r_stage' = "communicate"
      <4>1. written <=> r_sample % Decimation = 0
        BY <1>13, <3>3 DEF written
      <4>2. ASSUME NEW n \in Nat PROVE Due(n)' <=> n \in 0..r_sample /\ n % Decimation = 0
        BY <1>1, <3>3 DEF Due, Complete
      <4>3. ASSUME NEW n \in Nat
            PROVE  n \in 0..r_sample <=> n \in 0..(r_sample - 1) \/ n = r_sample
        BY <1>3
      <4> QED
        BY <3>1, <4>1, <4>2, <4>3
    <3> QED
      BY <1>9, <3>2, <3>3 DEF UnderWay, Complete
  <2>4. r_stage' \in Complete => Len(controls') = Instant(r_sample)' \div OtherPeriod + 1
    BY <1>3, <1>8, <1>12
  <2> QED
    BY <2>1, <2>2, <2>3, <2>4 DEF DueIsRecorded
<1> QED
  BY <1>11, <1>14, <1>15, <1>16, <1>17, <1>19, <1>20 DEF SimulationInv

LEMMA SimulationStep == SimulationInv /\ [Realtime!Next]_(Realtime!vars) => SimulationInv'
<1> SUFFICES ASSUME SimulationInv, [Realtime!Next]_(Realtime!vars) PROVE SimulationInv'
  OBVIOUS
<1>1. CASE \/ Realtime!Initialize \/ Realtime!Begin \/ Realtime!BeginAtStop
           \/ Realtime!Communicate \/ Realtime!Publish \/ Realtime!Reject
  BY <1>1, SimulationInitialize, SimulationBegin, SimulationStops, SimulationCommunicate
<1>2. ASSUME NEW reached \in BOOLEAN,
             Realtime!ControlSingleCurve(reached) \/ Realtime!ControlCruise(reached)
      PROVE  SimulationInv'
  BY <1>2, SimulationControlSingleCurve, SimulationControlCruise
<1>3. CASE UNCHANGED Realtime!vars
  <2>1. UNCHANGED <<program, plant, inputs, r_started, last_target, outputs, held, r_memory,
                    r_ordinal, r_sample, r_stage, observations, controls>>
    BY <1>3 DEF Realtime!vars
  <2>2. /\ SimulationTypes /\ SimulationCounts /\ SimulationClock /\ NoneTerminal
        /\ DueIsRecorded
    BY DEF SimulationInv
  <2>3. SimulationTypes'
    BY <2>1, <2>2, TablesKeep DEF SimulationTypes
  <2>4. SimulationCounts'
    BY <2>1, <2>2, TablesKeep DEF SimulationCounts
  <2>5. SimulationClock'
    BY <2>1, <2>2, TablesKeep DEF SimulationClock
  <2>6. NoneTerminal'
    BY <2>1, <2>2 DEF NoneTerminal
  <2>7. DueIsRecorded'
    <3>1. \A n \in Nat : Due(n)' = Due(n)
      BY <2>1 DEF Due
    <3> QED
      BY <2>1, <2>2, <3>1, TablesKeep DEF DueIsRecorded
  <2> QED
    BY <2>1, <2>3, <2>4, <2>5, <2>6, <2>7, TablesKeep DEF SimulationInv
<1> QED
  BY <1>1, <1>2, <1>3 DEF Realtime!Next

LEMMA SimulationParts == SimulationInv => Realtime!TablesTellTheRun
<1> SUFFICES ASSUME SimulationInv PROVE Realtime!TablesTellTheRun
  OBVIOUS
<1>1. SimulationTypes /\ RowsAreRead /\ ControlsAreNumbered /\ DueIsRecorded
  BY DEF SimulationInv
<1>2. /\ observations \in Seq(ObservationRow) /\ Len(observations) \in Nat
      /\ Len(controls) \in Nat /\ program \in {"cruise", "single_curve"}
  BY <1>1, SimulationFields
<1>3. ASSUME NEW i \in 1..Len(observations)
      PROVE  /\ observations[i].torques = observations[i].outputs.inputs
             /\ observations[i].outputs.time = Realtime!Target(observations[i].sample)
  BY <1>1 DEF RowsAreRead, Instant
<1>4. ASSUME NEW i \in 2..Len(observations)
      PROVE  /\ observations[i].torques =
              controls[(Realtime!Target(observations[i].sample) - 1) \div OtherPeriod + 1].torques
             /\ observations[i - 1].sample < observations[i].sample
  <2>1. i \in 1..Len(observations) /\ i > 1
    BY <1>2
  <2> QED
    BY <2>1, <1>1 DEF RowsAreRead, Holder, Instant
<1>5. ASSUME r_stage = "published"
      PROVE  /\ {observations[i].sample : i \in 1..Len(observations)} =
                  {n \in 0..r_sample : Realtime!Promised(n)}
             /\ Len(controls) = Realtime!Target(r_sample) \div OtherPeriod + 1
             /\ \A e \in 1..Len(controls) : controls[e].ordinal = e - 1
  <2>1. r_stage \in Complete /\ r_stage # "control"
    BY <1>5 DEF Complete
  <2>2. /\ \A n \in Nat : Recorded(n) <=> Due(n)
        /\ Len(controls) = Instant(r_sample) \div OtherPeriod + 1
    BY <1>1, <2>1 DEF DueIsRecorded
  <2>3. ASSUME NEW n PROVE Due(n) <=> n \in 0..r_sample /\ Realtime!Promised(n)
    BY <2>1 DEF Due, Realtime!Promised
  <2>4. ASSUME NEW i \in 1..Len(observations)
        PROVE  observations[i].sample \in {n \in 0..r_sample : Realtime!Promised(n)}
    <3>1. observations[i] \in ObservationRow
      BY <1>2, ElementOfSeq
    <3>2. observations[i].sample \in Nat
      BY <3>1 DEF ObservationRow
    <3>3. Recorded(observations[i].sample)
      BY DEF Recorded
    <3> QED
      BY <3>2, <3>3, <2>2, <2>3
  <2>5. ASSUME NEW n \in 0..r_sample, Realtime!Promised(n)
        PROVE  n \in {observations[i].sample : i \in 1..Len(observations)}
    <3>1. n \in Nat
      BY <1>1 DEF SimulationTypes
    <3>2. Recorded(n)
      BY <3>1, <2>2, <2>3, <2>5
    <3> QED
      BY <3>2 DEF Recorded
  <2> QED
    BY <1>1, <2>2, <2>4, <2>5 DEF ControlsAreNumbered, Instant
<1> QED
  BY <1>3, <1>4, <1>5 DEF Realtime!TablesTellTheRun
-----------------------------------------------------------------------------
\* The co-simulation drives the loop: the event that initializes and those it adopts
\* are the loop's, a communication is a hold, and the cruise's last event, written and
\* not adopted, leaves the loop where it is.
Over == \E i \in 1..Len(controls) : controls[i].kind = "terminal"

LEMMA AdoptedIsTheLoops ==
  ASSUME plant.state = outputs.state, plant.time = Grid(r_ordinal),
         Realtime!Adopt(Realtime!Event),
         ~Over, UNCHANGED plant, r_ordinal = 0 => ~Over'
  PROVE  Realtime!Loop!Event
<1>1. plant.time = r_ordinal * OtherPeriod
  BY DEF Grid
<1>2. Over' \in (IF r_ordinal = 0 THEN {FALSE} ELSE BOOLEAN)
  BY DEF Over
<1> QED
  BY <1>1, <1>2 DEF Realtime!Loop!Event, Realtime!Adopt, Realtime!Event, Over

LEMMA CommunicateIsAHold ==
  ASSUME SimulationInv, Realtime!Communicate
  PROVE  \E t \in Time : Realtime!Loop!Hold(t)
<1> DEFINE next == r_sample + 1
<1>1. /\ r_stage = "communicate" /\ UNCHANGED <<held, r_memory, r_ordinal, controls>>
      /\ plant' = [time |-> Instant(next),
                   state |-> Flow(plant.state, held, plant.time, Instant(next))]
  BY DEF Realtime!Communicate, Realtime!SetInputsAndAdvance, Instant, Realtime!Target,
     Realtime!Stride, Realtime!controlVars
<1>2. /\ plant.time < Instant(next) /\ Instant(next) <= Grid(r_ordinal) /\ Instant(next) \in Time
  BY <1>1, CommunicationTimes
<1>3. ~Over /\ Over' = Over
  BY <1>1 DEF SimulationInv, NoneTerminal, Complete, Over
<1> HIDE DEF next
<1>4. Realtime!Loop!Hold(Instant(next))
  BY <1>1, <1>2, <1>3 DEF Realtime!Loop!Hold, Over, Grid
<1> QED
  BY <1>2, <1>4

LEMMA SimulationLoopInit == Realtime!Init => Realtime!Loop!Init
<1> SUFFICES ASSUME Realtime!Init PROVE Realtime!Loop!Init
  OBVIOUS
<1>1. Len(controls) = 0
  BY DEF Realtime!Init
<1> QED
  BY <1>1 DEF Realtime!Init, Realtime!Loop!Init

LEMMA SimulationLoopStep ==
  SimulationInv /\ [Realtime!Next]_(Realtime!vars) => [Realtime!Loop!Next]_(Realtime!Loop!vars)
<1> SUFFICES ASSUME SimulationInv, [Realtime!Next]_(Realtime!vars)
             PROVE  [Realtime!Loop!Next]_(Realtime!Loop!vars)
  OBVIOUS
<1>1. CASE Realtime!Initialize
  <2>1. /\ r_stage = "initialize" /\ UNCHANGED plant /\ Realtime!Adopt(Realtime!Event)
        /\ controls' = <<[ordinal |-> 0, kind |-> "initialization", torques |-> held']>>
    BY <1>1 DEF Realtime!Initialize, Realtime!SetInitialInputs
  <2>2. r_ordinal = 0 /\ plant.time = 0 /\ outputs.state = plant.state /\ Grid(0) = 0
    BY <2>1, GridFacts DEF SimulationInv, SimulationCounts
  <2>3. ~Over
    BY <2>1 DEF SimulationInv, NoneTerminal, Complete, Over
  <2>4. ~Over'
    <3>1. Len(controls') = 1 /\ controls'[1].kind = "initialization"
      BY <2>1
    <3> QED
      BY <3>1 DEF Over
  <2> QED
    BY <2>1, <2>2, <2>3, <2>4, AdoptedIsTheLoops DEF Realtime!Loop!Next
<1>2. CASE Realtime!Communicate
  BY <1>2, CommunicateIsAHold DEF Realtime!Loop!Next, Realtime!Loop!Time, Time
<1>3. ASSUME NEW reached \in BOOLEAN, Realtime!ControlSingleCurve(reached)
      PROVE  Realtime!Loop!Next
  <2>1. r_stage = "control" /\ UNCHANGED plant /\ Realtime!Adopt(Realtime!Event)
    BY <1>3 DEF Realtime!ControlSingleCurve, Realtime!solverVars
  <2>2. plant.state = outputs.state /\ plant.time = Grid(r_ordinal) /\ r_ordinal # 0
    BY <2>1, EventTimes
  <2>3. ~Over
    BY <2>1 DEF SimulationInv, NoneTerminal, Complete, Over
  <2> QED
    BY <2>1, <2>2, <2>3, AdoptedIsTheLoops DEF Realtime!Loop!Next
<1>4. ASSUME NEW reached \in BOOLEAN, Realtime!ControlCruise(reached)
      PROVE  [Realtime!Loop!Next]_(Realtime!Loop!vars)
  <2>1. /\ r_stage = "control" /\ UNCHANGED plant
        /\ IF reached \/ Realtime!AtCap THEN UNCHANGED <<held, r_memory, r_ordinal>>
           ELSE Realtime!Adopt(Realtime!Event)
        /\ r_stage' = IF reached THEN "finalize"
                      ELSE IF Realtime!AtCap THEN "rejected" ELSE "communicate"
        /\ controls' = Append(controls, [ordinal |-> r_sample, kind |-> "periodic",
                                         torques |-> Realtime!Event.torques])
    BY <1>4 DEF Realtime!ControlCruise, Realtime!solverVars, Realtime!controlVars
  <2>2. plant.state = outputs.state /\ plant.time = Grid(r_ordinal) /\ r_ordinal # 0
    BY <2>1, EventTimes
  <2>3. ~Over
    BY <2>1 DEF SimulationInv, NoneTerminal, Complete, Over
  <2>4. ~Over'
    <3> DEFINE control == [ordinal |-> r_sample, kind |-> "periodic",
                           torques |-> Realtime!Event.torques]
    <3>1. control \in ControlRow /\ control.kind = "periodic"
      BY SimulationFields DEF SimulationInv, SimulationTypes, Realtime!Event, ControlRow
    <3>2. controls' = Append(controls, control)
      BY <2>1
    <3> HIDE DEF control
    <3>3. controls \in Seq(ControlRow) /\ Len(controls) \in Nat
      BY SimulationFields DEF SimulationInv
    <3>4. /\ Len(controls') = Len(controls) + 1
          /\ controls'[Len(controls) + 1] = control
          /\ \A e \in 1..Len(controls) : controls'[e] = controls[e]
      BY <3>1, <3>2, <3>3, Appended
    <3>5. ASSUME NEW e \in 1..Len(controls') PROVE controls'[e].kind # "terminal"
      <4>1. CASE e = Len(controls) + 1
        BY <4>1, <3>1, <3>4
      <4>2. CASE e # Len(controls) + 1
        <5>1. e \in 1..Len(controls)
          BY <4>2, <3>3, <3>4
        <5> QED
          BY <5>1, <3>4, <2>3 DEF Over
      <4> QED
        BY <4>1, <4>2
    <3> QED
      BY <3>5 DEF Over
  <2>5. CASE reached \/ Realtime!AtCap
    BY <2>1, <2>3, <2>4, <2>5 DEF Realtime!Loop!vars, Over
  <2>6. CASE ~(reached \/ Realtime!AtCap)
    BY <2>1, <2>2, <2>3, <2>4, <2>6, AdoptedIsTheLoops DEF Realtime!Loop!Next
  <2> QED
    BY <2>5, <2>6
<1>5. CASE \/ Realtime!Begin \/ Realtime!BeginAtStop \/ Realtime!Publish \/ Realtime!Reject
           \/ UNCHANGED Realtime!vars
  <2>1. UNCHANGED <<plant, held, r_memory, r_ordinal, controls>>
    BY <1>5 DEF Realtime!Begin, Realtime!Start, Realtime!BeginAtStop, Realtime!Publish,
       Realtime!Reject, Realtime!vars, Realtime!solverVars, Realtime!controlVars, Realtime!files
  <2> QED
    BY <2>1 DEF Realtime!Loop!vars
<1> QED
  BY <1>1, <1>2, <1>3, <1>4, <1>5 DEF Realtime!Next

LEMMA SimulationSteps ==
  /\ MCInit => Realtime!Init
  /\ [MCNext]_<<started, vars, runVars, cruiseVars, qualificationVars, realtimeVars, passiveVars,
                lawVars, tableVars>> => [Realtime!Next]_(Realtime!vars)
<1>1. MCInit => Realtime!Init
  BY DEF MCInit
<1>2. MCNext => [Realtime!Next]_(Realtime!vars)
  BY DEF MCNext, realtimeVars, Realtime!vars
<1> QED
  BY <1>1, <1>2 DEF realtimeVars, Realtime!vars

(***************************************************************************)
(* The two tables of a co-simulation tell the run at every point of it, for *)
(* any decimation, any period and any control law: what a row states was   *)
(* calculated under the torques it states, and what is published is whole. *)
(***************************************************************************)
THEOREM TablesAlwaysTellTheRun == MCSpec => []Realtime!TablesTellTheRun
BY SimulationSteps, SimulationInit, SimulationStep, SimulationParts, PTL DEF MCSpec

LEMMA SimulationDrivesIt == MCSpec => Realtime!ImplementsLoop
BY SimulationSteps, SimulationInit, SimulationStep, SimulationLoopInit, SimulationLoopStep, PTL
   DEF MCSpec, Realtime!ImplementsLoop, Realtime!Loop!Spec

(***************************************************************************)
(* Whatever program runs it, the controlled vehicle moves as the sampled-  *)
(* data loop says: one event for each period of the grid, and the torques  *)
(* of that event, and no others, until the next.                           *)
(***************************************************************************)
THEOREM ControlAlwaysDrivesTheLoop == MCSpec => ControlDrivesTheLoop
BY ExperimentDrivesIt, QualificationDrivesIt, SimulationDrivesIt DEF ControlDrivesTheLoop
-----------------------------------------------------------------------------
(***************************************************************************)
(* The cruise session.  Products and quotients first.                      *)
(***************************************************************************)
LEMMA QuotientBounds ==
  ASSUME NEW m \in Int, NEW p \in Nat, p > 0
  PROVE  /\ m \div p \in Int
         /\ p * (m \div p) <= m /\ m < p * (m \div p) + p
<1>1. PICK q \in Int, r \in Int :
        q = m \div p /\ r = m % p /\ 0 <= r /\ r < p /\ m = p * q + r
  OBVIOUS
<1> QED
  BY <1>1

LEMMA ProductGrows ==
  ASSUME NEW a \in Int, NEW b \in Int, NEW p \in Nat
  PROVE  /\ p * a \in Int /\ p * b \in Int
         /\ a <= b => p * a <= p * b
         /\ p > 0 /\ p * a <= p * b => a <= b
         /\ p > 0 /\ p * a < p * b => a < b
<1>1. p * a \in Int /\ p * b \in Int
  BY SMT
<1>2. a <= b => p * a <= p * b
  BY SMT
<1>3. p > 0 /\ a < b => p * a < p * b
  BY SMT
<1>4. p > 0 /\ b < a => p * b < p * a
  BY SMT
<1>5. p > 0 /\ b = a => p * b = p * a
  OBVIOUS
<1> QED
  BY <1>1, <1>2, <1>3, <1>4, <1>5

\* A quotient is the most that its divisor goes into.
LEMMA QuotientIsMost ==
  ASSUME NEW m \in Nat, NEW p \in Nat, p > 0, NEW x \in Int
  PROVE  /\ m \div p \in Nat
         /\ p * x <= m <=> x <= m \div p
<1> DEFINE q == m \div p
<1>1. q \in Int /\ p * q <= m /\ m < p * q + p
  BY QuotientBounds
<1> HIDE DEF q
<1>2. p * q \in Int /\ p * (q + 1) = p * q + p /\ p * 0 = 0 /\ p * x \in Int
  BY <1>1, SMT
<1>3. 0 < q + 1
  <2>1. p * 0 < p * (q + 1)
    BY <1>1, <1>2
  <2> QED
    BY <2>1, <1>1, ProductGrows
<1>4. ASSUME p * x <= m PROVE x <= q
  <2>1. p * x < p * (q + 1)
    BY <1>1, <1>2, <1>4
  <2>2. x < q + 1
    BY <2>1, <1>1, ProductGrows
  <2> QED
    BY <2>2, <1>1
<1>5. ASSUME x <= q PROVE p * x <= m
  <2>1. p * x <= p * q
    BY <1>5, <1>1, ProductGrows
  <2> QED
    BY <2>1, <1>1, <1>2
<1>6. q \in Nat
  BY <1>1, <1>3
<1> QED
  BY <1>4, <1>5, <1>6 DEF q
\* A set of natural numbers that is not empty has a least element.
LEMMA Least ==
  ASSUME NEW T, T \subseteq Nat, T # {}
  PROVE  \E n \in T : \A m \in T : n <= m
<1> DEFINE Less == {p \in Nat \X Nat : p[1] < p[2]}
<1>1. IsWellFoundedOn(Less, Nat)
  BY NatLessThanWellFounded DEF OpToRel
<1>2. PICK n \in T : \A m \in T : <<m, n>> \notin Less
  <2> HIDE DEF Less
  <2>1. QED  BY <1>1, WFMin
<1>3. ASSUME NEW m \in T  PROVE n <= m
  <2>1. m \in Nat /\ n \in Nat /\ <<m, n>> \in Nat \X Nat /\ <<m, n>>[1] = m /\ <<m, n>>[2] = n
    OBVIOUS
  <2>2. ~ (m < n)
    BY <1>2, <2>1
  <2>3. QED  BY <2>1, <2>2
<1>4. QED  BY <1>3
-----------------------------------------------------------------------------
LEMMA CruiseFacts ==
  /\ Nodes \in Seq(Nat \ {0}) /\ Len(Nodes) \in Nat /\ Len(Nodes) >= 1
  /\ \A i, j \in DOMAIN Nodes : i < j => Nodes[i] < Nodes[j]
  /\ Rows \subseteq [limit : Nat \cup {-1}, increase : Nat, decrease : Nat]
  /\ CruisePeriod \in Nat \ {0} /\ Deadband \in Nat \ {0} /\ Threshold \in Nat \ {0}
  /\ Forward \in {-1, 1}
  /\ Rates \subseteq Int /\ TargetSpeed \in Nat \ {0}
  /\ Gain \in Nat \ {0} /\ IntegralLimit \in Nat /\ OutputLimit \in Nat
  /\ Filtered \in BOOLEAN
BY RunAssumptions DEF Cruise!SessionAssumption, Cruise!ConditionerAssumption

DriveRow == [limit : Nat, increase : Nat, decrease : Nat]
Tables == [Cruise!Sides -> [DOMAIN Nodes -> Rows]]

LEMMA InterpolatedIsNatural ==
  ASSUME NEW low \in Nat, NEW high \in Nat, NEW x \in Int, NEW left \in Int, NEW right \in Int,
         left <= x, x <= right, left < right \/ low = high
  PROVE  Cruise!Interpolate(low, high, x, left, right) \in Nat
<1>1. CASE low = high
  BY <1>1 DEF Cruise!Interpolate
<1>2. CASE low # high
  <2>1. right - x \in Nat /\ x - left \in Nat /\ right - left \in Nat /\ right - left > 0
    BY <1>2
  <2>2. (right - x) * low + (x - left) * high \in Nat
    BY <2>1, SMT
  <2>3. ((right - x) * low + (x - left) * high) \div (right - left) \in Nat
    BY <2>1, <2>2, QuotientIsMost
  <2> QED
    BY <1>2, <2>3 DEF Cruise!Interpolate
<1> QED
  BY <1>1, <1>2

\* A table has a row of natural numbers for every speed.
LEMMA RowIsADriveRow ==
  ASSUME table \in Tables, NEW side \in Cruise!Sides, NEW v \in Nat
  PROVE  Cruise!DirectionRow(side, v) \in DriveRow
<1> DEFINE n == Len(Nodes)
           x == IF v < Nodes[1] THEN Nodes[1] ELSE Cruise!Least(v, Nodes[n])
           Above == {i \in 1..n : Nodes[i] >= x}
           high == CHOOSE i \in 1..n : Nodes[i] >= x /\ \A j \in 1..(i - 1) : Nodes[j] < x
           low == IF x = Nodes[high] THEN high ELSE high - 1
           At(i) == table[side][i]
           Limit(i) == IF At(i).limit = -1 THEN 0 ELSE At(i).limit
<1>1. /\ n \in Nat /\ n >= 1 /\ DOMAIN Nodes = 1..n
      /\ \A i \in 1..n : Nodes[i] \in Nat
      /\ \A i, j \in 1..n : i < j => Nodes[i] < Nodes[j]
  BY CruiseFacts
<1>2. x \in Nat /\ Nodes[1] <= x /\ x <= Nodes[n]
  <2>1. Nodes[1] \in Nat /\ Nodes[n] \in Nat /\ Nodes[1] <= Nodes[n]
    BY <1>1
  <2> QED
    BY <2>1 DEF Cruise!Least
<1>3. high \in 1..n /\ Nodes[high] >= x /\ \A j \in 1..(high - 1) : Nodes[j] < x
  <2>1. Above \subseteq Nat /\ Above # {}
    BY <1>1, <1>2
  <2>2. PICK i \in Above : \A j \in Above : i <= j
    BY <2>1, Least
  <2>3. i \in 1..n /\ Nodes[i] >= x /\ \A j \in 1..(i - 1) : Nodes[j] < x
    BY <2>2, <1>1, <1>2
  <2> QED
    BY <2>3
<1> HIDE DEF x, high
<1>4. /\ low \in 1..n /\ Nodes[low] \in Nat /\ Nodes[high] \in Nat
      /\ Nodes[low] <= x /\ x <= Nodes[high]
      /\ Nodes[low] < Nodes[high] \/ low = high
  BY <1>1, <1>2, <1>3
<1>5. /\ \A i \in 1..n : Limit(i) \in Nat /\ At(i).increase \in Nat /\ At(i).decrease \in Nat
  <2> SUFFICES ASSUME NEW i \in 1..n
               PROVE  Limit(i) \in Nat /\ At(i).increase \in Nat /\ At(i).decrease \in Nat
    OBVIOUS
  <2>1. At(i) \in [limit : Nat \cup {-1}, increase : Nat, decrease : Nat]
    BY <1>1, CruiseFacts DEF Tables
  <2> QED
    BY <2>1
<1> DEFINE Between(a, c) == Cruise!Interpolate(a, c, x, Nodes[low], Nodes[high])
<1>6. \A a, c \in Nat : (low = high => a = c) => Between(a, c) \in Nat
  <2> SUFFICES ASSUME NEW a \in Nat, NEW c \in Nat, low = high => a = c
               PROVE  Between(a, c) \in Nat
    OBVIOUS
  <2>1. /\ x \in Int /\ Nodes[low] \in Int /\ Nodes[high] \in Int
        /\ Nodes[low] <= x /\ x <= Nodes[high]
        /\ Nodes[low] < Nodes[high] \/ a = c
    BY <1>2, <1>4
  <2> QED
    BY <2>1, InterpolatedIsNatural
<1>7. /\ Between(Limit(low), Limit(high)) \in Nat
      /\ Between(At(low).increase, At(high).increase) \in Nat
      /\ Between(At(low).decrease, At(high).decrease) \in Nat
  <2>1. high \in 1..n /\ low \in 1..n
    BY <1>3, <1>4
  <2> HIDE DEF low, At
  <2> QED
    BY <2>1, <1>5, <1>6
<1>8. Cruise!DirectionRow(side, v) =
        [limit |-> Between(Limit(low), Limit(high)),
         increase |-> Between(At(low).increase, At(high).increase),
         decrease |-> Between(At(low).decrease, At(high).decrease)]
  BY Zenon DEF Cruise!DirectionRow, x, high
<1> QED
  BY <1>7, <1>8 DEF DriveRow
LEMMA SignFacts ==
  ASSUME NEW x \in Int
  PROVE  /\ Cruise!Magnitude(x) \in Nat /\ Cruise!SignCode(x) \in {-1, 0, 1}
         /\ Cruise!Magnitude(x) = 0 <=> x = 0
         /\ Cruise!SignCode(x) = 0 <=> x = 0
         /\ Cruise!SignCode(x) = 1 => x = Cruise!Magnitude(x)
         /\ Cruise!SignCode(x) = -1 => x = -Cruise!Magnitude(x)
BY DEF Cruise!Magnitude, Cruise!SignCode

\* The rates at which a drive falls from a torque and rises to one.
Down(x, v) == Cruise!DirectionRow(Cruise!Side(Cruise!SignCode(x)), v).decrease
Up(x, v) == Cruise!DirectionRow(Cruise!Side(Cruise!SignCode(x)), v).increase

LEMMA RatesAreNatural ==
  ASSUME table \in Tables, NEW x, NEW v \in Nat
  PROVE  Down(x, v) \in Nat /\ Up(x, v) \in Nat
<1>1. Cruise!Side(Cruise!SignCode(x)) \in Cruise!Sides
  BY DEF Cruise!Side, Cruise!Sides
<1> QED
  BY <1>1, RowIsADriveRow DEF Down, Up, DriveRow

\* What a drive reaches, by where it comes from and where it goes.
LEMMA Reaching ==
  ASSUME table \in Tables, NEW y \in Int, NEW x \in Int, NEW v \in Nat,
         NEW down, down = Down(y, v), NEW up, up = Up(x, v)
  PROVE  LET old == Cruise!Magnitude(y)
             new == Cruise!Magnitude(x)
             one == Cruise!SignCode(y) = Cruise!SignCode(x)
         IN  /\ one /\ new <= old =>
                  (Cruise!Reaches(y, x, v) <=> old - new <= CruisePeriod * down)
             /\ one /\ old <= new =>
                  (Cruise!Reaches(y, x, v) <=> new - old <= CruisePeriod * up)
             /\ y = 0 => (Cruise!Reaches(y, x, v) <=> new <= CruisePeriod * up)
             /\ x = 0 => (Cruise!Reaches(y, x, v) <=> old <= CruisePeriod * down)
             /\ ~one /\ y # 0 /\ x # 0 =>
                  (Cruise!Reaches(y, x, v) <=>
                     /\ old <= CruisePeriod * down /\ new <= CruisePeriod * up
                     /\ old * up + new * down <= CruisePeriod * up * down)
<1> DEFINE old == Cruise!Magnitude(y)
           new == Cruise!Magnitude(x)
           one == Cruise!SignCode(y) = Cruise!SignCode(x)
           fallen == CruisePeriod * down
           risen == CruisePeriod * up
           both == CruisePeriod * up * down
           Within(fall, rise) ==
             /\ fall > 0 => down > 0 /\ fall <= fallen
             /\ rise > 0 => up > 0 /\ rise <= risen
             /\ fall > 0 /\ rise > 0 => fall * up + rise * down <= both
           kept == IF one THEN Cruise!Least(old, new) ELSE 0
<1>1. down \in Nat /\ up \in Nat /\ CruisePeriod \in Nat
  BY RatesAreNatural, CruiseFacts
<1>2. /\ fallen \in Nat /\ risen \in Nat
      /\ down = 0 => fallen = 0
      /\ up = 0 => risen = 0
  BY <1>1, SMT
<1>3. /\ old \in Nat /\ new \in Nat /\ (old = 0 <=> y = 0) /\ (new = 0 <=> x = 0)
      /\ one /\ y = 0 => x = 0
      /\ one /\ x = 0 => y = 0
  BY SignFacts
<1>4. Cruise!Reaches(y, x, v) <=> Within(old - kept, new - kept)
  BY Zenon DEF Cruise!Reaches, Down, Up
<1>5. \A fall \in Nat : Within(fall, 0) <=> fall <= fallen
  BY <1>1, <1>2
<1>6. \A rise \in Nat : Within(0, rise) <=> rise <= risen
  BY <1>1, <1>2
<1>7. one /\ new <= old => kept = new
  BY <1>3 DEF Cruise!Least
<1>8. one /\ old <= new => kept = old
  BY <1>3 DEF Cruise!Least
<1>9. ~one => kept = 0
  OBVIOUS
<1> HIDE DEF fallen, risen, old, new, one, kept
<1>10. ~one /\ old # 0 /\ new # 0 =>
         (Within(old, new) <=> old <= fallen /\ new <= risen /\ old * up + new * down <= both)
  BY <1>1, <1>2, <1>3
<1> HIDE DEF Within
<1>11. one /\ new <= old => (Within(old - kept, new - kept) <=> old - new <= fallen)
  <2> HAVE one /\ new <= old
  <2>1. old - kept \in Nat /\ new - kept = 0 /\ old - kept = old - new
    BY <1>7, <1>3
  <2> QED
    BY <2>1, <1>5
<1>12. one /\ old <= new => (Within(old - kept, new - kept) <=> new - old <= risen)
  <2> HAVE one /\ old <= new
  <2>1. new - kept \in Nat /\ old - kept = 0 /\ new - kept = new - old
    BY <1>8, <1>3
  <2> QED
    BY <2>1, <1>6
<1>13. y = 0 => (Within(old - kept, new - kept) <=> new <= risen)
  <2> HAVE y = 0
  <2>1. old = 0 /\ kept = 0
    BY <1>3, <1>8, <1>9
  <2>2. old - kept = 0 /\ new - kept = new
    BY <2>1, <1>3
  <2> QED
    BY <2>2, <1>6, <1>3
<1>14. x = 0 => (Within(old - kept, new - kept) <=> old <= fallen)
  <2> HAVE x = 0
  <2>1. new = 0 /\ kept = 0
    BY <1>3, <1>7, <1>9
  <2>2. new - kept = 0 /\ old - kept = old
    BY <2>1, <1>3
  <2> QED
    BY <2>2, <1>5, <1>3
<1>15. ~one => old - kept = old /\ new - kept = new
  BY <1>3, <1>9
<1> QED
  BY <1>3, <1>4, <1>10, <1>11, <1>12, <1>13, <1>14, <1>15, Zenon DEF old, new, one, fallen, risen
LEMMA SignedFacts ==
  ASSUME NEW s \in {-1, 1}, NEW k \in Nat
  PROVE  /\ s * k \in Int /\ Cruise!Magnitude(s * k) = k
         /\ k > 0 => Cruise!SignCode(s * k) = s
         /\ k = 0 => s * k = 0
BY DEF Cruise!Magnitude, Cruise!SignCode

\* What lies between two torques, by their signs.
LEMMA BetweenTorques ==
  ASSUME NEW y \in Int, NEW x \in Int, NEW z \in Int
  PROVE  LET from == Cruise!Magnitude(y)
             at == Cruise!Magnitude(x)
             to == Cruise!Magnitude(z)
         IN  /\ y = 0 => (Cruise!Between(y, x, z) <=>
                            x = 0 \/ (Cruise!SignCode(x) = Cruise!SignCode(z) /\ at <= to))
             /\ z = 0 => (Cruise!Between(y, x, z) <=>
                            x = 0 \/ (Cruise!SignCode(x) = Cruise!SignCode(y) /\ at <= from))
             /\ y # 0 /\ Cruise!SignCode(y) = Cruise!SignCode(z) =>
                  (Cruise!Between(y, x, z) <=>
                     /\ Cruise!SignCode(x) = Cruise!SignCode(y)
                     /\ (from <= at /\ at <= to) \/ (to <= at /\ at <= from))
             /\ y # 0 /\ z # 0 /\ Cruise!SignCode(y) # Cruise!SignCode(z) =>
                  (Cruise!Between(y, x, z) <=>
                     \/ x = 0
                     \/ (Cruise!SignCode(x) = Cruise!SignCode(y) /\ at <= from)
                     \/ (Cruise!SignCode(x) = Cruise!SignCode(z) /\ at <= to))
<1> DEFINE from == Cruise!Magnitude(y)
           at == Cruise!Magnitude(x)
           to == Cruise!Magnitude(z)
<1>1. y = 0 => (Cruise!Between(y, x, z) <=>
                  x = 0 \/ (Cruise!SignCode(x) = Cruise!SignCode(z) /\ at <= to))
  BY DEF Cruise!Between, Cruise!Magnitude, Cruise!SignCode
<1>2. z = 0 => (Cruise!Between(y, x, z) <=>
                  x = 0 \/ (Cruise!SignCode(x) = Cruise!SignCode(y) /\ at <= from))
  BY DEF Cruise!Between, Cruise!Magnitude, Cruise!SignCode
<1>3. y # 0 /\ Cruise!SignCode(y) = Cruise!SignCode(z) =>
        (Cruise!Between(y, x, z) <=>
           /\ Cruise!SignCode(x) = Cruise!SignCode(y)
           /\ (from <= at /\ at <= to) \/ (to <= at /\ at <= from))
  BY DEF Cruise!Between, Cruise!Magnitude, Cruise!SignCode
<1>4. y # 0 /\ z # 0 /\ Cruise!SignCode(y) # Cruise!SignCode(z) =>
        (Cruise!Between(y, x, z) <=>
           \/ x = 0
           \/ (Cruise!SignCode(x) = Cruise!SignCode(y) /\ at <= from)
           \/ (Cruise!SignCode(x) = Cruise!SignCode(z) /\ at <= to))
  BY DEF Cruise!Between, Cruise!Magnitude, Cruise!SignCode
<1> QED
  BY <1>1, <1>2, <1>3, <1>4

\* A torque is as far from one towards another as the rates allow within a period.
GoesAsFar(y, m, z, v) ==
  /\ m \in Int /\ Cruise!Between(y, m, z) /\ Cruise!Reaches(y, m, v)
  /\ \A x \in Int : Cruise!Between(y, x, z) /\ Cruise!Reaches(y, x, v) => Cruise!Between(y, x, m)

LEMMA OneSide ==
  ASSUME NEW x, NEW y, NEW v, Cruise!SignCode(x) = Cruise!SignCode(y)
  PROVE  Up(x, v) = Up(y, v)
BY DEF Up

LEMMA StaysWhereItIs ==
  ASSUME table \in Tables, NEW y \in Int, NEW v \in Nat
  PROVE  Cruise!Between(y, y, y) /\ Cruise!Reaches(y, y, v)
<1>1. Down(y, v) \in Nat /\ CruisePeriod \in Nat /\ Cruise!Magnitude(y) \in Nat
  BY RatesAreNatural, CruiseFacts, SignFacts
<1>2. CruisePeriod * Down(y, v) \in Nat
  BY <1>1, SMT
<1>3. Cruise!Magnitude(y) - Cruise!Magnitude(y) <= CruisePeriod * Down(y, v)
  BY <1>1, <1>2
<1>4. Cruise!Reaches(y, y, v)
  BY <1>1, <1>3, Reaching
<1> QED
  BY <1>4 DEF Cruise!Between

LEMMA StartsFromNothing ==
  ASSUME table \in Tables, NEW z \in Int, NEW v \in Nat, z # 0,
         NEW k, k = Cruise!Least(Cruise!Magnitude(z), Up(z, v) * CruisePeriod)
  PROVE  GoesAsFar(0, Cruise!SignCode(z) * k, z, v)
<1> DEFINE s == Cruise!SignCode(z)
           new == Cruise!Magnitude(z)
           up == Up(z, v)
           m == s * k
<1>1. up \in Nat /\ CruisePeriod \in Nat /\ new \in Nat /\ s \in {-1, 1} /\ new > 0
  <2>1. new \in Nat /\ s \in {-1, 0, 1} /\ s # 0 /\ new # 0
    BY SignFacts
  <2>2. up \in Nat /\ CruisePeriod \in Nat
    BY RatesAreNatural, CruiseFacts
  <2> HIDE DEF s, new, up
  <2> QED
    BY <2>1, <2>2
<1>2. up * CruisePeriod \in Nat /\ up * CruisePeriod = CruisePeriod * up
  BY <1>1, SMT
<1>3. k \in Nat /\ k <= new /\ k <= CruisePeriod * up /\ (k = new \/ k = CruisePeriod * up)
  BY <1>1, <1>2 DEF Cruise!Least
<1>4. /\ m \in Int /\ Cruise!Magnitude(m) = k
      /\ (k > 0 => Cruise!SignCode(m) = s) /\ (k = 0 => m = 0)
  BY <1>1, <1>3, SignedFacts
<1> HIDE DEF s, new, up, m
<1>5. Cruise!Between(0, m, z)
  BY <1>3, <1>4, BetweenTorques DEF s, new
<1>6. Cruise!Reaches(0, m, v)
  <2>1. CASE k = 0
    BY <2>1, <1>4, StaysWhereItIs
  <2>2. CASE k > 0
    <3>1. Up(m, v) = up
      BY <2>2, <1>4, OneSide DEF s, up
    <3> QED
      BY <3>1, <1>3, <1>4, Reaching
  <2> QED
    BY <2>1, <2>2, <1>3
<1>7. ASSUME NEW x \in Int, Cruise!Between(0, x, z), Cruise!Reaches(0, x, v)
      PROVE  Cruise!Between(0, x, m)
  <2>1. x = 0 \/ (Cruise!SignCode(x) = s /\ Cruise!Magnitude(x) <= new)
    BY <1>7, BetweenTorques DEF s, new
  <2>2. CASE x # 0
    <3>1. Up(x, v) = up
      BY <2>1, <2>2, OneSide DEF s, up
    <3>2. Cruise!Magnitude(x) <= CruisePeriod * up
      BY <3>1, <1>7, Reaching
    <3>3. Cruise!Magnitude(x) \in Nat /\ Cruise!Magnitude(x) # 0
      BY <2>2, SignFacts
    <3>4. Cruise!Magnitude(x) <= k /\ k > 0
      BY <3>2, <3>3, <2>1, <2>2, <1>3
    <3> QED
      BY <3>4, <2>1, <2>2, <1>4, BetweenTorques
  <2>3. CASE x = 0
    BY <2>3, <1>4 DEF Cruise!Between
  <2> QED
    BY <2>2, <2>3
<1> QED
  BY <1>4, <1>5, <1>6, <1>7 DEF GoesAsFar, m, s

\* Towards nothing, and as far as there towards the other side while the old one is
\* not used up.
LEMMA FallsAsFar ==
  ASSUME table \in Tables, NEW y \in Int, NEW z \in Int, NEW v \in Nat, y # 0,
         Cruise!SignCode(z) # Cruise!SignCode(y),
         z = 0 \/ (Down(y, v) > 0 /\ Cruise!Magnitude(y) >= Down(y, v) * CruisePeriod)
  PROVE  GoesAsFar(y, Cruise!SignCode(y) * Cruise!Falls(Cruise!Magnitude(y), Down(y, v)), z, v)
<1> DEFINE s == Cruise!SignCode(y)
           old == Cruise!Magnitude(y)
           down == Down(y, v)
           fallen == CruisePeriod * down
           k == Cruise!Falls(old, down)
           m == s * k
<1>1. down \in Nat /\ CruisePeriod \in Nat /\ old \in Nat /\ s \in {-1, 1} /\ old > 0
  <2>1. old \in Nat /\ s \in {-1, 0, 1} /\ s # 0 /\ old # 0
    BY SignFacts
  <2>2. down \in Nat /\ CruisePeriod \in Nat
    BY RatesAreNatural, CruiseFacts
  <2> HIDE DEF s, old, down
  <2> QED
    BY <2>1, <2>2
<1>2. fallen \in Nat /\ fallen = down * CruisePeriod
  BY <1>1, SMT
<1>9. z # 0 => down > 0 /\ old >= fallen
  BY <1>2
<1> HIDE DEF s, old, down, fallen
<1>3. k = IF old <= fallen THEN 0 ELSE old - fallen
  BY <1>2 DEF Cruise!Falls
<1> HIDE DEF k
<1>4. k \in Nat /\ k <= old
  BY <1>1, <1>2, <1>3
<1>5. /\ m \in Int /\ Cruise!Magnitude(m) = k
      /\ (k > 0 => Cruise!SignCode(m) = s) /\ (k = 0 => m = 0)
  BY <1>1, <1>4, SignedFacts
<1> HIDE DEF m
<1>6. Cruise!Between(y, m, z)
  BY <1>1, <1>4, <1>5, BetweenTorques DEF s, old
<1>7. Cruise!Reaches(y, m, v)
  <2>1. CASE k = 0
    <3>1. old <= CruisePeriod * down
      BY <2>1, <1>1, <1>2, <1>3 DEF fallen
    <3> QED
      BY <2>1, <3>1, <1>5, Reaching DEF old, down
  <2>2. CASE k > 0
    <3>1. old - k <= CruisePeriod * down
      BY <2>2, <1>1, <1>2, <1>3 DEF fallen
    <3> QED
      BY <2>2, <3>1, <1>4, <1>5, Reaching DEF s, old, down
  <2> QED
    BY <2>1, <2>2, <1>4
<1>8. ASSUME NEW x \in Int, Cruise!Between(y, x, z), Cruise!Reaches(y, x, v)
      PROVE  Cruise!Between(y, x, m)
  <2> DEFINE there == Cruise!Magnitude(x)
  <2>1. there \in Nat /\ (there = 0 <=> x = 0)
    BY SignFacts
  <2>2. \/ x = 0 \/ (Cruise!SignCode(x) = s /\ there <= old)
        \/ (z # 0 /\ x # 0 /\ Cruise!SignCode(x) # s)
    <3>1. CASE z = 0
      BY <3>1, <1>8, BetweenTorques DEF s, old
    <3>2. CASE z # 0
      <4>1. \/ x = 0 \/ (Cruise!SignCode(x) = Cruise!SignCode(y) /\ there <= Cruise!Magnitude(y))
            \/ Cruise!SignCode(x) = Cruise!SignCode(z)
        <5> HIDE DEF there
        <5> QED
          BY <3>2, <1>8, BetweenTorques DEF there
      <4> QED
        BY <4>1, <3>2 DEF s, old
    <3> QED
      BY <3>1, <3>2
  <2>3. CASE x = 0
    <3>1. old <= fallen
      BY <2>3, <1>8, Reaching DEF old, down, fallen
    <3>2. k = 0 /\ m = 0
      BY <3>1, <1>3, <1>5
    <3> QED
      BY <2>3, <3>2 DEF Cruise!Between
  <2>4. CASE Cruise!SignCode(x) = s /\ there <= old
    <3>1. old - there <= fallen
      BY <2>4, <1>8, Reaching DEF old, down, fallen, s
    <3>2. k <= there
      BY <3>1, <1>1, <1>2, <1>3, <2>1
    <3>3. CASE k = 0
      BY <3>3, <2>4, <1>5, BetweenTorques DEF s, old
    <3>4. CASE k > 0
      BY <3>4, <3>2, <2>4, <1>1, <1>5, BetweenTorques DEF s, old
    <3> QED
      BY <3>3, <3>4, <1>4
  <2>5. CASE z # 0 /\ x # 0 /\ Cruise!SignCode(x) # s
    <3> DEFINE up == Up(x, v)
    <3>1. up \in Nat /\ there > 0
      BY <2>1, <2>5, RatesAreNatural
    <3>2. old <= fallen /\ old * up + there * down <= CruisePeriod * up * down
      BY <2>5, <1>8, Reaching DEF old, down, fallen, s
    <3>3. old = fallen /\ down > 0
      BY <3>2, <2>5, <1>1, <1>2, <1>9
    <3> HIDE DEF there, up
    <3>4. old * up = CruisePeriod * up * down
      BY <3>3, <3>1, <1>1, SMT DEF fallen
    <3>5. there * down > 0
      BY <3>1, <3>3, <1>1, <2>1, SMT
    <3>6. old * up \in Nat /\ there * down \in Nat
      BY <1>1, <3>1, <2>1, SMT
    <3> QED
      BY <3>2, <3>4, <3>5, <3>6
  <2> QED
    BY <2>2, <2>3, <2>4, <2>5
<1> QED
  BY <1>5, <1>6, <1>7, <1>8 DEF GoesAsFar, m, k, s, old, down
\* What is between two torques of one side, and reached.
LEMMA GoesOnItsSide ==
  ASSUME table \in Tables, NEW y \in Int, NEW z \in Int, NEW v \in Nat,
         Cruise!SignCode(y) = Cruise!SignCode(z), y # 0,
         NEW k,
         k = IF Cruise!Magnitude(z) >= Cruise!Magnitude(y)
             THEN Cruise!Least(Cruise!Magnitude(z),
                               Cruise!Magnitude(y) + Up(z, v) * CruisePeriod)
             ELSE IF Cruise!Magnitude(y) - Cruise!Magnitude(z) <= Down(y, v) * CruisePeriod
                  THEN Cruise!Magnitude(z)
                  ELSE Cruise!Magnitude(y) - Down(y, v) * CruisePeriod
  PROVE  GoesAsFar(y, Cruise!SignCode(z) * k, z, v)
<1> DEFINE s == Cruise!SignCode(z)
           old == Cruise!Magnitude(y)
           new == Cruise!Magnitude(z)
           down == Down(y, v)
           up == Up(z, v)
           fallen == CruisePeriod * down
           risen == CruisePeriod * up
           m == s * k
           Reached(there) ==
             IF new >= old THEN there - old <= risen ELSE old - there <= fallen
           Amid(there) == (old <= there /\ there <= new) \/ (new <= there /\ there <= old)
<1>1. /\ down \in Nat /\ up \in Nat /\ CruisePeriod \in Nat
      /\ old \in Nat /\ new \in Nat /\ s \in {-1, 1} /\ old > 0 /\ new > 0
  <2>1. old \in Nat /\ new \in Nat /\ s \in {-1, 0, 1} /\ s # 0 /\ old # 0 /\ z # 0 /\ new # 0
    BY SignFacts
  <2>2. down \in Nat /\ up \in Nat /\ CruisePeriod \in Nat
    BY RatesAreNatural, CruiseFacts
  <2> HIDE DEF s, old, new, down, up
  <2> QED
    BY <2>1, <2>2
<1>2. fallen \in Nat /\ fallen = down * CruisePeriod /\ risen \in Nat /\ risen = up * CruisePeriod
  BY <1>1, SMT
<1>3. k = IF new >= old THEN Cruise!Least(new, old + risen)
          ELSE IF old - new <= fallen THEN new ELSE old - fallen
  BY <1>2
<1>4. Cruise!SignCode(y) = s
  OBVIOUS
<1>5. \A x \in Int :
        Cruise!Between(y, x, z) <=> Cruise!SignCode(x) = s /\ Amid(Cruise!Magnitude(x))
  BY BetweenTorques
<1>6. \A x \in Int : Cruise!SignCode(x) = s /\ Amid(Cruise!Magnitude(x)) =>
        (Cruise!Reaches(y, x, v) <=> Reached(Cruise!Magnitude(x)))
  <2> SUFFICES ASSUME NEW x \in Int, Cruise!SignCode(x) = s, Amid(Cruise!Magnitude(x))
               PROVE  Cruise!Reaches(y, x, v) <=> Reached(Cruise!Magnitude(x))
    OBVIOUS
  <2> DEFINE there == Cruise!Magnitude(x)
  <2>1. Up(x, v) = up
    BY OneSide
  <2>2. there \in Nat
    BY SignFacts
  <2>3. there <= old => (Cruise!Reaches(y, x, v) <=> old - there <= fallen)
    BY <1>4, Reaching
  <2>4. old <= there => (Cruise!Reaches(y, x, v) <=> there - old <= risen)
    BY <1>4, <2>1, Reaching
  <2> HIDE DEF there, old, new, fallen, risen
  <2>5. Amid(there) <=> (old <= there /\ there <= new) \/ (new <= there /\ there <= old)
    BY Zenon DEF there
  <2>6. (Reached(there) <=> Reached(Cruise!Magnitude(x))) /\ Amid(there)
    BY Zenon DEF there
  <2>7. CASE new >= old
    <3>1. old <= there
      BY <2>2, <2>5, <2>6, <2>7, <1>1
    <3> QED
      BY <3>1, <2>4, <2>6, <2>7
  <2>8. CASE ~ (new >= old)
    <3>1. there <= old
      BY <2>2, <2>5, <2>6, <2>8, <1>1
    <3> QED
      BY <3>1, <2>3, <2>6, <2>8
  <2> QED
    BY <2>7, <2>8
<1> HIDE DEF s, old, new, down, up, fallen, risen
<1>7. k \in Nat /\ k > 0 /\ Amid(k) /\ Reached(k)
  BY <1>1, <1>2, <1>3 DEF Cruise!Least
<1>8. \A there \in Nat : Amid(there) /\ Reached(there) =>
        (old <= there /\ there <= k) \/ (k <= there /\ there <= old)
  BY <1>1, <1>2, <1>3 DEF Cruise!Least
<1>9. m \in Int /\ Cruise!Magnitude(m) = k /\ Cruise!SignCode(m) = s
  BY <1>1, <1>7, SignedFacts
<1> HIDE DEF m, Amid, Reached
<1>10. Cruise!Between(y, m, z) /\ Cruise!Reaches(y, m, v)
  BY <1>5, <1>6, <1>7, <1>9
<1>11. ASSUME NEW x \in Int, Cruise!Between(y, x, z), Cruise!Reaches(y, x, v)
       PROVE  Cruise!Between(y, x, m)
  <2>1. Cruise!SignCode(x) = s /\ Amid(Cruise!Magnitude(x)) /\ Reached(Cruise!Magnitude(x))
    BY <1>5, <1>6, <1>11
  <2>2. Cruise!Magnitude(x) \in Nat
    BY SignFacts
  <2>3. \/ (old <= Cruise!Magnitude(x) /\ Cruise!Magnitude(x) <= k)
        \/ (k <= Cruise!Magnitude(x) /\ Cruise!Magnitude(x) <= old)
    BY <2>1, <2>2, <1>8
  <2> QED
    BY <2>1, <2>3, <1>4, <1>9, BetweenTorques DEF old
<1> QED
  BY <1>9, <1>10, <1>11 DEF GoesAsFar, m, s

\* From a side that cannot be left.
LEMMA StaysOnItsSide ==
  ASSUME table \in Tables, NEW y \in Int, NEW z \in Int, NEW v \in Nat, y # 0, z # 0,
         Cruise!SignCode(z) # Cruise!SignCode(y), Down(y, v) = 0
  PROVE  GoesAsFar(y, y, z, v)
<1>1. CruisePeriod * Down(y, v) = 0
  BY CruiseFacts, SMT
<1>2. Cruise!Magnitude(y) \in Nat /\ Cruise!Magnitude(y) # 0
  BY SignFacts
<1>3. Cruise!Between(y, y, z)
  BY <1>2, BetweenTorques
<1>4. ASSUME NEW x \in Int, Cruise!Between(y, x, z), Cruise!Reaches(y, x, v)
      PROVE  x = y
  <2>1. \/ x = 0
        \/ (Cruise!SignCode(x) = Cruise!SignCode(y) /\ Cruise!Magnitude(x) <= Cruise!Magnitude(y))
        \/ Cruise!SignCode(x) = Cruise!SignCode(z)
    BY <1>4, BetweenTorques
  <2>2. x # 0
    BY <1>1, <1>2, <1>4, Reaching
  <2>3. Cruise!SignCode(x) # Cruise!SignCode(z)
    BY <1>1, <1>2, <1>4, <2>2, Reaching
  <2>4. Cruise!SignCode(x) = Cruise!SignCode(y) /\ Cruise!Magnitude(x) <= Cruise!Magnitude(y)
    BY <2>1, <2>2, <2>3
  <2>5. Cruise!Magnitude(y) - Cruise!Magnitude(x) <= 0
    BY <1>1, <1>4, <2>4, Reaching
  <2> QED
    BY <2>4, <2>5 DEF Cruise!Magnitude, Cruise!SignCode
<1>5. Cruise!Reaches(y, y, v)
  BY StaysWhereItIs
<1> QED
  BY <1>3, <1>4, <1>5, StaysWhereItIs DEF GoesAsFar

\* Through nothing to the other side.
LEMMA CrossesAsFar ==
  ASSUME table \in Tables, NEW y \in Int, NEW z \in Int, NEW v \in Nat, y # 0, z # 0,
         Cruise!SignCode(z) # Cruise!SignCode(y), Down(y, v) # 0,
         ~ (Cruise!Magnitude(y) >= Down(y, v) * CruisePeriod),
         NEW k,
         k = Cruise!Least(Cruise!Magnitude(z),
                          Cruise!RestOfPeriod(Cruise!Magnitude(y), Down(y, v), Up(z, v)))
  PROVE  GoesAsFar(y, Cruise!SignCode(z) * k, z, v)
<1> DEFINE s == Cruise!SignCode(z)
           old == Cruise!Magnitude(y)
           new == Cruise!Magnitude(z)
           down == Down(y, v)
           up == Up(z, v)
           fallen == CruisePeriod * down
           risen == CruisePeriod * up
           left == up * (fallen - old)
           m == s * k
<1>1. /\ down \in Nat /\ up \in Nat /\ CruisePeriod \in Nat /\ down > 0
      /\ old \in Nat /\ new \in Nat /\ s \in {-1, 1} /\ old > 0 /\ new > 0
  <2>1. old \in Nat /\ new \in Nat /\ s \in {-1, 0, 1} /\ s # 0 /\ old # 0 /\ new # 0
    BY SignFacts
  <2>2. down \in Nat /\ up \in Nat /\ CruisePeriod \in Nat /\ down # 0
    BY RatesAreNatural, CruiseFacts
  <2> HIDE DEF s, old, new, down, up
  <2> QED
    BY <2>1, <2>2
<1>2. fallen \in Nat /\ fallen = down * CruisePeriod /\ risen \in Nat
  BY <1>1, SMT
<1>3. old < fallen
  BY <1>1, <1>2
<1>4. k = Cruise!Least(new, left \div down)
  BY <1>2, Zenon DEF Cruise!RestOfPeriod
<1> HIDE DEF s, old, new, down, up
<1>5. left \in Nat /\ left = up * fallen - old * up /\ up * fallen = CruisePeriod * up * down
      /\ old * up \in Nat /\ up * fallen = down * risen
  <2>1. fallen - old \in Nat
    BY <1>1, <1>2, <1>3
  <2> QED
    BY <2>1, <1>1, SMT
<1>6. \A there \in Nat :
        old * up + there * down <= CruisePeriod * up * down <=> there <= left \div down
  <2> SUFFICES ASSUME NEW there \in Nat
               PROVE  old * up + there * down <= CruisePeriod * up * down
                        <=> there <= left \div down
    OBVIOUS
  <2>1. down * there <= left <=> there <= left \div down
    BY <1>1, <1>5, QuotientIsMost
  <2>2. there * down = down * there /\ there * down \in Nat
    BY <1>1, SMT
  <2> DEFINE fallenTimes == old * up
             riseTimes == there * down
             whole == CruisePeriod * up * down
             rest == left \div down
  <2>3. /\ left = whole - fallenTimes /\ fallenTimes \in Nat /\ riseTimes \in Nat /\ left \in Nat
        /\ riseTimes <= left <=> there <= rest
    BY <2>1, <2>2, <1>5
  <2>4. whole = left + fallenTimes
    <3> HIDE DEF fallenTimes, riseTimes, rest, left
    <3>1. whole \in Nat
      BY <1>1, SMT
    <3> HIDE DEF whole
    <3> QED
      BY <2>3, <3>1
  <2> HIDE DEF fallenTimes, riseTimes, whole, rest, left
  <2>5. fallenTimes + riseTimes <= whole <=> there <= rest
    BY <2>3, <2>4
  <2> QED
    BY <2>5 DEF fallenTimes, riseTimes, whole, rest
<1>7. left \div down \in Nat
  BY <1>1, <1>5, QuotientIsMost
<1>8. left \div down <= risen
  <2>1. down * (left \div down) <= left
    BY <1>1, <1>5, <1>7, QuotientIsMost
  <2>2. down * (left \div down) <= down * risen
    <3> DEFINE gone == down * (left \div down)
               fallenTimes == old * up
               most == down * risen
    <3>1. gone \in Int /\ most \in Int
      BY <1>1, <1>2, <1>7, SMT
    <3>2. gone <= left /\ left = most - fallenTimes /\ fallenTimes \in Nat /\ left \in Nat
      BY <2>1, <1>5
    <3> HIDE DEF gone, fallenTimes, most, left
    <3>3. gone <= most
      BY <3>1, <3>2
    <3> QED
      BY <3>3 DEF gone, most
  <2> HIDE DEF left, risen
  <2> QED
    BY <2>2, <1>1, <1>2, <1>7, ProductGrows
<1> HIDE DEF left, fallen, risen
<1>9. /\ k \in Nat /\ k <= new /\ k <= left \div down /\ k <= risen
      /\ k = new \/ k = left \div down
  BY <1>1, <1>2, <1>4, <1>7, <1>8 DEF Cruise!Least
<1>10. /\ m \in Int /\ Cruise!Magnitude(m) = k
       /\ (k > 0 => Cruise!SignCode(m) = s) /\ (k = 0 => m = 0)
  BY <1>1, <1>9, SignedFacts
<1> HIDE DEF m
<1>11. Cruise!Between(y, m, z)
  <2>1. m = 0 \/ (Cruise!SignCode(m) = s /\ Cruise!Magnitude(m) <= new)
    BY <1>9, <1>10
  <2> QED
    BY <2>1, <1>10, BetweenTorques DEF s, new
<1>12. Cruise!Reaches(y, m, v)
  <2>1. CASE k = 0
    <3>1. m = 0 /\ old <= fallen
      BY <2>1, <1>1, <1>2, <1>3, <1>10
    <3> QED
      BY <3>1, Reaching DEF old, down, fallen
  <2>2. CASE k > 0
    <3>1. Cruise!SignCode(m) = s /\ Up(m, v) = up /\ m # 0
      BY <2>2, <1>1, <1>10, OneSide, SignFacts DEF s, up
    <3>2. old <= fallen /\ k <= risen /\ old * up + k * down <= CruisePeriod * up * down
      BY <1>1, <1>2, <1>3, <1>6, <1>9
    <3> QED
      BY <3>1, <3>2, <1>10, Reaching DEF s, old, down, fallen, risen
  <2> QED
    BY <2>1, <2>2, <1>9
<1>13. ASSUME NEW x \in Int, Cruise!Between(y, x, z), Cruise!Reaches(y, x, v)
       PROVE  Cruise!Between(y, x, m)
  <2> DEFINE there == Cruise!Magnitude(x)
  <2>1. there \in Nat /\ (there = 0 <=> x = 0)
    BY SignFacts
  <2>2. \/ x = 0 \/ (Cruise!SignCode(x) = Cruise!SignCode(y) /\ there <= old)
        \/ (Cruise!SignCode(x) = s /\ there <= new)
    BY <1>13, BetweenTorques DEF s, old, new
  <2>3. CASE x = 0
    <3>1. y \in Int /\ m \in Int /\ (m = 0 \/ Cruise!SignCode(m) = s)
      BY <1>9, <1>10
    <3>2. Cruise!SignCode(m) # Cruise!SignCode(y)
      BY <3>1, SignFacts DEF s
    <3> QED
      BY <2>3, <3>1, <3>2 DEF Cruise!Between, Cruise!SignCode
  <2>4. CASE x # 0 /\ Cruise!SignCode(x) = Cruise!SignCode(y)
    <3>1. there <= old
      BY <2>2, <2>4 DEF s
    <3> QED
      BY <3>1, <2>4, <1>9, <1>10, BetweenTorques DEF s, old
  <2>5. CASE x # 0 /\ Cruise!SignCode(x) = s
    <3>1. Up(x, v) = up
      BY <2>5, OneSide DEF s, up
    <3>2. old * up + there * down <= CruisePeriod * up * down
      BY <2>5, <3>1, <1>13, Reaching DEF s, old, down
    <3>3. there <= left \div down /\ there <= new /\ there > 0
      BY <3>2, <2>1, <2>2, <2>5, <1>6 DEF s
    <3>4. there <= k /\ k > 0
      BY <3>3, <1>9, <2>1
    <3> QED
      <4>1. m # 0 /\ Cruise!SignCode(m) = s /\ there <= Cruise!Magnitude(m)
        BY <3>4, <1>1, <1>10, SignFacts
      <4> QED
        BY <4>1, <2>5, <1>10, BetweenTorques DEF s
  <2> QED
    BY <2>2, <2>3, <2>4, <2>5
<1> QED
  BY <1>10, <1>11, <1>12, <1>13 DEF GoesAsFar, m, s
\* The conditioner moves a torque as far as its drive allows.
LEMMA MoveGoesAsFar ==
  ASSUME table \in Tables, NEW y \in Int, NEW z \in Int, NEW v \in Nat
  PROVE  GoesAsFar(y, Cruise!AdvanceSignedDriveSideTorque(y, z, v), z, v)
<1> DEFINE m == Cruise!AdvanceSignedDriveSideTorque(y, z, v)
           there == Cruise!SignCode(z)
           here == Cruise!SignCode(y)
           old == Cruise!Magnitude(y)
           new == Cruise!Magnitude(z)
           down == Down(y, v)
           up == Up(z, v)
<1>1. m = IF y = z THEN z
          ELSE IF here = 0 THEN there * Cruise!Least(new, up * CruisePeriod)
          ELSE IF there = 0 THEN here * Cruise!Falls(old, down)
          ELSE IF here = there /\ new >= old
            THEN there * Cruise!Least(new, old + up * CruisePeriod)
          ELSE IF here = there
            THEN there * (IF old - new <= down * CruisePeriod THEN new
                          ELSE old - down * CruisePeriod)
          ELSE IF down = 0 THEN y
          ELSE IF old >= down * CruisePeriod THEN here * Cruise!Falls(old, down)
          ELSE there * Cruise!Least(new, Cruise!RestOfPeriod(old, down, up))
  BY Zenon DEF Cruise!AdvanceSignedDriveSideTorque, Down, Up
<1>2. (here = 0 <=> y = 0) /\ (there = 0 <=> z = 0) /\ down \in Nat
  BY SignFacts, RatesAreNatural
<1> HIDE DEF m, there, here, old, new, down, up
<1>3. CASE y = z
  <2>1. \A x \in Int : Cruise!Between(y, x, y) => x = y
    BY DEF Cruise!Between
  <2> QED
    BY <2>1, <1>1, <1>3, StaysWhereItIs DEF GoesAsFar, m
<1>4. CASE y = 0 /\ z # 0
  <2>1. m = there * Cruise!Least(new, up * CruisePeriod)
    BY <1>1, <1>2, <1>4
  <2> QED
    BY <2>1, <1>4, StartsFromNothing DEF m, there, new, up
<1>5. CASE y # 0 /\ z = 0
  <2>1. m = here * Cruise!Falls(old, down)
    BY <1>1, <1>2, <1>5
  <2>2. there # here
    BY <1>2, <1>5
  <2> QED
    BY <2>1, <2>2, <1>5, FallsAsFar DEF m, here, there, old, down
<1>6. CASE y # z /\ y # 0 /\ z # 0 /\ here = there
  <2> DEFINE k == IF new >= old THEN Cruise!Least(new, old + up * CruisePeriod)
                  ELSE IF old - new <= down * CruisePeriod THEN new
                       ELSE old - down * CruisePeriod
  <2>1. m = there * k
    BY <1>1, <1>2, <1>6, Zenon
  <2>2. GoesAsFar(y, there * k, z, v)
    BY <1>6, GoesOnItsSide, Zenon DEF here, there, old, new, down, up
  <2> QED
    BY <2>1, <2>2 DEF m
<1>7. CASE y # 0 /\ z # 0 /\ here # there /\ down = 0
  <2>1. m = y
    BY <1>1, <1>2, <1>7
  <2> QED
    BY <2>1, <1>7, StaysOnItsSide DEF m, here, there, down
<1>8. CASE y # 0 /\ z # 0 /\ here # there /\ down # 0 /\ old >= down * CruisePeriod
  <2>1. m = here * Cruise!Falls(old, down)
    <3>1. y # z
      BY <1>8 DEF here, there
    <3> QED
      BY <3>1, <1>1, <1>2, <1>8, Zenon
  <2>2. down > 0
    BY <1>2, <1>8
  <2> QED
    BY <2>1, <2>2, <1>8, FallsAsFar DEF m, here, there, old, down
<1>9. CASE y # 0 /\ z # 0 /\ here # there /\ down # 0 /\ ~ (old >= down * CruisePeriod)
  <2>1. m = there * Cruise!Least(new, Cruise!RestOfPeriod(old, down, up))
    <3>1. y # z
      BY <1>9 DEF here, there
    <3> QED
      BY <3>1, <1>1, <1>2, <1>9, Zenon
  <2> QED
    BY <2>1, <1>9, CrossesAsFar DEF m, here, there, old, new, down, up
<1> QED
  BY <1>3, <1>4, <1>5, <1>6, <1>7, <1>8, <1>9 DEF m
-----------------------------------------------------------------------------
\* The sign of a product.
LEMMA SignOfProduct ==
  ASSUME NEW a \in Int, NEW b \in Int
  PROVE  /\ a * b \in Int
         /\ b # 0 => Cruise!SignCode(a * b) = Cruise!SignCode(a) * Cruise!SignCode(b)
         /\ a * b < 0 => a # 0 /\ b # 0 /\ Cruise!SignCode(a) # Cruise!SignCode(b)
<1> DEFINE p == a * b
<1>1. /\ p \in Int
      /\ a > 0 /\ b > 0 => p > 0
      /\ a > 0 /\ b < 0 => p < 0
      /\ a < 0 /\ b > 0 => p < 0
      /\ a < 0 /\ b < 0 => p > 0
      /\ a = 0 \/ b = 0 => p = 0
  <2>1. p \in Int /\ (a > 0 /\ b > 0 => p > 0) /\ (a > 0 /\ b < 0 => p < 0)
    BY SMT
  <2>2. (a < 0 /\ b > 0 => p < 0) /\ (a < 0 /\ b < 0 => p > 0)
    BY SMT
  <2>3. a = 0 \/ b = 0 => p = 0
    BY SMT
  <2> QED
    BY <2>1, <2>2, <2>3
<1> HIDE DEF p
<1>2. b # 0 => Cruise!SignCode(p) = Cruise!SignCode(a) * Cruise!SignCode(b)
  BY <1>1 DEF Cruise!SignCode
<1>3. p < 0 => a # 0 /\ b # 0 /\ Cruise!SignCode(a) # Cruise!SignCode(b)
  BY <1>1 DEF Cruise!SignCode
<1> QED
  BY <1>1, <1>2, <1>3 DEF p

LEMMA TargetIsInteger ==
  ASSUME table \in Tables, NEW request \in Int, NEW speed \in Int
  PROVE  LET to == Cruise!Target(request, speed)
             code == Cruise!DirectionCode(request, speed)
         IN  /\ to \in Int
             /\ to # 0 =>
                  /\ ~Cruise!Unsupported(speed) /\ Cruise!SignCode(to) = code
                  /\ Cruise!Magnitude(to) <= Cruise!Magnitude(request)
                  /\ Cruise!Magnitude(to)
                       <= Cruise!DirectionRow(Cruise!Side(code), Cruise!Magnitude(speed)).limit
                  /\ code = Cruise!SignCode(request) * Cruise!EffectiveWheelAngularSpeedSign(speed)
<1> DEFINE to == Cruise!Target(request, speed)
           code == Cruise!DirectionCode(request, speed)
           limit == Cruise!DirectionRow(Cruise!Side(code), Cruise!Magnitude(speed)).limit
           turning == IF Cruise!Fast(speed) THEN speed ELSE Forward
           asked == Cruise!Magnitude(request)
           k == Cruise!Least(asked, limit)
<1>1. asked \in Nat /\ Cruise!Magnitude(speed) \in Nat
  BY SignFacts
<1>2. limit \in Nat
  <2>1. Cruise!Side(code) \in Cruise!Sides
    BY DEF Cruise!Side, Cruise!Sides
  <2> QED
    BY <1>1, <2>1, RowIsADriveRow DEF DriveRow
<1>3. turning \in Int /\ turning # 0
      /\ Cruise!SignCode(turning) = Cruise!EffectiveWheelAngularSpeedSign(speed)
  <2>1. CASE Cruise!Fast(speed)
    <3>1. speed # 0
      BY <2>1, CruiseFacts DEF Cruise!Fast, Cruise!Magnitude
    <3> QED
      BY <2>1, <3>1 DEF Cruise!EffectiveWheelAngularSpeedSign
  <2>2. CASE ~Cruise!Fast(speed)
    BY <2>2, CruiseFacts DEF Cruise!EffectiveWheelAngularSpeedSign, Cruise!SignCode
  <2> QED
    BY <2>1, <2>2
<1>4. code = IF asked <= Deadband THEN 0 ELSE Cruise!SignCode(request * turning)
  BY Zenon DEF Cruise!DirectionCode
<1>5. to = IF code = 0 \/ Cruise!Unsupported(speed) THEN 0 ELSE code * k
  BY Zenon DEF Cruise!Target
<1> HIDE DEF to, limit, turning, asked, code
<1>6. code # 0 => /\ code \in {-1, 1}
                  /\ code = Cruise!SignCode(request)
                              * Cruise!EffectiveWheelAngularSpeedSign(speed)
  <2> HAVE code # 0
  <2>1. code = Cruise!SignCode(request * turning)
    BY <1>4
  <2>2. code \in {-1, 0, 1}
    BY <2>1, <1>3, SignOfProduct, SignFacts
  <2>3. Cruise!SignCode(request * turning)
          = Cruise!SignCode(request) * Cruise!SignCode(turning)
    BY <1>3, SignOfProduct
  <2>4. code = Cruise!SignCode(request) * Cruise!EffectiveWheelAngularSpeedSign(speed)
    BY <2>1, <2>3, <1>3
  <2>5. code \in {-1, 1}
    BY <2>2
  <2> QED
    BY <2>4, <2>5
<1>7. k \in Nat /\ k <= asked /\ k <= limit
  BY <1>1, <1>2 DEF Cruise!Least
<1> HIDE DEF k
<1>8. CASE to = 0
  BY <1>8 DEF to
<1>9. CASE to # 0
  <2>1. code # 0 /\ ~Cruise!Unsupported(speed) /\ to = code * k
    BY <1>5, <1>9
  <2>2. code \in {-1, 1}
    BY <2>1, <1>6
  <2>3. to \in Int /\ Cruise!Magnitude(to) = k /\ Cruise!SignCode(to) = code
    <3>1. k > 0
      BY <2>1, <2>2, <1>7, <1>9, SignedFacts
    <3> QED
      BY <3>1, <2>1, <2>2, <1>7, SignedFacts
  <2>4. Cruise!Magnitude(to) <= asked /\ Cruise!Magnitude(to) <= limit
    BY <2>3, <1>7
  <2> QED
    BY <2>1, <2>3, <2>4, <1>6, Zenon DEF to, code, asked, limit
<1> QED
  BY <1>8, <1>9

\* What an event makes of a torque y when r is asked for at a speed w: it moves it
\* towards z as far as the drive goes, to m, and raises it only as it is asked; the
\* wheel is held under h.
Raised(y, m, r, w, h) ==
  Cruise!Magnitude(m) > Cruise!Magnitude(y) \/ m * y < 0 =>
    /\ ~Cruise!Unsupported(w)
    /\ Cruise!SignCode(h) = Cruise!SignCode(r)
    /\ Cruise!Magnitude(h) <= Cruise!Magnitude(r)
    /\ Cruise!Magnitude(m)
         <= Cruise!DirectionRow(Cruise!Side(Cruise!SignCode(m)), Cruise!Magnitude(w)).limit

Ruled(y, m, z, r, w, h) == GoesAsFar(y, m, z, Cruise!Magnitude(w)) /\ Raised(y, m, r, w, h)

\* The conditioner remembers the torque that is held.
CruiseInv ==
  /\ table \in Tables /\ rate \in Int
  /\ pi.integral \in Int /\ pi.filtered \in Int
  /\ drive \in Int /\ cruise_memory = drive
  /\ \E y, m, z, r, w, h :
       /\ y = last.from /\ m = drive /\ z = last.to /\ r = last.request /\ w = last.speed
       /\ h = cruise_held
       /\ Ruled(y, m, z, r, w, h)

LEMMA RowsStay ==
  ASSUME UNCHANGED table, NEW side, NEW v
  PROVE  Cruise!DirectionRow(side, v)' = Cruise!DirectionRow(side, v)
BY DEF Cruise!DirectionRow

LEMMA ReachStays ==
  ASSUME UNCHANGED table, NEW y, NEW x, NEW v
  PROVE  Cruise!Reaches(y, x, v)' <=> Cruise!Reaches(y, x, v)
BY RowsStay, Zenon DEF Cruise!Reaches

LEMMA RulingStays ==
  ASSUME UNCHANGED table, NEW y, NEW m, NEW z, NEW r, NEW w, NEW h
  PROVE  Ruled(y, m, z, r, w, h)' <=> Ruled(y, m, z, r, w, h)
<1>1. GoesAsFar(y, m, z, Cruise!Magnitude(w))' <=> GoesAsFar(y, m, z, Cruise!Magnitude(w))
  <2>1. \A x : Cruise!Reaches(y, x, Cruise!Magnitude(w))'
                <=> Cruise!Reaches(y, x, Cruise!Magnitude(w))
    BY ReachStays
  <2> QED
    BY <2>1, Zenon DEF GoesAsFar
<1>2. Raised(y, m, r, w, h)' <=> Raised(y, m, r, w, h)
  BY RowsStay, Zenon DEF Raised
<1> QED
  BY <1>1, <1>2, Zenon DEF Ruled

LEMMA CruiseInit == Cruise!Init => CruiseInv
<1> SUFFICES ASSUME Cruise!Init PROVE CruiseInv
  OBVIOUS
<1>1. /\ table \in Tables /\ rate \in Int
      /\ pi.integral = 0 /\ pi.filtered = 0 /\ drive = 0 /\ cruise_memory = 0 /\ cruise_held = 0
      /\ last.speed = 0 /\ last.from = 0 /\ last.to = 0 /\ last.request = 0
  BY CruiseFacts DEF Cruise!Init, Tables
<1>2. Cruise!Magnitude(0) = 0
  BY DEF Cruise!Magnitude
<1>3. GoesAsFar(0, 0, 0, 0)
  BY <1>1, StaysWhereItIs DEF GoesAsFar
<1>4. Raised(0, 0, 0, 0, 0)
  BY <1>2 DEF Raised
<1> QED
  BY <1>1, <1>2, <1>3, <1>4 DEF CruiseInv, Ruled

LEMMA ClampedIsInteger ==
  ASSUME NEW x \in Int, NEW cap \in Nat
  PROVE  Cruise!ClampSymmetric(x, cap) \in Int
BY DEF Cruise!ClampSymmetric, Cruise!Magnitude, Cruise!SignCode, Cruise!Least

LEMMA ControllerIsInteger ==
  ASSUME pi.integral \in Int, pi.filtered \in Int, NEW error \in Int
  PROVE  Cruise!PiStep(error).integral \in Int /\ Cruise!PiStep(error).filtered \in Int
<1> DEFINE integral == Cruise!ClampSymmetric(pi.integral + error, IntegralLimit)
           raw == Cruise!ClampSymmetric(Gain * error + Gain * integral, OutputLimit)
           sum == pi.filtered + raw
           filtered == IF Filtered
                       THEN Cruise!SignCode(sum) * (Cruise!Magnitude(sum) \div 2) ELSE raw
<1>1. integral \in Int
  <2>1. pi.integral + error \in Int
    OBVIOUS
  <2> QED
    BY <2>1, ClampedIsInteger, CruiseFacts
<1>2. raw \in Int
  <2> HIDE DEF integral
  <2>1. Gain * error + Gain * integral \in Int
    BY <1>1, CruiseFacts, SMT
  <2> QED
    BY <2>1, ClampedIsInteger, CruiseFacts
<1>3. filtered \in Int
  <2> HIDE DEF raw
  <2>1. sum \in Int
    BY <1>2
  <2> HIDE DEF sum
  <2>2. Cruise!Magnitude(sum) \in Nat /\ Cruise!SignCode(sum) \in {-1, 0, 1}
    BY <2>1, SignFacts
  <2>3. Cruise!Magnitude(sum) \div 2 \in Nat
    BY <2>2, QuotientIsMost
  <2> QED
    BY <1>2, <2>2, <2>3
<1>4. Cruise!PiStep(error) = [integral |-> integral, filtered |-> filtered]
  BY Zenon DEF Cruise!PiStep
<1> QED
  BY <1>1, <1>3, <1>4

\* An event moves the drive as far as it goes, and raises it only as it is asked.
LEMMA EventIsRuled ==
  ASSUME table \in Tables, NEW y \in Int, NEW r \in Int, NEW w \in Int,
         NEW z, z = Cruise!Target(r, w),
         NEW m, m = Cruise!AdvanceSignedDriveSideTorque(y, z, Cruise!Magnitude(w))
  PROVE  /\ m \in Int
         /\ Ruled(y, m, z, r, w, m * Cruise!EffectiveWheelAngularSpeedSign(w))
<1> DEFINE turns == Cruise!EffectiveWheelAngularSpeedSign(w)
           code == Cruise!DirectionCode(r, w)
           Limit(side) == Cruise!DirectionRow(Cruise!Side(side), Cruise!Magnitude(w)).limit
<1>1. Cruise!Magnitude(w) \in Nat /\ Cruise!Magnitude(r) \in Nat
      /\ Cruise!SignCode(r) \in {-1, 0, 1}
  BY SignFacts
<1>2. /\ z \in Int
      /\ z # 0 =>
           /\ ~Cruise!Unsupported(w) /\ Cruise!SignCode(z) = code
           /\ Cruise!Magnitude(z) <= Cruise!Magnitude(r)
           /\ Cruise!Magnitude(z) <= Limit(code)
           /\ code = Cruise!SignCode(r) * turns
  BY TargetIsInteger
<1>3. GoesAsFar(y, m, z, Cruise!Magnitude(w))
  BY <1>1, <1>2, MoveGoesAsFar
<1>4. turns \in {-1, 1}
  <2>1. Cruise!Fast(w) => w # 0
    <3>1. Cruise!Magnitude(0) = 0 /\ ~ (0 > Threshold)
      BY CruiseFacts DEF Cruise!Magnitude
    <3> QED
      BY <3>1, Zenon DEF Cruise!Fast
  <2> QED
    BY <2>1, CruiseFacts DEF Cruise!EffectiveWheelAngularSpeedSign, Cruise!SignCode
<1>5. Limit(code) \in Nat
  <2>1. Cruise!Side(code) \in Cruise!Sides
    BY DEF Cruise!Side, Cruise!Sides
  <2> QED
    BY <2>1, <1>1, RowIsADriveRow DEF DriveRow
<1>6. m \in Int /\ Cruise!Between(y, m, z)
  BY <1>3 DEF GoesAsFar
<1> HIDE DEF code, turns, Limit
<1>7. ASSUME Cruise!Magnitude(m) > Cruise!Magnitude(y) \/ m * y < 0
      PROVE  /\ ~Cruise!Unsupported(w)
             /\ Cruise!SignCode(m * turns) = Cruise!SignCode(r)
             /\ Cruise!Magnitude(m * turns) <= Cruise!Magnitude(r)
             /\ Cruise!Magnitude(m) <= Limit(Cruise!SignCode(m))
  <2>1. m * y < 0 => m # 0 /\ Cruise!SignCode(m) # Cruise!SignCode(y)
    BY <1>6, SignOfProduct
  <2>2. \/ Cruise!Magnitude(m) > Cruise!Magnitude(y)
        \/ m # 0 /\ Cruise!SignCode(m) # Cruise!SignCode(y)
    BY <2>1, <1>7
  <2>3. /\ z # 0 /\ Cruise!SignCode(m) = Cruise!SignCode(z)
        /\ Cruise!Magnitude(m) <= Cruise!Magnitude(z)
    BY <2>2, <1>2, <1>6 DEF Cruise!Between, Cruise!SignCode, Cruise!Magnitude
  <2>4. /\ Cruise!SignCode(m) = code /\ code = Cruise!SignCode(r) * turns
        /\ ~Cruise!Unsupported(w)
        /\ Cruise!Magnitude(z) <= Cruise!Magnitude(r) /\ Cruise!Magnitude(z) <= Limit(code)
    BY <2>3, <1>2
  <2>5. m * turns = IF turns = 1 THEN m ELSE -m
    BY <1>4, <1>6
  <2>6. Cruise!Magnitude(m * turns) = Cruise!Magnitude(m)
    BY <1>6, <2>5 DEF Cruise!Magnitude
  <2>7. Cruise!SignCode(m * turns) = Cruise!SignCode(r)
    <3>1. Cruise!SignCode(m * turns) = IF turns = 1 THEN code ELSE -code
      BY <1>4, <1>6, <2>4, <2>5 DEF Cruise!SignCode
    <3> QED
      BY <3>1, <1>1, <1>4, <2>4
  <2>8. Cruise!Magnitude(m) \in Nat /\ Cruise!Magnitude(z) \in Nat
    BY <1>2, <1>6, SignFacts
  <2>9. Cruise!Magnitude(m) <= Cruise!Magnitude(r) /\ Cruise!Magnitude(m) <= Limit(code)
    BY <1>1, <1>5, <2>3, <2>4, <2>8
  <2>10. Limit(Cruise!SignCode(m)) = Limit(code)
    BY <2>4, Zenon
  <2> QED
    BY <2>4, <2>6, <2>7, <2>9, <2>10, Zenon
<1>8. Raised(y, m, r, w, m * turns)
  BY <1>7, Zenon DEF Raised, Limit
<1> QED
  BY <1>3, <1>6, <1>8, Zenon DEF Ruled, turns

LEMMA CommitObeys ==
  ASSUME CruiseInv, Cruise!Commit(Cruise!Candidate)
  PROVE  CruiseInv'
<1> DEFINE next == Cruise!PiStep(TargetSpeed - rate)
           speed == Cruise!ConditionerSpeed(rate)
           to == Cruise!Target(next.filtered, speed)
           moved == Cruise!AdvanceSignedDriveSideTorque(cruise_memory, to, Cruise!Magnitude(speed))
           turns == Cruise!EffectiveWheelAngularSpeedSign(speed)
<1>1. Cruise!Candidate =
        [pi |-> next, memory |-> moved, torque |-> moved * turns,
         inputs |-> [request |-> next.filtered, speed |-> speed, from |-> drive, to |-> to]]
  BY Zenon DEF Cruise!Candidate
<1>2. /\ cruise_held' = moved * turns /\ drive' = moved /\ pi' = next /\ cruise_memory' = moved
      /\ last' = [request |-> next.filtered, speed |-> speed, from |-> drive, to |-> to]
      /\ UNCHANGED <<table, rate>>
  <2> HIDE DEF next, speed, to, moved, turns
  <2> QED
    BY <1>1 DEF Cruise!Commit
<1>3. next.integral \in Int /\ next.filtered \in Int /\ speed \in Int
  <2>1. TargetSpeed - rate \in Int /\ speed \in Int
    BY CruiseFacts DEF CruiseInv, Cruise!ConditionerSpeed
  <2> QED
    BY <2>1, ControllerIsInteger DEF CruiseInv
<1>4. table \in Tables /\ rate \in Int /\ drive \in Int /\ cruise_memory = drive
  BY DEF CruiseInv
<1>5. PICK y, m, z, r, w, h :
        /\ y = drive /\ m = moved /\ z = to /\ r = next.filtered /\ w = speed
        /\ h = moved * turns
  OBVIOUS
<1>6. m \in Int /\ Ruled(y, m, z, r, w, h)
  <2>1. /\ y \in Int /\ r \in Int /\ w \in Int
        /\ z = Cruise!Target(r, w)
        /\ m = Cruise!AdvanceSignedDriveSideTorque(y, z, Cruise!Magnitude(w))
        /\ h = m * Cruise!EffectiveWheelAngularSpeedSign(w)
    <3> HIDE DEF next, speed
    <3> QED
      BY <1>3, <1>4, <1>5, Zenon
  <2>2. m \in Int /\ Ruled(y, m, z, r, w, m * Cruise!EffectiveWheelAngularSpeedSign(w))
    BY <2>1, <1>4, EventIsRuled
  <2> QED
    BY <2>1, <2>2, Zenon
<1>7. Ruled(y, m, z, r, w, h)'
  BY <1>2, <1>6, RulingStays
<1> HIDE DEF next, speed, to, moved, turns
<1>8. /\ table' \in Tables /\ rate' \in Int /\ pi'.integral \in Int /\ pi'.filtered \in Int
      /\ drive' \in Int /\ cruise_memory' = drive'
      /\ y = last'.from /\ m = drive' /\ z = last'.to /\ r = last'.request /\ w = last'.speed
      /\ h = cruise_held'
  BY <1>2, <1>3, <1>4, <1>5, <1>6
<1> QED
  BY <1>7, <1>8, Zenon DEF CruiseInv

LEMMA CruiseStep == CruiseInv /\ [Cruise!Next]_(Cruise!vars) => CruiseInv'
<1> SUFFICES ASSUME CruiseInv, [Cruise!Next]_(Cruise!vars) PROVE CruiseInv'
  OBVIOUS
<1>1. CASE Cruise!ApplyInitializationUpdate \/ Cruise!ApplyPeriodicUpdate
  <2>1. Cruise!Commit(Cruise!Candidate)
    BY <1>1, Zenon DEF Cruise!ApplyInitializationUpdate, Cruise!ApplyPeriodicUpdate
  <2> QED
    BY <2>1, CommitObeys
<1>2. CASE \/ Cruise!PeriodicUpdateFails \/ Cruise!ConfirmBackendSynchronized
           \/ Cruise!Advance \/ UNCHANGED Cruise!vars
  <2>1. UNCHANGED <<table, pi, cruise_memory, cruise_held, drive, last>>
    BY <1>2, Zenon DEF Cruise!PeriodicUpdateFails, Cruise!ConfirmBackendSynchronized,
       Cruise!Advance, Cruise!vars
  <2>2. rate' = rate \/ rate' \in Rates
    BY <1>2, Zenon DEF Cruise!PeriodicUpdateFails, Cruise!ConfirmBackendSynchronized,
       Cruise!Advance, Cruise!vars
  <2>3. rate' \in Int
    BY <2>2, CruiseFacts DEF CruiseInv
  <2>4. PICK y, m, z, r, w, h :
          /\ y = last.from /\ m = drive /\ z = last.to /\ r = last.request /\ w = last.speed
          /\ h = cruise_held
          /\ Ruled(y, m, z, r, w, h)
    BY DEF CruiseInv
  <2>5. Ruled(y, m, z, r, w, h)'
    BY <2>1, <2>4, RulingStays
  <2>6. /\ y = last'.from /\ m = drive' /\ z = last'.to /\ r = last'.request /\ w = last'.speed
        /\ h = cruise_held'
    BY <2>1, <2>4
  <2>7. /\ table' \in Tables /\ pi'.integral \in Int /\ pi'.filtered \in Int
        /\ drive' \in Int /\ cruise_memory' = drive'
    BY <2>1 DEF CruiseInv
  <2> QED
    BY <2>3, <2>5, <2>6, <2>7, Zenon DEF CruiseInv
<1> QED
  BY <1>1, <1>2 DEF Cruise!Next

LEMMA CruiseParts == CruiseInv => Cruise!HeldTorqueObeysTheDrive
<1> SUFFICES ASSUME CruiseInv PROVE Cruise!HeldTorqueObeysTheDrive
  OBVIOUS
<1>1. -OutputLimit..OutputLimit \subseteq Int
  BY CruiseFacts
<1>2. Ruled(last.from, drive, last.to, last.request, last.speed, cruise_held)
  BY Zenon DEF CruiseInv
<1>3. Cruise!TakesItsTime
  <2>1. GoesAsFar(last.from, drive, last.to, Cruise!Magnitude(last.speed))
    BY <1>2 DEF Ruled
  <2> QED
    BY <1>1, <2>1 DEF GoesAsFar, Cruise!TakesItsTime
<1>4. Cruise!RaisedAsAsked
  BY <1>2, Zenon DEF Ruled, Raised, Cruise!RaisedAsAsked
<1> QED
  BY <1>3, <1>4 DEF Cruise!HeldTorqueObeysTheDrive

LEMMA CruiseSteps ==
  /\ MCInit => Cruise!Init
  /\ [MCNext]_<<started, vars, runVars, cruiseVars, qualificationVars, realtimeVars, passiveVars,
                lawVars, tableVars>> => [Cruise!Next]_(Cruise!vars)
<1>1. MCInit => Cruise!Init
  BY DEF MCInit
<1>2. MCNext => [Cruise!Next]_(Cruise!vars)
  BY DEF MCNext, cruiseVars, Cruise!vars
<1> QED
  BY <1>1, <1>2 DEF cruiseVars, Cruise!vars

(***************************************************************************)
(* The torque the wheel of a cruise is held under, for any tables of the   *)
(* drive, any speeds and any gains: from one event to the next it goes as  *)
(* far towards the one asked for as the rates of the sides it passes allow *)
(* in a period, no farther and no less, and it is raised only as asked.    *)
(***************************************************************************)
THEOREM HeldTorqueAlwaysObeysTheDrive == MCSpec => []Cruise!HeldTorqueObeysTheDrive
BY CruiseSteps, CruiseInit, CruiseStep, CruiseParts, PTL DEF MCSpec

(***************************************************************************)
(* The passive qualification run.  Rows of patches first: a listing tells  *)
(* a set of rows, each once and in order, and none before its place.       *)
(***************************************************************************)
LEMMA NaturalInduction ==
  ASSUME NEW T, 0 \in T, \A n \in Nat : n \in T => n + 1 \in T
  PROVE  \A n \in Nat : n \in T
<1> DEFINE S == {n \in Nat : n \notin T}
<1> SUFFICES ASSUME S # {} PROVE FALSE
  OBVIOUS
<1>1. PICK n \in S : \A m \in S : n <= m
  <2>1. S \subseteq Nat
    OBVIOUS
  <2> HIDE DEF S
  <2> QED
    BY <2>1, Least
<1>2. n \in Nat /\ n # 0
  OBVIOUS
<1>3. n - 1 \in Nat /\ ~ (n <= n - 1) /\ (n - 1) + 1 = n
  BY <1>2
<1>4. n - 1 \in T
  BY <1>1, <1>3
<1> QED
  BY <1>3, <1>4

Triples == Nat \X Nat \X Nat

Earlier(a, b) ==
  \/ a[1] < b[1]
  \/ a[1] = b[1] /\ a[2] < b[2]
  \/ a[1] = b[1] /\ a[2] = b[2] /\ a[3] < b[3]

IsListing(t, S) ==
  /\ t \in Seq(Triples)
  /\ \A i \in 1..Len(t) : t[i] \in S /\ t[i][3] <= i
  /\ \A a \in S : \E i \in 1..Len(t) : t[i] = a
  /\ \A i, j \in 1..Len(t) : i < j => Earlier(t[i], t[j])

LEMMA NothingListed == IsListing(<<>>, {})
BY DEF IsListing

LEMMA ListingsJoin ==
  ASSUME NEW t, NEW S, NEW u, NEW R, IsListing(t, S), IsListing(u, R),
         \A a \in S, b \in R : Earlier(a, b)
  PROVE  IsListing(t \o u, S \cup R)
<1> DEFINE n == Len(t)
           both == t \o u
<1>1. t \in Seq(Triples) /\ u \in Seq(Triples) /\ n \in Nat /\ Len(u) \in Nat
  BY DEF IsListing
<1>2. /\ both \in Seq(Triples) /\ Len(both) = n + Len(u)
      /\ \A i \in 1..n : both[i] = t[i]
      /\ \A i \in n + 1..n + Len(u) : both[i] = u[i - n] /\ i - n \in 1..Len(u)
      /\ \A i \in 1..Len(u) : both[n + i] = u[i]
  BY <1>1, ConcatProperties
<1>3. \A i \in 1..Len(both) : i \in 1..n \/ i \in n + 1..n + Len(u)
  BY <1>1, <1>2
<1> HIDE DEF n, both
<1>4. ASSUME NEW i \in 1..Len(both)
      PROVE  both[i] \in S \cup R /\ both[i][3] <= i
  <2>1. CASE i \in 1..n
    BY <2>1, <1>2 DEF IsListing, n
  <2>2. CASE i \in n + 1..n + Len(u)
    <3>1. both[i] = u[i - n] /\ i - n \in 1..Len(u)
      BY <2>2, <1>2
    <3>2. u[i - n] \in R /\ u[i - n][3] <= i - n
      BY <3>1 DEF IsListing
    <3>3. u[i - n] \in Triples
      BY <3>1, <1>1
    <3>4. u[i - n][3] \in Nat
      BY <3>3 DEF Triples
    <3> QED
      BY <3>1, <3>2, <3>4, <2>2, <1>1
  <2> QED
    BY <2>1, <2>2, <1>3
<1>5. ASSUME NEW a \in S \cup R
      PROVE  \E i \in 1..Len(both) : both[i] = a
  <2>1. CASE a \in S
    <3>1. PICK i \in 1..n : t[i] = a
      BY <2>1 DEF IsListing, n
    <3> QED
      BY <3>1, <1>1, <1>2
  <2>2. CASE a \in R
    <3>1. PICK i \in 1..Len(u) : u[i] = a
      BY <2>2 DEF IsListing
    <3>2. n + i \in 1..Len(both)
      BY <3>1, <1>1, <1>2
    <3> QED
      BY <3>1, <3>2, <1>2
  <2> QED
    BY <2>1, <2>2
<1>6. ASSUME NEW i \in 1..Len(both), NEW j \in 1..Len(both), i < j
      PROVE  Earlier(both[i], both[j])
  <2>1. CASE i \in 1..n /\ j \in 1..n
    BY <2>1, <1>2, <1>6 DEF IsListing, n
  <2>2. CASE i \in 1..n /\ j \in n + 1..n + Len(u)
    <3>1. both[i] \in S /\ both[j] \in R
      BY <2>2, <1>2 DEF IsListing, n
    <3> QED
      BY <3>1
  <2>3. CASE i \in n + 1..n + Len(u) /\ j \in n + 1..n + Len(u)
    <3>1. i - n \in 1..Len(u) /\ j - n \in 1..Len(u) /\ i - n < j - n
      BY <2>3, <1>1, <1>2, <1>6
    <3>2. both[i] = u[i - n] /\ both[j] = u[j - n]
      BY <2>3, <1>2
    <3> QED
      BY <3>1, <3>2 DEF IsListing
  <2>4. ~ (i \in n + 1..n + Len(u) /\ j \in 1..n)
    BY <1>1, <1>6
  <2> QED
    BY <2>1, <2>2, <2>3, <2>4, <1>3
<1> QED
  BY <1>2, <1>4, <1>5, <1>6 DEF IsListing, both
\* f joins the first sequences of seqs, to each of n of them.
Joins(f, seqs, n) == f = [i \in 1..n |-> IF i = 1 THEN seqs[i] ELSE f[i - 1] \o seqs[i]]

LEMMA FlattenIsChosen ==
  ASSUME NEW seqs, Len(seqs) # 0
  PROVE  Passive!FlattenSeq(seqs) = (CHOOSE f : Joins(f, seqs, Len(seqs)))[Len(seqs)]
BY Zenon DEF Passive!FlattenSeq, Joins

LEMMA JoinsExist ==
  ASSUME NEW seqs, NEW n \in Nat
  PROVE  \E f : Joins(f, seqs, n)
<1> DEFINE T == {k \in Nat : \E f : Joins(f, seqs, k)}
<1>1. 0 \in T
  <2>1. Joins(<<>>, seqs, 0)
    BY DEF Joins
  <2> QED
    BY <2>1
<1>2. ASSUME NEW k \in Nat, k \in T PROVE k + 1 \in T
  <2>1. PICK f : Joins(f, seqs, k)
    BY <1>2
  <2> DEFINE g == [i \in 1..k + 1 |-> IF i = 1 THEN seqs[i] ELSE f[i - 1] \o seqs[i]]
  <2>2. ASSUME NEW i \in 1..k + 1, i # 1 PROVE g[i - 1] = f[i - 1]
    <3>1. i - 1 \in 1..k /\ i - 1 \in 1..k + 1
      BY <2>2
    <3>2. f[i - 1] = IF i - 1 = 1 THEN seqs[i - 1] ELSE f[(i - 1) - 1] \o seqs[i - 1]
      BY <2>1, <3>1 DEF Joins
    <3> QED
      BY <3>1, <3>2
  <2>3. g = [i \in 1..k + 1 |-> IF i = 1 THEN seqs[i] ELSE g[i - 1] \o seqs[i]]
    <3>1. \A i \in 1..k + 1 :
            (IF i = 1 THEN seqs[i] ELSE f[i - 1] \o seqs[i])
              = (IF i = 1 THEN seqs[i] ELSE g[i - 1] \o seqs[i])
      BY <2>2
    <3> QED
      BY <3>1
  <2>4. Joins(g, seqs, k + 1)
    BY <2>3, Zenon DEF Joins
  <2> QED
    BY <2>4
<1> HIDE DEF T
<1>3. n \in T
  BY <1>1, <1>2, NaturalInduction
<1> QED
  BY <1>3 DEF T

\* The rows of the patches of a sample, c[w] under wheel w, of the first k wheels.
RowsUnder(s, c, k) ==
  {r \in Triples : r[1] = s /\ r[2] \in 1..k /\ r[3] \in 1..c[r[2]]}

LEMMA WheelIsListed ==
  ASSUME NEW s \in Nat, NEW w \in Nat, NEW n \in Nat
  PROVE  IsListing([p \in 1..n |-> <<s, w, p>>],
                   {r \in Triples : r[1] = s /\ r[2] = w /\ r[3] \in 1..n})
<1> DEFINE t == [p \in 1..n |-> <<s, w, p>>]
           S == {r \in Triples : r[1] = s /\ r[2] = w /\ r[3] \in 1..n}
<1>1. \A p \in 1..n : <<s, w, p>> \in Triples /\ <<s, w, p>> \in S
  BY DEF Triples
<1>2. t \in Seq(Triples) /\ Len(t) = n
  <2>1. t \in [1..n -> Triples]
    BY <1>1
  <2> QED
    BY <2>1, SeqDef, LenProperties
<1>3. \A p \in 1..n : t[p] = <<s, w, p>> /\ t[p][1] = s /\ t[p][2] = w /\ t[p][3] = p
  OBVIOUS
<1>4. ASSUME NEW a \in S PROVE \E i \in 1..n : t[i] = a
  <2>1. a = <<a[1], a[2], a[3]>> /\ a[1] = s /\ a[2] = w /\ a[3] \in 1..n
    BY DEF Triples
  <2>2. t[a[3]] = a
    BY <2>1
  <2> QED
    BY <2>1, <2>2
<1>5. \A i, j \in 1..n : i < j => Earlier(t[i], t[j])
  BY <1>3 DEF Earlier
<1>6. \A i \in 1..n : t[i] \in S /\ t[i][3] <= i
  BY <1>1, <1>3
<1> HIDE DEF t, S
<1> QED
  BY <1>2, <1>4, <1>5, <1>6 DEF IsListing, t, S

LEMMA SampleIsListed ==
  ASSUME NEW n \in Nat, NEW s \in Nat, NEW c \in [1..n -> Nat],
         NEW seqs, seqs = [w \in 1..n |-> [p \in 1..c[w] |-> <<s, w, p>>]]
  PROVE  IsListing(Passive!FlattenSeq(seqs), RowsUnder(s, c, n))
<1>1. Len(seqs) = n /\ seqs \in Seq(Seq(Triples))
  <2>1. \A w \in 1..n : seqs[w] \in Seq(Triples)
    <3> TAKE w \in 1..n
    <3>1. c[w] \in Nat /\ w \in Nat
      OBVIOUS
    <3>2. IsListing([p \in 1..c[w] |-> <<s, w, p>>],
                    {r \in Triples : r[1] = s /\ r[2] = w /\ r[3] \in 1..c[w]})
      BY <3>1, WheelIsListed
    <3> QED
      BY <3>2 DEF IsListing
  <2>2. seqs \in [1..n -> Seq(Triples)]
    BY <2>1
  <2> QED
    BY <2>2, SeqDef, LenProperties
<1>2. CASE n = 0
  <2>1. Passive!FlattenSeq(seqs) = seqs /\ seqs = <<>>
    BY <1>1, <1>2 DEF Passive!FlattenSeq
  <2>2. RowsUnder(s, c, n) = {}
    BY <1>2 DEF RowsUnder
  <2> QED
    BY <2>1, <2>2, NothingListed
<1>3. CASE n # 0
  <2> DEFINE f == CHOOSE g : Joins(g, seqs, n)
             T == {k \in Nat : k + 1 <= n => IsListing(f[k + 1], RowsUnder(s, c, k + 1))}
  <2>1. Joins(f, seqs, n)
    BY JoinsExist, Zenon
  <2> HIDE DEF f
  <2>2. \A k \in 1..n : f[k] = IF k = 1 THEN seqs[k] ELSE f[k - 1] \o seqs[k]
    BY <2>1 DEF Joins
  <2>3. \A k \in 1..n :
          IsListing(seqs[k], {r \in Triples : r[1] = s /\ r[2] = k /\ r[3] \in 1..c[k]})
    <3> TAKE k \in 1..n
    <3>1. k \in Nat /\ c[k] \in Nat /\ seqs[k] = [p \in 1..c[k] |-> <<s, k, p>>]
      OBVIOUS
    <3> QED
      BY <3>1, WheelIsListed
  <2>4. 0 \in T
    <3>1. f[1] = seqs[1] /\ 1 \in 1..n
      BY <1>3, <2>2
    <3>2. RowsUnder(s, c, 1) = {r \in Triples : r[1] = s /\ r[2] = 1 /\ r[3] \in 1..c[1]}
      BY DEF RowsUnder
    <3>3. IsListing(seqs[1], {r \in Triples : r[1] = s /\ r[2] = 1 /\ r[3] \in 1..c[1]})
      BY <2>3, <3>1
    <3>4. IsListing(f[1], RowsUnder(s, c, 1))
      BY <3>1, <3>2, <3>3, Zenon
    <3>5. 0 + 1 = 1 /\ 0 \in Nat
      OBVIOUS
    <3> QED
      BY <3>4, <3>5, Zenon
  <2>5. ASSUME NEW k \in Nat, k \in T PROVE k + 1 \in T
    <3> SUFFICES ASSUME (k + 1) + 1 <= n
                 PROVE  IsListing(f[(k + 1) + 1], RowsUnder(s, c, (k + 1) + 1))
      BY <2>5
    <3> DEFINE j == (k + 1) + 1
               S == RowsUnder(s, c, k + 1)
               R == {r \in Triples : r[1] = s /\ r[2] = j /\ r[3] \in 1..c[j]}
    <3>1. j \in 1..n /\ j # 1 /\ j - 1 = k + 1 /\ k + 1 <= n
      OBVIOUS
    <3>2. f[j] = f[k + 1] \o seqs[j]
      BY <2>2, <3>1
    <3>3. IsListing(f[k + 1], S) /\ IsListing(seqs[j], R)
      BY <2>3, <2>5, <3>1
    <3>4. \A a \in S, b \in R : Earlier(a, b)
      BY DEF RowsUnder, Earlier, Triples
    <3>5. S \cup R = RowsUnder(s, c, j)
      <4>1. \A x \in Nat : x \in 1..j <=> x \in 1..(k + 1) \/ x = j
        OBVIOUS
      <4>2. \A r \in Triples : r[2] \in Nat
        BY DEF Triples
      <4> HIDE DEF j
      <4> QED
        BY <4>1, <4>2 DEF RowsUnder
    <3> HIDE DEF j, S, R
    <3>6. IsListing(f[k + 1] \o seqs[j], S \cup R)
      BY <3>3, <3>4, ListingsJoin, Zenon
    <3>7. IsListing(f[j], RowsUnder(s, c, j))
      BY <3>2, <3>5, <3>6, Zenon
    <3> QED
      BY <3>7 DEF j
  <2> HIDE DEF T
  <2>6. n - 1 \in T
    <3>1. \A k \in Nat : k \in T
      BY <2>4, <2>5, NaturalInduction
    <3> QED
      BY <1>3, <3>1
  <2>7. IsListing(f[n], RowsUnder(s, c, n))
    BY <1>3, <2>6 DEF T
  <2>8. Passive!FlattenSeq(seqs) = f[n]
    BY <1>1, <1>3, FlattenIsChosen, Zenon DEF f
  <2> QED
    BY <2>7, <2>8
<1> QED
  BY <1>2, <1>3
LEMMA PassiveFacts ==
  /\ Samples \in Nat /\ Samples > 0 /\ Wheels \in Nat
  /\ Carriers \subseteq Nat /\ Bodies \subseteq Nat
  /\ LineStart \in Int /\ LineEnd \in Int /\ Lost \notin Int
  /\ NoUse \notin [carrier : Carriers, sample : 1..Samples, station : Int]
BY RunAssumptions DEF Passive!PassiveAssumption

Riders == Carriers \cup Bodies
Dense == [at : [Riders -> Int], patches : [1..Wheels -> Nat]]

IsRun(d) ==
  /\ d \in Seq(Dense) /\ Len(d) = Samples
  /\ \A s \in 1..Samples : d[s].at \in [Riders -> Int] /\ d[s].patches \in [1..Wheels -> Nat]
  /\ \A s \in 1..Samples, b \in Riders :
       Project(Place(d[s].at[b]), IF s = 1 THEN Seeds[b] ELSE d[s - 1].at[b])
         \in {d[s].at[b], Lost}

LEMMA RunsAreRuns ==
  ASSUME NEW d \in PassiveRuns
  PROVE  IsRun(d)
<1>1. d \in Seq(Dense) /\ Len(d) = Samples /\ Passive!FollowsTheLine(d)
  BY RunAssumptions
  DEF Passive!PassiveAssumption, Passive!DenseStates, Passive!Riders, Dense, Riders
<1>2. \A s \in 1..Samples : d[s] \in Dense
  BY <1>1, ElementOfSeq
<1>3. \A s \in 1..Samples : d[s].at \in [Riders -> Int] /\ d[s].patches \in [1..Wheels -> Nat]
  BY <1>2 DEF Dense
<1>4. \A s \in 1..Samples, b \in Riders :
        Project(Place(d[s].at[b]), IF s = 1 THEN Seeds[b] ELSE d[s - 1].at[b])
          \in {d[s].at[b], Lost}
  BY <1>1, Zenon DEF Passive!FollowsTheLine, Passive!Riders, Riders
<1> QED
  BY <1>1, <1>3, <1>4 DEF IsRun
-----------------------------------------------------------------------------
\* The rows of the first k samples.
RowsTo(d, k) ==
  {r \in Triples : r[1] \in 1..k /\ r[2] \in 1..Wheels /\ r[3] \in 1..d[r[1]].patches[r[2]]}

RowsAt(d, s) ==
  Passive!FlattenSeq([w \in 1..Wheels |-> [p \in 1..d[s].patches[w] |-> <<s, w, p>>]])

LEMMA RowsGoOn ==
  ASSUME NEW d, IsRun(d), NEW k \in Nat, k < Samples, NEW t, IsListing(t, RowsTo(d, k))
  PROVE  IsListing(t \o RowsAt(d, k + 1), RowsTo(d, k + 1))
<1> DEFINE s == k + 1
           c == d[s].patches
           R == RowsUnder(s, c, Wheels)
<1>1. s \in Nat /\ s \in 1..Samples /\ Wheels \in Nat
  BY PassiveFacts
<1>2. c \in [1..Wheels -> Nat]
  BY <1>1 DEF IsRun
<1>3. RowsAt(d, s) = Passive!FlattenSeq([w \in 1..Wheels |-> [p \in 1..c[w] |-> <<s, w, p>>]])
  BY Zenon DEF RowsAt
<1>4. \A r \in Triples : r[1] \in Nat
  BY DEF Triples
<1>5. \A x \in Nat : x \in 1..s <=> x \in 1..k \/ x = s
  OBVIOUS
<1>6. \A x \in 1..k : x < s
  OBVIOUS
<1>7. RowsTo(d, s) = RowsTo(d, k) \cup R
  <2>1. ASSUME NEW r \in Triples
        PROVE  r \in RowsTo(d, s) <=> r \in RowsTo(d, k) \cup R
    <3> HIDE DEF s
    <3> QED
      BY <1>4, <1>5, <1>6 DEF RowsTo, RowsUnder
  <2>2. RowsTo(d, s) \subseteq Triples /\ RowsTo(d, k) \cup R \subseteq Triples
    BY DEF RowsTo, RowsUnder
  <2> HIDE DEF s, R
  <2> QED
    BY <2>1, <2>2
<1> HIDE DEF s, c
<1>8. IsListing(RowsAt(d, s), R)
  BY <1>1, <1>2, <1>3, SampleIsListed
<1>9. \A a \in RowsTo(d, k), b \in R : Earlier(a, b)
  BY <1>6 DEF RowsTo, RowsUnder, Earlier
<1> HIDE DEF R
<1>10. IsListing(t \o RowsAt(d, s), RowsTo(d, k) \cup R)
  BY <1>8, <1>9, ListingsJoin
<1>11. IsListing(t \o RowsAt(d, s), RowsTo(d, s))
  BY <1>7, <1>10, Zenon
<1> QED
  BY <1>11 DEF s
-----------------------------------------------------------------------------
Beyond(x, side) == IF side = "before" THEN x < LineStart ELSE x > LineEnd

\* The uses of the line beyond a side in the first k samples.
Uses(d, k, side) == {u \in (1..k) \X Carriers : Beyond(d[u[1]].at[u[2]], side)}

FirstIs(use, uses, d) ==
  IF uses = {} THEN use = NoUse
  ELSE \E u \in uses :
         /\ \A v \in uses : u[1] < v[1] \/ (u[1] = v[1] /\ u[2] <= v[2])
         /\ use = [carrier |-> u[2], sample |-> u[1], station |-> d[u[1]].at[u[2]]]

LEMMA FirstUseGoesOn ==
  ASSUME NEW d, IsRun(d), NEW k \in Nat, k < Samples, NEW side,
         NEW use, FirstIs(use, Uses(d, k, side), d),
         NEW beyond, beyond = {c \in Carriers : Beyond(d[k + 1].at[c], side)},
         NEW next,
         next = IF use # NoUse \/ beyond = {} THEN use
                ELSE [carrier |-> Passive!Min(beyond), sample |-> k + 1,
                      station |-> d[k + 1].at[Passive!Min(beyond)]]
  PROVE  FirstIs(next, Uses(d, k + 1, side), d)
<1> DEFINE s == k + 1
           old == Uses(d, k, side)
           new == Uses(d, s, side)
<1>1. s \in Nat /\ s \in 1..Samples /\ Carriers \subseteq Nat /\ Carriers \subseteq Riders
  BY PassiveFacts DEF Riders
<1>2. \A x \in Nat : x \in 1..s <=> x \in 1..k \/ x = s
  OBVIOUS
<1>3. \A x \in 1..k : x < s /\ x \in 1..Samples
  BY PassiveFacts
<1>4. \A u : u \in new <=> u \in old \/ (u \in {s} \X beyond)
  <2>1. \A u \in new : u \in old \/ u \in {s} \X beyond
    <3> TAKE u \in new
    <3>1. u = <<u[1], u[2]>> /\ u[1] \in 1..s /\ u[2] \in Carriers /\ Beyond(d[u[1]].at[u[2]], side)
      BY DEF Uses
    <3> HIDE DEF s
    <3>2. u[1] \in 1..k \/ u[1] = s
      BY <1>2, <3>1, <1>1
    <3>3. CASE u[1] \in 1..k
      BY <3>1, <3>3 DEF Uses
    <3>4. CASE u[1] = s
      BY <3>1, <3>4 DEF s
    <3> QED
      BY <3>2, <3>3, <3>4
  <2>2. \A u \in old : u \in new
    <3> HIDE DEF s
    <3> QED
      BY <1>2 DEF Uses
  <2>3. \A u \in {s} \X beyond : u \in new
    <3> TAKE u \in {s} \X beyond
    <3>1. u = <<u[1], u[2]>> /\ u[1] = s /\ u[2] \in beyond
      OBVIOUS
    <3>2. u[2] \in Carriers /\ Beyond(d[s].at[u[2]], side)
      BY <3>1
    <3>3. s \in 1..s
      BY <1>1
    <3> QED
      BY <3>1, <3>2, <3>3 DEF Uses
  <2> QED
    BY <2>1, <2>2, <2>3
<1> HIDE DEF new, old
<1>5. CASE old # {}
  <2>1. PICK u \in old :
          /\ \A v \in old : u[1] < v[1] \/ (u[1] = v[1] /\ u[2] <= v[2])
          /\ use = [carrier |-> u[2], sample |-> u[1], station |-> d[u[1]].at[u[2]]]
    BY <1>5 DEF FirstIs, old
  <2>2. u[1] \in 1..k /\ u[2] \in Carriers
    BY DEF old, Uses
  <2>3. use # NoUse
    <3>1. u[1] \in 1..Samples /\ d[u[1]].at[u[2]] \in Int
      BY <2>2, <1>1, <1>3 DEF IsRun
    <3>2. use \in [carrier : Carriers, sample : 1..Samples, station : Int]
      BY <2>1, <2>2, <3>1
    <3> QED
      BY <3>2, PassiveFacts
  <2>4. \A v \in new : u[1] < v[1] \/ (u[1] = v[1] /\ u[2] <= v[2])
    <3>1. \A v \in {s} \X beyond : u[1] < v[1]
      BY <2>2, <1>3
    <3> QED
      BY <3>1, <2>1, <1>4
  <2>5. u \in new
    BY <1>4
  <2>6. next = use
    BY <2>3
  <2> QED
    BY <2>1, <2>4, <2>5, <2>6, Zenon DEF FirstIs, new, s
<1>6. CASE old = {} /\ beyond = {}
  <2>1. new = {} /\ use = NoUse /\ next = use
    BY <1>4, <1>6 DEF FirstIs, old
  <2> QED
    BY <2>1, Zenon DEF FirstIs, new, s
<1>7. CASE old = {} /\ beyond # {}
  <2>1. use = NoUse
    BY <1>7, Zenon DEF FirstIs, old
  <2>2. PICK c \in beyond : \A b \in beyond : c <= b
    <3>1. beyond \subseteq Nat
      BY <1>1
    <3> QED
      BY <3>1, <1>7, Least
  <2>3. Passive!Min(beyond) \in beyond /\ \A b \in beyond : Passive!Min(beyond) <= b
    BY <2>2 DEF Passive!Min
  <2> DEFINE least == Passive!Min(beyond)
             u == <<s, least>>
  <2> HIDE DEF least
  <2>4. u \in new /\ u[1] = s /\ u[2] = least
    BY <1>4, <2>3 DEF least
  <2>5. \A v \in new : v[1] = s /\ v[2] \in beyond
    BY <1>4, <1>7
  <2>6. next = [carrier |-> u[2], sample |-> u[1], station |-> d[u[1]].at[u[2]]]
    BY <2>1, <2>4, <1>7, Zenon DEF least, s
  <2>7. \A v \in new : u[1] < v[1] \/ (u[1] = v[1] /\ u[2] <= v[2])
    BY <2>3, <2>4, <2>5 DEF least
  <2> HIDE DEF u
  <2> QED
    BY <2>4, <2>6, <2>7, Zenon DEF FirstIs, new, s
<1> QED
  BY <1>5, <1>6, <1>7
\* No contact under wheel w in the samples i..j, and a spell of it in the first k.
Bare(d, w, i, j) == \A s \in i..j : d[s].patches[w] = 0

SpellIn(d, w, k, n) == \E i, j \in 1..k : i <= j /\ Bare(d, w, i, j) /\ n = j - i + 1

\* The spell that lasts still, and the longest.
SpellsAre(d, w, k, lasting, most) ==
  /\ lasting \in 0..k
  /\ Bare(d, w, k - lasting + 1, k)
  /\ lasting = k \/ d[k - lasting].patches[w] # 0
  /\ most \in Nat
  /\ \A i, j \in 1..k : i <= j /\ Bare(d, w, i, j) => j - i + 1 <= most
  /\ most = 0 \/ SpellIn(d, w, k, most)

LEMMA LargerOfTwo ==
  ASSUME NEW a \in Nat, NEW b \in Nat
  PROVE  Passive!Max({a, b}) = IF a >= b THEN a ELSE b
BY DEF Passive!Max

LEMMA SpellsGoOn ==
  ASSUME NEW d, NEW w, NEW k \in Nat, NEW lasting, NEW most,
         SpellsAre(d, w, k, lasting, most),
         NEW now, now = IF d[k + 1].patches[w] = 0 THEN lasting + 1 ELSE 0,
         NEW more, more = Passive!Max({most, now})
  PROVE  SpellsAre(d, w, k + 1, now, more)
<1>1. lasting \in 0..k /\ now \in 0..k + 1 /\ most \in Nat
  BY DEF SpellsAre
<1>2. more = IF most >= now THEN most ELSE now
  BY <1>1, LargerOfTwo
<1>3. more \in Nat /\ more >= most /\ more >= now
  BY <1>1, <1>2
<1>4. Bare(d, w, (k + 1) - now + 1, k + 1) /\ (now = k + 1 \/ d[(k + 1) - now].patches[w] # 0)
  <2>1. CASE d[k + 1].patches[w] = 0
    <3>1. now = lasting + 1 /\ (k + 1) - now = k - lasting
      BY <1>1, <2>1
    <3>2. \A s \in k - lasting + 1..k + 1 : s \in k - lasting + 1..k \/ s = k + 1
      BY <1>1
    <3>3. Bare(d, w, k - lasting + 1, k) /\ (lasting = k \/ d[k - lasting].patches[w] # 0)
      BY DEF SpellsAre
    <3>4. Bare(d, w, k - lasting + 1, k + 1)
      BY <2>1, <3>2, <3>3 DEF Bare
    <3> QED
      BY <3>1, <3>3, <3>4
  <2>2. CASE d[k + 1].patches[w] # 0
    <3>1. now = 0 /\ (k + 1) - now = k + 1
      BY <2>2
    <3>2. \A s \in (k + 1) + 1..k + 1 : FALSE
      OBVIOUS
    <3> QED
      BY <2>2, <3>1, <3>2 DEF Bare
  <2> QED
    BY <2>1, <2>2
<1>5. ASSUME NEW i \in 1..k + 1, NEW j \in 1..k + 1, i <= j, Bare(d, w, i, j)
      PROVE  j - i + 1 <= more
  <2>1. CASE j \in 1..k
    <3>1. i \in 1..k
      BY <1>5, <2>1
    <3>2. j - i + 1 <= most
      BY <1>5, <2>1, <3>1 DEF SpellsAre
    <3> QED
      BY <1>1, <1>3, <3>2
  <2>2. CASE j = k + 1
    <3>1. d[k + 1].patches[w] = 0
      BY <1>5, <2>2 DEF Bare
    <3>2. now = lasting + 1
      BY <3>1
    <3>3. i > k - lasting
      <4>1. CASE lasting = k
        BY <4>1
      <4>2. CASE lasting # k
        <5>1. d[k - lasting].patches[w] # 0
          BY <4>2 DEF SpellsAre
        <5>2. k - lasting \notin i..j
          BY <5>1, <1>5 DEF Bare
        <5> QED
          BY <5>2, <2>2, <1>1
      <4> QED
        BY <4>1, <4>2
    <3> QED
      BY <1>1, <1>3, <2>2, <3>2, <3>3
  <2> QED
    BY <2>1, <2>2
<1>6. more = 0 \/ SpellIn(d, w, k + 1, more)
  <2>1. CASE more = most /\ most # 0
    <3>1. PICK i \in 1..k, j \in 1..k : i <= j /\ Bare(d, w, i, j) /\ most = j - i + 1
      BY <2>1 DEF SpellsAre, SpellIn
    <3>2. i \in 1..k + 1 /\ j \in 1..k + 1
      OBVIOUS
    <3> QED
      BY <2>1, <3>1, <3>2 DEF SpellIn
  <2>2. CASE more = now /\ now # 0
    <3>1. (k + 1) - now + 1 \in 1..k + 1 /\ k + 1 \in 1..k + 1 /\ (k + 1) - now + 1 <= k + 1
      BY <1>1, <2>2
    <3>2. now = (k + 1) - ((k + 1) - now + 1) + 1
      BY <1>1
    <3> QED
      BY <1>4, <2>2, <3>1, <3>2 DEF SpellIn
  <2> QED
    BY <1>1, <1>2, <2>1, <2>2
<1>7. now \in 0..k + 1
  BY <1>1
<1> QED
  BY <1>3, <1>4, <1>5, <1>6, <1>7 DEF SpellsAre

LEMMA LongestIsMost ==
  ASSUME NEW d, NEW w, NEW k \in Nat, NEW lasting, NEW most,
         SpellsAre(d, w, k, lasting, most),
         NEW S, S = {s \in (1..k) \X (1..k) : s[1] <= s[2] /\ Bare(d, w, s[1], s[2])}
  PROVE  most = Passive!Max({0} \cup {s[2] - s[1] + 1 : s \in S})
<1> DEFINE M == {0} \cup {s[2] - s[1] + 1 : s \in S}
<1>1. most \in Nat
  BY DEF SpellsAre
<1>2. \A x \in M : x \in Int /\ x <= most
  BY <1>1 DEF SpellsAre
<1>3. most \in M
  <2>1. CASE most = 0
    BY <2>1
  <2>2. CASE most # 0
    <3>1. PICK i \in 1..k, j \in 1..k : i <= j /\ Bare(d, w, i, j) /\ most = j - i + 1
      BY <2>2 DEF SpellsAre, SpellIn
    <3>2. <<i, j>> \in S
      BY <3>1
    <3> QED
      BY <3>1, <3>2
  <2> QED
    BY <2>1, <2>2
<1> HIDE DEF M
<1>4. most = Passive!Max(M)
  <2> DEFINE top == Passive!Max(M)
  <2>1. most \in M /\ \A y \in M : most >= y
    BY <1>1, <1>2, <1>3
  <2>2. top \in M /\ \A y \in M : top >= y
    BY <2>1, Zenon DEF Passive!Max
  <2> HIDE DEF top
  <2>3. top \in Int /\ top <= most /\ top >= most
    BY <1>2, <1>3, <2>2
  <2>4. most = top
    BY <1>1, <2>3
  <2> QED
    BY <2>4 DEF top
<1> QED
  BY <1>4 DEF M
\* What is gathered of the first k samples of a run.
Sight == [stations : [Riders -> Int], patches : [1..Wheels -> Nat]]

Found(d, k, from, seen, listed, first, final, lasting, most) ==
  /\ from = IF k = 0 THEN Seeds ELSE d[k].at
  /\ seen \in Seq(Sight) /\ Len(seen) = k
  /\ \A s \in 1..k : seen[s] = [stations |-> d[s].at, patches |-> d[s].patches]
  /\ IsListing(listed, RowsTo(d, k))
  /\ FirstIs(first, Uses(d, k, "before"), d) /\ FirstIs(final, Uses(d, k, "after"), d)
  /\ \A w \in 1..Wheels : SpellsAre(d, w, k, lasting[w], most[w])

NoSpells == [w \in 1..Wheels |-> 0]

PassiveInv ==
  \/ /\ p_stage \in {"construct", "advance"} /\ p_sample = 1
     /\ seeds = Seeds /\ p_observations = <<>> /\ patch_rows = <<>>
     /\ before = NoUse /\ after = NoUse /\ current = NoSpells /\ longest = NoSpells
  \/ p_stage = "rejected"
  \/ /\ p_stage \in {"observe", "published"}
     /\ \E d \in PassiveRuns, k \in 0..Samples :
          /\ dense = d /\ p_sample = k + 1
          /\ p_stage = "published" => k = Samples
          /\ Found(d, k, seeds, p_observations, patch_rows, before, after, current, longest)

LEMMA FoundAtStart ==
  ASSUME NEW d
  PROVE  Found(d, 0, Seeds, <<>>, <<>>, NoUse, NoUse, NoSpells, NoSpells)
<1>1. RowsTo(d, 0) = {} /\ Uses(d, 0, "before") = {} /\ Uses(d, 0, "after") = {}
  BY DEF RowsTo, Uses
<1>2. IsListing(<<>>, RowsTo(d, 0))
  BY <1>1, NothingListed
<1>3. FirstIs(NoUse, Uses(d, 0, "before"), d) /\ FirstIs(NoUse, Uses(d, 0, "after"), d)
  BY <1>1, Zenon DEF FirstIs
<1>4. \A w \in 1..Wheels : SpellsAre(d, w, 0, NoSpells[w], NoSpells[w])
  BY DEF SpellsAre, Bare, NoSpells
<1>5. <<>> \in Seq(Sight) /\ Len(<<>>) = 0 /\ \A s \in 1..0 : FALSE
  OBVIOUS
<1> QED
  BY <1>2, <1>3, <1>4, <1>5, Zenon DEF Found

LEMMA PassiveInit == Passive!Init => PassiveInv
BY Zenon DEF Passive!Init, PassiveInv, NoSpells

\* A projection that is not lost finds each where the run has it.
LEMMA ObservedWhereItIs ==
  ASSUME NEW d \in PassiveRuns, NEW k \in Nat, k < Samples, dense = d, p_sample = k + 1,
         seeds = IF k = 0 THEN Seeds ELSE d[k].at,
         Lost \notin {Passive!Stations[b] : b \in DOMAIN Passive!Stations}
  PROVE  Passive!Stations = d[k + 1].at
<1> DEFINE s == k + 1
<1>1. IsRun(d) /\ s \in 1..Samples /\ (s = 1 <=> k = 0) /\ s - 1 = k
  BY RunsAreRuns, PassiveFacts
<1>2. Passive!Stations = [b \in Riders |-> Project(Place(d[s].at[b]), seeds[b])]
  BY DEF Passive!Stations, Passive!Riders, Riders
<1>3. ASSUME NEW b \in Riders PROVE Passive!Stations[b] = d[s].at[b]
  <2>1. seeds[b] = IF s = 1 THEN Seeds[b] ELSE d[s - 1].at[b]
    BY <1>1
  <2>2. Passive!Stations[b] \in {d[s].at[b], Lost}
    <3> HIDE DEF s
    <3>1. Project(Place(d[s].at[b]), IF s = 1 THEN Seeds[b] ELSE d[s - 1].at[b])
            \in {d[s].at[b], Lost}
      BY <1>1 DEF IsRun
    <3> QED
      BY <1>2, <2>1, <3>1
  <2>3. Passive!Stations[b] # Lost
    BY <1>2
  <2> QED
    BY <2>2, <2>3
<1>4. d[s].at \in [Riders -> Int]
  BY <1>1 DEF IsRun
<1> HIDE DEF s
<1>5. Passive!Stations = d[s].at
  BY <1>2, <1>3, <1>4
<1> QED
  BY <1>5 DEF s

LEMMA ObserveGoesOn ==
  ASSUME NEW d \in PassiveRuns, NEW k \in Nat, dense = d, p_sample = k + 1,
         Found(d, k, seeds, p_observations, patch_rows, before, after, current, longest),
         Passive!Observe
  PROVE  /\ k + 1 <= Samples /\ p_sample' = (k + 1) + 1
         /\ Found(d, k + 1, seeds', p_observations', patch_rows', before', after', current',
                  longest')
<1> DEFINE s == k + 1
<1>1. IsRun(d) /\ k < Samples /\ s \in 1..Samples /\ s # 0 /\ k + 1 <= Samples
  BY RunsAreRuns, PassiveFacts DEF Passive!Observe
<1>2. Passive!Stations = d[s].at
  <2>1. Lost \notin {Passive!Stations[b] : b \in DOMAIN Passive!Stations}
    BY DEF Passive!Observe
  <2>2. seeds = IF k = 0 THEN Seeds ELSE d[k].at
    BY DEF Found
  <2> QED
    BY <1>1, <2>1, <2>2, ObservedWhereItIs
<1>3. d[s].at \in [Riders -> Int] /\ d[s].patches \in [1..Wheels -> Nat]
  BY <1>1 DEF IsRun
<1>4. seeds' = IF s = 0 THEN Seeds ELSE d[s].at
  BY <1>1, <1>2 DEF Passive!Observe, Passive!CarryOn
<1>5. /\ p_observations' \in Seq(Sight) /\ Len(p_observations') = s
      /\ \A i \in 1..s :
           p_observations'[i] = [stations |-> d[i].at, patches |-> d[i].patches]
  <2> DEFINE x == [stations |-> d[s].at, patches |-> d[s].patches]
  <2>1. p_observations' = Append(p_observations, x)
    BY <1>2 DEF Passive!Observe
  <2>2. x \in Sight
    BY <1>3 DEF Sight
  <2>3. /\ p_observations \in Seq(Sight) /\ Len(p_observations) = k
        /\ \A i \in 1..k : p_observations[i] = [stations |-> d[i].at, patches |-> d[i].patches]
    BY DEF Found
  <2> HIDE DEF x
  <2>4. /\ p_observations' \in Seq(Sight) /\ Len(p_observations') = k + 1
        /\ \A i \in 1..k : p_observations'[i] = p_observations[i]
        /\ p_observations'[k + 1] = x
    BY <2>1, <2>2, <2>3, AppendProperties
  <2>5. \A i \in 1..s : i \in 1..k \/ i = k + 1
    OBVIOUS
  <2> QED
    BY <2>3, <2>4, <2>5 DEF x
<1>6. IsListing(patch_rows', RowsTo(d, s))
  <2>1. Passive!RowsOf(s) = RowsAt(d, s)
    BY Zenon DEF Passive!RowsOf, RowsAt
  <2>2. patch_rows' = patch_rows \o RowsAt(d, s)
    BY <2>1 DEF Passive!Observe
  <2>3. IsListing(patch_rows, RowsTo(d, k))
    BY DEF Found
  <2> QED
    BY <1>1, <2>2, <2>3, RowsGoOn
<1>7. FirstIs(before', Uses(d, s, "before"), d)
  <2> DEFINE beyond == {c \in Carriers : Beyond(d[k + 1].at[c], "before")}
  <2>1. beyond = {c \in Carriers : Passive!Stations[c] < LineStart}
    BY <1>2 DEF Beyond
  <2>2. before' = IF before # NoUse \/ beyond = {} THEN before
                  ELSE [carrier |-> Passive!Min(beyond), sample |-> k + 1,
                        station |-> d[k + 1].at[Passive!Min(beyond)]]
    <3> HIDE DEF beyond
    <3>1. before' = Passive!FirstUse(before, beyond)
      BY <2>1 DEF Passive!Observe
    <3> QED
      BY <1>2, <3>1 DEF Passive!FirstUse
  <2>3. FirstIs(before, Uses(d, k, "before"), d)
    BY DEF Found
  <2> HIDE DEF beyond
  <2> QED
    BY <1>1, <2>2, <2>3, FirstUseGoesOn DEF beyond
<1>8. FirstIs(after', Uses(d, s, "after"), d)
  <2> DEFINE beyond == {c \in Carriers : Beyond(d[k + 1].at[c], "after")}
  <2>1. beyond = {c \in Carriers : Passive!Stations[c] > LineEnd}
    BY <1>2 DEF Beyond
  <2>2. after' = IF after # NoUse \/ beyond = {} THEN after
                 ELSE [carrier |-> Passive!Min(beyond), sample |-> k + 1,
                       station |-> d[k + 1].at[Passive!Min(beyond)]]
    <3> HIDE DEF beyond
    <3>1. after' = Passive!FirstUse(after, beyond)
      BY <2>1 DEF Passive!Observe
    <3> QED
      BY <1>2, <3>1 DEF Passive!FirstUse
  <2>3. FirstIs(after, Uses(d, k, "after"), d)
    BY DEF Found
  <2> HIDE DEF beyond
  <2> QED
    BY <1>1, <2>2, <2>3, FirstUseGoesOn DEF beyond
<1>9. \A w \in 1..Wheels : SpellsAre(d, w, s, current'[w], longest'[w])
  <2> TAKE w \in 1..Wheels
  <2>1. /\ current'[w] = IF d[k + 1].patches[w] = 0 THEN current[w] + 1 ELSE 0
        /\ longest'[w] = Passive!Max({longest[w], current'[w]})
    BY DEF Passive!Observe
  <2>2. SpellsAre(d, w, k, current[w], longest[w])
    BY DEF Found
  <2> QED
    BY <2>1, <2>2, SpellsGoOn
<1>10. p_sample' = (k + 1) + 1
  BY DEF Passive!Observe
<1> HIDE DEF s
<1>11. Found(d, s, seeds', p_observations', patch_rows', before', after', current', longest')
  BY <1>4, <1>5, <1>6, <1>7, <1>8, <1>9, Zenon DEF Found
<1> QED
  BY <1>1, <1>10, <1>11 DEF s

LEMMA PassiveStep == PassiveInv /\ [Passive!Next]_(Passive!vars) => PassiveInv'
<1> SUFFICES ASSUME PassiveInv, [Passive!Next]_(Passive!vars) PROVE PassiveInv'
  OBVIOUS
<1>1. CASE Passive!Construct
  <2>1. /\ p_stage = "construct" /\ p_stage' = "advance"
        /\ UNCHANGED <<p_sample, seeds, p_observations, patch_rows, before, after,
                       current, longest>>
    BY <1>1 DEF Passive!Construct, Passive!found
  <2> QED
    BY <2>1 DEF PassiveInv
<1>2. CASE Passive!ConstructFails \/ Passive!AdvanceFails \/ Passive!ObserveFails
  <2>1. p_stage' = "rejected"
    BY <1>2 DEF Passive!ConstructFails, Passive!AdvanceFails, Passive!ObserveFails,
                Passive!IntegrationFails
  <2> QED
    BY <2>1 DEF PassiveInv
<1>3. ASSUME NEW d \in PassiveRuns, Passive!Advance(d) PROVE PassiveInv'
  <2>1. /\ p_stage = "advance" /\ p_stage' = "observe" /\ dense' = d
        /\ UNCHANGED <<p_sample, seeds, p_observations, patch_rows, before, after,
                       current, longest>>
    BY <1>3 DEF Passive!Advance, Passive!found
  <2>2. /\ p_sample' = 1 /\ seeds' = Seeds /\ p_observations' = <<>> /\ patch_rows' = <<>>
        /\ before' = NoUse /\ after' = NoUse /\ current' = NoSpells /\ longest' = NoSpells
    BY <2>1 DEF PassiveInv
  <2>3. Found(d, 0, seeds', p_observations', patch_rows', before', after', current', longest')
    BY <2>2, FoundAtStart
  <2>4. 0 \in 0..Samples /\ p_sample' = 0 + 1 /\ p_stage' # "published"
    BY <2>1, <2>2, PassiveFacts
  <2> QED
    BY <2>1, <2>3, <2>4 DEF PassiveInv
<1>4. CASE Passive!Observe
  <2>1. p_stage = "observe" /\ UNCHANGED <<p_stage, dense>>
    BY <1>4 DEF Passive!Observe
  <2>2. PICK d \in PassiveRuns, k \in 0..Samples :
          /\ dense = d /\ p_sample = k + 1
          /\ Found(d, k, seeds, p_observations, patch_rows, before, after, current, longest)
    BY <2>1 DEF PassiveInv
  <2>3. k \in Nat
    BY PassiveFacts
  <2>4. /\ k + 1 <= Samples /\ p_sample' = (k + 1) + 1
        /\ Found(d, k + 1, seeds', p_observations', patch_rows', before', after', current',
                 longest')
    BY <1>4, <2>2, <2>3, ObserveGoesOn
  <2>5. k + 1 \in 0..Samples
    BY <2>3, <2>4, PassiveFacts
  <2>6. dense' = d /\ p_stage' = "observe"
    BY <2>1, <2>2
  <2> QED
    BY <2>4, <2>5, <2>6 DEF PassiveInv
<1>5. CASE Passive!Publish
  <2>1. /\ p_stage = "observe" /\ p_sample > Samples /\ p_stage' \in {"published", "rejected"}
        /\ UNCHANGED <<dense, p_sample, seeds, p_observations, patch_rows, before, after, current,
                       longest>>
    BY <1>5 DEF Passive!Publish, Passive!found
  <2>2. PICK d \in PassiveRuns, k \in 0..Samples :
          /\ dense = d /\ p_sample = k + 1
          /\ Found(d, k, seeds, p_observations, patch_rows, before, after, current, longest)
    BY <2>1 DEF PassiveInv
  <2>3. k = Samples
    BY <2>1, <2>2, PassiveFacts
  <2>4. dense' = d /\ p_sample' = k + 1
    BY <2>1, <2>2
  <2>5. Found(d, k, seeds', p_observations', patch_rows', before', after', current', longest')
    BY <2>1, <2>2
  <2> QED
    BY <2>1, <2>3, <2>4, <2>5 DEF PassiveInv
<1>6. CASE UNCHANGED Passive!vars
  <2>1. UNCHANGED <<p_stage, dense, p_sample, seeds, p_observations, patch_rows, before, after,
                    current, longest>>
    BY <1>6 DEF Passive!vars, Passive!found
  <2> QED
    BY <2>1 DEF PassiveInv
<1> QED
  BY <1>1, <1>2, <1>3, <1>4, <1>5, <1>6 DEF Passive!Next

LEMMA PassiveParts == PassiveInv => Passive!RecordTellsTheRun
<1> SUFFICES ASSUME PassiveInv, p_stage = "published" PROVE Passive!RecordTellsTheRun
  BY DEF Passive!RecordTellsTheRun
<1>1. PICK d \in PassiveRuns :
        /\ dense = d
        /\ Found(d, Samples, seeds, p_observations, patch_rows, before, after, current, longest)
  BY DEF PassiveInv
<1>2. IsRun(d) /\ Samples \in Nat /\ Wheels \in Nat
  BY RunsAreRuns, PassiveFacts
<1>3. /\ Len(p_observations) = Samples
      /\ \A s \in 1..Samples :
           /\ p_observations[s].patches = d[s].patches
           /\ \A b \in Riders : p_observations[s].stations[b] = d[s].at[b]
  BY <1>1 DEF Found
<1>4. IsListing(patch_rows, RowsTo(d, Samples))
  BY <1>1 DEF Found
<1> DEFINE n == Len(patch_rows)
<1>5. n \in Nat /\ DOMAIN patch_rows = 1..n /\ patch_rows \in Seq(Triples)
  BY <1>4, LenProperties DEF IsListing
<1>6. Passive!ToSet(patch_rows)
        = {r \in (1..Samples) \X (1..Wheels) \X (1..n) : r[3] <= d[r[1]].patches[r[2]]}
  <2> DEFINE S == {r \in (1..Samples) \X (1..Wheels) \X (1..n) : r[3] <= d[r[1]].patches[r[2]]}
  <2>1. \A r : r \in Passive!ToSet(patch_rows) <=> \E i \in 1..n : patch_rows[i] = r
    BY <1>5, Zenon DEF Passive!ToSet
  <2>2. ASSUME NEW i \in 1..n PROVE patch_rows[i] \in S
    <3>1. PICK r : r = patch_rows[i]
      OBVIOUS
    <3>2. r \in RowsTo(d, Samples) /\ r[3] <= i
      BY <1>4, <3>1 DEF IsListing
    <3>3. /\ r = <<r[1], r[2], r[3]>>
          /\ r[1] \in 1..Samples /\ r[2] \in 1..Wheels /\ r[3] \in 1..d[r[1]].patches[r[2]]
      BY <3>2 DEF RowsTo, Triples
    <3>4. d[r[1]].patches[r[2]] \in Nat
      BY <1>2, <3>3 DEF IsRun
    <3>5. r[3] \in 1..n /\ r[3] <= d[r[1]].patches[r[2]]
      BY <1>5, <3>2, <3>3, <3>4
    <3> HIDE DEF n
    <3> QED
      BY <3>1, <3>3, <3>5
  <2>3. ASSUME NEW r \in S PROVE \E i \in 1..n : patch_rows[i] = r
    <3>1. r = <<r[1], r[2], r[3]>> /\ r[1] \in 1..Samples /\ r[2] \in 1..Wheels /\ r[3] \in 1..n
          /\ r[3] <= d[r[1]].patches[r[2]]
      OBVIOUS
    <3>2. d[r[1]].patches[r[2]] \in Nat
      BY <1>2, <3>1 DEF IsRun
    <3>3. r[3] \in 1..d[r[1]].patches[r[2]] /\ r[3] \in Nat /\ r[1] \in Nat /\ r[2] \in Nat
      BY <1>2, <1>5, <3>1, <3>2
    <3>4. r \in Triples
      BY <3>1, <3>3 DEF Triples
    <3>5. r \in RowsTo(d, Samples)
      BY <3>1, <3>3, <3>4 DEF RowsTo
    <3> QED
      BY <1>4, <3>5 DEF IsListing
  <2> HIDE DEF S
  <2>4. \A r : r \in Passive!ToSet(patch_rows) <=> r \in S
    BY <2>1, <2>2, <2>3
  <2>5. Passive!ToSet(patch_rows) = S
    BY <2>4
  <2> QED
    BY <2>5 DEF S
<1>7. \A i, j \in DOMAIN patch_rows : i < j => Earlier(patch_rows[i], patch_rows[j])
  BY <1>4, <1>5 DEF IsListing
<1>8. Passive!FirstOf(before, {u \in Passive!Rode : dense[u[1]].at[u[2]] < LineStart})
  <2>1. {u \in Passive!Rode : dense[u[1]].at[u[2]] < LineStart} = Uses(d, Samples, "before")
    BY <1>1 DEF Passive!Rode, Uses, Beyond
  <2>2. FirstIs(before, Uses(d, Samples, "before"), d)
    BY <1>1 DEF Found
  <2> QED
    BY <1>1, <2>1, <2>2 DEF Passive!FirstOf, FirstIs
<1>9. Passive!FirstOf(after, {u \in Passive!Rode : dense[u[1]].at[u[2]] > LineEnd})
  <2>1. {u \in Passive!Rode : dense[u[1]].at[u[2]] > LineEnd} = Uses(d, Samples, "after")
    BY <1>1 DEF Passive!Rode, Uses, Beyond
  <2>2. FirstIs(after, Uses(d, Samples, "after"), d)
    BY <1>1 DEF Found
  <2> QED
    BY <1>1, <2>1, <2>2 DEF Passive!FirstOf, FirstIs
<1>10. \A w \in 1..Wheels :
         longest[w] = Passive!Max({0} \cup {s[2] - s[1] + 1 : s \in Passive!Spells(w)})
  <2> TAKE w \in 1..Wheels
  <2>1. SpellsAre(d, w, Samples, current[w], longest[w])
    BY <1>1 DEF Found
  <2>2. Passive!Spells(w)
          = {s \in (1..Samples) \X (1..Samples) : s[1] <= s[2] /\ Bare(d, w, s[1], s[2])}
    BY <1>1 DEF Passive!Spells, Passive!Without, Bare
  <2> QED
    BY <1>2, <2>1, <2>2, LongestIsMost
<1> QED
  BY <1>1, <1>3, <1>6, <1>7, <1>8, <1>9, <1>10
  DEF Passive!RecordTellsTheRun, Passive!Riders, Riders, Earlier

LEMMA PassiveSteps ==
  /\ MCInit => Passive!Init
  /\ [MCNext]_<<started, vars, runVars, cruiseVars, qualificationVars, realtimeVars, passiveVars,
                lawVars, tableVars>> => [Passive!Next]_(Passive!vars)
<1>1. MCInit => Passive!Init
  BY DEF MCInit
<1>2. MCNext => [Passive!Next]_(Passive!vars)
  BY DEF MCNext, passiveVars, Passive!vars, Passive!found
<1> QED
  BY <1>1, <1>2 DEF passiveVars, Passive!vars, Passive!found

(***************************************************************************)
(* The record of a passive run, for any vehicle and any line, and for any  *)
(* run along it that a projection follows or loses: published it says of   *)
(* each sample where everyone was riding, each patch once and in order,    *)
(* the first use of the line beyond either end, and of each wheel the      *)
(* longest spell without contact.                                          *)
(***************************************************************************)
THEOREM RecordAlwaysTellsTheRun == MCSpec => []Passive!RecordTellsTheRun
BY PassiveSteps, PassiveInit, PassiveStep, PassiveParts, PTL DEF MCSpec
=============================================================================
