---------------------------- MODULE GuidanceLoop ----------------------------
(***************************************************************************)
(* IrwGuidanceControlEventSession, the accepted runtime context it writes  *)
(* held torques into, and the continuous-state advancer that integrates    *)
(* under them, driven by a run that may call their operations in any order *)
(* the session lets it.  The advancer is taken at its promise, the actions *)
(* of AcceptedAdvance; SystemAdvancer implements them.                     *)
(*                                                                         *)
(* The run keeps four rules the experiment and the qualification tool      *)
(* keep: it advances only after RequireReadyToAdvance and never beyond the *)
(* next event, it confirms only a synchronization that succeeded, and it   *)
(* changes the accepted context through the session alone.                 *)
(***************************************************************************)
EXTENDS Trajectories

CONSTANTS
  Period,          \* sample_period_seconds_, in instants
  Memory,          \* controller_state_ and conditioner memory together
  InitialMemory,   \* the memory of a new session
  Control(_, _)    \* ComputeCandidate: [torques, memory] of a state and a memory

ASSUME ControlAssumption ==
  /\ Period \in Nat \ {0}
  /\ InitialMemory \in Memory
  /\ \A s \in State, m \in Memory :
       Control(s, m) \in [torques : Local, memory : Memory]

VARIABLES
  accepted, blocked, unsynchronized, returned,  \* see AcceptedAdvance
  phase,    \* phase_
  ordinal,  \* next_periodic_event_ordinal_, 0 before the initialization
  memory    \* controller_state_ and conditioner_memory_newton_metres_

advancerVars == <<accepted, blocked, unsynchronized, returned>>
sessionVars  == <<phase, ordinal, memory>>
vars == <<accepted, blocked, unsynchronized, returned, phase, ordinal, memory>>

Advancer == INSTANCE AcceptedAdvance

Phase == {"initialization_required", "synchronization_required", "ready_to_advance",
          "periodic_event_required", "terminal_event_committed"}

TypeOK ==
  /\ accepted \in Context
  /\ blocked \in BOOLEAN /\ unsynchronized \in BOOLEAN
  /\ IsSamples(returned)
  /\ phase \in Phase /\ ordinal \in Nat /\ memory \in Memory
  /\ phase = "initialization_required" <=> ordinal = 0

Init ==
  /\ Advancer!Init
  /\ phase = "initialization_required"
  /\ ordinal = 0
  /\ memory = InitialMemory

NextEventTime == ordinal * Period

Candidate == Control(accepted.state, memory)

\* The candidate is complete and the context has taken the torque vector: only
\* then do the memories and the ordinal move.
CommitEvent(next) ==
  /\ Advancer!SetLocal(Candidate.torques)
  /\ memory' = Candidate.memory
  /\ ordinal' = ordinal + 1
  /\ phase' = next
  /\ unsynchronized' = TRUE
  /\ returned' = NoSamples
  /\ UNCHANGED blocked

\* A failed initialization changes nothing and is no step.
ApplyInitializationUpdate ==
  /\ phase = "initialization_required"
  /\ accepted.time = 0
  /\ CommitEvent("synchronization_required")

\* A slip EventDue does not make: the accepted time is not compared.
EventDueAtAnyTime == phase \in {"ready_to_advance", "periodic_event_required"}

\* The phase and the time a scheduled update insists on.
EventDue ==
  /\ phase \in {"ready_to_advance", "periodic_event_required"}
  /\ accepted.time = NextEventTime

ApplyScheduledUpdate(terminal) ==
  /\ EventDue
  /\ CommitEvent(IF terminal THEN "terminal_event_committed" ELSE "synchronization_required")

\* The observation, the evaluator, the controller or the conditioner throws, or
\* the context refuses the torques: exactly this event stays due.
ScheduledUpdateFails ==
  /\ EventDue
  /\ phase' = "periodic_event_required"
  /\ UNCHANGED <<advancerVars, ordinal, memory>>

RequireReadyToAdvance == phase = "ready_to_advance"

Advance(target, request) ==
  /\ RequireReadyToAdvance
  /\ target <= NextEventTime
  /\ Advancer!Advance(target, request)
  /\ UNCHANGED sessionVars

AdvanceFails ==
  /\ RequireReadyToAdvance
  /\ accepted.time < NextEventTime
  /\ ~blocked
  /\ Advancer!Fail
  /\ UNCHANGED sessionVars

\* The construction of the advancer, or SynchronizeAfterAcceptedContextChange.
Synchronize ==
  /\ ordinal > 0
  /\ Advancer!Synchronize
  /\ UNCHANGED sessionVars

SynchronizeFails ==
  /\ ordinal > 0
  /\ Advancer!Fail
  /\ UNCHANGED sessionVars

ConfirmBackendSynchronized ==
  /\ phase = "synchronization_required"
  /\ ~blocked /\ ~unsynchronized
  /\ phase' = "ready_to_advance"
  /\ UNCHANGED <<advancerVars, ordinal, memory>>

Next ==
  \/ ApplyInitializationUpdate
  \/ \E terminal \in BOOLEAN : ApplyScheduledUpdate(terminal)
  \/ ScheduledUpdateFails
  \/ \E target \in Time : \E request \in Requests(accepted.time, target) :
       Advance(target, request)
  \/ AdvanceFails
  \/ Synchronize
  \/ SynchronizeFails
  \/ ConfirmBackendSynchronized

Spec == Init /\ [][Next]_vars
-----------------------------------------------------------------------------
Loop == INSTANCE SampledDataLoop WITH
  plant <- [time |-> accepted.time, state |-> accepted.state],
  held  <- accepted.local,
  over  <- (phase = "terminal_event_committed")

(***************************************************************************)
(* Whatever fails and is retried, the controlled run is the sampled-data   *)
(* loop: one event per instant of the grid, never skipped, never applied   *)
(* twice, its memory advanced once, and every piece of the trajectory in   *)
(* between integrated under the torques of the event before it.            *)
(***************************************************************************)
ImplementsLoop == Loop!Spec

(***************************************************************************)
(* The session never lets the run advance on a backend that has not seen   *)
(* the held torques of the last event.                                     *)
(***************************************************************************)
ReadyIsSynchronized == RequireReadyToAdvance => ~unsynchronized

(***************************************************************************)
(* The accepted time is between the last event and the next, and at the    *)
(* last event itself until the backend is synchronized, so an event that   *)
(* failed can always still be applied and none has been overtaken.         *)
(***************************************************************************)
EventsStayReachable ==
  ordinal > 0 =>
    /\ NextEventTime - Period <= accepted.time /\ accepted.time <= NextEventTime
    /\ phase \in {"synchronization_required", "terminal_event_committed"} =>
         accepted.time = NextEventTime - Period
    /\ phase = "periodic_event_required" => accepted.time = NextEventTime
=============================================================================
