--------------------------- MODULE SystemAdvancer ---------------------------
(***************************************************************************)
(* SystemContinuousStateAdvancer::Implementation in libs/integrators, with *)
(* the client that owns the accepted context.  One public advance takes    *)
(* several internal steps of a numerical backend.  The backend integrates  *)
(* in a candidate context of its own, which its right-hand side overwrites *)
(* at every trial; each internal endpoint is installed there explicitly,   *)
(* and the accepted context is written once, after the last.  Any of the   *)
(* calls on the way may throw.                                             *)
(*                                                                         *)
(* One thread: the client acts between calls (call.phase = "idle").        *)
(***************************************************************************)
EXTENDS Trajectories

CONSTANTS
  Trial,    \* a state some trial of the right-hand side left behind
  MaxSteps  \* maximum_internal_steps_per_advance

ASSUME AdvancerAssumption == Trial \in State /\ MaxSteps \in Nat \ {0}

VARIABLES
  accepted,                  \* accepted_context_, owned by the client
  candidate,                 \* candidate_context_, also the backend's RHS context
  candidate_state,           \* candidate_state_
  backend,                   \* the backend's endpoint, dense interval, usability
  requires_synchronization,  \* requires_synchronization_
  call,                      \* the locals of the AdvanceTo under way
  returned,                  \* the dense samples the client holds from its last call
  unsynchronized             \* history: the client changed accepted since the
                             \* last successful synchronization

vars == <<accepted, candidate, candidate_state, backend,
          requires_synchronization, call, returned, unsynchronized>>

\* The numerical backend: its endpoint, the start of its dense interval, and
\* whether a failure made it demand a reinitialization.
Backend == [time : Time, state : State, denseTime : Time, denseState : State,
            usable : BOOLEAN]

Phase == {"idle", "stepping", "returned", "installed", "reached"}

TypeOK ==
  /\ accepted \in Context
  /\ candidate \in Context
  /\ candidate_state \in State
  /\ backend \in Backend
  /\ requires_synchronization \in BOOLEAN
  /\ call \in [phase : Phase, target : Time, request : SUBSET Time,
               steps : 0..MaxSteps, expected : Time, columns : {call.columns}]
  /\ IsSamples(call.columns)
  /\ IsSamples(returned)
  /\ unsynchronized \in BOOLEAN

NoCall == [phase |-> "idle", target |-> 0, request |-> {}, steps |-> 0,
           expected |-> 0, columns |-> NoSamples]

StartingAt(t, s) ==
  [time |-> t, state |-> s, denseTime |-> t, denseState |-> s, usable |-> TRUE]

\* The constructor has run on a context the client has set up.
Init ==
  /\ \E s \in Installed, l \in Local :
       accepted = [time |-> 0, state |-> s, local |-> l, hints |-> s]
  /\ candidate = accepted
  /\ candidate_state = accepted.state
  /\ backend = StartingAt(accepted.time, accepted.state)
  /\ requires_synchronization = FALSE
  /\ call = NoCall
  /\ returned = NoSamples
  /\ unsynchronized = FALSE

Idle == call.phase = "idle"

(***************************************************************************)
(* The client                                                              *)
(***************************************************************************)

\* SetTimeAndContinuousState leaves the hints of the context as they are,
\* SetTimeContinuousStateAndWheelRailProjectionHints replaces them too.
SetState(t, s) ==
  \E h \in {accepted.hints, s} :
    accepted' = [accepted EXCEPT !.time = t, !.state = s, !.hints = h]

\* SetHeldIndependentWheelActiveTorques, SetNominalForce, CopyContextLocalData.
SetLocal(l) == accepted' = [accepted EXCEPT !.local = l]

ClientChanges ==
  /\ Idle
  /\ \/ \E t \in Time, s \in Installed : SetState(t, s)
     \/ \E l \in Local : SetLocal(l)
  /\ unsynchronized' = TRUE
  /\ returned' = NoSamples
  /\ UNCHANGED <<candidate, candidate_state, backend, requires_synchronization, call>>

(***************************************************************************)
(* AdvanceToImpl.  A call with arguments out of the contract, or while     *)
(* requires_synchronization_ is set, throws before anything is written and *)
(* is no step.                                                             *)
(***************************************************************************)
Advance(target, request) ==
  /\ Idle
  /\ ~requires_synchronization
  /\ accepted.time < target
  /\ call' = [phase |-> "stepping", target |-> target, request |-> request,
              steps |-> 0, expected |-> accepted.time,
              columns |-> IF request = {} THEN NoSamples
                          ELSE [t \in {accepted.time} |-> accepted.state]]
  /\ returned' = NoSamples
  /\ UNCHANGED <<accepted, candidate, candidate_state, backend,
                 requires_synchronization, unsynchronized>>

SampleNow ==
  /\ Idle
  /\ ~requires_synchronization
  /\ returned' = [t \in {accepted.time} |-> accepted.state]
  /\ UNCHANGED <<accepted, candidate, candidate_state, backend,
                 requires_synchronization, call, unsynchronized>>

\* The handler around the internal steps: block, and rethrow.
Abort ==
  /\ requires_synchronization' = TRUE
  /\ call' = NoCall
  /\ UNCHANGED <<accepted, returned, unsynchronized>>

\* The work budget counts successful internal steps of one public advance.
WithinBudget == call.steps < MaxSteps

BudgetExhausted ==
  /\ call.phase = "stepping"
  /\ ~WithinBudget
  /\ Abort
  /\ UNCHANGED <<candidate, candidate_state, backend>>

\* The right-hand side leaves the candidate at the trial that came last.
Pollute(t) == candidate' = [candidate EXCEPT !.time = t, !.state = Trial]

Endpoint(end) == Flow(backend.state, candidate.local, backend.time, end)

\* One successful internal step of the backend, which knows only its own
\* endpoint; asked for the instant it is at, it answers with an empty step.
BackendSteps(end) ==
  /\ call.phase = "stepping"
  /\ WithinBudget
  /\ backend.usable
  /\ backend.time <= call.target
  /\ end \in backend.time..call.target
  /\ end = backend.time <=> call.target = backend.time
  /\ backend' = [time |-> end, state |-> Endpoint(end), usable |-> TRUE,
                 denseTime |-> backend.time, denseState |-> backend.state]
  /\ candidate_state' = Endpoint(end)
  /\ IF end = backend.time THEN UNCHANGED candidate ELSE Pollute(end)
  /\ call' = [call EXCEPT !.phase = "returned", !.steps = @ + 1]
  /\ UNCHANGED <<accepted, requires_synchronization, returned, unsynchronized>>

\* The backend throws, before it entered the step or after.
BackendFails ==
  /\ call.phase = "stepping"
  /\ WithinBudget
  /\ \E u \in {backend.usable, FALSE} : backend' = [backend EXCEPT !.usable = u]
  /\ Pollute(call.target)
  /\ Abort
  /\ UNCHANGED candidate_state

\* Continuity is checked against the preceding endpoint, not the candidate.
Contiguous ==
  /\ backend.denseTime = call.expected
  /\ backend.denseTime < backend.time
  /\ backend.time <= call.target

EndpointRefused ==
  /\ call.phase = "returned"
  /\ ~Contiguous
  /\ Abort
  /\ UNCHANGED <<candidate, candidate_state, backend>>

\* The instants the new dense interval answers; the target is not one of them.
Covered == {t \in call.request \ {call.target} :
              call.expected < t /\ t <= backend.time}

DenseState(t) == Flow(backend.denseState, candidate.local, backend.denseTime, t)

\* The candidate with the endpoint the backend returned.
AtEndpoint == [candidate EXCEPT !.time = backend.time, !.state = candidate_state]

InstallEndpoint ==
  /\ call.phase = "returned"
  /\ Contiguous
  /\ candidate' = AtEndpoint
  /\ call' = [call EXCEPT !.phase = "installed",
       !.columns = [t \in DOMAIN @ \cup Covered |->
                      IF t \in Covered THEN DenseState(t) ELSE @[t]]]
  /\ UNCHANGED <<accepted, candidate_state, backend, requires_synchronization,
                 returned, unsynchronized>>

\* A dense state cannot be computed, or the model refuses the endpoint.
InstallFails ==
  /\ call.phase = "returned"
  /\ Contiguous
  /\ Abort
  /\ UNCHANGED <<candidate, candidate_state, backend>>

\* UpdateWheelRailProjectionStationHints projects from the state installed.
UpdateHints ==
  /\ call.phase = "installed"
  /\ candidate' = [candidate EXCEPT !.hints = candidate.state]
  /\ call' = [call EXCEPT !.expected = backend.time,
       !.phase = IF backend.time = call.target THEN "reached" ELSE "stepping"]
  /\ UNCHANGED <<accepted, candidate_state, backend, requires_synchronization,
                 returned, unsynchronized>>

\* A carrier's projection fails. All of them are computed in the workspace
\* before the first hint is stored, so the hints stay those of one state.
UpdateHintsFails ==
  /\ call.phase = "installed"
  /\ Abort
  /\ UNCHANGED <<candidate, candidate_state, backend>>

\* The accepted context is written whole. It has just been written to the
\* candidate, so the model does not refuse it; had a sample been left out the
\* code would throw here instead.
Commit ==
  /\ call.phase = "reached"
  /\ call.request = {} \/ DOMAIN call.columns = call.request \ {call.target}
  /\ accepted' = [accepted EXCEPT !.time = call.target, !.state = candidate_state,
                                  !.hints = candidate.hints]
  /\ returned' = IF call.request = {} THEN NoSamples
                 ELSE [t \in call.request |->
                         IF t = call.target THEN candidate_state ELSE call.columns[t]]
  /\ call' = NoCall
  /\ UNCHANGED <<candidate, candidate_state, backend, requires_synchronization,
                 unsynchronized>>

(***************************************************************************)
(* SynchronizeAfterAcceptedContextChange.  Only the last of its calls, the *)
(* reinitialization of the backend, evaluates the right-hand side and so   *)
(* can fail; what precedes it has then already been written.               *)
(***************************************************************************)
\* Mutant of Recopy: the context-local data is left behind.
RecopyStateOnly ==
  /\ Idle
  /\ candidate_state' = accepted.state
  /\ candidate' = [accepted EXCEPT !.local = candidate.local]
  /\ returned' = NoSamples
  /\ UNCHANGED <<accepted, call>>

Recopy ==
  /\ Idle
  /\ candidate_state' = accepted.state
  /\ candidate' = accepted
  /\ returned' = NoSamples
  /\ UNCHANGED <<accepted, call>>

Synchronize ==
  /\ Recopy
  /\ backend' = StartingAt(accepted.time, accepted.state)
  /\ requires_synchronization' = FALSE
  /\ unsynchronized' = FALSE

SynchronizeFails ==
  /\ Recopy
  /\ \E u \in {backend.usable, FALSE} : backend' = [backend EXCEPT !.usable = u]
  /\ requires_synchronization' = TRUE
  /\ UNCHANGED unsynchronized

Next ==
  \/ ClientChanges
  \/ \E target \in Time : \E request \in Requests(accepted.time, target) :
       Advance(target, request)
  \/ SampleNow
  \/ BudgetExhausted
  \/ \E end \in Time : BackendSteps(end)
  \/ BackendFails
  \/ EndpointRefused
  \/ InstallEndpoint
  \/ InstallFails
  \/ UpdateHints
  \/ UpdateHintsFails
  \/ Commit
  \/ Synchronize
  \/ SynchronizeFails

Spec == Init /\ [][Next]_vars
-----------------------------------------------------------------------------
Promise == INSTANCE AcceptedAdvance WITH blocked <- requires_synchronization

(***************************************************************************)
(* However many internal steps an advance takes and wherever it throws,    *)
(* the client sees a transaction: the accepted context and the dense       *)
(* samples move together to the target along the trajectory of the         *)
(* accepted state under the accepted data, or not at all, and after a      *)
(* failure nothing advances until a synchronization has succeeded.         *)
(***************************************************************************)
Implements == Promise!Spec

(***************************************************************************)
(* The next internal step, and the accepted context, start the projection  *)
(* from the internal endpoint that precedes them, never from a trial of    *)
(* the right-hand side and never from an earlier endpoint.                 *)
(***************************************************************************)
HintsFollowEndpoints ==
  call.phase = "reached" \/ (call.phase = "stepping" /\ call.steps > 0)
    => candidate.hints = backend.state

(***************************************************************************)
(* Whenever an advance is not blocked it will run on what the client sees: *)
(* the backend is usable, and, if the client has told of its changes, it   *)
(* stands at the accepted endpoint with the accepted data and projection,  *)
(* whatever failed advances and failed synchronizations came before.       *)
(***************************************************************************)
ReadyMeansReady ==
  Idle /\ ~requires_synchronization =>
    /\ backend.usable
    /\ unsynchronized \/
         /\ <<backend.time, backend.state>> = <<accepted.time, accepted.state>>
         /\ <<candidate.local, candidate.hints>> = <<accepted.local, accepted.hints>>
=============================================================================
