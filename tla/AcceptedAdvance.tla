-------------------------- MODULE AcceptedAdvance --------------------------
(***************************************************************************)
(* What SystemContinuousStateAdvancer promises its client, as the comments *)
(* of system_continuous_state_advancer.h and the early returns of the code *)
(* state it: an advance either accepts one endpoint whole, or leaves the   *)
(* accepted context alone and blocks the next one until a synchronization. *)
(*                                                                         *)
(* The client owns the accepted context and may change it between calls.   *)
(* Nothing tells the advancer: unsynchronized remembers that it happened,  *)
(* and what is promised about the trajectory holds only while it has not.  *)
(***************************************************************************)
EXTENDS Trajectories

VARIABLES
  accepted,        \* the accepted runtime context
  blocked,         \* requires_synchronization_
  unsynchronized,  \* the client changed accepted since the last synchronization
  returned         \* the dense samples the client holds, a state at each instant

vars == <<accepted, blocked, unsynchronized, returned>>

Init ==
  /\ \E s \in Installed, l \in Local :
       accepted = [time |-> 0, state |-> s, local |-> l, hints |-> s]
  /\ blocked = FALSE
  /\ unsynchronized = FALSE
  /\ returned = NoSamples

\* The client replaces the time and the state, and resolves the projection
\* anew or leaves the hints; or it replaces the context-local data.
SetState(t, s) ==
  \E h \in {accepted.hints, s} :
    accepted' = [accepted EXCEPT !.time = t, !.state = s, !.hints = h]

SetLocal(l) == accepted' = [accepted EXCEPT !.local = l]

ClientChanges ==
  /\ \/ \E t \in Time, s \in Installed : SetState(t, s)
     \/ \E l \in Local : SetLocal(l)
  /\ unsynchronized' = TRUE
  /\ returned' = NoSamples
  /\ UNCHANGED blocked

\* The matrix belongs to the client, which may drop it.
Discard ==
  /\ returned' = NoSamples
  /\ UNCHANGED <<accepted, blocked, unsynchronized>>

\* Where an advance may end, and what it may return: a client that keeps the
\* contract gets the trajectory of its own state under its own data.
OnTrajectory(t) == Flow(accepted.state, accepted.local, accepted.time, t)

Ends(target) == IF unsynchronized THEN State ELSE {OnTrajectory(target)}

Matrices(target, request, end) ==
  IF request = {} THEN {NoSamples}
  ELSE IF unsynchronized
       THEN {m \in [request -> State] : m[accepted.time] = accepted.state /\ m[target] = end}
       ELSE {[t \in request |-> OnTrajectory(t)]}

\* The accepted endpoint and the samples are one transaction.
Advance(target, request) ==
  /\ ~blocked
  /\ accepted.time < target
  /\ \E end \in Ends(target) :
       /\ accepted' = [accepted EXCEPT !.time = target, !.state = end, !.hints = end]
       /\ returned' \in Matrices(target, request, end)
  /\ UNCHANGED <<blocked, unsynchronized>>

\* A request for the accepted time itself does not enter the backend.
SampleNow ==
  /\ ~blocked
  /\ returned' = [t \in {accepted.time} |-> accepted.state]
  /\ UNCHANGED <<accepted, blocked, unsynchronized>>

\* A failed advance, or a failed synchronization.
Fail ==
  /\ blocked' = TRUE
  /\ returned' = NoSamples
  /\ UNCHANGED <<accepted, unsynchronized>>

Synchronize ==
  /\ blocked' = FALSE
  /\ unsynchronized' = FALSE
  /\ returned' = NoSamples
  /\ UNCHANGED accepted

Next ==
  \/ ClientChanges
  \/ Discard
  \/ \E target \in Time : \E request \in Requests(accepted.time, target) : Advance(target, request)
  \/ SampleNow
  \/ Fail
  \/ Synchronize

Spec == Init /\ [][Next]_vars
=============================================================================
