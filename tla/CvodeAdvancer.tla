---------------------------- MODULE CvodeAdvancer ----------------------------
(***************************************************************************)
(* CvodeContinuousStateAdvancer: the adapter around CVODE's one-step mode. *)
(* The kernel calls back for right-hand sides and, where a provider is     *)
(* attached, for Jacobians; it may go on after a recoverable failure with  *)
(* a shorter step, and gives up at once after a fatal one.  The kernel     *)
(* itself is external: it takes any sequence of callbacks its manual       *)
(* allows.  Instants are exact.                                            *)
(***************************************************************************)
EXTENDS Integers

CONSTANTS
  Horizon,    \* the last instant
  Parallel    \* whether a dense Jacobian provider is attached

CvodeAssumption == Horizon \in Nat /\ Parallel \in BOOLEAN

Time == 0..Horizon
Failures == {"recoverable", "fatal"}

VARIABLES
  publicTime,  \* public_time_seconds_, with it public_state_
  blocked,     \* needs_reinitialization_
  dense,       \* dense_interval_, none or one
  exception,   \* backend_exception_
  kernel,      \* the kernel's time, and what it is at
  stop,        \* the stop of the call in progress
  last,        \* how the last callback of the call ended
  thrown       \* what the last call threw

vars == <<publicTime, blocked, dense, exception, kernel, stop, last, thrown>>

TypeOK ==
  /\ publicTime \in Time /\ blocked \in BOOLEAN
  /\ dense = {} \/ \E s, e \in Time : s < e /\ dense = {[start |-> s, end |-> e]}
  /\ exception \in {"none"} \cup Failures
  /\ kernel \in [time : Time, at : {"rest", "step", "end"}]
  /\ stop \in Time
  /\ last \in {"none", "success"} \cup Failures
  /\ thrown \in {"none", "numerical"} \cup Failures

Init ==
  /\ publicTime \in Time /\ blocked = FALSE /\ dense = {}
  /\ exception = "none"
  /\ kernel = [time |-> publicTime, at |-> "rest"]
  /\ stop = publicTime /\ last = "none" /\ thrown = "none"

\* A slip MarkBackendFailure does not make: the dense output stays readable.
MarkOnly ==
  /\ blocked' = TRUE
  /\ UNCHANGED dense

MarkBackendFailure ==
  /\ blocked' = TRUE
  /\ dense' = {}

\* AdvanceOneInternalStepToward up to the kernel; a stop at the current time
\* returns at once.
Advance(end) ==
  /\ kernel.at = "rest" /\ ~blocked
  /\ publicTime < end
  /\ dense' = {}
  /\ exception' = "none" /\ last' = "none" /\ thrown' = "none"
  /\ stop' = end
  /\ kernel' = [kernel EXCEPT !.at = "step"]
  /\ UNCHANGED <<publicTime, blocked>>

\* CVodeSetStopTime refuses.
AdvanceRefused(end) ==
  /\ kernel.at = "rest" /\ ~blocked
  /\ publicTime < end
  /\ exception' = "none" /\ last' = "none"
  /\ MarkBackendFailure
  /\ thrown' = "numerical"
  /\ UNCHANGED <<publicTime, kernel, stop>>

\* A slip the callbacks do not make: an exception outlives a later success.
KeepsFirst(status) == IF status = "success" THEN exception ELSE status

\* EvaluateRhs, EvaluateDenseJacobian
Keeps(status) == IF status = "success" THEN "none" ELSE status

Callback(status) ==
  /\ kernel.at = "step" /\ last # "fatal"
  /\ exception' = Keeps(status)
  /\ last' = status
  /\ UNCHANGED <<publicTime, blocked, dense, kernel, stop, thrown>>

EvaluateRhs(status) == Callback(status)

\* The exception of the lowest column that threw, or the callback's own.
EvaluateDenseJacobian(status) == Parallel /\ Callback(status)

\* The kernel completes a step, with or without a refusal on the way.
KernelSteps(end) ==
  /\ kernel.at = "step" /\ last \notin {"none", "fatal"}
  /\ end > kernel.time /\ end <= stop
  /\ kernel' = [time |-> end, at |-> "end"]
  /\ exception' = "none"
  /\ UNCHANGED <<publicTime, blocked, dense, stop, last, thrown>>

\* It gives up, for a callback's sake or its own.
KernelFails ==
  /\ kernel.at = "step"
  /\ kernel' = [kernel EXCEPT !.at = "rest"]
  /\ MarkBackendFailure
  /\ thrown' = IF exception # "none" THEN exception ELSE "numerical"
  /\ UNCHANGED <<publicTime, exception, stop, last>>

\* The end of AdvanceOneInternalStepToward, and its checks of the kernel.
Publish ==
  /\ kernel.at = "end"
  /\ publicTime' = kernel.time
  /\ dense' = {[start |-> publicTime, end |-> kernel.time]}
  /\ kernel' = [kernel EXCEPT !.at = "rest"]
  /\ UNCHANGED <<blocked, exception, stop, last, thrown>>

PublishRefused ==
  /\ kernel.at = "end"
  /\ kernel' = [kernel EXCEPT !.at = "rest"]
  /\ MarkBackendFailure
  /\ thrown' = "numerical"
  /\ UNCHANGED <<publicTime, exception, stop, last>>

Reinitialize(t) ==
  /\ kernel.at = "rest"
  /\ dense' = {}
  /\ exception' = "none" /\ last' = "none" /\ thrown' = "none"
  /\ publicTime' = t
  /\ kernel' = [kernel EXCEPT !.time = t]
  /\ blocked' = FALSE
  /\ UNCHANGED stop

\* CVodeReInit refuses; the public endpoint survives.
ReinitializeFails ==
  /\ kernel.at = "rest"
  /\ exception' = "none" /\ last' = "none"
  /\ MarkBackendFailure
  /\ thrown' = "numerical"
  /\ UNCHANGED <<publicTime, kernel, stop>>

Next ==
  \/ \E t \in Time : Advance(t) \/ AdvanceRefused(t) \/ KernelSteps(t) \/ Reinitialize(t)
  \/ \E status \in {"success"} \cup Failures :
        EvaluateRhs(status) \/ EvaluateDenseJacobian(status)
  \/ KernelFails \/ Publish \/ PublishRefused \/ ReinitializeFails

Spec == Init /\ [][Next]_vars
-----------------------------------------------------------------------------
Stepper == INSTANCE InternalStepper WITH
  time <- publicTime, usable <- ~blocked, interval <- dense

(***************************************************************************)
(* Through refusals and failures of the kernel the adapter is the stepper  *)
(* every backend promises to be.                                           *)
(***************************************************************************)
ImplementsStepper == Stepper!Spec

(***************************************************************************)
(* What a failed call throws is the exception of the callback that made    *)
(* the kernel give up, never one a later callback has put right or one of  *)
(* an earlier call; the kernel and the adapter never part.                 *)
(***************************************************************************)
ThrownIsTheCause ==
  /\ kernel.at = "rest" /\ thrown \in Failures => last = thrown
  /\ ~blocked /\ kernel.at # "end" => kernel.time = publicTime
=============================================================================
