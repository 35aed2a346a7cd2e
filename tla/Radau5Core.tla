----------------------------- MODULE Radau5Core -----------------------------
(***************************************************************************)
(* The RADAU5 core and its adapter: one accepted step per call, found by   *)
(* trials.  A trial evaluates the right-hand side at the endpoint, takes a *)
(* Jacobian if none may be used, factors the shifted matrices unless the   *)
(* factors fit, iterates Newton's method over three stages and estimates   *)
(* the error; whatever rejects it shortens the next one.                   *)
(*                                                                         *)
(* Every evaluation of the right-hand side may succeed, fail recoverably   *)
(* or fail for good.  Instants and steps are integers, a step of length 0  *)
(* is one that is too small, and the numbers the controller computes are   *)
(* any within its bounds.                                                  *)
(***************************************************************************)
EXTENDS Integers

CONSTANTS
  Horizon,      \* the last instant
  Snap,         \* what the first trial stretches to reach the stop
  Trials,       \* kMaximumTrialsPerCall
  Singulars,    \* kMaximumSingularSetups
  Columns,      \* columns of the Jacobian
  Perturbations, \* kMaximumJacobianPerturbationRetries
  Iterations    \* kMaximumNewtonIterations

Budgets ==
  /\ Snap \in Nat /\ Perturbations \in Nat
  /\ {Horizon, Trials, Singulars, Columns, Iterations} \subseteq Nat \ {0}

Time  == 0..Horizon
Steps == 0..Horizon

Recoverable == {"recoverable stage", "recoverable correction"}
Causes == Recoverable \cup {"none", "newton", "error", "singular"}

VARIABLES
  time,        \* time_seconds_
  suggested,   \* suggested_step_size_seconds_
  succeeded,   \* has_successful_step_
  rejection,   \* rejection_pending_
  jacobian,    \* available, fresh; and of what: the present point and history
  factors,     \* decomposition_available_, the step noted, the Jacobian matching
  matrices,    \* the step the factored matrices are of, -1 if they are broken
  singulars,   \* singular_setup_failure_count_
  pending,     \* pending_retry_cause_
  dense,       \* dense_interval_, none or one
  exception,   \* the adapter's stored exception
  phase,       \* where the call is
  call,        \* its locals
  thrown       \* what the last call threw

vars == <<time, suggested, succeeded, rejection, jacobian, factors, matrices, singulars,
          pending, dense, exception, phase, call, thrown>>

controller == <<suggested, succeeded, rejection, singulars>>
linear == <<jacobian, factors, matrices>>

Phases == {"idle", "trial", "baseline", "jacobian", "setup", "newton", "estimate", "poisoned"}

Calls == [stop : Time, h : Steps, trials : 0..Trials, baseline : BOOLEAN,
          column : 1..Columns, tries : 0..Perturbations,
          iteration : 1..Iterations, stage : 1..3]

NoCall == [stop |-> 0, h |-> 0, trials |-> 0, baseline |-> FALSE,
           column |-> 1, tries |-> 0, iteration |-> 1, stage |-> 1]

NoJacobian == [available |-> FALSE, fresh |-> FALSE, here |-> FALSE, current |-> FALSE]
NoFactors  == [available |-> FALSE, step |-> 0, matching |-> FALSE]

TypeOK ==
  /\ time \in Time /\ suggested \in Steps
  /\ succeeded \in BOOLEAN /\ rejection \in BOOLEAN
  /\ jacobian \in [available : BOOLEAN, fresh : BOOLEAN, here : BOOLEAN, current : BOOLEAN]
  /\ factors \in [available : BOOLEAN, step : Steps, matching : BOOLEAN]
  /\ matrices \in Steps \cup {-1}
  /\ singulars \in 0..Singulars /\ pending \in Causes
  /\ dense = {} \/ \E s, e \in Time : s < e /\ dense = {[start |-> s, end |-> e]}
  /\ exception \in {"none", "recoverable", "fatal"}
  /\ phase \in Phases /\ call \in Calls
  /\ thrown \in {"none", "recoverable", "fatal", "numerical"}

\* A slip ResetNumericalHistory does not make: the dense output stays.
FreshButDense(t, first) ==
  /\ time' = t /\ suggested' = first
  /\ succeeded' = FALSE /\ rejection' = FALSE
  /\ jacobian' = NoJacobian /\ factors' = NoFactors /\ UNCHANGED matrices
  /\ singulars' = 0 /\ pending' = "none" /\ UNCHANGED dense
  /\ phase' = "idle"

\* ResetNumericalHistory
Fresh(t, first) ==
  /\ time' = t /\ suggested' = first
  /\ succeeded' = FALSE /\ rejection' = FALSE
  /\ jacobian' = NoJacobian /\ factors' = NoFactors /\ UNCHANGED matrices
  /\ singulars' = 0 /\ pending' = "none" /\ dense' = {}
  /\ phase' = "idle"

Init ==
  /\ time \in Time /\ suggested = 1
  /\ succeeded = FALSE /\ rejection = FALSE
  /\ jacobian = NoJacobian /\ factors = NoFactors /\ matrices = -1
  /\ singulars = 0 /\ pending = "none" /\ dense = {}
  /\ exception = "none"
  /\ phase = "idle" /\ call = NoCall /\ thrown = "none"

\* AdvanceOneAcceptedStepToward; a stop at the current time returns at once.
Call(stop) ==
  /\ phase = "idle"
  /\ time < stop
  /\ dense' = {}
  /\ phase' = "trial"
  /\ call' = [NoCall EXCEPT !.stop = stop, !.h = IF suggested < stop - time THEN suggested
                                                 ELSE stop - time]
  /\ thrown' = "none"
  /\ UNCHANGED <<time, pending, exception, controller, linear>>

\* Every exception that leaves the call poisons the core.
Throws(reason) ==
  /\ phase' = "poisoned"
  /\ dense' = {}
  /\ call' = NoCall
  /\ thrown' = reason

\* ThrowTerminalFailure: a recoverable failure nothing has succeeded since is
\* what the caller is told of.
Terminal == Throws(IF pending \in Recoverable THEN "recoverable" ELSE "numerical")

\* ThrowRhsFailure, and what the adapter makes of it.
Fails == Throws(exception')

-----------------------------------------------------------------------------
Length ==
  LET remaining == call.stop - time
  IN  IF (call.trials = 0 /\ call.h + Snap >= remaining) \/ call.h > remaining
      THEN remaining ELSE call.h

\* AdvancePositiveLength, the head of its loop.
BeginTrial ==
  /\ phase = "trial"
  /\ IF call.trials = Trials \/ Length = 0
       THEN Terminal
       ELSE /\ phase' = IF ~call.baseline THEN "baseline"
                        ELSE IF jacobian.available THEN "setup" ELSE "jacobian"
            /\ call' = [call EXCEPT !.trials = @ + 1, !.h = Length, !.column = 1, !.tries = 0]
            /\ UNCHANGED <<dense, thrown>>
  /\ UNCHANGED <<time, pending, exception, controller, linear>>

CauseAfter(status) ==
  IF status = "success" /\ pending \in Recoverable THEN "none" ELSE pending

\* The adapter's Callback keeps what the right-hand side threw.
Answer(status) == exception' = IF status = "success" THEN "none" ELSE status

\* EvaluateRhs
Evaluate(status) ==
  /\ Answer(status)
  /\ pending' = CauseAfter(status)

\* A value turns out not to be finite, in whatever part of a trial.
Breaks ==
  /\ phase \notin {"idle", "poisoned"}
  /\ Throws("numerical")
  /\ exception' \in {exception, "none"}
  /\ UNCHANGED <<time, pending, controller, linear>>

\* EvaluateAcceptedEndpointRhs: a shorter step would not help.
Baseline(status) ==
  /\ phase = "baseline"
  /\ Evaluate(status)
  /\ IF status = "success"
       THEN /\ phase' = IF jacobian.available THEN "setup" ELSE "jacobian"
            /\ call' = [call EXCEPT !.baseline = TRUE]
            /\ UNCHANGED <<dense, thrown>>
       ELSE Fails
  /\ UNCHANGED <<time, controller, linear>>

\* ComputeJacobian, one evaluation: a recoverable failure tries the column
\* again with a smaller perturbation.
JacobianColumn(status) ==
  /\ phase = "jacobian"
  /\ Evaluate(status)
  /\ \/ /\ status = "success" /\ call.column < Columns
        /\ call' = [call EXCEPT !.column = @ + 1, !.tries = 0]
        /\ UNCHANGED <<jacobian, factors, phase, dense, thrown>>
     \/ /\ status = "success" /\ call.column = Columns
        /\ jacobian' = [available |-> TRUE, fresh |-> TRUE, here |-> TRUE, current |-> TRUE]
        /\ factors' = [factors EXCEPT !.available = FALSE, !.matching = FALSE]
        /\ phase' = "setup"
        /\ UNCHANGED <<call, dense, thrown>>
     \/ /\ status = "recoverable" /\ call.tries < Perturbations
        /\ call' = [call EXCEPT !.tries = @ + 1]
        /\ UNCHANGED <<jacobian, factors, phase, dense, thrown>>
     \/ /\ status = "fatal" \/ (status = "recoverable" /\ call.tries = Perturbations)
        /\ Fails
        /\ UNCHANGED <<jacobian, factors>>
  /\ UNCHANGED <<time, matrices, controller>>

\* PrepareRetry: a fresh Jacobian is only factored anew, an older one dropped.
Retry(next, cause) ==
  /\ rejection' = TRUE
  /\ factors' = [factors EXCEPT !.available = FALSE]
  /\ jacobian' = [jacobian EXCEPT !.available = @ /\ jacobian.fresh]
  /\ suggested' = next
  /\ pending' = cause
  /\ phase' = "trial"
  /\ call' = [call EXCEPT !.h = next]
  /\ UNCHANGED <<dense, thrown>>

\* Half the step, and whatever else is shorter.
Half == call.h \div 2
Shorter == 0..(call.h - 1)

\* A slip PrepareLinearSystems does not make: the step is not compared.
FitAnyStep == factors.available /\ factors.matching

Fit == factors.available /\ factors.matching /\ factors.step = call.h

\* PrepareLinearSystems: factors that fit are used again.
Setup ==
  /\ phase = "setup"
  /\ phase' = "newton"
  /\ call' = [call EXCEPT !.iteration = 1, !.stage = 1]
  /\ IF Fit
       THEN UNCHANGED <<factors, matrices>>
       ELSE /\ factors' = [available |-> TRUE, step |-> call.h, matching |-> TRUE]
            /\ matrices' = call.h
  /\ UNCHANGED <<time, jacobian, pending, dense, exception, thrown, controller>>

\* The matrices are overwritten before they turn out to be singular.  Such
\* setups are counted until the next reinitialization.
SetupSingular ==
  /\ phase = "setup" /\ ~Fit
  /\ matrices' = -1
  /\ singulars' = singulars + 1
  /\ IF singulars' = Singulars
       THEN /\ Throws("numerical")
            /\ pending' = "singular"
            /\ UNCHANGED <<suggested, rejection, jacobian, factors>>
       ELSE Retry(Half, "singular")
  /\ UNCHANGED <<time, succeeded, exception>>

\* The shift is not representable, or the matrices or factors are not finite.
SetupOverflows ==
  /\ phase = "setup" /\ ~Fit
  /\ Terminal \/ Throws("numerical")
  /\ matrices' \in {matrices, -1}
  /\ UNCHANGED <<time, jacobian, factors, pending, exception, controller>>

-----------------------------------------------------------------------------
\* RunNewton, one stage evaluation.
NextStage ==
  /\ phase = "newton" /\ call.stage < 3
  /\ Evaluate("success")
  /\ call' = [call EXCEPT !.stage = @ + 1]
  /\ UNCHANGED <<time, dense, phase, thrown, controller, linear>>

\* AssessNewtonCorrection after the third: the first and the last iteration
\* predict nothing.
Iterated ==
  /\ phase = "newton" /\ call.stage = 3
  /\ Answer("success")
  /\ \/ /\ phase' = "estimate"
        /\ pending' = CauseAfter("success")
        /\ UNCHANGED <<call, dense, thrown, controller, linear>>
     \/ /\ call.iteration < Iterations
        /\ call' = [call EXCEPT !.iteration = @ + 1, !.stage = 1]
        /\ pending' = CauseAfter("success")
        /\ UNCHANGED <<phase, dense, thrown, controller, linear>>
     \/ /\ call.iteration > 1
        /\ \E next \in IF call.iteration < Iterations THEN Shorter ELSE {Half} :
              Retry(next, "newton")
        /\ UNCHANGED <<succeeded, singulars, matrices>>
  /\ UNCHANGED time

Fatally ==
  /\ phase = "newton" \/ (phase = "estimate" /\ (~succeeded \/ rejection))
  /\ Evaluate("fatal")
  /\ Fails
  /\ UNCHANGED <<time, controller, linear>>

\* EstimateError evaluates once more on the first step and after a rejection.
Recoverably ==
  /\ \/ phase = "newton" /\ Retry(Half, "recoverable stage")
     \/ /\ phase = "estimate" /\ (~succeeded \/ rejection)
        /\ Retry(Half, "recoverable correction")
  /\ Answer("recoverable")
  /\ UNCHANGED <<time, succeeded, singulars, matrices>>

ErrorRejected ==
  /\ phase = "estimate"
  /\ \E next \in Shorter : Retry(next, "error")
  /\ UNCHANGED <<time, succeeded, singulars, matrices, exception>>

\* AcceptedControllerStepSize: between a fifth and eight times the step, and
\* no longer after a rejection; slow convergence drops the Jacobian.
Accept(next, slow) ==
  /\ phase = "estimate"
  /\ call.h <= 5 * next /\ next <= 8 * call.h
  /\ rejection => next <= call.h
  /\ time' = IF call.h = call.stop - time THEN call.stop ELSE time + call.h
  /\ dense' = {[start |-> time, end |-> time']}
  /\ suggested' = next
  /\ succeeded' = TRUE
  /\ rejection' = FALSE
  /\ pending' = "none"
  /\ jacobian' = [jacobian EXCEPT !.available = ~slow, !.fresh = FALSE, !.here = FALSE]
  /\ factors' = [factors EXCEPT !.available = ~slow /\ next = call.h]
  /\ phase' = "idle"
  /\ call' = NoCall
  /\ UNCHANGED <<singulars, matrices, exception, thrown>>

-----------------------------------------------------------------------------
\* The projection hints the right-hand side depends on have changed.
InvalidateLinearization ==
  /\ phase \in {"idle", "poisoned"}
  /\ jacobian' = [jacobian EXCEPT !.available = FALSE, !.fresh = FALSE, !.current = FALSE]
  /\ factors' = [factors EXCEPT !.available = FALSE]
  /\ UNCHANGED <<time, matrices, pending, dense, exception, phase, call, thrown, controller>>

Reinitialize(t) ==
  /\ phase \in {"idle", "poisoned"}
  /\ Fresh(t, 1)
  /\ exception' = "none" /\ thrown' = "none"
  /\ UNCHANGED call

Trial ==
  \/ BeginTrial
  \/ \E status \in {"success", "recoverable", "fatal"} : Baseline(status) \/ JacobianColumn(status)
  \/ Setup \/ SetupSingular \/ SetupOverflows
  \/ NextStage \/ Iterated \/ Fatally \/ Recoverably \/ ErrorRejected
  \/ \E next \in Steps, slow \in BOOLEAN : Accept(next, slow)
  \/ Breaks

Next ==
  \/ \E stop \in Time : Call(stop)
  \/ Trial
  \/ InvalidateLinearization
  \/ \E t \in Time : Reinitialize(t)

Spec == Init /\ [][Next]_vars
-----------------------------------------------------------------------------
Stepper == INSTANCE InternalStepper WITH
  usable <- (phase # "poisoned"), interval <- dense

(***************************************************************************)
(* Through trials, rejections and failures of every kind the core is the   *)
(* stepper every backend promises to be (AdvanceOneAcceptedStepToward,     *)
(* Reinitialize).                                                          *)
(***************************************************************************)
ImplementsStepper == Stepper!Spec

(***************************************************************************)
(* Newton's method and the error estimate solve with the matrices of this  *)
(* trial's step and of the Jacobian at hand, and that Jacobian is no older *)
(* than the last change of the projection hints; after a rejection it is   *)
(* one taken at the very point the step starts from.                       *)
(***************************************************************************)
SolvesTheRightSystem ==
  phase \in {"newton", "estimate"} =>
    /\ jacobian.available /\ jacobian.current
    /\ factors.matching /\ matrices = call.h
    /\ call.trials > 1 => jacobian.here

(***************************************************************************)
(* A call that ends because of the right-hand side ends with the exception *)
(* its last evaluation threw: none that a later evaluation has put right,  *)
(* and none of an earlier call (RADAU5_SOURCE_MODIFICATIONS.md:70-72).     *)
(***************************************************************************)
ThrownIsTheCause ==
  phase = "poisoned" /\ thrown \in {"recoverable", "fatal"} => exception = thrown

=============================================================================
