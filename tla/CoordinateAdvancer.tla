-------------------------- MODULE CoordinateAdvancer --------------------------
(***************************************************************************)
(* BasicCoordinateAdvancerImplementation with NewmarkRecoveryStepPolicy:   *)
(* the transaction, the step grid and the recovery from Newton iterations  *)
(* that do not converge, around a core that attempts one step at a time.   *)
(* The fixed step policy of the Zhai method is the part of it in which no  *)
(* attempt is rejected.                                                    *)
(*                                                                         *)
(* Instants and intervals are integers and added exactly; a half is        *)
(* rounded down.  What the code forgives as clock rounding is Rounding.    *)
(***************************************************************************)
EXTENDS Integers

CONSTANTS
  Horizon,    \* the last instant
  Nominal,    \* nominal_h_, the longest step
  Floor,      \* nominal_h_ * kMinimumRetryFraction
  Rounding    \* eight spacings of the clock

ASSUME StepAssumption ==
  /\ Horizon \in Nat /\ Nominal \in Nat \ {0} /\ Floor \in 1..Nominal
  /\ Rounding \in Nat

Time == 0..Horizon

VARIABLES
  publicTime,   \* public_time_
  blocked,      \* requires_reinitialization_
  dense,        \* dense_interval_, none or one
  gridAnchor, gridIndex,
  plan,         \* h_ of the policy
  streak,       \* success_streak_
  core,         \* the core's accepted time, and whether it can be stepped
  attempt       \* the attempt of the call in progress, none or one

vars == <<publicTime, blocked, dense, gridAnchor, gridIndex, plan, streak, core, attempt>>

Abs(x) == IF x < 0 THEN -x ELSE x
Lesser(x, y) == IF x < y THEN x ELSE y

\* The core takes an explicit endpoint only when clock rounding explains it.
CoordinateEndpointTimeIsCompatible(start, h, end) ==
  end > start /\ Abs(end - (start + h)) <= Lesser(h \div 16, 2 * Rounding)

CoordinateStopCanUseNominalStep(start, h, next, stop) ==
  /\ Abs(stop - next) <= Lesser(h \div 16, Rounding)
  /\ CoordinateEndpointTimeIsCompatible(start, h, stop)

\* A slip ChooseStep does not make: the last step keeps its length.
ChooseWholeStep(now, anchor, index, h, stop) ==
  LET next == anchor + (index + 1) * h
  IN  IF CoordinateStopCanUseNominalStep(now, h, next, stop) \/ stop < next
      THEN [h |-> h, end |-> stop, restart |-> TRUE]
      ELSE [h |-> h, end |-> next, restart |-> FALSE]

\* The step from now with the grid and the plan given: to the next grid point,
\* or to the stop when that is nearer or within rounding of it.
ChooseStep(now, anchor, index, h, stop) ==
  LET next == anchor + (index + 1) * h
  IN  IF CoordinateStopCanUseNominalStep(now, h, next, stop)
        THEN [h |-> h, end |-> stop, restart |-> TRUE]
      ELSE IF stop < next
        THEN [h |-> stop - now, end |-> stop, restart |-> TRUE]
      ELSE [h |-> h, end |-> next, restart |-> FALSE]

Attempts == [stop : Time, h : 1..Nominal, end : Time, restart : BOOLEAN]

Attempt(step, stop) ==
  {[stop |-> stop, h |-> step.h, end |-> step.end, restart |-> step.restart]}

TypeOK ==
  /\ publicTime \in Time /\ blocked \in BOOLEAN
  /\ dense = {} \/ \E s, e \in Time : s < e /\ dense = {[start |-> s, end |-> e]}
  /\ gridAnchor \in Time /\ gridIndex \in Nat
  /\ plan \in Floor..Nominal /\ streak \in 0..1
  /\ core \in [time : Time, usable : BOOLEAN]
  /\ \A a \in attempt : a \in Attempts /\ attempt = {a}

Init ==
  /\ publicTime \in Time
  /\ blocked = FALSE
  /\ dense = {}
  /\ gridAnchor = publicTime /\ gridIndex = 0
  /\ plan = Nominal /\ streak = 0
  /\ core = [time |-> publicTime, usable |-> TRUE]
  /\ attempt = {}

\* A slip Begin does not make: the dense output outlives the entry.
BeginKeepingDense(stop) ==
  /\ attempt = {} /\ ~blocked
  /\ publicTime < stop
  /\ blocked' = TRUE
  /\ attempt' = Attempt(ChooseStep(publicTime, gridAnchor, gridIndex, plan, stop), stop)
  /\ UNCHANGED <<publicTime, dense, gridAnchor, gridIndex, plan, streak, core>>

\* Advance up to the first attempt.  A stop at the current time returns at once.
Begin(stop) ==
  /\ attempt = {} /\ ~blocked
  /\ publicTime < stop
  /\ blocked' = TRUE
  /\ dense' = {}
  /\ attempt' = Attempt(ChooseStep(publicTime, gridAnchor, gridIndex, plan, stop), stop)
  /\ UNCHANGED <<publicTime, gridAnchor, gridIndex, plan, streak, core>>

Half(a) == a.h \div 2

\* What the next attempt would be is too short to try.
BelowFloor(a) == Half(a) < Floor

\* A slip Reject does not make: at the floor it starts over.
RejectStartingOver(a) ==
  /\ plan' = IF BelowFloor(a) THEN Nominal ELSE Half(a)
  /\ streak' = 0
  /\ gridAnchor' = publicTime /\ gridIndex' = 0
  /\ attempt' = Attempt(ChooseStep(publicTime, publicTime, 0, plan', a.stop), a.stop)
  /\ UNCHANGED <<publicTime, blocked, dense, core>>

\* The Newton iterations are exhausted: the attempted step is halved and the
\* grid starts anew.  The core keeps its accepted state.
Reject(a) ==
  /\ ~BelowFloor(a)
  /\ plan' = Half(a)
  /\ streak' = 0
  /\ gridAnchor' = publicTime /\ gridIndex' = 0
  /\ attempt' = Attempt(ChooseStep(publicTime, publicTime, 0, plan', a.stop), a.stop)
  /\ UNCHANGED <<publicTime, blocked, dense, core>>

\* The same below the floor: the call fails and the adapter stays blocked.
GiveUp(a) ==
  /\ BelowFloor(a)
  /\ streak' = 0
  /\ attempt' = {}
  /\ UNCHANGED <<publicTime, blocked, dense, gridAnchor, gridIndex, plan, core>>

Grown(h) == IF 2 * h >= Nominal THEN Nominal ELSE 2 * h

\* AcceptedStep: the second success in a row under a reduced plan doubles it.
Grows == plan # Nominal /\ streak = 1

\* The core accepts the step and its physical state can be exported.
Publish(a) ==
  /\ core' = [core EXCEPT !.time = a.end]
  /\ dense' = {[start |-> publicTime, end |-> a.end]}
  /\ publicTime' = a.end
  /\ IF a.restart \/ Grows
       THEN gridAnchor' = a.end /\ gridIndex' = 0
       ELSE gridIndex' = gridIndex + 1 /\ UNCHANGED gridAnchor
  /\ plan' = IF Grows THEN Grown(plan) ELSE plan
  /\ streak' = IF plan = Nominal \/ Grows THEN 0 ELSE streak + 1
  /\ blocked' = FALSE
  /\ attempt' = {}

\* The core accepts the step and the export of its physical state throws.
ExportFails(a) ==
  /\ core' = [core EXCEPT !.time = a.end]
  /\ attempt' = {}
  /\ UNCHANGED <<publicTime, blocked, dense, gridAnchor, gridIndex, plan, streak>>

\* Every other failure of the core.
CoreThrows(a) ==
  /\ core' = [core EXCEPT !.usable = FALSE]
  /\ attempt' = {}
  /\ UNCHANGED <<publicTime, blocked, dense, gridAnchor, gridIndex, plan, streak>>

\* Reinitialize; inputs it refuses before it touches anything are no step.
Reinitialize(t) ==
  /\ attempt = {}
  /\ publicTime' = t
  /\ blocked' = FALSE
  /\ dense' = {}
  /\ gridAnchor' = t /\ gridIndex' = 0
  /\ plan' = Nominal /\ streak' = 0
  /\ core' = [time |-> t, usable |-> TRUE]
  /\ UNCHANGED attempt

\* The core refuses the configuration, or its evaluation at the new state throws.
ReinitializeFails ==
  /\ attempt = {}
  /\ blocked' = TRUE
  /\ dense' = {}
  /\ \E usable \in {core.usable, FALSE} : core' = [core EXCEPT !.usable = usable]
  /\ UNCHANGED <<publicTime, gridAnchor, gridIndex, plan, streak, attempt>>

Attempted ==
  \E a \in attempt : Reject(a) \/ GiveUp(a) \/ Publish(a) \/ ExportFails(a) \/ CoreThrows(a)

Next ==
  \/ \E stop \in Time : Begin(stop)
  \/ Attempted
  \/ \E t \in Time : Reinitialize(t)
  \/ ReinitializeFails

\* An attempt that was started ends.
Spec == Init /\ [][Next]_vars /\ WF_vars(Attempted)
-----------------------------------------------------------------------------
Stepper == INSTANCE InternalStepper WITH
  time     <- publicTime,
  usable   <- (attempt # {} \/ ~blocked),
  interval <- dense

(***************************************************************************)
(* Through all rejections, retries and failures the adapter is the stepper *)
(* every backend promises to be.                                           *)
(***************************************************************************)
ImplementsStepper == Stepper!Spec

(***************************************************************************)
(* The current time is on the grid of the current plan, whatever changed   *)
(* the plan, so the next grid point is one whole planned step away.        *)
(***************************************************************************)
OnGrid == publicTime = gridAnchor + gridIndex * plan

(***************************************************************************)
(* The checks the core repeats never refuse the adapter's attempt: the two *)
(* clocks agree, the core can be stepped, the step is no longer than the   *)
(* nominal one and its end is its length away but for rounding; and it     *)
(* does not pass the stop.                                                 *)
(***************************************************************************)
CoreTakesTheAttempt ==
  \A a \in attempt :
    /\ core.usable /\ core.time = publicTime
    /\ 0 < a.h /\ a.h <= plan
    /\ CoordinateEndpointTimeIsCompatible(core.time, a.h, a.end)
    /\ a.end <= a.stop
    /\ a.h < plan => a.end = a.stop

(***************************************************************************)
(* Every call returns or throws, even when no Newton iteration converges.  *)
(***************************************************************************)
CallsEnd == attempt # {} ~> attempt = {}
=============================================================================
