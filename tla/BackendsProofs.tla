---------------------------- MODULE BackendsProofs ----------------------------
(***************************************************************************)
(* The backends of MCBackends, for every value of their constants.         *)
(*                                                                         *)
(* The coordinate adapter: the step grid survives every change of the      *)
(* plan, the core never refuses an attempt the adapter chose, and the      *)
(* adapter is an internal stepper.  RADAU5 and CVODE with their adapters   *)
(* are internal steppers too, solve the right system and throw the true    *)
(* cause.  The Newmark and the Zhai core hold the point and the history    *)
(* their next step uses.                                                   *)
(***************************************************************************)
EXTENDS MCBackends, TLAPS

\* While a call is in progress the adapter is blocked and holds no dense output;
\* otherwise an adapter that is not blocked has a core to step.
Blocking ==
  /\ attempt # {} => blocked
  /\ blocked => dense = {}
  /\ ~blocked => core.usable /\ core.time = publicTime

\* An attempt that does not restart the grid ends at the next grid point.
NextGridPoint == \A a \in attempt : ~a.restart => a.end = publicTime + plan

IInv == TypeOK /\ OnGrid /\ CoreTakesTheAttempt /\ Blocking /\ NextGridPoint
-----------------------------------------------------------------------------
LEMMA Grid ==
  ASSUME NEW anchor \in Int, NEW index \in Nat, NEW h \in Int
  PROVE  /\ anchor + (index + 1) * h = (anchor + index * h) + h
         /\ anchor + 0 * h = anchor
BY SMT

LEMMA Allowance ==
  ASSUME NEW h \in Nat, NEW allowed \in Nat
  PROVE  Lesser(h \div 16, allowed) \in Nat
<1>1. h \div 16 \in Nat
  BY SMT
<1> QED
  BY <1>1 DEF Lesser

LEMMA ExactEndIsCompatible ==
  ASSUME NEW start \in Int, NEW h \in Nat, 0 < h
  PROVE  CoordinateEndpointTimeIsCompatible(start, h, start + h)
<1>1. 2 * Rounding \in Nat
  BY StepAssumption
<1>2. Lesser(h \div 16, 2 * Rounding) \in Nat
  BY <1>1, Allowance
<1>3. Abs((start + h) - (start + h)) = 0
  BY DEF Abs
<1> QED
  BY <1>2, <1>3 DEF CoordinateEndpointTimeIsCompatible

\* A step of at most h from now towards the stop that the core takes.
IsStep(r, now, h, stop) ==
  /\ r.h \in 1..h /\ r.end \in Time /\ r.end <= stop
  /\ r.restart \in BOOLEAN
  /\ CoordinateEndpointTimeIsCompatible(now, r.h, r.end)
  /\ r.h < h => r.end = stop
  /\ ~r.restart => r.end = now + h

(***************************************************************************)
(* What ChooseStep returns from a time on the grid: a step no longer than  *)
(* the plan that does not pass the stop, shortened only to end at it, and  *)
(* whose end its length explains.                                          *)
(***************************************************************************)
LEMMA ChosenStep ==
  ASSUME NEW now \in Time, NEW anchor \in Int, NEW index \in Nat, NEW h \in 1..Nominal,
         NEW stop \in Time, now = anchor + index * h, now < stop
  PROVE  IsStep(ChooseStep(now, anchor, index, h, stop), now, h, stop)
<1> DEFINE next == anchor + (index + 1) * h
           r == ChooseStep(now, anchor, index, h, stop)
<1> USE StepAssumption
<1> SUFFICES IsStep(r, now, h, stop)
  OBVIOUS
<1>1. now \in Int /\ h \in Int /\ stop \in Int /\ 0 < h
  BY DEF Time
<1>2. next = now + h
  BY <1>1, Grid
<1>3. CASE CoordinateStopCanUseNominalStep(now, h, next, stop)
  <2>1. r = [h |-> h, end |-> stop, restart |-> TRUE]
    BY <1>3 DEF ChooseStep
  <2>2. CoordinateEndpointTimeIsCompatible(now, h, stop)
    BY <1>3 DEF CoordinateStopCanUseNominalStep
  <2> HIDE DEF r
  <2> QED
    BY <1>1, <2>1, <2>2 DEF IsStep
<1>4. CASE ~CoordinateStopCanUseNominalStep(now, h, next, stop) /\ stop < next
  <2>1. r = [h |-> stop - now, end |-> stop, restart |-> TRUE]
    BY <1>4 DEF ChooseStep
  <2>2. stop - now \in 1..h /\ stop = now + (stop - now)
    BY <1>1, <1>2, <1>4
  <2>3. CoordinateEndpointTimeIsCompatible(now, stop - now, stop)
    <3>1. stop - now \in Nat /\ 0 < stop - now
      BY <1>1, <2>2
    <3>2. CoordinateEndpointTimeIsCompatible(now, stop - now, now + (stop - now))
      BY <1>1, <3>1, ExactEndIsCompatible
    <3> QED
      BY <2>2, <3>2
  <2> HIDE DEF r
  <2> QED
    BY <2>1, <2>2, <2>3 DEF IsStep
<1>5. CASE ~CoordinateStopCanUseNominalStep(now, h, next, stop) /\ ~(stop < next)
  <2>1. r = [h |-> h, end |-> now + h, restart |-> FALSE]
    BY <1>2, <1>5 DEF ChooseStep
  <2>2. now + h \in Time /\ now + h <= stop
    BY <1>1, <1>2, <1>5 DEF Time
  <2>3. CoordinateEndpointTimeIsCompatible(now, h, now + h)
    BY <1>1, ExactEndIsCompatible
  <2> HIDE DEF r
  <2> QED
    BY <1>1, <2>1, <2>2, <2>3 DEF IsStep
<1> QED
  BY <1>3, <1>4, <1>5, Zenon

(***************************************************************************)
(* An attempt made from a time on the grid is one the core takes.          *)
(***************************************************************************)
LEMMA ChosenAttempt ==
  ASSUME NEW now \in Time, NEW anchor \in Int, NEW index \in Nat, NEW h \in 1..Nominal,
         NEW stop \in Time, now = anchor + index * h, now < stop,
         NEW a \in Attempt(ChooseStep(now, anchor, index, h, stop), stop)
  PROVE  /\ a \in Attempts /\ Attempt(ChooseStep(now, anchor, index, h, stop), stop) = {a}
         /\ a.stop = stop
         /\ 0 < a.h /\ a.h <= h
         /\ CoordinateEndpointTimeIsCompatible(now, a.h, a.end)
         /\ a.end <= a.stop
         /\ a.h < h => a.end = a.stop
         /\ ~a.restart => a.end = now + h
<1> DEFINE r == ChooseStep(now, anchor, index, h, stop)
<1>1. /\ r.h \in 1..h /\ r.end \in Time /\ r.end <= stop
      /\ r.restart \in BOOLEAN
      /\ CoordinateEndpointTimeIsCompatible(now, r.h, r.end)
      /\ r.h < h => r.end = stop
      /\ ~r.restart => r.end = now + h
  BY ChosenStep DEF IsStep
<1> HIDE DEF r
<1>2. a = [stop |-> stop, h |-> r.h, end |-> r.end, restart |-> r.restart]
  BY DEF Attempt, r
<1>3. Attempt(r, stop) = {a}
  BY <1>2 DEF Attempt
<1>4. r.h \in 1..Nominal /\ 0 < r.h /\ r.h <= h
  BY <1>1, StepAssumption
<1>5. a \in Attempts
  BY <1>1, <1>2, <1>4 DEF Attempts
<1> QED
  BY <1>1, <1>2, <1>3, <1>4, <1>5 DEF r

\* The same from the anchor of a new grid.
LEMMA AttemptOnANewGrid ==
  ASSUME NEW now \in Time, NEW h \in 1..Nominal, NEW stop \in Time, now < stop,
         NEW a \in Attempt(ChooseStep(now, now, 0, h, stop), stop)
  PROVE  /\ a \in Attempts /\ Attempt(ChooseStep(now, now, 0, h, stop), stop) = {a}
         /\ 0 < a.h /\ a.h <= h
         /\ CoordinateEndpointTimeIsCompatible(now, a.h, a.end)
         /\ a.end <= a.stop
         /\ a.h < h => a.end = a.stop
         /\ ~a.restart => a.end = now + h
<1> DEFINE anchor == now
           index == 0
<1>1. anchor \in Int /\ index \in Nat
  BY DEF Time
<1>2. now = anchor + index * h
  BY StepAssumption DEF Time
<1>3. a \in Attempt(ChooseStep(now, anchor, index, h, stop), stop)
  OBVIOUS
<1> HIDE DEF anchor, index
<1>4. /\ a \in Attempts /\ Attempt(ChooseStep(now, anchor, index, h, stop), stop) = {a}
      /\ 0 < a.h /\ a.h <= h
      /\ CoordinateEndpointTimeIsCompatible(now, a.h, a.end)
      /\ a.end <= a.stop
      /\ a.h < h => a.end = a.stop
      /\ ~a.restart => a.end = now + h
  BY <1>1, <1>2, <1>3, ChosenAttempt
<1> QED
  BY <1>4 DEF anchor, index
-----------------------------------------------------------------------------
LEMMA InitIInv == Init => IInv
<1> SUFFICES ASSUME Init PROVE IInv
  OBVIOUS
<1> USE StepAssumption
<1>1. TypeOK
  <2>1. Nominal \in Floor..Nominal /\ 0 \in 0..1 /\ 0 \in Nat
    OBVIOUS
  <2>2. core \in [time : Time, usable : BOOLEAN]
    BY DEF Init
  <2> QED
    BY <2>1, <2>2 DEF Init, TypeOK
<1>2. OnGrid
  BY Grid DEF Init, OnGrid, Time
<1>3. CoreTakesTheAttempt /\ Blocking /\ NextGridPoint
  BY DEF Init, CoreTakesTheAttempt, Blocking, NextGridPoint
<1> QED
  BY <1>1, <1>2, <1>3 DEF IInv

LEMMA BeginIInv ==
  ASSUME IInv, NEW stop \in Time, Begin(stop)
  PROVE  IInv'
<1> USE StepAssumption
<1>1. plan \in 1..Nominal /\ publicTime \in Time /\ gridAnchor \in Int /\ gridIndex \in Nat
      /\ publicTime = gridAnchor + gridIndex * plan /\ publicTime < stop
  BY DEF IInv, TypeOK, OnGrid, Begin, Time
<1>2. core.usable /\ core.time = publicTime
  BY DEF IInv, Blocking, Begin
<1>3. /\ attempt' = Attempt(ChooseStep(publicTime, gridAnchor, gridIndex, plan, stop), stop)
      /\ blocked' = TRUE /\ dense' = {}
      /\ UNCHANGED <<publicTime, gridAnchor, gridIndex, plan, streak, core>>
  BY DEF Begin
<1>4. ASSUME NEW a \in attempt'
      PROVE  /\ a \in Attempts /\ attempt' = {a}
             /\ 0 < a.h /\ a.h <= plan
             /\ CoordinateEndpointTimeIsCompatible(publicTime, a.h, a.end)
             /\ a.end <= a.stop
             /\ a.h < plan => a.end = a.stop
             /\ ~a.restart => a.end = publicTime + plan
  BY <1>1, <1>3, ChosenAttempt
<1>5. TypeOK'
  BY <1>3, <1>4 DEF IInv, TypeOK
<1>6. OnGrid'
  BY <1>3 DEF IInv, OnGrid
<1>7. CoreTakesTheAttempt'
  BY <1>2, <1>3, <1>4 DEF CoreTakesTheAttempt
<1>8. Blocking' /\ NextGridPoint'
  BY <1>3, <1>4 DEF Blocking, NextGridPoint
<1> QED
  BY <1>5, <1>6, <1>7, <1>8 DEF IInv

LEMMA HalfIsAPlan ==
  ASSUME NEW a \in Attempts, ~BelowFloor(a)
  PROVE  Half(a) \in Floor..Nominal
<1>1. a.h \in 1..Nominal
  BY DEF Attempts
<1>2. a.h \div 2 \in Int /\ a.h \div 2 <= a.h
  BY <1>1, StepAssumption
<1> QED
  BY <1>1, <1>2, StepAssumption DEF BelowFloor, Half

LEMMA RejectIInv ==
  ASSUME IInv, NEW a \in attempt, Reject(a)
  PROVE  IInv'
<1> USE StepAssumption
<1>1. a \in Attempts /\ publicTime \in Time
  BY DEF IInv, TypeOK
<1>2. publicTime < a.stop /\ a.stop \in Time
  <2>1. publicTime < a.end /\ a.end <= a.stop
    BY DEF IInv, CoreTakesTheAttempt, CoordinateEndpointTimeIsCompatible
  <2> QED
    BY <1>1, <2>1 DEF Attempts, Time
<1>3. Half(a) \in Floor..Nominal /\ Half(a) \in 1..Nominal
  <2>1. Half(a) \in Floor..Nominal
    BY <1>1, HalfIsAPlan DEF Reject
  <2> QED
    BY <2>1
<1>4. /\ attempt' = Attempt(ChooseStep(publicTime, publicTime, 0, plan', a.stop), a.stop)
      /\ plan' = Half(a) /\ streak' = 0
      /\ gridAnchor' = publicTime /\ gridIndex' = 0
      /\ UNCHANGED <<publicTime, blocked, dense, core>>
  BY DEF Reject
<1>5. publicTime = publicTime + 0 * plan'
  BY <1>1, <1>3, <1>4 DEF Time
<1>6. ASSUME NEW next \in attempt'
      PROVE  /\ next \in Attempts /\ attempt' = {next}
             /\ 0 < next.h /\ next.h <= plan'
             /\ CoordinateEndpointTimeIsCompatible(publicTime, next.h, next.end)
             /\ next.end <= next.stop
             /\ next.h < plan' => next.end = next.stop
             /\ ~next.restart => next.end = publicTime + plan'
  <2>1. next \in Attempt(ChooseStep(publicTime, publicTime, 0, Half(a), a.stop), a.stop)
    BY <1>4
  <2>2. /\ next \in Attempts
        /\ Attempt(ChooseStep(publicTime, publicTime, 0, Half(a), a.stop), a.stop) = {next}
        /\ 0 < next.h /\ next.h <= Half(a)
        /\ CoordinateEndpointTimeIsCompatible(publicTime, next.h, next.end)
        /\ next.end <= next.stop
        /\ next.h < Half(a) => next.end = next.stop
        /\ ~next.restart => next.end = publicTime + Half(a)
    BY <1>1, <1>2, <1>3, <2>1, AttemptOnANewGrid
  <2> QED
    BY <1>4, <2>2
<1>7. TypeOK'
  BY <1>1, <1>3, <1>4, <1>6 DEF IInv, TypeOK
<1>8. OnGrid'
  BY <1>4, <1>5 DEF OnGrid
<1>9. CoreTakesTheAttempt'
  BY <1>4, <1>6 DEF IInv, CoreTakesTheAttempt
<1>10. Blocking' /\ NextGridPoint'
  BY <1>4, <1>6 DEF IInv, Blocking, NextGridPoint
<1> QED
  BY <1>7, <1>8, <1>9, <1>10 DEF IInv

LEMMA PublishIInv ==
  ASSUME IInv, NEW a \in attempt, Publish(a)
  PROVE  IInv'
<1> USE StepAssumption
<1>1. /\ a \in Attempts /\ publicTime \in Time /\ a.end \in Time /\ publicTime < a.end
      /\ core.usable
  BY DEF IInv, TypeOK, CoreTakesTheAttempt, CoordinateEndpointTimeIsCompatible, Attempts
<1>2. /\ publicTime' = a.end /\ core' = [core EXCEPT !.time = a.end]
      /\ dense' = {[start |-> publicTime, end |-> a.end]}
      /\ blocked' = FALSE /\ attempt' = {}
  BY DEF Publish
<1>3. core' \in [time : Time, usable : BOOLEAN] /\ core'.usable /\ core'.time = a.end
  BY <1>1, <1>2 DEF IInv, TypeOK
<1>4. plan' \in Floor..Nominal /\ streak' \in 0..1
  BY DEF Publish, Grows, Grown, IInv, TypeOK
<1>5. /\ OnGrid' /\ gridAnchor' \in Time /\ gridIndex' \in Nat
  <2>1. CASE a.restart \/ Grows
    <3>1. gridAnchor' = a.end /\ gridIndex' = 0
      BY <2>1 DEF Publish
    <3> QED
      BY <1>1, <1>2, <1>4, <3>1, Grid DEF OnGrid, Time
  <2>2. CASE ~(a.restart \/ Grows)
    <3>1. gridIndex' = gridIndex + 1 /\ gridAnchor' = gridAnchor /\ plan' = plan
      BY <2>2 DEF Publish
    <3>2. a.end = publicTime + plan
      BY <2>2 DEF IInv, NextGridPoint
    <3>3. publicTime = gridAnchor + gridIndex * plan
      BY DEF IInv, OnGrid
    <3>4. gridAnchor \in Time /\ gridIndex \in Nat /\ plan \in Int /\ gridAnchor \in Int
      BY DEF IInv, TypeOK, Time
    <3>5. gridAnchor + (gridIndex + 1) * plan = (gridAnchor + gridIndex * plan) + plan
      BY <3>4, Grid
    <3> QED
      BY <1>2, <3>1, <3>2, <3>3, <3>4, <3>5 DEF OnGrid
  <2> QED
    BY <2>1, <2>2
<1>6. TypeOK'
  BY <1>1, <1>2, <1>3, <1>4, <1>5 DEF TypeOK
<1>7. CoreTakesTheAttempt' /\ Blocking' /\ NextGridPoint'
  BY <1>2, <1>3 DEF CoreTakesTheAttempt, Blocking, NextGridPoint
<1> QED
  BY <1>5, <1>6, <1>7 DEF IInv

\* A call that fails leaves the adapter as it was, but for the core.
LEMMA FailureIInv ==
  ASSUME IInv, NEW a \in attempt, GiveUp(a) \/ ExportFails(a) \/ CoreThrows(a)
  PROVE  IInv'
<1> USE StepAssumption
<1>1. /\ attempt' = {} /\ streak' \in 0..1 /\ core' \in [time : Time, usable : BOOLEAN]
      /\ UNCHANGED <<publicTime, blocked, dense, gridAnchor, gridIndex, plan>>
  <2>1. a.end \in Time /\ streak \in 0..1 /\ 0 \in 0..1
        /\ core \in [time : Time, usable : BOOLEAN]
    BY DEF IInv, TypeOK, Attempts
  <2>2. CASE GiveUp(a)
    BY <2>1, <2>2 DEF GiveUp
  <2>3. CASE ExportFails(a)
    BY <2>1, <2>3 DEF ExportFails
  <2>4. CASE CoreThrows(a)
    BY <2>1, <2>4 DEF CoreThrows
  <2> QED
    BY <2>2, <2>3, <2>4
<1>2. blocked
  BY DEF IInv, Blocking
<1>3. TypeOK' /\ OnGrid'
  BY <1>1 DEF IInv, TypeOK, OnGrid
<1>4. CoreTakesTheAttempt' /\ Blocking' /\ NextGridPoint'
  BY <1>1, <1>2 DEF IInv, CoreTakesTheAttempt, Blocking, NextGridPoint
<1> QED
  BY <1>3, <1>4 DEF IInv

LEMMA ReinitializeIInv ==
  ASSUME IInv, NEW t \in Time, Reinitialize(t)
  PROVE  IInv'
<1> USE StepAssumption
<1>1. TypeOK'
  <2>1. Nominal \in Floor..Nominal /\ 0 \in 0..1 /\ 0 \in Nat
    OBVIOUS
  <2>2. core' \in [time : Time, usable : BOOLEAN]
    BY DEF Reinitialize
  <2> QED
    BY <2>1, <2>2 DEF Reinitialize, TypeOK
<1>2. OnGrid'
  BY Grid DEF Reinitialize, OnGrid, Time
<1>3. CoreTakesTheAttempt' /\ Blocking' /\ NextGridPoint'
  BY DEF Reinitialize, CoreTakesTheAttempt, Blocking, NextGridPoint
<1> QED
  BY <1>1, <1>2, <1>3 DEF IInv

LEMMA ReinitializeFailsIInv ==
  ASSUME IInv, ReinitializeFails
  PROVE  IInv'
<1>1. TypeOK' /\ OnGrid'
  BY DEF ReinitializeFails, IInv, TypeOK, OnGrid
<1>2. CoreTakesTheAttempt' /\ Blocking' /\ NextGridPoint'
  BY DEF ReinitializeFails, CoreTakesTheAttempt, Blocking, NextGridPoint
<1> QED
  BY <1>1, <1>2 DEF IInv

LEMMA NextIInv == IInv /\ [Next]_vars => IInv'
<1> SUFFICES ASSUME IInv, [Next]_vars PROVE IInv'
  OBVIOUS
<1>1. ASSUME NEW stop \in Time, Begin(stop) PROVE IInv'
  BY <1>1, BeginIInv
<1>2. CASE Attempted
  <2>1. PICK a \in attempt :
          Reject(a) \/ GiveUp(a) \/ Publish(a) \/ ExportFails(a) \/ CoreThrows(a)
    BY <1>2 DEF Attempted
  <2> QED
    BY <2>1, RejectIInv, PublishIInv, FailureIInv
<1>3. ASSUME NEW t \in Time, Reinitialize(t) PROVE IInv'
  BY <1>3, ReinitializeIInv
<1>4. CASE ReinitializeFails
  BY <1>4, ReinitializeFailsIInv
<1>5. CASE UNCHANGED vars
  BY <1>5 DEF vars, IInv, TypeOK, OnGrid, CoreTakesTheAttempt, Blocking, NextGridPoint
<1> QED
  BY <1>1, <1>2, <1>3, <1>4, <1>5 DEF Next

(***************************************************************************)
(* The strengthened invariant holds of every run of the adapter.           *)
(***************************************************************************)
THEOREM Invariance == Spec => []IInv
BY InitIInv, NextIInv, PTL DEF Spec

(***************************************************************************)
(* Every variable keeps to its values; in particular the plan stays        *)
(* between the floor and the nominal step.                                 *)
(***************************************************************************)
THEOREM TypeCorrect == Spec => []TypeOK
BY Invariance, PTL DEF IInv

(***************************************************************************)
(* The current time is always a whole number of planned steps past the     *)
(* grid's anchor, whatever halved or doubled the plan.                     *)
(***************************************************************************)
THEOREM AlwaysOnGrid == Spec => []OnGrid
BY Invariance, PTL DEF IInv

(***************************************************************************)
(* No attempt the adapter makes is one the core's own checks refuse.       *)
(***************************************************************************)
THEOREM CoreAlwaysTakesTheAttempt == Spec => []CoreTakesTheAttempt
BY Invariance, PTL DEF IInv
-----------------------------------------------------------------------------
LEMMA StepRefines == IInv /\ [Next]_vars => [Stepper!Next]_Stepper!vars
<1> SUFFICES ASSUME IInv, [Next]_vars PROVE [Stepper!Next]_Stepper!vars
  OBVIOUS
<1> USE DEF Stepper!Next, Stepper!Time, Time
<1>1. ASSUME NEW stop \in Time, Begin(stop) PROVE Stepper!Next
  <2>1. attempt' # {}
    BY <1>1 DEF Begin, Attempt
  <2> QED
    BY <1>1, <2>1 DEF Begin, Stepper!Enter
<1>2. ASSUME NEW a \in attempt, Reject(a) PROVE UNCHANGED Stepper!vars
  <2>1. attempt # {} /\ attempt' # {}
    BY <1>2 DEF Reject, Attempt
  <2> QED
    BY <1>2, <2>1 DEF Reject, Stepper!vars
<1>3. ASSUME NEW a \in attempt, GiveUp(a) \/ ExportFails(a) \/ CoreThrows(a)
      PROVE  Stepper!Next
  <2>1. blocked /\ dense = {}
    BY DEF IInv, Blocking
  <2>2. attempt' = {} /\ UNCHANGED <<publicTime, blocked, dense>>
    BY <1>3 DEF GiveUp, ExportFails, CoreThrows
  <2> QED
    BY <2>1, <2>2 DEF Stepper!Fail
<1>4. ASSUME NEW a \in attempt, Publish(a) PROVE Stepper!Next
  <2>1. a.end \in 0..Horizon /\ publicTime < a.end
    BY DEF IInv, TypeOK, Attempts, CoreTakesTheAttempt, CoordinateEndpointTimeIsCompatible
  <2>2. Stepper!Step(a.end)
    BY <1>4, <2>1 DEF Publish, Stepper!Step
  <2> QED
    BY <2>1, <2>2
<1>5. ASSUME NEW t \in Time, Reinitialize(t) PROVE Stepper!Next
  BY <1>5 DEF Reinitialize, Stepper!Reinitialize
<1>6. CASE ReinitializeFails
  BY <1>6 DEF ReinitializeFails, Stepper!Fail
<1>7. CASE UNCHANGED vars
  BY <1>7 DEF vars, Stepper!vars
<1> QED
  BY <1>1, <1>2, <1>3, <1>4, <1>5, <1>6, <1>7 DEF Next, Attempted

(***************************************************************************)
(* The adapter implements the stepper every backend promises to be: each   *)
(* call, rejection, retry and failure is one of its steps or none.         *)
(***************************************************************************)
THEOREM AdapterImplementsStepper == Spec => ImplementsStepper
<1>1. Init => Stepper!Init
  BY DEF Init, Stepper!Init, Stepper!Time, Time
<1>2. IInv /\ [Next]_vars => [Stepper!Next]_Stepper!vars
  BY StepRefines
<1> QED
  BY <1>1, <1>2, Invariance, PTL DEF Spec, ImplementsStepper, Stepper!Spec
-----------------------------------------------------------------------------
(***************************************************************************)
(* RADAU5                                                                  *)
(***************************************************************************)

Working == {"trial", "baseline", "jacobian", "setup", "newton", "estimate"}

\* A call is under way exactly in the phases of a trial; its step has a length
\* and ends no later than the stop once the trial has begun.
RadauCalls ==
  /\ phase \in Working => time < call.stop
  /\ phase \in Working \ {"trial"} => 0 < call.h /\ call.h <= call.stop - time
  /\ phase \notin Working => call = Radau!NoCall
  /\ phase # "poisoned" => singulars < Singulars

\* What a trial may use again fits: a Jacobian that is available is current and
\* one taken in this call is of this point, and factors that are available and
\* match are of the step noted.
RadauReuse ==
  /\ jacobian.available => jacobian.current
  /\ jacobian.fresh => jacobian.here
  /\ phase # "poisoned" /\ factors.available /\ factors.matching => matrices = factors.step
  /\ phase \in {"setup", "newton", "estimate"} => jacobian.available
  /\ phase \in {"newton", "estimate"} =>
       factors.matching /\ factors.step = call.h /\ matrices = call.h
  /\ call.trials > (IF phase = "trial" THEN 0 ELSE 1) /\ jacobian.available => jacobian.here

\* A recoverable failure nothing has succeeded since is the exception kept.
RadauCause ==
  /\ phase # "poisoned" /\ pending \in Radau!Recoverable => exception = "recoverable"
  /\ Radau!ThrownIsTheCause

RadauInv == Radau!TypeOK /\ RadauCalls /\ RadauReuse /\ RadauCause

RadauStep == [Radau!Next]_Radau!vars


LEMMA RadauBudgets ==
  /\ RadauHorizon \in Nat /\ RadauHorizon > 0 /\ Snap \in Nat /\ Perturbations \in Nat
  /\ Trials \in Nat /\ Trials > 0 /\ Singulars \in Nat /\ Singulars > 0
  /\ Columns \in Nat /\ Columns > 0 /\ Iterations \in Nat /\ Iterations > 0
BY BackendAssumptions DEF Radau!Budgets

LEMMA RadauNoCall == Radau!NoCall \in Radau!Calls
BY RadauBudgets DEF Radau!NoCall, Radau!Calls, Radau!Time, Radau!Steps

LEMMA RadauInit == Radau!Init => RadauInv
<1> SUFFICES ASSUME Radau!Init PROVE RadauInv
  OBVIOUS
<1> USE RadauBudgets, RadauNoCall DEF Radau!Init
<1>1. Radau!TypeOK
  <2>1.
           /\ Radau!NoJacobian \in [available : BOOLEAN, fresh : BOOLEAN, here : BOOLEAN,
              current : BOOLEAN]
        /\ Radau!NoFactors \in [available : BOOLEAN, step : Radau!Steps, matching : BOOLEAN]
    BY DEF Radau!NoJacobian, Radau!NoFactors, Radau!Steps
  <2>2. 1 \in Radau!Steps /\ -1 \in Radau!Steps \cup {-1} /\ 0 \in 0..Singulars
    BY DEF Radau!Steps
  <2> QED
    BY <2>1, <2>2 DEF Radau!TypeOK, Radau!Causes, Radau!Phases
<1>2. RadauCalls /\ RadauReuse /\ RadauCause
  BY DEF RadauCalls, RadauReuse, RadauCause, Working, Radau!NoJacobian, Radau!NoFactors,
         Radau!NoCall, Radau!Recoverable, Radau!ThrownIsTheCause
<1> QED
  BY <1>1, <1>2 DEF RadauInv

\* An exception that leaves the call, whatever threw it.
LEMMA RadauPoisoned ==
  ASSUME RadauInv,
         NEW reason \in {"recoverable", "fatal", "numerical"}, Radau!Throws(reason),
         UNCHANGED <<time, suggested, succeeded, rejection, jacobian, factors>>,
         matrices' \in {matrices, -1}, singulars' \in 0..Singulars, pending' \in Radau!Causes,
         exception' \in {"none", "recoverable", "fatal"},
         reason # "numerical" => exception' = reason
  PROVE  RadauInv'
<1> USE RadauBudgets
<1>1. phase' = "poisoned" /\ interval' = {} /\ call' = Radau!NoCall /\ thrown' = reason
  BY DEF Radau!Throws
<1>2. Radau!TypeOK'
  BY <1>1, RadauNoCall DEF RadauInv, Radau!TypeOK, Radau!Phases
<1>3. RadauCalls' /\ RadauCause'
  BY <1>1 DEF RadauCalls, RadauCause, Working, Radau!ThrownIsTheCause
<1>4. RadauReuse'
  BY <1>1 DEF RadauInv, RadauReuse, Radau!NoCall
<1> QED
  BY <1>2, <1>3, <1>4 DEF RadauInv

\* What a call's locals are while a trial is at work.
LEMMA RadauLocals ==
  ASSUME RadauInv
  PROVE  /\ call.stop \in 0..RadauHorizon /\ call.h \in 0..RadauHorizon
         /\ time \in 0..RadauHorizon
         /\ call.trials \in 0..Trials
         /\ phase \in {"baseline", "jacobian", "setup", "newton", "estimate"} =>
              0 < call.h /\ call.h <= call.stop - time /\ time < call.stop
BY RadauBudgets
   DEF RadauInv, Radau!TypeOK, Radau!Calls, Radau!Time, Radau!Steps, RadauCalls, Working

\* A rejected trial, whatever rejected it.
LEMMA RadauRetried ==
  ASSUME RadauInv, phase \in {"setup", "newton", "estimate"},
         NEW next \in 0..call.h, NEW cause \in Radau!Causes, Radau!Retry(next, cause),
         UNCHANGED <<time, succeeded>>,
         matrices' \in {matrices, -1}, singulars' \in 0..(Singulars - 1),
         exception' \in {"none", "recoverable", "fatal"},
         cause \in Radau!Recoverable => exception' = "recoverable"
  PROVE  RadauInv'
<1> USE RadauBudgets
<1>1. /\ phase' = "trial" /\ call' = [call EXCEPT !.h = next] /\ pending' = cause
      /\ suggested' = next /\ rejection' = TRUE /\ UNCHANGED <<interval, thrown>>
      /\ factors' = [factors EXCEPT !.available = FALSE]
      /\ jacobian' = [jacobian EXCEPT !.available = @ /\ jacobian.fresh]
  BY DEF Radau!Retry
<1>2. next \in Radau!Steps
  BY RadauLocals DEF Radau!Steps
<1>3. call \in Radau!Calls
  BY DEF RadauInv, Radau!TypeOK
<1>4. call' \in Radau!Calls /\ call'.stop = call.stop /\ call'.trials = call.trials
  BY <1>1, <1>2, <1>3 DEF Radau!Calls
<1>5. Radau!TypeOK'
  <2>1. factors' \in [available : BOOLEAN, step : Radau!Steps, matching : BOOLEAN]
    BY <1>1 DEF RadauInv, Radau!TypeOK
  <2>2. jacobian' \in [available : BOOLEAN, fresh : BOOLEAN, here : BOOLEAN, current : BOOLEAN]
    BY <1>1 DEF RadauInv, Radau!TypeOK
  <2> QED
    BY <1>1, <1>2, <1>4, <2>1, <2>2 DEF RadauInv, Radau!TypeOK, Radau!Phases
<1>6. RadauCalls'
  BY <1>1, <1>4, RadauLocals DEF RadauCalls, Working
<1>7. RadauReuse'
  <2>1. ~factors'.available
    BY <1>1 DEF RadauInv, Radau!TypeOK
  <2>2. /\ jacobian'.fresh = jacobian.fresh /\ jacobian'.here = jacobian.here
        /\ jacobian'.current = jacobian.current
        /\ jacobian'.available = (jacobian.available /\ jacobian.fresh)
    BY <1>1 DEF RadauInv, Radau!TypeOK
  <2> QED
    BY <1>1, <2>1, <2>2 DEF RadauInv, RadauReuse
<1>8. RadauCause'
  BY <1>1 DEF RadauCause, Radau!ThrownIsTheCause
<1> QED
  BY <1>5, <1>6, <1>7, <1>8 DEF RadauInv

\* What an evaluation of the right-hand side leaves behind.
LEMMA RadauEvaluated ==
  ASSUME RadauInv, NEW status \in {"success", "recoverable", "fatal"}, Radau!Evaluate(status)
  PROVE  /\ pending' \in Radau!Causes /\ exception' \in {"none", "recoverable", "fatal"}
         /\ status # "success" => exception' = status
         /\ status # "fatal" /\ pending' \in Radau!Recoverable => exception' = "recoverable"
BY DEF RadauInv, RadauCause, Radau!TypeOK, Radau!Evaluate, Radau!Answer, Radau!CauseAfter,
       Radau!Causes, Radau!Recoverable

LEMMA RadauNext == RadauInv /\ RadauStep => RadauInv'
<1> SUFFICES ASSUME RadauInv, RadauStep PROVE RadauInv'
  OBVIOUS
<1> USE RadauBudgets
<1>a. call \in Radau!Calls /\ time \in Radau!Time
  BY DEF RadauInv, Radau!TypeOK
<1>b. UNCHANGED <<Radau!controller, Radau!linear>> =>
        UNCHANGED <<suggested, succeeded, rejection, singulars, jacobian, factors, matrices>>
  BY DEF Radau!controller, Radau!linear
<1>c. singulars \in 0..Singulars /\ matrices \in {matrices, -1}
  BY DEF RadauInv, Radau!TypeOK
<1>1. ASSUME NEW stop \in Radau!Time, Radau!Call(stop) PROVE RadauInv'
  <2>1. /\ call' \in Radau!Calls /\ call'.stop = stop /\ call'.trials = 0
    <3>1. PICK h \in Radau!Steps : call' = [Radau!NoCall EXCEPT !.stop = stop, !.h = h]
      <4>1. /\ suggested \in Radau!Steps /\ time < stop /\ time \in Radau!Time
            /\ stop \in Radau!Time
        BY <1>1 DEF Radau!Call, RadauInv, Radau!TypeOK
      <4>2. stop - time \in Radau!Steps
        BY <4>1 DEF Radau!Time, Radau!Steps
      <4> QED
        BY <1>1, <4>1, <4>2 DEF Radau!Call
    <3>2. call' = [stop |-> stop, h |-> h, trials |-> 0, baseline |-> FALSE,
                   column |-> 1, tries |-> 0, iteration |-> 1, stage |-> 1]
      BY <3>1 DEF Radau!NoCall
    <3>3. 0 \in 0..Trials /\ 1 \in 1..Columns /\ 0 \in 0..Perturbations /\ 1 \in 1..Iterations
      OBVIOUS
    <3>4. stop \in Radau!Time /\ h \in Radau!Steps
      BY <1>1, <3>1
    <3>5. call' \in Radau!Calls
      BY <3>2, <3>3, <3>4 DEF Radau!Calls
    <3> QED
      BY <3>2, <3>5
  <2>2. Radau!TypeOK'
    BY <1>1, <1>b, <2>1 DEF Radau!Call, RadauInv, Radau!TypeOK, Radau!Phases
  <2>3. RadauCalls' /\ RadauReuse' /\ RadauCause'
    BY <1>1, <1>b, <2>1 DEF Radau!Call, RadauInv, RadauCalls, RadauReuse, RadauCause, Working,
           Radau!ThrownIsTheCause
  <2> QED
    BY <2>2, <2>3 DEF RadauInv
<1>2. CASE Radau!BeginTrial
  <2>1. CASE call.trials = Trials \/ Radau!Length = 0
    <3>1. Radau!Terminal /\ UNCHANGED <<time, pending, exception, Radau!controller, Radau!linear>>
      BY <1>2, <2>1 DEF Radau!BeginTrial
    <3>2. PICK reason \in {"recoverable", "numerical"} :
             Radau!Throws(reason) /\ (reason = "recoverable" => pending \in Radau!Recoverable)
      BY <3>1 DEF Radau!Terminal
    <3> QED
      BY <1>2, <1>b, <1>c, <3>1, <3>2, RadauPoisoned
         DEF RadauInv, RadauCause, Radau!TypeOK, Radau!BeginTrial
  <2>2. CASE ~(call.trials = Trials \/ Radau!Length = 0)
    <3>1. /\ phase = "trial" /\ phase' \in {"baseline", "setup", "jacobian"}
          /\ phase' = "setup" => jacobian.available
          /\ call' = [call EXCEPT !.trials = @ + 1, !.h = Radau!Length, !.column = 1, !.tries = 0]
          /\ UNCHANGED <<interval, thrown, time, pending, exception, Radau!controller,
             Radau!linear>>
      BY <1>2, <2>2 DEF Radau!BeginTrial
    <3>2. time < call.stop /\ call.stop \in 0..RadauHorizon /\ call.h \in 0..RadauHorizon
          /\ time \in 0..RadauHorizon
      BY <3>1, RadauLocals DEF RadauInv, RadauCalls, Working
    <3>3. Radau!Length \in 1..RadauHorizon /\ Radau!Length <= call.stop - time
      BY <2>2, <3>2 DEF Radau!Length
    <3>4. /\ call' \in Radau!Calls /\ call'.stop = call.stop /\ call'.h = Radau!Length
          /\ call'.trials = call.trials + 1
      <4>1. /\ call.trials + 1 \in 0..Trials /\ Radau!Length \in Radau!Steps
            /\ 1 \in 1..Columns /\ 0 \in 0..Perturbations
        BY <2>2, <3>3, RadauLocals DEF Radau!Steps
      <4> QED
        BY <1>a, <3>1, <4>1 DEF Radau!Calls
    <3>5. Radau!TypeOK'
      BY <1>b, <3>1, <3>4 DEF RadauInv, Radau!TypeOK, Radau!Phases
    <3>6. RadauCalls' /\ RadauCause'
      BY <1>b, <3>1, <3>2, <3>3, <3>4
         DEF RadauInv, RadauCalls, RadauCause, Working, Radau!ThrownIsTheCause
    <3>7. RadauReuse'
      BY <1>a, <1>b, <3>1, <3>4 DEF RadauInv, RadauReuse, Radau!Calls
    <3> QED
      BY <3>5, <3>6, <3>7 DEF RadauInv
  <2> QED
    BY <2>1, <2>2
<1>3. ASSUME NEW status \in {"success", "recoverable", "fatal"}, Radau!Baseline(status)
      PROVE  RadauInv'
  <2>1. /\ phase = "baseline" /\ Radau!Evaluate(status)
        /\ UNCHANGED <<time, Radau!controller, Radau!linear>>
    BY <1>3 DEF Radau!Baseline
  <2>2. CASE status = "success"
    <3>1. /\ phase' \in {"setup", "jacobian"} /\ (phase' = "setup" => jacobian.available)
          /\ call' = [call EXCEPT !.baseline = TRUE] /\ UNCHANGED <<interval, thrown>>
      BY <1>3, <2>2 DEF Radau!Baseline
    <3>2. call' \in Radau!Calls /\ call'.stop = call.stop /\ call'.h = call.h
          /\ call'.trials = call.trials
      BY <1>a, <3>1 DEF Radau!Calls
    <3>3. Radau!TypeOK'
      BY <1>b, <2>1, <3>1, <3>2, RadauEvaluated DEF RadauInv, Radau!TypeOK, Radau!Phases
    <3>4. RadauCalls' /\ RadauReuse'
      BY <1>b, <2>1, <3>1, <3>2 DEF RadauInv, RadauCalls, RadauReuse, Working
    <3>5. RadauCause'
      BY <2>1, <2>2, <3>1, RadauEvaluated DEF RadauCause, Radau!ThrownIsTheCause
    <3> QED
      BY <3>3, <3>4, <3>5 DEF RadauInv
  <2>3. CASE status # "success"
    <3>1. Radau!Throws(exception') /\ exception' = status
      BY <1>3, <2>1, <2>3, RadauEvaluated DEF Radau!Baseline, Radau!Fails
    <3> QED
      BY <1>b, <1>c, <2>1, <2>3, <3>1, RadauEvaluated, RadauPoisoned
  <2> QED
    BY <2>2, <2>3
<1>4. ASSUME NEW status \in {"success", "recoverable", "fatal"}, Radau!JacobianColumn(status)
      PROVE  RadauInv'
  <2>1. /\ phase = "jacobian" /\ Radau!Evaluate(status)
        /\ UNCHANGED <<time, matrices, suggested, succeeded, rejection, singulars>>
    BY <1>4 DEF Radau!JacobianColumn, Radau!controller
  <2>2. ASSUME status \in {"success", "recoverable"}, call' \in Radau!Calls,
               call'.stop = call.stop, call'.h = call.h, call'.trials = call.trials,
               UNCHANGED <<jacobian, factors, phase, interval, thrown>>
        PROVE  RadauInv'
    <3>1. Radau!TypeOK'
      BY <2>1, <2>2, RadauEvaluated DEF RadauInv, Radau!TypeOK
    <3>2. RadauCalls' /\ RadauReuse'
      BY <2>1, <2>2 DEF RadauInv, RadauCalls, RadauReuse, Working
    <3>3. RadauCause'
      BY <2>1, <2>2, RadauEvaluated DEF RadauCause, Radau!ThrownIsTheCause
    <3> QED
      BY <3>1, <3>2, <3>3 DEF RadauInv
  <2>3. CASE /\ status = "success" /\ call.column < Columns
             /\ call' = [call EXCEPT !.column = @ + 1, !.tries = 0]
             /\ UNCHANGED <<jacobian, factors, phase, interval, thrown>>
    <3>1. call' \in Radau!Calls /\ call'.stop = call.stop /\ call'.h = call.h
          /\ call'.trials = call.trials
      <4>1. call.column + 1 \in 1..Columns /\ 0 \in 0..Perturbations
        BY <1>a, <2>3 DEF Radau!Calls
      <4> QED
        BY <1>a, <2>3, <4>1 DEF Radau!Calls
    <3> QED
      BY <2>2, <2>3, <3>1
  <2>4. CASE /\ status = "recoverable" /\ call.tries < Perturbations
             /\ call' = [call EXCEPT !.tries = @ + 1]
             /\ UNCHANGED <<jacobian, factors, phase, interval, thrown>>
    <3>1. call' \in Radau!Calls /\ call'.stop = call.stop /\ call'.h = call.h
          /\ call'.trials = call.trials
      BY <1>a, <2>4 DEF Radau!Calls
    <3> QED
      BY <2>2, <2>4, <3>1
  <2>5. CASE /\ status = "success"
             /\ jacobian' = [available |-> TRUE, fresh |-> TRUE, here |-> TRUE, current |-> TRUE]
             /\ factors' = [factors EXCEPT !.available = FALSE, !.matching = FALSE]
             /\ phase' = "setup"
             /\ UNCHANGED <<call, interval, thrown>>
    <3>1. factors' \in [available : BOOLEAN, step : Radau!Steps, matching : BOOLEAN]
          /\ ~factors'.available
      BY <2>5 DEF RadauInv, Radau!TypeOK
    <3>2. Radau!TypeOK'
      BY <2>1, <2>5, <3>1, RadauEvaluated DEF RadauInv, Radau!TypeOK, Radau!Phases
    <3>3. RadauCalls' /\ RadauReuse'
      BY <2>1, <2>5, <3>1 DEF RadauInv, RadauCalls, RadauReuse, Working
    <3>4. RadauCause'
      BY <2>1, <2>5, RadauEvaluated DEF RadauCause, Radau!ThrownIsTheCause
    <3> QED
      BY <3>2, <3>3, <3>4 DEF RadauInv
  <2>6. CASE status # "success" /\ Radau!Fails /\ UNCHANGED <<jacobian, factors>>
    <3>1. Radau!Throws(exception') /\ exception' = status
      BY <2>1, <2>6, RadauEvaluated DEF Radau!Fails
    <3> QED
      BY <1>c, <2>1, <2>6, <3>1, RadauEvaluated, RadauPoisoned
  <2> QED
    BY <1>4, <2>3, <2>4, <2>5, <2>6 DEF Radau!JacobianColumn
<1>5. CASE Radau!Setup
  <2>1. /\ phase = "setup" /\ phase' = "newton"
           /\ call' = [call EXCEPT !.iteration = 1, !.stage = 1]
        /\ UNCHANGED <<time, jacobian, pending, interval, exception, thrown,
                       suggested, succeeded, rejection, singulars>>
    BY <1>5 DEF Radau!Setup, Radau!controller
  <2>2. call' \in Radau!Calls /\ call'.stop = call.stop /\ call'.h = call.h
        /\ call'.trials = call.trials
    <3>1. 1 \in 1..Iterations /\ 1 \in 1..3
      OBVIOUS
    <3> QED
      BY <1>a, <2>1, <3>1 DEF Radau!Calls
  <2>3. /\ factors' \in [available : BOOLEAN, step : Radau!Steps, matching : BOOLEAN]
        /\ matrices' \in Radau!Steps \cup {-1}
        /\ factors'.matching /\ factors'.step = call.h /\ matrices' = call.h
    <3>1. call.h \in Radau!Steps
      BY <1>a DEF Radau!Calls
    <3>2. CASE Radau!Fit
      BY <1>5, <2>1, <3>1, <3>2 DEF Radau!Setup, Radau!Fit, RadauInv, RadauReuse, Radau!TypeOK
    <3>3. CASE ~Radau!Fit
      <4>1. /\ factors' = [available |-> TRUE, step |-> call.h, matching |-> TRUE]
            /\ matrices' = call.h
        BY <1>5, <3>3 DEF Radau!Setup
      <4> QED
        BY <3>1, <4>1
    <3> QED
      BY <3>2, <3>3
  <2>4. Radau!TypeOK'
    BY <2>1, <2>2, <2>3 DEF RadauInv, Radau!TypeOK, Radau!Phases
  <2>5. RadauCalls' /\ RadauReuse' /\ RadauCause'
    BY <2>1, <2>2, <2>3
       DEF RadauInv, RadauCalls, RadauReuse, RadauCause, Working, Radau!ThrownIsTheCause
  <2> QED
    BY <2>4, <2>5 DEF RadauInv
<1>6. CASE Radau!SetupSingular
  <2>1. /\ phase = "setup" /\ matrices' = -1 /\ singulars' = singulars + 1
        /\ singulars < Singulars /\ UNCHANGED <<time, succeeded, exception>>
    BY <1>6 DEF Radau!SetupSingular, RadauInv, RadauCalls
  <2>2. CASE singulars' = Singulars
    BY <1>6, <1>c, <2>1, <2>2, RadauPoisoned
       DEF Radau!SetupSingular, Radau!Causes, RadauInv, Radau!TypeOK
  <2>3. CASE singulars' # Singulars
    <3>1. Radau!Half \in 0..call.h
      BY RadauLocals DEF Radau!Half
    <3>2. Radau!Retry(Radau!Half, "singular")
      BY <1>6, <2>3 DEF Radau!SetupSingular
    <3>3. singulars' \in 0..(Singulars - 1)
      BY <1>c, <2>1, <2>3
    <3> QED
      BY <2>1, <3>1, <3>2, <3>3, RadauRetried
         DEF Radau!Causes, Radau!Recoverable, RadauInv, Radau!TypeOK
  <2> QED
    BY <2>2, <2>3
<1>7. CASE Radau!SetupOverflows
  <2>1. PICK reason \in {"recoverable", "numerical"} :
           Radau!Throws(reason) /\ (reason = "recoverable" => pending \in Radau!Recoverable)
    BY <1>7 DEF Radau!SetupOverflows, Radau!Terminal
  <2> QED
    BY <1>7, <1>c, <2>1, RadauPoisoned
       DEF Radau!SetupOverflows, Radau!controller, RadauInv, RadauCause, Radau!TypeOK
<1>8. CASE Radau!NextStage
  <2>1. /\ phase = "newton" /\ Radau!Evaluate("success") /\ call' = [call EXCEPT !.stage = @ + 1]
        /\ call.stage < 3
           /\ UNCHANGED <<time, interval, phase, thrown, Radau!controller, Radau!linear>>
    BY <1>8 DEF Radau!NextStage
  <2>2. call' \in Radau!Calls /\ call'.stop = call.stop /\ call'.h = call.h
        /\ call'.trials = call.trials
    BY <1>a, <2>1 DEF Radau!Calls
  <2>3. Radau!TypeOK'
    BY <1>b, <2>1, <2>2, RadauEvaluated DEF RadauInv, Radau!TypeOK
  <2>4. RadauCalls' /\ RadauReuse'
    BY <1>b, <2>1, <2>2 DEF RadauInv, RadauCalls, RadauReuse, Working
  <2>5. RadauCause'
    BY <2>1, RadauEvaluated DEF RadauCause, Radau!ThrownIsTheCause
  <2> QED
    BY <2>3, <2>4, <2>5 DEF RadauInv
<1>9. CASE Radau!Iterated
  <2>1. phase = "newton" /\ Radau!Answer("success") /\ exception' = "none" /\ UNCHANGED time
    BY <1>9 DEF Radau!Iterated, Radau!Answer
  <2>2. ASSUME pending' = Radau!CauseAfter("success"), phase' \in {"newton", "estimate"},
               call' \in Radau!Calls, call'.stop = call.stop, call'.h = call.h,
               call'.trials = call.trials,
               UNCHANGED <<interval, thrown, Radau!controller, Radau!linear>>
        PROVE  RadauInv'
    <3>1. Radau!Evaluate("success")
      BY <2>1, <2>2 DEF Radau!Evaluate
    <3>2. Radau!TypeOK'
      BY <1>b, <2>1, <2>2, <3>1, RadauEvaluated DEF RadauInv, Radau!TypeOK, Radau!Phases
    <3>3. RadauCalls' /\ RadauReuse'
      BY <1>b, <2>1, <2>2 DEF RadauInv, RadauCalls, RadauReuse, Working
    <3>4. RadauCause'
      BY <2>2, <3>1, RadauEvaluated DEF RadauCause, Radau!ThrownIsTheCause
    <3> QED
      BY <3>2, <3>3, <3>4 DEF RadauInv
  <2>3. CASE /\ phase' = "estimate" /\ pending' = Radau!CauseAfter("success")
             /\ UNCHANGED <<call, interval, thrown, Radau!controller, Radau!linear>>
    BY <1>a, <2>2, <2>3
  <2>4. CASE /\ call.iteration < Iterations
             /\ call' = [call EXCEPT !.iteration = @ + 1, !.stage = 1]
             /\ pending' = Radau!CauseAfter("success")
             /\ UNCHANGED <<phase, interval, thrown, Radau!controller, Radau!linear>>
    <3>1. call' \in Radau!Calls /\ call'.stop = call.stop /\ call'.h = call.h
          /\ call'.trials = call.trials
      <4>1. call.iteration + 1 \in 1..Iterations /\ 1 \in 1..3
        BY <1>a, <2>4 DEF Radau!Calls
      <4> QED
        BY <1>a, <2>4, <4>1 DEF Radau!Calls
    <3> QED
      BY <2>1, <2>2, <2>4, <3>1
  <2>5. CASE /\ \E next \in IF call.iteration < Iterations THEN Radau!Shorter ELSE {Radau!Half} :
                    Radau!Retry(next, "newton")
             /\ UNCHANGED <<succeeded, singulars, matrices>>
    <3>1. Radau!Half \in 0..call.h /\ Radau!Shorter \subseteq 0..call.h
      BY RadauLocals DEF Radau!Half, Radau!Shorter
    <3>2. PICK next \in 0..call.h : Radau!Retry(next, "newton")
      BY <2>5, <3>1
    <3>3. singulars' \in 0..(Singulars - 1)
      BY <1>c, <2>1, <2>5 DEF RadauInv, RadauCalls
    <3> QED
      BY <2>1, <2>5, <3>2, <3>3, RadauRetried DEF Radau!Causes, Radau!Recoverable
  <2> QED
    BY <1>9, <2>3, <2>4, <2>5 DEF Radau!Iterated
<1>10. CASE Radau!Fatally
  <2>1. /\ Radau!Evaluate("fatal") /\ Radau!Throws(exception')
        /\ UNCHANGED <<time, Radau!controller, Radau!linear>>
    BY <1>10 DEF Radau!Fatally, Radau!Fails
  <2>2. exception' = "fatal" /\ pending' \in Radau!Causes
    BY <2>1, RadauEvaluated
  <2> QED
    BY <1>b, <1>c, <2>1, <2>2, RadauPoisoned
<1>11. CASE Radau!Recoverably
  <2>1. /\ phase \in {"newton", "estimate"} /\ exception' = "recoverable"
        /\ UNCHANGED <<time, succeeded, singulars, matrices>>
        /\ \E cause \in Radau!Recoverable : Radau!Retry(Radau!Half, cause)
    BY <1>11 DEF Radau!Recoverably, Radau!Answer, Radau!Recoverable
  <2>2. PICK cause \in Radau!Causes : Radau!Retry(Radau!Half, cause)
    BY <2>1 DEF Radau!Causes
  <2>3. Radau!Half \in 0..call.h
    BY RadauLocals DEF Radau!Half
  <2>4. singulars' \in 0..(Singulars - 1)
    BY <1>c, <2>1 DEF RadauInv, RadauCalls
  <2> QED
    BY <2>1, <2>2, <2>3, <2>4, RadauRetried
<1>12. CASE Radau!ErrorRejected
  <2>1. phase = "estimate" /\ UNCHANGED <<time, succeeded, singulars, matrices, exception>>
    BY <1>12 DEF Radau!ErrorRejected
  <2>2. PICK next \in 0..call.h : Radau!Retry(next, "error")
    BY <1>12, RadauLocals DEF Radau!ErrorRejected, Radau!Shorter
  <2>3. singulars' \in 0..(Singulars - 1)
    BY <1>c, <2>1 DEF RadauInv, RadauCalls
  <2> QED
    BY <2>1, <2>2, <2>3, RadauRetried DEF Radau!Causes, Radau!Recoverable, RadauInv, Radau!TypeOK
<1>13. ASSUME NEW next \in Radau!Steps, NEW slow \in BOOLEAN, Radau!Accept(next, slow)
       PROVE  RadauInv'
  <2>1. /\ phase = "estimate" /\ phase' = "idle" /\ call' = Radau!NoCall /\ pending' = "none"
        /\ interval' = {[start |-> time, end |-> time']} /\ suggested' = next
        /\ succeeded' = TRUE /\ rejection' = FALSE
        /\ jacobian' = [jacobian EXCEPT !.available = ~slow, !.fresh = FALSE, !.here = FALSE]
        /\ factors' = [factors EXCEPT !.available = ~slow /\ next = call.h]
        /\ UNCHANGED <<singulars, matrices, exception, thrown>>
        /\ time' = IF call.h = call.stop - time THEN call.stop ELSE time + call.h
    BY <1>13 DEF Radau!Accept
  <2>2. time < time' /\ time' \in Radau!Time /\ time \in Radau!Time
    BY <1>a, <2>1, RadauLocals DEF Radau!Time
  <2>3. interval' = {} \/ \E s, e \in Radau!Time : s < e /\ interval' = {[start |-> s, end |-> e]}
    BY <2>1, <2>2
  <2>4. /\ factors' \in [available : BOOLEAN, step : Radau!Steps, matching : BOOLEAN]
        /\ factors'.step = factors.step /\ factors'.matching = factors.matching
    BY <2>1 DEF RadauInv, Radau!TypeOK
  <2>5. /\ jacobian' \in [available : BOOLEAN, fresh : BOOLEAN, here : BOOLEAN, current : BOOLEAN]
        /\ jacobian'.current = jacobian.current /\ ~jacobian'.fresh
    BY <2>1 DEF RadauInv, Radau!TypeOK
  <2>6. Radau!TypeOK'
    BY <2>1, <2>2, <2>3, <2>4, <2>5, RadauNoCall
       DEF RadauInv, Radau!TypeOK, Radau!Phases, Radau!Causes
  <2>7. RadauCalls' /\ RadauCause'
    BY <2>1
       DEF RadauInv, RadauCalls, RadauCause, Working, Radau!Recoverable, Radau!ThrownIsTheCause
  <2>8. matrices = factors.step
    BY <2>1 DEF RadauInv, RadauReuse
  <2>9. RadauReuse'
    BY <2>1, <2>4, <2>5, <2>8 DEF RadauInv, RadauReuse, Radau!NoCall
  <2> QED
    BY <2>6, <2>7, <2>9 DEF RadauInv
<1>14. CASE Radau!Breaks
  BY <1>14, <1>b, <1>c, RadauPoisoned DEF Radau!Breaks, RadauInv, Radau!TypeOK
<1>15. CASE Radau!InvalidateLinearization
  <2>1. /\ phase \in {"idle", "poisoned"}
        /\ jacobian' = [jacobian EXCEPT !.available = FALSE, !.fresh = FALSE, !.current = FALSE]
        /\ factors' = [factors EXCEPT !.available = FALSE]
        /\ UNCHANGED <<time, matrices, pending, interval, exception, phase, call, thrown,
                       suggested, succeeded, rejection, singulars>>
    BY <1>15 DEF Radau!InvalidateLinearization, Radau!controller
  <2>2. /\ factors' \in [available : BOOLEAN, step : Radau!Steps, matching : BOOLEAN]
        /\ ~factors'.available
        /\ jacobian' \in [available : BOOLEAN, fresh : BOOLEAN, here : BOOLEAN, current : BOOLEAN]
        /\ ~jacobian'.available /\ ~jacobian'.fresh
    BY <2>1 DEF RadauInv, Radau!TypeOK
  <2>3. Radau!TypeOK'
    BY <2>1, <2>2 DEF RadauInv, Radau!TypeOK
  <2>4. RadauCalls' /\ RadauReuse' /\ RadauCause'
    BY <2>1, <2>2
       DEF RadauInv, RadauCalls, RadauReuse, RadauCause, Working, Radau!ThrownIsTheCause
  <2> QED
    BY <2>3, <2>4 DEF RadauInv
<1>16. ASSUME NEW t \in Radau!Time, Radau!Reinitialize(t) PROVE RadauInv'
  <2>1. /\ phase \in {"idle", "poisoned"} /\ phase' = "idle" /\ time' = t /\ suggested' = 1
        /\ succeeded' = FALSE /\ rejection' = FALSE
        /\ jacobian' = Radau!NoJacobian /\ factors' = Radau!NoFactors
           /\ UNCHANGED <<matrices, call>>
        /\ singulars' = 0 /\ pending' = "none" /\ interval' = {}
        /\ exception' = "none" /\ thrown' = "none"
    BY <1>16 DEF Radau!Reinitialize, Radau!Fresh
  <2>2. /\ jacobian' \in [available : BOOLEAN, fresh : BOOLEAN, here : BOOLEAN, current : BOOLEAN]
        /\ factors' \in [available : BOOLEAN, step : Radau!Steps, matching : BOOLEAN]
        /\ ~jacobian'.available /\ ~jacobian'.fresh /\ ~factors'.available
        /\ 1 \in Radau!Steps
    BY <2>1 DEF Radau!NoJacobian, Radau!NoFactors, Radau!Steps
  <2>3. Radau!TypeOK'
    <3>1. t \in Radau!Time /\ 0 \in 0..Singulars
      BY <1>16
    <3> QED
      BY <2>1, <2>2, <3>1 DEF RadauInv, Radau!TypeOK, Radau!Phases, Radau!Causes
  <2>4. RadauCalls' /\ RadauReuse' /\ RadauCause'
    BY <2>1, <2>2 DEF RadauInv, RadauCalls, RadauReuse, RadauCause, Working, Radau!Recoverable,
           Radau!ThrownIsTheCause
  <2> QED
    BY <2>3, <2>4 DEF RadauInv
<1>17. CASE UNCHANGED Radau!vars
  BY <1>17 DEF Radau!vars, RadauInv, Radau!TypeOK, RadauCalls, RadauReuse, RadauCause,
         Radau!ThrownIsTheCause
<1> QED
  BY <1>1, <1>2, <1>3, <1>4, <1>5, <1>6, <1>7, <1>8, <1>9, <1>10, <1>11, <1>12, <1>13, <1>14,
     <1>15, <1>16, <1>17 DEF RadauStep, Radau!Next, Radau!Trial

LEMMA RadauRefines == RadauInv /\ RadauStep => [Radau!Stepper!Next]_Radau!Stepper!vars
<1> SUFFICES ASSUME RadauInv, RadauStep PROVE [Radau!Stepper!Next]_Radau!Stepper!vars
  OBVIOUS
<1> USE DEF Radau!Stepper!Next, Radau!Stepper!vars, Radau!Stepper!Time, Radau!Time
<1>1. ASSUME NEW reason, Radau!Throws(reason), UNCHANGED time PROVE Radau!Stepper!Next
  BY <1>1 DEF Radau!Throws, Radau!Stepper!Fail
<1>2. ASSUME UNCHANGED <<time, interval>>, (phase = "poisoned") = (phase' = "poisoned")
      PROVE  UNCHANGED Radau!Stepper!vars
  BY <1>2
<1>3. ASSUME NEW next, NEW cause, phase # "poisoned", Radau!Retry(next, cause), UNCHANGED time
      PROVE  UNCHANGED Radau!Stepper!vars
  BY <1>2, <1>3 DEF Radau!Retry
<1>4. ASSUME NEW stop \in Radau!Time, Radau!Call(stop) PROVE Radau!Stepper!Next
  BY <1>4 DEF Radau!Call, Radau!Stepper!Enter
<1>5. CASE Radau!BeginTrial
  BY <1>1, <1>2, <1>5 DEF Radau!BeginTrial, Radau!Terminal
<1>6. ASSUME NEW status, Radau!Baseline(status) \/ Radau!JacobianColumn(status)
      PROVE  [Radau!Stepper!Next]_Radau!Stepper!vars
  BY <1>1, <1>2, <1>6 DEF Radau!Baseline, Radau!JacobianColumn, Radau!Fails
<1>7. CASE Radau!Setup
  BY <1>2, <1>7 DEF Radau!Setup
<1>8. CASE Radau!SetupSingular \/ Radau!SetupOverflows
  BY <1>1, <1>3, <1>8 DEF Radau!SetupSingular, Radau!SetupOverflows, Radau!Terminal
<1>9. CASE Radau!NextStage \/ Radau!Iterated
  BY <1>2, <1>3, <1>9 DEF Radau!NextStage, Radau!Iterated
<1>10. CASE Radau!Fatally \/ Radau!Breaks
  BY <1>1, <1>10 DEF Radau!Fatally, Radau!Fails, Radau!Breaks
<1>11. CASE Radau!Recoverably \/ Radau!ErrorRejected
  BY <1>3, <1>11 DEF Radau!Recoverably, Radau!ErrorRejected
<1>12. ASSUME NEW next \in Radau!Steps, NEW slow \in BOOLEAN, Radau!Accept(next, slow)
       PROVE  Radau!Stepper!Next
  <2>1. /\ phase = "estimate" /\ phase' = "idle" /\ interval' = {[start |-> time, end |-> time']}
        /\ time' = IF call.h = call.stop - time THEN call.stop ELSE time + call.h
    BY <1>12 DEF Radau!Accept
  <2>2. time' \in 0..RadauHorizon /\ time < time'
    BY <2>1, RadauBudgets, RadauLocals
  <2>3. Radau!Stepper!Step(time')
    BY <2>1, <2>2 DEF Radau!Stepper!Step
  <2> QED
    BY <2>2, <2>3
<1>13. CASE Radau!InvalidateLinearization
  BY <1>2, <1>13 DEF Radau!InvalidateLinearization
<1>14. ASSUME NEW t \in Radau!Time, Radau!Reinitialize(t) PROVE Radau!Stepper!Next
  BY <1>14 DEF Radau!Reinitialize, Radau!Fresh, Radau!Stepper!Reinitialize
<1>15. CASE UNCHANGED Radau!vars
  BY <1>2, <1>15 DEF Radau!vars
<1> QED
  BY <1>4, <1>5, <1>6, <1>7, <1>8, <1>9, <1>10, <1>11, <1>12, <1>13, <1>14, <1>15
     DEF RadauStep, Radau!Next, Radau!Trial
-----------------------------------------------------------------------------
(***************************************************************************)
(* CVODE                                                                   *)
(***************************************************************************)

\* While the kernel is at work the adapter is not blocked and nothing has been
\* thrown, the two clocks agree, and the exception kept is that of the callback
\* that came last.
CvodeInv ==
  /\ Cvode!TypeOK /\ Cvode!ThrownIsTheCause
  /\ kernel.at # "rest" => ~poisoned /\ cvodeThrown = "none"
  /\ kernel.at = "step" => kernel.time = cvodeTime
  /\ kernel.at = "step" => cvodeException = (IF last \in Cvode!Failures THEN last ELSE "none")
  /\ kernel.at = "end" => cvodeTime < kernel.time

CvodeStep == [Cvode!Next]_Cvode!vars

LEMMA CvodeInit == Cvode!Init => CvodeInv
<1> SUFFICES ASSUME Cvode!Init PROVE CvodeInv
  OBVIOUS
<1>1. kernel = [time |-> cvodeTime, at |-> "rest"] /\ cvodeTime \in Cvode!Time
  BY DEF Cvode!Init
<1>2. Cvode!TypeOK
  <2>1. kernel \in [time : Cvode!Time, at : {"rest", "step", "end"}]
    BY <1>1
  <2> QED
    BY <1>1, <2>1 DEF Cvode!Init, Cvode!TypeOK
<1>3. kernel.at = "rest" /\ kernel.time = cvodeTime /\ cvodeThrown = "none"
  BY <1>1 DEF Cvode!Init
<1> QED
  BY <1>2, <1>3 DEF CvodeInv, Cvode!ThrownIsTheCause, Cvode!Failures

LEMMA CvodeNext == CvodeInv /\ CvodeStep => CvodeInv'
<1> SUFFICES ASSUME CvodeInv, CvodeStep PROVE CvodeInv'
  OBVIOUS
<1> USE DEF CvodeInv, Cvode!TypeOK, Cvode!ThrownIsTheCause, Cvode!Failures
<1>a. CvodeHorizon \in Nat
  BY BackendAssumptions DEF Cvode!CvodeAssumption
<1>1. ASSUME NEW end \in Cvode!Time, Cvode!Advance(end) PROVE CvodeInv'
  BY <1>1 DEF Cvode!Advance
<1>2. ASSUME NEW end \in Cvode!Time, Cvode!AdvanceRefused(end) PROVE CvodeInv'
  BY <1>2 DEF Cvode!AdvanceRefused, Cvode!MarkBackendFailure
<1>3. ASSUME NEW end \in Cvode!Time, Cvode!KernelSteps(end) PROVE CvodeInv'
  BY <1>3 DEF Cvode!KernelSteps
<1>4. ASSUME NEW t \in Cvode!Time, Cvode!Reinitialize(t) PROVE CvodeInv'
  BY <1>4 DEF Cvode!Reinitialize
<1>5. ASSUME NEW status \in {"success"} \cup Cvode!Failures,
             Cvode!Callback(status) PROVE CvodeInv'
  BY <1>5 DEF Cvode!Callback, Cvode!Keeps
<1>6. CASE Cvode!KernelFails
  BY <1>6 DEF Cvode!KernelFails, Cvode!MarkBackendFailure
<1>7. CASE Cvode!Publish
  BY <1>7, <1>a DEF Cvode!Publish, Cvode!Time
<1>8. CASE Cvode!PublishRefused \/ Cvode!ReinitializeFails
  BY <1>8 DEF Cvode!PublishRefused, Cvode!ReinitializeFails, Cvode!MarkBackendFailure
<1>9. CASE UNCHANGED Cvode!vars
  BY <1>9 DEF Cvode!vars
<1> QED
  BY <1>1, <1>2, <1>3, <1>4, <1>5, <1>6, <1>7, <1>8, <1>9
     DEF CvodeStep, Cvode!Next, Cvode!EvaluateRhs, Cvode!EvaluateDenseJacobian

LEMMA CvodeRefines == CvodeInv /\ CvodeStep => [Cvode!Stepper!Next]_Cvode!Stepper!vars
<1> SUFFICES ASSUME CvodeInv, CvodeStep PROVE [Cvode!Stepper!Next]_Cvode!Stepper!vars
  OBVIOUS
<1> USE DEF Cvode!Stepper!Next, Cvode!Stepper!vars, Cvode!Stepper!Time, Cvode!Time
<1>1. ASSUME NEW end \in Cvode!Time, Cvode!Advance(end) PROVE Cvode!Stepper!Next
  BY <1>1 DEF Cvode!Advance, Cvode!Stepper!Enter
<1>2. CASE \/ \E end \in Cvode!Time : Cvode!AdvanceRefused(end)
           \/ Cvode!KernelFails \/ Cvode!PublishRefused \/ Cvode!ReinitializeFails
  BY <1>2 DEF Cvode!AdvanceRefused, Cvode!KernelFails, Cvode!PublishRefused,
              Cvode!ReinitializeFails, Cvode!MarkBackendFailure, Cvode!Stepper!Fail
<1>3. ASSUME NEW end \in Cvode!Time, Cvode!KernelSteps(end) PROVE UNCHANGED Cvode!Stepper!vars
  BY <1>3 DEF Cvode!KernelSteps
<1>4. ASSUME NEW status, Cvode!Callback(status) PROVE UNCHANGED Cvode!Stepper!vars
  BY <1>4 DEF Cvode!Callback
<1>5. CASE Cvode!Publish
  <2>1. kernel.time \in 0..CvodeHorizon /\ cvodeTime < kernel.time /\ ~poisoned
    BY <1>5 DEF Cvode!Publish, CvodeInv, Cvode!TypeOK
  <2>2. Cvode!Stepper!Step(kernel.time)
    BY <1>5, <2>1 DEF Cvode!Publish, Cvode!Stepper!Step
  <2> QED
    BY <2>1, <2>2
<1>6. ASSUME NEW t \in Cvode!Time, Cvode!Reinitialize(t) PROVE Cvode!Stepper!Next
  BY <1>6 DEF Cvode!Reinitialize, Cvode!Stepper!Reinitialize
<1>7. CASE UNCHANGED Cvode!vars
  BY <1>7 DEF Cvode!vars
<1> QED
  BY <1>1, <1>2, <1>3, <1>4, <1>5, <1>6, <1>7
     DEF CvodeStep, Cvode!Next, Cvode!EvaluateRhs, Cvode!EvaluateDenseJacobian
-----------------------------------------------------------------------------
(***************************************************************************)
(* The cores of the coordinate methods                                     *)
(***************************************************************************)

Usable == ~unusable /\ ~due

\* Usable or not, the scales are of the norm of the last initialization.
CoreHolds ==
  /\ scales = coreReference
  /\ corePhase # "idle" => Usable
  /\ Usable => b = Cores!Evaluated(coreAccepted, inputs) /\ coreAccepted.norm = coreReference

\* What each phase of a step knows of the candidate.
CoreCandidate ==
  /\ corePhase = "correct" => coreCandidate.iterate < CoreIterations
  /\ corePhase \in {"evaluate", "commit"} => coreCandidate.norm = coreReference
  /\ corePhase = "commit" \/ (corePhase = "project" /\ method = Cores!Newton) =>
        candidate_b = Cores!Evaluated(coreCandidate, inputs)
  /\ method = Cores!TwoStep /\ corePhase # "idle" =>
        /\ coreCandidate.h \in Lengths
        /\ coreCandidate.formula = (IF has_history /\ coreCandidate.h = previous_h
                                      THEN "two-step" ELSE "start-up")

\* Without a history the accepted point is an initial one, of no length.
CoreHistory ==
  method = Cores!TwoStep /\ Usable =>
     /\ has_history = (before # {})
     /\ before = {} => coreAccepted.h = 0
     /\ \A p \in before :
          /\ coreAccepted.formula = (IF p.h = coreAccepted.h THEN "two-step" ELSE "start-up")
          /\ previous_b = Cores!Evaluated(p, inputs)
          /\ previous_h = coreAccepted.h

CoreInv == Cores!TypeOK /\ CoreHolds /\ CoreCandidate /\ CoreHistory

CoreStep == [Cores!Next]_Cores!vars

LEMMA CoreLengths ==
  /\ CoreHorizon \in Nat /\ CoreIterations \in Nat /\ CoreIterations > 0
  /\ \A h \in Lengths : h \in Nat /\ h # 0
BY BackendAssumptions DEF Cores!CoreAssumption

LEMMA CoreDerivatives ==
  ASSUME NEW p \in Cores!Points, NEW in \in Inputs
  PROVE  Cores!Evaluated(p, in) \in Cores!Derivatives /\ Cores!Spoilt(p, in) \in Cores!Derivatives
BY DEF Cores!Evaluated, Cores!Spoilt, Cores!Derivatives

LEMMA CoreInitial ==
  ASSUME NEW t \in 0..CoreHorizon, NEW n \in Norms
  PROVE  /\ Cores!Initial(t, n) \in Cores!Points /\ Cores!Initial(t, n).norm = n
         /\ Cores!Initial(t, n).h = 0
<1>1. 0 \in 0..CoreIterations /\ "initial" \in Cores!Formulas
  BY CoreLengths DEF Cores!Formulas
<1> QED
  BY <1>1 DEF Cores!Initial, Cores!Points

LEMMA CoreInit == Cores!Init => CoreInv
<1> SUFFICES ASSUME Cores!Init PROVE CoreInv
  OBVIOUS
<1>1. PICK n \in Norms :
         /\ coreAccepted = Cores!Initial(0, n) /\ b = Cores!Evaluated(coreAccepted, inputs)
         /\ coreReference = n /\ scales = Cores!Expand(coreAccepted)
  BY DEF Cores!Init
<1>2. /\ coreAccepted \in Cores!Points /\ coreAccepted.norm = n /\ coreAccepted.h = 0
      /\ scales = n
  BY <1>1, CoreInitial, CoreLengths DEF Cores!Expand
<1>3. b \in Cores!Derivatives
  BY <1>1, <1>2, CoreDerivatives DEF Cores!Init
<1>4. Cores!TypeOK
  BY <1>1, <1>2, <1>3 DEF Cores!Init, Cores!TypeOK
<1>5. CoreHolds /\ CoreCandidate /\ CoreHistory
  BY <1>1, <1>2 DEF Cores!Init, CoreHolds, CoreCandidate, CoreHistory, Usable
<1> QED
  BY <1>4, <1>5 DEF CoreInv

\* Whatever is thrown within a step leaves a core that is not usable.
LEMMA CoreThrown ==
  ASSUME CoreInv, Cores!Throws, coreCandidate' \in Cores!Points,
         candidate_b' \in Cores!Derivatives
  PROVE  CoreInv'
<1>1. /\ unusable' = TRUE /\ due' = TRUE /\ corePhase' = "idle"
      /\ UNCHANGED <<method, Cores!core, inputs>>
  BY DEF Cores!Throws
<1>2. Cores!TypeOK'
  BY <1>1 DEF CoreInv, Cores!TypeOK, Cores!core
<1>3. CoreHolds' /\ CoreCandidate' /\ CoreHistory'
  BY <1>1 DEF CoreInv, CoreHolds, CoreCandidate, CoreHistory, Usable, Cores!core
<1> QED
  BY <1>2, <1>3 DEF CoreInv

\* A step that goes on leaves what is accepted alone.
LEMMA CoreContinued ==
  ASSUME CoreInv, corePhase # "idle",
         NEW next \in {"idle", "residual", "correct", "project", "evaluate", "commit"},
         Cores!Continue(next),
         coreCandidate' \in Cores!Points, candidate_b' \in Cores!Derivatives, CoreCandidate'
  PROVE  CoreInv'
<1>1. corePhase' = next /\ UNCHANGED <<method, Cores!core, unusable, inputs, due>>
  BY DEF Cores!Continue
<1>2. Cores!TypeOK'
  BY <1>1 DEF CoreInv, Cores!TypeOK, Cores!core
<1>3. CoreHolds' /\ CoreHistory'
  BY <1>1 DEF CoreInv, CoreHolds, CoreHistory, Usable, Cores!core
<1> QED
  BY <1>2, <1>3 DEF CoreInv

LEMMA CoreNext == CoreInv /\ CoreStep => CoreInv'
<1> SUFFICES ASSUME CoreInv, CoreStep PROVE CoreInv'
  OBVIOUS
<1>a. /\ coreAccepted \in Cores!Points /\ coreCandidate \in Cores!Points
      /\ candidate_b \in Cores!Derivatives /\ b \in Cores!Derivatives /\ inputs \in Inputs
      /\ coreReference \in Norms /\ method \in {Cores!Newton, Cores!TwoStep}
  BY DEF CoreInv, Cores!TypeOK
<1>b. Cores!Evaluated(coreCandidate, inputs) \in Cores!Derivatives
      /\ Cores!Spoilt(coreCandidate, inputs) \in Cores!Derivatives
  BY <1>a, CoreDerivatives
<1>c. Cores!Newton # Cores!TwoStep
  BY DEF Cores!Newton, Cores!TwoStep
<1>1. ASSUME NEW h \in Lengths, NEW end \in Int, Cores!Begin(h, end) PROVE CoreInv'
  <2>1. /\ corePhase = "idle" /\ Usable /\ coreAccepted.time < end /\ end <= CoreHorizon
        /\ coreCandidate' \in Cores!Guess(h, end)
        /\ corePhase' = (IF method = Cores!Newton THEN "residual" ELSE "project")
        /\ UNCHANGED <<method, Cores!core, candidate_b, unusable, inputs, due>>
    BY <1>1 DEF Cores!Begin, Usable
  <2>2. PICK n \in Norms :
           coreCandidate' =
             [time |-> end, h |-> h, iterate |-> 0, norm |-> n,
              formula |-> IF method = Cores!Newton THEN "newmark"
                          ELSE IF Cores!NormalStep(h, end) THEN "two-step" ELSE "start-up"]
    BY <2>1 DEF Cores!Guess
  <2>3. end \in 0..CoreHorizon /\ 0 \in 0..CoreIterations
    BY <1>1, <1>a, <2>1, CoreLengths DEF Cores!Points
  <2>4. coreCandidate' \in Cores!Points
    BY <1>1, <2>2, <2>3 DEF Cores!Points, Cores!Formulas
  <2>5. Cores!TypeOK'
    BY <2>1, <2>4 DEF CoreInv, Cores!TypeOK, Cores!core
  <2>6. CoreCandidate'
    BY <1>1, <1>a, <1>c, <2>1, <2>2 DEF CoreCandidate, Cores!NormalStep, Cores!core
  <2>7. CoreHolds' /\ CoreHistory'
    BY <2>1 DEF CoreInv, CoreHolds, CoreHistory, Usable, Cores!core
  <2> QED
    BY <2>5, <2>6, <2>7 DEF CoreInv
<1>2. CASE Cores!Underflow
  BY <1>2, <1>a, CoreThrown DEF Cores!Underflow
<1>3. CASE Cores!Residual
  <2>1. corePhase = "residual" /\ UNCHANGED coreCandidate
    BY <1>3 DEF Cores!Residual
  <2>2. CASE candidate_b' = Cores!Spoilt(coreCandidate, inputs) /\ Cores!Throws
    BY <1>a, <1>b, <2>1, <2>2, CoreThrown
  <2>3. CASE /\ candidate_b' = Cores!Evaluated(coreCandidate, inputs)
             /\ \/ Cores!Continue("project")
                \/ coreCandidate.iterate < CoreIterations /\ Cores!Continue("correct")
                \/ coreCandidate.iterate = CoreIterations /\ Cores!Continue("idle")
    <3>1. PICK next \in {"project", "correct", "idle"} :
             /\ Cores!Continue(next)
             /\ next = "correct" => coreCandidate.iterate < CoreIterations
      BY <2>3
    <3>2. CoreCandidate'
      BY <2>1, <2>3, <3>1 DEF CoreInv, CoreCandidate, Cores!Continue, Cores!core
    <3> QED
      BY <1>a, <1>b, <2>1, <2>3, <3>1, <3>2, CoreContinued
  <2> QED
    BY <1>3, <2>2, <2>3 DEF Cores!Residual
<1>4. CASE Cores!Correct
  <2>1. corePhase = "correct" /\ UNCHANGED candidate_b
    BY <1>4 DEF Cores!Correct
  <2>2. CASE UNCHANGED coreCandidate /\ Cores!Throws
    BY <1>a, <2>1, <2>2, CoreThrown
  <2>3. CASE
             /\ \E n \in Norms : coreCandidate' = [coreCandidate EXCEPT !.iterate = @ + 1,
                !.norm = n]
             /\ Cores!Continue("residual")
    <3>1. PICK n \in Norms : coreCandidate' = [coreCandidate EXCEPT !.iterate = @ + 1, !.norm = n]
      BY <2>3
    <3>2. coreCandidate.iterate + 1 \in 0..CoreIterations
      BY <1>a, <2>1, CoreLengths DEF CoreInv, CoreCandidate, Cores!Points
    <3>3. /\ coreCandidate' \in Cores!Points /\ coreCandidate'.h = coreCandidate.h
          /\ coreCandidate'.formula = coreCandidate.formula
      BY <1>a, <3>1, <3>2 DEF Cores!Points
    <3>4. CoreCandidate'
      BY <2>1, <2>3, <3>3 DEF CoreInv, CoreCandidate, Cores!Continue, Cores!core
    <3> QED
      BY <1>a, <2>1, <2>3, <3>3, <3>4, CoreContinued
  <2> QED
    BY <1>4, <2>2, <2>3 DEF Cores!Correct
<1>5. CASE Cores!Project
  <2>1. corePhase = "project" /\ UNCHANGED candidate_b
    BY <1>5 DEF Cores!Project
  <2>2. CASE UNCHANGED coreCandidate /\ Cores!Throws
    BY <1>a, <2>1, <2>2, CoreThrown
  <2>3. CASE /\ coreCandidate' = [coreCandidate EXCEPT !.norm = coreReference]
             /\ Cores!Continue(IF Cores!EvaluateAfterProjection THEN "evaluate" ELSE "commit")
    <3>1. /\ coreCandidate' \in Cores!Points /\ coreCandidate'.h = coreCandidate.h
          /\ coreCandidate'.formula = coreCandidate.formula /\ coreCandidate'.norm = coreReference
          /\ coreCandidate.norm = coreReference => coreCandidate' = coreCandidate
      BY <1>a, <2>3 DEF Cores!Points
    <3>2. CASE Cores!EvaluateAfterProjection
      <4>1. Cores!Continue("evaluate")
        BY <2>3, <3>2
      <4>2. CoreCandidate'
        BY <2>1, <3>1, <4>1 DEF CoreInv, CoreCandidate, Cores!Continue, Cores!core
      <4> QED
        BY <1>a, <2>1, <3>1, <4>1, <4>2, CoreContinued
    <3>3. CASE ~Cores!EvaluateAfterProjection
      <4>1. Cores!Continue("commit")
        BY <2>3, <3>3
      <4>2. method = Cores!Newton /\ coreCandidate' = coreCandidate
        BY <1>a, <3>1, <3>3 DEF Cores!EvaluateAfterProjection
      <4>3. CoreCandidate'
        BY <1>c, <2>1, <3>1, <4>1, <4>2 DEF CoreInv, CoreCandidate, Cores!Continue, Cores!core
      <4> QED
        BY <1>a, <2>1, <3>1, <4>1, <4>3, CoreContinued
    <3> QED
      BY <3>2, <3>3
  <2> QED
    BY <1>5, <2>2, <2>3 DEF Cores!Project
<1>6. CASE Cores!EvaluateEndpoint
  <2>1. corePhase = "evaluate" /\ UNCHANGED coreCandidate
    BY <1>6 DEF Cores!EvaluateEndpoint
  <2>2. CASE candidate_b' = Cores!Spoilt(coreCandidate, inputs) /\ Cores!Throws
    BY <1>a, <1>b, <2>1, <2>2, CoreThrown
  <2>3. CASE candidate_b' = Cores!Evaluated(coreCandidate, inputs) /\ Cores!Continue("commit")
    <3>1. CoreCandidate'
      BY <2>1, <2>3 DEF CoreInv, CoreCandidate, Cores!Continue, Cores!core
    <3> QED
      BY <1>a, <1>b, <2>1, <2>3, <3>1, CoreContinued
  <2> QED
    BY <1>6, <2>2, <2>3 DEF Cores!EvaluateEndpoint
<1>7. CASE Cores!CommitCandidate
  <2>1. /\ corePhase = "commit" /\ corePhase' = "idle"
        /\ coreAccepted' = coreCandidate /\ b' = candidate_b /\ before' = {coreAccepted}
        /\ UNCHANGED <<method, coreCandidate, candidate_b, coreReference, scales, unusable,
                       inputs, due>>
    BY <1>7 DEF Cores!CommitCandidate
  <2>2. Usable /\ b = Cores!Evaluated(coreAccepted, inputs) /\ Usable'
    BY <2>1 DEF CoreInv, CoreHolds, Usable
  <2>3. CASE method = Cores!TwoStep
    <3>1. previous_b' = b /\ previous_h' = coreCandidate.h /\ has_history' = TRUE
      BY <1>7, <2>3 DEF Cores!CommitCandidate, Cores!RollHistory
    <3>2. /\ coreCandidate.h \in Lengths /\ coreCandidate.h # 0
          /\ coreCandidate.formula = (IF has_history /\ coreCandidate.h = previous_h
                                        THEN "two-step" ELSE "start-up")
      BY <2>1, <2>3, CoreLengths DEF CoreInv, CoreCandidate
    <3>3. (has_history /\ coreCandidate.h = previous_h) = (coreAccepted.h = coreCandidate.h)
      BY <2>2, <2>3, <3>2 DEF CoreInv, CoreHistory
    <3>4. CoreHistory'
      BY <2>1, <2>2, <3>1, <3>2, <3>3 DEF CoreHistory
    <3>5. Cores!TypeOK'
      BY <1>a, <2>1, <3>1, <3>2 DEF CoreInv, Cores!TypeOK
    <3>6. CoreHolds' /\ CoreCandidate'
      BY <1>c, <2>1, <2>2, <2>3 DEF CoreInv, CoreHolds, CoreCandidate
    <3> QED
      BY <3>4, <3>5, <3>6 DEF CoreInv
  <2>4. CASE method # Cores!TwoStep
    <3>1. UNCHANGED <<previous_b, previous_h, has_history>>
      BY <1>7, <2>4 DEF Cores!CommitCandidate
    <3>2. Cores!TypeOK'
      BY <1>a, <2>1, <3>1 DEF CoreInv, Cores!TypeOK
    <3>3. CoreHolds' /\ CoreCandidate' /\ CoreHistory'
      BY <2>1, <2>2, <2>4 DEF CoreInv, CoreHolds, CoreCandidate, CoreHistory
    <3> QED
      BY <3>2, <3>3 DEF CoreInv
  <2> QED
    BY <2>3, <2>4
<1>8. ASSUME NEW t \in 0..CoreHorizon, NEW n \in Norms, NEW in \in Inputs, Cores!Synchronize(t,
             n, in)
      PROVE  CoreInv'
  <2> DEFINE p == Cores!Initial(t, n)
  <2>1. /\ corePhase = "idle" /\ inputs' = in /\ UNCHANGED <<method, corePhase>>
        /\ Cores!Refused \/ Cores!StartsAnew(p, in)
    BY <1>8 DEF Cores!Synchronize
  <2>2. p \in Cores!Points /\ p.norm = n /\ p.h = 0 /\ in \in Inputs /\ n \in Norms
    BY <1>8, CoreInitial
  <2>3. /\ Cores!Evaluated(p, in) \in Cores!Derivatives
           /\ Cores!Spoilt(p, in) \in Cores!Derivatives
    BY <2>2, CoreDerivatives
  <2> HIDE DEF p
  <2>4. CASE Cores!Refused
    <3>1. due' = TRUE /\ UNCHANGED <<Cores!core, coreCandidate, candidate_b, unusable>>
      BY <2>4 DEF Cores!Refused
    <3>2. Cores!TypeOK'
      BY <2>1, <2>2, <3>1 DEF CoreInv, Cores!TypeOK, Cores!core
    <3>3. CoreHolds' /\ CoreCandidate' /\ CoreHistory'
      BY <2>1, <3>1 DEF CoreInv, CoreHolds, CoreCandidate, CoreHistory, Usable, Cores!core
    <3> QED
      BY <3>2, <3>3 DEF CoreInv
  <2>5. CASE /\ coreCandidate' = p /\ candidate_b' = Cores!Spoilt(p, in)
             /\ unusable' = TRUE /\ due' = TRUE /\ UNCHANGED Cores!core
    <3>1. Cores!TypeOK'
      BY <2>1, <2>2, <2>3, <2>5 DEF CoreInv, Cores!TypeOK, Cores!core
    <3>2. CoreHolds' /\ CoreCandidate' /\ CoreHistory'
      BY <2>1, <2>5 DEF CoreInv, CoreHolds, CoreCandidate, CoreHistory, Usable, Cores!core
    <3> QED
      BY <3>1, <3>2 DEF CoreInv
  <2>6. CASE /\ coreCandidate' = p /\ candidate_b' = Cores!Evaluated(p, in)
             /\ coreAccepted' = p /\ b' = Cores!Evaluated(p, in)
             /\ coreReference' = p.norm /\ scales' = Cores!Expand(p)
             /\ has_history' = FALSE /\ previous_h' = 0 /\ before' = {}
             /\ unusable' = FALSE /\ due' = FALSE /\ UNCHANGED previous_b
    <3>1. Cores!TypeOK'
      BY <2>1, <2>2, <2>3, <2>6 DEF CoreInv, Cores!TypeOK, Cores!Expand
    <3>2. CoreHolds' /\ CoreCandidate' /\ CoreHistory'
      BY <2>1, <2>2, <2>6 DEF CoreHolds, CoreCandidate, CoreHistory, Usable, Cores!Expand
    <3> QED
      BY <3>1, <3>2 DEF CoreInv
  <2> QED
    BY <2>1, <2>4, <2>5, <2>6 DEF Cores!StartsAnew
<1>9. CASE UNCHANGED Cores!vars
  BY <1>9 DEF Cores!vars, Cores!core, CoreInv, Cores!TypeOK, CoreHolds, CoreCandidate,
         CoreHistory, Usable
<1>10. CASE \E h \in Lengths : \E late \in -CoreRounding..CoreRounding :
               late \in -(h \div 16)..(h \div 16) /\ Cores!Begin(h, coreAccepted.time + h + late)
  <2>1. PICK h \in Lengths, late \in -CoreRounding..CoreRounding :
           Cores!Begin(h, coreAccepted.time + h + late)
    BY <1>10
  <2>2. coreAccepted.time + h + late \in Int
    BY <1>a, <2>1, CoreLengths, BackendAssumptions DEF Cores!Points, Cores!CoreAssumption
  <2> QED
    BY <1>1, <2>1, <2>2
<1>11. CASE \E t \in {0, coreAccepted.time}, n \in Norms, in \in Inputs : Cores!Synchronize(t,
            n, in)
  <2>1. 0 \in 0..CoreHorizon /\ coreAccepted.time \in 0..CoreHorizon
    BY <1>a, CoreLengths DEF Cores!Points
  <2> QED
    BY <1>8, <1>11, <2>1
<1> QED
  BY <1>2, <1>3, <1>4, <1>5, <1>6, <1>7, <1>9, <1>10, <1>11 DEF CoreStep, Cores!Next
-----------------------------------------------------------------------------
(***************************************************************************)
(* The run: a step of the backend selected, and none of the others.        *)
(***************************************************************************)

MCVars == <<selected, vars, radauVars, cvodeVars, coreVars>>

LEMMA BackendSteps ==
  ASSUME [MCNext]_MCVars
  PROVE  RadauStep /\ CvodeStep /\ CoreStep
<1>1. UNCHANGED radauVars => RadauStep
  BY DEF radauVars, RadauStep, Radau!vars
<1>2. UNCHANGED cvodeVars => CvodeStep
  BY DEF cvodeVars, CvodeStep, Cvode!vars
<1>3. UNCHANGED coreVars => CoreStep
  BY DEF coreVars, CoreStep, Cores!vars, Cores!core
<1> QED
  BY <1>1, <1>2, <1>3 DEF MCNext, MCVars, RadauStep, CvodeStep, CoreStep

LEMMA BackendsInvariance == MCSpec => [](RadauInv /\ CvodeInv /\ CoreInv)
<1>1. MCInit => RadauInv /\ CvodeInv /\ CoreInv
  BY RadauInit, CvodeInit, CoreInit DEF MCInit
<1>2. (RadauInv /\ CvodeInv /\ CoreInv) /\ [MCNext]_MCVars => (RadauInv /\ CvodeInv /\ CoreInv)'
  BY BackendSteps, RadauNext, CvodeNext, CoreNext
<1> QED
  BY <1>1, <1>2, PTL DEF MCSpec, MCVars

(***************************************************************************)
(* RADAU5 never solves with factors of another step or with a Jacobian of  *)
(* another right-hand side, whatever was rejected or invalidated before    *)
(* (PrepareLinearSystems, ComputeJacobian, PrepareRetry).                  *)
(***************************************************************************)
THEOREM RightSystem == MCSpec => []SolvesTheRightSystem
<1>1. RadauInv => SolvesTheRightSystem
  BY DEF RadauInv, RadauReuse, SolvesTheRightSystem, Radau!SolvesTheRightSystem
<1> QED
  BY <1>1, BackendsInvariance, PTL

(***************************************************************************)
(* What a failed call of RADAU5 or CVODE throws is what made it fail:      *)
(* never an exception put right since or one of an earlier call            *)
(* (EvaluateRhs of both).                                                  *)
(***************************************************************************)
THEOREM TrueCause == MCSpec => []ThrownIsTheCause
<1>1. RadauInv /\ CvodeInv => ThrownIsTheCause
  BY DEF RadauInv, RadauCause, CvodeInv, ThrownIsTheCause
<1> QED
  BY <1>1, BackendsInvariance, PTL

(***************************************************************************)
(* A core that may be advanced holds the derivative of the very point it   *)
(* has accepted under the inputs held now, after every failed, refused or  *)
(* projected step (Advance, Reinitialize,                                  *)
(* SynchronizeAfterAcceptedContextChange).                                 *)
(***************************************************************************)
THEOREM CorePoint == MCSpec => []CoreHoldsItsPoint
<1>1. CoreInv => CoreHoldsItsPoint
  BY DEF CoreInv, CoreHolds, Usable, CoreHoldsItsPoint, Cores!CoreHoldsItsPoint
<1> QED
  BY <1>1, BackendsInvariance, PTL

(***************************************************************************)
(* Zhai's formula of two steps is taken exactly after a step of the same   *)
(* length since the last initialization, with the derivative of the point  *)
(* before (ZhaiCore::AdvanceOneStep).                                      *)
(***************************************************************************)
THEOREM OneHistory == MCSpec => []TwoStepsAreOneHistory
<1>1. CoreInv => TwoStepsAreOneHistory
  BY DEF CoreInv, CoreHistory, Usable, TwoStepsAreOneHistory, Cores!TwoStepsAreOneHistory
<1> QED
  BY <1>1, BackendsInvariance, PTL

(***************************************************************************)
(* RADAU5 and CVODE behind their adapters implement the stepper every      *)
(* backend promises to be: a trial, a callback or a retry is none of its   *)
(* steps, and each end of a call is one.                                   *)
(***************************************************************************)
THEOREM LibrariesImplementStepper == MCSpec => LibrariesAreSteppers
<1>1. MCInit => Radau!Stepper!Init /\ Cvode!Stepper!Init
  BY DEF MCInit, Radau!Init, Radau!Time, Radau!Stepper!Init, Radau!Stepper!Time,
         Cvode!Init, Cvode!Time, Cvode!Stepper!Init, Cvode!Stepper!Time
<1>2. RadauInv /\ [MCNext]_MCVars => [Radau!Stepper!Next]_Radau!Stepper!vars
  BY BackendSteps, RadauRefines
<1>3. CvodeInv /\ [MCNext]_MCVars => [Cvode!Stepper!Next]_Cvode!Stepper!vars
  BY BackendSteps, CvodeRefines
<1> QED
  BY <1>1, <1>2, <1>3, BackendsInvariance, PTL
     DEF MCSpec, MCVars, LibrariesAreSteppers, Radau!ImplementsStepper, Radau!Stepper!Spec,
         Cvode!ImplementsStepper, Cvode!Stepper!Spec
=============================================================================
