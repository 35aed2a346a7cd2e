----------------------------- MODULE MCBackends -----------------------------
(***************************************************************************)
(* The three kinds of backend side by side, of which a run selects one:    *)
(* the coordinate adapter of CoordinateAdvancer, RADAU5 and CVODE; and the *)
(* core of the Newmark or the Zhai method, which that adapter drives,      *)
(* seen by itself.  The others are never called.                           *)
(***************************************************************************)
EXTENDS CoordinateAdvancer

CONSTANTS
  RadauHorizon, Snap, Trials, Singulars, Columns, Perturbations, Iterations,
  CvodeHorizon, Parallel,
  CoreHorizon, Lengths, CoreRounding, Norms, Inputs, CoreIterations

VARIABLES
  selected,
  time, suggested, succeeded, rejection, jacobian, factors, matrices, singulars, pending,
  interval, exception, phase, call, thrown,             \* RADAU5's
  cvodeTime, poisoned, cvodeInterval, cvodeException, kernel, cvodeStop, last, cvodeThrown,
  method, coreAccepted, b, coreCandidate, candidate_b, coreReference, scales,
  previous_b, previous_h, has_history, unusable, inputs, due, corePhase, before

radauVars == <<time, suggested, succeeded, rejection, jacobian, factors, matrices, singulars,
               pending, interval, exception, phase, call, thrown>>
cvodeVars == <<cvodeTime, poisoned, cvodeInterval, cvodeException, kernel, cvodeStop, last,
               cvodeThrown>>
coreVars == <<method, coreAccepted, b, coreCandidate, candidate_b, coreReference, scales,
              previous_b, previous_h, has_history, unusable, inputs, due, corePhase, before>>

Radau == INSTANCE Radau5Core WITH Horizon <- RadauHorizon, dense <- interval
Cvode == INSTANCE CvodeAdvancer WITH
  Horizon <- CvodeHorizon, publicTime <- cvodeTime, blocked <- poisoned,
  dense <- cvodeInterval, exception <- cvodeException, stop <- cvodeStop, thrown <- cvodeThrown
Cores == INSTANCE CoordinateCores WITH
  Horizon <- CoreHorizon, Rounding <- CoreRounding, Iterations <- CoreIterations,
  accepted <- coreAccepted, candidate <- coreCandidate, reference <- coreReference,
  phase <- corePhase

ASSUME BackendAssumptions == Radau!Budgets /\ Cvode!CvodeAssumption /\ Cores!CoreAssumption

MCInit ==
  /\ selected \in {"coordinate", "radau5", "cvode", "core"}
  /\ Init /\ Radau!Init /\ Cvode!Init /\ Cores!Init
  /\ selected # "coordinate" => publicTime = 0
  /\ selected # "radau5" => time = 0
  /\ selected # "cvode" => cvodeTime = 0
  /\ selected # "core" =>
       method = "zhai" /\ inputs = (CHOOSE i \in Inputs : TRUE)
         /\ scales = (CHOOSE n \in Norms : TRUE)

MCNext ==
  /\ UNCHANGED selected
  /\ \/ selected = "coordinate" /\ Next /\ UNCHANGED <<radauVars, cvodeVars, coreVars>>
     \/ selected = "radau5" /\ Radau!Next /\ UNCHANGED <<vars, cvodeVars, coreVars>>
     \/ selected = "cvode" /\ Cvode!Next /\ UNCHANGED <<vars, radauVars, coreVars>>
     \/ selected = "core" /\ Cores!Next /\ UNCHANGED <<vars, radauVars, cvodeVars>>

MCSpec ==
  MCInit /\ [][MCNext]_<<selected, vars, radauVars, cvodeVars, coreVars>> /\ WF_vars(Attempted)

\* RADAU5 and its adapter are the stepper every backend promises to be, and so
\* is CVODE behind its adapter (ContinuousStateAdvancer); see Radau5Core and
\* CvodeAdvancer.
LibrariesAreSteppers == Radau!ImplementsStepper /\ Cvode!ImplementsStepper

\* RADAU5 never solves with factors of another step or a Jacobian of another
\* right-hand side (PrepareLinearSystems, ComputeJacobian); see Radau5Core.
SolvesTheRightSystem == Radau!SolvesTheRightSystem

\* A failed call of either adapter throws what made it fail (EvaluateRhs of both).
ThrownIsTheCause == Radau!ThrownIsTheCause /\ Cvode!ThrownIsTheCause

\* A core that may be advanced holds the derivative of the point it accepted
\* (Advance, Reinitialize of both cores); see CoordinateCores.
CoreHoldsItsPoint == Cores!CoreHoldsItsPoint

\* Zhai's formula of two steps uses two steps of one history and of equal length
\* (ZhaiCore::AdvanceOneStep); see CoordinateCores.
TwoStepsAreOneHistory == Cores!TwoStepsAreOneHistory
=============================================================================
