--------------------------- MODULE CoordinateCores ---------------------------
(***************************************************************************)
(* The two cores behind CoordinateAdvancer, over the storage they share    *)
(* (CoordinateCoreState) and the problem they integrate                    *)
(* (SystemCoordinateProblem): Newmark's, which solves for the endpoint by  *)
(* Newton's method, projects it and evaluates again what the projection    *)
(* moved; and Zhai's, whose endpoint is a formula, of two steps when the   *)
(* step before was as long.                                                *)
(*                                                                         *)
(* A point is told by how it was made; of its coordinates only the norm of *)
(* the quaternions is kept.  A derivative is what it was evaluated at: the *)
(* point and the inputs held in the trial context.  Every evaluation,      *)
(* projection and solution may fail.                                       *)
(***************************************************************************)
EXTENDS Integers

CONSTANTS
  Horizon,     \* the instant after which a step does not advance the clock
  Lengths,     \* the step lengths asked for, none above the nominal one
  Rounding,    \* how far an explicit endpoint may lie from time + h, at most h / 16
  Norms,       \* norms of the quaternion coordinates
  Inputs,      \* held inputs
  Iterations   \* maximum_iterations

CoreAssumption ==
  /\ Horizon \in Nat /\ Lengths \subseteq Nat \ {0} /\ Rounding \in Nat
  /\ Iterations \in Nat \ {0}

Formulas == {"initial", "newmark", "start-up", "two-step"}

Points == [time : 0..Horizon, h : Lengths \cup {0}, formula : Formulas,
           iterate : 0..Iterations, norm : Norms]

Derivatives == [of : Points, under : Inputs, whole : BOOLEAN]

Newton  == "newmark"
TwoStep == "zhai"

VARIABLES
  method,
  accepted, b,             \* accepted_, b_ and g_
  candidate, candidate_b,  \* candidate_, candidate_b_ and candidate_g_
  reference,               \* the norm of reference_q_
  scales,                  \* the norm configuration_ was expanded for (Newmark)
  previous_b, previous_h,  \* previous_b_ and previous_g_, previous_step_size_ (Zhai)
  has_history,             \* has_history_ (Zhai)
  unusable,                \* requires_reinitialization_
  inputs,                  \* the context-local data of the trial context
  due,                     \* requires_synchronization_ of the owner
  phase,
  before                   \* history: the point accepted before, none or one

core == <<accepted, b, reference, scales, previous_b, previous_h, has_history, before>>

vars == <<method, core, candidate, candidate_b, unusable, inputs, due, phase>>

TypeOK ==
  /\ method \in {Newton, TwoStep}
  /\ {accepted, candidate} \cup before \subseteq Points
  /\ {b, candidate_b, previous_b} \subseteq Derivatives
  /\ {reference, scales} \subseteq Norms
  /\ previous_h \in Lengths \cup {0}
  /\ {has_history, unusable, due} \subseteq BOOLEAN
  /\ inputs \in Inputs
  /\ phase \in {"idle", "residual", "correct", "project", "evaluate", "commit"}

Evaluated(point, in) == [of |-> point, under |-> in, whole |-> TRUE]
Spoilt(point, in)    == [of |-> point, under |-> in, whole |-> FALSE]

Initial(time, norm) ==
  [time |-> time, h |-> 0, formula |-> "initial", iterate |-> 0, norm |-> norm]

\* The factor of the scales of the quaternion family, for an initial state.
Expand(p) == p.norm

Init ==
  /\ method \in {Newton, TwoStep}
  /\ inputs \in Inputs
  /\ \E n \in Norms :
       /\ accepted = Initial(0, n) /\ b = Evaluated(accepted, inputs)
       /\ reference = n /\ scales = Expand(accepted)
  /\ candidate = accepted /\ candidate_b = b
  /\ previous_b = b /\ previous_h = 0 /\ has_history = FALSE
  /\ unusable = FALSE /\ due = FALSE
  /\ phase = "idle" /\ before = {}

-----------------------------------------------------------------------------
(***************************************************************************)
(* A step.  An interval that is not positive or longer than the nominal    *)
(* one, an endpoint clock rounding does not explain and a core that needs  *)
(* reinitialization are refused before anything is written.                *)
(***************************************************************************)

\* A slip of the choice of the formula: the times are compared, not the intervals.
NormalByTheClock(h, end) ==
  has_history /\ \E p \in before : accepted.time - p.time = end - accepted.time

NormalStep(h, end) == has_history /\ h = previous_h

Guess(h, end) ==
  {[time |-> end, h |-> h, iterate |-> 0, norm |-> n,
    formula |-> IF method = Newton THEN "newmark"
                ELSE IF NormalStep(h, end) THEN "two-step" ELSE "start-up"] : n \in Norms}

Begin(h, end) ==
  /\ phase = "idle" /\ ~unusable /\ ~due
  /\ end > accepted.time /\ end <= Horizon
  /\ candidate' \in Guess(h, end)
  /\ phase' = IF method = Newton THEN "residual" ELSE "project"
  /\ UNCHANGED <<method, core, candidate_b, unusable, inputs, due>>

\* Whatever is thrown within a step blocks the core, and the owner's advance fails.
Throws ==
  /\ unusable' = TRUE /\ due' = TRUE
  /\ phase' = "idle"
  /\ UNCHANGED <<method, core, inputs>>

\* StepEnd: the clock is so late that the interval does not move it.
Underflow ==
  /\ phase = "idle" /\ ~unusable /\ ~due
  /\ accepted.time = Horizon
  /\ Throws
  /\ UNCHANGED <<candidate, candidate_b>>

Continue(next) ==
  /\ phase' = next
  /\ UNCHANGED <<method, core, unusable, inputs, due>>

\* Residual of the present iterate, which evaluates the candidate.  Only the
\* iterates after the first also need a small correction to be taken; when
\* none is left the step is refused and nothing has been accepted.
Residual ==
  /\ phase = "residual"
  /\ UNCHANGED candidate
  /\ \/ candidate_b' = Spoilt(candidate, inputs) /\ Throws
     \/ /\ candidate_b' = Evaluated(candidate, inputs)
        /\ \/ Continue("project")
           \/ candidate.iterate < Iterations /\ Continue("correct")
           \/ candidate.iterate = Iterations /\ Continue("idle")

\* The columns of the Jacobian, evaluated at perturbed points into buffers of
\* their own, its factors and the correction.
Correct ==
  /\ phase = "correct"
  /\ UNCHANGED candidate_b
  /\ \/ UNCHANGED candidate /\ Throws
     \/ /\ \E n \in Norms : candidate' = [candidate EXCEPT !.iterate = @ + 1, !.norm = n]
        /\ Continue("residual")

\* A slip of ProjectCandidate's caller: what moved is not evaluated again.
NeverAgain == method = TwoStep

\* Newmark's endpoint has been evaluated, and is again only if the projection
\* changed it; Zhai's has not been yet.
EvaluateAfterProjection == method = TwoStep \/ candidate.norm # reference

Project ==
  /\ phase = "project"
  /\ UNCHANGED candidate_b
  /\ \/ UNCHANGED candidate /\ Throws
     \/ /\ candidate' = [candidate EXCEPT !.norm = reference]
        /\ Continue(IF EvaluateAfterProjection THEN "evaluate" ELSE "commit")

EvaluateEndpoint ==
  /\ phase = "evaluate"
  /\ UNCHANGED candidate
  /\ \/ candidate_b' = Spoilt(candidate, inputs) /\ Throws
     \/ candidate_b' = Evaluated(candidate, inputs) /\ Continue("commit")

\* A slip of the order: the derivative is accepted first and then kept as the
\* previous one.
RollAfterwards ==
  /\ previous_b' = candidate_b /\ previous_h' = candidate.h /\ has_history' = TRUE

RollHistory ==
  /\ previous_b' = b /\ previous_h' = candidate.h /\ has_history' = TRUE

CommitCandidate ==
  /\ phase = "commit"
  /\ accepted' = candidate /\ b' = candidate_b
  /\ IF method = TwoStep THEN RollHistory
     ELSE UNCHANGED <<previous_b, previous_h, has_history>>
  /\ before' = {accepted}
  /\ phase' = "idle"
  /\ UNCHANGED <<method, candidate, candidate_b, reference, scales, unusable, inputs, due>>

-----------------------------------------------------------------------------
(***************************************************************************)
(* The owner's synchronization: the trial context takes the accepted       *)
(* inputs, then the core starts anew.  An initial state that is refused    *)
(* leaves the core usable, with the derivative under the inputs of before: *)
(* only the owner knows.                                                   *)
(***************************************************************************)
StartsAnew(p, in) ==
  /\ candidate' = p
  /\ \/ /\ candidate_b' = Spoilt(p, in)
        /\ unusable' = TRUE /\ due' = TRUE
        /\ UNCHANGED core
     \/ /\ candidate_b' = Evaluated(p, in)
        /\ accepted' = p /\ b' = Evaluated(p, in)
        /\ reference' = p.norm /\ scales' = Expand(p)
        /\ has_history' = FALSE /\ previous_h' = 0
        /\ before' = {}
        /\ unusable' = FALSE /\ due' = FALSE
        /\ UNCHANGED previous_b

Refused ==
  /\ due' = TRUE
  /\ UNCHANGED <<core, candidate, candidate_b, unusable>>

Synchronize(time, norm, in) ==
  /\ phase = "idle"
  /\ inputs' = in
  /\ Refused \/ StartsAnew(Initial(time, norm), in)
  /\ UNCHANGED <<method, phase>>

Next ==
  \/ \E h \in Lengths :
       \E late \in -Rounding..Rounding :
         late \in -(h \div 16)..(h \div 16) /\ Begin(h, accepted.time + h + late)
  \/ Underflow \/ Residual \/ Correct \/ Project \/ EvaluateEndpoint \/ CommitCandidate
  \/ \E t \in {0, accepted.time}, n \in Norms, in \in Inputs : Synchronize(t, n, in)

Spec == Init /\ [][Next]_vars

-----------------------------------------------------------------------------
\* A core its owner may advance holds the derivative of the very point it has
\* accepted, after the projection and under the inputs held now, and that point
\* has the norm it was last initialized with, which Newmark's scales are of:
\* whatever steps failed, were refused or were projected before (Advance of both
\* cores, Reinitialize, SynchronizeAfterAcceptedContextChange).
CoreHoldsItsPoint ==
  phase = "idle" /\ ~unusable /\ ~due =>
    /\ b = Evaluated(accepted, inputs)
    /\ accepted.norm = reference /\ scales = reference

\* A point made with two steps follows one whose specified interval was as long,
\* since the last initialization, and the other kind does not; and the derivative
\* the next one will use as the previous one is that of the point accepted before,
\* under the same inputs (ZhaiCore::AdvanceOneStep, Reinitialize).
TwoStepsAreOneHistory ==
  method = TwoStep /\ ~unusable /\ ~due =>
    /\ has_history = (before # {})
    /\ \A p \in before :
         /\ accepted.formula = (IF p.h = accepted.h THEN "two-step" ELSE "start-up")
         /\ previous_b = Evaluated(p, inputs)
         /\ previous_h = accepted.h
=============================================================================
