---------------------------- MODULE Trajectories ----------------------------
(***************************************************************************)
(* The data of the advancer's transaction: instants, complete continuous   *)
(* states, runtime contexts, dense samples, and the flow that takes a state *)
(* from one instant to a later one.                                        *)
(***************************************************************************)
EXTENDS Integers

CONSTANTS
  Horizon,        \* the last instant; instants are the integers 0..Horizon
  State,          \* complete continuous states: positions, velocities, forces
  Local,          \* context-local data: held torques, nominal forces, damping
  Installed,      \* the states a client may install
  Flow(_, _, _, _)  \* Flow(s, l, t, u): from s at t, integrated under l up to u

Time == 0..Horizon

(***************************************************************************)
(* The exact solution stands for the integrated one: what is asked of the  *)
(* advancer is where a trajectory starts, what data it sees and where it   *)
(* is cut, never its accuracy.                                             *)
(***************************************************************************)
ASSUME FlowAssumption ==
  /\ Horizon \in Nat
  /\ Installed \subseteq State
  /\ \A s \in State, l \in Local, t, u \in Time : Flow(s, l, t, u) \in State
  /\ \A s \in State, l \in Local, t \in Time : Flow(s, l, t, t) = s
  /\ \A s \in State, l \in Local, t, u, w \in Time :
       t <= u /\ u <= w => Flow(Flow(s, l, t, u), l, u, w) = Flow(s, l, t, w)

\* A runtime context. The hints of the wheel-rail projection, one per carrier,
\* are abstracted to the state whose projections they are: every writer stores
\* all of them together.
Context == [time : Time, state : State, local : Local, hints : State]

\* Either no dense samples, or strictly increasing instants of which the first
\* is the time now and the last the target.
Requests(now, target) ==
  {{}} \cup {S \in SUBSET (now..target) : {now, target} \subseteq S}

\* A matrix of dense samples: a state at each of some instants.
IsSamples(m) == DOMAIN m \subseteq Time /\ m \in [DOMAIN m -> State]

NoSamples == [t \in {} |-> {}]
=============================================================================
