-------------------------- MODULE SampledDataLoop --------------------------
(***************************************************************************)
(* What the controlled simulation means: a plant under sampled control     *)
(* with a zero-order hold.  At every instant of the grid, exactly one      *)
(* event turns the state of the plant and the memory of the controller     *)
(* into held torques and the next memory; in between, the plant moves      *)
(* under the torques of the last event and nothing else.                   *)
(***************************************************************************)
EXTENDS Trajectories

CONSTANTS
  Period,          \* the sample period, in instants
  Memory,          \* controller state and conditioner memory together
  InitialMemory,   \* the memory of a new session
  Control(_, _)    \* Control(s, m): the event on state s and memory m

VARIABLES
  plant,    \* time and continuous state
  held,     \* the held torques
  memory,   \* the memory of the controller
  ordinal,  \* the number of the next event; 0 initializes
  over      \* the terminal event has been committed

vars == <<plant, held, memory, ordinal, over>>

Init ==
  /\ \E s \in Installed : plant = [time |-> 0, state |-> s]
  /\ held \in Local
  /\ memory = InitialMemory
  /\ ordinal = 0
  /\ over = FALSE

Event ==
  /\ ~over
  /\ plant.time = ordinal * Period
  /\ held' = Control(plant.state, memory).torques
  /\ memory' = Control(plant.state, memory).memory
  /\ ordinal' = ordinal + 1
  /\ over' \in (IF ordinal = 0 THEN {FALSE} ELSE BOOLEAN)
  /\ UNCHANGED plant

Hold(t) ==
  /\ ~over
  /\ plant.time < t /\ t <= ordinal * Period
  /\ plant' = [time |-> t, state |-> Flow(plant.state, held, plant.time, t)]
  /\ UNCHANGED <<held, memory, ordinal, over>>

Next == Event \/ \E t \in Time : Hold(t)

Spec == Init /\ [][Next]_vars
=============================================================================
