-------------------------- MODULE SimpackRealtime --------------------------
(***************************************************************************)
(* Guidance of a vehicle that SIMPACK Realtime integrates: the direct      *)
(* caller SimpackRealtimeInstance, and the two programs that drive it,     *)
(* the longitudinal cruise and the single-curve guidance.  The solver is   *)
(* external: it holds the last input vector it was given and moves the     *)
(* vehicle under it when it is told to advance.                            *)
(*                                                                         *)
(* The cruise communicates once per control period and writes a decimated  *)
(* table; the single-curve program communicates, and writes, Period times  *)
(* per control period.  Instants are the latter's observation periods.     *)
(***************************************************************************)
EXTENDS Trajectories, Sequences

CONSTANTS
  Period, Memory, InitialMemory, Control(_, _),  \* see GuidanceLoop
  MaxOrdinal,   \* the control events the time cap allows
  Decimation    \* observation_decimation of the cruise

RunAssumption ==
  /\ Period \in Nat \ {0} /\ MaxOrdinal \in Nat \ {0}
  /\ MaxOrdinal * Period \in Time
  /\ Decimation \in Nat \ {0}
  /\ InitialMemory \in Memory
  /\ \A s \in State, m \in Memory :
       Control(s, m) \in [torques : Local, memory : Memory]

Programs == {"cruise", "single_curve"}

VARIABLES
  program,       \* which of the two runs
  plant, inputs, \* the solver's: time and state, and the input vector it holds
  started, last_target,  \* the instance's
  outputs,       \* the decoded outputs the run read last
  held, memory,  \* held_torques; controller_state and conditioner_memory
  ordinal,       \* control events computed and adopted
  sample,        \* communications made
  stage,
  observations,  \* observations.tsv: [sample, outputs, torques]
  controls       \* control_events.tsv: [ordinal, kind, outputs, torques]

solverVars == <<plant, inputs>>
instanceVars == <<started, last_target>>
controlVars == <<held, memory, ordinal>>
files == <<observations, controls>>
vars == <<program, plant, inputs, started, last_target, outputs, held, memory, ordinal, sample,
          stage, observations, controls>>

Init ==
  /\ program \in Programs
  /\ \E s \in Installed : plant = [time |-> 0, state |-> s]
  /\ inputs \in Local
  /\ started = FALSE /\ last_target = 0
  /\ outputs = [time |-> 0, state |-> plant.state, inputs |-> inputs]
  /\ held \in Local /\ memory = InitialMemory
  /\ ordinal = 0 /\ sample = 0
  /\ stage = "initialize"
  /\ observations = <<>> /\ controls = <<>>
-----------------------------------------------------------------------------
\* SimpackRealtimeInstance.

SetInitialInputs(torques) ==
  /\ ~started
  /\ inputs' = torques
  /\ UNCHANGED <<plant, instanceVars>>

Start ==
  /\ ~started
  /\ started' = TRUE
  /\ UNCHANGED <<solverVars, last_target>>

\* SetInputs, then Advance, of which the target is kept when it succeeds.
SetInputsAndAdvance(torques, target) ==
  /\ started
  /\ target > last_target
  /\ inputs' = torques
  /\ plant' = [time |-> target,
               state |-> Flow(plant.state, torques, plant.time, target)]
  /\ last_target' = target
  /\ UNCHANGED started

ReadOutputs == outputs' = [time |-> plant'.time, state |-> plant'.state, inputs |-> inputs']
-----------------------------------------------------------------------------
\* The instants between two communications.
Stride == IF program = "cruise" THEN Period ELSE 1

Target(n) == n * Stride

Event == Control(outputs.state, memory)

Adopt(event) ==
  /\ held' = event.torques
  /\ memory' = event.memory
  /\ ordinal' = ordinal + 1

\* A slip Initialize does not make: the outputs are those before the inputs.
InitializeWithoutReading ==
  /\ stage = "initialize"
  /\ Adopt(Event)
  /\ SetInitialInputs(held')
  /\ observations' = <<[sample |-> 0, outputs |-> outputs, torques |-> held']>>
  /\ controls' = <<[ordinal |-> 0, kind |-> "initialization", torques |-> held']>>
  /\ stage' = "begin"
  /\ UNCHANGED <<program, outputs, sample>>

\* The first event is computed from the outputs of the loaded model; its torques
\* become the initial inputs, and the outputs are read again for the first row.
Initialize ==
  /\ stage = "initialize"
  /\ Adopt(Event)
  /\ SetInitialInputs(held')
  /\ ReadOutputs
  /\ observations' = <<[sample |-> 0, outputs |-> outputs', torques |-> held']>>
  /\ controls' = <<[ordinal |-> 0, kind |-> "initialization", torques |-> held']>>
  /\ stage' = "begin"
  /\ UNCHANGED <<program, sample>>

Begin ==
  /\ stage = "begin"
  /\ Start
  /\ stage' = "communicate"
  /\ UNCHANGED <<program, outputs, controlVars, sample, files>>

\* The vehicle stands at its stop station already: a cruise that is complete is
\* never started, a single-curve run is rejected.
BeginAtStop ==
  /\ stage = "begin"
  /\ stage' = IF program = "cruise" THEN "finalize" ELSE "rejected"
  /\ UNCHANGED <<program, solverVars, instanceVars, outputs, controlVars, sample, files>>

\* A slip Communicate does not make: the inputs are left as they are.
CommunicateHoldingInputs ==
  /\ stage = "communicate"
  /\ sample' = sample + 1
  /\ SetInputsAndAdvance(inputs, Target(sample'))
  /\ ReadOutputs
  /\ stage' = IF Target(sample') % Period = 0 THEN "control" ELSE "communicate"
  /\ observations' = IF program = "cruise" THEN observations
                     ELSE Append(observations,
                                 [sample |-> sample', outputs |-> outputs', torques |-> held])
  /\ UNCHANGED <<program, controlVars, controls>>

Communicate ==
  /\ stage = "communicate"
  /\ sample' = sample + 1
  /\ SetInputsAndAdvance(held, Target(sample'))
  /\ ReadOutputs
  /\ stage' = IF Target(sample') % Period = 0 THEN "control" ELSE "communicate"
  /\ observations' = IF program = "cruise" THEN observations
                     ELSE Append(observations,
                                 [sample |-> sample', outputs |-> outputs', torques |-> held])
  /\ UNCHANGED <<program, controlVars, controls>>

AtCap == Target(sample) = MaxOrdinal * Period

\* The single-curve event, adopted even when it is the terminal one.
ControlSingleCurve(reached) ==
  /\ stage = "control" /\ program = "single_curve"
  /\ Adopt(Event)
  /\ controls' = Append(controls, [ordinal |-> Target(sample) \div Period,
                                   kind    |-> IF reached THEN "terminal" ELSE "periodic",
                                   torques |-> held'])
  /\ stage' = IF reached THEN "finalize" ELSE IF AtCap THEN "rejected" ELSE "communicate"
  /\ UNCHANGED <<program, solverVars, instanceVars, outputs, sample, observations>>

\* The cruise's row comes first, under the torques that led to it.  The event of
\* the last sample is written and not adopted.
ControlCruise(reached) ==
  /\ stage = "control" /\ program = "cruise"
  /\ observations' =
       IF sample % Decimation = 0 \/ reached \/ AtCap
       THEN Append(observations, [sample |-> sample, outputs |-> outputs, torques |-> held])
       ELSE observations
  /\ controls' = Append(controls, [ordinal |-> sample, kind |-> "periodic",
                                   torques |-> Event.torques])
  /\ IF reached \/ AtCap THEN UNCHANGED controlVars ELSE Adopt(Event)
  /\ stage' = IF reached THEN "finalize" ELSE IF AtCap THEN "rejected" ELSE "communicate"
  /\ UNCHANGED <<program, solverVars, instanceVars, outputs, sample>>

Publish ==
  /\ stage = "finalize"
  /\ stage' = "published"
  /\ UNCHANGED <<program, solverVars, instanceVars, outputs, controlVars, sample, files>>

\* A call of the solver, a decoding, the control or a file throws.
Reject ==
  /\ stage \notin {"published", "rejected"}
  /\ stage' = "rejected"
  /\ UNCHANGED <<program, solverVars, instanceVars, outputs, controlVars, sample, files>>

Next ==
  \/ Initialize \/ Begin \/ BeginAtStop \/ Communicate
  \/ \E reached \in BOOLEAN : ControlSingleCurve(reached) \/ ControlCruise(reached)
  \/ Publish \/ Reject

Spec == Init /\ [][Next]_vars
-----------------------------------------------------------------------------
Loop == INSTANCE SampledDataLoop WITH
  over <- \E i \in 1..Len(controls) : controls[i].kind = "terminal"

(***************************************************************************)
(* The vehicle another program integrates is under the same sampled        *)
(* control as the one this repository integrates: both co-simulations      *)
(* implement the loop GuidanceLoop implements, although the inputs reach   *)
(* the solver by two different calls before and after its start.           *)
(***************************************************************************)
ImplementsLoop == Loop!Spec

(***************************************************************************)
(* The tables of a run: a row's torques are the inputs the solver held     *)
(* when it calculated the row's outputs, at the row's instant, the first   *)
(* row included; what is published has every row the program promises, its *)
(* last row where the vehicle stopped, and one event for every control     *)
(* period, the torques of event e being those of the row after it.         *)
(***************************************************************************)
Promised(n) == program = "single_curve" \/ n % Decimation = 0 \/ n = sample

TablesTellTheRun ==
  /\ \A i \in 1..Len(observations) :
       /\ observations[i].torques = observations[i].outputs.inputs
       /\ observations[i].outputs.time = Target(observations[i].sample)
  /\ \A i \in 2..Len(observations) :
       observations[i].torques =
         controls[(Target(observations[i].sample) - 1) \div Period + 1].torques
  /\ stage = "published" =>
       /\ {observations[i].sample : i \in 1..Len(observations)} = {n \in 0..sample : Promised(n)}
       /\ \A i \in 2..Len(observations) : observations[i - 1].sample < observations[i].sample
       /\ Len(controls) = Target(sample) \div Period + 1
       /\ \A e \in 1..Len(controls) : controls[e].ordinal = e - 1
=============================================================================
