---------------------------- MODULE CruiseSession ----------------------------
(***************************************************************************)
(* IrwLongitudinalCruiseEventSession: the wheel speed of the accepted      *)
(* state, a filtered PI controller (SampledFilteredPi) that asks for a     *)
(* torque, the conditioner (WheelDriveTorqueCommandConditioner::Step) that *)
(* makes traction or regeneration of the drive of it, within the limit and *)
(* at the rates that a table gives for the speed, and the torque held      *)
(* until the next event, with the phases that keep events, backend and     *)
(* vehicle in turn.  All eight wheels are asked for the same torque; one   *)
(* is modelled.                                                            *)
(*                                                                         *)
(* Torques, speeds and rates are integers, the drive turns and pulls as    *)
(* the wheel does, and what the conditioner computes between two of them   *)
(* is rounded towards zero.  The vehicle is anything: at an event its      *)
(* wheel turns at any speed, and of the time only matters whether the next *)
(* event is due.                                                           *)
(***************************************************************************)
EXTENDS Integers, Sequences

CONSTANTS
  Nodes,   \* drive_speed_nodes, increasing
  Rows,    \* rows of a table: limit, -1 if there is none, and rates
  Period,  \* sample_period_seconds
  Deadband, Threshold, Forward,
  Rates,           \* raw joint rates of the wheel
  TargetSpeed,
  Gain,            \* proportional_gain, over an integral time of one period
  IntegralLimit, OutputLimit,
  Filtered         \* whether the output filter has a time constant

ConditionerAssumption ==
  /\ Nodes \in Seq(Nat \ {0}) /\ Len(Nodes) >= 1
  /\ \A i, j \in DOMAIN Nodes : i < j => Nodes[i] < Nodes[j]
  /\ Rows \subseteq [limit : Nat \cup {-1}, increase : Nat, decrease : Nat]
  /\ {Period, Deadband, Threshold} \subseteq Nat \ {0}
  /\ Forward \in {-1, 1}

SessionAssumption ==
  /\ ConditionerAssumption
  /\ Rates \subseteq Int /\ TargetSpeed \in Nat \ {0}
  /\ Gain \in Nat \ {0} /\ {IntegralLimit, OutputLimit} \subseteq Nat
  /\ Filtered \in BOOLEAN

Sides == {"traction", "regeneration"}

VARIABLES
  table,        \* the two direction tables of the configuration
  rate,         \* the joint rate in the accepted state
  due,          \* the accepted time is that of the next event
  phase,        \* phase_
  pi,           \* controller_state_
  memory,       \* conditioner_memory_newton_metres_, of the drive
  held,         \* the torque of the wheel held in the accepted context
  drive,        \* history: the drive torque that is held
  last          \* history: the inputs of the last event and the drive before it

vars == <<table, rate, due, phase, pi, memory, held, drive, last>>

Init ==
  /\ table \in [Sides -> [DOMAIN Nodes -> Rows]]
  /\ rate \in Rates /\ due = TRUE
  /\ phase = "initialization_required"
  /\ pi = [integral |-> 0, filtered |-> 0]
  /\ memory = 0 /\ held = 0 /\ drive = 0
  /\ last = [request |-> 0, speed |-> 0, from |-> 0, to |-> 0]

-----------------------------------------------------------------------------
Magnitude(x) == IF x < 0 THEN -x ELSE x
SignCode(x) == IF x > 0 THEN 1 ELSE IF x < 0 THEN -1 ELSE 0
Least(x, y) == IF x < y THEN x ELSE y

-----------------------------------------------------------------------------
Fast(speed) == Magnitude(speed) > Threshold

DirectionCode(request, speed) ==
  IF Magnitude(request) <= Deadband THEN 0
  ELSE SignCode(request * (IF Fast(speed) THEN speed ELSE Forward))

EffectiveWheelAngularSpeedSign(speed) == IF Fast(speed) THEN SignCode(speed) ELSE Forward

Interpolate(low, high, x, from, to) ==
  IF low = high THEN low ELSE ((to - x) * low + (x - from) * high) \div (to - from)

\* The row of a side at a speed, held beyond the outer nodes; without a limit
\* at a node the limit there is 0.
DirectionRow(side, speed) ==
  LET n    == Len(Nodes)
      x    == IF speed < Nodes[1] THEN Nodes[1] ELSE Least(speed, Nodes[n])
      high == CHOOSE i \in 1..n : Nodes[i] >= x /\ \A j \in 1..(i - 1) : Nodes[j] < x
      low  == IF x = Nodes[high] THEN high ELSE high - 1
      At(i) == table[side][i]
      Limit(i) == IF At(i).limit = -1 THEN 0 ELSE At(i).limit
      Between(a, c) == Interpolate(a, c, x, Nodes[low], Nodes[high])
  IN  [limit    |-> Between(Limit(low), Limit(high)),
       increase |-> Between(At(low).increase, At(high).increase),
       decrease |-> Between(At(low).decrease, At(high).decrease)]

Side(code) == IF code > 0 THEN "traction" ELSE "regeneration"

Unsupported(speed) == Magnitude(speed) > Nodes[Len(Nodes)]

Target(request, speed) ==
  LET code == DirectionCode(request, speed)
  IN  IF code = 0 \/ Unsupported(speed) THEN 0
      ELSE code * Least(Magnitude(request), DirectionRow(Side(code), Magnitude(speed)).limit)

\* Towards zero first, at the rate of the old side.
Falls(old, decrease) == IF old <= decrease * Period THEN 0 ELSE old - decrease * Period

\* A slip of the crossing: the new side has the whole period.
WholePeriod(old, decrease, increase) == increase * Period

\* What the new side may reach in the rest of the period, once zero is passed.
RestOfPeriod(old, decrease, increase) ==
  (increase * (decrease * Period - old)) \div decrease

AdvanceSignedDriveSideTorque(from, to, speed) ==
  LET there == SignCode(to)
      here  == SignCode(from)
      old   == Magnitude(from)
      new   == Magnitude(to)
      down  == DirectionRow(Side(here), speed).decrease
      up    == DirectionRow(Side(there), speed).increase
  IN  IF from = to THEN to
      ELSE IF here = 0 THEN there * Least(new, up * Period)
      ELSE IF there = 0 THEN here * Falls(old, down)
      ELSE IF here = there /\ new >= old THEN there * Least(new, old + up * Period)
      ELSE IF here = there
        THEN there * (IF old - new <= down * Period THEN new ELSE old - down * Period)
      ELSE IF down = 0 THEN from
      ELSE IF old >= down * Period THEN here * Falls(old, down)
      ELSE there * Least(new, RestOfPeriod(old, down, up))

-----------------------------------------------------------------------------
ClampSymmetric(x, limit) == SignCode(x) * Least(Magnitude(x), limit)

\* SampledFilteredPi::Step; a filter takes half of the old and half of the new.
PiStep(error) ==
  LET integral == ClampSymmetric(pi.integral + error, IntegralLimit)
      raw      == ClampSymmetric(Gain * error + Gain * integral, OutputLimit)
      sum      == pi.filtered + raw
  IN  [integral |-> integral,
       filtered |-> IF Filtered THEN SignCode(sum) * (Magnitude(sum) \div 2) ELSE raw]

\* The conditioner counts the speed of the wheel the other way round.
ConditionerSpeed(r) == -r

Candidate ==
  LET next  == PiStep(TargetSpeed - rate)
      speed == ConditionerSpeed(rate)
      to    == Target(next.filtered, speed)
      moved == AdvanceSignedDriveSideTorque(memory, to, Magnitude(speed))
  IN  [pi |-> next, memory |-> moved, torque |-> moved * EffectiveWheelAngularSpeedSign(speed),
       inputs |-> [request |-> next.filtered, speed |-> speed, from |-> drive, to |-> to]]

\* SetHeldIndependentWheelActiveTorques and the assignments after it.
Commit(c) ==
  /\ held' = c.torque /\ drive' = c.memory
  /\ pi' = c.pi /\ memory' = c.memory
  /\ last' = c.inputs
  /\ due' = FALSE
  /\ phase' = "synchronization_required"
  /\ UNCHANGED <<table, rate>>

ApplyInitializationUpdate ==
  /\ phase = "initialization_required"
  /\ Commit(Candidate)

EventDue ==
  /\ due /\ phase \in {"ready_to_advance", "periodic_event_required"}

ApplyPeriodicUpdate ==
  /\ EventDue
  /\ Commit(Candidate)

\* A slip of the order in ApplyPeriodicUpdate: the memories before the torque.
MemoryFirst ==
  /\ EventDue
  /\ phase' = "periodic_event_required"
  /\ pi' = Candidate.pi /\ memory' = Candidate.memory
  /\ UNCHANGED <<table, rate, due, held, drive, last>>

\* A speed that is not finite, or a context that refuses the torque: nothing but
\* that the event is due has been noted.
PeriodicUpdateFails ==
  /\ EventDue
  /\ phase' = "periodic_event_required"
  /\ UNCHANGED <<table, rate, due, pi, memory, held, drive, last>>

ConfirmBackendSynchronized ==
  /\ phase = "synchronization_required"
  /\ phase' = "ready_to_advance"
  /\ UNCHANGED <<table, rate, due, pi, memory, held, drive, last>>

\* The vehicle moves to the next event once RequireReadyToAdvance allows it.
Advance ==
  /\ phase = "ready_to_advance" /\ ~due
  /\ due' = TRUE
  /\ rate' \in Rates
  /\ UNCHANGED <<table, phase, pi, memory, held, drive, last>>

Next ==
  \/ ApplyInitializationUpdate \/ ApplyPeriodicUpdate \/ PeriodicUpdateFails
  \/ ConfirmBackendSynchronized \/ Advance

Spec == Init /\ [][Next]_vars

-----------------------------------------------------------------------------
TypeOK ==
  /\ table \in [Sides -> [DOMAIN Nodes -> Rows]]
  /\ rate \in Rates /\ due \in BOOLEAN
  /\ phase \in {"initialization_required", "synchronization_required", "ready_to_advance",
                "periodic_event_required"}
  /\ pi.integral \in -IntegralLimit..IntegralLimit /\ pi.filtered \in -OutputLimit..OutputLimit
  /\ {memory, drive, held} \subseteq -OutputLimit..OutputLimit

\* Whether the drive gets from one torque to another within a period: down at the
\* rate of the side it leaves, up at that of the side it enters, one after the other.
Reaches(from, to, speed) ==
  LET kept == IF SignCode(from) = SignCode(to) THEN Least(Magnitude(from), Magnitude(to)) ELSE 0
      fall == Magnitude(from) - kept
      rise == Magnitude(to) - kept
      down == DirectionRow(Side(SignCode(from)), speed).decrease
      up   == DirectionRow(Side(SignCode(to)), speed).increase
  IN  /\ fall > 0 => down > 0 /\ fall <= Period * down
      /\ rise > 0 => up > 0 /\ rise <= Period * up
      /\ fall > 0 /\ rise > 0 => fall * up + rise * down <= Period * up * down

Between(a, x, c) == (a <= x /\ x <= c) \/ (c <= x /\ x <= a)

\* From one event to the next, however often it was tried, the torque held goes as
\* far towards the one wanted as the rates of the sides it passes allow within one
\* period, no farther and no less, also through zero.
TakesItsTime ==
  LET v == Magnitude(last.speed)
  IN  /\ Between(last.from, drive, last.to) /\ Reaches(last.from, drive, v)
      /\ \A x \in -OutputLimit..OutputLimit :
           Between(last.from, x, last.to) /\ Reaches(last.from, x, v) => Between(last.from, x, drive)

\* A torque that was raised, or changed its side, was asked for: it pulls the wheel
\* the way of the request and not more, within the limit at this speed, which is
\* one the table covers.
RaisedAsAsked ==
  Magnitude(drive) > Magnitude(last.from) \/ drive * last.from < 0 =>
    /\ ~Unsupported(last.speed)
    /\ SignCode(held) = SignCode(last.request)
    /\ Magnitude(held) <= Magnitude(last.request)
    /\ Magnitude(drive) <= DirectionRow(Side(SignCode(drive)), Magnitude(last.speed)).limit

\* The torque the vehicle is held under obeys the drive and the request, from one
\* event to the next (ComputeCandidate, AdvanceSignedDriveSideTorque,
\* ApplyPeriodicUpdate).
HeldTorqueObeysTheDrive == TakesItsTime /\ RaisedAsAsked
=============================================================================
