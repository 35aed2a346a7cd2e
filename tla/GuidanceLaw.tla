----------------------------- MODULE GuidanceLaw -----------------------------
(***************************************************************************)
(* IrwFullStateWheelSpeedGuidanceRecurrence, the law by which the guidance *)
(* of an axle with independent wheels asks for torques, and the schedules  *)
(* that give its operating point: that of the cross line of three curves,  *)
(* those of a single curve with full-state guidance and without any gain,  *)
(* and the fixed one of IrwFullStateWheelSpeedGuidanceController.          *)
(*                                                                         *)
(* Lengths, angles and speeds are integers.  A reference speed counts      *)
(* Unit times, so that a wheel's share of the curvature is whole; tables   *)
(* are such that what is interpolated and has a sign is whole, and a       *)
(* filter rounds towards zero.  A wheel is the left or the right one of    *)
(* its axle.  The vehicle is anything: at a sample its axles lie and its   *)
(* wheels turn in any way, further along the line.                         *)
(***************************************************************************)
EXTENDS Integers, Sequences, TLC

CONSTANTS
  Axles,             \* kIrwGuidanceAxleCount
  Behind,            \* of each axle: how far behind the first
  Profiles,          \* of a curve: an operating point of the cross line's schedule
  SpeedStations, GuidanceStations,  \* where the tables of the cross line have nodes
  Speeds, Curvatures,               \* on its curves, the curvatures with the straight's
  GuidanceStart, GuidanceEnd,
  Entry,             \* the single curve: where its ramp starts and ends, its end
  EntryFilters,      \* and its filters of yaw rate, velocity and difference there
  Definitions,       \* single curves: speed, curvature, profile
  Arm,               \* of them, the one that is the cross line's first
  Fixed,             \* configurations of the fixed controller
  Unit, HalfSpan,    \* see above; kControllerCalibrationLateralHalfSpanMeters
  Period, Radius,    \* sample_period_seconds, rolling_radius_meters, even
  AxleSigns, WheelSigns, PiSigns,
  IntegralLimit,     \* lateral_integral_absolute_limit
  PiGain, PiIntegralLimit, TorqueLimit, PiFilter,
  Strides, Last,     \* how far the vehicle may be at the next sample, at most
  None,              \* no sample yet
  Measured           \* what may be measured: displacements, yaws, wheel speeds

VARIABLES
  source,   \* the schedule, and what it is built from
  station,  \* of the first axle at the next sample
  memory,   \* IrwFullStateWheelSpeedGuidanceControllerState
  sampled,  \* the last sample: measured, operating point, memory before, result
  lost      \* a station was not finite

vars == <<source, station, memory, sampled, lost>>

Axle  == 1..Axles
Sides == {"left", "right"}
Each(value) == [a \in Axle |-> value]
EachWheel(value) == [a \in Axle |-> [s \in Sides |-> value]]

-----------------------------------------------------------------------------
Magnitude(x) == IF x < 0 THEN -x ELSE x
Sign(x) == IF x < 0 THEN -1 ELSE 1
Quotient(x, y) == Sign(x) * (Magnitude(x) \div y)

\* A slip that is not made: only what is too large is cut.
ClampAbove(x, limit) == IF x <= limit THEN x ELSE limit

ClampSymmetric(x, limit) == IF Magnitude(x) <= limit THEN x ELSE Sign(x) * limit

\* FirstOrderAlpha: what a filter with a time constant makes of the old and the new.
Filter(constant, old, new) == Quotient(constant * old + Period * new, constant + Period)

\* std::lerp of two values, of a fraction as numerator and denominator.
Lerp(low, high, n, d) == low + Quotient((high - low) * n, d)

\* LowerIntervalIndex, InterpolateScalar and InterpolateGuidanceAxleValue: the values
\* at the nodes, held beyond the outer ones.
Interpolated(nodes, values, x) ==
  LET lower == CHOOSE i \in 1..(Len(nodes) - 1) : nodes[i].at <= x /\ x < nodes[i + 1].at
  IN  IF x <= nodes[1].at THEN values[1]
      ELSE IF x >= nodes[Len(nodes)].at THEN values[Len(nodes)]
      ELSE Lerp(values[lower], values[lower + 1],
                x - nodes[lower].at, nodes[lower + 1].at - nodes[lower].at)

SquareRoot(n) == CHOOSE r \in 0..n : r * r <= n /\ n < (r + 1) * (r + 1)

SideSign(side) == IF side = "left" THEN 1 ELSE -1

\* The outer wheel has the longer way.
BaseReferences(speed, curvature) ==
  [s \in Sides |-> speed * (Unit + SideSign(s) * HalfSpan * curvature)]

-----------------------------------------------------------------------------
\* Fields of a profile and of an operating point with a value for each axle.
Gains ==
  {"feedforward", "yaw rate", "yaw", "lateral velocity", "lateral", "integral", "difference"}
Offsets == {"equilibrium yaw", "equilibrium lateral"}
Filters == {"yaw rate filter", "velocity filter"}

Mean(stations) ==
  LET sum[a \in 0..Axles] == IF a = 0 THEN 0 ELSE sum[a - 1] + stations[a]
  IN  sum[Axles] \div Axles

\* kBaseSpeedsMetersPerSecond and kPlannedCurvaturesRadiansPerMeter: three curves.
SpeedNodes ==
  [i \in 1..10 |-> [at |-> SpeedStations[i],
                    speed |-> Speeds[<<1, 1, 1, 1, 2, 2, 3, 3, 3, 3>>[i]],
                    curvature |-> Curvatures[<<1, 1, 2, 2, 3, 3, 4, 4, 1, 1>>[i]]]]

\* The tables of gains, filters, equilibria and limits: the profile of each node.
GuidanceNodes ==
  LET names == <<"straight", "straight", "R300", "R300", "R300", "R600", "R600", "R800", "R800",
                 "leaving", "leaving">>
  IN  [i \in 1..11 |-> [at |-> GuidanceStations[i], profile |-> names[i]]]

\* The speed is interpolated as its square.
SpeedAndCurvature(x) ==
  LET squares == [i \in DOMAIN SpeedNodes |-> SpeedNodes[i].speed * SpeedNodes[i].speed]
      curvatures == [i \in DOMAIN SpeedNodes |-> SpeedNodes[i].curvature]
  IN  [speed |-> SquareRoot(Interpolated(SpeedNodes, squares, x)),
       curvature |-> Interpolated(SpeedNodes, curvatures, x)]

\* Of the cross line: the tables of an axle at its own station, those of the line at
\* the mean one.
CrosslinePoint(stations) ==
  LET profiles == [i \in DOMAIN GuidanceNodes |-> Profiles[GuidanceNodes[i].profile]]
      Table(field) ==
        [a \in Axle |->
           Interpolated(GuidanceNodes, [i \in DOMAIN profiles |-> profiles[i][field][a]], stations[a])]
      OfLine(field) ==
        Interpolated(GuidanceNodes, [i \in DOMAIN profiles |-> profiles[i][field]], Mean(stations))
  IN  [field \in Gains \cup Offsets \cup Filters |-> Table(field)] @@
      [base |-> [a \in Axle |-> LET now == SpeedAndCurvature(stations[a])
                                IN  BaseReferences(now.speed, now.curvature)],
       outer |-> OfLine("outer"), limit |-> OfLine("limit"),
       active |-> [a \in Axle |-> stations[a] >= GuidanceStart /\ stations[a] <= GuidanceEnd]]

Ramp == Entry.full - Entry.start

\* A slip that is not made: the ramp starts with the line.
FractionOfTheWay(x) == IF x >= Entry.full THEN Ramp ELSE (x * Ramp) \div Entry.full

\* How much of the ramp into the single curve is behind, of Ramp.
EntryFraction(x) ==
  IF x <= Entry.start THEN 0 ELSE IF x >= Entry.full THEN Ramp ELSE x - Entry.start

SingleCurveBase(d, stations) ==
  [a \in Axle |-> BaseReferences(d.speed, Quotient(EntryFraction(stations[a]) * d.curvature, Ramp))]

WithinSingleCurve(stations) ==
  [a \in Axle |-> stations[a] >= Entry.start /\ stations[a] <= Entry.end]

SingleCurvePoint(d, stations) ==
  LET p == Profiles[d.profile]
      Share(x, a) == Quotient(EntryFraction(stations[a]) * x, Ramp)
      At(field) ==
        IF field \in Filters
          THEN [a \in Axle |-> Lerp(EntryFilters[field], p[field][a],
                                    EntryFraction(stations[a]), Ramp)]
          ELSE [a \in Axle |-> Share(p[field][a], a)]
  IN  [field \in Gains \cup Offsets \cup Filters |-> At(field)] @@
      [base |-> SingleCurveBase(d, stations),
       outer |-> Lerp(EntryFilters.outer, p.outer, EntryFraction(Mean(stations)), Ramp),
       limit |-> p.limit, active |-> WithinSingleCurve(stations)]

\* Without any gain the wheels follow the curvature alone.
NormalPoint(d, stations) ==
  [field \in Gains \cup Offsets |-> Each(0)] @@
  [field \in Filters |-> Each(EntryFilters[field])] @@
  [base |-> SingleCurveBase(d, stations), outer |-> EntryFilters.outer,
   limit |-> EntryFilters.limit, active |-> WithinSingleCurve(stations)]

\* MakeFixedOperatingPoint: gains of the configuration, a ramp between two references.
FixedPoint(c, stations) ==
  LET n == c.ramp_end - c.ramp_start
      Ramped(x) == IF x <= c.ramp_start THEN 0 ELSE IF x >= c.ramp_end THEN n ELSE x - c.ramp_start
      Reference(x, s) ==
        Quotient((n - Ramped(x)) * c.speed * Unit
                   + Ramped(x) * BaseReferences(c.speed, c.curvature)[s], n)
  IN  [field \in Gains \cup Offsets \cup Filters |-> c[field]] @@
      [base |-> [a \in Axle |-> [s \in Sides |-> Reference(stations[a], s)]],
       outer |-> c.outer, limit |-> c.limit,
       active |-> [a \in Axle |-> stations[a] >= c.start /\ stations[a] <= c.end]]

OperatingPoint(stations) ==
  CASE source.schedule = "cross line"   -> CrosslinePoint(stations)
    [] source.schedule = "single curve" -> SingleCurvePoint(source.of, stations)
    [] source.schedule = "normal"       -> NormalPoint(source.of, stations)
    [] source.schedule = "fixed"        -> FixedPoint(source.of, stations)

-----------------------------------------------------------------------------
\* What the constructors and Step require of configurations and operating points.
IsRecurrence ==
  /\ {Period, Radius} \subseteq Nat \ {0} /\ IntegralLimit \in Nat
  /\ AxleSigns \in [Axle -> {-1, 1}]
  /\ {WheelSigns, PiSigns} \subseteq [Axle -> [Sides -> {-1, 1}]]

IsController(c) ==
  /\ c.ramp_end > c.ramp_start /\ c.end > c.start
  /\ c.limit >= 0 /\ c.outer >= 0
  /\ \A field \in Filters, a \in Axle : c[field][a] >= 0

IsDefinition(d) ==
  d.speed > 0 /\ d.curvature > 0 /\ Profiles[d.profile].outer >= 0 /\ Profiles[d.profile].limit >= 0

Ascending(nodes) == \A i, j \in 1..Len(nodes) : i < j => nodes[i].at < nodes[j].at

IsSchedule ==
  /\ Ascending(SpeedNodes) /\ Ascending(GuidanceNodes)
  /\ \A i \in 1..Len(SpeedNodes) : SpeedNodes[i].speed >= 0
  /\ \A i \in 1..Len(GuidanceNodes) :
       GuidanceNodes[i].profile \in DOMAIN Profiles
  /\ \A name \in DOMAIN Profiles : Profiles[name].limit >= 0 /\ Profiles[name].outer >= 0

IsOperatingPoint(point) ==
  /\ point.outer >= 0 /\ point.limit >= 0
  /\ \A field \in Filters, a \in Axle : point[field][a] >= 0

LawAssumption ==
  /\ IsRecurrence /\ IsSchedule /\ Arm \in Definitions
  /\ \A d \in Definitions : IsDefinition(d)
  /\ \A c \in Fixed : IsController(c)

-----------------------------------------------------------------------------
NoMemory ==
  [initialized |-> FALSE, lateral |-> Each(0), yaw |-> Each(0), velocity |-> Each(0),
   rate |-> Each(0), integral |-> Each(0), command |-> Each(0),
   pi |-> EachWheel([integral |-> 0, filtered |-> 0])]

\* The rates of what is measured since the sample before, filtered.
FilteredRates(input, point, m) ==
  LET Rate(constant, old, new, filtered) ==
        IF m.initialized THEN Filter(constant, filtered, Quotient(new - old, Period)) ELSE 0
  IN  [velocity |-> [a \in Axle |-> Rate(point["velocity filter"][a], m.lateral[a],
                                         input.lateral[a], m.velocity[a])],
       yaw |-> [a \in Axle |-> Rate(point["yaw rate filter"][a], m.yaw[a], input.yaw[a], m.rate[a])]]

MeasuredDifference(input, a) ==
  WheelSigns[a]["left"] * input.wheels[a]["left"] - WheelSigns[a]["right"] * input.wheels[a]["right"]

EquilibriumDifference(point, a) ==
  Quotient(point.base[a]["left"] - point.base[a]["right"], Radius)

LateralError(input, point, a) == input.lateral[a] - point["equilibrium lateral"][a]

Integral(input, point, m, a) ==
  IF point.active[a]
    THEN ClampSymmetric(m.integral[a] + LateralError(input, point, a) * Period, IntegralLimit)
    ELSE 0

Target(input, point, m, a) ==
  LET rates == FilteredRates(input, point, m)
      feedback ==
        point["yaw rate"][a] * rates.yaw[a]
          + point["yaw"][a] * (input.yaw[a] - point["equilibrium yaw"][a])
          + point["lateral velocity"][a] * rates.velocity[a]
          + point["lateral"][a] * LateralError(input, point, a)
          + point["integral"][a] * Integral(input, point, m, a)
  IN  point["feedforward"][a] * EquilibriumDifference(point, a) + AxleSigns[a] * feedback

\* Before it is cut to the limit; if no axle feeds the difference back, the target itself.
Command(input, point, m, a) ==
  LET target == Target(input, point, m, a)
      raw == target + point["difference"][a] * (target - MeasuredDifference(input, a))
  IN  IF ~point.active[a] THEN 0
      ELSE IF \A b \in Axle : point["difference"][b] = 0 THEN target
      ELSE Filter(point.outer, m.command[a], raw)

References(point, commands) ==
  [a \in Axle |-> [s \in Sides |->
     point.base[a][s]
       + SideSign(s) * (Radius \div 2)
           * (IF point.active[a] THEN ClampSymmetric(commands[a], point.limit) ELSE 0)]]

\* SampledFilteredPi::Step, with an integral time of one period.
PiStep(error, m) ==
  LET integral == ClampSymmetric(m.integral + error * Period, PiIntegralLimit)
  IN  [integral |-> integral,
       filtered |-> Filter(PiFilter, m.filtered,
                           ClampSymmetric(PiGain * error + PiGain * integral, TorqueLimit))]

\* The whole of IrwFullStateWheelSpeedGuidanceRecurrence::Step.
Step(input, point, m) ==
  LET rates == FilteredRates(input, point, m)
      commands == [a \in Axle |-> Command(input, point, m, a)]
      references == References(point, commands)
      pi == [a \in Axle |-> [s \in Sides |->
               PiStep(references[a][s] - Radius * PiSigns[a][s] * input.wheels[a][s], m.pi[a][s])]]
  IN  [references |-> references,
       torques |-> [a \in Axle |-> [s \in Sides |-> pi[a][s].filtered]],
       next |-> [initialized |-> TRUE, lateral |-> input.lateral, yaw |-> input.yaw,
                 velocity |-> rates.velocity, rate |-> rates.yaw,
                 integral |-> [a \in Axle |-> Integral(input, point, m, a)],
                 command |-> commands, pi |-> pi]]

-----------------------------------------------------------------------------
Sources ==
  {[schedule |-> "cross line", of |-> Arm]} \cup
  [schedule : {"single curve", "normal"}, of : Definitions] \cup
  [schedule : {"fixed"}, of : Fixed]

Init ==
  /\ source \in Sources
  /\ station = 0 /\ memory = NoMemory /\ sampled = None /\ lost = FALSE

Stations == [a \in Axle |-> station - Behind[a]]

\* One control event: the operating point of where the axles are, and the law.
Sample(input, stride) ==
  /\ ~lost /\ station <= Last
  /\ LET point == OperatingPoint(Stations)
         result == Step(input, point, memory)
     IN  /\ IsOperatingPoint(point)
         /\ memory' = result.next
         /\ sampled' = [input |-> input, stations |-> Stations, point |-> point,
                        before |-> memory, result |-> result]
  /\ station' = station + stride
  /\ UNCHANGED <<source, lost>>

\* A station that is not finite is refused, by the schedule or by the law.
Lose ==
  /\ ~lost /\ station <= Last
  /\ lost' = TRUE
  /\ UNCHANGED <<source, station, memory, sampled>>

Next ==
  \/ \E input \in Measured, stride \in Strides : Sample(input, stride)
  \/ Lose

Spec == Init /\ [][Next]_vars
-----------------------------------------------------------------------------
Negative(values) == [a \in Axle |-> -values[a]]
Swapped(wheels) == [a \in Axle |-> [left |-> wheels[a]["right"], right |-> wheels[a]["left"]]]

MirrorInput(input) ==
  [lateral |-> Negative(input.lateral), yaw |-> Negative(input.yaw), wheels |-> Swapped(input.wheels)]

MirrorPoint(point) ==
  [field \in Offsets |-> Negative(point[field])] @@ ("base" :> Swapped(point.base)) @@ point

MirrorMemory(m) ==
  [initialized |-> m.initialized, lateral |-> Negative(m.lateral), yaw |-> Negative(m.yaw),
   velocity |-> Negative(m.velocity), rate |-> Negative(m.rate), integral |-> Negative(m.integral),
   command |-> Negative(m.command), pi |-> Swapped(m.pi)]

\* The law knows no side: of the mirrored vehicle on the mirrored line, after the same
\* run up to there, it asks for the mirrored torques and keeps the mirrored memory.
LawIsMirrorSymmetric ==
  sampled # None =>
    LET mirrored ==
          Step(MirrorInput(sampled.input), MirrorPoint(sampled.point), MirrorMemory(sampled.before))
    IN  /\ mirrored.torques = Swapped(sampled.result.torques)
        /\ mirrored.next = MirrorMemory(sampled.result.next)

\* Guidance gives one wheel what it takes from the other: over any run the two
\* references of an axle have the mean that the line asks for, differ from it by what
\* the limit allows and only where there is guidance, and no torque asked for is ever
\* beyond the limit of the controller, whatever its filter and integral carry over.
GuidanceOnlyRedistributes ==
  sampled # None =>
    \A a \in Axle :
      LET asked == sampled.result.references[a]
          base == sampled.point.base[a]
          limit == (Radius \div 2) * sampled.point.limit
      IN  /\ asked["left"] + asked["right"] = base["left"] + base["right"]
          /\ \A s \in Sides :
               /\ Magnitude(asked[s] - base[s]) <= (IF sampled.point.active[a] THEN limit ELSE 0)
               /\ Magnitude(sampled.result.torques[a][s]) <= TorqueLimit

\* Up to the end of its first curve, the cross line asks for what the single curve of
\* the same radius asks for, and the arm without guidance for the same speeds: runs of
\* the two can be compared there.
CurveIsTheFirstOfTheLine ==
  sampled # None /\ source.schedule = "cross line" /\ (\A a \in Axle : sampled.stations[a] <= Entry.end) =>
    /\ sampled.point = SingleCurvePoint(Arm, sampled.stations)
    /\ sampled.point.base = NormalPoint(Arm, sampled.stations).base
=============================================================================
