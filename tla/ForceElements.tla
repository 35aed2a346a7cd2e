---------------------------- MODULE ForceElements ----------------------------
(***************************************************************************)
(* The forces of a vehicle's suspension and drives on its bodies:          *)
(* VehicleForcePlan, IndependentWheelActiveTorquePlan and the part of      *)
(* CompiledSystemPlan that has them, and the contact's plan between them,  *)
(* fill disjoint slices of one buffer of wrenches before it is handed to   *)
(* the multibody model.  Each element fills a pair of slots.               *)
(*                                                                         *)
(* A vector is three integers, and a rotation is a matrix of integers,     *)
(* rows, over a common denominator, of; the quantities are such that every *)
(* quotient taken is whole.  A quaternion is represented by the rotation   *)
(* it is of.  Pitch is a multiple of one angle, and roll and yaw are none  *)
(* or half a turn: a bushing is turned by no other angles.                 *)
(***************************************************************************)
EXTENDS Integers, Sequences, FiniteSets, TLC

CONSTANTS
    Collections,  \* the elements a vehicle is given, in the order of their families,
                  \* and the drives
    Frames,       \* name |-> body, and the position and rotation on it
    Halves,       \* rotations half as far as those of the bushings
    HalfTurn,     \* the angle of half a turn
    PitchOf,      \* sine, over the denominator |-> angle
    Inputs,       \* what an evaluation reads: the motion, body |-> position, rotation,
                  \* velocity and angular velocity, and for each name the nominal
                  \* force, the force of the series state, the torque held; whether
                  \* the spans are of the plans' lengths
    NoName,       \* the empty name
    NotFinite,    \* a torque that is not finite
    Contact,      \* pairs of slots of the contact force plan
    MaxCalls,     \* evaluations considered
    None, Refused

VARIABLES
    plan,     \* None, Refused or the collection accepted
    calls,    \* evaluations begun
    call,     \* what this one reads
    step,     \* 0 when idle, the element, or the slice after the elements
    buffer,   \* body_wrenches_ of the context, by the two slots of a pair
    rates,    \* series_force_derivatives_ of the context
    handed    \* what the multibody model was handed for this evaluation

vars == <<plan, calls, call, step, buffer, rates, handed>>

Axis == 1..3

-----------------------------------------------------------------------------
Zero == <<0, 0, 0>>
Plus(a, b)   == [i \in Axis |-> a[i] + b[i]]
Minus(a, b)  == [i \in Axis |-> a[i] - b[i]]
Times(a, b)  == [i \in Axis |-> a[i] * b[i]]
Negative(a)  == [i \in Axis |-> -a[i]]
Half(a)      == [i \in Axis |-> a[i] \div 2]
Dot(a, b)    == a[1] * b[1] + a[2] * b[2] + a[3] * b[3]
Cross(a, b)  ==
    <<a[2] * b[3] - a[3] * b[2], a[3] * b[1] - a[1] * b[3], a[1] * b[2] - a[2] * b[1]>>
Along(axis, x) == [i \in Axis |-> IF i = axis THEN x ELSE 0]

Column(R, j) == <<R.rows[1][j], R.rows[2][j], R.rows[3][j]>>
Turned(R, a) == [i \in Axis |-> Dot(R.rows[i], a) \div R.of]
Back(R, a)   == [i \in Axis |-> Dot(Column(R, i), a) \div R.of]

\* One rotation after another, and one as seen from another.
After(R, S) ==
    [rows |-> [i \in Axis |-> [j \in Axis |-> Dot(R.rows[i], Column(S, j))]],
     of |-> R.of * S.of]
Relative(R, S) ==
    [rows |-> [i \in Axis |-> [j \in Axis |-> Dot(Column(R, i), Column(S, j))]],
     of |-> R.of * S.of]
Same(R, S) == \A i, j \in Axis : R.rows[i][j] * S.of = S.rows[i][j] * R.of

\* CalcHalfAngleRotation: about the same axis, half as far, at most a quarter; of a
\* half turn, about the positive axis.
Trace(R) == R.rows[1][1] + R.rows[2][2] + R.rows[3][3]
HalfAngle(R) ==
    CHOOSE B \in Halves :
      /\ Same(R, After(B, B)) /\ Trace(B) >= B.of
      /\ Trace(R) = -R.of => B.rows[3][2] >= B.rows[2][3] /\ B.rows[1][3] >= B.rows[3][1]
                             /\ B.rows[2][1] >= B.rows[1][2]

-----------------------------------------------------------------------------
\* What the multibody model says of a frame.
PoseOf(motion, f) ==
    LET body == motion[Frames[f].body]
    IN  [at |-> Plus(body.at, Turned(body.turned, Frames[f].at)),
         turned |-> After(body.turned, Frames[f].turned)]

Point(motion, body, p) == Plus(motion[body].at, Turned(motion[body].turned, p))
Velocity(motion, body, at) ==
    Plus(motion[body].velocity, Cross(motion[body].spin, Minus(at, motion[body].at)))

\* How the opposite frame lies and moves, seen in the reference frame.
RelativeMotion(motion, reference, opposite) ==
    LET r == PoseOf(motion, reference)
        o == PoseOf(motion, opposite)
        turning == motion[Frames[reference].body].spin
        apart == Minus(o.at, r.at)
        ofOpposite == Velocity(motion, Frames[opposite].body, o.at)
        ofReference == Velocity(motion, Frames[reference].body, r.at)
    IN  [reference |-> [body |-> Frames[reference].body, point |-> Frames[reference].at],
         opposite |-> [body |-> Frames[opposite].body, point |-> Frames[opposite].at],
         apart |-> apart, origin |-> r.at, turned |-> r.turned,
         displacement |-> Back(r.turned, apart),
         rotation |-> Relative(r.turned, o.turned),
         velocity |-> Back(r.turned, Minus(Minus(ofOpposite, ofReference), Cross(turning, apart))),
         spin |-> Back(r.turned, Minus(motion[Frames[opposite].body].spin, turning))]

Wrench(end, moment, force) ==
    [body |-> end.body, point |-> end.point, moment |-> moment, force |-> force]

\* Slips that are not made: no moment supports the offset; the bushing's force at
\* the origins of the two frames.
UnsupportedPair(m, force) ==
    LET inWorld == Turned(m.turned, force)
    IN  <<Wrench(m.reference, Zero, inWorld), Wrench(m.opposite, Zero, Negative(inWorld))>>
PairAtTheOrigins(motion, m, force, torque) ==
    <<Wrench(m.reference, Negative(torque), Negative(force)), Wrench(m.opposite, torque, force)>>

\* The force on the reference end, expressed in its frame; the moment supports the
\* offset of the two ends.
TranslationalPair(m, force) ==
    LET inWorld == Turned(m.turned, force)
    IN  <<Wrench(m.reference, Cross(m.apart, inWorld), inWorld),
          Wrench(m.opposite, Zero, Negative(inWorld))>>

CouplePair(positive, negative, moment) ==
    <<Wrench(positive, moment, Zero), Wrench(negative, Negative(moment), Zero)>>

\* Both at the midpoint, as a point of each body.
MidpointPair(motion, m, force, torque) ==
    LET middle == Plus(m.origin, Half(m.apart))
        On(body) == [body |-> body, point |-> Back(motion[body].turned,
                                                   Minus(middle, motion[body].at))]
    IN  <<Wrench(On(m.reference.body), Negative(torque), Negative(force)),
          Wrench(On(m.opposite.body), torque, force)>>

-----------------------------------------------------------------------------
\* The piecewise linear half of a damper, and its odd reflection.
DamperForce(curve, v) ==
    LET speed == IF v < 0 THEN -v ELSE v
        sign == IF v < 0 THEN -1 ELSE 1
        last == curve[Len(curve)]
        i == CHOOSE k \in 2..Len(curve) :
               /\ speed <= curve[k].speed
               /\ \A l \in 2..(k - 1) : speed > curve[l].speed
        lower == curve[i - 1]
        upper == curve[i]
    IN  IF speed >= last.speed THEN sign * last.force
        ELSE sign * (lower.force + ((speed - lower.speed) * (upper.force - lower.force))
                                     \div (upper.speed - lower.speed))

\* Of the angular velocity to the rates of the space-fixed angles, and of the
\* torques on those angles to the torque; singular when the pitch has no cosine.
PitchSine(R) == -R.rows[3][1]
PitchCosine(R) == IF R.rows[1][1] < 0 THEN -R.rows[1][1] ELSE R.rows[1][1]
YawCosine(R) == IF R.rows[1][1] < 0 THEN -1 ELSE 1
Singular(R) == PitchCosine(R) = 0

Angles(R) ==
    <<IF R.rows[3][3] < 0 THEN HalfTurn ELSE 0, PitchOf[PitchSine(R)],
      IF R.rows[1][1] < 0 THEN HalfTurn ELSE 0>>
AngleRates(R, spin) ==
    LET x == (YawCosine(R) * spin[1]) \div PitchCosine(R)
    IN  <<R.of * x, YawCosine(R) * spin[2], PitchSine(R) * x + spin[3]>>
TorqueOf(R, t) ==
    <<YawCosine(R) * ((R.of * t[1] + PitchSine(R) * t[3]) \div PitchCosine(R)),
      YawCosine(R) * t[2], t[3]>>

\* A slip that is not made: the velocity is that of the frames' origins.
OriginMotion(m) ==
    LET b == HalfAngle(m.rotation)
    IN  [frame |-> b, displacement |-> Back(b, m.displacement), velocity |-> Back(b, m.velocity)]

\* The displacement and the velocity between the two bodies at the midpoint, in the
\* frame turned half as far as the opposite one.
MidpointMotion(m) ==
    LET b == HalfAngle(m.rotation)
    IN  [frame |-> b, displacement |-> Back(b, m.displacement),
         velocity |-> Back(b, Minus(m.velocity, Half(Cross(m.spin, m.displacement))))]

-----------------------------------------------------------------------------
Passive(a) == \A i \in Axis : a[i] >= 0

\* ValidateSaturatedDamperCurve.
IsDamping(curve) ==
    /\ Len(curve) >= 2 /\ curve[1].speed = 0 /\ curve[1].force = 0
    /\ \A i \in 1..Len(curve) : curve[i].force >= 0 /\ (i > 1 => curve[i].speed > curve[i - 1].speed)

\* RequireDistinctLiveEnds.
Connects(e) ==
    e.reference # e.opposite /\ Frames[e.reference].body # Frames[e.opposite].body

IsPassive(e) ==
    CASE e.law = "translational" -> Passive(e.stiffness) /\ Passive(e.damping)
      [] e.law = "roll couple"   -> e.stiffness >= 0 /\ e.damping >= 0
      [] e.law = "series"        -> e.stiffness > 0 /\ e.damping > 0
      [] e.law = "saturated"     -> IsDamping(e.curve)
      [] e.law = "bushing"       -> Passive(e.stiffness) /\ Passive(e.damping)
                                    /\ Passive(e.turning.stiffness) /\ Passive(e.turning.damping)

Distinct(names) == \A i, j \in DOMAIN names : names[i] = names[j] => i = j

\* VehicleForcePlan: the names are unique across the families.
IsSuspension(elements) ==
    /\ Distinct([i \in 1..Len(elements) |-> elements[i].name])
    /\ \A i \in 1..Len(elements) :
         elements[i].name # NoName /\ Connects(elements[i]) /\ IsPassive(elements[i])

\* IndependentWheelActiveTorquePlan, of a vehicle that has drives.
IsDriven(drives) ==
    /\ Distinct([i \in 1..Len(drives) |-> drives[i].name])
    /\ Distinct([i \in 1..Len(drives) |-> drives[i].wheel])
    /\ \A i \in 1..Len(drives) :
         /\ NoName \notin {drives[i].name, drives[i].provider, drives[i].wheel, drives[i].frame}
         /\ Cardinality({drives[i].provider, drives[i].wheel, drives[i].frame}) = 3

\* The slices of the buffer: vehicle, contact, drives.
AfterVehicle(c) == Len(c.suspension)
AfterContact(c) == AfterVehicle(c) + Contact
Pairs(c)        == AfterContact(c) + Len(c.drives)

Build(c) ==
    /\ plan = None
    /\ IF IsSuspension(c.suspension) /\ IsDriven(c.drives)
         THEN plan' = c /\ buffer' = [i \in 1..Pairs(c) |-> None]
         ELSE plan' = Refused /\ UNCHANGED buffer
    /\ UNCHANGED <<calls, call, step, rates, handed>>

-----------------------------------------------------------------------------
PairOf(e, input) ==
    LET motion == input.motion
        m == RelativeMotion(motion, e.reference, e.opposite)
        middle == MidpointMotion(m)
    IN  CASE e.law = "translational" ->
               TranslationalPair(m, Plus(Plus(Times(e.stiffness, m.displacement),
                                              Times(e.damping, m.velocity)),
                                         input.nominal[e.name]))
          [] e.law = "roll couple" ->
               CouplePair(m.reference, m.opposite, Turned(m.turned, Along(1,
                 e.stiffness * (m.rotation.rows[3][2] \div m.rotation.of)
                   + e.damping * m.spin[1])))
          [] e.law = "series" -> TranslationalPair(m, Along(e.axis, input.series[e.name]))
          [] e.law = "saturated" ->
               TranslationalPair(m, Along(e.axis, DamperForce(e.curve, m.velocity[e.axis])))
          [] e.law = "bushing" ->
               MidpointPair(motion, m,
                 Turned(m.turned, Turned(middle.frame, Negative(
                   Plus(Times(e.stiffness, middle.displacement),
                        Times(e.damping, middle.velocity))))),
                 Turned(m.turned, TorqueOf(m.rotation, Negative(
                   Plus(Times(e.turning.stiffness, Angles(m.rotation)),
                        Times(e.turning.damping, AngleRates(m.rotation, m.spin)))))))

DrivePair(d, input) ==
    CouplePair([body |-> d.wheel, point |-> Zero], [body |-> d.frame, point |-> Zero],
               Turned(input.motion[d.provider].turned, Along(2, input.torque[d.name])))

\* dF/dt = K v - (K/C) F.
SeriesRate(e, input) ==
    e.stiffness * RelativeMotion(input.motion, e.reference, e.opposite).velocity[e.axis]
      - (e.stiffness \div e.damping) * input.series[e.name]

Throws(e, input) ==
    e.law = "bushing" /\ Singular(RelativeMotion(input.motion, e.reference, e.opposite).rotation)

Init ==
    /\ plan = None /\ calls = 0 /\ call = None /\ step = 0 /\ buffer = <<>>
    /\ rates = [n \in {} |-> 0] /\ handed = None

\* CalcStateTimeDerivatives; spans of another length are refused before anything is
\* written.
Evaluate(input) ==
    /\ plan # None /\ plan # Refused /\ step = 0 /\ calls < MaxCalls
    /\ calls' = calls + 1 /\ call' = input
    /\ step' = IF input.fits THEN 1 ELSE 0
    /\ handed' = None
    /\ UNCHANGED <<plan, buffer, rates>>

\* The elements fill their slots in turn; what a singular bushing leaves unfilled,
\* the buffer still has from before.
Apply ==
    /\ step \in 1..AfterVehicle(plan)
    /\ LET e == plan.suspension[step]
       IN  IF Throws(e, call)
             THEN step' = 0 /\ UNCHANGED <<buffer, rates>>
             ELSE /\ step' = step + 1
                  /\ buffer' = [buffer EXCEPT ![step] = PairOf(e, call)]
                  /\ rates' = IF e.law = "series"
                                THEN (e.name :> SeriesRate(e, call)) @@ rates ELSE rates
    /\ UNCHANGED <<plan, calls, call, handed>>

\* The contact force plan fills its slice, or throws; see ContactForces.
Touch ==
    /\ step = AfterVehicle(plan) + 1
    /\ \/ /\ step' = step + 1
          /\ buffer' = [i \in 1..Pairs(plan) |->
                          IF i \in (AfterVehicle(plan) + 1)..AfterContact(plan)
                            THEN <<"contact", calls>> ELSE buffer[i]]
       \/ step' = 0 /\ UNCHANGED buffer
    /\ UNCHANGED <<plan, calls, call, rates, handed>>

Drive ==
    /\ step = AfterVehicle(plan) + 2
    /\ IF \E i \in 1..Len(plan.drives) : call.torque[plan.drives[i].name] = NotFinite
         THEN step' = 0 /\ UNCHANGED buffer
         ELSE /\ step' = step + 1
              /\ buffer' = [i \in 1..Pairs(plan) |->
                              IF i > AfterContact(plan)
                                THEN DrivePair(plan.drives[i - AfterContact(plan)], call)
                                ELSE buffer[i]]
    /\ UNCHANGED <<plan, calls, call, rates, handed>>

HandOver ==
    /\ step = AfterVehicle(plan) + 3 /\ step' = 0
    /\ handed' = [input |-> call, wrenches |-> buffer, rates |-> rates]
    /\ UNCHANGED <<plan, calls, call, buffer, rates>>

Next ==
    \/ \E c \in Collections : Build(c)
    \/ \E input \in Inputs : Evaluate(input)
    \/ step > 0 /\ (Apply \/ Touch \/ Drive \/ HandOver)

Spec == Init /\ [][Next]_vars
-----------------------------------------------------------------------------
\* The moment of a wrench about the origin of the world, and its power.
MomentOf(motion, w) == Plus(w.moment, Cross(Point(motion, w.body, w.point), w.force))
PowerOf(motion, w) ==
    Dot(w.force, Velocity(motion, w.body, Point(motion, w.body, w.point)))
      + Dot(w.moment, motion[w.body].spin)

IsBalanced(motion, pair) ==
    /\ Plus(pair[1].force, pair[2].force) = Zero
    /\ Plus(MomentOf(motion, pair[1]), MomentOf(motion, pair[2])) = Zero

Power(motion, pair) == PowerOf(motion, pair[1]) + PowerOf(motion, pair[2])

\* What goes into the springs of an element, and into its dampers.
Stored(e, input) ==
    LET m == RelativeMotion(input.motion, e.reference, e.opposite)
        middle == MidpointMotion(m)
    IN  CASE e.law = "translational" ->
               Dot(Plus(Times(e.stiffness, m.displacement), input.nominal[e.name]), m.velocity)
          [] e.law = "roll couple" ->
               e.stiffness * (m.rotation.rows[3][2] \div m.rotation.of) * m.spin[1]
          [] e.law = "saturated" -> 0
          [] e.law = "bushing" ->
               Dot(Times(e.stiffness, middle.displacement), middle.velocity)
                 + Dot(Times(e.turning.stiffness, Angles(m.rotation)), AngleRates(m.rotation, m.spin))

Dissipates(e, pair, input, rate) ==
    IF e.law = "series"
      THEN e.stiffness * Power(input.motion, pair) + input.series[e.name] * rate
             = -((e.stiffness \div e.damping) * input.series[e.name] * input.series[e.name])
      ELSE Power(input.motion, pair) + Stored(e, input) <= 0

\* What the multibody model is handed is of this evaluation alone, whatever an
\* earlier one left behind.  Every pair of wrenches balances, in force and in moment,
\* wherever the two ends lie and however they turn; what its ends do to the bodies is
\* what its springs give up less what its dampers take, never more, and of a series
\* element with the rate of its state; and a drive does the work of its torque over
\* the turning of its wheel against the frame.
PairsDoTheWorkOfTheirLaws ==
    handed # None =>
      LET input == handed.input
      IN  /\ \A i \in 1..AfterVehicle(plan) :
               LET e == plan.suspension[i]
                   pair == handed.wrenches[i]
               IN  /\ IsBalanced(input.motion, pair)
                   /\ Dissipates(e, pair, input, IF e.law = "series" THEN handed.rates[e.name] ELSE 0)
          /\ \A i \in (AfterVehicle(plan) + 1)..AfterContact(plan) :
               handed.wrenches[i] = <<"contact", calls>>
          /\ \A i \in 1..Len(plan.drives) :
               LET d == plan.drives[i]
                   pair == handed.wrenches[AfterContact(plan) + i]
                   turning == Minus(input.motion[d.wheel].spin, input.motion[d.frame].spin)
               IN  /\ IsBalanced(input.motion, pair)
                   /\ Power(input.motion, pair)
                        = input.torque[d.name] * Back(input.motion[d.provider].turned, turning)[2]
=============================================================================
