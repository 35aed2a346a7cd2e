----------------------------- MODULE RunTables -----------------------------
(***************************************************************************)
(* The tables the programs write, and who reads them.  A header names its  *)
(* columns in one function, a row fills them in another; the values come   *)
(* out of arrays whose order the contact plan, the torque channels or an   *)
(* external solver decide, some with their sign turned; and a script or a  *)
(* published contract finds them again by name.                            *)
(*                                                                         *)
(* A column is <<subject, quantity>>.  A value is the set of readings it   *)
(* is the sum of: whose, of what, when, with which sign; zero is the empty *)
(* set.  Time counts observation periods of the guidance experiment.       *)
(*                                                                         *)
(* Wheel 2a - 1 is the left and 2a the right one of axle a, the order of   *)
(* kIrwClosedInterfaces.                                                   *)
(***************************************************************************)
EXTENDS Integers, Sequences, SequencesExt, FiniteSetsExt

CONSTANTS
  Axles,          \* kAxleCount
  Bodies,         \* representative_body_names
  Slots,          \* kMaximumContactPatchCount
  ForwardSigns,   \* forward_joint_rate_signs, of each wheel
  Contacts,       \* loads of the slots of each wheel, at an instant; 0 is an empty slot
  Samples,        \* observations after the first
  Drawn           \* AXLES, the axles the scripts draw

AllAxles  == 1..Axles
AllWheels == 1..2 * Axles
Left(a) == 2 * a - 1

TableAssumption ==
  /\ Axles \in Nat \ {0} /\ Drawn \subseteq AllAxles
  /\ \A w \in AllWheels : ForwardSigns[w] \in {-1, 1}
  /\ \A c \in Contacts : \A w \in AllWheels : Len(c[w]) = Slots

Axle(a)     == <<"axle", a>>
Wheel(w)    == <<"wheel", w>>
Body(b)     == <<"body", b>>
Patch(w, p) == <<"patch", w, p>>
Row         == <<"row">>

Reading(of, what, at) == {[of |-> of, what |-> what, at |-> at, sign |-> 1]}
Minus(value) == {[r EXCEPT !.sign = -r.sign] : r \in value}
Times(sign, value) == IF sign = 1 THEN value ELSE Minus(value)

VARIABLES
  program,   \* which one runs
  plan,      \* the order of carriers, interfaces and torque channels (or of the
             \* solver's inputs)
  listing,   \* the solver's output_names
  bound,     \* "no", "yes" or "refused"
  previous,  \* previous_stations_meters, or none
  sample,    \* of the program that runs, from 0
  touched,   \* the contacts of each program's samples
  files      \* the rows of each program's tables

vars == <<program, plan, listing, bound, previous, sample, touched, files>>

Programs == {"experiment", "guided", "passive", "single curve", "cruise"}
Tables   == {"observations", "patches", "events", "scalars"}

AxleOrder  == [a \in AllAxles |-> a]
WheelOrder == [w \in AllWheels |-> w]
Closed == [carriers |-> AxleOrder, interfaces |-> WheelOrder, channels |-> WheelOrder]

\* The single curve is observed every other period of the experiment.
At(p, k) == IF p = "single curve" THEN 2 * k ELSE k
-----------------------------------------------------------------------------
\* One family of columns after the other, or one subject after the other.
Families(subjects, quantities) ==
  FlattenSeq([i \in DOMAIN quantities |->
                [j \in DOMAIN subjects |-> <<subjects[j], quantities[i]>>]])
EachOf(subjects, quantities) ==
  FlattenSeq([j \in DOMAIN subjects |->
                [i \in DOMAIN quantities |-> <<subjects[j], quantities[i]>>]])

\* WriteArray for several fields, and a loop that writes several fields at once.
Arrays(record, fields) == FlattenSeq([i \in DOMAIN fields |-> record[fields[i]]])
Loop(record, fields) ==
  FlattenSeq([j \in DOMAIN record[fields[1]] |-> [i \in DOMAIN fields |-> record[fields[i]][j]]])

AxleColumns  == [a \in AllAxles |-> Axle(a)]
WheelColumns == [w \in AllWheels |-> Wheel(w)]
OfRow(quantities) == EachOf(<<Row>>, quantities)
ValuesOfRow(quantities, at) == [i \in DOMAIN quantities |-> Reading(Row, quantities[i], at)]

Clock == <<"sample_index", "time_nanoseconds", "time_seconds">>

ControllerState(kind) ==
  LET Of(subjects) == [i \in DOMAIN subjects |-> Append(subjects[i], kind)]
  IN  <<<<<<"row", kind>>, "initialized">>>>
        \o Families(Of(AxleColumns),
             <<"previous_lateral", "previous_yaw", "filtered_lateral_velocity",
               "filtered_yaw_rate", "lateral_integral", "filtered_command">>)
        \o Families(Of(WheelColumns), <<"pi_integral", "pi_filtered_torque">>)

ExperimentObservationHeader ==
  OfRow(Clock)
    \o Families(AxleColumns, <<"station", "speed", "lateral", "yaw">>)
    \o Families(WheelColumns, <<"frozen rate", "torque", "patch_count", "support", "normal">>)
    \o EachOf(WheelColumns, <<"x", "y", "z">>)

ExperimentPatchHeader ==
  OfRow(Clock \o <<"wheel_index", "interface_name", "patch_ordinal", "normal", "longitudinal",
                   "lateral", "longitudinal creepage", "lateral creepage", "angle", "point x",
                   "point y", "point z", "force x", "force y", "force z">>)

ExperimentEventHeader ==
  OfRow(<<"event_kind", "ordinal", "time_seconds">>)
    \o Families(AxleColumns, <<"station", "lateral", "yaw">>)
    \o Families(WheelColumns, <<"frozen rate", "base reference">>)
    \o Families(AxleColumns,
         <<"feedforward", "yaw rate gain", "yaw gain", "velocity gain", "lateral gain",
           "integral gain", "difference gain">>)
    \o Families(WheelColumns, <<"reference">>)
    \o Families(AxleColumns,
         <<"difference reference", "difference", "equilibrium", "filtered velocity",
           "filtered yaw rate", "active">>)
    \o Families(WheelColumns,
         <<"request", "probe", "probe limit", "prioritized", "torque", "limit", "flag",
           "drive speed", "drive memory before", "drive memory after">>)
    \o ControllerState("before") \o ControllerState("after")

GuidedObservationHeader ==
  OfRow(Clock)
    \o Families(AxleColumns, <<"station", "lateral", "yaw">>)
    \o Families(WheelColumns, <<"patch_count", "support", "normal">>)
    \o EachOf(WheelColumns, <<"x", "y", "z">>)
    \o Families(WheelColumns, <<"marker station">>)

\* Of the guided and of the passive run.
PatchHeader ==
  OfRow(Clock \o <<"interface_name", "patch_ordinal", "normal", "longitudinal", "lateral",
                   "angle", "point x", "point y", "point z", "force x", "force y", "force z">>)

GuidedEventHeader ==
  OfRow(<<"event_kind", "ordinal", "time_seconds">>)
    \o Families(AxleColumns, <<"station", "lateral", "yaw">>)
    \o Families(WheelColumns, <<"frozen rate", "request", "base reference", "reference">>)
    \o Families(AxleColumns,
         <<"difference reference", "difference", "equilibrium", "filtered velocity",
           "filtered yaw rate", "active">>)
    \o Families(WheelColumns,
         <<"torque", "limit", "flag", "drive speed", "drive memory before",
           "drive memory after">>)
    \o ControllerState("before") \o ControllerState("after")

PassiveObservationHeader ==
  OfRow(Clock)
    \o EachOf([i \in AllAxles |-> Axle(plan.carriers[i])], <<"station", "lateral", "heading">>)
    \o EachOf([i \in AllWheels |-> Wheel(plan.interfaces[i])],
         <<"marker station", "patch_count", "support", "normal", "x", "y", "z",
           "primary ordinal", "primary normal", "primary longitudinal", "primary lateral">>)
    \o EachOf([i \in DOMAIN Bodies |-> Body(Bodies[i])], <<"station", "lateral", "heading">>)

SceneScalarDefinitions ==
  EachOf([i \in AllAxles |-> Axle(plan.carriers[i])], <<"station", "lateral", "heading">>)
    \o EachOf([i \in AllWheels |-> Wheel(plan.interfaces[i])],
         <<"patch_count", "support", "normal">>)
    \o EachOf([i \in DOMAIN Bodies |-> Body(Bodies[i])], <<"station", "lateral", "heading">>)

SingleCurveObservationHeader ==
  OfRow(<<"sample_index", "time_seconds">>)
    \o Families(AxleColumns, <<"station", "lateral", "yaw">>)
    \o Families(WheelColumns, <<"frozen rate", "torque">>)
    \o Families(WheelColumns, <<"raw normal sum", "longitudinal sum", "lateral sum">>)

SingleCurveEventHeader ==
  OfRow(<<"ordinal", "event_kind", "time_seconds">>)
    \o Families(AxleColumns, <<"station">>)
    \o Families(WheelColumns, <<"base reference", "request", "prioritized", "torque">>)

\* BodySignalColumns: the heading of a column and the name of the output it shows.
BodySignals ==
  LET Show(subjects, pairs) ==
        FlattenSeq([j \in DOMAIN subjects |->
          [i \in DOMAIN pairs |-> [heading |-> <<subjects[j], pairs[i][1]>>,
                                   output |-> <<subjects[j], pairs[i][2]>>]]])
  IN  Show([i \in DOMAIN Bodies |-> Body(Bodies[i])],
           <<<<"station", "s">>, <<"vertical", "z">>, <<"pitch", "pitch">>>>)
        \o Show(AxleColumns, <<<<"station", "s">>, <<"lateral", "y">>, <<"vertical", "z">>,
                               <<"yaw", "yaw">>, <<"pitch", "pitch">>>>)

CruiseObservationHeader ==
  OfRow(<<"ordinal", "time_seconds", "common speed">>)
    \o [i \in DOMAIN BodySignals |-> BodySignals[i].heading]
    \o EachOf(WheelColumns,
         <<"raw rate", "forward rate", "slot count", "support", "normal sum",
           "longitudinal sum", "lateral sum", "torque", "input">>)

CruisePatchHeader ==
  OfRow(<<"ordinal", "time_seconds", "interface_name", "patch_ordinal", "normal",
          "longitudinal", "lateral">>)

CruiseEventHeader ==
  OfRow(<<"ordinal", "event_kind", "time_seconds", "common speed", "speed error",
          "integral before", "filtered before", "common request", "integral after",
          "filtered after">>)
    \o Families(AxleColumns, <<"differential">>)
    \o EachOf(WheelColumns,
         <<"torque", "input", "limit", "flag", "drive memory before", "drive memory after">>)
-----------------------------------------------------------------------------
\* What the contact plan says of an interface and of its patches, by wheel.
LoadedSlots(contact, w) == SelectSeq([p \in 1..Slots |-> p], LAMBDA p : contact[w][p] # 0)

Touching(contact, w, at) ==
  UNION {Reading(Patch(w, p), "touches", at) : p \in ToSet(LoadedSlots(contact, w))}

\* CalcAppliedForcesAndObservations fills the interfaces in the order of the plan.
ContactObservations(contact, at) ==
  [q \in {"support", "normal", "x", "y", "z", "marker station"} |->
     [i \in AllWheels |-> Reading(Wheel(plan.interfaces[i]), q, at)]]
  @@ [patch_count |-> [i \in AllWheels |-> Touching(contact, plan.interfaces[i], at)]]

\* A body in the track frame at the station of a carrier, its own or another.
InTrackFrame(a, carrier, what, at) ==
  Reading(IF a = carrier THEN Axle(a) ELSE <<"axle", a, "seen from", carrier>>, what, at)

\* IrwFullStateControlObservationBinding::Observe: the stations are the hints of the
\* plan's carriers, bodies and joints were found by name.
MechanicalObservation(at) ==
  [station |-> [a \in AllAxles |-> Reading(Axle(plan.carriers[a]), "station", at)],
   lateral |-> [a \in AllAxles |-> InTrackFrame(a, plan.carriers[a], "lateral", at)],
   yaw     |-> [a \in AllAxles |-> InTrackFrame(a, plan.carriers[a], "yaw", at)]]
  @@ [q \in {"frozen rate"} |->
        [w \in AllWheels |-> Minus(Reading(Wheel(w), "joint rate", at))]]

HeldTorques(at) == [i \in AllWheels |-> Reading(Wheel(plan.channels[i]), "torque", at)]

\* A backward difference, and the startup speed for the first sample.
LongitudinalVelocities(stations, at) ==
  [a \in AllAxles |-> IF previous = <<>> THEN Reading(Axle(a), "startup speed", at)
                        ELSE stations[a] \cup Minus(previous[a])]

ExperimentObservationRow(contact, at) ==
  LET mechanical == MechanicalObservation(at)
      contacts   == ContactObservations(contact, at)
  IN  ValuesOfRow(Clock, at)
        \o mechanical.station \o LongitudinalVelocities(mechanical.station, at)
        \o Arrays(mechanical, <<"lateral", "yaw", "frozen rate">>)
        \o HeldTorques(at)
        \o Arrays(contacts, <<"patch_count", "support", "normal">>)
        \o Loop(contacts, <<"x", "y", "z">>)

GuidedObservationRow(contact, at) ==
  LET contacts == ContactObservations(contact, at)
  IN  ValuesOfRow(Clock, at)
        \o Arrays(MechanicalObservation(at), <<"station", "lateral", "yaw">>)
        \o Arrays(contacts, <<"patch_count", "support", "normal">>)
        \o Loop(contacts, <<"x", "y", "z">>)
        \o contacts["marker station"]

PatchValues(w, p, quantities, at) ==
  [i \in DOMAIN quantities |-> Reading(Patch(w, p), quantities[i], at)]

\* The rows of the patches of each interface, in turn.
ExperimentPatchRows(contact, at) ==
  FlattenSeq([i \in AllWheels |->
    LET w == plan.interfaces[i]
        loaded == LoadedSlots(contact, w)
    IN  [n \in DOMAIN loaded |->
           ValuesOfRow(Clock, at)
             \o <<Reading(<<"index", i - 1>>, "wheel_index", at), Reading(Wheel(w), "name", at),
                  Reading(<<"index", n - 1>>, "ordinal", at)>>
             \o PatchValues(w, loaded[n],
                  <<"normal", "longitudinal", "lateral", "longitudinal creepage",
                    "lateral creepage", "angle", "point x", "point y", "point z", "force x",
                    "force y", "force z">>, at)]])

PatchRows(contact, at) ==
  FlattenSeq([i \in AllWheels |->
    LET w == plan.interfaces[i]
        loaded == LoadedSlots(contact, w)
    IN  [n \in DOMAIN loaded |->
           ValuesOfRow(Clock, at)
             \o <<Reading(Wheel(w), "name", at), Reading(<<"index", n - 1>>, "ordinal", at)>>
             \o PatchValues(w, loaded[n],
                  <<"normal", "longitudinal", "lateral", "angle", "point x", "point y",
                    "point z", "force x", "force y", "force z">>, at)]])

\* The left wheel of a carrier, wherever it comes among the placements.
HeadingWheel(carrier) ==
  LET placed == SelectSeq(plan.interfaces, LAMBDA w : carrier = (w + 1) \div 2)
      lefts  == SelectSeq(placed, LAMBDA w : w = Left(carrier))
  IN  IF lefts # <<>> THEN lefts[1] ELSE placed[1]

CarrierObservations(at) ==
  [i \in AllAxles |->
     <<Reading(Axle(plan.carriers[i]), "station", at),
       Reading(Axle(plan.carriers[i]), "lateral", at),
       Reading(Wheel(HeadingWheel(plan.carriers[i])), "axle heading", at)>>]

RepresentativeBodies(at) ==
  [i \in DOMAIN Bodies |->
     <<Reading(Body(Bodies[i]), "station", at), Reading(Body(Bodies[i]), "lateral", at),
       Reading(Body(Bodies[i]), "heading", at)>>]

\* A mutant: the last of the patches that carry most.
PrimarySlotLast(contact, w) ==
  LET loaded == LoadedSlots(contact, w)
  IN  FoldLeft(LAMBDA best, p : IF contact[w][p] >= contact[w][best] THEN p ELSE best,
               loaded[1], loaded)

\* SummarizeInterfaceObservation: the first of the patches that carry most.
PrimarySlot(contact, w) ==
  LET loaded == LoadedSlots(contact, w)
  IN  FoldLeft(LAMBDA best, p : IF contact[w][p] > contact[w][best] THEN p ELSE best,
               loaded[1], loaded)

PrimaryPatch(contact, w, at) ==
  IF LoadedSlots(contact, w) = <<>> THEN <<{}, {}, {}, {}>>
  ELSE PatchValues(w, PrimarySlot(contact, w),
                   <<"ordinal", "normal", "longitudinal", "lateral">>, at)

PassiveObservationRow(contact, at) ==
  LET contacts == ContactObservations(contact, at)
  IN  ValuesOfRow(Clock, at)
        \o FlattenSeq(CarrierObservations(at))
        \o FlattenSeq([i \in AllWheels |->
             <<contacts["marker station"][i], contacts.patch_count[i], contacts.support[i],
               contacts.normal[i], contacts.x[i], contacts.y[i], contacts.z[i]>>
             \o PrimaryPatch(contact, plan.interfaces[i], at)])
        \o FlattenSeq(RepresentativeBodies(at))

SceneScalarValues(contact, at) ==
  FlattenSeq(CarrierObservations(at))
    \o Loop(ContactObservations(contact, at), <<"patch_count", "support", "normal">>)
    \o FlattenSeq(RepresentativeBodies(at))
-----------------------------------------------------------------------------
\* What the solver gives out under a name.  It counts the wheels' rates backwards and
\* support and normal forces as tension; an empty slot is zero.
SolverOutput(name, contact, at) ==
  LET subject == name[1]
      Slot(value) == IF contact[subject[2]][subject[3]] = 0 THEN {} ELSE value
  IN  CASE name[2] = "s"    -> Reading(subject, "station", at)
        [] name[2] = "y"    -> Reading(subject, "lateral", at)
        [] name[2] = "z"    -> Reading(subject, "vertical", at)
        [] name[2] = "w"    -> Minus(Reading(subject, "joint rate", at))
        [] name[2] = "QVertical" -> Minus(Reading(subject, "support", at))
        [] name[2] = "tx"   -> Slot(Reading(subject, "longitudinal", at))
        [] name[2] = "ty"   -> Slot(Reading(subject, "lateral", at))
        [] name[2] = "normal" -> Slot(Minus(Reading(subject, "normal", at)))
        [] OTHER            -> Reading(subject, name[2], at)

AllPatches == FlattenSeq([w \in AllWheels |-> [p \in 1..Slots |-> Patch(w, p)]])

ExpectedOutputNames ==
  LET first == Families(WheelColumns, <<"SpeedDiff">>) \o Families(AxleColumns, <<"y", "yaw">>)
                 \o Families(WheelColumns, <<"w">>) \o Families(AxleColumns, <<"s">>)
                 \o Families(WheelColumns, <<"QVertical">>)
      others == SelectSeq([i \in DOMAIN BodySignals |-> BodySignals[i].output],
                          LAMBDA name : name \notin ToSet(first))
  IN  first \o others \o EachOf(AllPatches, <<"tx", "ty", "normal">>)

\* The outputs the single curve binds.
RequiredOutputNames ==
  EachOf(WheelColumns, <<"w">>) \o EachOf(AllPatches, <<"normal", "tx", "ty">>)
    \o EachOf(AxleColumns, <<"s", "y", "yaw">>)

\* RequireExactNames; and IndexNames with RequireIndex.
ExactNames == Len(listing) = Len(ExpectedOutputNames) /\ ToSet(listing) = ToSet(ExpectedOutputNames)
RequiredNames == IsInjective(listing) /\ ToSet(RequiredOutputNames) \subseteq ToSet(listing)

Indices == [name \in ToSet(listing) |-> Min({i \in DOMAIN listing : listing[i] = name})]

\* What a program reads through its binding at an index.
OutputsAt(contact, at) ==
  LET indices == Indices
  IN  [name \in DOMAIN indices |-> SolverOutput(listing[indices[name]], contact, at)]

OfSlots(outputs, w, suffix) == UNION {outputs[<<Patch(w, p), suffix>>] : p \in 1..Slots}

SingleCurveObservation(contact, at) ==
  LET outputs == OutputsAt(contact, at)
  IN  [station |-> [a \in AllAxles |-> outputs[<<Axle(a), "s">>]],
       lateral |-> [a \in AllAxles |-> outputs[<<Axle(a), "y">>]],
       yaw     |-> [a \in AllAxles |-> outputs[<<Axle(a), "yaw">>]],
       rate    |-> [w \in AllWheels |-> outputs[<<Wheel(w), "w">>]],
       normal  |-> [w \in AllWheels |-> OfSlots(outputs, w, "normal")],
       longitudinal |-> [w \in AllWheels |-> OfSlots(outputs, w, "tx")],
       across  |-> [w \in AllWheels |-> OfSlots(outputs, w, "ty")]]

\* The torques in the order of the wheels, and what the solver is given for a wheel:
\* input i of the solver is that of wheel plan.channels[i].
WheelTorques(at) == [w \in AllWheels |-> Reading(Wheel(w), "torque", at)]
BoundInputs(at) ==
  LET InputIndex(w) == CHOOSE i \in AllWheels : plan.channels[i] = w
  IN  [i \in AllWheels |->
         UNION {WheelTorques(at)[w] : w \in {v \in AllWheels : InputIndex(v) = i}}]

SingleCurveObservationRow(contact, at) ==
  LET observation == SingleCurveObservation(contact, at)
  IN  ValuesOfRow(<<"sample_index", "time_seconds">>, at)
        \o Arrays(observation, <<"station", "lateral", "yaw", "rate">>)
        \o WheelTorques(at)
        \o Arrays(observation, <<"normal", "longitudinal", "across">>)

\* DecodeObservation and ObserveWheelSpeeds of the cruise.
CruiseObservation(contact, at) ==
  LET outputs == OutputsAt(contact, at)
  IN  [bodies  |-> [i \in DOMAIN BodySignals |-> outputs[BodySignals[i].output]],
       raw     |-> [w \in AllWheels |-> outputs[<<Wheel(w), "w">>]],
       forward |-> [w \in AllWheels |-> Times(ForwardSigns[w], Minus(outputs[<<Wheel(w), "w">>]))],
       count   |-> [w \in AllWheels |-> Touching(contact, w, at)],
       support |-> [w \in AllWheels |-> Minus(outputs[<<Wheel(w), "QVertical">>])],
       normal  |-> [w \in AllWheels |-> Minus(OfSlots(outputs, w, "normal"))],
       longitudinal |-> [w \in AllWheels |-> OfSlots(outputs, w, "tx")],
       across  |-> [w \in AllWheels |-> OfSlots(outputs, w, "ty")],
       torque  |-> WheelTorques(at)]

CruiseObservationRow(contact, at) ==
  LET observation == CruiseObservation(contact, at)
  IN  ValuesOfRow(<<"ordinal", "time_seconds">>, at)
        \o <<UNION Range(observation.forward)>>
        \o observation.bodies
        \o Loop(observation, <<"raw", "forward", "count", "support", "normal", "longitudinal",
                               "across", "torque", "torque">>)

CruisePatchRows(contact, at) ==
  LET outputs == OutputsAt(contact, at)
      Forces(w, p) == <<Minus(outputs[<<Patch(w, p), "normal">>]),
                        outputs[<<Patch(w, p), "tx">>], outputs[<<Patch(w, p), "ty">>]>>
      Row1(w, p) == ValuesOfRow(<<"ordinal", "time_seconds">>, at)
                      \o <<Reading(Wheel(w), "name", at),
                           Reading(<<"index", p - 1>>, "ordinal", at)>>
                      \o Forces(w, p)
  IN  FlattenSeq([w \in AllWheels |->
        LET written == SelectSeq([p \in 1..Slots |-> p], LAMBDA p : Forces(w, p) # <<{}, {}, {}>>)
        IN  [n \in DOMAIN written |-> Row1(w, written[n])]])
-----------------------------------------------------------------------------
\* What an event's audit holds, in the order its writer takes it out: axle by axle or
\* wheel by wheel of the recurrence, whose order is that of kAxleNames and kWheelNames.
AuditArrays(subjects, quantities, at) ==
  FlattenSeq([i \in DOMAIN quantities |->
                [j \in DOMAIN subjects |-> Reading(subjects[j], quantities[i], at)]])
OfAxles(quantities, at)  == AuditArrays(AxleColumns, quantities, at)
OfWheels(quantities, at) == AuditArrays(WheelColumns, quantities, at)

\* previous_lateral_displacements, previous_yaw_angles and so on, in the order written.
ControllerStateValues(kind, at) ==
  LET Of(subjects) == [i \in DOMAIN subjects |-> Append(subjects[i], kind)]
  IN  <<Reading(<<"row", kind>>, "initialized", at)>>
        \o AuditArrays(Of(AxleColumns),
             <<"previous_lateral", "previous_yaw", "filtered_lateral_velocity",
               "filtered_yaw_rate", "lateral_integral", "filtered_command">>, at)
        \o AuditArrays(Of(WheelColumns), <<"pi_integral", "pi_filtered_torque">>, at)

ExperimentEventRow(at) ==
  ValuesOfRow(<<"event_kind", "ordinal", "time_seconds">>, at)
    \o Arrays(MechanicalObservation(at), <<"station", "lateral", "yaw", "frozen rate">>)
    \o OfWheels(<<"base reference">>, at)
    \o OfAxles(<<"feedforward", "yaw rate gain", "yaw gain", "velocity gain", "lateral gain",
                 "integral gain", "difference gain">>, at)
    \o OfWheels(<<"reference">>, at)
    \o OfAxles(<<"difference reference", "difference", "equilibrium", "filtered velocity",
                 "filtered yaw rate", "active">>, at)
    \o OfWheels(<<"request", "probe", "probe limit", "prioritized", "torque", "limit", "flag",
                  "drive speed", "drive memory before", "drive memory after">>, at)
    \o ControllerStateValues("before", at) \o ControllerStateValues("after", at)

GuidedEventRow(at) ==
  ValuesOfRow(<<"event_kind", "ordinal", "time_seconds">>, at)
    \o Arrays(MechanicalObservation(at), <<"station", "lateral", "yaw", "frozen rate">>)
    \o OfWheels(<<"request", "base reference", "reference">>, at)
    \o OfAxles(<<"difference reference", "difference", "equilibrium", "filtered velocity",
                 "filtered yaw rate", "active">>, at)
    \o OfWheels(<<"torque", "limit", "flag", "drive speed", "drive memory before",
                  "drive memory after">>, at)
    \o ControllerStateValues("before", at) \o ControllerStateValues("after", at)

SingleCurveEventRow(contact, at) ==
  ValuesOfRow(<<"ordinal", "event_kind", "time_seconds">>, at)
    \o SingleCurveObservation(contact, at).station
    \o OfWheels(<<"base reference", "request", "prioritized", "torque">>, at)

CruiseEventRow(contact, at) ==
  ValuesOfRow(<<"ordinal", "event_kind", "time_seconds">>, at)
    \o <<UNION Range(CruiseObservation(contact, at).forward)>>
    \o ValuesOfRow(<<"speed error", "integral before", "filtered before", "common request",
                     "integral after", "filtered after">>, at)
    \o OfAxles(<<"differential">>, at)
    \o FlattenSeq([w \in AllWheels |->
         [i \in 1..6 |-> Reading(Wheel(w),
            <<"torque", "torque", "limit", "flag", "drive memory before",
              "drive memory after">>[i], at)]])
-----------------------------------------------------------------------------
Header(p, table) ==
  CASE table = "observations" ->
         (CASE p = "experiment"   -> ExperimentObservationHeader
            [] p = "guided"       -> GuidedObservationHeader
            [] p = "passive"      -> PassiveObservationHeader
            [] p = "single curve" -> SingleCurveObservationHeader
            [] p = "cruise"       -> CruiseObservationHeader)
    [] table = "patches" ->
         (CASE p = "experiment" -> ExperimentPatchHeader
            [] p = "cruise"     -> CruisePatchHeader
            [] OTHER            -> PatchHeader)
    [] table = "events" ->
         (CASE p = "experiment"   -> ExperimentEventHeader
            [] p = "guided"       -> GuidedEventHeader
            [] p = "single curve" -> SingleCurveEventHeader
            [] p = "cruise"       -> CruiseEventHeader)
    [] table = "scalars" -> SceneScalarDefinitions

Observed(p, contact, at) ==
  CASE p = "experiment"   -> ExperimentObservationRow(contact, at)
    [] p = "guided"       -> GuidedObservationRow(contact, at)
    [] p = "passive"      -> PassiveObservationRow(contact, at)
    [] p = "single curve" -> SingleCurveObservationRow(contact, at)
    [] p = "cruise"       -> CruiseObservationRow(contact, at)

ObservedPatches(p, contact, at) ==
  CASE p = "experiment"   -> ExperimentPatchRows(contact, at)
    [] p = "cruise"       -> CruisePatchRows(contact, at)
    [] p = "single curve" -> <<>>
    [] OTHER              -> PatchRows(contact, at)

EventRow(p, contact, at) ==
  CASE p = "experiment"   -> ExperimentEventRow(at)
    [] p = "guided"       -> GuidedEventRow(at)
    [] p = "single curve" -> SingleCurveEventRow(contact, at)
    [] p = "cruise"       -> CruiseEventRow(contact, at)

NoRows == [table \in Tables |-> <<>>]

Swapped(order, i, j) == [order EXCEPT ![i] = order[j], ![j] = order[i]]

Neighbours(order) == {Swapped(order, i, i + 1) : i \in 1..Len(order) - 1}

\* A configuration with the closed order, or with two neighbours of an order exchanged.
Plans ==
  {Closed}
    \cup {[Closed EXCEPT !.carriers = order] : order \in Neighbours(AxleOrder)}
    \cup {[Closed EXCEPT !.interfaces = order] : order \in Neighbours(WheelOrder)}
    \cup {[Closed EXCEPT !.channels = order] : order \in Neighbours(WheelOrder)}

\* Models of the solver: its outputs in the order the cruise expects or backwards, one
\* output more, one fewer, or one in the place of another.
Listings ==
  LET names == ExpectedOutputNames
      last  == Len(names)
  IN  {names, Reverse(names), Append(names, <<Row, "extra">>), Tail(names),
       [names EXCEPT ![last] = names[1]], [names EXCEPT ![1] = names[last]]}

UsesSolver(p) == p \in {"single curve", "cruise"}

Init ==
  /\ program \in Programs \ {"single curve"}
  /\ plan \in Plans
  /\ IF UsesSolver(program) THEN listing \in Listings /\ plan.carriers = AxleOrder
                                   /\ plan.interfaces = WheelOrder
       ELSE listing = <<>>
  /\ bound = "no" /\ previous = <<>> /\ sample = 0
  /\ touched = [p \in Programs |-> <<>>]
  /\ files = [p \in Programs |-> NoRows]

\* A mutant: the contact plan is held to the closed order, the torque channels are not.
BindableWithAnyChannels ==
  CASE program \in {"experiment", "guided"} ->
         plan.carriers = AxleOrder /\ plan.interfaces = WheelOrder
    [] program = "passive"      -> TRUE
    [] program = "single curve" -> RequiredNames
    [] program = "cruise"       -> ExactNames

\* ResolveBinding refuses a plan that is not the closed one; BindAbi an unusable solver.
Bindable ==
  CASE program \in {"experiment", "guided"} -> plan = Closed
    [] program = "passive"      -> TRUE
    [] program = "single curve" -> RequiredNames
    [] program = "cruise"       -> ExactNames

Bind ==
  /\ bound = "no"
  /\ bound' = IF Bindable THEN "yes" ELSE "refused"
  /\ UNCHANGED <<program, plan, listing, previous, sample, touched, files>>

\* ObserveAndWrite and its counterparts.
Observe(contact) ==
  LET at == At(program, sample)
  IN  /\ bound = "yes" /\ sample <= Samples
      /\ program = "single curve" => 2 * sample <= Samples
      /\ files' = [files EXCEPT
           ![program].observations = Append(@, Observed(program, contact, at)),
           ![program].patches = @ \o ObservedPatches(program, contact, at),
           ![program].scalars = IF program = "passive"
                                THEN Append(@, SceneScalarValues(contact, at)) ELSE @]
      /\ touched' = [touched EXCEPT ![program] = Append(@, contact)]
      /\ previous' = IF program = "experiment" THEN MechanicalObservation(at).station ELSE previous
      /\ sample' = sample + 1
      /\ UNCHANGED <<program, plan, listing, bound>>

\* WriteControlEvent, of the last sample.
Event ==
  /\ bound = "yes" /\ program # "passive"
  /\ sample > 0 /\ files[program].events = <<>>
  /\ files' = [files EXCEPT ![program].events =
       <<EventRow(program, touched[program][sample], At(program, sample - 1))>>]
  /\ UNCHANGED <<program, plan, listing, bound, previous, sample, touched>>

\* A single curve with the external solver follows, to be compared with the experiment.
StartSingleCurve ==
  /\ program = "experiment" /\ sample > Samples /\ files[program].events # <<>>
  /\ program' = "single curve"
  /\ plan' \in {p \in Plans : p.carriers = AxleOrder /\ p.interfaces = WheelOrder}
  /\ listing' \in Listings
  /\ bound' = "no" /\ previous' = <<>> /\ sample' = 0
  /\ UNCHANGED <<touched, files>>

Next == Bind \/ (\E contact \in Contacts : Observe(contact)) \/ Event \/ StartSingleCurve

Spec == Init /\ [][Next]_vars
-----------------------------------------------------------------------------
\* What a reader finds under the name of a column.
Under(p, table, row, column) ==
  LET header == Header(p, table)
  IN  row[CHOOSE i \in DOMAIN header : header[i] = column]

\* PhysicalObservationContract: a name, and the subject under whose columns it is.  The
\* passive run takes its columns from the name, the guided run from the place.
PassiveContract ==
  {[name |-> c, column |-> c] :
     c \in {Axle(a) : a \in Range(plan.carriers)} \cup {Wheel(w) : w \in Range(plan.interfaces)}}
GuidedContract ==
  {[name |-> Axle(plan.carriers[i]), column |-> Axle(i)] : i \in AllAxles}
    \cup {[name |-> Wheel(plan.interfaces[i]), column |-> Wheel(i)] : i \in AllWheels}
Contract(p) == IF p = "passive" THEN PassiveContract ELSE GuidedContract

\* The patch rows of a sample and of a zero-based wheel index, summed (np.add.at).
Accumulated(k, index, columns) ==
  LET Find(row, column) == Under("experiment", "patches", row, <<Row, column>>)
      mine == {row \in Range(files["experiment"].patches) :
                 /\ Find(row, "sample_index") = Reading(Row, "sample_index", k)
                 /\ Find(row, "wheel_index") = Reading(<<"index", index>>, "wheel_index", k)}
  IN  UNION {Find(row, column) : row \in mine, column \in columns}

\* accumulate_wear_number.
Wear(k, index) ==
  Accumulated(k, index,
    {"longitudinal", "lateral", "longitudinal creepage", "lateral creepage"})
WholeVehicleWear(k) == UNION {Wear(k, index) : index \in 0..2 * Axles - 1}

\* LEFT_WHEELS, and its zero-based form.
LeftWheel(a) == Left(a)
LeftIndex(a) == LeftWheel(a) - 1

\* read_observations, read_orvd, read_simpack: the clock of a table, row by row.
Clocked(p) ==
  \A k \in DOMAIN files[p].observations :
    Under(p, "observations", files[p].observations[k], <<Row, "sample_index">>)
      = Reading(Row, "sample_index", At(p, k - 1))

\* What plot_irw_guidance_experiment_response draws of an axle at a sample.
DrawnResponse(a, k) ==
  LET Of(subject, quantity) ==
        Under("experiment", "observations", files["experiment"].observations[k + 1],
              <<subject, quantity>>)
  IN  [lateral |-> Of(Axle(a), "lateral"), yaw |-> Of(Axle(a), "yaw"),
       torque  |-> Of(Wheel(LeftWheel(a)), "torque"), wear |-> Wear(k, LeftIndex(a))]
DrawnSpeed(a, k) ==
  Under("experiment", "observations", files["experiment"].observations[k + 1], <<Axle(a), "speed">>)

\* simpack_contact_forces: the raw normal output is negative in compression; and a mutant
\* that takes it as it is.
NormalAsRead(sum)     == sum
CompressiveForce(sum) == Minus(sum)

\* read_orvd_contact_forces, every other sample of them, and simpack_contact_forces.
ExperimentForces(a, k) ==
  [N  |-> Accumulated(2 * k, LeftIndex(a), {"normal"}),
   Tx |-> Accumulated(2 * k, LeftIndex(a), {"longitudinal"}),
   Ty |-> Accumulated(2 * k, LeftIndex(a), {"lateral"})]
SingleCurveForces(a, k) ==
  LET Of(quantity) == Under("single curve", "observations",
                            files["single curve"].observations[k + 1],
                            <<Wheel(LeftWheel(a)), quantity>>)
  IN  [N  |-> CompressiveForce(Of("raw normal sum")),
       Tx |-> Of("longitudinal sum"), Ty |-> Of("lateral sum")]

\* What compare_irw_single_curve_simpack_realtime_and_orvd puts side by side: of a
\* program, at a row of the solver's clock.
Compared(p, a, k) ==
  LET row == files[p].observations[IF p = "experiment" THEN 2 * k + 1 ELSE k + 1]
      Of(subject, quantity) == Under(p, "observations", row, <<subject, quantity>>)
  IN  [station |-> Of(Axle(a), "station"), lateral |-> Of(Axle(a), "lateral"),
       yaw |-> Of(Axle(a), "yaw"), torque |-> Of(Wheel(LeftWheel(a)), "torque")]
      @@ (IF p = "experiment" THEN ExperimentForces(a, k) ELSE SingleCurveForces(a, k))

\* comparison_metrics: the two that are subtracted.
Subtracted(a, k) == <<Compared("experiment", a, k), Compared("single curve", a, k)>>

\* compare refuses runs of different lengths, and an odd number of half periods.
Comparable ==
  /\ program = "single curve"
  /\ Clocked("experiment") /\ Clocked("single curve")
  /\ Len(files["experiment"].observations) % 2 = 1
  /\ 2 * Len(files["single curve"].observations) = Len(files["experiment"].observations) + 1
-----------------------------------------------------------------------------
SumOfPatches(contact, w, quantity, at) ==
  UNION {Reading(Patch(w, p), quantity, at) : p \in {q \in 1..Slots : contact[w][q] # 0}}

ForwardRate(w, at) == Times(ForwardSigns[w], Reading(Wheel(w), "joint rate", at))

\* The first slot that carries most.
Primary(contact, w) ==
  CHOOSE p \in 1..Slots :
    \A q \in 1..Slots : contact[w][q] < contact[w][p] \/ (contact[w][q] = contact[w][p] /\ q >= p)

\* What a column says it shows.
Truth(column, contact, at) ==
  LET subject == column[1]
      what    == column[2]
      Sum(quantity) == SumOfPatches(contact, subject[2], quantity, at)
      OfPrimary(quantity) ==
        IF Sum("touches") = {} THEN {}
        ELSE Reading(Patch(subject[2], Primary(contact, subject[2])), quantity, at)
  IN  CASE what = "speed" ->
             IF at = 0 THEN Reading(subject, "startup speed", 0)
             ELSE Reading(subject, "station", at) \cup Minus(Reading(subject, "station", at - 1))
        [] what \in {"frozen rate", "raw rate"} -> Minus(Reading(subject, "joint rate", at))
        [] what = "forward rate" -> ForwardRate(subject[2], at)
        [] what = "common speed" -> UNION {ForwardRate(w, at) : w \in AllWheels}
        [] what \in {"patch_count", "slot count"} -> Sum("touches")
        [] what = "raw normal sum"   -> Minus(Sum("normal"))
        [] what = "normal sum"       -> Sum("normal")
        [] what = "longitudinal sum" -> Sum("longitudinal")
        [] what = "lateral sum"      -> Sum("lateral")
        [] what = "input"            -> Reading(subject, "torque", at)
        [] what = "heading" /\ subject[1] = "axle" ->
             Reading(Wheel(Left(subject[2])), "axle heading", at)
        [] what = "primary ordinal"      -> OfPrimary("ordinal")
        [] what = "primary normal"       -> OfPrimary("normal")
        [] what = "primary longitudinal" -> OfPrimary("longitudinal")
        [] what = "primary lateral"      -> OfPrimary("lateral")
        [] OTHER -> Reading(subject, what, at)

RowTells(header, row, contact, at) ==
  /\ Len(row) = Len(header)
  /\ \A i \in DOMAIN row : row[i] = Truth(header[i], contact, at)

\* What the row of a patch may say: the n-th of a wheel, in a slot.
PatchRowOf(p, header, w, n, slot, at) ==
  [i \in DOMAIN header |->
     LET what == header[i][2]
     IN  CASE what = "interface_name" -> Reading(Wheel(w), "name", at)
           [] what = "wheel_index"    -> Reading(<<"index", w - 1>>, "wheel_index", at)
           [] what = "patch_ordinal"  ->
                Reading(<<"index", (IF p = "cruise" THEN slot ELSE n) - 1>>, "ordinal", at)
           [] what \in Range(Clock) \cup {"ordinal"} -> Reading(Row, what, at)
           [] OTHER -> Reading(Patch(w, slot), what, at)]

Loaded(contact) == {patch \in AllWheels \X (1..Slots) : contact[patch[1]][patch[2]] # 0}

\* The rows of patches of a program are those of the patches that touch, one each.
PatchesTell(p) ==
  LET header == Header(p, "patches")
      Ordinal(contact, patch) ==
        Cardinality({q \in 1..patch[2] : contact[patch[1]][q] # 0})
      RowOf(contact, patch, at) ==
        PatchRowOf(p, header, patch[1], Ordinal(contact, patch), patch[2], at)
      Stated(k) ==
        {RowOf(touched[p][k], patch, At(p, k - 1)) : patch \in Loaded(touched[p][k])}
      rows == files[p].patches
  IN  /\ Range(rows) = UNION {Stated(k) : k \in DOMAIN touched[p]}
      /\ IsInjective(rows)

\* Each row of each table shows, under each name, what the name says: the quantity of
\* that axle, wheel, body or patch at that time with that sign, whatever the order in
\* which the plan, the channels or the solver have them (the header and row writers of
\* the runs, ExpectedOutputNames and BindAbi, SummarizeInterfaceObservation).
TablesTellWhatTheyName ==
  /\ program # "single curve" => PatchesTell(program)
  /\ \A table \in {"observations", "scalars"} :
       files[program][table] # <<>> =>
         LET header == Header(program, table)
         IN  /\ IsInjective(header)
             /\ \A k \in DOMAIN files[program][table] :
                  RowTells(header, files[program][table][k], touched[program][k],
                           At(program, k - 1))
  /\ files[program].events # <<>> =>
       LET header == Header(program, "events")
       IN  /\ IsInjective(header)
           /\ \E k \in DOMAIN touched[program] :
                RowTells(header, files[program].events[1], touched[program][k],
                         At(program, k - 1))

\* Under a column the published contract gives for a carrier or an interface is what is
\* true of that carrier or interface (PhysicalObservationContract).
ContractsHold ==
  program \in {"guided", "passive"} =>
    \A k \in DOMAIN files[program].observations, entry \in Contract(program) :
      \A quantity \in IF entry.name[1] = "axle" THEN {"station", "lateral"}
                      ELSE {"marker station", "patch_count", "support", "normal", "x", "y", "z"} :
        Under(program, "observations", files[program].observations[k], <<entry.column, quantity>>)
          = Truth(<<entry.name, quantity>>, touched[program][k], k - 1)

\* The scripts draw and compare what their labels say, of one wheel and one time, with
\* compression positive on both sides (plot_irw_guidance_experiment_response,
\* compare_irw_single_curve_simpack_realtime_and_orvd).
ScriptsShowWhatTheySay ==
  LET Shown(a, at, contact) ==
        [station |-> Reading(Axle(a), "station", at), lateral |-> Reading(Axle(a), "lateral", at),
         yaw |-> Reading(Axle(a), "yaw", at), torque |-> Reading(Wheel(Left(a)), "torque", at),
         N  |-> SumOfPatches(contact, Left(a), "normal", at),
         Tx |-> SumOfPatches(contact, Left(a), "longitudinal", at),
         Ty |-> SumOfPatches(contact, Left(a), "lateral", at)]
  IN  \A a \in Drawn :
        /\ program = "experiment" => \A k \in DOMAIN files["experiment"].observations :
             LET contact == touched["experiment"][k]
                 WearOf(w) == UNION {SumOfPatches(contact, w, quantity, k - 1) :
                   quantity \in {"longitudinal", "lateral", "longitudinal creepage",
                                 "lateral creepage"}}
             IN  /\ DrawnResponse(a, k - 1) =
                      [lateral |-> Reading(Axle(a), "lateral", k - 1),
                       yaw     |-> Reading(Axle(a), "yaw", k - 1),
                       torque  |-> Reading(Wheel(Left(a)), "torque", k - 1),
                       wear    |-> WearOf(Left(a))]
                 /\ DrawnSpeed(a, k - 1) = Truth(<<Axle(a), "speed">>, contact, k - 1)
                 /\ WholeVehicleWear(k - 1) = UNION {WearOf(w) : w \in AllWheels}
        /\ Comparable =>
             \A k \in 0..Len(files["single curve"].observations) - 1 :
               Subtracted(a, k) = <<Shown(a, 2 * k, touched["experiment"][2 * k + 1]),
                                    Shown(a, 2 * k, touched["single curve"][k + 1])>>

\* Each input of the solver is driven with the torque of the wheel it belongs to
\* (BindInputs).
InputsDriveTheirWheels ==
  (UsesSolver(program) /\ bound = "yes") =>
    \A i \in AllWheels : BoundInputs(0)[i] = Reading(Wheel(plan.channels[i]), "torque", 0)
=============================================================================
