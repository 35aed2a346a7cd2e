--------------------------- MODULE StartupAssembly ---------------------------
(***************************************************************************)
(* AssembleGz18ContactScenario, AssembleIrwContactScenario and the calls   *)
(* they are made of: a vehicle definition and a start-up state somebody    *)
(* resolved for it become a system and a context that holds that state.    *)
(*                                                                         *)
(* The two documents name the same bodies, joints and force elements, in   *)
(* any order.  The slots of the context are laid out by the multibody      *)
(* model, whose arrangement of the coordinates neither document knows.     *)
(* A slot no statement reaches keeps a default that nothing questions, so  *)
(* every check below is about names.                                       *)
(*                                                                         *)
(* Numbers are small integers; Fine stands for all a number by itself has  *)
(* to satisfy (finite, positive, of unit norm).  Where a pose is on the    *)
(* line is left out: a body's coordinates are what was stated and where.   *)
(***************************************************************************)
EXTENDS Integers, Sequences, SequencesExt, FiniteSetsExt

CONSTANTS
  Vehicles,      \* the definitions: see Vehicle in the assumption
  Records,       \* the resolved states
  Arrangements,  \* the orders in which a model lays its coordinates out
  Gravities,     \* what a system without contact is assembled under
  Ways,          \* the programs' ways to assemble
  Carriers,      \* the carriers of the IRW vehicle, as many as GZ18 has
  Interfaces,    \* its interfaces: sequence of [joint, carrier, wheel]
  Profiles,      \* the profiles and the strategy the contact is closed over
  Reference,     \* vehicle_layout_reference_track_station_meters
  Default        \* what a slot of a new context holds

Coordinates == {"free body", "revolute", "ball"}
Families == Coordinates \cup {"wheel pair", "series", "spring"}

\* Whole-model coordinates of an element of a family.
Positions == [f \in Coordinates |-> IF f = "free body" THEN 7 ELSE IF f = "revolute" THEN 1 ELSE 3]
Velocities == [f \in Coordinates |-> IF f = "free body" THEN 6 ELSE IF f = "revolute" THEN 1 ELSE 3]

\* The statement a record makes of an element.
Entry == [name : STRING, fine : BOOLEAN, spins : Int, offset : Int, value : Int]

AssemblyAssumption ==
  /\ Ways \subseteq {"GZ18", "IRW", "another line", "no contact"}
  /\ \A v \in Vehicles :
       /\ {"bodies", "frames", "ends", "offsets", "reference", "joints", "ball"} \subseteq DOMAIN v
       /\ {v.pairs, v.series, v.spring} \subseteq Seq(STRING)
  /\ \A r \in Records :
       /\ {"gravity", "speed", "radius", "profiles"} \subseteq DOMAIN r
       /\ \A f \in Families : r[f] \in Seq(Entry)
  /\ \A a \in Arrangements : a \in Seq(Coordinates \X STRING) /\ IsInjective(a)
  /\ Carriers \in Seq(STRING) /\ IsInjective(Carriers)

VARIABLES
  way, vehicle, record, gravity,  \* what the program was given
  stage,        \* the next step, or "published" or "refused"
  reason,       \* of the refusal
  arrangement,  \* the model's
  anchors,      \* the contact plan's: carrier -> initial_projection_station_meters
  station,      \* station_of_body
  state, nominal, placements   \* the published context and what comes beside it

given == <<way, vehicle, record, gravity>>
system == <<arrangement, anchors>>
context == <<state, nominal, placements>>
vars == <<given, stage, reason, system, station, context>>

Unset == [n \in {} |-> Default]

Init ==
  /\ way \in Ways /\ vehicle \in Vehicles /\ record \in Records
  /\ gravity \in IF way = "no contact" THEN Gravities ELSE {record.gravity}
  /\ stage = "load" /\ reason = "none"
  /\ arrangement = <<>> /\ anchors = Unset /\ station = Unset
  /\ state = <<>> /\ nominal = Unset /\ placements = Unset

Refuse(why) ==
  /\ stage' = "refused" /\ reason' = why
  /\ UNCHANGED <<given, system, station, context>>

NamesOf(entries) == [i \in DOMAIN entries |-> entries[i].name]
Stated(family) == NamesOf(record[family])

\* The entry of a sequence without repetitions.
Of(entries, name) == entries[CHOOSE i \in DOMAIN entries : entries[i].name = name]

(***************************************************************************)
(* The documents by themselves                                             *)
(***************************************************************************)

FreeBodies == {vehicle.bodies[i].name : i \in {j \in DOMAIN vehicle.bodies : vehicle.bodies[j].free}}

Placed == ToSet(NamesOf(vehicle.offsets))

\* RequireVehicleMechanicalTrackStationLayoutInvariants.
LayoutHolds ==
  /\ Placed = FreeBodies /\ IsInjective(NamesOf(vehicle.offsets))
  /\ vehicle.reference \in Placed /\ Of(vehicle.offsets, vehicle.reference).offset = 0
  /\ ToSet(vehicle.pairs) \subseteq Placed /\ IsInjective(vehicle.pairs)

\* LoadVehicleDefinitionFromJsonFile after the shape of the document: what a
\* frame, a joint or a force element names is declared, and all force elements
\* have one namespace.
Declared ==
  /\ \A i \in DOMAIN vehicle.frames : vehicle.frames[i].body \in ToSet(NamesOf(vehicle.bodies))
  /\ vehicle.ends \subseteq ToSet(NamesOf(vehicle.bodies)) \cup ToSet(NamesOf(vehicle.frames))
  /\ IsInjective(vehicle.series \o vehicle.spring)

\* A slip Sound does not make: only coordinates have to be named once.
SoundCoordinates(family) ==
  /\ \A i \in DOMAIN record[family] :
       /\ record[family][i].fine
       /\ record[family][i].spins # 0 => record.radius # 0
  /\ family \in Coordinates => IsInjective(Stated(family))

\* RequireResolvedStartupStateInvariants, of one family: the spin common to all
\* wheels is used only by a record that generates it, with a radius.
Sound(family) ==
  /\ \A i \in DOMAIN record[family] :
       /\ record[family][i].fine
       /\ record[family][i].spins # 0 => record.radius # 0
  /\ IsInjective(Stated(family))

Load ==
  /\ stage = "load"
  /\ \/ ~(LayoutHolds /\ Declared) /\ Refuse("vehicle")
     \/ LayoutHolds /\ Declared /\ (\E f \in Families : ~Sound(f)) /\ Refuse("record")
     \/ /\ LayoutHolds /\ Declared /\ \A f \in Families : Sound(f)
        /\ stage' = "topology"
        /\ UNCHANGED <<given, reason, system, station, context>>

(***************************************************************************)
(* The system                                                              *)
(***************************************************************************)

\* RequireIrwMechanicalTopology.
IsIrw ==
  /\ Len(vehicle.pairs) = Len(Carriers) /\ ToSet(Carriers) \subseteq ToSet(vehicle.pairs)
  /\ Len(vehicle.joints) = Len(Interfaces) /\ IsInjective(NamesOf(vehicle.joints))
  /\ \A i \in DOMAIN Interfaces :
       /\ Interfaces[i].joint \in ToSet(NamesOf(vehicle.joints))
       /\ LET j == Of(vehicle.joints, Interfaces[i].joint)
          IN  j.parent = Interfaces[i].carrier /\ j.child = Interfaces[i].wheel /\ j.along_y

\* Each topology has its own list of carriers, but all are placed alike.
Carried == IF way = "IRW" THEN Carriers ELSE vehicle.pairs

\* MakeCarrier: its station, from the mechanical layout and the record.
Anchor(name) ==
  Reference + Of(vehicle.offsets, name).offset + Of(record["free body"], name).offset

Contact == way # "no contact"

\* BuildGz18ContactTopology and BuildIrwContactTopology.
Topology ==
  /\ stage = "topology"
  /\ LET fits == /\ way = "IRW" => IsIrw
                 /\ way = "GZ18" => Len(vehicle.pairs) = Len(Carriers)
                 /\ Contact => ToSet(Carried) \subseteq Placed \cap ToSet(Stated("free body"))
     IN  \/ ~fits /\ Refuse("topology")
         \/ /\ fits
            /\ anchors' = IF Contact THEN [c \in ToSet(Carried) |-> Anchor(c)] ELSE anchors
            /\ stage' = "contact"
            /\ UNCHANGED <<given, reason, arrangement, station, context>>

\* AssembleBoundWheelRailContact: the contact is closed over its profiles.
BindContact ==
  /\ stage = "contact"
  /\ \/ Contact /\ record.profiles # Profiles /\ Refuse("profiles")
     \/ /\ Contact => record.profiles = Profiles
        /\ stage' = "model"
        /\ UNCHANGED <<given, reason, system, station, context>>

\* The elements with coordinates, as the vehicle names them (CaptureBinding).
Expected(family) ==
  CASE family = "wheel pair" -> ToSet(vehicle.pairs)
    [] family = "free body"  -> Placed
    [] family = "revolute"   -> ToSet(NamesOf(vehicle.joints))
    [] family = "ball"       -> ToSet(vehicle.ball)
    [] family = "series"     -> ToSet(vehicle.series)
    [] family = "spring"     -> ToSet(vehicle.spring)

Elements == UNION {{<<f, n>> : n \in Expected(f)} : f \in Coordinates}

\* AssembleVehicleMultibodyModel, BuildVehicleForcePlan and SystemInstance: the
\* model refuses names that are taken and lays out what has coordinates as it likes.
BuildModel ==
  /\ stage = "model"
  /\ LET joints == NamesOf(vehicle.joints) \o vehicle.ball
         unique == /\ IsInjective(NamesOf(vehicle.bodies) \o NamesOf(vehicle.frames))
                   /\ IsInjective(joints)
     IN  \/ ~unique /\ Refuse("model")
         \/ /\ unique
            /\ \E a \in Arrangements : ToSet(a) = Elements /\ arrangement' = a
            /\ stage' = "identity"
            /\ UNCHANGED <<given, reason, anchors, station, context>>

(***************************************************************************)
(* AssembleResolvedInitialContext                                          *)
(***************************************************************************)

Identity ==
  /\ stage = "identity"
  /\ \/ way = "another line" /\ Refuse("line")
     \/ way # "another line" /\ record.vehicle # vehicle.name /\ Refuse("identity")
     \/ way # "another line" /\ record.vehicle = vehicle.name /\ record.gravity # gravity
          /\ Refuse("gravity")
     \/ /\ way # "another line" /\ record.vehicle = vehicle.name /\ record.gravity = gravity
        /\ stage' = "names"
        /\ UNCHANGED <<given, reason, system, station, context>>

\* A slip SameNames does not make: nothing unknown is stated, but all need not be.
KnownNames(family) == ToSet(Stated(family)) \subseteq Expected(family)

\* RequireSameNames: as sets, for Sound has seen to repetitions.
SameNames(family) == ToSet(Stated(family)) = Expected(family)

\* All and only the names of every family, and where each body will be.
Names ==
  /\ stage = "names"
  /\ \/ (\E f \in Families : ~SameNames(f)) /\ Refuse("names")
     \/ /\ \A f \in Families : SameNames(f)
        /\ station' = [b \in ToSet(Stated("free body")) |-> Anchor(b)]
        /\ stage' = "cover"
        /\ UNCHANGED <<given, reason, system, context>>

\* What the elements before the i-th have, by sizes; the place of an element.
Before(sizes, i) ==
  LET before[k \in 1..Len(arrangement) + 1] ==
        IF k = 1 THEN 0 ELSE before[k - 1] + sizes[arrangement[k - 1][1]]
  IN  before[i]
Index(f, n) == CHOOSE i \in DOMAIN arrangement : arrangement[i] = <<f, n>>
Slots(sizes, f, n) == Before(sizes, Index(f, n)) + 1..Before(sizes, Index(f, n)) + sizes[f]
Total(sizes) == Before(sizes, Len(arrangement) + 1)

\* RequireExactCover of the claims <<name, range>> of the statements.
ExactCover(claims, total) ==
  \A i \in 1..total : Cardinality({k \in DOMAIN claims : i \in claims[k][2]}) = 1

ClaimsOf(sizes, f) == [i \in DOMAIN record[f] |-> <<Stated(f)[i], Slots(sizes, f, Stated(f)[i])>>]
Claims(sizes) == ClaimsOf(sizes, "free body") \o ClaimsOf(sizes, "revolute") \o ClaimsOf(sizes, "ball")

\* FindSeriesSpringViscousDamperOrdinal.
Ordinal(n) == CHOOSE i \in DOMAIN vehicle.series : vehicle.series[i] = n

Cover ==
  /\ stage = "cover"
  /\ LET covered == /\ ExactCover(Claims(Positions), Total(Positions))
                    /\ ExactCover(Claims(Velocities), Total(Velocities))
                    /\ ExactCover([i \in DOMAIN record.series |->
                                     <<Stated("series")[i], {Ordinal(Stated("series")[i])}>>],
                                  Len(vehicle.series))
     IN  \/ ~covered /\ Refuse("cover")
         \/ /\ covered /\ stage' = "write"
            /\ UNCHANGED <<given, reason, system, station, context>>

\* common_wheel_spin_magnitude.
Spin == IF record.radius = 0 THEN 0 ELSE record.speed \div record.radius

\* What the statement of an element puts into its k-th position and velocity.
Position(f, e, k) == <<e.name, k, IF f = "free body" THEN station[e.name] ELSE e.value>>
Velocity(f, e, k) == <<e.name, k, e.value + e.spins * Spin>>

\* The k-th of the slots some element claims, filled by its statement.
Filled(sizes, content(_, _, _)) ==
  [i \in 1..Total(sizes) |->
     LET f == CHOOSE g \in Coordinates :
                \E k \in DOMAIN record[g] : i \in Slots(sizes, g, record[g][k].name)
         e == record[f][CHOOSE k \in DOMAIN record[f] : i \in Slots(sizes, f, record[f][k].name)]
     IN  content(f, e, i - Before(sizes, Index(f, e.name)))]

\* The last entry that names n.
LastOf(entries, n) == entries[Max({i \in DOMAIN entries : entries[i].name = n})]

\* The whole state in one transaction, then the nominal forces, and the placements.
Write ==
  /\ stage = "write"
  /\ state' = Filled(Positions, Position) \o Filled(Velocities, Velocity) \o
              [i \in DOMAIN vehicle.series |->
                 LastOf(record.series, vehicle.series[i]).value]
  /\ nominal' = [n \in ToSet(vehicle.spring) |->
                   IF n \in ToSet(Stated("spring")) THEN LastOf(record.spring, n).value ELSE Default]
  /\ placements' = [b \in ToSet(Stated("wheel pair")) |->
                      [station |-> station[b], support |-> Of(record["wheel pair"], b).value]]
  /\ stage' = "anchors"
  /\ UNCHANGED <<given, reason, system, station>>

\* RequireAnchorsMatchResolvedPlacements; only a scenario compares.
Publish ==
  /\ stage = "anchors"
  /\ LET same == DOMAIN anchors = DOMAIN placements /\
                 \A c \in DOMAIN anchors : anchors[c] = placements[c].station
     IN  \/ Contact /\ ~same /\ Refuse("anchors")
         \/ /\ Contact => same
            /\ stage' = "published"
            /\ UNCHANGED <<given, reason, system, station, context>>

Next ==
  Load \/ Topology \/ BindContact \/ BuildModel \/ Identity \/ Names \/ Cover \/ Write \/ Publish

Spec == Init /\ [][Next]_vars
-----------------------------------------------------------------------------
\* The statement a record makes of an element is one.
Statement(f, n) == CHOOSE e \in ToSet(record[f]) : e.name = n

\* A context is published only if its record states every element of the vehicle
\* once, and then every slot holds that statement, wherever the model arranged the
\* element; the two structural checks (cover, anchors) never refuse, for the names
\* have decided.  (AssembleResolvedInitialContext, RequireExactCover.)
ContextIsTheRecord ==
  /\ reason \notin {"cover", "anchors"}
  /\ stage = "published" =>
       /\ \A f \in Families :
            Len(record[f]) = Cardinality(Expected(f)) /\ ToSet(Stated(f)) = Expected(f)
       /\ \A f \in Coordinates : \A n \in Expected(f) :
            LET e == Statement(f, n)
                stands == Reference + Of(vehicle.offsets, n).offset + e.offset
            IN  /\ \A k \in 1..Positions[f] :
                     state[Before(Positions, Index(f, n)) + k] =
                       <<n, k, IF f = "free body" THEN stands ELSE e.value>>
                /\ \A k \in 1..Velocities[f] :
                     state[Total(Positions) + Before(Velocities, Index(f, n)) + k] =
                       <<n, k, e.value + e.spins * Spin>>
                /\ f = "free body" /\ n \in DOMAIN placements => placements[n].station = stands
       /\ \A i \in DOMAIN vehicle.series :
            state[Total(Positions) + Total(Velocities) + i] =
              Statement("series", vehicle.series[i]).value
       /\ \A n \in Expected("spring") : \A e \in ToSet(record.spring) :
            e.name = n => nominal[n] = e.value
       /\ Contact => DOMAIN anchors = Expected("wheel pair")
=============================================================================
