---------------------------- MODULE MCEvaluations ----------------------------
(***************************************************************************)
(* What an evaluation of the right-hand side reuses, side by side: the     *)
(* contexts of the threads that compute a Jacobian, the workspace of a     *)
(* contact force plan, that of one wheel's contact geometry, the search    *)
(* for a patch's length, and the buffer of the wrenches on the bodies.     *)
(* One of them is at work.                                                 *)
(*                                                                         *)
(* Two threads, and a position and a velocity that the wheel moves with,   *)
(* and a component of another body.  Two carriers with a wheel each; from  *)
(* one hint, one state is lost and one has no kinematics.  Two models with *)
(* bins of different width, one of which sees nothing of the second pose.  *)
(* A front and a rear body, which is turned against it by none, by half a  *)
(* turn about each axis, by a pitch to either side and by a quarter turn   *)
(* of pitch, and a wheel.                                                  *)
(***************************************************************************)
EXTENDS JacobianWorkers, Integers, TLC

MCPositions == {1}
MCFeels == <<{1, 2}>>

CONSTANTS
    \* see ContactForcePlan
    Carriers, Wheeled, CarrierOf, State, Hint, NotFinite, Lost, MaxWorkers, Nothing, NoValue,
    running, leaving, near, far,
    \* see ContactGeometry
    Outlines, RailNodes, Rail, BinWidth, Bins, Model, Pose, Epsilon, MergeTolerance,
    GridStations, MaxIslands, MaxPatches, Generations,
    Speeds, narrow, wide, upright, rolled,
    \* see LongitudinalLength
    Circles, Stations, Limit, Screening, MaxBisections, Resolution,
    \* see ForceElements
    Contact, MaxCalls, NoName, HalfTurn, Refused

MCCarrierOf == <<1, 2>>

MCStation ==
    [s \in State |-> [c \in 1..Carriers |-> [h \in Hint |->
        IF h = near THEN 1 ELSE IF s = leaving /\ c = 2 THEN Lost ELSE 2]]]

\* From the first station, the states move the first wheel alike.
MCInput ==
    [s \in State |-> [i \in 1..Wheeled |-> [x \in 1..2 |->
        <<i, x, IF i = 1 /\ x = 1 THEN running ELSE s>>]]]

MCFate ==
    [input \in {MCInput[s][i][x] : s \in State, i \in 1..Wheeled, x \in 1..2} |->
        CASE input = <<1, 2, running>> -> "unplaced"
          [] input = <<1, 2, leaving>> -> "refused"
          [] input = <<2, 1, leaving>> -> "not finite"
          [] OTHER -> "fine"]

MCUnusable == {<<running, 2, 2>>}

MCRailNodes == (narrow :> {0, 2, 4, 6}) @@ (wide :> {1, 3, 6})
MCRail == [m \in Model |-> [x \in 0..6 |-> IF x \in {1, 2, 5} THEN 1 ELSE 0]]
MCBinWidth == (narrow :> 1) @@ (wide :> 2)
MCBins == (narrow :> 7) @@ (wide :> 4)

Outline(at, height) ==
    [i \in 1..5 |-> IF height[i] \in Int THEN [at |-> at[i], height |-> height[i]] ELSE NotFinite]

Heights == {<<-1, g[1], g[2], g[3], 1>> : g \in [1..3 -> 0..2]}

\* A second outline in which the middle of the wheel folds over itself.
MCOutlines ==
    {[m \in Model |->
        (upright :> Outline(at, height)) @@
        (rolled :> IF m = narrow
                     THEN [Outline(<<6, 4, 3, 2, 0>>, <<1, 0, 2, 0, 2>>) EXCEPT ![2] = NotFinite]
                     ELSE [i \in 1..5 |-> NotFinite])] :
       at \in {<<0, 1, 3, 5, 6>>, <<0, 3, 2, 4, 6>>}, height \in Heights}

\* Circles that leave the rail once, that come back, and some without a value.
Within(S, lacking) ==
    [x \in 1..Limit |-> IF x \in lacking THEN "no number"
                        ELSE IF x \in S THEN "inside" ELSE "outside"]

MCSides ==
    {Within(1..k, {}) : k \in 0..Limit} \cup {Within((1..Limit) \ {k}, {}) : k \in 1..6} \cup
    {Within(1..3, {4}), Within(1..7, {6, 8}), Within(1..5, {2})}

MCCircles ==
    [radius : 0..2, step : {1, 3, Limit + 1}, silhouette : {"inside"},
     behind : MCSides, ahead : MCSides] \cup
    [radius : {2}, step : {1}, silhouette : {"outside"},
     behind : {Within({}, {})}, ahead : {Within({}, {})}]

-----------------------------------------------------------------------------
Rotation(of, x, y, z) == [rows |-> <<x, y, z>>, of |-> of]

Straight == Rotation(1, <<1, 0, 0>>, <<0, 1, 0>>, <<0, 0, 1>>)
QuarterX == Rotation(1, <<1, 0, 0>>, <<0, 0, -1>>, <<0, 1, 0>>)
QuarterY == Rotation(1, <<0, 0, 1>>, <<0, 1, 0>>, <<-1, 0, 0>>)
QuarterZ == Rotation(1, <<0, -1, 0>>, <<1, 0, 0>>, <<0, 0, 1>>)
Pitched(of, c, s) == Rotation(of, <<c, 0, s>>, <<0, of, 0>>, <<-s, 0, c>>)

MCHalves == {Straight, QuarterX, QuarterY, QuarterZ, Pitched(5, 4, 3), Pitched(5, 4, -3)}
MCPitchOf == (0 :> 0) @@ (24 :> 1) @@ (-24 :> -1)

MCFrames ==
    ("front end" :> [body |-> "front", at |-> <<50, 0, 0>>, turned |-> Straight]) @@
    ("rear end" :> [body |-> "rear", at |-> <<0, 50, 0>>, turned |-> Straight]) @@
    ("front mark" :> [body |-> "front", at |-> <<0, 50, 100>>, turned |-> QuarterZ]) @@
    ("rear mark" :> [body |-> "rear", at |-> <<0, -50, 0>>, turned |-> QuarterX])

Element(law, name, reference, opposite) ==
    [law |-> law, name |-> name, reference |-> reference, opposite |-> opposite]

Spring == [stiffness |-> <<2, 1, 3>>, damping |-> <<1, 2, 0>>] @@
          Element("translational", "spring", "front mark", "rear mark")
Even   == [stiffness |-> <<2, 2, 2>>, damping |-> <<1, 1, 1>>] @@
          Element("translational", "back", "rear mark", "front end")
Roll   == [stiffness |-> 5, damping |-> 1] @@
          Element("roll couple", "roll", "front end", "rear end")
Series == [axis |-> 2, stiffness |-> 4, damping |-> 2] @@
          Element("series", "yaw", "front end", "rear mark")
Damper == [axis |-> 1, curve |-> <<[speed |-> 0, force |-> 0], [speed |-> 100, force |-> 8],
                                   [speed |-> 200, force |-> 4]>>] @@
          Element("saturated", "damper", "front mark", "rear end")
Bush   == [stiffness |-> <<1, 2, 3>>, damping |-> <<2, 0, 1>>,
           turning |-> [stiffness |-> <<7, 14, 7>>, damping |-> <<14, 7, 0>>]] @@
          Element("bushing", "bush", "front end", "rear end")

DriveOf(name, wheel, frame) ==
    [name |-> name, provider |-> "rear", wheel |-> wheel, frame |-> frame]

MCCollections ==
    LET whole == [suspension |-> <<Spring, Even, Roll, Series, Damper, Bush>>,
                  drives |-> <<DriveOf("left", "wheel", "front")>>]
        soft  == [suspension |-> <<[Spring EXCEPT !.damping = <<0, 0, 0>>],
                                   [Bush EXCEPT !.damping = <<0, 0, 0>>]>>,
                  drives |-> <<DriveOf("left", "wheel", "front"), DriveOf("right", "front", "wheel")>>]
    IN  {whole, soft,
         [whole EXCEPT !.suspension[3].name = "damper"],
         [whole EXCEPT !.suspension[1].opposite = "front end"],
         [whole EXCEPT !.suspension[5].curve[1].force = 1],
         [whole EXCEPT !.suspension[6].turning.damping[3] = -1],
         [soft EXCEPT !.drives[2].wheel = "wheel"]}

MCTurns ==
    {Straight, Rotation(1, <<1, 0, 0>>, <<0, -1, 0>>, <<0, 0, -1>>),
     Rotation(1, <<-1, 0, 0>>, <<0, 1, 0>>, <<0, 0, -1>>),
     Rotation(1, <<-1, 0, 0>>, <<0, -1, 0>>, <<0, 0, 1>>),
     Pitched(25, 7, 24), Pitched(25, 7, -24), QuarterY}

\* A quarter turn about the vertical after a rotation.
Around(R) == [R EXCEPT !.rows = << [i \in 1..3 |-> -R.rows[2][i]], R.rows[1], R.rows[3]>>]

Motion(front, rear, v, w) ==
    ("front" :> [at |-> <<100, 0, 0>>, turned |-> front, velocity |-> <<v, 0, 25>>,
                 spin |-> <<0, w, 7>>]) @@
    ("rear" :> [at |-> <<250, 50, 100>>, turned |-> rear, velocity |-> <<25, -50, 0>>,
                spin |-> <<7, 0, -7>>]) @@
    ("wheel" :> [at |-> <<0, 0, 50>>, turned |-> QuarterX, velocity |-> <<0, 25, 0>>,
                 spin |-> <<0, 14, 0>>])

Reads(motion, x) ==
    [motion |-> motion, fits |-> TRUE,
     nominal |-> ("spring" :> <<10 * x, 3, -20>>) @@ ("back" :> <<0, 0, 0>>),
     series |-> ("yaw" :> x - 3), torque |-> ("left" :> x) @@ ("right" :> -2)]

MCInputs ==
    LET motions == {Motion(Straight, r, v, w) : r \in MCTurns, v \in {0, 50}, w \in {0, 7}} \cup
                   {Motion(QuarterZ, Around(r), v, w) : r \in MCTurns, v \in {0, 50}, w \in {0, 7}}
        some == Motion(Straight, Straight, 0, 0)
    IN  {Reads(motion, motion["front"].velocity[1] + 1) : motion \in motions} \cup
        {[Reads(some, 2) EXCEPT !.fits = FALSE], [Reads(some, 2) EXCEPT !.torque["left"] = NotFinite]}

VARIABLES
    atWork,
    question, answer, team_size, left, stations, kept, wrenches, observations, thrown,
    outline, bins, generation, solved, asked, patches,
    order, deepest, longest, taken, best,
    plan, calls, call, step, buffer, rates, handed

planVars == <<question, answer, team_size, left, stations, kept, wrenches, observations, thrown>>
geometryVars == <<outline, bins, generation, solved, asked, patches>>
lengthVars == <<order, deepest, longest, taken, best>>
elementVars == <<plan, calls, call, step, buffer, rates, handed>>

Plan == INSTANCE ContactForcePlan WITH
    Interfaces <- Wheeled, None <- NoValue, workers <- team_size, failures <- thrown,
    Projection <- MCStation, Input <- MCInput, Fate <- MCFate, Unusable <- MCUnusable

Geometry == INSTANCE ContactGeometry WITH
    None <- NoValue, Stations <- GridStations, answer <- patches

Length == INSTANCE LongitudinalLength

Elements == INSTANCE ForceElements WITH
    None <- NoValue, Collections <- MCCollections, Frames <- MCFrames, Halves <- MCHalves,
    PitchOf <- MCPitchOf, Inputs <- MCInputs

ASSUME EvaluationAssumptions ==
    Plan!PlanAssumption /\ Geometry!GeometryAssumption /\ Length!LengthAssumption

MCInit ==
    /\ atWork \in {"columns", "plan", "geometry", "length", "elements"}
    /\ Init /\ Plan!Init /\ Geometry!Init /\ Length!Init /\ Elements!Init
    /\ atWork # "columns" =>
         <<source.hints, source.held, batch.state>> =
           CHOOSE x \in Hints \X Inputs \X States : TRUE
    /\ atWork # "geometry" => outline = CHOOSE o \in Outlines : TRUE
    /\ atWork # "length" => deepest = 0

MCNext ==
    /\ UNCHANGED atWork
    /\ \/ atWork = "columns" /\ Next /\ UNCHANGED <<planVars, geometryVars, lengthVars, elementVars>>
       \/ atWork = "plan" /\ Plan!Next /\ UNCHANGED <<vars, geometryVars, lengthVars, elementVars>>
       \/ atWork = "geometry" /\ Geometry!Next /\ UNCHANGED <<vars, planVars, lengthVars, elementVars>>
       \/ atWork = "length" /\ Length!Next /\ UNCHANGED <<vars, planVars, geometryVars, elementVars>>
       \/ atWork = "elements" /\ Elements!Next
          /\ UNCHANGED <<vars, planVars, geometryVars, lengthVars>>

MCSpec ==
    /\ MCInit /\ [][MCNext]_<<atWork, vars, planVars, geometryVars, lengthVars, elementVars>>
    /\ WF_planVars(atWork = "plan" /\ Plan!Step)
-----------------------------------------------------------------------------
\* A call of the contact force plan is answered, whole and for itself alone; see
\* ContactForcePlan.
ImplementsForces == Plan!ImplementsForces

\* An evaluation finds the patches of its pose, and screening loses no patch's
\* length; see ContactGeometry and LongitudinalLength.
GeometryIsOfThePose == Geometry!PatchesAreOfThePose /\ Length!ScreeningChangesNothing

\* The wrenches handed on balance and do the work of their laws; see ForceElements.
PairsDoTheWorkOfTheirLaws == Elements!PairsDoTheWorkOfTheirLaws
=============================================================================
