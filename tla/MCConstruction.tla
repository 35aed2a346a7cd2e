---------------------------- MODULE MCConstruction ----------------------------
(***************************************************************************)
(* What is built before anything moves, and the advance of what is built,  *)
(* side by side: a multibody model out of bodies and joints, a line out of *)
(* its document, a system and its first context out of a vehicle           *)
(* definition and a resolved start-up state, the product's sources out of  *)
(* those of the library, and the advancer of a system.  One is at work.    *)
(*                                                                         *)
(* A state of the advancer is who installed it and, for each unit of time, *)
(* the context-local data it was integrated under, so two states are equal *)
(* only when they have the same history.                                   *)
(*                                                                         *)
(* Bodies whose names are taken in any order, and joints of which two are  *)
(* called what Finalize would call that of the first body.  Two carriers   *)
(* and a wheel, in definitions and states that lack a name, have one too   *)
(* many, repeat one or confuse two.  Four files that include and implement *)
(* one another, the first of them a candidate, under ledgers that say      *)
(* anything of the others.  Lines of which one family is declared as three *)
(* segments out of five, with windows that fit, meet, overlap or reach too *)
(* far.                                                                    *)
(***************************************************************************)
EXTENDS SystemAdvancer, Sequences, FiniteSets, TLC

CONSTANTS
  Origin, Nobody, Nothing,                        \* see MCState
  u, v, w,
  MaxBodies, FrameName, World, CallerName, NoName, Kind, OneWay,  \* see MultibodyModel
  Vehicles, Records, Arrangements, Gravities, Ways, Carriers, Interfaces, Profiles, Reference,
  Default,                                        \* see StartupAssembly
  root, near, far, leaf,
  File, Candidate, Ledgers, SourceTrees,          \* see SourceClosure
  Slack, MaxNodes, Nowhere                        \* see TrackGeometry

MCState == [origin : Origin \cup {Nobody}, under : [1..Horizon -> Local \cup {Nothing}]]

New(o) == [origin |-> o, under |-> [i \in 1..Horizon |-> Nothing]]

MCInstalled == {New(o) : o \in Origin}
MCTrial     == New(Nobody)

MCFlow(s, l, t, t2) ==
  [s EXCEPT !.under = [i \in 1..Horizon |-> IF t < i /\ i <= t2 THEN l ELSE s.under[i]]]

MCCallerName == {<<0, 0>>, <<1, 0>>, <<1, 1>>}

Symmetry == Permutations({u, v, w})

-----------------------------------------------------------------------------
Simple ==
  [name |-> "simple",
   bodies |-> <<[name |-> "front", free |-> TRUE], [name |-> "rear", free |-> TRUE],
                [name |-> "wheel", free |-> FALSE]>>,
   frames |-> <<[name |-> "marker", body |-> "front"]>>,
   ends |-> {"front", "rear", "marker"},
   offsets |-> <<[name |-> "rear", offset |-> -2], [name |-> "front", offset |-> 0]>>,
   reference |-> "front", pairs |-> <<"front", "rear">>,
   joints |-> <<[name |-> "axle", parent |-> "front", child |-> "wheel", along_y |-> TRUE]>>,
   ball |-> <<"pivot">>, series |-> <<"damper", "buffer">>, spring |-> <<"coil", "air">>]

MCVehicles ==
  {Simple,
   [Simple EXCEPT !.name = "other"],
   [Simple EXCEPT !.series = <<"buffer", "coil">>],
   [Simple EXCEPT !.offsets = Tail(@)],
   [Simple EXCEPT !.pairs = <<"rear">>],
   [Simple EXCEPT !.joints[1].along_y = FALSE],
   [Simple EXCEPT !.ball = <<"axle">>],
   [Simple EXCEPT !.pairs = <<"rear", "front">>, !.joints[1].name = "pivot", !.ball = <<"axle">>]}

Entry(name, value) == [name |-> name, fine |-> TRUE, spins |-> 0, offset |-> 0, value |-> value]

Resolved ==
  [vehicle |-> "simple", gravity |-> 1, speed |-> 6, radius |-> 2, profiles |-> Profiles] @@
  ("wheel pair" :> <<Entry("front", 10), Entry("rear", 11)>>) @@
  ("free body" :> <<[Entry("rear", 12) EXCEPT !.offset = 1], [Entry("front", 13) EXCEPT !.spins = 1]>>) @@
  ("revolute" :> <<[Entry("axle", 14) EXCEPT !.spins = -1]>>) @@
  ("ball" :> <<Entry("pivot", 15)>>) @@
  ("series" :> <<Entry("buffer", 16), Entry("damper", 17)>>) @@
  ("spring" :> <<Entry("coil", 18), Entry("air", 19)>>)

\* One entry too few, one repeated, one too many, one that is not fine, one under
\* another name, and one under the name of another.
Versions(entries) ==
  {entries, Tail(entries), Append(entries, Entry(entries[1].name, 20)),
   Append(entries, Entry("stranger", 21)),
   <<[entries[1] EXCEPT !.fine = FALSE]>> \o Tail(entries),
   Append(Tail(entries), Entry("stranger", 22))} \cup
  {Append(Tail(entries), Entry(entries[i].name, 23)) : i \in 2..Len(entries)}

MCRecords ==
  UNION {{[Resolved EXCEPT ![p[1]] = x, ![p[2]] = y] :
             x \in Versions(Resolved[p[1]]), y \in Versions(Resolved[p[2]])} :
           p \in {<<"wheel pair", "free body">>, <<"revolute", "ball">>, <<"series", "spring">>}} \cup
  {[Resolved EXCEPT !.radius = 0], [Resolved EXCEPT !.vehicle = "other"],
   [Resolved EXCEPT !.profiles = "others"], [Resolved EXCEPT !.gravity = 2]}

MCCarriers == <<"front", "rear">>
MCInterfaces == <<[joint |-> "axle", carrier |-> "front", wheel |-> "wheel"]>>

MCArrangements ==
  {<< <<"revolute", "axle">>, <<"free body", "rear">>, <<"ball", "pivot">>, <<"free body", "front">> >>,
   << <<"free body", "front">>, <<"free body", "rear">>, <<"revolute", "axle">>, <<"ball", "pivot">> >>,
   << <<"free body", "front">>, <<"free body", "rear">>, <<"revolute", "pivot">>, <<"ball", "axle">> >>}

-----------------------------------------------------------------------------
Line(directive, path) == [directive |-> directive, path |-> path, reason |-> TRUE]
Said(path) ==
  {<<>>} \cup {<<Line(directive, path)>> : directive \in
             {"vendor", "discard", "forbidden", "generated_header", "forbidden_prefix"}}

MCLedgers ==
  {<<Line("vendor", root)>> \o x \o y \o z : x \in Said(near), y \in Said(far), z \in Said(leaf)} \cup
  {<<Line("vendor", root), Line("discard", root)>>, <<Line("discard", root)>>,
   <<[Line("vendor", root) EXCEPT !.reason = FALSE]>>,
   <<[Line("vendor", root) EXCEPT !.reason = FALSE], Line("vendor", root)>>,
   <<Line("vendor", root), [Line("file_license", near) EXCEPT !.reason = FALSE]>>,
   <<Line("vendor", near)>>}

MCTrees ==
  {[present |-> File \ lost, opaque |-> opaque,
    includes |-> (root :> i) @@ (near :> j) @@ (far :> <<near, leaf>>) @@ (leaf :> <<>>),
    units |-> (root :> k) @@ (near :> l) @@ (far :> <<>>) @@ (leaf :> <<>>)] :
     lost \in {{}, {far}}, opaque \in {{}, {near}}, i \in {<<near>>, <<near, far>>},
     j \in {<<>>, <<root, leaf>>}, k \in {<<far>>, <<leaf, near>>}, l \in {<<leaf>>, <<far>>}}

-----------------------------------------------------------------------------
\* 2^14 times 60, which divides by the powers of the lengths and windows below and
\* by what an antiderivative divides by.
TrackOne == 983040

Segment(shape, from, to, n) == [shape |-> shape, length |-> n, from |-> from, to |-> to]

Scalars ==
  {Segment("constant", 0, 0, 2), Segment("constant", 1, 1, 4), Segment("blend", 0, 1, 2),
   Segment("blend", 0, 2, 4), Segment("blend", 1, 0, 4)}

Grades ==
  {Segment("constant", 0, 0, 4), Segment("constant", 1, 1, 2), Segment("parabola", 0, 1, 4),
   Segment("parabola", 1, 0, 2), Segment("parabola", 1, 1, 2)}

Seam(i, n) == [after |-> i, width |-> n]

Seams ==
  {<<>>, <<Seam(1, 2)>>, <<Seam(1, 4)>>, <<Seam(2, 4)>>, <<Seam(2, 2), Seam(1, 2)>>,
   <<Seam(1, 4), Seam(2, 4)>>, <<Seam(1, 4), Seam(2, 2)>>, <<Seam(1, 2), Seam(1, 2)>>,
   <<Seam(3, 2)>>}

Total(l) == l[1].length + l[2].length + l[3].length
Level(n) == [segments |-> <<Segment("constant", 0, 0, n)>>, seams |-> <<>>]

MCDocuments ==
  {[curvature |-> [segments |-> l, seams |-> s], superelevation |-> Level(Total(l)),
    vertical |-> Level(Total(l)), baselength |-> TrackOne, spacing |-> 2] :
     l \in [1..3 -> Scalars], s \in Seams} \cup
  {[curvature |-> Level(Total(l)), superelevation |-> [segments |-> l, seams |-> s],
    vertical |-> Level(Total(l)), baselength |-> (5 * TrackOne) \div 4, spacing |-> 1] :
     l \in [1..3 -> Scalars], s \in Seams} \cup
  {[curvature |-> Level(Total(l) + 1), superelevation |-> Level(Total(l)),
    vertical |-> [segments |-> l, seams |-> s], baselength |-> TrackOne, spacing |-> 2] :
     l \in [1..3 -> Grades], s \in Seams}

-----------------------------------------------------------------------------
VARIABLES
  atWork,
  frame_body, related_root, is_free, joints, tree, stage,
  document, profiles, nodes, refused,
  way, vehicle, record, gravity, step, reason, arrangement, anchors, station, state, nominal,
  placements,
  ledger, sources, line, dispositions, pending, reached, named, violations, missing, exit

modelVars == <<frame_body, related_root, is_free, joints, tree, stage>>
trackVars == <<document, profiles, nodes, refused>>
startupVars ==
  <<way, vehicle, record, gravity, step, reason, arrangement, anchors, station, state, nominal,
    placements>>
closureVars ==
  <<ledger, sources, line, dispositions, pending, reached, named, violations, missing, exit>>

Model == INSTANCE MultibodyModel

Track == INSTANCE TrackGeometry WITH Documents <- MCDocuments, One <- TrackOne, line <- nodes

Startup == INSTANCE StartupAssembly WITH stage <- step

Closure == INSTANCE SourceClosure WITH
  Trees <- SourceTrees, tree <- sources

ASSUME ConstructionAssumptions ==
  /\ Model!ModelAssumption /\ Track!TrackAssumption
  /\ Startup!AssemblyAssumption /\ Closure!ClosureAssumption

\* The model and the advancer start as any do; what else is not at work is Nothing.
MCInit ==
  /\ atWork \in {"model", "line", "startup", "closure", "advancer"}
  /\ Init /\ Model!Init
  /\ atWork # "advancer" => accepted.local = CHOOSE l \in Local : TRUE
  /\ IF atWork = "line" THEN Track!Init
       ELSE document = Nothing /\ profiles = Nothing /\ nodes = Nothing /\ refused = Nothing
  /\ IF atWork = "startup" THEN Startup!Init
       ELSE /\ way = Nothing /\ vehicle = Nothing /\ record = Nothing /\ gravity = Nothing
            /\ step = Nothing /\ reason = Nothing /\ arrangement = Nothing
            /\ anchors = Nothing /\ station = Nothing /\ state = Nothing
            /\ nominal = Nothing /\ placements = Nothing
  /\ IF atWork = "closure" THEN Closure!Init
       ELSE /\ ledger = Nothing /\ sources = Nothing /\ line = Nothing
            /\ dispositions = Nothing /\ pending = Nothing /\ reached = Nothing
            /\ named = Nothing /\ violations = Nothing /\ missing = Nothing
            /\ exit = Nothing

MCNext ==
  /\ UNCHANGED atWork
  /\ \/ /\ atWork = "advancer" /\ Next
        /\ UNCHANGED <<modelVars, trackVars, startupVars, closureVars>>
     \/ /\ atWork = "model" /\ Model!Next
        /\ UNCHANGED <<vars, trackVars, startupVars, closureVars>>
     \/ /\ atWork = "line" /\ Track!Next
        /\ UNCHANGED <<vars, modelVars, startupVars, closureVars>>
     \/ /\ atWork = "startup" /\ Startup!Next
        /\ UNCHANGED <<vars, modelVars, trackVars, closureVars>>
     \/ /\ atWork = "closure" /\ Closure!Next
        /\ UNCHANGED <<vars, modelVars, trackVars, startupVars>>

MCSpec ==
  MCInit /\ [][MCNext]_<<atWork, vars, modelVars, trackVars, startupVars, closureVars>>
-----------------------------------------------------------------------------
\* Construction hands on what it was given: the published context is the resolved
\* state and the system's own, a line is the one its document declares, and the
\* closure of the sources passes exactly those trees that agree with the ledger; see
\* StartupAssembly, TrackGeometry and SourceClosure.
BuiltAsStated ==
  /\ atWork = "startup" => Startup!ContextIsTheRecord
  /\ atWork = "line" => Track!LineIsAsDeclared
  /\ atWork = "closure" => Closure!VerdictIsOfTheTree

\* The model that is built is the forest of what was stated; see MultibodyModel.
BuildsTheForest == Model!BuildsTheForest
=============================================================================
