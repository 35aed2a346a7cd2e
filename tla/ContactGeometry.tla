-------------------------- MODULE ContactGeometry --------------------------
(***************************************************************************)
(* One wheel-rail interface's workspace under WheelRailContactModel::      *)
(* Evaluate.  The model is immutable; the buffers, sized once and never    *)
(* cleared, are the workspace's, and so are the patches of the pose solved *)
(* last.  A workspace may serve several models one after the other.        *)
(*                                                                         *)
(* Lengths are integers.  Where the outline of a wheel goes in the rail's  *)
(* cross-section is a function of the pose; the shape-preserving cubic     *)
(* between two points of the envelope is a straight line, rounded.         *)
(***************************************************************************)
EXTENDS Integers, Sequences, SequencesExt, FiniteSets, FiniteSetsExt

CONSTANTS
    Outlines,     \* the projections of a wheel's outline: samples [at, height], or NotFinite
    NotFinite,
    Model, Pose,
    RailNodes,    \* RailNodes[m]: where the rail profile has its nodes
    Rail,         \* Rail[m][at]: its height
    BinWidth,     \* BinWidth[m]: width of the bins of the envelope
    Bins,         \* Bins[m]: bins the bound on the projected span calls for
    Epsilon, MergeTolerance, Stations,  \* contact_gap_epsilon_meters, ...
    MaxIslands, MaxPatches,
    Generations,  \* stamps there are: 2^64
    Speeds,       \* at which a wheel leaves the rail; some cancel a shallow patch
    None

VARIABLES
    outline,     \* outline[m][p]: what the pose makes of the wheel of the model
    bins,        \* bin_generation_, bin_argument_, bin_highest_
    generation,  \* current_bin_generation_
    solved,      \* the pose solved last, by which model, and its patches, or None
    asked,       \* what Evaluate was asked last: model, pose, speed
    answer       \* and what it returned

vars == <<outline, bins, generation, solved, asked, answer>>

-----------------------------------------------------------------------------
(***************************************************************************)
(* The envelope                                                            *)
(***************************************************************************)

Valid(o) == {i \in 1..Len(o) : o[i] # NotFinite}

Low(o)  == Min({o[i].at : i \in Valid(o)})
High(o) == Max({o[i].at : i \in Valid(o)})

RoundUp(x, width) == (x + width - 1) \div width

BinCount(m, o) == RoundUp(High(o) - Low(o), BinWidth[m]) + 1

BinOf(m, o, i) == Min({(o[i].at - Low(o)) \div BinWidth[m], BinCount(m, o) - 1}) + 1

\* Outlines are of samples, the bins are as many as any of them needs, and a rail has a
\* height wherever it is.
GeometryAssumption ==
    LET Sample == [at : Int, height : Int]
    IN  /\ NotFinite \notin Sample
        /\ \A m \in Model :
             /\ BinWidth[m] \in Nat \ {0} /\ Bins[m] \in Nat
             /\ IsFiniteSet(RailNodes[m]) /\ RailNodes[m] # {} /\ RailNodes[m] \subseteq Int
             /\ \A x \in Min(RailNodes[m])..Max(RailNodes[m]) : Rail[m][x] \in Int
             /\ \A of \in Outlines, p \in Pose :
                  /\ of[m][p] \in Seq(Sample \cup {NotFinite})
                  /\ Valid(of[m][p]) # {} => BinCount(m, of[m][p]) <= Bins[m]
        /\ Epsilon \in Nat /\ MergeTolerance \in Nat
        /\ MaxIslands \in Nat \ {0} /\ MaxPatches \in Nat \ {0}
        /\ Stations \in Nat /\ Stations >= 3 /\ Generations \in Nat /\ Generations > 1

\* A bin nobody has stamped.
Unstamped == [stamp |-> 0, sample |-> 0, highest |-> 0]

\* EnsureCapacity
Grown(b, size) == b \o [i \in 1..Max({0, size - Len(b)}) |-> Unstamped]

\* A stamp of its own for each solve; the counter skips 0 when it wraps.
Stamped(b, g) ==
    IF (g + 1) % Generations = 0
      THEN [bins |-> [i \in DOMAIN b |-> [b[i] EXCEPT !.stamp = 0]], stamp |-> 1]
      ELSE [bins |-> b, stamp |-> g + 1]

\* Strictly higher material wins a bin, and the earlier sample an exact tie.
Offered(b, stamp, bin, sample, height) ==
    IF b[bin].stamp # stamp \/ height > b[bin].highest
      THEN [b EXCEPT ![bin] = [stamp |-> stamp, sample |-> sample, highest |-> height]]
      ELSE b

Binned(m, o, b, stamp) ==
    LET after[i \in 0..Len(o)] ==
          IF i = 0 THEN b
          ELSE IF o[i] = NotFinite THEN after[i - 1]
          ELSE Offered(after[i - 1], stamp, BinOf(m, o, i), i, o[i].height)
    IN  after[Len(o)]

\* The members of a finite set of numbers, in their order.
Ascending(S) == [k \in 1..Cardinality(S) |-> CHOOSE x \in S : Cardinality({y \in S : y <= x}) = k]

\* The bins of this solve, from left to right.
Envelope(m, o, b, stamp) ==
    LET occupied == Ascending({i \in 1..BinCount(m, o) : b[i].stamp = stamp})
    IN  [k \in DOMAIN occupied |-> [at |-> o[b[occupied[k]].sample].at,
                                    height |-> b[occupied[k]].highest]]

-----------------------------------------------------------------------------
(***************************************************************************)
(* The shared grid and the gap                                             *)
(***************************************************************************)

Overlap(m, e) ==
    Max({e[1].at, Min(RailNodes[m])})..Min({e[Len(e)].at, Max(RailNodes[m])})

\* The next value of two ascending lists, taken into the grid unless it is there.
Drawn(a, b, s) ==
    LET first == s.b = Len(b) \/ (s.a < Len(a) /\ a[s.a + 1] <= b[s.b + 1])
        value == IF first THEN a[s.a + 1] ELSE b[s.b + 1]
    IN  [a |-> IF first THEN s.a + 1 ELSE s.a, b |-> IF first THEN s.b ELSE s.b + 1,
         grid |-> IF s.grid # <<>> /\ s.grid[Len(s.grid)] = value THEN s.grid
                  ELSE Append(s.grid, value)]

\* The merge of two ascending lists into one, a node of both once.
Merged(a, b) ==
    LET after[n \in 0..(Len(a) + Len(b))] ==
          IF n = 0 THEN [a |-> 0, b |-> 0, grid |-> <<>>] ELSE Drawn(a, b, after[n - 1])
    IN  after[Len(a) + Len(b)].grid

\* Of the envelope, the stretch from the first point of the overlap on.
Stretch(e, overlap) ==
    LET before == {i \in DOMAIN e : \A x \in overlap : e[i].at < x}
        within == {i \in DOMAIN e : e[i].at \in overlap}
    IN  [k \in 1..Cardinality(within) |-> e[Cardinality(before) + k].at]

Grid(m, e) ==
    Merged(Stretch(e, Overlap(m, e)), Ascending(RailNodes[m] \cap Overlap(m, e)))

\* The height of the envelope between two of its points.
WheelHeight(e, x) ==
    LET i == Max({k \in 1..(Len(e) - 1) : k = 1 \/ e[k].at <= x})
        l == e[i]
        r == e[i + 1]
    IN  l.height + ((r.height - l.height) * (x - l.at)) \div (r.at - l.at)

Gap(m, e, x) == WheelHeight(e, x) - Rail[m][x]

-----------------------------------------------------------------------------
(***************************************************************************)
(* The islands                                                             *)
(***************************************************************************)

\* A run is kept while there is room.
Closed(list, start, end) ==
    IF Len(list) < MaxIslands THEN Append(list, <<start, end>>) ELSE list

\* One grid point further: in contact, between islands, or the first after an island.
Scanned(gap, s, i) ==
    IF gap[i] > Epsilon THEN [s EXCEPT !.start = IF @ = 0 THEN i ELSE @]
    ELSE IF s.start = 0 THEN s
    ELSE [list |-> Closed(s.list, s.start, i - 1), start |-> 0]

\* The runs of grid points in contact, from left to right, the first MaxIslands.
Islands(gap) ==
    LET scan[i \in 0..Len(gap)] ==
          IF i = 0 THEN [list |-> <<>>, start |-> 0] ELSE Scanned(gap, scan[i - 1], i)
        end == scan[Len(gap)]
    IN  IF end.start = 0 THEN end.list ELSE Closed(end.list, end.start, Len(gap))

\* The next island joins the last one, if no valley between them is deep enough.
WithNext(gap, islands, next) ==
    LET last == islands[Len(islands)]
    IN  IF Min({gap[k] : k \in last[2]..next[1]}) > -MergeTolerance
          THEN [islands EXCEPT ![Len(islands)] = <<last[1], next[2]>>]
          ELSE Append(islands, next)

Joined(gap, islands) ==
    LET so[k \in 1..Len(islands)] ==
          IF k = 1 THEN <<islands[1]>> ELSE WithNext(gap, so[k - 1], islands[k])
    IN  so[Len(islands)]

\* RefineEdge: where the gap between two neighbours passes Epsilon.
Edge(x, y, gx, gy) ==
    IF gx = gy THEN (x + y) \div 2
    ELSE IF gx < gy THEN x + ((Epsilon - gx) * (y - x)) \div (gy - gx)
    ELSE x + ((gx - Epsilon) * (y - x)) \div (gx - gy)

\* What is measured on the island's own, uniform grid: nothing, if that grid
\* misses the overlap.
Measured(m, e, grid, gap, island) ==
    LET n      == Len(grid)
        first  == island[1]
        last   == island[2]
        left   == IF first = 1 THEN grid[1]
                  ELSE Edge(grid[first - 1], grid[first], gap[first - 1], gap[first])
        right  == IF last = n THEN grid[n]
                  ELSE Edge(grid[last], grid[last + 1], gap[last], gap[last + 1])
        At(k)      == left + ((right - left) * k) \div (Stations - 1)
        Depth(k)   == Max({0, Gap(m, e, At(k))})
        depth      == Max({Depth(k) : k \in 0..(Stations - 1)})
        deepest    == Min({k \in 0..(Stations - 1) : Depth(k) = depth})
        Slice(k)   == (At(k + 1) - At(k)) * (Depth(k) + Depth(k + 1))
        area       == MapThenSumSet(Slice, 0..(Stations - 2))
    IN  IF right > left /\ depth > Epsilon /\ area > 0
          THEN {[left |-> left, right |-> right, depth |-> depth, at |-> At(deepest),
                 area |-> area]}
          ELSE {}

\* From left to right: std::sort.
Sorted(found) ==
    LET order == CHOOSE p \in [1..Len(found) -> 1..Len(found)] :
                   /\ \A i, j \in 1..Len(found) : p[i] = p[j] => i = j
                   /\ \A i, j \in 1..Len(found) : i < j => found[p[i]].left <= found[p[j]].left
    IN  [i \in 1..Len(found) |-> found[order[i]]]

\* A patch for each that measures something, up to MaxPatches.
Patches(m, e, grid, gap, islands) ==
    LET so[k \in 0..Len(islands)] ==
          IF k = 0 THEN <<>>
          ELSE IF Len(so[k - 1]) = MaxPatches \/ Measured(m, e, grid, gap, islands[k]) = {}
            THEN so[k - 1]
          ELSE Append(so[k - 1], CHOOSE patch \in Measured(m, e, grid, gap, islands[k]) : TRUE)
    IN  Sorted(so[Len(islands)])

NoPatches == [islands |-> 0, merged |-> 0, patches |-> <<>>]

\* The stages after the envelope.
Resolved(m, e) ==
    LET grid    == Grid(m, e)
        gap     == [k \in DOMAIN grid |-> Gap(m, e, grid[k])]
        islands == Islands(gap)
        joined  == Joined(gap, islands)
    IN  IF Len(e) < 3 \/ Cardinality(Overlap(m, e)) < 2 \/ Len(grid) < 3 \/ islands = <<>>
          THEN NoPatches
          ELSE [islands |-> Len(islands), merged |-> Len(joined),
                patches |-> Patches(m, e, grid, gap, joined)]

-----------------------------------------------------------------------------
(***************************************************************************)
(* Solve and Evaluate                                                      *)
(***************************************************************************)

Init ==
    /\ outline \in Outlines
    /\ bins = <<>> /\ generation = 0 /\ solved = None /\ asked = None /\ answer = None

\* Solve; a pose of which no sample is a number is not even stamped.
Solve(m, p) ==
    LET o  == outline[m][p]
        g  == Grown(bins, Bins[m])
        st == Stamped(g, generation)
        b  == Binned(m, o, st.bins, st.stamp)
        Became(set) == solved' = [model |-> m, pose |-> p, set |-> set]
    IN  IF Valid(o) = {}
          THEN bins' = g /\ UNCHANGED generation /\ Became(NoPatches)
          ELSE /\ bins' = b /\ generation' = st.stamp
               /\ Became(Resolved(m, Envelope(m, o, b, st.stamp)))

\* A patch that closes carries; damping cancels a shallow one that opens fast.
Carrying(patches, speed) ==
    LET deep == Ascending({k \in DOMAIN patches : patches[k].depth > speed})
    IN  [k \in DOMAIN deep |-> patches[deep[k]]]

\* A key that leaves the model out: another model's patches.
EvaluatesByPose(m, p, speed) ==
    /\ IF solved # None /\ solved.pose = p
         THEN UNCHANGED <<bins, generation, solved>>
         ELSE Solve(m, p)
    /\ asked' = [model |-> m, pose |-> p, speed |-> speed]
    /\ answer' = [set |-> solved'.set, emitted |-> Carrying(solved'.set.patches, speed)]
    /\ UNCHANGED outline

\* The patches are kept for the same model and the same four numbers.
Evaluate(m, p, speed) ==
    /\ IF solved # None /\ solved.model = m /\ solved.pose = p
         THEN /\ bins' = Grown(bins, Bins[m]) /\ UNCHANGED <<generation, solved>>
         ELSE Solve(m, p)
    /\ asked' = [model |-> m, pose |-> p, speed |-> speed]
    /\ answer' = [set |-> solved'.set, emitted |-> Carrying(solved'.set.patches, speed)]
    /\ UNCHANGED outline

Next == \E m \in Model, p \in Pose, speed \in Speeds : Evaluate(m, p, speed)

Spec == Init /\ [][Next]_vars
-----------------------------------------------------------------------------
(***************************************************************************)
(* What a pose is to give, without bins, stamps or scans: in each bin the  *)
(* highest sample, the earliest of those; the nodes of both profiles, in   *)
(* order; the maximal runs in contact; and of those, together, all that    *)
(* have no valley between them.                                            *)
(***************************************************************************)
TrueEnvelope(m, o) ==
    LET In(b)   == {i \in Valid(o) : BinOf(m, o, i) = b}
        Top(b)  == Max({o[i].height : i \in In(b)})
        Best(b) == Min({i \in In(b) : o[i].height = Top(b)})
        used    == Ascending({b \in 1..BinCount(m, o) : In(b) # {}})
    IN  [k \in DOMAIN used |-> o[Best(used[k])]]

TrueRuns(gap) ==
    {run \in (DOMAIN gap) \X (DOMAIN gap) :
        /\ run[1] <= run[2]
        /\ \A k \in run[1]..run[2] : gap[k] > Epsilon
        /\ run[1] > 1 => gap[run[1] - 1] <= Epsilon
        /\ run[2] < Len(gap) => gap[run[2] + 1] <= Epsilon}

FirstOf(runs, n) == {r \in runs : Cardinality({q \in runs : q[1] <= r[1]}) <= n}

TrueJoined(gap, runs) ==
    LET Together(q, r) == \A k \in Min({q[1], r[1]})..Max({q[2], r[2]}) : gap[k] > -MergeTolerance
        With(r) == {q \in runs : Together(q, r)}
    IN  {<<Min({q[1] : q \in With(r)}), Max({q[2] : q \in With(r)})>> : r \in runs}

PatchesOf(m, o) ==
    LET e    == TrueEnvelope(m, o)
        grid == Ascending(({e[k].at : k \in DOMAIN e} \cup RailNodes[m]) \cap Overlap(m, e))
        gap  == [k \in DOMAIN grid |-> Gap(m, e, grid[k])]
        runs == FirstOf(TrueRuns(gap), MaxIslands)
        joined == TrueJoined(gap, runs)
        all  == UNION {Measured(m, e, grid, gap, r) : r \in joined}
        left == Ascending({patch.left : patch \in all})
    IN  IF Valid(o) = {} \/ Len(e) < 3 \/ Cardinality(Overlap(m, e)) < 2 \/ Len(grid) < 3 \/ runs = {}
          THEN NoPatches
          ELSE [islands |-> Cardinality(runs), merged |-> Cardinality(joined),
                patches |-> [k \in 1..Min({Len(left), MaxPatches}) |->
                               CHOOSE patch \in all : patch.left = left[k]]]

Promised(m, p) == PatchesOf(m, outline[m][p])

\* Whatever poses, models and speeds the workspace has served before, and
\* wherever its stamps are, an evaluation finds the patches that the model and
\* the pose alone determine ("two poses can be solved in any order",
\* contact_geometry.h).
PatchesAreOfThePose ==
    asked # None =>
        /\ answer.set = Promised(asked.model, asked.pose)
        /\ answer.emitted = Carrying(answer.set.patches, asked.speed)
=============================================================================
