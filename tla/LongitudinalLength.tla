------------------------- MODULE LongitudinalLength -------------------------
(***************************************************************************)
(* ResolveLongitudinalLength: how long a contact patch is along the track. *)
(* At each station across the patch the wheel's circle is followed from    *)
(* its silhouette outward, behind and ahead, until it has left the rail,   *)
(* and each crossing is bisected; the longest chord counts.  The deepest   *)
(* station comes first, and one whose bracketed crossings cannot give a    *)
(* longer chord is dropped before they are resolved.                       *)
(*                                                                         *)
(* Angles are integers.  The circle at a station is any pattern of being   *)
(* inside or outside the rail; sine, which shortens a chord against its    *)
(* angles, is left out: a chord then reaches the bound it is dropped by.   *)
(***************************************************************************)
EXTENDS Integers, FiniteSets, FiniteSetsExt

CONSTANTS
    Stations,     \* stations across the patch
    Limit,        \* kLongitudinalSearchLimit
    Circles,      \* what the circle at a station may be
    Screening,    \* kLongitudinalScreeningBisectionCount
    MaxBisections,\* kMaximumLongitudinalBisectionCount
    Resolution    \* width at which a bracket is not bisected further

VARIABLES
    order,    \* stations taken
    deepest,  \* the station that comes first
    longest,  \* the longest chord so far, doubled
    taken,    \* which stations
    best      \* the longest chord there is on them, resolved in full

vars == <<order, deepest, longest, taken, best>>

\* Of one side of a circle: where it is inside the rail, as seen from the
\* silhouette outward; a value that is not a number counts as being outside
\* when bisected and as not yet outside when searched.
Side == [1..Limit -> {"inside", "outside", "no number"}]

\* radius: the local radius times the cosine of the yaw, 0 if it is not positive;
\* step: the offset the search starts at, from the depth of the overlap.
Circle == [radius : Nat, step : Nat \ {0}, silhouette : {"inside", "outside"},
           behind : Side, ahead : Side]

LengthAssumption ==
    /\ Circles \subseteq Circle
    /\ {Stations, Limit, MaxBisections, Resolution} \subseteq Nat \ {0}
    /\ Screening \in Nat
    /\ \A circle \in Circles : circle.radius <= Resolution

-----------------------------------------------------------------------------
\* The offsets tried: doubled each time, the last of them the limit.
Tried(step) == {o \in step..Limit : o = Limit \/ \E k \in 0..Limit : o = step * 2^k}

\* The first offset that is outside, if there is one.
Outside(side, step) == {o \in Tried(step) : side[o] = "outside"}

Bracketed(circle) ==
    /\ circle.silhouette = "inside" /\ circle.radius > 0
    /\ Outside(circle.behind, circle.step) # {} /\ Outside(circle.ahead, circle.step) # {}

Bracket(side, step) == [outside |-> Min(Outside(side, step)), inside |-> 0, count |-> 0]

\* A bracket is bisected up to a count, and no further than the resolution asks for.
Open(radius, target, b) ==
    /\ b.count < target /\ b.count < MaxBisections
    /\ radius * (b.outside - b.inside) > Resolution

Halved(side, b) ==
    LET middle == (b.outside + b.inside) \div 2
    IN  IF side[middle] = "inside"
          THEN [b EXCEPT !.inside = middle, !.count = @ + 1]
          ELSE [b EXCEPT !.outside = middle, !.count = @ + 1]

\* refine
Refined(side, radius, bracket, target) ==
    LET after[k \in 0..MaxBisections] ==
          IF k = 0 THEN bracket
          ELSE IF Open(radius, target, after[k - 1]) THEN Halved(side, after[k - 1])
          ELSE after[k - 1]
    IN  after[MaxBisections]

Crossings(circle, target) ==
    [behind |-> Refined(circle.behind, circle.radius,
                        Bracket(circle.behind, circle.step), target),
     ahead  |-> Refined(circle.ahead, circle.radius,
                        Bracket(circle.ahead, circle.step), target)]

\* A slip that is not made: the bound taken between the inner ends.
InnerBound(circle, crossings) ==
    2 * circle.radius * (crossings.behind.inside + crossings.ahead.inside)

\* Both crossings are inside their brackets: no chord is longer (doubled).
Bound(circle, crossings) ==
    2 * circle.radius * (crossings.behind.outside + crossings.ahead.outside)

\* From the middle of one bracket to the middle of the other, doubled.
Chord(circle) ==
    LET c == Crossings(circle, MaxBisections)
    IN  circle.radius * (c.behind.outside + c.behind.inside + c.ahead.outside + c.ahead.inside)

\* At any depth of the screening, before it and in it.
ScreenedOut(circle) ==
    /\ order # 0
    /\ \E depth \in 0..Screening : Bound(circle, Crossings(circle, depth)) <= longest

\* The stations in turn, the deepest first.
Station ==
    IF order = 0 THEN deepest
    ELSE IF order - 1 >= deepest THEN order ELSE order - 1

-----------------------------------------------------------------------------
Init ==
    /\ order = 0 /\ deepest \in 0..(Stations - 1)
    /\ longest = 0 /\ taken = {} /\ best = 0

Resolve(circle) ==
    /\ order < Stations
    /\ order' = order + 1
    /\ longest' = IF Bracketed(circle) /\ ~ScreenedOut(circle)
                    THEN Max({longest, Chord(circle)}) ELSE longest
    /\ taken' = taken \cup {Station}
    /\ best' = IF Bracketed(circle) THEN Max({best, Chord(circle)}) ELSE best
    /\ UNCHANGED deepest

Next == \E circle \in Circles : Resolve(circle)

Spec == Init /\ [][Next]_vars
-----------------------------------------------------------------------------
\* Dropping stations early never changes the answer: once every station has been
\* taken, once, the length is the longest of all their chords.
ScreeningChangesNothing ==
    order = Stations => taken = 0..(Stations - 1) /\ longest = best
=============================================================================
