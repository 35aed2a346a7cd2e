---------------------------- MODULE TrackGeometry ----------------------------
(***************************************************************************)
(* From a track document to a line: three profiles over the station        *)
(* (track_geometry_segments.cc, track_vertical_profile.cc) and the nodes   *)
(* that the line is integrated on (track_geometry.cc, load_track_geometry  *)
(* .cc).                                                                   *)
(*                                                                         *)
(* A profile is declared as segments laid end to end and windows centred   *)
(* on their boundaries, inside which a quintic replaces what the segments  *)
(* declare.  A boundary without a window must be continuous.  Stations are *)
(* integers, values are multiples of 1/One, and One is divisible by what   *)
(* the lengths of an instance divide by, so the arithmetic is exact; roots *)
(* are known to the next station.  Circular vertical curves, sines and     *)
(* cosines and the rounding of sums are left out; two families may end     *)
(* apart by Slack, which stands for the rounding.                          *)
(***************************************************************************)
EXTENDS Integers, Sequences, FiniteSets, FiniteSetsExt, SequencesExt

CONSTANTS
  Documents,  \* [curvature, superelevation, vertical, baselength, spacing]
  One,        \* how many units make the value 1
  Slack,      \* how far apart the ends of two families may round
  MaxNodes,   \* kMaximumStationNodeCount
  Nowhere     \* no station

Family == <<"curvature", "superelevation", "vertical">>

TrackAssumption ==
  /\ One \in Nat \ {0} /\ {Slack, MaxNodes} \subseteq Nat
  /\ \A d \in Documents, f \in 1..3 :
       \A i \in DOMAIN d[Family[f]].segments : d[Family[f]].segments[i].length \in Nat

VARIABLES
  document,
  profiles,   \* the profiles built, in the order of Family
  line,       \* the line, or <<>>
  refused     \* a constructor threw

vars == <<document, profiles, line, refused>>

Init ==
  /\ document \in Documents
  /\ profiles = <<>> /\ line = <<>> /\ refused = FALSE

(***************************************************************************)
(* Polynomials of a local coordinate, <<c0, ..., c5>>                      *)
(***************************************************************************)

Evaluate(c, x) == FoldRight(LAMBDA a, b : a + x * b, c, 0)

Derivative(c) == [k \in 1..6 |-> IF k = 6 THEN 0 ELSE k * c[k + 1]]

\* The antiderivative that vanishes at zero.
Antiderivative(c, x) == x * Evaluate([k \in 1..6 |-> c[k] \div k], x)

Constant(value) == <<One * value, 0, 0, 0, 0, 0>>

HermiteCubicBlend(from, to, length) ==
  LET change == One * (to - from)
  IN  <<One * from, 0, (3 * change) \div length^2, (-2 * change) \div length^3, 0, 0>>

Parabola(from, to, length) == <<One * from, (One * (to - from)) \div length, 0, 0, 0, 0>>

\* Value, first and second derivative of a polynomial.
Jet(c, x) == <<Evaluate(c, x), Evaluate(Derivative(c), x), Evaluate(Derivative(Derivative(c)), x)>>

QuinticHermite(w, a, b) ==
  LET s == <<a[1], w * a[2], (w * w * a[3]) \div 2>>
      e == <<b[1], w * b[2], (w * w * b[3]) \div 2>>
  IN  <<s[1], s[2] \div w, s[3] \div w^2,
        (-10 * s[1] - 6 * s[2] - 3 * s[3] + 10 * e[1] - 4 * e[2] + e[3]) \div w^3,
        (15 * s[1] + 8 * s[2] + 3 * s[3] - 15 * e[1] + 7 * e[2] - 2 * e[3]) \div w^4,
        (-6 * s[1] - 3 * s[2] - s[3] + 6 * e[1] - 3 * e[2] + e[3]) \div w^5>>

\* The members of a set in the order of their keys, which differ.
Sorted(S, key(_)) ==
  [i \in 1 .. Cardinality(S) |->
     CHOOSE x \in S : Cardinality({y \in S : key(y) < key(x)}) = i - 1]

(***************************************************************************)
(* What both kinds of profile make of their segments and windows           *)
(***************************************************************************)

\* A constant segment ends where it starts.
StartValue(s) == s.from
EndValue(s) == IF s.shape = "constant" THEN s.from ELSE s.to

SoundScalar(s) == s.length > 0 /\ s.shape \in {"constant", "blend"}

\* A curve of equal grades has a name of its own.
SoundVertical(s) ==
  s.length > 0 /\ s.shape \in {"constant", "parabola"} /\
  (s.shape = "parabola" => s.from # s.to)

Boundary(segments, i) == FoldLeft(LAMBDA n, s : n + s.length, 0, SubSeq(segments, 1, i))

Formula(s) ==
  CASE s.shape = "constant" -> Constant(s.from)
    [] s.shape = "blend" -> HermiteCubicBlend(s.from, s.to, s.length)
    [] s.shape = "parabola" -> Parabola(s.from, s.to, s.length)

\* Each segment with its stations and its polynomial.
Raw(segments) ==
  [i \in DOMAIN segments |->
     [from |-> Boundary(segments, i - 1), to |-> Boundary(segments, i),
      formula |-> Formula(segments[i])]]

\* A window names the segment before it, one that has another after it and no
\* window yet, and reaches past neither.
SoundSeams(raw, seams) ==
  \A i \in DOMAIN seams :
    LET left == seams[i].after
        half == seams[i].width \div 2
    IN  /\ half > 0
        /\ left \in 1 .. Len(raw) - 1
        /\ \A j \in 1 .. i - 1 : seams[j].after # left
        /\ half <= raw[left].to - raw[left].from
        /\ half <= raw[left + 1].to - raw[left + 1].from

Windows(raw, seams) ==
  LET around(s) == [left |-> s.after, from |-> raw[s.after].to - s.width \div 2,
                    to |-> raw[s.after].to + s.width \div 2]
  IN  Sorted({around(seams[i]) : i \in DOMAIN seams}, LAMBDA w : w.from)

Continuous(segments, seams) ==
  \A i \in 1 .. Len(segments) - 1 :
    \/ \E j \in DOMAIN seams : seams[j].after = i
    \/ EndValue(segments[i]) = StartValue(segments[i + 1])

Apart(windows) == \A i \in 1 .. Len(windows) - 1 : windows[i].to <= windows[i + 1].from

\* The piece of a window meets the segments at its ends.
Bridge(raw, w) ==
  LET l == raw[w.left]
      r == raw[w.left + 1]
  IN  [from |-> w.from, to |-> w.to, origin |-> w.from, seam |-> TRUE,
       formula |-> QuinticHermite(w.to - w.from, Jet(l.formula, w.from - l.from),
                                  Jet(r.formula, w.to - r.from))]

\* Segment after segment, what the windows leave of it and then its window; cursor
\* is where the last piece ends.
Pieces(raw, windows) ==
  LET upTo(i, cursor, to) ==
        IF cursor < to
        THEN <<[from |-> cursor, to |-> to, origin |-> raw[i].from, seam |-> FALSE,
                formula |-> raw[i].formula]>>
        ELSE <<>>
      of(done, i) ==
        LET mine == SelectSeq(windows, LAMBDA w : w.left = i)
        IN  IF mine # <<>>
            THEN [cursor |-> mine[1].to,
                  pieces |-> done.pieces \o upTo(i, done.cursor, mine[1].from)
                               \o <<Bridge(raw, mine[1])>>]
            ELSE [cursor |-> IF done.cursor < raw[i].to THEN raw[i].to ELSE done.cursor,
                  pieces |-> done.pieces \o upTo(i, done.cursor, raw[i].to)]
  IN  FoldLeft(of, [cursor |-> 0, pieces |-> <<>>], [i \in DOMAIN raw |-> i]).pieces

Over(p, to) == Antiderivative(p.formula, to - p.origin) - Antiderivative(p.formula, p.from - p.origin)

\* The integral from the start to the start of each piece.
Integrals(pieces) ==
  [i \in DOMAIN pieces |->
     FoldLeft(LAMBDA n, p : n + Over(p, p.to), 0, SubSeq(pieces, 1, i - 1))]

Support(pieces) ==
  LET acting == {i \in DOMAIN pieces : pieces[i].formula # Constant(0)}
  IN  IF acting = {} THEN Nowhere ELSE pieces[Min(acting)].from

ScalarBreakpoints(pieces, raw) ==
  {pieces[i].from : i \in DOMAIN pieces} \cup {raw[Len(raw)].to}

\* A boundary within a window is kept among those of the vertical profile.
VerticalBreakpoints(pieces, raw) ==
  {pieces[i].from : i \in DOMAIN pieces} \cup {raw[i].to : i \in DOMAIN raw}

-----------------------------------------------------------------------------
(***************************************************************************)
(* LoadTrackGeometryFromJsonFile: family by family                         *)
(***************************************************************************)

Loading == ~refused /\ line = <<>> /\ Len(profiles) < 3

Declared == document[Family[Len(profiles) + 1]]

SoundSegment(s) == IF Len(profiles) < 2 THEN SoundScalar(s) ELSE SoundVertical(s)

SoundProfile ==
  /\ Declared.segments # <<>>
  /\ \A i \in DOMAIN Declared.segments : SoundSegment(Declared.segments[i])
  /\ LET raw == Raw(Declared.segments)
     IN  /\ SoundSeams(raw, Declared.seams)
         /\ Continuous(Declared.segments, Declared.seams)
         /\ Apart(Windows(raw, Declared.seams))

BuildProfile ==
  /\ Loading /\ SoundProfile
  /\ LET raw == Raw(Declared.segments)
         pieces == Pieces(raw, Windows(raw, Declared.seams))
     IN  profiles' = Append(profiles,
           [end |-> raw[Len(raw)].to, pieces |-> pieces, integrals |-> Integrals(pieces),
            support |-> Support(pieces),
            breakpoints |-> IF Len(profiles) < 2 THEN ScalarBreakpoints(pieces, raw)
                                                 ELSE VerticalBreakpoints(pieces, raw)])
  /\ UNCHANGED <<document, line, refused>>

RefuseProfile ==
  /\ Loading /\ ~SoundProfile
  /\ refused' = TRUE
  /\ UNCHANGED <<document, profiles, line>>

(***************************************************************************)
(* The queries of a profile                                                *)
(***************************************************************************)

\* PieceIndexAt, of a station given twice as large.
PieceOf(profile, twice) ==
  Max({1} \cup {i \in DOMAIN profile.pieces : 2 * profile.pieces[i].from <= twice})

Value(profile, s) ==
  LET p == profile.pieces[PieceOf(profile, 2 * s)]
  IN  Evaluate(p.formula, s - p.origin)

IntegralFromStart(profile, s) ==
  LET i == PieceOf(profile, 2 * s)
  IN  profile.integrals[i] + Over(profile.pieces[i], s)

\* LocalPolynomialDegree, as far as the line asks.
IsConstant(c) == \A k \in 2..6 : c[k] = 0

\* The stations next to the roots of a polynomial within lower..upper: the roots of
\* its derivative part the interval, and a part whose ends differ in sign is bisected.
Roots(c, lower, upper) ==
  LET derivative[k \in 0..5] == IF k = 0 THEN c ELSE Derivative(derivative[k - 1])
      of[k \in 0..5] ==
        LET degree == Max({0} \cup {i \in 1..5 : derivative[k][i + 1] # 0})
            at(x) == Evaluate(derivative[k], x)
            parts == {lower, upper} \cup of[k + 1]
            cell(a) == a < upper /\ (at(a) < 0) # (at(a + 1) < 0)
            parted == {p \in parts \X parts :
                         p[1] < p[2] /\ \A x \in parts : ~(p[1] < x /\ x < p[2])}
        IN  CASE degree = 0 -> {}
              [] degree = 1 -> {x \in lower..upper : at(x) = 0} \cup
                               UNION {{a, a + 1} : a \in {x \in lower..upper : cell(x)}}
              [] OTHER ->
                   {x \in parts : at(x) = 0} \cup
                   UNION {LET a == CHOOSE x \in ab[1] .. ab[2] - 1 : cell(x) IN {a, a + 1} :
                            ab \in {p \in parted : /\ 0 \notin {at(p[1]), at(p[2])}
                                                   /\ (at(p[1]) < 0) # (at(p[2]) < 0)}}
  IN  of[0]

Size(n) == IF n < 0 THEN -n ELSE n

\* A bug: at the ends of the pieces alone.
ValueAtTheEnds(profile) ==
  Max(UNION {{Size(Evaluate(p.formula, x)) : x \in {p.from - p.origin, p.to - p.origin}} :
             p \in {profile.pieces[i] : i \in DOMAIN profile.pieces}})

\* At the ends of each piece and where its slope is zero.
MaximumAbsoluteValue(profile) ==
  Max(UNION {{Size(Evaluate(p.formula, x)) :
                x \in {p.from - p.origin, p.to - p.origin} \cup
                      Roots(Derivative(p.formula), p.from - p.origin, p.to - p.origin)} :
             p \in {profile.pieces[i] : i \in DOMAIN profile.pieces}})

(***************************************************************************)
(* The constructor of TrackGeometry                                        *)
(***************************************************************************)

FinalPiece(p) == p.pieces[Len(p.pieces)]

SameDomain == \A f \in 2..3 : Size(profiles[f].end - profiles[1].end) <= Slack

CommonEnd == Min({profiles[f].end : f \in 1..3})

\* ShortenDomainEndTo, which an end before the final piece refuses.
CanShorten(p) == FinalPiece(p).from < CommonEnd

Shorten(p) ==
  [p EXCEPT !.end = CommonEnd,
            !.pieces[Len(p.pieces)].to = CommonEnd,
            !.breakpoints = {b \in @ : b # Max(@)} \cup {CommonEnd}]

\* A bug: the breakpoints of the curvature alone.
BreakpointsOfTheCurvature(families) ==
  Sorted(families[1].breakpoints, LAMBDA b : b)

\* The formulas of the centreline change where those of a family do.
Breakpoints(families) ==
  Sorted(families[1].breakpoints \cup families[3].breakpoints, LAMBDA b : b)

Panels(length) == Max({1, (length + document.spacing - 1) \div document.spacing})

\* The nodes of one stretch, at twice their stations.
Stretch(from, to) ==
  [k \in 1..Panels(to - from) |-> 2 * from + (2 * (to - from) * (k - 1)) \div Panels(to - from)]

Stations(families) ==
  LET b == Breakpoints(families)
  IN  Append(FlattenSeq([i \in 1 .. Len(b) - 1 |-> Stretch(b[i], b[i + 1])]), 2 * CommonEnd)

\* What holds of the interval that a node starts is found at its middle.
Node(curvature, stations, i) ==
  LET middle == (stations[i] + stations[i + 1]) \div 2
      c == curvature.pieces[PieceOf(curvature, middle)].formula
  IN  [at |-> stations[i],
       curvature |-> IF IsConstant(c) THEN c[1] ELSE Nowhere]

SoundLine ==
  /\ document.baselength > 0 /\ document.spacing > 0
  /\ SameDomain
  /\ \A f \in 1..3 : CanShorten(profiles[f])
  /\ LET families == [f \in 1..3 |-> Shorten(profiles[f])]
     IN  /\ Len(Stations(families)) <= MaxNodes
         /\ MaximumAbsoluteValue(families[2]) < document.baselength

BuildLine ==
  /\ ~refused /\ line = <<>> /\ Len(profiles) = 3
  /\ SoundLine
  /\ LET families == [f \in 1..3 |-> Shorten(profiles[f])]
         stations == Stations(families)
     IN  /\ profiles' = families
         /\ line' = [i \in 1 .. Len(stations) - 1 |-> Node(families[1], stations, i)]
  /\ UNCHANGED <<document, refused>>

RefuseLine ==
  /\ ~refused /\ line = <<>> /\ Len(profiles) = 3
  /\ ~SoundLine
  /\ refused' = TRUE
  /\ UNCHANGED <<document, profiles, line>>

Next == BuildProfile \/ RefuseProfile \/ BuildLine \/ RefuseLine

Spec == Init /\ [][Next]_vars

(***************************************************************************)
(* The queries of a line, which goes on beyond what is defined             *)
(***************************************************************************)

End == profiles[1].end

Clamped(s) == Max({0, Min({s, End})})

Region(s) == CASE s < 0 -> "before" [] s > End -> "after" [] OTHER -> "within"

Curvature(s) == IF Region(s) = "within" THEN Value(profiles[1], s) ELSE 0

Superelevation(s) == Value(profiles[2], Clamped(s))

Grade(s) == Value(profiles[3], Clamped(s))

Heading(s) == IntegralFromStart(profiles[1], Clamped(s))

\* How far the centreline has come up; beyond the definition it goes straight on.
Height(s) ==
  IntegralFromStart(profiles[3], Clamped(s)) + (s - Clamped(s)) * Grade(s)

-----------------------------------------------------------------------------
\* The pieces of a profile lie end to end, from its start to its end, and within
\* the segments that their windows leave.
Tiles(p) ==
  /\ p.pieces[1].from = 0 /\ FinalPiece(p).to = p.end
  /\ \A i \in DOMAIN p.pieces : p.pieces[i].from < p.pieces[i].to
  /\ \A i \in 1 .. Len(p.pieces) - 1 : p.pieces[i].to = p.pieces[i + 1].from

\* A profile never jumps, and within a segment, where a window meets what is left
\* of it, neither do its first two derivatives.
Smooth(p, declared) ==
  \A i \in 1 .. Len(p.pieces) - 1 :
    LET a == p.pieces[i]
        b == p.pieces[i + 1]
        before == Jet(a.formula, a.to - a.origin)
        after == Jet(b.formula, b.from - b.origin)
    IN  IF a.to \in {Boundary(declared.segments, k) : k \in DOMAIN declared.segments}
        THEN before[1] = after[1]
        ELSE before = after

\* Outside the windows a profile is what its segments declare.
AsDeclared(p, declared) ==
  \A i \in DOMAIN declared.segments :
    \A s \in Boundary(declared.segments, i - 1) .. Boundary(declared.segments, i) :
      \/ s > p.end
      \/ \E j \in DOMAIN declared.seams :
           2 * Size(s - Boundary(declared.segments, declared.seams[j].after))
             < declared.seams[j].width
      \/ Value(p, s) = Evaluate(Formula(declared.segments[i]),
                               s - Boundary(declared.segments, i - 1))

\* From one station to the next the integral grows by what the values and their
\* derivatives at both make of a quintic.
Grows(p, integral(_)) ==
  \A s \in 0 .. p.end - 1 :
    LET piece == p.pieces[PieceOf(p, 2 * s)]
        a == Jet(piece.formula, s - piece.origin)
        b == Jet(piece.formula, s + 1 - piece.origin)
    IN  120 * (integral(s + 1) - integral(s))
          = 60 * (a[1] + b[1]) + 12 * (a[2] - b[2]) + a[3] + b[3]

\* A profile is zero before its support, and not at once after it.
Acts(p) ==
  /\ \A s \in 0..p.end : p.support = Nowhere \/ s < p.support => Value(p, s) = 0
  /\ p.support # Nowhere =>
       \E s \in p.support .. p.pieces[PieceOf(p, 2 * p.support)].to :
         Jet(p.pieces[PieceOf(p, 2 * p.support)].formula, s - p.support) # <<0, 0, 0>>

\* The interval of a node lies between the changes of both formulas, and is taken
\* for straight or circular only where it is.
NodesPart ==
  \A i \in DOMAIN line :
    LET to == IF i = Len(line) THEN 2 * End ELSE line[i + 1].at
    IN  /\ line[i].at < to
        /\ \A f \in {1, 3} : \A j \in DOMAIN profiles[f].pieces :
             LET edge == 2 * profiles[f].pieces[j].from
             IN  ~(line[i].at < edge /\ edge < to)
        /\ line[i].curvature # Nowhere =>
             \A s \in 0..End : line[i].at <= 2 * s /\ 2 * s < to => Curvature(s) = line[i].curvature

\* A line that is built is the one declared: every family is continuous, keeps to
\* its segments outside the windows and acts from its support on, heading and
\* height are the integrals of curvature and grade, beyond the definition too,
\* nowhere does the superelevation reach the baselength, and no interval of a node
\* straddles a change of formula.
LineIsAsDeclared ==
  line # <<>> =>
    /\ \A f \in 1..3 :
         LET p == profiles[f]
         IN  /\ Tiles(p) /\ Acts(p)
             /\ Smooth(p, document[Family[f]]) /\ AsDeclared(p, document[Family[f]])
    /\ Grows(profiles[1], Heading) /\ Grows(profiles[3], Height)
    /\ \A s \in {-2, -1, End, End + 1} :
         /\ Heading(s + 1) = Heading(s)
         /\ Height(s + 1) - Height(s) = Grade(s)
    /\ \A s \in 0..End : Size(Superelevation(s)) < document.baselength
    /\ NodesPart
=============================================================================
