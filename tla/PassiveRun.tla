----------------------------- MODULE PassiveRun -----------------------------
(***************************************************************************)
(* A passive qualification run, RunVehicleQualification: one advance over  *)
(* the whole duration, then every sample of it is installed in a second    *)
(* context and observed.  Where a carrier or a body is on the line is      *)
(* found from where it was at the sample before; what the run says of      *)
(* itself, its rows of patches, the first use of the line beyond either    *)
(* end and the longest spells without contact, is gathered on the way.     *)
(*                                                                         *)
(* A state is the stations its bodies ride at and the patches under its    *)
(* wheels.  The program sees places, and a line may pass a place twice.    *)
(***************************************************************************)
EXTENDS Integers, Sequences, SequencesExt, FiniteSetsExt

CONSTANTS
  Samples,            \* sample_count
  Carriers, Bodies,   \* carriers and representative bodies, disjoint sets of numbers
  Wheels,             \* how many
  Runs,               \* the dense states an advance may return, [at, patches] each
  Seeds,              \* the initial station of each carrier and body
  Place(_),           \* of a station, on the line or beyond its ends
  Project(_, _),      \* Project(place, seed): ProjectPointOntoSeededBranch
  Lost,               \* it found no regular local projection
  Start, End,         \* the definition interval of the line
  None

Riders == Carriers \cup Bodies
DenseStates == [at : [Riders -> Int], patches : [1..Wheels -> Nat]]

\* A projection follows the line from where it starts: what is where it was a sample
\* ago, or at the start, and moved as a run has it, is found where it is, or lost.
FollowsTheLine(run) ==
  \A s \in 1..Samples, b \in Riders :
    Project(Place(run[s].at[b]), IF s = 1 THEN Seeds[b] ELSE run[s - 1].at[b])
      \in {run[s].at[b], Lost}

PassiveAssumption ==
  /\ Samples \in Nat \ {0} /\ Wheels \in Nat
  /\ Carriers \subseteq Nat /\ Bodies \subseteq Nat /\ Carriers \cap Bodies = {}
  /\ Seeds \in [Riders -> Int] /\ {Start, End} \subseteq Int /\ Lost \notin Int
  /\ None \notin [carrier : Carriers, sample : 1..Samples, station : Int]
  /\ \A run \in Runs :
       run \in Seq(DenseStates) /\ Len(run) = Samples /\ FollowsTheLine(run)

VARIABLES
  stage,         \* the next statement of the run
  dense,         \* dense_states
  sample,        \* the sample observed next
  seeds,         \* *_projection_histories
  observations,  \* observations: [stations, patches]
  rows,          \* patch_observations: <<sample, wheel, patch>>
  before, after, \* *_definition_interval: [carrier, sample, station], or None
  current, longest,  \* *_zero_contact_runs
  report         \* the stage in failure.json, or None

found == <<seeds, observations, rows, before, after, current, longest>>
vars  == <<stage, dense, sample, found, report>>

Init ==
  /\ stage = "construct" /\ dense = <<>> /\ sample = 1
  /\ seeds = Seeds
  /\ observations = <<>> /\ rows = <<>>
  /\ before = None /\ after = None
  /\ current = [w \in 1..Wheels |-> 0] /\ longest = [w \in 1..Wheels |-> 0]
  /\ report = None
-----------------------------------------------------------------------------
\* QualificationIntegrationRun reports what it rethrows.
IntegrationFails(what) ==
  /\ stage' = "rejected" /\ report' = what
  /\ UNCHANGED <<dense, sample, found>>

Construct ==
  /\ stage = "construct" /\ stage' = "advance"
  /\ UNCHANGED <<dense, sample, found, report>>

ConstructFails == stage = "construct" /\ IntegrationFails("construction")

\* What an advance promises passes the checks of the batch.
Advance(run) ==
  /\ stage = "advance" /\ stage' = "observe"
  /\ dense' = run
  /\ UNCHANGED <<sample, found, report>>

AdvanceFails == stage = "advance" /\ IntegrationFails("advance")

\* ProjectBodyOriginForObservation, for every carrier and body.
Stations == [b \in Riders |-> Project(Place(dense[sample].at[b]), seeds[b])]

\* A slip that is not made: the bodies go on from where the carriers were placed.
CarryOnCarriersOnly == [b \in DOMAIN seeds |-> IF b \in Carriers THEN Stations[b] ELSE seeds[b]]

\* Each has a history of its own.
CarryOn == Stations

\* The rows of one sample, wheel by wheel and patch by patch.
RowsOf(s) ==
  FlattenSeq([w \in 1..Wheels |->
    [p \in 1..dense[s].patches[w] |-> <<s, w, p>>]])

\* RecordBoundaryUse: the first carrier of the first sample that is beyond.
FirstUse(use, beyond) ==
  IF use # None \/ beyond = {} THEN use
  ELSE [carrier |-> Min(beyond), sample |-> sample, station |-> Stations[Min(beyond)]]

Observe ==
  /\ stage = "observe" /\ sample <= Samples
  /\ Lost \notin {Stations[b] : b \in DOMAIN Stations}
  /\ seeds' = CarryOn
  /\ observations' =
       Append(observations, [stations |-> Stations, patches |-> dense[sample].patches])
  /\ rows' = rows \o RowsOf(sample)
  /\ current' = [w \in 1..Wheels |-> IF dense[sample].patches[w] = 0 THEN current[w] + 1 ELSE 0]
  /\ longest' = [w \in 1..Wheels |-> Max({longest[w], current'[w]})]
  /\ before' = FirstUse(before, {c \in Carriers : Stations[c] < Start})
  /\ after' = FirstUse(after, {c \in Carriers : Stations[c] > End})
  /\ sample' = sample + 1
  /\ UNCHANGED <<stage, dense, report>>

\* A projection is lost, or an evaluation, a check or a frame of the scene fails.
ObserveFails ==
  /\ stage = "observe" /\ sample <= Samples
  /\ stage' = "rejected"
  /\ UNCHANGED <<dense, sample, found, report>>

\* The scene record is closed, the tables are written, and the directory renamed.
Publish ==
  /\ stage = "observe" /\ sample > Samples
  /\ stage' \in {"published", "rejected"}
  /\ UNCHANGED <<dense, sample, found, report>>

Next ==
  \/ Construct \/ ConstructFails
  \/ \E run \in Runs : Advance(run)
  \/ AdvanceFails
  \/ Observe \/ ObserveFails \/ Publish

Spec == Init /\ [][Next]_vars
-----------------------------------------------------------------------------
Without(w, i, j) == \A s \in i..j : dense[s].patches[w] = 0

Spells(w) == {s \in (1..Samples) \X (1..Samples) : s[1] <= s[2] /\ Without(w, s[1], s[2])}

Rode == (1..Samples) \X Carriers

\* The first in time, and of those the first carrier.
FirstOf(use, uses) ==
  IF uses = {} THEN use = None
  ELSE \E u \in uses :
         /\ \A v \in uses : u[1] < v[1] \/ (u[1] = v[1] /\ u[2] <= v[2])
         /\ use = [carrier |-> u[2], sample |-> u[1], station |-> dense[u[1]].at[u[2]]]

\* What is published tells the run: of each sample where on the line every
\* carrier and body was riding, though the line passes that place twice, each
\* patch once and in order, the first use of the line beyond either end, and of
\* each wheel the longest spell without contact.
RecordTellsTheRun ==
  stage = "published" =>
    /\ Len(observations) = Samples
    /\ \A s \in 1..Samples :
         /\ observations[s].patches = dense[s].patches
         /\ \A b \in Riders : observations[s].stations[b] = dense[s].at[b]
    /\ ToSet(rows) = {r \in (1..Samples) \X (1..Wheels) \X (1..Len(rows)) :
                        r[3] <= dense[r[1]].patches[r[2]]}
    /\ \A i, j \in DOMAIN rows : i < j =>
         \/ rows[i][1] < rows[j][1]
         \/ rows[i][1] = rows[j][1] /\ rows[i][2] < rows[j][2]
         \/ rows[i][1] = rows[j][1] /\ rows[i][2] = rows[j][2] /\ rows[i][3] < rows[j][3]
    /\ FirstOf(before, {u \in Rode : dense[u[1]].at[u[2]] < Start})
    /\ FirstOf(after, {u \in Rode : dense[u[1]].at[u[2]] > End})
    /\ \A w \in 1..Wheels : longest[w] = Max({0} \cup {s[2] - s[1] + 1 : s \in Spells(w)})
=============================================================================
