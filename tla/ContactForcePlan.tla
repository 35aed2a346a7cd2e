-------------------------- MODULE ContactForcePlan --------------------------
(***************************************************************************)
(* WheelRailContactForcePlan evaluated in one workspace.  Each carrier is  *)
(* projected onto the line from a hint; then the interfaces are evaluated, *)
(* one after the other or by a team of threads, into buffers that outlive  *)
(* the call, as do the results kept per interface and the failures of the  *)
(* last team.  What the caller gave is written at the very end, or not at  *)
(* all.                                                                    *)
(*                                                                         *)
(* The model's numbers are functions: where a carrier of a state projects  *)
(* to from a hint, what an interface is then evaluated at, and what that   *)
(* ends in.                                                                *)
(***************************************************************************)
EXTENDS Integers, FiniteSets, NaturalsInduction, WellFoundedInduction, TLAPS

CONSTANTS
    Carriers, Interfaces,  \* how many
    CarrierOf,    \* CarrierOf[i]: the carrier whose station interface i shares
    State, Hint,
    NotFinite,    \* a hint that is not a number
    Projection,   \* Projection[s][c][h]: the station it ends at, or Lost
    Lost,
    Unusable,     \* <<s, c, station>> at which no kinematics can be formed
    Input,        \* Input[s][i][station]: the WheelRailContactInput
    Fate,         \* Fate[input]: "fine", or where its evaluation throws
    MaxWorkers,
    Nothing,      \* asked or answered yet
    None

Carrier   == 1..Carriers
Interface == 1..Interfaces
Thread    == 1..MaxWorkers
Reached  ==
    (UNION {{Projection[s][c][h] : h \in Hint} : s \in State, c \in Carrier}) \ {Lost}
AllInputs    == UNION {{Input[s][i][x] : x \in Reached} : s \in State, i \in Interface}

PlanAssumption ==
    /\ {Carriers, Interfaces, MaxWorkers} \subseteq Nat \ {0}
    /\ CarrierOf \in [Interface -> Carrier]
    /\ Fate \in [AllInputs -> {"fine", "unplaced", "refused", "not finite"}]
    /\ Nothing # None /\ None \notin {"unplaced", "refused", "not finite"}

Task == {"hints", "forces", "observations"}

Question == [task : Task, state : State, hints : [Carrier -> Hint \cup {NotFinite}]]

VARIABLES
    question,      \* what was asked last
    answer,        \* what came back, None until then
    workers,       \* threads of the team, 1 for the serial loop, 0 outside the loops
    left,          \* left[t]: the interfaces thread t has still to evaluate
    stations,      \* carriers_: where the projections ended
    kept,          \* interface_evaluation_caches_: [key, result], or None
    wrenches,      \* pending_wrenches_
    observations,  \* pending_interface_observations_
    failures       \* pending_failures_

vars == <<question, answer, workers, left, stations, kept, wrenches, observations, failures>>
pending == <<kept, wrenches, observations, failures>>

TypeOK ==
    /\ question \in Question \cup {Nothing}
    /\ workers \in 0..MaxWorkers
    /\ left \in [Thread -> SUBSET Interface]
    /\ stations \in [Carrier -> Reached \cup {None}]
    /\ kept \in [Interface -> [key : AllInputs, result : AllInputs] \cup {None}]
    /\ wrenches \in [Interface -> AllInputs \cup {None}]
    /\ observations \in [Interface -> AllInputs \cup {None}]
    /\ failures \in [Interface -> {"unplaced", "refused", "not finite", None}]

Lowest(S) == CHOOSE x \in S : \A y \in S : x <= y

Threw(what, ordinal) == [threw |-> what, at |-> ordinal]

-----------------------------------------------------------------------------
(***************************************************************************)
(* What each question is to be answered with                               *)
(***************************************************************************)

StationsOf(q) == [c \in Carrier |-> Projection[q.state][c][q.hints[c]]]

InputsOf(q) == [i \in Interface |-> Input[q.state][i][StationsOf(q)[CarrierOf[i]]]]

ReplyTo(q) ==
    LET lost     == {c \in Carrier : StationsOf(q)[c] = Lost}
        unusable == {c \in Carrier : <<q.state, c, StationsOf(q)[c]>> \in Unusable}
        failing  == {i \in Interface : Fate[InputsOf(q)[i]] # "fine"}
    IN  IF NotFinite \in {q.hints[c] : c \in Carrier} THEN Threw("a hint is not finite", 0)
        ELSE IF lost # {} THEN Threw("projection", Lowest(lost))
        ELSE IF q.task = "hints" THEN [hints |-> StationsOf(q)]
        ELSE IF unusable # {} THEN Threw("kinematics", Lowest(unusable))
        ELSE IF failing # {} THEN Threw(Fate[InputsOf(q)[Lowest(failing)]], Lowest(failing))
        ELSE [wrenches |-> InputsOf(q),
              observations |-> IF q.task = "observations" THEN InputsOf(q) ELSE None]

-----------------------------------------------------------------------------
(***************************************************************************)
(* The call                                                                *)
(***************************************************************************)

Init ==
    /\ question = Nothing /\ answer = Nothing
    /\ workers = 0 /\ left = [t \in Thread |-> {}]
    /\ stations = [c \in Carrier |-> None]
    /\ kept = [i \in Interface |-> None] /\ wrenches = [i \in Interface |-> None]
    /\ observations = [i \in Interface |-> None] /\ failures = [i \in Interface |-> None]

\* CalcProjectionStationHints, CalcAppliedForces, CalcAppliedForcesAndObservations
Call(q) ==
    /\ answer # None
    /\ question' = q
    /\ answer' = None
    /\ UNCHANGED <<workers, left, stations, pending>>

Called == answer = None /\ workers = 0

AllFinite == \A c \in Carrier : question.hints[c] # NotFinite

RejectHint ==
    /\ Called /\ ~AllFinite
    /\ answer' = Threw("a hint is not finite", 0)
    /\ UNCHANGED <<question, workers, left, stations, pending>>

Projected(c) == Projection[question.state][c][question.hints[c]]

\* The carriers are projected in order, up to the first that is lost.
Projects ==
    LET lost == {c \in Carrier : Projected(c) = Lost}
    IN  stations' = [c \in Carrier |-> IF \E l \in lost : l <= c THEN stations[c] ELSE Projected(c)]

ProjectionFails ==
    /\ Called /\ AllFinite
    /\ \E c \in Carrier :
          /\ Projected(c) = Lost
          /\ \A before \in 1..(c - 1) : Projected(before) # Lost
          /\ answer' = Threw("projection", c)
    /\ Projects
    /\ UNCHANGED <<question, workers, left, pending>>

AllProjected == Called /\ AllFinite /\ \A c \in Carrier : Projected(c) # Lost

ReturnHints ==
    /\ AllProjected /\ question.task = "hints"
    /\ Projects
    /\ answer' = [hints |-> stations']
    /\ UNCHANGED <<question, workers, left, pending>>

Moves(c) == <<question.state, c, Projected(c)>> \notin Unusable

\* CompleteCarrierKinematics and CompleteInterfaceKinematics, in order.
KinematicsFail ==
    /\ AllProjected /\ question.task # "hints"
    /\ \E c \in Carrier :
          /\ ~Moves(c)
          /\ \A before \in 1..(c - 1) : Moves(before)
          /\ answer' = Threw("kinematics", c)
    /\ Projects
    /\ UNCHANGED <<question, workers, left, pending>>

\* schedule(static): the interfaces are cut into as many runs as there are
\* threads, the first of them one longer if they do not come out even.
Share(t, n) ==
    LET each  == Interfaces \div n
        extra == Interfaces % n
        Upto(k) == k * each + (IF k < extra THEN k ELSE extra)
    IN  IF t > n THEN {} ELSE (Upto(t - 1) + 1)..Upto(t)

\* A slip that is not made: the failures of an earlier team stay.
StartLoopOnTop(n) ==
    /\ AllProjected /\ question.task # "hints"
    /\ \A c \in Carrier : Moves(c)
    /\ Projects
    /\ workers' = n
    /\ left' = [t \in Thread |-> Share(t, n)]
    /\ UNCHANGED <<question, answer, pending>>

\* requested_worker_count, and as many threads as the runtime then grants.  Only
\* a team clears the failures.
StartLoop(n) ==
    /\ AllProjected /\ question.task # "hints"
    /\ \A c \in Carrier : Moves(c)
    /\ Projects
    /\ workers' = n
    /\ left' = [t \in Thread |-> Share(t, n)]
    /\ failures' = IF n > 1 THEN [i \in Interface |-> None] ELSE failures
    /\ UNCHANGED <<question, answer, kept, wrenches, observations>>

InputAt(i) == Input[question.state][i][stations[CarrierOf[i]]]

\* MakeContactInputKey: every component of the input.
Key(input) == input

\* evaluate_interface: the result kept for the interface is used if it is of
\* this very input; a check of the result may still fail.
KeptFor(i) ==
    LET input == InputAt(i)
    IN  IF Fate[input] = "unplaced" THEN kept[i]
        ELSE IF kept[i] # None /\ kept[i].key = Key(input) THEN kept[i]
        ELSE IF Fate[input] = "refused" THEN kept[i]
        ELSE [key |-> Key(input), result |-> input]

\* Before a check of the result fails, an observation has been begun.
Evaluates(i) ==
    /\ kept' = [kept EXCEPT ![i] = KeptFor(i)]
    /\ wrenches' = IF Fate[InputAt(i)] = "fine"
                     THEN [wrenches EXCEPT ![i] = KeptFor(i).result] ELSE wrenches
    /\ observations' =
          IF question.task = "forces" \/ Fate[InputAt(i)] \in {"unplaced", "refused"}
            THEN observations
          ELSE [observations EXCEPT ![i] =
                  IF Fate[InputAt(i)] = "fine" THEN KeptFor(i).result ELSE None]

\* One thread takes the next interface of its share.
Evaluate(t) ==
    /\ left[t] # {}
    /\ LET i == Lowest(left[t])
           fate == Fate[InputAt(i)]
       IN  /\ Evaluates(i)
           /\ IF workers = 1 /\ fate # "fine"
                THEN /\ answer' = Threw(fate, i)
                     /\ workers' = 0
                     /\ left' = [left EXCEPT ![t] = {}]
                     /\ UNCHANGED failures
                ELSE /\ left' = [left EXCEPT ![t] = @ \ {i}]
                     /\ failures' = IF fate = "fine" THEN failures
                                    ELSE [failures EXCEPT ![i] = fate]
                     /\ UNCHANGED <<answer, workers>>
    /\ UNCHANGED <<question, stations>>

LoopEnded == workers > 0 /\ \A t \in Thread : left[t] = {}

Rethrow ==
    /\ LoopEnded /\ workers > 1
    /\ \E i \in Interface :
          /\ failures[i] # None
          /\ \A before \in 1..(i - 1) : failures[before] = None
          /\ answer' = Threw(failures[i], i)
    /\ workers' = 0
    /\ UNCHANGED <<question, left, stations, pending>>

Publish ==
    /\ LoopEnded
    /\ workers > 1 => \A i \in Interface : failures[i] = None
    /\ answer' = [wrenches |-> wrenches,
                  observations |-> IF question.task = "observations" THEN observations ELSE None]
    /\ workers' = 0
    /\ UNCHANGED <<question, left, stations, pending>>

\* SeedExactWheelRailContactEvaluationCaches between two calls, from a workspace
\* that some state has been evaluated in, in part or in whole.
Seed(s, x, evaluated) ==
    /\ answer # None
    /\ \A i \in evaluated : Fate[Input[s][i][x]] \in {"fine", "not finite"}
    /\ kept' = [i \in Interface |->
                  LET input == Input[s][i][x]
                  IN  IF i \notin evaluated THEN None
                      ELSE IF kept[i] # None /\ kept[i].key = Key(input) THEN kept[i]
                      ELSE [key |-> Key(input), result |-> input]]
    /\ UNCHANGED <<question, answer, workers, left, stations, wrenches, observations, failures>>

Step ==
    \/ RejectHint \/ ProjectionFails \/ ReturnHints \/ KinematicsFail
    \/ \E n \in Thread : StartLoop(n)
    \/ \E t \in Thread : Evaluate(t)
    \/ Rethrow \/ Publish

Next ==
    \/ \E q \in Question : Call(q)
    \/ Step
    \/ \E s \in State, x \in Reached, evaluated \in SUBSET Interface : Seed(s, x, evaluated)

\* A call goes on, and so does each of its threads.
Spec == Init /\ [][Next]_vars /\ WF_vars(Step)
-----------------------------------------------------------------------------
Forces == INSTANCE ContactForces
          WITH Reply <- [q \in Question |-> ReplyTo(q)], Waiting <- None

\* Whatever team, earlier calls and seeded results: a call returns what the
\* question alone decides, whole and of this question, or throws what the serial
\* loop over the wheels would throw first, and it returns.
ImplementsForces == Forces!Spec
-----------------------------------------------------------------------------
(***************************************************************************)
(* Proved for any plan, team and projection, and whatever was evaluated    *)
(* before.  The inductive invariant says that a kept result is of its key, *)
(* and of the loop that every interface is in the share of some thread or  *)
(* settled: its result is in the buffers, or the team has its failure.     *)
(***************************************************************************)
KeptAreOfTheirKeys == \A i \in Interface : kept[i] # None => kept[i].result = kept[i].key

\* What the loop is entered with.
Prepared ==
    /\ answer = None /\ question \in Question /\ question.task # "hints"
    /\ AllFinite
    /\ \A c \in Carrier : Projected(c) # Lost /\ Moves(c)
    /\ stations = StationsOf(question)

Settled(i) ==
    IF Fate[InputAt(i)] = "fine"
      THEN /\ wrenches[i] = InputAt(i)
           /\ question.task = "observations" => observations[i] = InputAt(i)
      ELSE workers > 1 /\ failures[i] = Fate[InputAt(i)]

LoopCovers ==
    /\ \A t \in Thread : t > workers => left[t] = {}
    /\ \A i \in Interface : Settled(i) \/ \E t \in Thread : i \in left[t]
    /\ workers > 1 =>
         \A i \in Interface : failures[i] # None => failures[i] = Fate[InputAt(i)]

PlanInv ==
    /\ TypeOK
    /\ answer = None => question \in Question
    /\ workers = 0 => \A t \in Thread : left[t] = {}
    /\ KeptAreOfTheirKeys
    /\ workers > 0 => Prepared /\ LoopCovers
-----------------------------------------------------------------------------
\* Every set of natural numbers that is not empty has a least element,
LEMMA LeastOf ==
  ASSUME NEW T, T \subseteq Nat, T # {}
  PROVE  \E n \in T : \A m \in T : n <= m
<1> DEFINE Less == {p \in Nat \X Nat : p[1] < p[2]}
<1>1. IsWellFoundedOn(Less, Nat)
  BY NatLessThanWellFounded DEF OpToRel
<1>2. PICK n \in T : \A m \in T : <<m, n>> \notin Less
  <2> HIDE DEF Less
  <2>1. QED  BY <1>1, WFMin
<1>3. ASSUME NEW m \in T  PROVE n <= m
  <2>1. m \in Nat /\ n \in Nat /\ <<m, n>> \in Nat \X Nat /\ <<m, n>>[1] = m /\ <<m, n>>[2] = n
    OBVIOUS
  <2>2. ~ (m < n)
    BY <1>2, <2>1
  <2>3. QED  BY <2>1, <2>2
<1>4. QED  BY <1>3

\* and Lowest names it.
LEMMA LowestIs ==
  ASSUME NEW S, S \subseteq Nat, NEW x \in S, \A y \in S : x <= y
  PROVE  Lowest(S) = x
<1> DEFINE low == CHOOSE z \in S : \A y \in S : z <= y
<1>1. low \in S /\ \A y \in S : low <= y
  OBVIOUS
<1>2. Lowest(S) = low
  BY DEF Lowest
<1> HIDE DEF low
<1>3. low \in Nat /\ x \in Nat /\ low <= x /\ x <= low
  BY <1>1
<1>4. QED  BY <1>2, <1>3

LEMMA LowestIn ==
  ASSUME NEW S, S \subseteq Nat, S # {}
  PROVE  Lowest(S) \in S /\ \A y \in S : Lowest(S) <= y
BY LeastOf, LowestIs

LEMMA PlanNumbers ==
  ASSUME PlanAssumption
  PROVE  /\ Carriers \in Nat \ {0} /\ Interfaces \in Nat \ {0} /\ MaxWorkers \in Nat \ {0}
         /\ Carrier \subseteq Nat /\ Interface \subseteq Nat /\ Thread \subseteq Nat
<1>1. Carriers \in Nat \ {0} /\ Interfaces \in Nat \ {0} /\ MaxWorkers \in Nat \ {0}
  <2>1. {Carriers, Interfaces, MaxWorkers} \subseteq Nat \ {0}
    BY DEF PlanAssumption
  <2>2. QED  BY <2>1
<1>2. QED  BY <1>1 DEF Carrier, Interface, Thread

\* The shares of a team are of the plan's interfaces, and each is in one of them.
LEMMA SharesCover ==
  ASSUME PlanAssumption, NEW n \in Thread
  PROVE  /\ \A t \in Thread : Share(t, n) \in SUBSET Interface
         /\ \A t \in Thread : t > n => Share(t, n) = {}
         /\ \A i \in Interface : \E t \in Thread : i \in Share(t, n)
<1> DEFINE each  == Interfaces \div n
           extra == Interfaces % n
           Upto(k) == k * each + (IF k < extra THEN k ELSE extra)
<1>1. n \in Nat \ {0} /\ Interfaces \in Nat \ {0} /\ n <= MaxWorkers /\ MaxWorkers \in Nat
  BY PlanNumbers DEF Thread
<1>2. each \in Nat /\ extra \in 0..(n - 1) /\ Interfaces = n * each + extra
  BY <1>1
<1>3. \A t \in Thread : Share(t, n) = IF t > n THEN {} ELSE (Upto(t - 1) + 1)..Upto(t)
  BY DEF Share
<1> HIDE DEF each, extra
<1>4. ASSUME NEW k \in 0..n
      PROVE  Upto(k) \in Nat /\ Upto(k) <= Interfaces
  <2>1. k \in Nat /\ k * each \in Nat /\ k * each <= n * each
    BY <1>1, <1>2
  <2>2. QED  BY <1>1, <1>2, <2>1
<1>5. Upto(0) = 0 /\ Upto(n) = Interfaces
  BY <1>1, <1>2
<1> HIDE DEF Upto
<1>6. ASSUME NEW t \in Thread
      PROVE  Share(t, n) \in SUBSET Interface
  <2>1. CASE t > n
    BY <1>3, <2>1
  <2>2. CASE ~ (t > n)
    <3>1. t \in 0..n /\ t - 1 \in 0..n
      BY <1>1, <2>2 DEF Thread
    <3>2. Upto(t - 1) \in Nat /\ Upto(t) \in Nat /\ Upto(t) <= Interfaces
      BY <1>4, <3>1
    <3>3. QED  BY <1>1, <1>3, <2>2, <3>2 DEF Interface
  <2>3. QED  BY <2>1, <2>2
<1>7. ASSUME NEW i \in Interface
      PROVE  \E t \in Thread : i \in Share(t, n)
  <2> DEFINE T == {k \in 0..n : i <= Upto(k)}
  <2>1. n \in T /\ T \subseteq Nat
    BY <1>1, <1>5 DEF Interface
  <2>2. PICK t \in T : \A m \in T : t <= m
    <3> HIDE DEF T
    <3>1. QED  BY <2>1, LeastOf
  <2>3. t # 0
    BY <1>5, <1>1 DEF Interface
  <2>4. t \in Thread /\ ~ (t > n) /\ t - 1 \in 0..n /\ ~ (t <= t - 1)
    BY <1>1, <2>3 DEF Thread
  <2>5. ~ (i <= Upto(t - 1))
    BY <2>2, <2>4
  <2>6. Upto(t - 1) \in Nat /\ Upto(t) \in Nat /\ i \in Nat
    BY <1>1, <1>4, <2>4 DEF Interface
  <2>7. i \in (Upto(t - 1) + 1)..Upto(t)
    BY <2>5, <2>6
  <2>8. QED  BY <1>3, <2>4, <2>7
<1>8. QED  BY <1>3, <1>6, <1>7
-----------------------------------------------------------------------------
(* What an answer has to be, by what the call has found out.               *)
LEMMA ProjectionsReach ==
  ASSUME NEW q \in Question, NEW c \in Carrier, q.hints[c] # NotFinite,
         Projection[q.state][c][q.hints[c]] # Lost
  PROVE  Projection[q.state][c][q.hints[c]] \in Reached
<1>1. q.state \in State /\ q.hints[c] \in Hint
  BY DEF Question
<1> DEFINE from == {Projection[q.state][c][h] : h \in Hint}
           all  == {{Projection[s][d][h] : h \in Hint} : s \in State, d \in Carrier}
<1>2. from \in all /\ Projection[q.state][c][q.hints[c]] \in from
  BY <1>1
<1>3. Reached = (UNION all) \ {Lost}
  BY DEF Reached
<1> HIDE DEF from, all
<1>4. QED  BY <1>2, <1>3

LEMMA PreparedInputs ==
  ASSUME PlanAssumption, Prepared, NEW i \in Interface
  PROVE  /\ InputAt(i) = InputsOf(question)[i]
         /\ InputAt(i) \in AllInputs
         /\ Fate[InputAt(i)] \in {"fine", "unplaced", "refused", "not finite"}
<1>1. CarrierOf[i] \in Carrier /\ question.state \in State
  BY DEF PlanAssumption, Prepared, Question
<1>2. stations[CarrierOf[i]] \in Reached
  BY <1>1, ProjectionsReach DEF Prepared, AllFinite, Projected, StationsOf
<1>3. InputAt(i) \in AllInputs
  <2> DEFINE of  == {Input[question.state][i][x] : x \in Reached}
             all == {{Input[s][j][x] : x \in Reached} : s \in State, j \in Interface}
  <2>1. of \in all /\ InputAt(i) \in of
    BY <1>1, <1>2 DEF InputAt
  <2>2. AllInputs = UNION all
    BY DEF AllInputs
  <2> HIDE DEF of, all
  <2>3. QED  BY <2>1, <2>2
<1>4. InputAt(i) = InputsOf(question)[i]
  BY DEF InputAt, InputsOf, Prepared
<1>5. QED  BY <1>3, <1>4 DEF PlanAssumption

LEMMA ReplyToBadHint ==
  ASSUME ~AllFinite
  PROVE  ReplyTo(question) = Threw("a hint is not finite", 0)
BY DEF ReplyTo, AllFinite

LEMMA ReplyToLost ==
  ASSUME PlanAssumption, AllFinite, NEW c \in Carrier, Projected(c) = Lost,
         \A before \in 1..(c - 1) : Projected(before) # Lost
  PROVE  ReplyTo(question) = Threw("projection", c)
<1> DEFINE lost == {d \in Carrier : StationsOf(question)[d] = Lost}
<1>1. \A d \in Carrier : StationsOf(question)[d] = Projected(d)
  BY DEF StationsOf, Projected
<1>2. c \in lost /\ lost \subseteq Nat
  BY <1>1, PlanNumbers
<1>3. \A d \in lost : c <= d
  <2>1. ASSUME NEW d \in lost, ~ (c <= d)  PROVE FALSE
    <3>1. d \in 1..(c - 1) /\ Projected(d) = Lost
      BY <1>1, <2>1, PlanNumbers DEF Carrier
    <3>2. QED  BY <3>1
  <2>2. QED  BY <2>1
<1>4. Lowest(lost) = c /\ lost # {}
  BY <1>2, <1>3, LowestIs
<1>5. NotFinite \notin {question.hints[d] : d \in Carrier}
  BY DEF AllFinite
<1>6. QED  BY <1>4, <1>5 DEF ReplyTo

LEMMA NoneLost ==
  ASSUME AllFinite, \A c \in Carrier : Projected(c) # Lost
  PROVE  /\ {d \in Carrier : StationsOf(question)[d] = Lost} = {}
         /\ NotFinite \notin {question.hints[d] : d \in Carrier}
         /\ \A d \in Carrier : StationsOf(question)[d] = Projected(d)
BY DEF StationsOf, Projected, AllFinite

LEMMA ReplyToHints ==
  ASSUME AllFinite, \A c \in Carrier : Projected(c) # Lost, question.task = "hints"
  PROVE  ReplyTo(question) = [hints |-> StationsOf(question)]
BY NoneLost DEF ReplyTo

LEMMA ReplyToUnusable ==
  ASSUME PlanAssumption, AllFinite, \A c \in Carrier : Projected(c) # Lost,
         question.task # "hints", NEW c \in Carrier, ~Moves(c),
         \A before \in 1..(c - 1) : Moves(before)
  PROVE  ReplyTo(question) = Threw("kinematics", c)
<1> DEFINE unusable ==
             {d \in Carrier : <<question.state, d, StationsOf(question)[d]>> \in Unusable}
<1>1. \A d \in Carrier : d \in unusable <=> ~Moves(d)
  BY NoneLost DEF Moves
<1>2. c \in unusable /\ unusable \subseteq Nat
  BY <1>1, PlanNumbers
<1>3. \A d \in unusable : c <= d
  <2>1. ASSUME NEW d \in unusable, ~ (c <= d)  PROVE FALSE
    <3>1. d \in 1..(c - 1) /\ ~Moves(d)
      BY <1>1, <2>1, PlanNumbers DEF Carrier
    <3>2. QED  BY <3>1
  <2>2. QED  BY <2>1
<1>4. Lowest(unusable) = c /\ unusable # {}
  BY <1>2, <1>3, LowestIs
<1>5. QED  BY <1>4, NoneLost DEF ReplyTo

LEMMA AllUsable ==
  ASSUME Prepared
  PROVE  /\ {d \in Carrier : StationsOf(question)[d] = Lost} = {}
         /\ NotFinite \notin {question.hints[d] : d \in Carrier}
         /\ {d \in Carrier : <<question.state, d, StationsOf(question)[d]>> \in Unusable} = {}
BY NoneLost DEF Prepared, Moves

LEMMA ReplyToFailing ==
  ASSUME PlanAssumption, Prepared, NEW i \in Interface, Fate[InputAt(i)] # "fine",
         \A before \in 1..(i - 1) : Fate[InputAt(before)] = "fine"
  PROVE  ReplyTo(question) = Threw(Fate[InputAt(i)], i)
<1> DEFINE failing == {j \in Interface : Fate[InputsOf(question)[j]] # "fine"}
<1>1. \A j \in Interface : InputAt(j) = InputsOf(question)[j]
  BY PreparedInputs
<1>2. i \in failing /\ failing \subseteq Nat
  BY <1>1, PlanNumbers
<1>3. \A j \in failing : i <= j
  <2>1. ASSUME NEW j \in failing, ~ (i <= j)  PROVE FALSE
    <3>1. j \in 1..(i - 1) /\ Fate[InputAt(j)] # "fine"
      BY <1>1, <2>1, PlanNumbers DEF Interface
    <3>2. QED  BY <3>1
  <2>2. QED  BY <2>1
<1>4. Lowest(failing) = i /\ failing # {}
  BY <1>2, <1>3, LowestIs
<1>5. QED  BY <1>1, <1>4, AllUsable DEF ReplyTo, Prepared

LEMMA ReplyToAll ==
  ASSUME PlanAssumption, Prepared, \A i \in Interface : Fate[InputAt(i)] = "fine"
  PROVE  ReplyTo(question) =
           [wrenches |-> InputsOf(question),
            observations |-> IF question.task = "observations" THEN InputsOf(question) ELSE None]
<1>1. {j \in Interface : Fate[InputsOf(question)[j]] # "fine"} = {}
  BY PreparedInputs
<1>2. QED  BY <1>1, AllUsable DEF ReplyTo, Prepared
-----------------------------------------------------------------------------
(* The inductive invariant.                                                *)
LEMMA PlanStarts ==
  ASSUME PlanAssumption, Init
  PROVE  PlanInv
<1>1. TypeOK
  BY PlanNumbers DEF Init, TypeOK
<1>2. answer # None /\ workers = 0
  BY DEF Init, PlanAssumption
<1>3. KeptAreOfTheirKeys /\ \A t \in Thread : left[t] = {}
  BY DEF Init, KeptAreOfTheirKeys
<1>4. QED  BY <1>1, <1>2, <1>3 DEF PlanInv

\* Outside the loop nothing is asked of the buffers.
LEMMA Outside ==
  ASSUME PlanInv, TypeOK', answer' = None => question' \in Question, workers' = 0,
         \A t \in Thread : left'[t] = {}, KeptAreOfTheirKeys'
  PROVE  PlanInv'
BY DEF PlanInv

LEMMA CallKeeps ==
  ASSUME PlanAssumption, PlanInv, NEW q \in Question, Call(q)
  PROVE  PlanInv' /\ Forces!Ask
<1>1. /\ answer # None /\ question' = q /\ answer' = None
      /\ workers' = workers /\ left' = left /\ stations' = stations /\ kept' = kept
      /\ wrenches' = wrenches /\ observations' = observations /\ failures' = failures
  BY DEF Call, pending
<1>2. workers = 0
  <2>1. ~ (workers > 0)
    BY <1>1 DEF PlanInv, Prepared
  <2>2. workers \in 0..MaxWorkers /\ MaxWorkers \in Nat
    BY PlanNumbers DEF PlanInv, TypeOK
  <2>3. QED  BY <2>1, <2>2
<1>3. TypeOK' /\ KeptAreOfTheirKeys'
  BY <1>1 DEF PlanInv, TypeOK, KeptAreOfTheirKeys
<1>4. PlanInv'
  BY <1>1, <1>2, <1>3 DEF PlanInv
<1>5. Forces!Ask
  BY <1>1 DEF Forces!Ask
<1>6. QED  BY <1>4, <1>5

\* What is left of the stations is of the type whatever was projected.
LEMMA ProjectsIsTyped ==
  ASSUME PlanInv, Called, AllFinite, Projects
  PROVE  stations' \in [Carrier -> Reached \cup {None}]
<1> DEFINE lost == {c \in Carrier : Projected(c) = Lost}
<1>1. stations' = [c \in Carrier |-> IF \E l \in lost : l <= c THEN stations[c] ELSE Projected(c)]
  BY DEF Projects
<1>2. ASSUME NEW c \in Carrier, ~ \E l \in lost : l <= c
      PROVE  Projected(c) \in Reached
  <2>1. Projected(c) # Lost
    <3>1. c <= c
      BY DEF Carrier
    <3>2. QED  BY <1>2, <3>1
  <2>2. QED  BY <2>1, ProjectionsReach DEF PlanInv, Called, AllFinite, Projected
<1>3. \A c \in Carrier : stations[c] \in Reached \cup {None}
  BY DEF PlanInv, TypeOK
<1> HIDE DEF lost
<1>4. QED  BY <1>1, <1>2, <1>3

\* An answer that is found before the loop.
LEMMA AnswersBefore ==
  ASSUME PlanAssumption, PlanInv, Called, answer' = ReplyTo(question), 
         stations' \in [Carrier -> Reached \cup {None}],
         UNCHANGED <<question, workers, left, pending>>
  PROVE  PlanInv' /\ Forces!Answer
<1>1. /\ question' = question /\ workers' = 0 /\ left' = left /\ kept' = kept
      /\ wrenches' = wrenches /\ observations' = observations /\ failures' = failures
      /\ workers = 0 /\ answer = None /\ question \in Question
  BY DEF Called, pending, PlanInv
<1>2. TypeOK' /\ KeptAreOfTheirKeys'
  BY <1>1 DEF PlanInv, TypeOK, KeptAreOfTheirKeys
<1>3. PlanInv'
  BY <1>1, <1>2 DEF PlanInv
<1>4. Forces!Answer
  BY <1>1 DEF Forces!Answer
<1>5. QED  BY <1>3, <1>4

LEMMA RejectHintKeeps ==
  ASSUME PlanAssumption, PlanInv, RejectHint
  PROVE  PlanInv' /\ Forces!Answer
<1>1. answer' = ReplyTo(question)
  BY ReplyToBadHint DEF RejectHint
<1>2. stations' \in [Carrier -> Reached \cup {None}]
  BY DEF RejectHint, PlanInv, TypeOK
<1>3. Called /\ UNCHANGED <<question, workers, left, pending>>
  BY DEF RejectHint
<1>4. QED  BY <1>1, <1>2, <1>3, AnswersBefore

LEMMA ProjectionFailsKeeps ==
  ASSUME PlanAssumption, PlanInv, ProjectionFails
  PROVE  PlanInv' /\ Forces!Answer
<1>1. answer' = ReplyTo(question)
  BY ReplyToLost DEF ProjectionFails
<1>2. stations' \in [Carrier -> Reached \cup {None}]
  BY ProjectsIsTyped DEF ProjectionFails
<1>3. Called /\ UNCHANGED <<question, workers, left, pending>>
  BY DEF ProjectionFails
<1>4. QED  BY <1>1, <1>2, <1>3, AnswersBefore

\* If none is lost, the stations are those of the question.
LEMMA ProjectsAll ==
  ASSUME AllProjected, Projects
  PROVE  stations' = StationsOf(question)
<1>1. {c \in Carrier : Projected(c) = Lost} = {}
  BY DEF AllProjected
<1>2. QED  BY <1>1 DEF Projects, StationsOf, Projected

LEMMA ReturnHintsKeeps ==
  ASSUME PlanAssumption, PlanInv, ReturnHints
  PROVE  PlanInv' /\ Forces!Answer
<1>1. Called /\ AllProjected /\ AllFinite /\ Projects /\ UNCHANGED <<question, workers, left, pending>>
  BY DEF ReturnHints, AllProjected
<1>2. answer' = ReplyTo(question)
  BY ProjectsAll, ReplyToHints, <1>1 DEF ReturnHints, AllProjected
<1>3. stations' \in [Carrier -> Reached \cup {None}]
  BY <1>1, ProjectsIsTyped
<1>4. QED  BY <1>1, <1>2, <1>3, AnswersBefore

LEMMA KinematicsFailKeeps ==
  ASSUME PlanAssumption, PlanInv, KinematicsFail
  PROVE  PlanInv' /\ Forces!Answer
<1>1. Called /\ AllProjected /\ AllFinite /\ Projects /\ UNCHANGED <<question, workers, left, pending>>
  BY DEF KinematicsFail, AllProjected
<1>2. answer' = ReplyTo(question)
  BY ReplyToUnusable DEF KinematicsFail, AllProjected
<1>3. stations' \in [Carrier -> Reached \cup {None}]
  BY <1>1, ProjectsIsTyped
<1>4. QED  BY <1>1, <1>2, <1>3, AnswersBefore

LEMMA StartLoopKeeps ==
  ASSUME PlanAssumption, PlanInv, NEW n \in Thread, StartLoop(n)
  PROVE  PlanInv' /\ UNCHANGED <<question, answer>>
<1>1. /\ AllProjected /\ Called /\ AllFinite /\ Projects /\ workers' = n
      /\ question.task # "hints" /\ \A c \in Carrier : Moves(c)
      /\ left' = [t \in Thread |-> Share(t, n)]
      /\ failures' = IF n > 1 THEN [i \in Interface |-> None] ELSE failures
      /\ question' = question /\ answer' = answer /\ kept' = kept /\ wrenches' = wrenches
      /\ observations' = observations
  BY DEF StartLoop, AllProjected
<1>2. stations' \in [Carrier -> Reached \cup {None}] /\ stations' = StationsOf(question)
  BY <1>1, ProjectsIsTyped, ProjectsAll
<1>3. n \in 1..MaxWorkers /\ MaxWorkers \in Nat
  BY PlanNumbers DEF Thread
<1>4. /\ \A t \in Thread : left'[t] \in SUBSET Interface
      /\ \A t \in Thread : t > n => left'[t] = {}
      /\ \A i \in Interface : \E t \in Thread : i \in left'[t]
  BY <1>1, SharesCover
<1>5. workers' \in 0..MaxWorkers /\ workers' > 0
  BY <1>1, <1>3
<1>6. failures' \in [Interface -> {"unplaced", "refused", "not finite", None}]
  BY <1>1 DEF PlanInv, TypeOK
<1>7. left' \in [Thread -> SUBSET Interface]
  BY <1>1, <1>4
<1>8. TypeOK'
  BY <1>1, <1>2, <1>5, <1>6, <1>7 DEF PlanInv, TypeOK
<1>9. KeptAreOfTheirKeys'
  BY <1>1 DEF PlanInv, KeptAreOfTheirKeys
<1>10. answer = None /\ question \in Question
  BY <1>1 DEF PlanInv, Called
<1>11. Prepared'
  BY <1>1, <1>2, <1>10
     DEF Prepared, AllProjected, AllFinite, Projected, Moves, StationsOf
<1>12. LoopCovers'
  BY <1>1, <1>4 DEF LoopCovers
<1>13. QED  BY <1>1, <1>5, <1>8, <1>9, <1>10, <1>11, <1>12 DEF PlanInv

\* One thread evaluates the next interface of its share: what it finds is settled,
\* and what was settled stays so.
LEMMA ResultsAreOfTheInput ==
  ASSUME PlanAssumption, PlanInv, Prepared, NEW i \in Interface, Evaluates(i)
  PROVE  /\ kept' \in [Interface -> [key : AllInputs, result : AllInputs] \cup {None}]
         /\ KeptAreOfTheirKeys'
         /\ Fate[InputAt(i)] = "fine" => KeptFor(i).result = InputAt(i)
<1> DEFINE input == InputAt(i)
<1>1. input \in AllInputs /\ Fate[input] \in {"fine", "unplaced", "refused", "not finite"}
  BY PreparedInputs
<1>2. kept \in [Interface -> [key : AllInputs, result : AllInputs] \cup {None}]
  BY DEF PlanInv, TypeOK
<1>3. KeptFor(i) = kept[i] \/ KeptFor(i) = [key |-> input, result |-> input]
  BY DEF KeptFor, Key
<1>4. KeptFor(i) \in [key : AllInputs, result : AllInputs] \cup {None}
  <2>1. kept[i] \in [key : AllInputs, result : AllInputs] \cup {None}
    BY <1>2
  <2>2. [key |-> input, result |-> input] \in [key : AllInputs, result : AllInputs]
    BY <1>1
  <2> HIDE DEF input
  <2>3. QED  BY <1>3, <2>1, <2>2
<1>5. KeptFor(i) # None => KeptFor(i).result = KeptFor(i).key
  BY <1>3 DEF PlanInv, KeptAreOfTheirKeys
<1>6. ASSUME Fate[input] = "fine"
      PROVE  KeptFor(i).result = input
  <2>1. CASE kept[i] # None /\ kept[i].key = input
    BY <1>6, <2>1 DEF KeptFor, Key, PlanInv, KeptAreOfTheirKeys
  <2>2. CASE ~ (kept[i] # None /\ kept[i].key = input)
    BY <1>6, <2>2 DEF KeptFor, Key
  <2>3. QED  BY <2>1, <2>2
<1>7. kept' = [kept EXCEPT ![i] = KeptFor(i)]
  BY DEF Evaluates
<1> HIDE DEF input
<1>8. kept' \in [Interface -> [key : AllInputs, result : AllInputs] \cup {None}]
  BY <1>2, <1>4, <1>7
<1>9. \A j \in Interface : kept'[j] = IF j = i THEN KeptFor(i) ELSE kept[j]
  BY <1>2, <1>7
<1>10. KeptAreOfTheirKeys'
  BY <1>5, <1>9 DEF PlanInv, KeptAreOfTheirKeys
<1>11. QED  BY <1>6, <1>8, <1>10 DEF input

LEMMA BuffersAreTyped ==
  ASSUME PlanAssumption, PlanInv, Prepared, NEW i \in Interface, Evaluates(i)
  PROVE  /\ wrenches' \in [Interface -> AllInputs \cup {None}]
         /\ observations' \in [Interface -> AllInputs \cup {None}]
         /\ \A j \in Interface : j # i =>
              wrenches'[j] = wrenches[j] /\ observations'[j] = observations[j]
         /\ Fate[InputAt(i)] = "fine" =>
              /\ wrenches'[i] = InputAt(i)
              /\ question.task = "observations" => observations'[i] = InputAt(i)
<1>1. InputAt(i) \in AllInputs
  BY PreparedInputs
<1>2. /\ wrenches \in [Interface -> AllInputs \cup {None}]
      /\ observations \in [Interface -> AllInputs \cup {None}]
  BY DEF PlanInv, TypeOK
<1>3. CASE Fate[InputAt(i)] = "fine"
  <2>1. KeptFor(i).result = InputAt(i)
    BY <1>3, ResultsAreOfTheInput
  <2>2. /\ wrenches' = [wrenches EXCEPT ![i] = InputAt(i)]
        /\ observations' = IF question.task = "forces" THEN observations
                           ELSE [observations EXCEPT ![i] = InputAt(i)]
    BY <1>3, <2>1 DEF Evaluates
  <2>3. QED  BY <1>1, <1>2, <2>2
<1>4. CASE Fate[InputAt(i)] # "fine"
  <2>1. /\ wrenches' = wrenches
        /\ observations' = observations \/ observations' = [observations EXCEPT ![i] = None]
    BY <1>4 DEF Evaluates
  <2>2. QED  BY <1>2, <1>4, <2>1
<1>5. QED  BY <1>3, <1>4

\* Evaluating one interface keeps what the loop was entered with.
LEMMA PreparedStays ==
  ASSUME Prepared, UNCHANGED <<question, stations, answer>>
  PROVE  Prepared' /\ \A i \in Interface : InputAt(i)' = InputAt(i)
<1>1. question' = question /\ stations' = stations /\ answer' = answer
  OBVIOUS
<1>2. \A i \in Interface : InputAt(i)' = InputAt(i)
  BY <1>1 DEF InputAt
<1>3. Prepared'
  BY <1>1 DEF Prepared, AllFinite, Projected, Moves, StationsOf
<1>4. QED  BY <1>2, <1>3

\* The serial loop ends at the first interface that fails, for those before it are
\* settled.
LEMMA SerialThrows ==
  ASSUME PlanAssumption, PlanInv, NEW t \in Thread, Evaluate(t), workers = 1,
         Fate[InputAt(Lowest(left[t]))] # "fine"
  PROVE  PlanInv' /\ Forces!Answer
<1> DEFINE i == Lowest(left[t])
<1>1. Prepared /\ LoopCovers /\ left[t] # {} /\ left[t] \subseteq Interface
  <2>1. workers > 0 /\ TypeOK
    BY DEF PlanInv
  <2>2. left[t] # {} /\ left[t] \subseteq Interface
    BY <2>1 DEF Evaluate, TypeOK
  <2>3. QED  BY <2>1, <2>2 DEF PlanInv
<1>2. t = 1
  BY <1>1, PlanNumbers DEF LoopCovers, Thread
<1>3. left[t] \subseteq Nat
  BY <1>1, PlanNumbers
<1>4. i \in left[t] /\ \A j \in left[t] : i <= j
  BY <1>1, <1>3, LowestIn
<1> HIDE DEF i
<1>5. i \in Interface /\ Fate[InputAt(i)] # "fine"
  BY <1>1, <1>4 DEF i
<1>6. Evaluates(i) /\ answer' = Threw(Fate[InputAt(i)], i) /\ workers' = 0
      /\ left' = [left EXCEPT ![t] = {}] /\ failures' = failures
      /\ question' = question /\ stations' = stations
  BY <1>5 DEF Evaluate, i
<1>7. \A before \in 1..(i - 1) : Fate[InputAt(before)] = "fine"
  <2>1. ASSUME NEW before \in 1..(i - 1)  PROVE Fate[InputAt(before)] = "fine"
    <3>1. before \in Interface /\ ~ (i <= before)
      BY <1>5, PlanNumbers DEF Interface
    <3>2. \A s \in Thread : before \notin left[s]
      BY <1>2, <1>4, <3>1, PlanNumbers DEF LoopCovers, Thread, PlanInv
    <3>3. Settled(before)
      BY <1>1, <3>1, <3>2 DEF LoopCovers
    <3>4. QED  BY <3>3 DEF Settled
  <2>2. QED  BY <2>1
<1>8. answer' = ReplyTo(question)
  BY <1>1, <1>5, <1>6, <1>7, ReplyToFailing
<1>9. \A s \in Thread : left'[s] = {}
  <2>1. left \in [Thread -> SUBSET Interface]
    BY DEF PlanInv, TypeOK
  <2>2. \A s \in Thread : s = t \/ left[s] = {}
    BY <1>1, <1>2, PlanNumbers DEF LoopCovers, Thread
  <2>3. QED  BY <1>6, <2>1, <2>2
<1>10. TypeOK'
  <2>1. left' \in [Thread -> SUBSET Interface]
    BY <1>6 DEF PlanInv, TypeOK
  <2>2. workers' \in 0..MaxWorkers
    BY <1>6, PlanNumbers
  <2>3. QED
    BY <1>1, <1>5, <1>6, <2>1, <2>2, ResultsAreOfTheInput, BuffersAreTyped DEF PlanInv, TypeOK
<1>11. answer = None /\ question \in Question
  BY <1>1 DEF Prepared
<1>12. PlanInv'
  BY <1>1, <1>5, <1>6, <1>9, <1>10, <1>11, ResultsAreOfTheInput, Outside
<1>13. Forces!Answer
  BY <1>6, <1>8, <1>11 DEF Forces!Answer
<1>14. QED  BY <1>12, <1>13

\* Any other evaluation settles its interface.
LEMMA EvaluateSettles ==
  ASSUME PlanAssumption, PlanInv, NEW t \in Thread, Evaluate(t),
         ~ (workers = 1 /\ Fate[InputAt(Lowest(left[t]))] # "fine")
  PROVE  PlanInv' /\ UNCHANGED <<question, answer>>
<1> DEFINE i == Lowest(left[t])
           fate == Fate[InputAt(i)]
<1>1. left[t] # {} /\ left[t] \subseteq Interface /\ workers \in 0..MaxWorkers
      /\ left \in [Thread -> SUBSET Interface]
  BY DEF Evaluate, PlanInv, TypeOK
<1>2. workers > 0 /\ workers \in Nat
  <2>1. workers # 0
    BY <1>1 DEF PlanInv
  <2>2. QED  BY <1>1, <2>1, PlanNumbers
<1>3. Prepared /\ LoopCovers
  BY <1>2 DEF PlanInv
<1>4. i \in left[t] /\ i \in Interface
  BY <1>1, LowestIn, PlanNumbers
<1>5. /\ Evaluates(i) /\ left' = [left EXCEPT ![t] = left[t] \ {i}]
      /\ failures' = IF fate = "fine" THEN failures ELSE [failures EXCEPT ![i] = fate]
      /\ answer' = answer /\ workers' = workers /\ question' = question
      /\ stations' = stations
  BY DEF Evaluate
<1>6. fate \in {"fine", "unplaced", "refused", "not finite"}
  BY <1>3, <1>4, PreparedInputs
<1>7. fate = "fine" \/ workers > 1
  BY <1>2
<1> HIDE DEF i
<1>8. failures \in [Interface -> {"unplaced", "refused", "not finite", None}]
  BY DEF PlanInv, TypeOK
<1>9. failures' \in [Interface -> {"unplaced", "refused", "not finite", None}]
  BY <1>5, <1>6, <1>8
<1>10. left' \in [Thread -> SUBSET Interface]
  BY <1>1, <1>5
<1>11. TypeOK'
  BY <1>3, <1>4, <1>5, <1>9, <1>10, ResultsAreOfTheInput, BuffersAreTyped
     DEF PlanInv, TypeOK
<1>12. Prepared' /\ \A j \in Interface : InputAt(j)' = InputAt(j)
  BY <1>3, <1>5, PreparedStays
<1>13. ASSUME NEW j \in Interface
       PROVE  Settled(j)' \/ \E s \in Thread : j \in left'[s]
  <2>1. CASE j = i
    <3>1. CASE fate = "fine"
      <4>1. wrenches'[j] = InputAt(j)
            /\ (question.task = "observations" => observations'[j] = InputAt(j))
        BY <1>3, <1>4, <1>5, <2>1, <3>1, BuffersAreTyped
      <4>2. Fate[InputAt(j)'] = "fine" /\ InputAt(j)' = InputAt(j)
        BY <1>12, <2>1, <3>1
      <4>3. QED  BY <1>5, <4>1, <4>2 DEF Settled
    <3>2. CASE fate # "fine"
      <4>1. failures'[j] = Fate[InputAt(j)] /\ workers' > 1
        BY <1>5, <1>7, <1>8, <2>1, <3>2
      <4>2. Fate[InputAt(j)'] # "fine" /\ InputAt(j)' = InputAt(j)
        BY <1>12, <2>1, <3>2
      <4>3. QED  BY <4>1, <4>2 DEF Settled
    <3>3. QED  BY <3>1, <3>2
  <2>2. CASE j # i
    <3>1. /\ wrenches'[j] = wrenches[j] /\ observations'[j] = observations[j]
          /\ failures'[j] = failures[j] /\ InputAt(j)' = InputAt(j)
      BY <1>3, <1>4, <1>5, <1>8, <1>12, <2>2, BuffersAreTyped
    <3>2. Settled(j) => Settled(j)'
      BY <1>5, <3>1 DEF Settled
    <3>3. \A s \in Thread : j \in left[s] => j \in left'[s]
      BY <1>1, <1>5, <2>2
    <3>4. QED  BY <1>3, <3>2, <3>3 DEF LoopCovers
  <2>3. QED  BY <2>1, <2>2
<1>14. \A s \in Thread : s > workers' => left'[s] = {}
  BY <1>1, <1>3, <1>5 DEF LoopCovers
<1>15. ASSUME workers' > 1, NEW j \in Interface, failures'[j] # None
       PROVE  failures'[j] = Fate[InputAt(j)']
  <2>1. failures[j] # None => failures[j] = Fate[InputAt(j)]
    BY <1>3, <1>5, <1>15 DEF LoopCovers
  <2>2. failures'[j] = failures[j] \/ (j = i /\ failures'[j] = Fate[InputAt(j)])
    BY <1>5, <1>8
  <2>3. QED  BY <1>12, <1>15, <2>1, <2>2
<1>16. LoopCovers'
  BY <1>13, <1>14, <1>15 DEF LoopCovers
<1>17. KeptAreOfTheirKeys'
  BY <1>3, <1>4, <1>5, ResultsAreOfTheInput
<1>18. workers' # 0 /\ question' \in Question
  BY <1>2, <1>3, <1>5 DEF Prepared
<1>19. QED  BY <1>5, <1>11, <1>12, <1>16, <1>17, <1>18 DEF PlanInv

LEMMA EvaluateKeeps ==
  ASSUME PlanAssumption, PlanInv, NEW t \in Thread, Evaluate(t)
  PROVE  PlanInv' /\ (Forces!Answer \/ UNCHANGED <<question, answer>>)
BY SerialThrows, EvaluateSettles

\* When the loop has ended every interface is settled.
LEMMA EndedIsSettled ==
  ASSUME PlanInv, LoopEnded
  PROVE  Prepared /\ \A i \in Interface : Settled(i)
BY DEF PlanInv, LoopEnded, LoopCovers

\* An answer that is found after it.
LEMMA AnswersAfter ==
  ASSUME PlanAssumption, PlanInv, LoopEnded, answer' = ReplyTo(question), workers' = 0,
         UNCHANGED <<question, left, stations, pending>>
  PROVE  PlanInv' /\ Forces!Answer
<1>1. /\ question' = question /\ left' = left /\ stations' = stations /\ kept' = kept
      /\ wrenches' = wrenches /\ observations' = observations /\ failures' = failures
      /\ answer = None /\ question \in Question /\ \A t \in Thread : left[t] = {}
  BY EndedIsSettled DEF LoopEnded, pending, Prepared
<1>2. workers' \in 0..MaxWorkers
  BY PlanNumbers
<1>3. TypeOK' /\ KeptAreOfTheirKeys'
  BY <1>1, <1>2 DEF PlanInv, TypeOK, KeptAreOfTheirKeys
<1>4. PlanInv'
  BY <1>1, <1>3, Outside
<1>5. Forces!Answer
  BY <1>1 DEF Forces!Answer
<1>6. QED  BY <1>4, <1>5

LEMMA RethrowKeeps ==
  ASSUME PlanAssumption, PlanInv, Rethrow
  PROVE  PlanInv' /\ Forces!Answer
<1>1. LoopEnded /\ workers > 1 /\ workers' = 0 /\ UNCHANGED <<question, left, stations, pending>>
  BY DEF Rethrow
<1>2. PICK i \in Interface :
        /\ failures[i] # None
        /\ \A before \in 1..(i - 1) : failures[before] = None
        /\ answer' = Threw(failures[i], i)
  BY DEF Rethrow
<1>3. Prepared /\ \A j \in Interface : Settled(j)
  BY <1>1, EndedIsSettled
<1>4. \A j \in Interface : failures[j] # None => failures[j] = Fate[InputAt(j)]
  BY <1>1 DEF LoopEnded, PlanInv, LoopCovers
<1>5. failures[i] = Fate[InputAt(i)] /\ Fate[InputAt(i)] # "fine"
  BY <1>2, <1>4 DEF PlanInv, TypeOK
<1>6. ASSUME NEW before \in 1..(i - 1)  PROVE Fate[InputAt(before)] = "fine"
  <2>1. before \in Interface /\ failures[before] = None
    BY <1>2, PlanNumbers DEF Interface
  <2>2. Fate[InputAt(before)] \in {"fine", "unplaced", "refused", "not finite"}
    BY <1>3, <2>1, PreparedInputs
  <2>3. Settled(before)
    BY <1>3, <2>1
  <2>4. QED  BY <2>1, <2>2, <2>3 DEF Settled, PlanAssumption
<1>7. answer' = ReplyTo(question)
  BY <1>2, <1>3, <1>5, <1>6, ReplyToFailing
<1>8. QED  BY <1>1, <1>7, AnswersAfter

LEMMA PublishKeeps ==
  ASSUME PlanAssumption, PlanInv, Publish
  PROVE  PlanInv' /\ Forces!Answer
<1>1. LoopEnded /\ workers' = 0 /\ UNCHANGED <<question, left, stations, pending>>
      /\ (workers > 1 => \A i \in Interface : failures[i] = None)
  BY DEF Publish
<1>2. Prepared /\ \A j \in Interface : Settled(j)
  BY <1>1, EndedIsSettled
<1>3. ASSUME NEW i \in Interface  PROVE Fate[InputAt(i)] = "fine"
  <2>1. Fate[InputAt(i)] \in {"fine", "unplaced", "refused", "not finite"}
    BY <1>2, PreparedInputs
  <2>2. QED  BY <1>1, <1>2, <2>1 DEF Settled, PlanAssumption
<1>4. /\ \A i \in Interface : wrenches[i] = InputsOf(question)[i]
      /\ question.task = "observations" =>
           \A i \in Interface : observations[i] = InputsOf(question)[i]
  BY <1>2, <1>3, PreparedInputs DEF Settled
<1>5. /\ wrenches \in [Interface -> AllInputs \cup {None}]
      /\ observations \in [Interface -> AllInputs \cup {None}]
  BY DEF PlanInv, TypeOK
<1>6. InputsOf(question) = [i \in Interface |-> InputsOf(question)[i]]
  BY DEF InputsOf
<1>7. wrenches = InputsOf(question)
      /\ (question.task = "observations" => observations = InputsOf(question))
  BY <1>4, <1>5, <1>6
<1>8. answer' = ReplyTo(question)
  BY <1>2, <1>3, <1>7, ReplyToAll DEF Publish
<1>9. QED  BY <1>1, <1>8, AnswersAfter

LEMMA SeedKeeps ==
  ASSUME PlanAssumption, PlanInv, NEW s \in State, NEW x \in Reached,
         NEW evaluated \in SUBSET Interface, Seed(s, x, evaluated)
  PROVE  PlanInv' /\ UNCHANGED <<question, answer>>
<1> DEFINE of(i) == Input[s][i][x]
<1>1. ASSUME NEW i \in Interface  PROVE of(i) \in AllInputs
  <2> DEFINE at  == {Input[s][i][y] : y \in Reached}
             all == {{Input[r][j][y] : y \in Reached} : r \in State, j \in Interface}
  <2>1. at \in all /\ of(i) \in at /\ AllInputs = UNION all
    BY DEF AllInputs
  <2> HIDE DEF at, all
  <2>2. QED  BY <2>1
<1>2. kept \in [Interface -> [key : AllInputs, result : AllInputs] \cup {None}]
  BY DEF PlanInv, TypeOK
<1>3. answer # None /\ answer' = answer /\ question' = question /\ workers' = workers
      /\ left' = left /\ stations' = stations /\ wrenches' = wrenches
      /\ observations' = observations /\ failures' = failures
  BY DEF Seed
<1>4. kept' = [i \in Interface |->
                 IF i \notin evaluated THEN None
                 ELSE IF kept[i] # None /\ kept[i].key = of(i) THEN kept[i]
                 ELSE [key |-> of(i), result |-> of(i)]]
  BY DEF Seed, Key
<1> HIDE DEF of
<1>5. ASSUME NEW i \in Interface
      PROVE  /\ kept'[i] \in [key : AllInputs, result : AllInputs] \cup {None}
             /\ kept'[i] # None => kept'[i].result = kept'[i].key
  <2>1. kept'[i] \in {None, kept[i], [key |-> of(i), result |-> of(i)]}
    BY <1>4
  <2>2. kept[i] # None => kept[i].result = kept[i].key
    BY DEF PlanInv, KeptAreOfTheirKeys
  <2>3. kept[i] \in [key : AllInputs, result : AllInputs] \cup {None}
    BY <1>2
  <2>4. [key |-> of(i), result |-> of(i)] \in [key : AllInputs, result : AllInputs]
    BY <1>1
  <2>5. QED  BY <2>1, <2>2, <2>3, <2>4
<1>6. kept' \in [Interface -> [key : AllInputs, result : AllInputs] \cup {None}]
      /\ KeptAreOfTheirKeys'
  BY <1>4, <1>5 DEF KeptAreOfTheirKeys
<1>7. TypeOK'
  BY <1>3, <1>6 DEF PlanInv, TypeOK
<1>8. workers = 0
  <2>1. ~ (workers > 0)
    BY <1>3 DEF PlanInv, Prepared
  <2>2. workers \in 0..MaxWorkers /\ MaxWorkers \in Nat
    BY PlanNumbers DEF PlanInv, TypeOK
  <2>3. QED  BY <2>1, <2>2
<1>9. PlanInv'
  BY <1>3, <1>6, <1>7, <1>8 DEF PlanInv
<1>10. QED  BY <1>3, <1>9
-----------------------------------------------------------------------------
LEMMA PlanStep ==
  ASSUME PlanAssumption, PlanInv, [Next]_vars
  PROVE  PlanInv' /\ [Forces!Next]_<<question, answer>>
<1>1. ASSUME NEW q \in Question, Call(q)
      PROVE  PlanInv' /\ Forces!Ask
  BY <1>1, CallKeeps
<1>2. ASSUME Step
      PROVE  PlanInv' /\ (Forces!Answer \/ UNCHANGED <<question, answer>>)
  BY <1>2, RejectHintKeeps, ProjectionFailsKeeps, ReturnHintsKeeps, KinematicsFailKeeps,
     StartLoopKeeps, EvaluateKeeps, RethrowKeeps, PublishKeeps DEF Step
<1>3. ASSUME NEW s \in State, NEW x \in Reached, NEW evaluated \in SUBSET Interface,
             Seed(s, x, evaluated)
      PROVE  PlanInv' /\ UNCHANGED <<question, answer>>
  BY <1>3, SeedKeeps
<1>4. CASE UNCHANGED vars
  <2>1. /\ question' = question /\ answer' = answer /\ workers' = workers /\ left' = left
        /\ stations' = stations /\ kept' = kept /\ wrenches' = wrenches
        /\ observations' = observations /\ failures' = failures
    BY <1>4 DEF vars, pending
  <2>2. TypeOK' /\ KeptAreOfTheirKeys'
    BY <2>1 DEF PlanInv, TypeOK, KeptAreOfTheirKeys
  <2>3. workers > 0 => Prepared' /\ LoopCovers'
    BY <2>1 DEF PlanInv, Prepared, LoopCovers, Settled, AllFinite, Projected, Moves,
                StationsOf, InputAt
  <2>4. PlanInv'
    BY <2>1, <2>2, <2>3 DEF PlanInv
  <2>5. QED  BY <2>1, <2>4
<1>5. QED  BY <1>1, <1>2, <1>3, <1>4 DEF Next, Forces!Next

\* The state of a plan is of its type, and of the loop every interface is in the share
\* of a thread or settled (CalcAppliedForcesImpl, its team and its buffers).
THEOREM TheTeamCovers == PlanAssumption => (Spec => []PlanInv)
<1> SUFFICES ASSUME PlanAssumption
             PROVE  Spec => []PlanInv
  OBVIOUS
<1>1. Init => PlanInv
  BY PlanStarts
<1>2. PlanInv /\ [Next]_vars => PlanInv'
  BY PlanStep
<1>3. QED  BY <1>1, <1>2, PTL DEF Spec

\* Whatever team, earlier calls and seeded results, a call returns what the question
\* alone decides, whole and of this question, or throws what the serial loop over the
\* wheels would throw first: the plan implements the safety part of ContactForces.
THEOREM AnswersAreOfTheirQuestion ==
  PlanAssumption => (Spec => Forces!Init /\ [][Forces!Next]_<<question, answer>>)
<1> SUFFICES ASSUME PlanAssumption
             PROVE  Spec => Forces!Init /\ [][Forces!Next]_<<question, answer>>
  OBVIOUS
<1>1. Init => Forces!Init
  BY DEF Init, Forces!Init
<1>2. PlanInv /\ [Next]_vars => [Forces!Next]_<<question, answer>>
  BY PlanStep
<1>3. Spec => []PlanInv
  BY TheTeamCovers
<1>4. QED  BY <1>1, <1>2, <1>3, PTL DEF Spec
=============================================================================
