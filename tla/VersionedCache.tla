--------------------------- MODULE VersionedCache ---------------------------
(***************************************************************************)
(* One evaluation context of libs/multibody_runtime: the versioned sources *)
(* of a MultibodyStateInstance, the VersionedCacheSlots bound to them, and *)
(* EvaluateVersionedCacheSlot, the only code that fills a slot.  A slot    *)
(* calculator may evaluate other slots and keeps the references it gets,   *)
(* so evaluations nest; calls is the C++ call stack of the evaluations     *)
(* under way.  The context is single threaded.                             *)
(*                                                                         *)
(* The value of a slot is abstracted to the contents it was computed from: *)
(* for each source, the set of contents that went into it.  A value is     *)
(* right exactly when every set is the singleton a cold evaluation sees.   *)
(***************************************************************************)
EXTENDS Integers, Sequences, TLC, SequenceTheorems, TLAPS

CONSTANTS
  Source,      \* MultibodyStateVersionSource, the versioned sources
  Slot,        \* the slots of the workspace
  Content,     \* what one source may hold
  WriteGroup,  \* the sets of sources one setter writes together
  DependsOn,   \* DependsOn[x]: the sources in the declared type of slot x
  Reads,       \* Reads[x]: the sources the calculator of x reads itself
  Borrows,     \* Borrows[x]: the slots the calculator of x evaluates, in order
  Takes,       \* Takes[x][n]: the inputs of n that reach x through its borrow
  Rank,        \* witness that no calculator evaluates its own slot
  MaxVersion,  \* ceiling of a version, 2^64 - 1 in the code
  MaxCount     \* ceiling of the committed-recomputation count, 2^64 - 1

\* The slots the calculator of x borrows, as a set.
Borrowed(x) == {Borrows[x][i] : i \in 1..Len(Borrows[x])}

\* The sources the value of x is a function of, found by reading calculators.
Inputs(x) == Reads[x] \cup UNION {Takes[x][n] : n \in Borrowed(x)}

ASSUME ConstantTypes ==
  /\ MaxVersion \in Nat /\ MaxCount \in Nat
  /\ WriteGroup \subseteq SUBSET Source
  /\ DependsOn \in [Slot -> SUBSET Source]
  /\ Reads \in [Slot -> SUBSET Source]
  /\ Rank \in [Slot -> Nat]
  /\ \A x \in Slot : Borrows[x] \in Seq(Slot)
  /\ \A x, n \in Slot : Takes[x][n] \subseteq Source

(***************************************************************************)
(* The declared dependencies name every source that reaches the value, a   *)
(* borrowed slot covers what is taken from it, and borrowing is acyclic.   *)
(***************************************************************************)
ASSUME DependenciesCover ==
  \A x \in Slot :
    /\ Inputs(x) \subseteq DependsOn[x]
    /\ \A n \in Borrowed(x) : Takes[x][n] \subseteq Inputs(n) /\ Rank[n] < Rank[x]

VARIABLES
  content,    \* content[s]: the data stored for source s
  version,    \* version[s]: its MultibodyStateVersion
  committed,  \* the slots whose optional committed_snapshot_ is engaged
  snapshot,   \* snapshot[x][s]: the version recorded at the last commit
  buffer,     \* buffer[x]: what the storage value_ was computed from
  count,      \* count[x]: committed_recomputation_count_
  calls,      \* the evaluations under way, innermost last
  before,     \* before[x]: every version when the calculator of x started
  progress    \* progress[x]: borrows done by it, one more once it has written

stateVars == <<content, version>>
slotVars  == <<committed, snapshot, buffer, count>>
callVars  == <<calls, before, progress>>
vars      == <<content, version, committed, snapshot, buffer, count,
               calls, before, progress>>

Value   == [Source -> SUBSET Content]
Version == [Source -> 0..MaxVersion]

\* Storage that nothing has been computed into, or that is half written.
Torn == [s \in Source |-> {}]

\* No source written yet; also the value of a snapshot or a local not in use.
NoVersions == [s \in Source |-> 0]

TypeOK ==
  /\ content \in [Source -> Content]
  /\ version \in Version
  /\ committed \subseteq Slot
  /\ snapshot \in [Slot -> Version]
  /\ buffer \in [Slot -> Value]
  /\ count \in [Slot -> 0..MaxCount]
  /\ calls \in Seq(Slot)
  /\ before \in [Slot -> Version]
  /\ progress \in [Slot -> Nat]

Init ==
  /\ content \in [Source -> Content]
  /\ version = NoVersions
  /\ committed = {}
  /\ snapshot = [x \in Slot |-> NoVersions]
  /\ buffer = [x \in Slot |-> Torn]
  /\ count = [x \in Slot |-> 0]
  /\ calls = <<>>
  /\ before = [x \in Slot |-> NoVersions]
  /\ progress = [x \in Slot |-> 0]

\* A slip Fresh does not make: it compares what the calculator itself reads, not
\* what it depends on through other slots.
FreshOnReads(x) == x \in committed /\ \A s \in Reads[x] : snapshot[x][s] = version[s]

\* is_fresh: a snapshot is engaged and no declared source has moved since.
Fresh(x) ==
  /\ x \in committed
  /\ \A s \in DependsOn[x] : snapshot[x][s] = version[s]

\* What a calculation from scratch would produce now.
ColdValue(x) == [s \in Source |-> IF s \in Inputs(x) THEN {content[s]} ELSE {}]

Top == calls[Len(calls)]

(***************************************************************************)
(* A setter: the successor version of every source in the group is         *)
(* computed first and throws at the ceiling with nothing stored, so a      *)
(* write is a single step or no step.  A calculator must not call one, but *)
(* nothing stops it: hence no condition on calls.                          *)
(***************************************************************************)
NextVersions(g) == [s \in Source |-> IF s \in g THEN version[s] + 1 ELSE version[s]]

\* Store new contents for the group under the given versions.
Store(g, next) ==
  /\ \E new \in [g -> Content] :
       content' = [s \in Source |-> IF s \in g THEN new[s] ELSE content[s]]
  /\ version' = next
  /\ UNCHANGED <<slotVars, callVars>>

Write(g) ==
  /\ \A s \in g : version[s] < MaxVersion
  /\ Store(g, NextVersions(g))

\* A stale slot: remember every version and drop the snapshot before handing
\* out the storage, then invoke the calculator.
Enter(x) ==
  /\ before' = [before EXCEPT ![x] = version]
  /\ committed' = committed \ {x}
  /\ buffer' = [buffer EXCEPT ![x] = Torn]
  /\ progress' = [progress EXCEPT ![x] = 0]
  /\ snapshot' = [snapshot EXCEPT ![x] = NoVersions]
  /\ calls' = Append(calls, x)
  /\ UNCHANGED <<stateVars, count>>

\* An evaluation asked for from outside; a fresh slot answers without a step.
Evaluate(x) ==
  /\ calls = <<>>
  /\ ~Fresh(x)
  /\ Enter(x)

\* The running calculator evaluates the next slot it borrows.
NextBorrow == Borrows[Top][progress[Top] + 1]

\* Mutant of BorrowFresh: the reference is taken without asking is_fresh.
BorrowUnchecked ==
  /\ calls # <<>>
  /\ progress[Top] < Len(Borrows[Top])
  /\ progress' = [progress EXCEPT ![Top] = @ + 1]
  /\ UNCHANGED <<stateVars, slotVars, calls, before>>

BorrowFresh ==
  /\ calls # <<>>
  /\ progress[Top] < Len(Borrows[Top])
  /\ Fresh(NextBorrow)
  /\ progress' = [progress EXCEPT ![Top] = @ + 1]
  /\ UNCHANGED <<stateVars, slotVars, calls, before>>

BorrowStale ==
  /\ calls # <<>>
  /\ progress[Top] < Len(Borrows[Top])
  /\ ~Fresh(NextBorrow)
  /\ Enter(NextBorrow)

\* The calculator has every reference it needs and fills the storage from the
\* sources and the borrowed buffers as they are now.
Computed(x) ==
  [s \in Source |->
     (IF s \in Reads[x] THEN {content[s]} ELSE {})
       \cup UNION {buffer[n][s] : n \in {m \in Borrowed(x) : s \in Takes[x][m]}}]

Calculate ==
  /\ calls # <<>>
  /\ progress[Top] = Len(Borrows[Top])
  /\ buffer' = [buffer EXCEPT ![Top] = Computed(Top)]
  /\ progress' = [progress EXCEPT ![Top] = @ + 1]
  /\ UNCHANGED <<stateVars, committed, snapshot, count, calls, before>>

Calculated == calls # <<>> /\ progress[Top] = Len(Borrows[Top]) + 1

\* The calculator returned, no source moved while it ran, and the count can
\* advance: the value is committed and its caller resumes with the reference.
Caller == calls[Len(calls) - 1]

Commit ==
  /\ Calculated
  /\ before[Top] = version
  /\ count[Top] < MaxCount
  /\ count' = [count EXCEPT ![Top] = @ + 1]
  /\ committed' = committed \cup {Top}
  /\ snapshot' = [snapshot EXCEPT
       ![Top] = [s \in Source |-> IF s \in DependsOn[Top] THEN version[s] ELSE 0]]
  /\ calls' = SubSeq(calls, 1, Len(calls) - 1)
  /\ progress' = IF Len(calls) > 1
                 THEN [progress EXCEPT ![Caller] = @ + 1, ![Top] = 0]
                 ELSE [progress EXCEPT ![Top] = 0]
  /\ before' = [before EXCEPT ![Top] = NoVersions]
  /\ UNCHANGED <<stateVars, buffer>>

\* An exception leaves every evaluation under way; nothing is rolled back.
Unwind ==
  /\ calls' = <<>>
  /\ before' = [x \in Slot |-> NoVersions]
  /\ progress' = [x \in Slot |-> 0]
  /\ UNCHANGED <<stateVars, slotVars>>

CalculatorThrows == calls # <<>> /\ ~Calculated /\ Unwind

GuardRefuses == Calculated /\ before[Top] # version /\ Unwind

CountRefuses == Calculated /\ before[Top] = version /\ count[Top] = MaxCount /\ Unwind

EvaluatorStep ==
  BorrowFresh \/ BorrowStale \/ Calculate \/ Commit
    \/ CalculatorThrows \/ GuardRefuses \/ CountRefuses

Next ==
  \/ \E g \in WriteGroup : Write(g)
  \/ \E x \in Slot : Evaluate(x)
  \/ EvaluatorStep

Spec == Init /\ [][Next]_vars
-----------------------------------------------------------------------------
(***************************************************************************)
(* A slot that answers is_fresh holds what a cold evaluation would compute *)
(* now: no order of writes, nested evaluations, throwing calculators and   *)
(* exhausted counters makes value() serve a stale or half-written buffer.  *)
(***************************************************************************)
FreshIsCold == \A x \in Slot : Fresh(x) => buffer[x] = ColdValue(x)

(***************************************************************************)
(* The references a calculator holds stay good: unless a source moved      *)
(* while it ran, the slots it has borrowed are all still fresh, so none    *)
(* was recomputed in place under the borrow.                               *)
(***************************************************************************)
BorrowsStayFresh ==
  \A i \in 1..Len(calls) :
    LET x == calls[i] IN
    before[x] = version =>
      \A k \in 1..Len(Borrows[x]) : k <= progress[x] => Fresh(Borrows[x][k])

(***************************************************************************)
(* A recomputation that does not commit leaves its slot unreadable, and    *)
(* only a commit makes one readable: no slot becomes fresh in a step that  *)
(* does not count a recomputation of it, in particular no write makes an   *)
(* old snapshot current again.                                             *)
(***************************************************************************)
OnlyACommitFreshens ==
  [][\A x \in Slot : ~Fresh(x) /\ Fresh(x)' => count'[x] = count[x] + 1]_vars
-----------------------------------------------------------------------------
(***************************************************************************)
(* The eleven slots of RigidMultibodyTreeCacheWorkspace: the dependency    *)
(* set each declares in its type, and what its calculator in MultibodyTree *)
(* reads.  CalcFrameBodyPoses fills two things in one slot, the frame      *)
(* poses and the body-frame inertias; only CalcSpatialInertiasInWorld      *)
(* takes the inertias out of it.                                           *)
(***************************************************************************)
Geometry == {"q", "framePoses"}

\* The template parameters of the eleven members of the workspace.
TreeDependsOn == [
  frame_body_poses                |-> {"framePoses", "inertias"},
  position_kinematics             |-> Geometry,
  across_node_jacobian            |-> Geometry,
  velocity_kinematics             |-> Geometry \cup {"v"},
  spatial_inertia_in_world        |-> Geometry \cup {"inertias"},
  composite_body_inertia_in_world |-> Geometry \cup {"inertias"},
  dynamic_bias                    |-> Geometry \cup {"v", "inertias"},
  spatial_acceleration_bias       |-> Geometry \cup {"v"},
  reflected_inertia               |-> {"actuators"},
  articulated_body_inertia        |-> Geometry \cup {"inertias", "actuators"},
  articulated_body_force_bias     |-> Geometry \cup {"v", "inertias", "actuators"}]

TreeSlot == DOMAIN TreeDependsOn

\* The sources each calculator reads from the state itself.
TreeReads == [
  frame_body_poses                |-> {"framePoses", "inertias"},
  position_kinematics             |-> {"q"},
  across_node_jacobian            |-> {"q"},
  velocity_kinematics             |-> {"q", "v"},
  spatial_inertia_in_world        |-> {},
  composite_body_inertia_in_world |-> {},
  dynamic_bias                    |-> {},
  spatial_acceleration_bias       |-> {"q", "v"},
  reflected_inertia               |-> {"actuators"},
  articulated_body_inertia        |-> {},
  articulated_body_force_bias     |-> {}]

\* The slots each calculator evaluates, in the order of the Eval calls.
TreeBorrows == [
  frame_body_poses                |-> <<>>,
  position_kinematics             |-> <<"frame_body_poses">>,
  across_node_jacobian            |-> <<"position_kinematics", "frame_body_poses">>,
  velocity_kinematics             |-> <<"position_kinematics", "across_node_jacobian">>,
  spatial_inertia_in_world        |-> <<"frame_body_poses", "position_kinematics">>,
  composite_body_inertia_in_world |-> <<"position_kinematics", "spatial_inertia_in_world">>,
  dynamic_bias                    |-> <<"spatial_inertia_in_world", "velocity_kinematics">>,
  spatial_acceleration_bias       |-> <<"frame_body_poses", "position_kinematics",
                                        "velocity_kinematics">>,
  reflected_inertia               |-> <<>>,
  articulated_body_inertia        |-> <<"reflected_inertia", "position_kinematics",
                                        "across_node_jacobian", "spatial_inertia_in_world">>,
  articulated_body_force_bias     |-> <<"articulated_body_inertia",
                                        "spatial_acceleration_bias">>]

\* The depth of each calculator's chain of evaluations.
TreeRank == [
  frame_body_poses                |-> 0,
  position_kinematics             |-> 1,
  across_node_jacobian            |-> 2,
  velocity_kinematics             |-> 3,
  spatial_inertia_in_world        |-> 2,
  composite_body_inertia_in_world |-> 3,
  dynamic_bias                    |-> 4,
  spatial_acceleration_bias       |-> 4,
  reflected_inertia               |-> 0,
  articulated_body_inertia        |-> 3,
  articulated_body_force_bias     |-> 5]

\* What a calculator takes out of a slot it borrows: the whole value, except
\* that the body-frame inertias stay behind in frame_body_poses.
TreeTakes == [x \in TreeSlot |-> [n \in TreeSlot |->
  IF n = "frame_body_poses" /\ x # "spatial_inertia_in_world"
  THEN {"framePoses"}
  ELSE TreeDependsOn[n]]]

\* The setters of MultibodyStateInstance, by the versions they advance.
TreeWriteGroup == {{"q"}, {"v"}, {"q", "v"}, {"inertias"}, {"framePoses"}, {"actuators"}}
-----------------------------------------------------------------------------
(***************************************************************************)
(* Values for the constants: a set of the slots that is closed under       *)
(* borrowing, with the declarations and the calculators above.  TLC checks *)
(* ConstantTypes and DependenciesCover on them at start-up.                *)
(***************************************************************************)
InertiaSlots == {"frame_body_poses", "position_kinematics", "spatial_inertia_in_world"}

\* The whole tree satisfies what the module assumes, not only the parts run.
ASSUME TreeIsCovered ==
  \A x \in TreeSlot :
    LET inputs(y) == TreeReads[y] \cup
          UNION {TreeTakes[y][TreeBorrows[y][i]] : i \in 1..Len(TreeBorrows[y])}
    IN  /\ inputs(x) = TreeDependsOn[x]
        /\ \A i \in 1..Len(TreeBorrows[x]) :
             LET n == TreeBorrows[x][i]
             IN  TreeTakes[x][n] \subseteq inputs(n) /\ TreeRank[n] < TreeRank[x]

MCSource    == UNION {TreeDependsOn[x] : x \in Slot}
MCDependsOn == [x \in Slot |-> TreeDependsOn[x]]
MCReads     == [x \in Slot |-> TreeReads[x]]
MCBorrows   == [x \in Slot |-> TreeBorrows[x]]
MCTakes     == [x \in Slot |-> [n \in Slot |-> TreeTakes[x][n]]]
MCRank      == [x \in Slot |-> TreeRank[x]]
MCWriteGroup == {g \in TreeWriteGroup : g \subseteq Source}

ContentSymmetry == Permutations(Content)
-----------------------------------------------------------------------------
(***************************************************************************)
(* FreshIsCold and BorrowsStayFresh for every set of slots, every acyclic  *)
(* borrowing between them, every declaration that covers what its          *)
(* calculator reads and every ceiling.                                     *)
(***************************************************************************)

\* A recorded version is never ahead of the source it was read from.
SnapshotsBehind ==
  \A x \in committed : \A s \in DependsOn[x] : snapshot[x][s] <= version[s]

\* The slots whose evaluation is under way.
Active == {calls[i] : i \in 1..Len(calls)}

\* What holds of the frame of one evaluation under way.
Frame(x) ==
  /\ x \notin committed
  /\ \A s \in Source : before[x][s] <= version[s]
  /\ progress[x] <= Len(Borrows[x]) + 1
  /\ before[x] = version =>
       /\ \A k \in 1..Len(Borrows[x]) : k <= progress[x] => Fresh(Borrows[x][k])
       /\ progress[x] = Len(Borrows[x]) + 1 => buffer[x] = ColdValue(x)

\* The stack descends in rank, and each caller waits for the slot above it.
StackOrdered ==
  /\ \A i, j \in 1..Len(calls) : i < j => Rank[calls[j]] < Rank[calls[i]]
  /\ \A i \in 1..Len(calls) - 1 :
       /\ progress[calls[i]] < Len(Borrows[calls[i]])
       /\ calls[i + 1] = Borrows[calls[i]][progress[calls[i]] + 1]

IInv ==
  /\ TypeOK
  /\ FreshIsCold
  /\ SnapshotsBehind
  /\ StackOrdered
  /\ \A x \in Active : Frame(x)

USE ConstantTypes

LEMMA TornIsValue == Torn \in Value /\ NoVersions \in Version
BY DEF Torn, Value, NoVersions, Version

LEMMA ComputedIsValue == ASSUME TypeOK, NEW x \in Slot PROVE Computed(x) \in Value
<1>1. Reads[x] \subseteq Source
  OBVIOUS
<1>2. Borrowed(x) \subseteq Slot
  BY DEF Borrowed
<1>3. \A s \in Source : {content[s]} \subseteq Content
  BY DEF TypeOK
<1>4. \A n \in Slot, s \in Source : buffer[n][s] \subseteq Content
  BY DEF TypeOK, Value
<1> QED
  BY <1>1, <1>2, <1>3, <1>4 DEF Computed, Value

\* When every borrowed slot is fresh and cold, what is computed is cold.
LEMMA ComputedIsCold ==
  ASSUME TypeOK, FreshIsCold, NEW x \in Slot, \A n \in Borrowed(x) : Fresh(n)
  PROVE  Computed(x) = ColdValue(x)
<1>1. Borrowed(x) \subseteq Slot
  BY DEF Borrowed
<1>2. ASSUME NEW s \in Source PROVE Computed(x)[s] = ColdValue(x)[s]
  <2>1. \A n \in Borrowed(x) : s \in Takes[x][n] => buffer[n][s] = {content[s]}
    <3> SUFFICES ASSUME NEW n \in Borrowed(x), s \in Takes[x][n]
                 PROVE  buffer[n][s] = {content[s]}
      OBVIOUS
    <3>1. n \in Slot /\ s \in Inputs(n)
      BY <1>1, DependenciesCover
    <3>2. buffer[n] = ColdValue(n)
      BY <3>1 DEF FreshIsCold
    <3> QED
      BY <3>1, <3>2 DEF ColdValue
  <2>2. s \in Inputs(x) <=>
          s \in Reads[x] \/ \E n \in Borrowed(x) : s \in Takes[x][n]
    BY DEF Inputs
  <2>. DEFINE Taken == {buffer[n][s] : n \in {m \in Borrowed(x) : s \in Takes[x][m]}}
  <2>3. Computed(x)[s] = (IF s \in Reads[x] THEN {content[s]} ELSE {}) \cup UNION Taken
    BY DEF Computed
  <2>4. \A t \in Taken : t = {content[s]}
    BY <2>1
  <2>5. ASSUME NEW n \in Borrowed(x), s \in Takes[x][n]  PROVE UNION Taken = {content[s]}
    <3>1. buffer[n][s] \in Taken /\ buffer[n][s] = {content[s]}
      BY <2>1, <2>5
    <3> HIDE DEF Taken
    <3>2. QED  BY <2>4, <3>1
  <2>6. (~\E n \in Borrowed(x) : s \in Takes[x][n]) => UNION Taken = {}
    OBVIOUS
  <2> QED
    BY <2>2, <2>3, <2>5, <2>6 DEF ColdValue
<1> QED
  BY <1>2 DEF Computed, ColdValue

LEMMA TopInStack ==
  ASSUME TypeOK, calls # <<>>
  PROVE  Len(calls) \in 1..Len(calls) /\ Top \in Slot
BY DEF TypeOK, Top

LEMMA FramesDistinct ==
  ASSUME TypeOK, StackOrdered, NEW i \in 1..Len(calls), NEW j \in 1..Len(calls),
         i # j
  PROVE  calls[i] # calls[j]
<1>1. calls[i] \in Slot /\ calls[j] \in Slot /\ Rank \in [Slot -> Nat]
  BY DEF TypeOK
<1>2. CASE i < j
  BY <1>1, <1>2 DEF StackOrdered
<1>3. CASE j < i
  BY <1>1, <1>3 DEF StackOrdered
<1> QED
  BY <1>2, <1>3 DEF TypeOK

LEMMA CallerIsNotTop ==
  ASSUME TypeOK, StackOrdered, calls # <<>>, NEW i \in 1..Len(calls) - 1
  PROVE  calls[i] \in Slot /\ calls[i] # Top
<1>1. Len(calls) \in 1..Len(calls) /\ i \in 1..Len(calls) /\ i # Len(calls)
  BY DEF TypeOK
<1>2. calls[i] # calls[Len(calls)]
  BY <1>1, FramesDistinct
<1> QED
  BY <1>1, <1>2 DEF TypeOK, Top

-----------------------------------------------------------------------------
LEMMA InitIInv == Init => IInv
<1> SUFFICES ASSUME Init PROVE IInv
  OBVIOUS
<1>1. TypeOK
  BY TornIsValue DEF Init, TypeOK, Version, Value
<1>2. FreshIsCold /\ SnapshotsBehind
  BY DEF Init, FreshIsCold, SnapshotsBehind, Fresh
<1>3. Len(calls) = 0
  BY DEF Init
<1> QED
  BY <1>1, <1>2, <1>3 DEF IInv, StackOrdered, Active

\* A write moves a version past every snapshot that records its source, and
\* reaches no input of a slot that does not.
LEMMA WriteFreshensNothing ==
  ASSUME IInv, NEW g \in WriteGroup, Write(g), NEW x \in Slot, Fresh(x)'
  PROVE  Fresh(x) /\ ColdValue(x)' = ColdValue(x)
<1> USE DEF IInv
<1>1. g \subseteq Source
  OBVIOUS
<1>2. version \in Version /\ version' \in Version
  BY <1>1 DEF TypeOK, Write, Store, NextVersions, Version
<1>3. \A s \in g : version[s] < version'[s]
  BY <1>1 DEF TypeOK, Write, Store, NextVersions, Version
<1>4. \A s \in Source \ g : version'[s] = version[s] /\ content'[s] = content[s]
  BY DEF TypeOK, Write, Store, NextVersions
<1>5. DependsOn[x] \subseteq Source /\ x \in committed
  BY DEF Fresh, Write, Store, slotVars
<1>6. \A s \in DependsOn[x] : snapshot[x][s] <= version[s] /\ snapshot[x][s] = version'[s]
  BY <1>5 DEF SnapshotsBehind, Fresh, Write, Store, slotVars
<1>7. DependsOn[x] \cap g = {}
  <2> SUFFICES ASSUME NEW s \in DependsOn[x], s \in g PROVE FALSE
    OBVIOUS
  <2>1. snapshot[x][s] <= version[s] /\ snapshot[x][s] = version'[s] /\ version[s] < version'[s]
    BY <1>5, <1>6, <1>3
  <2>2. version[s] \in Nat /\ version'[s] \in Nat
    BY <1>2, <1>5 DEF Version
  <2> QED
    BY <2>1, <2>2
<1>8. Fresh(x)
  BY <1>5, <1>6, <1>7, <1>4 DEF Fresh
<1>9. Inputs(x) \cap g = {} /\ Inputs(x) \subseteq Source
  BY <1>5, <1>7, DependenciesCover
<1>10. ColdValue(x)' = ColdValue(x)
  BY <1>9, <1>4 DEF ColdValue
<1> QED
  BY <1>8, <1>10

LEMMA WriteIInv == ASSUME IInv, NEW g \in WriteGroup, Write(g) PROVE IInv'
<1> USE DEF IInv
<1>0. g \subseteq Source
  OBVIOUS
<1>1. TypeOK'
  <2>1. content' \in [Source -> Content]
    BY <1>0 DEF TypeOK, Write, Store
  <2>2. version' \in Version
    BY <1>0 DEF TypeOK, Write, Store, NextVersions, Version
  <2> QED
    BY <2>1, <2>2 DEF TypeOK, Write, Store, slotVars, callVars
<1>2. \A s \in Source : version[s] <= version'[s] /\ (s \in g => version[s] < version'[s])
  BY DEF TypeOK, Write, Store, NextVersions, Version
<1>4. ASSUME NEW x \in Slot, Fresh(x)' PROVE Fresh(x) /\ ColdValue(x)' = ColdValue(x)
  BY <1>4, WriteFreshensNothing
<1>5. FreshIsCold'
  BY <1>4 DEF FreshIsCold, Write, Store, slotVars
<1>6. SnapshotsBehind'
  <2> SUFFICES ASSUME NEW x \in committed, NEW s \in DependsOn[x]
               PROVE  snapshot[x][s] <= version'[s]
    BY DEF SnapshotsBehind, Write, Store, slotVars
  <2>1. x \in Slot /\ s \in Source /\ snapshot[x][s] <= version[s]
    BY DEF TypeOK, SnapshotsBehind
  <2> QED
    BY <2>1, <1>1, <1>2 DEF TypeOK, Version
<1>7. StackOrdered'
  BY DEF StackOrdered, Write, Store, callVars
<1>8. ASSUME NEW x \in Slot, Frame(x) PROVE Frame(x)'
  <2>1. x \in Slot /\ Frame(x)
    BY <1>8
  <2>2. x \notin committed' /\ progress'[x] <= Len(Borrows[x]) + 1
    BY <2>1 DEF Frame, Write, Store, slotVars, callVars
  <2>3. \A s \in Source : before'[x][s] <= version'[s]
    BY <2>1, <1>1, <1>2 DEF Frame, TypeOK, Version, Write, Store, callVars
  <2>4. before'[x] = version' => g = {}
    <3> SUFFICES ASSUME before'[x] = version', NEW s \in g PROVE FALSE
      OBVIOUS
    <3>1. before[x][s] <= version[s] /\ version[s] < version'[s] /\ before[x][s] = version'[s]
      BY <2>1, <1>0, <1>2 DEF Frame, Write, Store, callVars
    <3> QED
      BY <3>1, <1>0, <1>1, <2>1 DEF TypeOK, Version
  <2>5. g = {} => version' = version /\ content' = content
    BY DEF TypeOK, Version, Write, Store, NextVersions
  <2>6. ASSUME before'[x] = version'
        PROVE  /\ \A k \in 1..Len(Borrows[x]) : k <= progress'[x] => Fresh(Borrows[x][k])'
               /\ progress'[x] = Len(Borrows[x]) + 1 => buffer'[x] = ColdValue(x)'
    <3>1. version' = version /\ content' = content
      BY <2>4, <2>5, <2>6
    <3>2. before[x] = version /\ progress'[x] = progress[x] /\ buffer'[x] = buffer[x]
      BY <3>1, <2>6 DEF Write, Store, slotVars, callVars
    <3>3. \A n \in Slot : Fresh(n)' <=> Fresh(n)
      BY <3>1 DEF Fresh, Write, Store, slotVars
    <3>4. ColdValue(x)' = ColdValue(x)
      BY <3>1 DEF ColdValue
    <3>5. \A k \in 1..Len(Borrows[x]) : Borrows[x][k] \in Slot
      BY <2>1
    <3> QED
      BY <3>2, <3>3, <3>4, <3>5, <2>1 DEF Frame
  <2> QED
    BY <2>2, <2>3, <2>6 DEF Frame, Write, Store, callVars
<1>9. \A x \in Active' : Frame(x)'
  <2>1. Active' = Active /\ Active \subseteq Slot
    BY DEF Active, TypeOK, Write, Store, callVars
  <2> QED
    BY <2>1, <1>8
<1> QED
  BY <1>1, <1>5, <1>6, <1>7, <1>9

\* A new evaluation tears only its own slot, which no frame has borrowed.
LEMMA EnterIInv ==
  ASSUME IInv, NEW x \in Slot, ~Fresh(x), Enter(x),
         calls # <<>> => /\ progress[Top] < Len(Borrows[Top])
                         /\ x = NextBorrow
  PROVE  IInv'
<1> USE DEF IInv
<1>1. TypeOK'
  <2>1. before' \in [Slot -> Version] /\ snapshot' \in [Slot -> Version]
    BY TornIsValue DEF TypeOK, Enter
  <2>2. buffer' \in [Slot -> Value] /\ progress' \in [Slot -> Nat]
    BY TornIsValue DEF TypeOK, Enter
  <2>3. calls' \in Seq(Slot) /\ committed' \subseteq Slot
    BY DEF TypeOK, Enter
  <2> QED
    BY <2>1, <2>2, <2>3 DEF TypeOK, Enter, stateVars
<1>2. \A n \in Slot : Fresh(n)' <=> (Fresh(n) /\ n # x)
  BY DEF TypeOK, Fresh, Enter, stateVars
<1>3. \A n \in Slot : ColdValue(n)' = ColdValue(n)
  BY DEF ColdValue, Enter, stateVars
<1>4. \A n \in Slot : n # x => /\ buffer'[n] = buffer[n] /\ snapshot'[n] = snapshot[n]
                               /\ before'[n] = before[n] /\ progress'[n] = progress[n]
  BY DEF TypeOK, Enter
<1>5. FreshIsCold'
  BY <1>2, <1>3, <1>4 DEF FreshIsCold
<1>6. SnapshotsBehind'
  <2> SUFFICES ASSUME NEW n \in committed', NEW s \in DependsOn[n]
               PROVE  snapshot'[n][s] <= version'[s]
    BY DEF SnapshotsBehind
  <2>1. n \in committed /\ n # x /\ n \in Slot
    BY DEF TypeOK, Enter
  <2> QED
    BY <2>1, <1>4 DEF SnapshotsBehind, Enter, stateVars
<1>7. /\ Len(calls') = Len(calls) + 1 /\ calls'[Len(calls')] = x
      /\ \A i \in 1..Len(calls) : calls'[i] = calls[i] /\ calls[i] \in Slot
      /\ Len(calls) \in Nat /\ (calls # <<>> <=> Len(calls) > 0)
  BY DEF TypeOK, Enter
<1>8. ASSUME NEW i \in 1..Len(calls) PROVE Rank[x] < Rank[calls[i]] /\ calls[i] # x
  <2>1. calls # <<>> /\ Top \in Slot
    BY <1>7, TopInStack
  <2>2. x \in Borrowed(Top)
    <3>1. progress[Top] + 1 \in 1..Len(Borrows[Top])
      <4>1. progress[Top] \in Nat /\ Len(Borrows[Top]) \in Nat
        BY <2>1 DEF TypeOK
      <4> QED
        BY <2>1, <4>1
    <3> QED
      BY <2>1, <3>1 DEF Borrowed, NextBorrow
  <2>3. Rank[x] < Rank[Top]
    BY <2>1, <2>2, DependenciesCover
  <2>4. i = Len(calls) \/ Rank[Top] < Rank[calls[i]]
    BY <1>7 DEF StackOrdered, Top
  <2>5. Rank[x] \in Nat /\ Rank[Top] \in Nat /\ Rank[calls[i]] \in Nat
    BY <1>7, <2>1
  <2> QED
    BY <2>3, <2>4, <2>5 DEF Top
<1>9. StackOrdered'
  <2>1. ASSUME NEW i \in 1..Len(calls'), NEW j \in 1..Len(calls'), i < j
        PROVE  Rank[calls'[j]] < Rank[calls'[i]]
    <3>1. i \in 1..Len(calls) /\ calls'[i] = calls[i]
      BY <2>1, <1>7
    <3>2. CASE j = Len(calls')
      BY <3>1, <3>2, <1>7, <1>8
    <3>3. CASE j # Len(calls')
      <4>1. j \in 1..Len(calls) /\ calls'[j] = calls[j]
        BY <3>3, <1>7
      <4> QED
        BY <2>1, <3>1, <4>1 DEF StackOrdered
    <3> QED
      BY <3>2, <3>3
  <2>2. ASSUME NEW i \in 1..Len(calls') - 1
        PROVE  /\ progress'[calls'[i]] < Len(Borrows[calls'[i]])
               /\ calls'[i + 1] = Borrows[calls'[i]][progress'[calls'[i]] + 1]
    <3>1. i \in 1..Len(calls) /\ calls'[i] = calls[i] /\ progress'[calls[i]] = progress[calls[i]]
      BY <1>4, <1>7, <1>8
    <3>2. CASE i = Len(calls)
      BY <3>1, <3>2, <1>7 DEF NextBorrow, Top
    <3>3. CASE i # Len(calls)
      <4>1. i \in 1..Len(calls) - 1 /\ i + 1 \in 1..Len(calls)
        BY <3>1, <3>3, <1>7
      <4>2. calls'[i + 1] = calls[i + 1]
        BY <4>1, <1>7
      <4> QED
        BY <3>1, <4>1, <4>2 DEF StackOrdered
    <3> QED
      BY <3>2, <3>3
  <2> QED
    BY <2>1, <2>2 DEF StackOrdered
<1>10. Frame(x)'
  <2>1. before'[x] = version /\ progress'[x] = 0 /\ x \notin committed' /\ version' = version
    BY DEF TypeOK, Enter, stateVars
  <2>2. \A s \in Source : version[s] <= version[s]
    BY DEF TypeOK, Version
  <2>3. Len(Borrows[x]) \in Nat
    OBVIOUS
  <2> QED
    BY <2>1, <2>2, <2>3 DEF Frame
<1>11. ASSUME NEW y \in Slot, y # x, Frame(y) PROVE Frame(y)'
  <2>1. version' = version /\ y \notin committed'
    BY <1>11 DEF Frame, Enter, stateVars
  <2>2. ASSUME before[y] = version, NEW k \in 1..Len(Borrows[y]), k <= progress[y]
        PROVE  Fresh(Borrows[y][k])'
    <3>1. Fresh(Borrows[y][k]) /\ Borrows[y][k] \in Slot
      BY <1>11, <2>2 DEF Frame
    <3> QED
      BY <3>1, <1>2
  <2> QED
    BY <1>11, <2>1, <2>2, <1>3, <1>4 DEF Frame
<1>12. \A y \in Active' : Frame(y)'
  <2> SUFFICES ASSUME NEW y \in Active', y # x PROVE Frame(y)'
    BY <1>10
  <2>1. y \in Active /\ y \in Slot
    BY <1>7 DEF Active
  <2> QED
    BY <2>1, <1>11
<1> QED
  BY <1>1, <1>5, <1>6, <1>9, <1>12

\* Resuming a caller with a fresh borrow.
LEMMA BorrowFreshIInv == ASSUME IInv, BorrowFresh PROVE IInv'
<1> USE DEF IInv
<1>1. calls # <<>> /\ Top \in Slot /\ Top \in Active /\ Len(calls) \in Nat /\ Len(calls) > 0
  BY TopInStack DEF BorrowFresh, Active, Top
<1>2. progress[Top] \in Nat /\ Len(Borrows[Top]) \in Nat /\ progress[Top] < Len(Borrows[Top])
  BY <1>1 DEF TypeOK, BorrowFresh
<1>3. /\ progress'[Top] = progress[Top] + 1
      /\ \A x \in Slot : x # Top => progress'[x] = progress[x]
      /\ progress' \in [Slot -> Nat]
  <2>1. progress \in [Slot -> Nat] /\ progress' = [progress EXCEPT ![Top] = progress[Top] + 1]
    BY DEF TypeOK, BorrowFresh
  <2> QED
    BY <1>1, <1>2, <2>1
<1>4. /\ content' = content /\ version' = version /\ committed' = committed
      /\ snapshot' = snapshot /\ buffer' = buffer /\ count' = count
      /\ calls' = calls /\ before' = before
  BY DEF BorrowFresh, stateVars, slotVars
<1>5. \A x \in Slot : (Fresh(x)' <=> Fresh(x)) /\ ColdValue(x)' = ColdValue(x)
  BY <1>4 DEF Fresh, ColdValue
<1>6. TypeOK' /\ FreshIsCold' /\ SnapshotsBehind'
  BY <1>3, <1>4, <1>5 DEF TypeOK, FreshIsCold, SnapshotsBehind
<1>7. StackOrdered'
  <2>1. ASSUME NEW i \in 1..Len(calls) - 1 PROVE progress'[calls[i]] = progress[calls[i]]
    BY <1>1, <1>3, CallerIsNotTop
  <2> QED
    BY <2>1, <1>4 DEF StackOrdered
<1>8. ASSUME NEW x \in Slot, x \in Active PROVE Frame(x)'
  <2>1. CASE x # Top
    <3>1. Frame(x) /\ progress'[x] = progress[x]
      BY <1>8, <2>1, <1>3
    <3>2. \A k \in 1..Len(Borrows[x]) : Borrows[x][k] \in Slot
      OBVIOUS
    <3> QED
      BY <3>1, <3>2, <1>4, <1>5 DEF Frame
  <2>2. CASE x = Top
    <3>1. Frame(x) /\ progress'[x] = progress[x] + 1 /\ progress'[x] <= Len(Borrows[x])
      BY <1>1, <1>2, <1>3, <2>2
    <3>2. Fresh(Borrows[x][progress[x] + 1])
      BY <2>2 DEF BorrowFresh, NextBorrow
    <3>3. ASSUME before[x] = version, NEW k \in 1..Len(Borrows[x]), k <= progress[x] + 1
          PROVE  Fresh(Borrows[x][k])'
      <4>1. k <= progress[x] \/ k = progress[x] + 1
        BY <1>2, <2>2, <3>3
      <4>2. Fresh(Borrows[x][k]) /\ Borrows[x][k] \in Slot
        BY <3>1, <3>2, <3>3, <4>1 DEF Frame
      <4> QED
        BY <4>2, <1>5
    <3> QED
      BY <1>2, <1>4, <2>2, <3>1, <3>3 DEF Frame
  <2> QED
    BY <2>1, <2>2
<1> QED
  <2>1. Active' = Active /\ Active \subseteq Slot
    BY <1>4 DEF Active, TypeOK
  <2> QED
    BY <1>6, <1>7, <1>8, <2>1

\* The storage of the innermost slot is filled from fresh borrows.
LEMMA CalculateIInv == ASSUME IInv, Calculate PROVE IInv'
<1> USE DEF IInv
<1>1. calls # <<>> /\ Top \in Slot /\ Top \in Active /\ Len(calls) \in Nat /\ Len(calls) > 0
  BY TopInStack DEF Calculate, Active, Top
<1>2. progress[Top] \in Nat /\ Len(Borrows[Top]) \in Nat /\ progress[Top] = Len(Borrows[Top])
  BY <1>1 DEF TypeOK, Calculate
<1>3. /\ progress'[Top] = progress[Top] + 1 /\ buffer'[Top] = Computed(Top)
      /\ \A x \in Slot : x # Top => progress'[x] = progress[x] /\ buffer'[x] = buffer[x]
      /\ progress' \in [Slot -> Nat] /\ buffer' \in [Slot -> Value]
  BY <1>1, <1>2, ComputedIsValue DEF TypeOK, Calculate
<1>4. /\ content' = content /\ version' = version /\ committed' = committed
      /\ snapshot' = snapshot /\ count' = count /\ calls' = calls /\ before' = before
  BY DEF Calculate, stateVars
<1>5. \A x \in Slot : (Fresh(x)' <=> Fresh(x)) /\ ColdValue(x)' = ColdValue(x)
  BY <1>4 DEF Fresh, ColdValue
<1>6. Top \notin committed
  BY <1>1 DEF Frame
<1>7. FreshIsCold'
  BY <1>3, <1>5, <1>6 DEF FreshIsCold, Fresh
<1>8. TypeOK' /\ SnapshotsBehind'
  BY <1>3, <1>4 DEF TypeOK, SnapshotsBehind
<1>9. StackOrdered'
  <2>1. ASSUME NEW i \in 1..Len(calls) - 1 PROVE progress'[calls[i]] = progress[calls[i]]
    BY <1>1, <1>3, CallerIsNotTop
  <2> QED
    BY <2>1, <1>4 DEF StackOrdered
<1>10. ASSUME NEW x \in Slot, x \in Active PROVE Frame(x)'
  <2>0. \A k \in 1..Len(Borrows[x]) : Borrows[x][k] \in Slot
    OBVIOUS
  <2>1. CASE x # Top
    <3>1. Frame(x) /\ progress'[x] = progress[x] /\ buffer'[x] = buffer[x]
      BY <1>10, <2>1, <1>3
    <3> QED
      BY <2>0, <3>1, <1>4, <1>5 DEF Frame
  <2>2. CASE x = Top
    <3>1. Frame(x) /\ progress[x] = Len(Borrows[x]) /\ progress'[x] = Len(Borrows[x]) + 1
      BY <1>1, <1>2, <1>3, <2>2
    <3>2. ASSUME before[x] = version PROVE \A k \in 1..Len(Borrows[x]) : Fresh(Borrows[x][k])
      BY <3>1, <3>2 DEF Frame
    <3>3. ASSUME before[x] = version PROVE buffer'[x] = ColdValue(x)
      <4>1. \A n \in Borrowed(x) : Fresh(n)
        BY <3>2, <3>3 DEF Borrowed
      <4> QED
        BY <4>1, <1>3, <2>2, ComputedIsCold
    <3> QED
      BY <1>2, <1>4, <1>5, <2>0, <2>2, <3>1, <3>2, <3>3 DEF Frame
  <2> QED
    BY <2>1, <2>2
<1> QED
  <2>1. Active' = Active /\ Active \subseteq Slot
    BY <1>4 DEF Active, TypeOK
  <2> QED
    BY <1>7, <1>8, <1>9, <1>10, <2>1

\* The commit: the value is cold, so its slot may read fresh, and the caller
\* resumes with one more good borrow.
LEMMA CommitIInv == ASSUME IInv, Commit PROVE IInv'
<1> USE DEF IInv
<1>1. calls # <<>> /\ Top \in Slot /\ Top \in Active /\ Len(calls) \in Nat /\ Len(calls) > 0
  BY TopInStack DEF Commit, Calculated, Active, Top
<1>2. before[Top] = version /\ progress[Top] = Len(Borrows[Top]) + 1 /\ buffer[Top] = ColdValue(Top)
  BY <1>1 DEF Commit, Calculated, Frame
<1>3. /\ content' = content /\ version' = version /\ buffer' = buffer
      /\ committed' = committed \cup {Top} /\ Top \notin committed
  BY <1>1 DEF Commit, stateVars, Frame
<1>4. /\ \A x \in Slot : x # Top => snapshot'[x] = snapshot[x] /\ before'[x] = before[x]
      /\ \A s \in DependsOn[Top] : snapshot'[Top][s] = version[s]
      /\ snapshot' \in [Slot -> Version] /\ before' \in [Slot -> Version]
  <2>1. [s \in Source |-> IF s \in DependsOn[Top] THEN version[s] ELSE 0] \in Version
    BY DEF TypeOK, Version
  <2>2. DependsOn[Top] \subseteq Source
    BY <1>1
  <2> QED
    BY <1>1, <2>1, <2>2, TornIsValue DEF Commit, TypeOK
<1>5. \A x \in Slot : /\ ColdValue(x)' = ColdValue(x)
                      /\ Fresh(x)' <=> (Fresh(x) \/ x = Top)
  BY <1>1, <1>3, <1>4 DEF ColdValue, Fresh
<1>6. FreshIsCold'
  BY <1>1, <1>2, <1>3, <1>5 DEF FreshIsCold
<1>7. SnapshotsBehind'
  <2> SUFFICES ASSUME NEW x \in committed', NEW s \in DependsOn[x]
               PROVE  snapshot'[x][s] <= version[s]
    BY <1>3 DEF SnapshotsBehind
  <2>1. CASE x = Top
    BY <1>1, <1>4, <2>1 DEF TypeOK, Version
  <2>2. CASE x # Top
    BY <1>3, <1>4, <2>2 DEF SnapshotsBehind, TypeOK
  <2> QED
    BY <2>1, <2>2
<1>8. /\ Len(calls') = Len(calls) - 1 /\ calls' \in Seq(Slot)
      /\ \A i \in 1..Len(calls) - 1 : calls'[i] = calls[i]
  <2>1. calls' = SubSeq(calls, 1, Len(calls) - 1) /\ calls \in Seq(Slot)
    BY DEF Commit, TypeOK
  <2>2. Len(calls) - 1 \in Int /\ 1 \in Int /\ \A i \in 1..Len(calls) - 1 : calls[i] \in Slot
    BY <1>1, <2>1
  <2>3. /\ SubSeq(calls, 1, Len(calls) - 1) \in Seq(Slot)
        /\ Len(SubSeq(calls, 1, Len(calls) - 1))
             = IF 1 <= Len(calls) - 1 THEN (Len(calls) - 1) - 1 + 1 ELSE 0
        /\ \A i \in 1..(Len(calls) - 1) - 1 + 1 :
             SubSeq(calls, 1, Len(calls) - 1)[i] = calls[1 + i - 1]
    BY <2>2, SubSeqProperties
  <2>4. \A i \in 1..Len(calls) - 1 : i \in 1..(Len(calls) - 1) - 1 + 1 /\ 1 + i - 1 = i
    BY <1>1
  <2>5. \A i \in 1..Len(calls) - 1 : calls'[i] = calls[i]
    BY <2>1, <2>3, <2>4
  <2>6. Len(calls') = Len(calls) - 1
    <3>1. Len(calls') = IF 1 <= Len(calls) - 1 THEN (Len(calls) - 1) - 1 + 1 ELSE 0
      BY <2>1, <2>3
    <3>2. Len(calls) \in Nat /\ Len(calls) > 0
      BY <1>1
    <3>3. \A n \in Nat : n > 0 => (IF 1 <= n - 1 THEN (n - 1) - 1 + 1 ELSE 0) = n - 1
      OBVIOUS
    <3> QED
      BY ONLY <3>1, <3>2, <3>3
  <2> QED
    BY <2>1, <2>3, <2>5, <2>6
<1>9. /\ progress' \in [Slot -> Nat]
      /\ Len(calls) > 1 => /\ Caller \in Slot /\ Caller # Top
                           /\ progress[Caller] < Len(Borrows[Caller])
                           /\ Top = Borrows[Caller][progress[Caller] + 1]
                           /\ progress'[Caller] = progress[Caller] + 1
      /\ \A x \in Slot : x # Top /\ (Len(calls) > 1 => x # Caller) => progress'[x] = progress[x]
  <2>1. CASE Len(calls) > 1
    <3>1. Len(calls) - 1 \in 1..Len(calls) - 1
      BY <1>1, <2>1
    <3>2. Caller \in Slot /\ Caller # Top
      BY <1>1, <3>1, CallerIsNotTop DEF Caller
    <3>3. progress[Caller] < Len(Borrows[Caller]) /\ Top = Borrows[Caller][progress[Caller] + 1]
      <4>1. (Len(calls) - 1) + 1 = Len(calls)
        BY <1>1
      <4> QED
        BY <3>1, <4>1 DEF StackOrdered, Caller, Top
    <3>4. progress' = [progress EXCEPT ![Caller] = progress[Caller] + 1, ![Top] = 0]
      BY <2>1 DEF Commit
    <3>5. progress \in [Slot -> Nat] /\ progress[Caller] + 1 \in Nat
      BY <3>2 DEF TypeOK
    <3> QED
      BY <1>1, <2>1, <3>2, <3>3, <3>4, <3>5
  <2>2. CASE ~(Len(calls) > 1)
    <3>1. progress' = [progress EXCEPT ![Top] = 0]
      BY <2>2 DEF Commit
    <3> QED
      BY <1>1, <2>2, <3>1 DEF TypeOK
  <2> QED
    BY <2>1, <2>2
<1>10. TypeOK'
  <2>1. count' \in [Slot -> 0..MaxCount]
    <3>1. count[Top] \in 0..MaxCount /\ count[Top] < MaxCount
      BY <1>1 DEF Commit, TypeOK
    <3>2. count[Top] + 1 \in 0..MaxCount
      BY <3>1
    <3> QED
      BY <3>2, <1>1 DEF Commit, TypeOK
  <2> QED
    BY <1>1, <1>3, <1>4, <1>8, <1>9, <2>1 DEF TypeOK
<1>11. StackOrdered'
  <2>1. \A i, j \in 1..Len(calls') : i < j => Rank[calls'[j]] < Rank[calls'[i]]
    <3> SUFFICES ASSUME NEW i \in 1..Len(calls'), NEW j \in 1..Len(calls'), i < j
                 PROVE  Rank[calls'[j]] < Rank[calls'[i]]
      OBVIOUS
    <3>1. /\ i \in 1..Len(calls) /\ j \in 1..Len(calls)
          /\ calls'[i] = calls[i] /\ calls'[j] = calls[j]
      <4>1. Len(calls') = Len(calls) - 1 /\ Len(calls) \in Nat
        BY <1>1, <1>8
      <4>2. i \in 1..Len(calls) - 1 /\ j \in 1..Len(calls) - 1
        BY <4>1
      <4> QED
        BY <1>8, <4>1, <4>2
    <3> QED
      BY <3>1 DEF StackOrdered
  <2>2. ASSUME NEW i \in 1..Len(calls') - 1
        PROVE  /\ progress'[calls'[i]] < Len(Borrows[calls'[i]])
               /\ calls'[i + 1] = Borrows[calls'[i]][progress'[calls'[i]] + 1]
    <3>1. /\ i \in 1..Len(calls) - 1 /\ i + 1 \in 1..Len(calls) - 1 /\ Len(calls) > 1
          /\ i \in 1..Len(calls) /\ Len(calls) - 1 \in 1..Len(calls) /\ i # Len(calls) - 1
      BY <1>1, <1>8
    <3>2. calls'[i] = calls[i] /\ calls'[i + 1] = calls[i + 1]
      BY <1>8, <3>1
    <3>3. calls[i] \in Slot /\ calls[i] # Top
      BY <1>1, <3>1, CallerIsNotTop
    <3>4. calls[i] # Caller
      BY <3>1, FramesDistinct DEF Caller
    <3>5. progress'[calls[i]] = progress[calls[i]]
      BY <1>9, <3>3, <3>4
    <3> QED
      BY <3>1, <3>2, <3>5 DEF StackOrdered
  <2> QED
    BY <2>1, <2>2 DEF StackOrdered
<1>12. \A x \in Active' : x \in Active /\ x \in Slot /\ x # Top
  <2> SUFFICES ASSUME NEW i \in 1..Len(calls')
               PROVE  calls'[i] \in Active /\ calls'[i] \in Slot /\ calls'[i] # Top
    BY DEF Active
  <2>1. i \in 1..Len(calls) - 1 /\ i \in 1..Len(calls) /\ calls'[i] = calls[i]
    BY <1>1, <1>8
  <2> QED
    BY <1>1, <2>1, CallerIsNotTop DEF Active
<1>13. ASSUME NEW x \in Slot, x \in Active, x # Top PROVE Frame(x)'
  <2>0. Frame(x) /\ before'[x] = before[x] /\ x \notin committed'
    BY <1>13, <1>3, <1>4 DEF Frame
  <2>00. \A k \in 1..Len(Borrows[x]) : Borrows[x][k] \in Slot
    OBVIOUS
  <2>1. CASE Len(calls) > 1 /\ x = Caller
    <3>1. /\ progress'[x] = progress[x] + 1 /\ progress'[x] <= Len(Borrows[x])
          /\ progress[x] \in Nat /\ Len(Borrows[x]) \in Nat
          /\ Borrows[x][progress[x] + 1] = Top
      <4>1. progress[x] \in Nat /\ Len(Borrows[x]) \in Nat
        BY DEF TypeOK
      <4>2. /\ progress'[x] = progress[x] + 1 /\ progress[x] < Len(Borrows[x])
            /\ Borrows[x][progress[x] + 1] = Top
        BY <1>9, <2>1
      <4> QED
        BY <4>1, <4>2
    <3>2. ASSUME before[x] = version, NEW k \in 1..Len(Borrows[x]), k <= progress[x] + 1
          PROVE  Fresh(Borrows[x][k])'
      <4>1. k <= progress[x] \/ k = progress[x] + 1
        BY <3>1, <3>2
      <4>2. Fresh(Borrows[x][k]) \/ Borrows[x][k] = Top
        BY <2>0, <3>1, <3>2, <4>1 DEF Frame
      <4> QED
        BY <4>2, <2>00, <3>2, <1>5
    <3> QED
      BY <1>3, <2>0, <3>1, <3>2 DEF Frame
  <2>2. CASE ~(Len(calls) > 1 /\ x = Caller)
    <3>1. progress'[x] = progress[x]
      BY <1>9, <1>13, <2>2
    <3> QED
      BY <1>3, <1>5, <2>0, <2>00, <3>1 DEF Frame
  <2> QED
    BY <2>1, <2>2
<1>14. \A x \in Active' : Frame(x)'
  BY <1>12, <1>13
<1> QED
  BY <1>6, <1>7, <1>10, <1>11, <1>14

\* An exception empties the stack and makes nothing readable.
LEMMA UnwindIInv == ASSUME IInv, Unwind PROVE IInv'
<1> USE DEF IInv
<1>1. TypeOK'
  BY TornIsValue DEF TypeOK, Unwind, stateVars, slotVars
<1>2. FreshIsCold' /\ SnapshotsBehind'
  BY DEF FreshIsCold, SnapshotsBehind, Fresh, ColdValue, Unwind, stateVars, slotVars
<1>3. Len(calls') = 0
  BY DEF Unwind
<1> QED
  <2>1. StackOrdered'
    BY <1>3 DEF StackOrdered
  <2>2. \A x \in Active' : Frame(x)'
    BY <1>3 DEF Active
  <2> QED
    BY <1>1, <1>2, <2>1, <2>2

LEMMA NextIInv == IInv /\ [Next]_vars => IInv'
<1> SUFFICES ASSUME IInv, [Next]_vars PROVE IInv'
  OBVIOUS
<1>1. ASSUME NEW g \in WriteGroup, Write(g) PROVE IInv'
  BY <1>1, WriteIInv
<1>2. ASSUME NEW x \in Slot, Evaluate(x) PROVE IInv'
  BY <1>2, EnterIInv DEF Evaluate
<1>3. CASE BorrowFresh
  BY <1>3, BorrowFreshIInv
<1>4. CASE BorrowStale
  <2>1. NextBorrow \in Slot
    <3>1. Top \in Slot
      BY <1>4, TopInStack DEF BorrowStale, IInv
    <3>2. progress[Top] \in Nat /\ Borrows[Top] \in Seq(Slot)
      BY <3>1 DEF IInv, TypeOK
    <3> QED
      BY <1>4, <3>2 DEF BorrowStale, NextBorrow
  <2> QED
    BY <1>4, <2>1, EnterIInv DEF BorrowStale
<1>5. CASE Calculate
  BY <1>5, CalculateIInv
<1>6. CASE Commit
  BY <1>6, CommitIInv
<1>7. CASE CalculatorThrows \/ GuardRefuses \/ CountRefuses
  BY <1>7, UnwindIInv DEF CalculatorThrows, GuardRefuses, CountRefuses
<1>8. CASE UNCHANGED vars
  <2>1. /\ content' = content /\ version' = version /\ committed' = committed
        /\ snapshot' = snapshot /\ buffer' = buffer /\ count' = count
        /\ calls' = calls /\ before' = before /\ progress' = progress
    BY <1>8 DEF vars
  <2>2. \A x \in Slot : (Fresh(x)' <=> Fresh(x)) /\ ColdValue(x)' = ColdValue(x)
    BY <2>1 DEF Fresh, ColdValue
  <2>3. TypeOK' /\ FreshIsCold' /\ SnapshotsBehind' /\ StackOrdered'
    BY <2>1, <2>2 DEF IInv, TypeOK, FreshIsCold, SnapshotsBehind, StackOrdered
  <2>4. Active' = Active /\ Active \subseteq Slot
    BY <2>1 DEF Active, IInv, TypeOK
  <2>5. ASSUME NEW x \in Slot, Frame(x) PROVE Frame(x)'
    <3>1. \A k \in 1..Len(Borrows[x]) : Borrows[x][k] \in Slot
      OBVIOUS
    <3> QED
      BY <2>1, <2>2, <2>5, <3>1 DEF Frame
  <2> QED
    BY <2>3, <2>4, <2>5 DEF IInv
<1> QED
  BY <1>1, <1>2, <1>3, <1>4, <1>5, <1>6, <1>7, <1>8 DEF Next, EvaluatorStep
-----------------------------------------------------------------------------
(***************************************************************************)
(* Whatever is written, evaluated, thrown or exhausted, the state keeps    *)
(* its type: versions and counts never pass their ceilings.                *)
(***************************************************************************)
THEOREM TypeCorrect == Spec => []TypeOK
<1>1. IInv => TypeOK
  BY DEF IInv
<1> QED
  BY InitIInv, NextIInv, <1>1, PTL DEF Spec

(***************************************************************************)
(* A slot of EvaluateVersionedCacheSlot that reads fresh holds the value a *)
(* cold evaluation would compute, for every set of slots and sources.      *)
(***************************************************************************)
THEOREM FreshIsAlwaysCold == Spec => []FreshIsCold
<1>1. IInv => FreshIsCold
  BY DEF IInv
<1> QED
  BY InitIInv, NextIInv, <1>1, PTL DEF Spec

(***************************************************************************)
(* The references a running calculator holds are never recomputed under    *)
(* it unless a source moved, in which case its own commit is refused.      *)
(***************************************************************************)
THEOREM BorrowsAlwaysStayFresh == Spec => []BorrowsStayFresh
<1>1. IInv => BorrowsStayFresh
  BY DEF IInv, BorrowsStayFresh, Active, Frame
<1> QED
  BY InitIInv, NextIInv, <1>1, PTL DEF Spec

(***************************************************************************)
(* EvaluateVersionedCacheSlot is the only way a slot becomes readable, and *)
(* only by a commit, which counts a recomputation of it: no write makes an *)
(* old snapshot current again, for any ceiling of the versions.            *)
(***************************************************************************)
THEOREM CommitsAloneFreshen == Spec => OnlyACommitFreshens
<1>1. ASSUME IInv, [Next]_vars, NEW x \in Slot, ~Fresh(x), Fresh(x)'
      PROVE  count'[x] = count[x] + 1
  <2>1. ASSUME NEW g \in WriteGroup, Write(g) PROVE FALSE
    BY <1>1, <2>1, WriteFreshensNothing
  <2>2. ASSUME NEW y \in Slot, Enter(y) PROVE FALSE
    BY <1>1, <2>2 DEF Enter, Fresh, stateVars, IInv, TypeOK
  <2>3. CASE Calculate \/ BorrowFresh \/ Unwind \/ UNCHANGED vars
    <3>1. committed' = committed /\ snapshot' = snapshot /\ version' = version
      BY <2>3 DEF Calculate, BorrowFresh, Unwind, stateVars, slotVars, vars
    <3> QED
      BY <1>1, <3>1 DEF Fresh
  <2>4. CASE BorrowStale
    <3>1. NextBorrow \in Slot
      <4>1. Top \in Slot
        BY <1>1, <2>4, TopInStack DEF BorrowStale, IInv
      <4>2. progress[Top] \in Nat /\ Borrows[Top] \in Seq(Slot)
        BY <1>1, <4>1 DEF IInv, TypeOK
      <4> QED
        BY <2>4, <4>2 DEF BorrowStale, NextBorrow
    <3> QED
      BY <2>2, <2>4, <3>1 DEF BorrowStale
  <2>5. CASE Commit
    <3>1. Top \in Slot
      BY <1>1, <2>5, TopInStack DEF Commit, Calculated, IInv
    <3>2. CASE x = Top
      BY <1>1, <2>5, <3>1, <3>2 DEF Commit, IInv, TypeOK
    <3>3. CASE x # Top
      BY <1>1, <2>5, <3>1, <3>3 DEF Commit, Fresh, stateVars, IInv, TypeOK
    <3> QED
      BY <3>2, <3>3
  <2> QED
    BY <1>1, <2>1, <2>2, <2>3, <2>4, <2>5
    DEF Next, EvaluatorStep, Evaluate, CalculatorThrows, GuardRefuses, CountRefuses
<1>2. IInv /\ [Next]_vars => (\A x \in Slot : ~Fresh(x) /\ Fresh(x)' => count'[x] = count[x] + 1)
  BY <1>1
<1>3. IInv /\ [Next]_vars =>
        [\A x \in Slot : ~Fresh(x) /\ Fresh(x)' => count'[x] = count[x] + 1]_vars
  BY <1>2
<1> QED
  BY InitIInv, NextIInv, <1>3, PTL DEF Spec, OnlyACommitFreshens
=============================================================================
