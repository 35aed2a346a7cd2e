---------------------------- MODULE ModelForest ----------------------------
(***************************************************************************)
(* What MultibodyModel promises whoever describes a vehicle to it          *)
(* (multibody_model.h): the relations stated form a forest, of which the   *)
(* model knows the trees at every moment, and a finalized model is one     *)
(* tree that holds the relations stated and no other.                      *)
(***************************************************************************)
EXTENDS Naturals, FiniteSets

CONSTANTS
  FrameName,  \* names of frames; a body brings a frame of its own name
  World,      \* the name of the world, body 0, and of its frame
  JointName,  \* names callers give to joints
  NoName,     \* the relation of a free body has none
  Kind,       \* kinds of joints
  OneWay      \* those that need their parent on the side of the world

VARIABLES
  frames,     \* frame name -> the body it is fixed to
  trees,      \* the bodies, those that reach each other together
  relations,  \* the joints stated and the bodies declared free
  stage,      \* building, finalized, or failed for good
  held        \* the relations the finalized model holds

vars == <<frames, trees, relations, stage, held>>

Relation(name, parent, child, kind) ==
  [name |-> name, parent |-> parent, child |-> child, kind |-> kind]

Init ==
  /\ frames = [name \in {World} |-> 0]
  /\ trees = {{0}}
  /\ relations = {} /\ held = {}
  /\ stage = "building"

Named(name, body) ==
  /\ name \notin DOMAIN frames
  /\ frames' = [n \in DOMAIN frames \cup {name} |-> IF n = name THEN body ELSE frames[n]]
  /\ UNCHANGED <<relations, stage, held>>

Bodies == UNION trees

\* A new body is a tree by itself.
AddBody(name) ==
  /\ trees' = trees \cup {{Cardinality(Bodies)}}
  /\ Named(name, Cardinality(Bodies))

AddFrame(name, body) ==
  /\ Named(name, body)
  /\ UNCHANGED trees

\* A relation joins two trees; within a tree it would close a loop.
Relate(r) ==
  /\ \E one, other \in trees :
       /\ r.parent \in one /\ r.child \in other /\ one # other
       /\ trees' = (trees \ {one, other}) \cup {one \cup other}
  /\ relations' = relations \cup {r}
  /\ UNCHANGED <<frames, stage, held>>

\* No two joints have one name.
AddJoint(name, kind) ==
  /\ \A r \in relations : r.name # name
  /\ \E parent, child \in Bodies : Relate(Relation(name, parent, child, kind))

DeclareFree(body) == Relate(Relation(NoName, 0, body, "free"))

\* The child still reaches the world when the relation is cut: no side of the
\* cut has the one and not the other.
FacesTheWorld(r) ==
  /\ r.kind \in OneWay
  /\ \A side \in SUBSET Bodies :
       /\ 0 \in side
       /\ \A s \in relations \ {r} : s.parent \in side <=> s.child \in side
       => r.child \in side

\* Every body reaches the world.
Finalize ==
  /\ trees = {Bodies}
  /\ IF \E r \in relations : FacesTheWorld(r)
       THEN stage' = "failed" /\ UNCHANGED held
       ELSE stage' = "finalized" /\ held' = relations
  /\ UNCHANGED <<frames, trees, relations>>

Describe ==
  \/ \E name \in FrameName : AddBody(name) \/ \E body \in Bodies : AddFrame(name, body)
  \/ \E name \in JointName, kind \in Kind : AddJoint(name, kind)
  \/ \E body \in Bodies : DeclareFree(body)

Next == stage = "building" /\ (Describe \/ Finalize)

Spec == Init /\ [][Next]_vars
=============================================================================
