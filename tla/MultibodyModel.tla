--------------------------- MODULE MultibodyModel ---------------------------
(***************************************************************************)
(* Building a MultibodyModel: bodies, frames, joints and free bodies are   *)
(* stated in any order and the model is finalized.  A union-find over the  *)
(* bodies decides whether a relation closes a loop and whether a body      *)
(* reaches the world.  The joints of free bodies are made by Finalize,     *)
(* under private names.                                                    *)
(*                                                                         *)
(* The rigid tree beneath is external: it keeps the joints by name, grows  *)
(* from the world outward and fails on a joint it would have to traverse   *)
(* the other way and cannot.  A handle is the name of its frame, or a      *)
(* body's ordinal.                                                         *)
(***************************************************************************)
EXTENDS Integers, FiniteSets

CONSTANTS
  MaxBodies,   \* bound on the bodies besides the world
  FrameName, World,
  CallerName,  \* the joint names of callers; see JointName
  NoName,
  Kind, OneWay

\* The private joint of body b is "__orvd_free_body_<b>", with underscores
\* appended: the pair of b and their number.  Any other name is a pair with 0.
JointName == (0..MaxBodies) \X Nat

ModelAssumption ==
  /\ MaxBodies \in Nat
  /\ World \in FrameName
  /\ CallerName \subseteq JointName
  /\ NoName \notin CallerName
  /\ OneWay \subseteq Kind /\ "free" \notin Kind

VARIABLES
  frame_body,    \* frame_by_name_ and frame_body_
  related_root,  \* related_root_, a function of the ordinals there are
  is_free,       \* is_free_, as a set
  joints,        \* joint_by_name_: the public joints
  tree,          \* the joints of tree_, public and private, by name
  stage          \* finalized_ and finalization_failed_

vars == <<frame_body, related_root, is_free, joints, tree, stage>>

Ordinals == DOMAIN related_root

Joint(parent, child, kind) == [parent |-> parent, child |-> child, kind |-> kind]

Joints == [parent : Nat, child : Nat, kind : Kind \cup {"free"}]

TypeOK ==
  /\ Ordinals \in {0..n : n \in 0..MaxBodies}
  /\ \A body \in Ordinals : related_root[body] \in Ordinals
  /\ DOMAIN frame_body \subseteq FrameName
  /\ \A name \in DOMAIN frame_body : frame_body[name] \in Ordinals
  /\ is_free \subseteq Ordinals \ {0}
  /\ DOMAIN joints \subseteq CallerName
  /\ \A name \in DOMAIN tree : name \in JointName /\ tree[name] \in Joints
  /\ \A name \in DOMAIN joints : name \in DOMAIN tree /\ joints[name] = tree[name]
  /\ stage \in {"building", "finalized", "failed"}

Init ==
  /\ frame_body = [name \in {World} |-> 0]
  /\ related_root = [body \in {0} |-> 0]
  /\ is_free = {}
  /\ joints = [name \in {} |-> Joint(0, 0, "free")] /\ tree = joints
  /\ stage = "building"
-----------------------------------------------------------------------------
\* The union-find: every function takes related_root_ and returns what it
\* leaves of it.

\* One turn of the loop of Root, which halves the path it walks.
Onward(at) ==
  IF at.roots[at.root] = at.root THEN at
  ELSE [root  |-> at.roots[at.roots[at.root]],
        roots |-> [at.roots EXCEPT ![at.root] = at.roots[at.roots[at.root]]]]

\* Root.  A path visits no body twice, so it has ended after as many turns.
Find(roots, body) ==
  LET walk[n \in Nat] ==
        IF n = 0 THEN [root |-> body, roots |-> roots] ELSE Onward(walk[n - 1])
  IN  walk[Cardinality(DOMAIN roots)]

AlreadyConnected(roots, first, second) ==
  LET one == Find(roots, first)
      two == Find(one.roots, second)
  IN  [yes |-> one.root = two.root, roots |-> two.roots]

\* A slip Connect does not make: the first body moves, its component stays.
ConnectBodyOnly(roots, first, second) ==
  LET two == Find(roots, second) IN [two.roots EXCEPT ![first] = two.root]

Connect(roots, first, second) ==
  LET two == Find(roots, second)
      one == Find(two.roots, first)
  IN  [one.roots EXCEPT ![one.root] = two.root]
-----------------------------------------------------------------------------
\* A map with one entry more.
With(map, key, value) == [k \in DOMAIN map \cup {key} |-> IF k = key THEN value ELSE map[k]]

\* Every writer begins with ThrowIfNotBuildable.  A refused call leaves
\* everything but the paths it has halved.
Buildable == stage = "building"

\* A body brings a frame of its own name.
AddRigidBody(name) ==
  /\ Buildable
  /\ name \notin DOMAIN frame_body
  /\ Cardinality(Ordinals) <= MaxBodies
  /\ LET ordinal == Cardinality(Ordinals)
     IN  /\ related_root' = With(related_root, ordinal, ordinal)
         /\ frame_body' = With(frame_body, name, ordinal)
  /\ UNCHANGED <<is_free, joints, tree, stage>>

AddFixedFrame(name, body) ==
  /\ Buildable
  /\ name \notin DOMAIN frame_body
  /\ frame_body' = With(frame_body, name, body)
  /\ UNCHANGED <<related_root, is_free, joints, tree, stage>>

\* PrepareRelation: the frames are of this model and on two bodies, the name is new.
PrepareRelation(parent, child, name) ==
  /\ Buildable
  /\ name \notin DOMAIN joints
  /\ {parent, child} \subseteq DOMAIN frame_body
  /\ frame_body[parent] # frame_body[child]

\* The axis, the damping or the angles may still be wrong, or the relation would
\* close a loop.
RefuseJoint(name, parent, child) ==
  /\ PrepareRelation(parent, child, name)
  /\ related_root' = AlreadyConnected(related_root, frame_body[parent], frame_body[child]).roots
  /\ UNCHANGED <<frame_body, is_free, joints, tree, stage>>

AddJoint(kind, name, parent, child) ==
  /\ PrepareRelation(parent, child, name)
  /\ LET joint     == Joint(frame_body[parent], frame_body[child], kind)
         connected == AlreadyConnected(related_root, joint.parent, joint.child)
     IN  /\ ~connected.yes
         /\ tree' = With(tree, name, joint)
         /\ joints' = With(joints, name, joint)
         /\ related_root' = Connect(connected.roots, joint.parent, joint.child)
  /\ UNCHANGED <<frame_body, is_free, stage>>

\* The joint of a free body is not in the tree before Finalize: its name could
\* still be a caller's.
DeclareFreeBody(body) ==
  /\ Buildable
  /\ body # 0 /\ body \notin is_free
  /\ LET connected == AlreadyConnected(related_root, body, 0)
     IN  IF connected.yes
         THEN related_root' = connected.roots /\ UNCHANGED is_free
         ELSE related_root' = Connect(connected.roots, 0, body) /\ is_free' = is_free \cup {body}
  /\ UNCHANGED <<frame_body, joints, tree, stage>>
-----------------------------------------------------------------------------
\* The precheck of Finalize, body by body.
Precheck ==
  LET upto[n \in 0..(Cardinality(Ordinals) - 1)] ==
        IF n = 0 THEN [reached |-> TRUE, roots |-> related_root]
        ELSE LET before == upto[n - 1]
                 connected == AlreadyConnected(before.roots, n, 0)
             IN  [reached |-> before.reached /\ connected.yes, roots |-> connected.roots]
  IN  upto[Cardinality(Ordinals) - 1]

\* Underscores are appended while the tree has a joint of that name.
PrivateName(body) ==
  CHOOSE name \in {body} \X (0..Cardinality(DOMAIN tree)) :
    /\ name \notin DOMAIN tree
    /\ \A k \in 0..name[2] - 1 : <<body, k>> \in DOMAIN tree

WithPrivateJoints ==
  [name \in DOMAIN tree \cup {PrivateName(body) : body \in is_free} |->
     IF name \in DOMAIN tree THEN tree[name] ELSE Joint(0, name[1], "free")]

\* The bodies the tree holds when it has grown from the world for some levels.
Grown(joined) ==
  LET level[n \in Nat] ==
        IF n = 0 THEN {0}
        ELSE LET within == level[n - 1]
             IN  within \cup {joint.child : joint \in {k \in joined : k.parent \in within}}
                        \cup {joint.parent : joint \in {k \in joined : k.child \in within}}
  IN  level

MustReverse(joint, joined) ==
  \E n \in 0..Cardinality(Ordinals) :
    LET within == Grown(joined)[n] IN joint.child \in within /\ joint.parent \notin within

\* Some body does not reach the world; Finalize may be called again.
RefuseFinalize ==
  /\ Buildable
  /\ ~Precheck.reached
  /\ related_root' = Precheck.roots
  /\ UNCHANGED <<frame_body, is_free, joints, tree, stage>>

\* From here a failure is the end of the model.
Finalize ==
  /\ Buildable
  /\ Precheck.reached
  /\ related_root' = Precheck.roots
  /\ tree' = WithPrivateJoints
  /\ stage' = IF \/ \E body \in is_free : PrivateName(body) \in DOMAIN tree
                 \/ LET joined == {tree'[name] : name \in DOMAIN tree'}
                    IN  \E joint \in joined : joint.kind \in OneWay /\ MustReverse(joint, joined)
              THEN "failed" ELSE "finalized"
  /\ UNCHANGED <<frame_body, is_free, joints>>

Next ==
  \/ \E name \in FrameName :
       AddRigidBody(name) \/ \E body \in Ordinals : AddFixedFrame(name, body)
  \/ \E name \in CallerName, parent, child \in FrameName :
       RefuseJoint(name, parent, child) \/ \E kind \in Kind : AddJoint(kind, name, parent, child)
  \/ \E body \in Ordinals : DeclareFreeBody(body)
  \/ RefuseFinalize \/ Finalize

Spec == Init /\ [][Next]_vars
-----------------------------------------------------------------------------
Relation(name, joint) ==
  [name |-> name, parent |-> joint.parent, child |-> joint.child, kind |-> joint.kind]

Stated ==
  {Relation(name, joints[name]) : name \in DOMAIN joints}
    \cup {Relation(NoName, Joint(0, body, "free")) : body \in is_free}

InTree ==
  {Relation(IF name \in DOMAIN joints THEN name ELSE NoName, tree[name]) : name \in DOMAIN tree}

\* Who represents a body in the end.
Representative(body) ==
  LET up[n \in Nat] == IF n = 0 THEN body ELSE related_root[up[n - 1]]
  IN  up[Cardinality(Ordinals)]

\* The bodies that have one representative.
Trees ==
  {{body \in Ordinals : Representative(body) = root} :
     root \in {body \in Ordinals : related_root[body] = body}}

Promised == INSTANCE ModelForest WITH
  JointName <- CallerName,
  frames    <- frame_body,
  trees     <- Trees,
  relations <- Stated,
  held      <- IF stage = "finalized" THEN InTree ELSE {}

(***************************************************************************)
(* In whatever order relations are stated, and whatever is refused between *)
(* them, the union-find knows the trees of the forest: a relation is taken *)
(* only between two of them, Finalize commits only when one is left and    *)
(* fails exactly for a one-way joint that faces the world, and a finalized *)
(* model holds each relation stated once and no other, whatever the joints *)
(* are called ("no body can reach the world by two different paths",       *)
(* multibody_model.cc).                                                    *)
(***************************************************************************)
BuildsTheForest == Promised!Spec
=============================================================================
