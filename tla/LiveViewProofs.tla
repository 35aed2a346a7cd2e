--------------------------- MODULE LiveViewProofs ---------------------------
(***************************************************************************)
(* What a browser shows of a live stream, proved for every set of runs and *)
(* every size of the transport's window: a scene that is fed is current,   *)
(* the page knows the run of every state, no scene that stays fed and no   *)
(* watermark goes back, and a page that left the live mode stays left.     *)
(*                                                                         *)
(* FedSceneIsCurrent alone is not inductive.  A late resource installs the *)
(* scene, so what is loaded, what is described and what is blocked must    *)
(* agree (Content); what the page knows when a message arrives follows     *)
(* from the order in which StreamClient sent it (InOrder), and both from   *)
(* what a lost connection leaves behind (Connected).                       *)
(***************************************************************************)
EXTENDS LiveView, SequenceTheorems, TLAPS

Clients == [pending : Update \cup {None}, sending : Message \cup {None},
            descriptionRun : Run \cup {NoRun}]

Views == [run : Run, layout : Layout, sequence : 0..MaxSequence, live : BOOLEAN]

\* The page has been told of the run, or has given it up.
Known(r) == (description # None /\ description.run = r) \/ blockedRun = r

\* A state waits behind the description of its run.
WaitsInOrder(c) ==
  c.sending # None /\ c.sending.kind = "state" => c.sending.run = c.descriptionRun

\* The parts of an inductive invariant. Nothing outlives its connection:
Connected ==
  /\ client # None => link = "open"
  /\ link \in {"none", "opening"} => wire = <<>>
  /\ stopped => link = "none" /\ ~retry
  /\ ~stopped /\ link \in {"none", "opening"} => description = None

\* each state follows a message of its run, back to what the page knows;
InOrder ==
  /\ wire # <<>> /\ wire[1].kind = "state" => Known(wire[1].run)
  /\ \A i \in 2..Len(wire) : wire[i].kind = "state" => wire[i - 1].run = wire[i].run
  /\ client # None =>
       /\ WaitsInOrder(client)
       /\ client.descriptionRun # NoRun =>
            IF wire = <<>> THEN Known(client.descriptionRun)
            ELSE wire[Len(wire)].run = client.descriptionRun

\* what is loaded, blocked and waiting belongs to what is described.
Content ==
  /\ description # None => lastDescription = description
  /\ definition # None => lastDescription = definition
  /\ blockedRun # NoRun /\ description # None => blockedRun = description.run
  /\ \A l \in loads : l.current /\ ~l.aborted =>
       description = [run |-> l.run, layout |-> l.layout] /\ blockedRun = NoRun
  /\ pending # None =>
       /\ description # None /\ description.run = pending.run
       /\ lastState = [run |-> pending.run, sequence |-> pending.sequence]
  /\ installed => pending = None

LiveInv == TypeOK /\ Connected /\ InOrder /\ Content /\ FedSceneIsCurrent
-----------------------------------------------------------------------------
\* StreamClient.flush sends at most one message, a state only of the run the
\* connection was last told of.
LEMMA FlushKeepsOrder ==
  ASSUME NEW c \in Clients, WaitsInOrder(c)
  PROVE  /\ Flush(c) \in Clients
         /\ WaitsInOrder(Flush(c))
         /\ Flush(c).descriptionRun = c.descriptionRun
<1>1. CASE c.sending # None \/ c.pending = None
  BY <1>1 DEF Flush
<1>2. CASE c.sending = None /\ c.pending # None
  <2>1. c.pending \in Update
    BY <1>2 DEF Clients
  <2>2. DescriptionOf(c.pending) \in Message /\ StateOf(c.pending) \in Message
    BY <2>1, ViewAssumption DEF DescriptionOf, StateOf, Message, Update
  <2>3. CASE c.descriptionRun # c.pending.run
    BY <1>2, <2>2, <2>3 DEF Flush, Clients, WaitsInOrder, DescriptionOf
  <2>4. CASE c.descriptionRun = c.pending.run
    BY <1>2, <2>2, <2>4 DEF Flush, Clients, WaitsInOrder, StateOf
  <2>5. QED  BY <2>3, <2>4
<1>3. QED  BY <1>1, <1>2

\* A client that is told of something newer keeps its order.
LEMMA PublishKeepsOrder ==
  ASSUME NEW c \in Clients, WaitsInOrder(c), NEW u \in Update
  PROVE  /\ Publish(c, u) \in Clients
         /\ WaitsInOrder(Publish(c, u))
         /\ Publish(c, u).descriptionRun = c.descriptionRun
<1> DEFINE told == [c EXCEPT !.pending = u]
<1>1. told \in Clients /\ WaitsInOrder(told) /\ told.descriptionRun = c.descriptionRun
  BY DEF Clients, WaitsInOrder
<1>2. QED  BY <1>1, FlushKeepsOrder DEF Publish

\* A new connection has been told of nothing.
LEMMA NewClientIsInOrder ==
  NewClient \in Clients /\ WaitsInOrder(NewClient) /\ NewClient.descriptionRun = NoRun
BY DEF NewClient, Clients, WaitsInOrder

\* A disconnected scene is kept and is not fed.
LEMMA DisconnectedIsNotFed ==
  ASSUME view \in Views \cup {None}
  PROVE  Disconnected \in Views \cup {None} /\ (Disconnected # None => ~Disconnected.live)
BY DEF Disconnected, Views

\* No request outlives a new generation.
LEMMA NoneSurvives ==
  ASSUME loads \subseteq Load
  PROVE  Superseded \subseteq Load /\ (\A l \in Superseded : ~l.current)
BY DEF Superseded, Load

\* A message that arrives is the first of the wire.
LEMMA ArrivesFirst ==
  ASSUME TypeOK, NEW m, NEW kind, Arrives(kind, m)
  PROVE  /\ m \in Message /\ m = wire[1] /\ m.kind = kind
         /\ wire # <<>> /\ wire' = Tail(wire)
         /\ wire' \in Seq(Message) /\ Len(wire') = Len(wire) - 1 /\ Len(wire) >= 1
         /\ Len(wire') <= Window
         /\ \A i \in 1..Len(wire') : wire'[i] = wire[i + 1]
<1>1. wire \in Seq(Message) /\ wire # <<>> /\ wire' = Tail(wire) /\ m = Head(wire)
  BY DEF TypeOK, Arrives
<1>2. Len(wire) \in Nat /\ Len(wire) >= 1
  BY <1>1, EmptySeq, LenProperties
<1>3. m = wire[1] /\ m \in Message
  BY <1>1, <1>2, HeadTailProperties, ElementOfSeq
<1>4. Tail(wire) \in Seq(Message) /\ Len(Tail(wire)) = Len(wire) - 1
  BY <1>1, HeadTailProperties
<1>5. \A i \in 1..Len(Tail(wire)) : Tail(wire)[i] = wire[i + 1]
  BY <1>1, HeadTailProperties
<1>6. QED
  BY <1>1, <1>2, <1>3, <1>4, <1>5, ViewAssumption DEF Arrives, TypeOK

\* A message that is sent is the last of the wire.
LEMMA SendsLast ==
  ASSUME TypeOK, SendCompletes
  PROVE  /\ client \in Clients /\ client.sending \in Message
         /\ wire' \in Seq(Message) /\ Len(wire') = Len(wire) + 1 /\ Len(wire) \in Nat
         /\ Len(wire') <= Window /\ wire' # <<>>
         /\ \A i \in 1..Len(wire) : wire'[i] = wire[i]
         /\ wire'[Len(wire) + 1] = client.sending
<1>1. client \in Clients /\ client.sending \in Message
  BY DEF TypeOK, SendCompletes, Clients
<1>2. wire \in Seq(Message) /\ wire' = Append(wire, client.sending) /\ Len(wire) \in Nat
  BY LenProperties DEF TypeOK, SendCompletes
<1>3. /\ wire' \in Seq(Message) /\ Len(wire') = Len(wire) + 1
      /\ \A i \in 1..Len(wire) : wire'[i] = wire[i]
      /\ wire'[Len(wire) + 1] = client.sending
  BY <1>1, <1>2, AppendProperties
<1>4. wire' # <<>>
  BY <1>2, <1>3, EmptySeq
<1>5. Len(wire) < Window
  BY DEF SendCompletes
<1>6. QED  BY <1>1, <1>2, <1>3, <1>4, <1>5, ViewAssumption

\* What the client holds once a send has ended.
LEMMA SentKeepsOrder ==
  ASSUME TypeOK, InOrder, SendCompletes
  PROVE  /\ client' \in Clients /\ WaitsInOrder(client')
         /\ client'.descriptionRun = client.sending.run
<1> DEFINE sent == [client EXCEPT
      !.sending = None,
      !.descriptionRun = IF client.sending.kind = "description" THEN client.sending.run ELSE @]
<1>1. client \in Clients /\ client.sending \in Message /\ client.sending # None /\ client # None
  BY SendsLast DEF SendCompletes
<1>2. client.sending.kind # "description" => client.descriptionRun = client.sending.run
  BY <1>1 DEF InOrder, WaitsInOrder, Message
<1>3. sent \in Clients
  BY <1>1 DEF Clients, Message
<1>4. sent.sending = None /\ sent.descriptionRun = client.sending.run
  BY <1>1, <1>2 DEF Clients
<1>5. WaitsInOrder(sent)
  BY <1>4 DEF WaitsInOrder
<1>6. client' = Flush(sent)
  BY DEF SendCompletes
<1>7. QED  BY <1>3, <1>4, <1>5, <1>6, FlushKeepsOrder

\* What the client holds when it is told of an update.
LEMMA ToldKeepsOrder ==
  ASSUME TypeOK, InOrder, NEW u \in Update, client # None
  PROVE  /\ Publish(client, u) \in Clients
         /\ WaitsInOrder(Publish(client, u))
         /\ Publish(client, u).descriptionRun = client.descriptionRun
BY PublishKeepsOrder DEF TypeOK, Clients, InOrder

\* A blocked page has no request that is still awaited.
LEMMA BlockTypes ==
  ASSUME TypeOK, NEW requests \in SUBSET loads, Block(requests)
  PROVE  /\ loads' \subseteq Load
         /\ \A l, k \in loads' : l.current /\ k.current => l = k
         /\ \A l \in loads' : l.current => l.aborted
         /\ blockedRun' \in Run \cup {NoRun}
         /\ view' \in Views \cup {None} /\ (view' # None => ~view'.live)
<1>1. \A l \in loads : l \in Load
  BY DEF TypeOK
<1>2. loads' = {[l EXCEPT !.aborted = l.aborted \/ l.current] : l \in requests}
  BY DEF Block
<1>3. \A l \in Load :
        /\ [l EXCEPT !.aborted = l.aborted \/ l.current] \in Load
        /\ [l EXCEPT !.aborted = l.aborted \/ l.current].current = l.current
        /\ [l EXCEPT !.aborted = l.aborted \/ l.current].aborted = (l.aborted \/ l.current)
  BY DEF Load
<1>4. loads' \subseteq Load
  BY <1>1, <1>2, <1>3
<1>5. \A l \in loads' : l.current => l.aborted
  BY <1>1, <1>2, <1>3
<1>6. ASSUME NEW l \in loads', NEW k \in loads', l.current, k.current
      PROVE  l = k
  <2>1. PICK x \in requests : l = [x EXCEPT !.aborted = x.aborted \/ x.current]
    BY <1>2
  <2>2. PICK y \in requests : k = [y EXCEPT !.aborted = y.aborted \/ y.current]
    BY <1>2
  <2>3. x \in loads /\ y \in loads /\ x.current /\ y.current
    BY <1>1, <1>3, <1>6, <2>1, <2>2
  <2>4. x = y
    BY <2>3 DEF TypeOK
  <2>5. QED  BY <2>1, <2>2, <2>4
<1>7. blockedRun' \in Run \cup {NoRun}
  BY DEF Block, TypeOK, Scene
<1>8. view' \in Views \cup {None} /\ (view' # None => ~view'.live)
  BY DisconnectedIsNotFed DEF Block, TypeOK, Views
<1>9. QED  BY <1>4, <1>5, <1>6, <1>7, <1>8

\* A scene that is made ready is of the described run, and is fed.
LEMMA ReadyTypes ==
  ASSUME TypeOK, NEW scene \in Scene, NEW described \in Scene, NEW m \in Message,
         Ready(scene, described, m)
  PROVE  /\ installed' = TRUE /\ pending' = None
         /\ view' \in Views
         /\ view'.live /\ view'.run = described.run /\ view'.sequence = m.sequence
<1>1. m.sequence \in 0..MaxSequence
  BY DEF Message
<1>2. CASE view # None /\ view.run = described.run
  <2>1. view' = [view EXCEPT !.sequence = m.sequence, !.live = TRUE]
    BY <1>2 DEF Ready
  <2>2. view \in Views
    BY <1>2 DEF TypeOK, Views
  <2>3. view' \in Views /\ view'.live /\ view'.run = described.run /\ view'.sequence = m.sequence
    BY <1>1, <1>2, <2>1, <2>2 DEF Views
  <2>4. QED  BY <2>3 DEF Ready
<1>3. CASE ~(view # None /\ view.run = described.run)
  <2>1. view' = [run |-> described.run, layout |-> scene.layout, sequence |-> m.sequence,
                 live |-> TRUE]
    BY <1>3 DEF Ready
  <2>2. described.run \in Run /\ scene.layout \in Layout
    BY DEF Scene
  <2>3. view' \in Views
    BY <1>1, <2>1, <2>2 DEF Views
  <2>4. view'.live /\ view'.run = described.run /\ view'.sequence = m.sequence
    BY <2>1
  <2>5. QED  BY <2>3, <2>4 DEF Ready
<1>4. QED  BY <1>2, <1>3
-----------------------------------------------------------------------------
\* The page's variables that a message or a late resource may change keep their
\* types, under the condition of TypeOK on the requests.
SceneTypes ==
  /\ loads \subseteq Load
  /\ \A x, y \in loads : x.current /\ y.current => x = y
  /\ description \in Scene \cup {None} /\ lastDescription \in Scene \cup {None}
  /\ definition \in Scene \cup {None}
  /\ pending \in Message \cup {None}
  /\ lastState \in [run : Run, sequence : 0..MaxSequence] \cup {None}
  /\ installed \in BOOLEAN /\ blockedRun \in Run \cup {NoRun}
  /\ view \in Views \cup {None}

WireTypes ==
  /\ shown \in Update \cup {None} /\ client \in {None} \cup Clients
  /\ link \in {"none", "opening", "open", "lost"}
  /\ wire \in Seq(Message) /\ Len(wire) <= Window
  /\ retry \in BOOLEAN /\ stopped \in BOOLEAN
  /\ retry => link = "none" /\ ~stopped

LEMMA TypesAreTwo == TypeOK <=> WireTypes /\ SceneTypes
BY DEF TypeOK, WireTypes, SceneTypes, Clients, Views

\* The server, the network and the timer keep the types of what they carry.
LEMMA WireTypesStep ==
  ASSUME LiveInv, Next
  PROVE  WireTypes'
<1> USE DEF LiveInv
<1>1. WireTypes
  BY TypesAreTwo
<1>2. Len(<<>>) = 0 /\ <<>> \in Seq(Message) /\ Len(<<>>) <= Window
  BY EmptySeq, ViewAssumption
<1>3. ASSUME NEW u \in Update, Feed(u)
      PROVE  WireTypes'
  <2>1. client' \in {None} \cup Clients
    BY <1>3, ToldKeepsOrder DEF Feed
  <2>2. QED  BY <1>1, <1>3, <2>1 DEF Feed, WireTypes
<1>4. CASE Accept
  <2>1. client' \in {None} \cup Clients
    BY <1>1, <1>4, NewClientIsInOrder, PublishKeepsOrder DEF Accept, WireTypes
  <2>2. QED  BY <1>1, <1>4, <2>1 DEF Accept, WireTypes
<1>5. CASE SendCompletes
  BY <1>1, <1>5, SendsLast, SentKeepsOrder DEF SendCompletes, WireTypes
<1>6. CASE Lose
  BY <1>1, <1>6 DEF Lose, WireTypes
<1>7. CASE ServerRestarts
  BY <1>1, <1>7 DEF ServerRestarts, WireTypes
<1>8. CASE Closed
  BY <1>1, <1>2, <1>8 DEF Closed, WireTypes, serverVars, Connected
<1>9. CASE Reconnect
  BY <1>1, <1>9 DEF Reconnect, WireTypes, serverVars
<1>10. CASE Dispose
  BY <1>1, <1>2, <1>10 DEF Dispose, WireTypes
<1>11. ASSUME NEW m, NEW kind, Arrives(kind, m)
       PROVE  WireTypes'
  BY <1>1, <1>11, ArrivesFirst DEF Arrives, WireTypes, serverVars
<1>12. CASE Receive
  BY <1>11, <1>12 DEF Receive, IgnoreDescription, DescriptionChanged, Describe, IgnoreState,
     StateFails, AcceptState, SceneRefuses, Accepted
<1>13. CASE LoadEnds
  BY <1>1, <1>13 DEF LoadEnds, LoadSucceeds, ContentFails, LoadIsLate, WireTypes, serverVars
<1>14. ASSUME NEW l \in loads, ReadFails(l)
       PROVE  WireTypes'
  <2>1. description # None /\ ~stopped
    <3>1. l \in Load /\ description = [run |-> l.run, layout |-> l.layout] /\ ~stopped
      BY <1>14 DEF ReadFails, Awaited, Content, TypeOK
    <3>2. QED  BY <3>1, NullAssumption DEF Load, Scene
  <2>2. ~retry
    BY <1>1, <2>1 DEF WireTypes, Connected
  <2>3. QED  BY <1>1, <1>2, <1>14, <2>2 DEF ReadFails, WireTypes
<1>15. QED
  BY <1>3, <1>4, <1>5, <1>6, <1>7, <1>8, <1>9, <1>10, <1>12, <1>13, <1>14 DEF Next

\* A request that is still awaited is for what is described.
LEMMA AwaitedIsDescribed ==
  ASSUME LiveInv, NEW l \in loads, Awaited(l)
  PROVE  /\ l \in Load /\ l.current /\ ~l.aborted /\ ~stopped
         /\ description = [run |-> l.run, layout |-> l.layout]
         /\ description # None /\ description \in Scene /\ blockedRun = NoRun
<1>1. l \in Load /\ l.current /\ ~l.aborted /\ ~stopped
  BY DEF LiveInv, TypeOK, Awaited
<1>2. description = [run |-> l.run, layout |-> l.layout] /\ blockedRun = NoRun
  BY <1>1 DEF LiveInv, Content
<1>3. description \in Scene
  BY <1>1, <1>2 DEF Load, Scene
<1>4. QED  BY <1>1, <1>2, <1>3, NullAssumption

\* Messages and requests keep the types of what the page remembers.
LEMMA SceneTypesStep ==
  ASSUME LiveInv, Next
  PROVE  SceneTypes'
<1> USE DEF LiveInv
<1>1. SceneTypes
  BY TypesAreTwo
<1>2. Disconnected \in Views \cup {None} /\ Superseded \subseteq Load
      /\ \A l \in Superseded : ~l.current
  BY <1>1, DisconnectedIsNotFed, NoneSurvives DEF SceneTypes
<1>3. ASSUME NEW requests \in SUBSET loads, Block(requests),
             definition' \in Scene \cup {None}, pending' \in Message \cup {None},
             lastState' \in [run : Run, sequence : 0..MaxSequence] \cup {None}
      PROVE  SceneTypes'
  <2>1. UNCHANGED <<description, lastDescription, installed>>
    BY <1>3 DEF Block
  <2>2. /\ loads' \subseteq Load
        /\ \A l, k \in loads' : l.current /\ k.current => l = k
        /\ blockedRun' \in Run \cup {NoRun} /\ view' \in Views \cup {None}
    BY <1>3, BlockTypes
  <2>3. QED  BY <1>1, <1>3, <2>1, <2>2 DEF SceneTypes
<1>4. ASSUME UNCHANGED sceneVars
      PROVE  SceneTypes'
  BY <1>1, <1>4 DEF SceneTypes, sceneVars
<1>5. CASE Closed
  BY <1>1, <1>2, <1>5 DEF Closed, SceneTypes
<1>6. CASE Dispose
  BY <1>1, <1>2, <1>6 DEF Dispose, SceneTypes
<1>7. ASSUME NEW m \in Message,
             \/ IgnoreDescription(m) \/ DescriptionChanged(m) \/ Describe(m)
             \/ IgnoreState(m) \/ StateFails(m) \/ AcceptState(m) \/ SceneRefuses(m)
      PROVE  SceneTypes'
  <2>1. /\ SceneOf(m) \in Scene /\ m.run \in Run /\ m.sequence \in 0..MaxSequence
        /\ [run |-> m.run, sequence |-> m.sequence] \in [run : Run, sequence : 0..MaxSequence]
    BY DEF SceneOf, Message, Scene
  <2>3. CASE IgnoreDescription(m) \/ IgnoreState(m)
    BY <1>4, <2>3 DEF IgnoreDescription, IgnoreState
  <2>4. CASE DescriptionChanged(m)
    BY <1>1, <1>3, <2>4 DEF DescriptionChanged, SceneTypes
  <2>5. CASE StateFails(m)
    BY <1>1, <1>3, <2>5 DEF StateFails, SceneTypes
  <2>6. CASE SceneRefuses(m)
    BY <1>1, <1>3, <2>1, <2>6 DEF SceneRefuses, Accepted, SceneTypes
  <2>7. CASE Describe(m)
    <3>1. /\ blockedRun' = NoRun /\ description' = SceneOf(m) /\ lastDescription' = SceneOf(m)
          /\ definition' = (IF SameRun(m) THEN definition ELSE None)
          /\ pending' = None /\ installed' = FALSE
          /\ view' = Disconnected /\ lastState' = lastState
      BY <2>7 DEF Describe
    <3>2. PICK new \in SUBSET {[run |-> m.run, layout |-> m.layout, current |-> TRUE,
                               aborted |-> FALSE]} : loads' = Superseded \cup new
      BY <2>7 DEF Describe
    <3>3. loads' \subseteq Load
      <4>1. [run |-> m.run, layout |-> m.layout, current |-> TRUE, aborted |-> FALSE] \in Load
        BY DEF Load, Message
      <4>2. QED  BY <1>2, <3>2, <4>1
    <3>4. \A x, y \in loads' : x.current /\ y.current => x = y
      BY <1>2, <3>2
    <3>5. QED  BY <1>1, <1>2, <2>1, <3>1, <3>3, <3>4 DEF SceneTypes
  <2>8. CASE AcceptState(m)
    <3>1. /\ lastState' = [run |-> m.run, sequence |-> m.sequence]
          /\ UNCHANGED <<description, lastDescription, definition, loads, blockedRun>>
          /\ description # None
      BY <2>8 DEF AcceptState, Accepted, Expected, Described
    <3>2. CASE installed
      <4>1. UNCHANGED <<installed, pending>>
            /\ view' = IF view # None /\ view.run = m.run
                       THEN [view EXCEPT !.sequence = m.sequence] ELSE view
        BY <2>8, <3>2 DEF AcceptState
      <4>2. view' \in Views \cup {None}
        BY <1>1, <2>1, <4>1 DEF SceneTypes, Views
      <4>3. QED  BY <1>1, <2>1, <3>1, <4>1, <4>2 DEF SceneTypes
    <3>3. CASE ~installed /\ definition # None
      <4>1. Ready(definition, description, m)
        BY <2>8, <3>3 DEF AcceptState
      <4>2. definition \in Scene /\ description \in Scene
        BY <1>1, <3>1, <3>3 DEF SceneTypes
      <4>3. installed' = TRUE /\ pending' = None /\ view' \in Views
        BY <4>1, <4>2, ReadyTypes
      <4>4. QED  BY <1>1, <2>1, <3>1, <4>3 DEF SceneTypes
    <3>4. CASE ~installed /\ definition = None
      <4>1. pending' = m /\ UNCHANGED <<installed, view>>
        BY <2>8, <3>4 DEF AcceptState
      <4>2. QED  BY <1>1, <2>1, <3>1, <4>1 DEF SceneTypes
    <3>5. QED  BY <1>1, <3>2, <3>3, <3>4 DEF SceneTypes
  <2>9. QED  BY <1>7, <2>3, <2>4, <2>5, <2>6, <2>7, <2>8
<1>8. CASE Receive
  BY <1>7, <1>8 DEF Receive
<1>9. ASSUME NEW l \in loads, LoadSucceeds(l)
      PROVE  SceneTypes'
  <2>1. /\ definition' = [run |-> l.run, layout |-> l.layout] /\ loads' = loads \ {l}
        /\ UNCHANGED <<description, lastDescription, lastState, blockedRun>> /\ l \in Load
    BY <1>1, <1>9 DEF LoadSucceeds, SceneTypes
  <2>2. definition' \in Scene
    BY <2>1 DEF Load, Scene
  <2>3. CASE ~installed /\ description # None /\ pending # None
    <3>1. Ready(definition', description, pending)
      BY <1>9, <2>3 DEF LoadSucceeds
    <3>2. installed' = TRUE /\ pending' = None /\ view' \in Views
      BY <1>1, <2>2, <2>3, <3>1, ReadyTypes DEF SceneTypes
    <3>3. QED  BY <1>1, <2>1, <2>2, <3>2 DEF SceneTypes
  <2>4. CASE ~(~installed /\ description # None /\ pending # None)
    <3>1. UNCHANGED <<installed, pending, view>>
      BY <1>9, <2>4 DEF LoadSucceeds
    <3>2. QED  BY <1>1, <2>1, <2>2, <3>1 DEF SceneTypes
  <2>5. QED  BY <2>3, <2>4
<1>10. ASSUME NEW l \in loads, ContentFails(l)
       PROVE  SceneTypes'
  <2>1. definition' \in Scene \cup {None} /\ UNCHANGED <<pending, lastState>>
        /\ Block(loads \ {l})
    BY <1>1, <1>10 DEF ContentFails, SceneTypes, Load, Scene
  <2>2. QED  BY <1>1, <1>3, <2>1 DEF SceneTypes
<1>11. ASSUME NEW l \in loads, LoadIsLate(l) \/ ReadFails(l)
       PROVE  SceneTypes'
  BY <1>1, <1>2, <1>11 DEF LoadIsLate, ReadFails, SceneTypes
<1>12. QED
  BY <1>4, <1>5, <1>6, <1>8, <1>9, <1>10, <1>11
     DEF Next, Feed, Accept, SendCompletes, Lose, ServerRestarts, Reconnect, LoadEnds

LEMMA TypesStep ==
  ASSUME LiveInv, Next
  PROVE  TypeOK'
BY WireTypesStep, SceneTypesStep, TypesAreTwo DEF TypeOK, WireTypes, SceneTypes, Clients, Views

\* What a lost connection leaves behind, step by step.
LEMMA ConnectedStep ==
  ASSUME LiveInv, Next
  PROVE  Connected'
<1> USE DEF LiveInv
<1>1. link \in {"none", "opening", "open", "lost"} /\ (retry => link = "none" /\ ~stopped)
  BY DEF TypeOK
<1>2. ASSUME NEW u \in Update, Feed(u)
      PROVE  Connected'
  BY <1>2 DEF Feed, Connected, sceneVars
<1>3. CASE Accept
  BY <1>1, <1>3 DEF Accept, Connected, sceneVars
<1>4. CASE SendCompletes
  BY <1>1, <1>4 DEF SendCompletes, Connected, sceneVars
<1>5. CASE Lose
  BY <1>1, <1>5 DEF Lose, Connected, sceneVars
<1>6. CASE ServerRestarts
  BY <1>1, <1>6 DEF ServerRestarts, Connected, sceneVars
<1>7. CASE Closed
  BY <1>1, <1>7 DEF Closed, Connected, serverVars
<1>8. CASE Reconnect
  BY <1>1, <1>8 DEF Reconnect, Connected, sceneVars, serverVars
<1>9. CASE Dispose
  BY <1>1, <1>9 DEF Dispose, Connected
<1>10. ASSUME NEW m, NEW kind, Arrives(kind, m)
       PROVE  Connected'
  BY <1>1, <1>10 DEF Arrives, Connected, serverVars
<1>11. CASE Receive
  BY <1>10, <1>11 DEF Receive, IgnoreDescription, DescriptionChanged, Describe, IgnoreState,
     StateFails, AcceptState, SceneRefuses, Accepted
<1>12. CASE LoadEnds
  BY <1>1, <1>12 DEF LoadEnds, LoadSucceeds, ContentFails, LoadIsLate, Block, Connected, serverVars
<1>13. ASSUME NEW l \in loads, ReadFails(l)
       PROVE  Connected'
  BY <1>1, <1>13 DEF ReadFails, Connected, Awaited
<1>14. QED
  BY <1>2, <1>3, <1>4, <1>5, <1>6, <1>7, <1>8, <1>9, <1>11, <1>12, <1>13 DEF Next

\* When what the page knows only grows and nothing is sent or received, the
\* order stays.
LEMMA OrderStays ==
  ASSUME TypeOK, InOrder, UNCHANGED <<wire, client>>, \A r \in Run : Known(r) => Known(r)'
  PROVE  InOrder'
<1>1. wire # <<>> => wire[1] \in Message
  BY EmptySeq, ElementOfSeq DEF TypeOK
<1>2. client # None => client.descriptionRun \in Run \cup {NoRun}
  BY DEF TypeOK
<1>3. wire # <<>> => wire[1].run \in Run
  BY <1>1 DEF Message
<1>4. QED  BY <1>2, <1>3 DEF InOrder, WaitsInOrder

\* A message of a run that is known then lets the next state in.
LEMMA OrderIsConsumed ==
  ASSUME TypeOK, InOrder, NEW m, NEW kind, Arrives(kind, m), Known(m.run)'
  PROVE  InOrder'
<1>1. /\ wire' \in Seq(Message) /\ Len(wire') = Len(wire) - 1 /\ Len(wire) \in Nat /\ Len(wire) >= 1
      /\ \A i \in 1..Len(wire') : wire'[i] = wire[i + 1]
      /\ m = wire[1] /\ client' = client /\ wire # <<>>
  BY ArrivesFirst, LenProperties DEF TypeOK, Arrives, serverVars
<1>2. wire' = <<>> => Len(wire) = 1
  BY <1>1, EmptySeq
<1>3. wire' # <<>> => Len(wire) >= 2
  BY <1>1, EmptySeq
<1>4. ASSUME wire' # <<>>, wire'[1].kind = "state"
      PROVE  wire'[1].run = m.run
  <2>1. wire'[1] = wire[2] /\ 2 \in 2..Len(wire)
    BY <1>1, <1>3, <1>4
  <2>2. wire[1].run = wire[2].run
    BY <1>4, <2>1 DEF InOrder
  <2>3. QED  BY <1>1, <2>1, <2>2
<1>5. ASSUME NEW i \in 2..Len(wire'), wire'[i].kind = "state"
      PROVE  wire'[i - 1].run = wire'[i].run
  <2>1. wire'[i] = wire[i + 1] /\ wire'[i - 1] = wire[i] /\ i + 1 \in 2..Len(wire)
    BY <1>1
  <2>2. wire[(i + 1) - 1].run = wire[i + 1].run
    BY <1>5, <2>1 DEF InOrder
  <2>3. QED  BY <2>1, <2>2
<1>6. ASSUME client # None, client.descriptionRun # NoRun
      PROVE  IF wire' = <<>> THEN m.run = client.descriptionRun
             ELSE wire'[Len(wire')].run = client.descriptionRun
  <2>1. wire[Len(wire)].run = client.descriptionRun
    BY <1>1, <1>6 DEF InOrder
  <2>2. wire' # <<>> => wire'[Len(wire')] = wire[Len(wire)]
    BY <1>1, <1>3
  <2>3. QED  BY <1>1, <1>2, <2>1, <2>2
<1>7. client # None => WaitsInOrder(client)
  BY DEF InOrder
<1>8. QED  BY <1>1, <1>4, <1>5, <1>6, <1>7 DEF InOrder, WaitsInOrder

\* After a message, the page knows its run or has given it up.
LEMMA MessageIsKnown ==
  ASSUME LiveInv, NEW m \in Message,
         \/ IgnoreDescription(m) \/ DescriptionChanged(m) \/ Describe(m)
         \/ IgnoreState(m) \/ StateFails(m) \/ AcceptState(m) \/ SceneRefuses(m)
  PROVE  Known(m.run)'
<1>1. CASE IgnoreDescription(m)
  BY <1>1 DEF IgnoreDescription, Described, Known, sceneVars
<1>2. CASE DescriptionChanged(m)
  BY <1>2 DEF DescriptionChanged, Changed, SameRun, Block, Known, LiveInv, Content
<1>3. CASE Describe(m)
  <2>1. description' = SceneOf(m) /\ SceneOf(m) \in Scene /\ SceneOf(m).run = m.run
    BY <1>3 DEF Describe, SceneOf, Scene, Message
  <2>2. QED  BY <2>1, NullAssumption DEF Known
<1>4. CASE IgnoreState(m)
  <2>1. wire # <<>> /\ m = wire[1] /\ m.kind = "state"
    BY <1>4, ArrivesFirst DEF IgnoreState, LiveInv
  <2>2. Known(m.run)
    BY <2>1 DEF LiveInv, InOrder
  <2>3. QED  BY <1>4, <2>2 DEF IgnoreState, Known, sceneVars
<1>5. CASE StateFails(m) \/ SceneRefuses(m)
  BY <1>5 DEF StateFails, SceneRefuses, Accepted, Expected, Described, Block, Known
<1>6. CASE AcceptState(m)
  BY <1>6 DEF AcceptState, Accepted, Expected, Described, Known
<1>7. QED  BY <1>1, <1>2, <1>3, <1>4, <1>5, <1>6

\* A failure of what is described leaves known what was known.
LEMMA BlockKnows ==
  ASSUME LiveInv, NEW requests, Block(requests), description # None
  PROVE  \A r \in Run : Known(r) => Known(r)'
BY ViewAssumption DEF Block, Known, LiveInv, Content

\* The order in which the client sends and the page is told.
LEMMA OrderStep ==
  ASSUME LiveInv, Next
  PROVE  InOrder'
<1> USE DEF LiveInv
<1>1. ASSUME NEW u \in Update, Feed(u)
      PROVE  InOrder'
  <2>1. client = None => client' = None
    BY <1>1 DEF Feed
  <2>2. client # None => /\ WaitsInOrder(client')
                         /\ client'.descriptionRun = client.descriptionRun
    BY <1>1, ToldKeepsOrder DEF Feed
  <2>3. UNCHANGED <<wire, description, blockedRun>>
    BY <1>1 DEF Feed, sceneVars
  <2>4. QED  BY <2>1, <2>2, <2>3 DEF InOrder, Known, WaitsInOrder
<1>2. CASE Accept
  <2>1. WaitsInOrder(client') /\ client'.descriptionRun = NoRun
    BY <1>2, NewClientIsInOrder, PublishKeepsOrder DEF Accept, TypeOK
  <2>2. UNCHANGED <<wire, description, blockedRun>>
    BY <1>2 DEF Accept, sceneVars
  <2>3. QED  BY <2>1, <2>2 DEF InOrder, Known, WaitsInOrder
<1>3. CASE SendCompletes
  <2>1. /\ client.sending \in Message /\ Len(wire') = Len(wire) + 1 /\ Len(wire) \in Nat
        /\ wire' # <<>> /\ client # None /\ client.sending # None
        /\ \A i \in 1..Len(wire) : wire'[i] = wire[i]
        /\ wire'[Len(wire) + 1] = client.sending
    BY <1>3, SendsLast DEF SendCompletes
  <2>2. WaitsInOrder(client') /\ client'.descriptionRun = client.sending.run
    BY <1>3, SentKeepsOrder
  <2>3. client.sending.kind = "state" =>
          client.sending.run = client.descriptionRun /\ client.descriptionRun # NoRun
    BY <2>1, ViewAssumption DEF InOrder, WaitsInOrder, Message
  <2>4. UNCHANGED <<description, blockedRun>>
    BY <1>3 DEF SendCompletes, sceneVars
  <2>5. wire = <<>> <=> Len(wire) = 0
    BY <2>1, EmptySeq DEF TypeOK
  <2>6. wire'[1].kind = "state" => Known(wire'[1].run)
    <3>1. CASE wire = <<>>
      BY <2>1, <2>3, <2>5, <3>1 DEF InOrder
    <3>2. CASE wire # <<>>
      BY <2>1, <2>5, <3>2 DEF InOrder
    <3>3. QED  BY <3>1, <3>2
  <2>7. ASSUME NEW i \in 2..Len(wire'), wire'[i].kind = "state"
        PROVE  wire'[i - 1].run = wire'[i].run
    <3>1. CASE i = Len(wire) + 1
      <4>1. wire # <<>> /\ wire'[i] = client.sending /\ wire'[i - 1] = wire[Len(wire)]
        BY <2>1, <2>5, <3>1
      <4>2. wire[Len(wire)].run = client.sending.run
        BY <2>1, <2>3, <2>7, <4>1 DEF InOrder
      <4>3. QED  BY <4>1, <4>2
    <3>2. CASE i # Len(wire) + 1
      <4>1. i \in 2..Len(wire) /\ wire'[i] = wire[i] /\ wire'[i - 1] = wire[i - 1]
        BY <2>1, <3>2
      <4>2. QED  BY <2>7, <4>1 DEF InOrder
    <3>3. QED  BY <3>1, <3>2
  <2>8. wire'[Len(wire')].run = client'.descriptionRun
    BY <2>1, <2>2
  <2>9. QED  BY <2>1, <2>2, <2>4, <2>6, <2>7, <2>8 DEF InOrder, Known, WaitsInOrder
<1>4. CASE Lose \/ ServerRestarts
  BY <1>4 DEF Lose, ServerRestarts, sceneVars, InOrder, Known
<1>5. CASE Closed
  <2>1. wire' = <<>> /\ client' = None
    BY <1>5 DEF Closed, Connected, serverVars
  <2>2. QED  BY <2>1, EmptySeq DEF InOrder
<1>6. CASE Reconnect
  BY <1>6 DEF Reconnect, serverVars, sceneVars, InOrder, Known, WaitsInOrder
<1>7. ASSUME wire' = <<>>, client' = None
      PROVE  InOrder'
  BY <1>7, EmptySeq DEF InOrder
<1>8. CASE Dispose
  BY <1>7, <1>8 DEF Dispose
<1>9. CASE Receive
  <2>1. PICK m \in Message :
             \/ IgnoreDescription(m) \/ DescriptionChanged(m) \/ Describe(m)
             \/ IgnoreState(m) \/ StateFails(m) \/ AcceptState(m) \/ SceneRefuses(m)
    BY <1>9 DEF Receive
  <2>2. Known(m.run)'
    BY <2>1, MessageIsKnown
  <2>3. Arrives("description", m) \/ Arrives("state", m)
    BY <2>1 DEF IgnoreDescription, DescriptionChanged, Describe, IgnoreState,
       StateFails, AcceptState, SceneRefuses, Accepted
  <2>4. QED  BY <2>2, <2>3, OrderIsConsumed
<1>10. ASSUME NEW l \in loads, LoadSucceeds(l) \/ LoadIsLate(l)
       PROVE  InOrder'
  BY <1>10, OrderStays DEF LoadSucceeds, LoadIsLate, serverVars, Known
<1>11. ASSUME NEW l \in loads, ContentFails(l)
       PROVE  InOrder'
  <2>1. description # None
    BY <1>11, AwaitedIsDescribed DEF ContentFails
  <2>2. \A r \in Run : Known(r) => Known(r)'
    BY <1>11, <2>1, BlockKnows DEF ContentFails
  <2>3. QED  BY <1>11, <2>2, OrderStays DEF ContentFails, serverVars
<1>12. ASSUME NEW l \in loads, ReadFails(l)
       PROVE  InOrder'
  BY <1>7, <1>12 DEF ReadFails
<1>13. QED
  BY <1>1, <1>2, <1>3, <1>4, <1>5, <1>6, <1>8, <1>9, <1>10, <1>11, <1>12 DEF Next, LoadEnds

\* Once everything is blocked, no request is awaited any more.
LEMMA BlockKeepsContent ==
  ASSUME LiveInv, NEW requests \in SUBSET loads, Block(requests), description # None,
         definition' # None => definition' = description,
         pending' # None =>
           /\ description.run = pending'.run
           /\ lastState' = [run |-> pending'.run, sequence |-> pending'.sequence],
         installed => pending' = None
  PROVE  Content' /\ FedSceneIsCurrent'
<1>1. \A l \in loads' : l.current => l.aborted
  BY BlockTypes DEF LiveInv
<1>2. /\ UNCHANGED <<description, lastDescription, installed>>
      /\ blockedRun' = description.run
  BY DEF Block
<1>3. view' # None => ~view'.live
  BY BlockTypes DEF LiveInv
<1>4. lastDescription = description
  BY DEF LiveInv, Content
<1>5. Content'
  BY <1>1, <1>2, <1>4 DEF Content
<1>6. QED  BY <1>3, <1>5 DEF FedSceneIsCurrent

\* What is loaded, blocked, waiting and shown agrees with what is described,
\* step by step.
LEMMA ContentStep ==
  ASSUME LiveInv, Next
  PROVE  Content' /\ FedSceneIsCurrent'
<1> USE DEF LiveInv
<1>1. ASSUME UNCHANGED sceneVars
      PROVE  Content' /\ FedSceneIsCurrent'
  BY <1>1 DEF sceneVars, Content, FedSceneIsCurrent
<1>2. /\ \A l \in Superseded : ~l.current
      /\ Disconnected # None => ~Disconnected.live
  BY DisconnectedIsNotFed, NoneSurvives DEF TypeOK, Views
<1>3. CASE Closed
  <2>1. /\ loads' = Superseded /\ view' = Disconnected
        /\ description' = None /\ pending' = None /\ installed' = FALSE
        /\ UNCHANGED <<lastDescription, definition>>
    BY <1>3 DEF Closed
  <2>2. Content'
    BY <1>2, <2>1 DEF Content
  <2>3. QED  BY <1>2, <2>1, <2>2 DEF FedSceneIsCurrent
<1>4. CASE Dispose
  BY <1>2, <1>4 DEF Dispose, Content, FedSceneIsCurrent
<1>5. ASSUME NEW l \in loads, LoadIsLate(l)
      PROVE  Content' /\ FedSceneIsCurrent'
  BY <1>5 DEF LoadIsLate, Content, FedSceneIsCurrent
<1>6. ASSUME NEW l \in loads, ReadFails(l)
      PROVE  Content' /\ FedSceneIsCurrent'
  <2>1. /\ loads' \subseteq loads /\ view' = Disconnected
        /\ UNCHANGED <<description, lastDescription, definition, pending, lastState, installed,
                       blockedRun>>
    BY <1>6 DEF ReadFails
  <2>2. Content'
    BY <2>1 DEF Content
  <2>3. QED  BY <1>2, <2>1, <2>2 DEF FedSceneIsCurrent
<1>7. ASSUME NEW l \in loads, ContentFails(l)
      PROVE  Content' /\ FedSceneIsCurrent'
  <2>1. description = [run |-> l.run, layout |-> l.layout] /\ description # None
    BY <1>7, AwaitedIsDescribed DEF ContentFails
  <2>2. Block(loads \ {l}) /\ UNCHANGED <<pending, lastState>>
        /\ (definition' # definition => definition' = description)
    BY <1>7, <2>1 DEF ContentFails
  <2>3. definition' # None => definition' = description
    BY <2>1, <2>2 DEF Content
  <2>4. QED  BY <2>1, <2>2, <2>3, BlockKeepsContent DEF Content
<1>8. ASSUME NEW l \in loads, LoadSucceeds(l)
      PROVE  Content' /\ FedSceneIsCurrent'
  <2>1. /\ description = [run |-> l.run, layout |-> l.layout] /\ description # None
        /\ description \in Scene /\ blockedRun = NoRun
    BY <1>8, AwaitedIsDescribed DEF LoadSucceeds
  <2>2. /\ definition' = description /\ loads' \subseteq loads
        /\ UNCHANGED <<description, lastDescription, lastState, blockedRun>>
    BY <1>8, <2>1 DEF LoadSucceeds
  <2>3. CASE ~installed /\ pending # None
    <3>1. Ready(definition', description, pending)
      BY <1>8, <2>1, <2>3 DEF LoadSucceeds
    <3>2. /\ installed' = TRUE /\ pending' = None
          /\ view' \in Views /\ view'.live
          /\ view'.run = description.run /\ view'.sequence = pending.sequence
      BY <2>1, <2>2, <2>3, <3>1, ReadyTypes DEF TypeOK
    <3>3. Content'
      BY <2>2, <3>2 DEF Content
    <3>4. description.run \in Run
      BY <2>1 DEF Scene
    <3>5. QED  BY <2>1, <2>2, <2>3, <3>2, <3>3, <3>4, ViewAssumption DEF FedSceneIsCurrent, Content
  <2>4. CASE ~(~installed /\ pending # None)
    <3>1. UNCHANGED <<installed, pending, view>>
      BY <1>8, <2>4 DEF LoadSucceeds
    <3>2. Content'
      BY <2>2, <3>1 DEF Content
    <3>3. QED  BY <2>2, <3>1, <3>2 DEF FedSceneIsCurrent
  <2>5. QED  BY <2>3, <2>4
<1>9. ASSUME NEW m \in Message, DescriptionChanged(m)
      PROVE  Content' /\ FedSceneIsCurrent'
  <2>1. Block(loads) /\ UNCHANGED <<definition, pending, lastState>>
    BY <1>9 DEF DescriptionChanged
  <2>2. CASE description # None
    BY <2>1, <2>2, BlockKeepsContent DEF Content
  <2>3. CASE description = None
    <3>1. \A l \in loads' : l.current => l.aborted
      BY <2>1, BlockTypes
    <3>2. view' # None => ~view'.live
      BY <2>1, BlockTypes
    <3>3. UNCHANGED <<description, lastDescription, installed>>
      BY <2>1 DEF Block
    <3>4. Content'
      BY <2>1, <2>3, <3>1, <3>3 DEF Content
    <3>5. QED  BY <3>2, <3>4 DEF FedSceneIsCurrent
  <2>4. QED  BY <2>2, <2>3
<1>10. ASSUME NEW m \in Message, StateFails(m)
       PROVE  Content' /\ FedSceneIsCurrent'
  <2>1. Block(loads) /\ UNCHANGED <<definition, pending, lastState>> /\ description # None
    BY <1>10 DEF StateFails, Expected, Described
  <2>2. QED  BY <2>1, BlockKeepsContent DEF Content
<1>11. ASSUME NEW m \in Message, Accepted(m)
       PROVE  /\ description # None /\ description.run = m.run /\ blockedRun # m.run
              /\ lastState' = [run |-> m.run, sequence |-> m.sequence]
              /\ UNCHANGED <<description, lastDescription, definition>>
  BY <1>11 DEF Accepted, Expected, Described
<1>12. ASSUME NEW m \in Message, SceneRefuses(m)
       PROVE  Content' /\ FedSceneIsCurrent'
  <2>1. Accepted(m) /\ Block(loads) /\ pending' = (IF installed THEN pending ELSE m)
    BY <1>12 DEF SceneRefuses
  <2>2. installed => pending' = None
    BY <2>1 DEF Content
  <2>3. definition' # None => definition' = description
    BY <1>11, <2>1 DEF Content
  <2>4. QED  BY <1>11, <2>1, <2>2, <2>3, BlockKeepsContent
<1>13. ASSUME NEW m \in Message, Describe(m)
       PROVE  Content' /\ FedSceneIsCurrent'
  <2>1. /\ blockedRun' = NoRun /\ description' = SceneOf(m) /\ lastDescription' = SceneOf(m)
        /\ definition' = (IF SameRun(m) THEN definition ELSE None)
        /\ pending' = None /\ installed' = FALSE /\ view' = Disconnected
    BY <1>13 DEF Describe
  <2>2. definition' # None => definition' = SceneOf(m)
    BY <1>13, <2>1 DEF Describe, Changed, SameRun, Content
  <2>3. \A l \in loads' : l.current =>
          l = [run |-> m.run, layout |-> m.layout, current |-> TRUE, aborted |-> FALSE]
    BY <1>2, <1>13 DEF Describe
  <2>4. \A l \in loads' : l.current => SceneOf(m) = [run |-> l.run, layout |-> l.layout]
    BY <2>3 DEF SceneOf
  <2>5. Content'
    BY <2>1, <2>2, <2>4 DEF Content
  <2>6. QED  BY <1>2, <2>1, <2>5 DEF FedSceneIsCurrent
<1>14. ASSUME NEW m \in Message, AcceptState(m)
       PROVE  Content' /\ FedSceneIsCurrent'
  <2>1. /\ description # None /\ description.run = m.run /\ blockedRun # m.run
        /\ lastState' = [run |-> m.run, sequence |-> m.sequence]
        /\ UNCHANGED <<description, lastDescription, definition, loads, blockedRun>>
    BY <1>11, <1>14 DEF AcceptState
  <2>2. definition # None => definition = description
    BY <2>1 DEF Content
  <2>3. CASE installed
    <3>1. UNCHANGED <<installed, pending>>
          /\ view' = IF view # None /\ view.run = m.run
                     THEN [view EXCEPT !.sequence = m.sequence] ELSE view
      BY <1>14, <2>3 DEF AcceptState
    <3>2. Content'
      BY <2>1, <2>3, <3>1 DEF Content
    <3>3. CASE view # None /\ view.run = m.run
      <4>1. view \in Views /\ view' = [view EXCEPT !.sequence = m.sequence]
        BY <3>1, <3>3 DEF TypeOK, Views
      <4>2. view'.run = view.run /\ view'.sequence = m.sequence
        BY <4>1 DEF Views
      <4>3. view'.live = view.live
        BY <4>1 DEF Views
      <4>4. QED  BY <2>1, <2>3, <3>1, <3>2, <3>3, <4>2, <4>3 DEF FedSceneIsCurrent
    <3>4. CASE ~(view # None /\ view.run = m.run)
      BY <2>1, <3>1, <3>2, <3>4 DEF FedSceneIsCurrent
    <3>5. QED  BY <3>3, <3>4
  <2>4. CASE ~installed /\ definition # None
    <3>1. Ready(definition, description, m)
      BY <1>14, <2>4 DEF AcceptState
    <3>2. definition \in Scene /\ description \in Scene
      BY <2>1, <2>4 DEF TypeOK
    <3>3. /\ installed' = TRUE /\ pending' = None /\ view' \in Views
          /\ view'.live /\ view'.run = description.run /\ view'.sequence = m.sequence
      BY <3>1, <3>2, ReadyTypes
    <3>4. Content'
      BY <2>1, <3>3 DEF Content
    <3>5. QED  BY <2>1, <2>2, <2>4, <3>3, <3>4 DEF FedSceneIsCurrent
  <2>5. CASE ~installed /\ definition = None
    <3>1. pending' = m /\ UNCHANGED <<installed, view>>
      BY <1>14, <2>5 DEF AcceptState
    <3>2. Content'
      BY <2>1, <2>5, <3>1 DEF Content
    <3>3. QED  BY <2>5, <3>1, <3>2 DEF FedSceneIsCurrent
  <2>6. QED  BY <2>3, <2>4, <2>5
<1>15. CASE Receive
  BY <1>1, <1>9, <1>10, <1>12, <1>13, <1>14, <1>15 DEF Receive, IgnoreDescription, IgnoreState
<1>16. QED
  BY <1>1, <1>3, <1>4, <1>5, <1>6, <1>7, <1>8, <1>15
     DEF Next, LoadEnds, Feed, Accept, SendCompletes, Lose, ServerRestarts, Reconnect
-----------------------------------------------------------------------------
LEMMA LiveInit == Init => LiveInv
<1> SUFFICES ASSUME Init
             PROVE  LiveInv
  OBVIOUS
<1>1. wire = <<>> /\ <<>> \in Seq(Message) /\ Len(<<>>) = 0
  BY EmptySeq DEF Init
<1>2. TypeOK
  <2>1. Len(wire) <= Window
    BY <1>1, ViewAssumption
  <2>2. WireTypes
    BY <1>1, <2>1 DEF Init, WireTypes
  <2>3. SceneTypes
    BY DEF Init, SceneTypes
  <2>4. QED  BY <2>2, <2>3, TypesAreTwo
<1>3. Connected /\ Content /\ FedSceneIsCurrent
  BY DEF Init, Connected, Content, FedSceneIsCurrent
<1>4. InOrder
  BY <1>1 DEF Init, InOrder
<1>5. QED  BY <1>2, <1>3, <1>4 DEF LiveInv

LEMMA LiveStep == LiveInv /\ [Next]_vars => LiveInv'
<1> SUFFICES ASSUME LiveInv, [Next]_vars
             PROVE  LiveInv'
  OBVIOUS
<1>1. CASE Next
  BY <1>1, TypesStep, ConnectedStep, OrderStep, ContentStep DEF LiveInv
<1>2. CASE UNCHANGED vars
  <2>1. TypeOK'
    BY <1>2 DEF LiveInv, TypeOK, vars
  <2>2. Connected' /\ InOrder'
    BY <1>2 DEF LiveInv, Connected, InOrder, Known, WaitsInOrder, vars
  <2>3. Content' /\ FedSceneIsCurrent'
    BY <1>2 DEF LiveInv, Content, FedSceneIsCurrent, vars
  <2>4. QED  BY <2>1, <2>2, <2>3 DEF LiveInv
<1>3. QED  BY <1>1, <1>2

\* What holds in every state of the page, the server and the socket between them.
THEOREM LiveInvariance == Spec => []LiveInv
BY LiveInit, LiveStep, PTL DEF Spec

\* Late resources, lost connections and failures in any order never leave a scene
\* fed that is not the scene of the described run at the watermark
\* (live-connection.ts, App.tsx).
THEOREM FedIsCurrent == Spec => []FedSceneIsCurrent
<1>1. LiveInv => FedSceneIsCurrent
  BY DEF LiveInv
<1>2. QED  BY <1>1, LiveInvariance, PTL

\* The page can tell of every state it receives which run it is of: StreamClient
\* describes a run before its states on every connection.
THEOREM EveryStateIsDescribed == Spec => []StatesAreDescribed
<1>1. ASSUME LiveInv
      PROVE  StatesAreDescribed
  <2>1. wire # <<>> => Head(wire) = wire[1]
    OBVIOUS
  <2>2. QED  BY <1>1, <2>1 DEF LiveInv, InOrder, Known, StatesAreDescribed, Described
<1>2. QED  BY <1>1, LiveInvariance, PTL

\* acceptState lets neither the watermark nor a scene that stays fed go back.
THEOREM WatermarkStays == Spec => WatermarkHolds
<1> DEFINE
      Mark == lastState # None /\ lastState' # None /\ lastState'.run = lastState.run =>
                /\ lastState'.sequence >= lastState.sequence
                /\ TimeOf[lastState.run][lastState'.sequence]
                     >= TimeOf[lastState.run][lastState.sequence]
      Seen == view # None /\ view' # None /\ view.live /\ view'.live /\ view'.run = view.run =>
                view'.sequence >= view.sequence
<1>1. ASSUME LiveInv, UNCHANGED <<lastState>>
      PROVE  Mark
  <2>1. lastState # None => /\ lastState.run \in Run /\ lastState.sequence \in 0..MaxSequence
                            /\ TimeOf[lastState.run][lastState.sequence] \in Nat
    BY <1>1, ViewAssumption DEF LiveInv, TypeOK
  <2>2. QED  BY <1>1, <2>1
<1>2. ASSUME LiveInv, NEW m \in Message, Accepted(m)
      PROVE  Mark
  <2>1. lastState # None => /\ lastState.run \in Run /\ lastState.sequence \in 0..MaxSequence
                            /\ TimeOf[lastState.run][lastState.sequence] \in Nat
    BY <1>2, ViewAssumption DEF LiveInv, TypeOK
  <2>2. m.run \in Run /\ m.sequence \in 0..MaxSequence /\ TimeOf[m.run][m.sequence] \in Nat
    BY ViewAssumption DEF Message
  <2>3. lastState' = [run |-> m.run, sequence |-> m.sequence]
    BY <1>2 DEF Accepted
  <2>4. QED  BY <1>2, <2>1, <2>2, <2>3, ViewAssumption DEF Accepted, Outdated, Backwards, Watched
<1>3. ASSUME LiveInv, Next
      PROVE  Mark
  BY <1>1, <1>2, <1>3 DEF Next, Feed, Accept, SendCompletes, Lose, ServerRestarts, Closed,
     Reconnect, Dispose, Receive, LoadEnds, IgnoreDescription, DescriptionChanged, Describe,
     IgnoreState, StateFails, AcceptState, SceneRefuses, LoadSucceeds, ContentFails, LoadIsLate,
     ReadFails, sceneVars
<1>4. ASSUME LiveInv, LiveInv', Mark
      PROVE  Seen
  <2>1. SUFFICES ASSUME view # None, view' # None, view.live, view'.live, view'.run = view.run
                 PROVE  view'.sequence >= view.sequence
    OBVIOUS
  <2>2. /\ lastState = [run |-> view.run, sequence |-> view.sequence]
        /\ lastState' = [run |-> view'.run, sequence |-> view'.sequence]
    BY <1>4, <2>1 DEF LiveInv, FedSceneIsCurrent
  <2>3. /\ view.run \in Run /\ view'.run \in Run
        /\ view.sequence \in 0..MaxSequence /\ view'.sequence \in 0..MaxSequence
    BY <1>4, <2>1 DEF LiveInv, TypeOK
  <2>4. lastState # None /\ lastState' # None
    BY <2>2, <2>3, NullAssumption
  <2>5. QED  BY <1>4, <2>1, <2>2, <2>4
<1>5. LiveInv /\ LiveInv' /\ [Next]_vars => [Mark /\ Seen]_vars
  BY <1>3, <1>4
<1>6. QED  BY <1>5, LiveInvariance, PTL DEF Spec, WatermarkHolds

\* After dispose no timer, message or late resource touches the page.
THEOREM StaysLeft == Spec => LeftForGood
<1>1. ASSUME LiveInv, Next, stopped
      PROVE  UNCHANGED <<link, retry, view, definition>>
  <2>1. link = "none" /\ ~retry
    BY <1>1 DEF LiveInv, Connected
  <2>2. QED
    BY <1>1, <2>1 DEF Next, Feed, Accept, SendCompletes, Lose, ServerRestarts, Closed, Reconnect,
       Dispose, Receive, LoadEnds, IgnoreDescription, DescriptionChanged, Describe, IgnoreState,
       StateFails, AcceptState, SceneRefuses, Accepted, Arrives, LoadSucceeds, ContentFails,
       LoadIsLate, ReadFails, Awaited, sceneVars
<1>2. LiveInv /\ [Next]_vars => [stopped => UNCHANGED <<link, retry, view, definition>>]_vars
  BY <1>1
<1>3. QED  BY <1>2, LiveInvariance, PTL DEF Spec, LeftForGood
=============================================================================
