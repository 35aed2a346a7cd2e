------------------------------ MODULE LiveView ------------------------------
(***************************************************************************)
(* One browser that watches the live stream: the server's StreamClient for *)
(* it, the WebSocket between them, LiveConnection in the page, and the     *)
(* scene App.tsx shows.  What the server has to show is the shown variable *)
(* of StreamFeed, with the layout of the description it goes with.         *)
(*                                                                         *)
(* The socket delivers in order until it is lost, at any moment, with      *)
(* whatever is still on its way; the server may restart and remembers      *)
(* nothing; resources load in any order and may come late.                 *)
(***************************************************************************)
EXTENDS Integers, Sequences

CONSTANTS
  Run, NoRun, MaxSequence,  \* see StreamFeed
  LayoutsOf,  \* LayoutsOf[r]: the layouts run r may be described by
  TimeOf,     \* TimeOf[r][s]: simulation time of state s of run r
  Window,     \* messages the transport holds for the page
  None        \* null

ASSUME ViewAssumption ==
  /\ NoRun \notin Run /\ MaxSequence \in Nat /\ Window \in Nat \ {0}
  /\ TimeOf \in [Run -> [0..MaxSequence -> Nat]]

VARIABLES
  shown,            \* receiver.current, or nothing yet
  client,           \* StreamClient of the connection, or None
  link,             \* the page's socket
  wire,             \* sent and not received
  retry,            \* a reconnection timer is set
  stopped,          \* dispose was called
  loads,            \* resource requests that have not ended
  description, lastDescription, definition, pending, lastState, installed, blockedRun,
  view              \* loadedRef.current.live: the scene, its state, whether it is fed

serverVars == <<shown, client>>
sceneVars  == <<loads, description, lastDescription, definition, pending, lastState,
                installed, blockedRun, view>>
vars == <<shown, client, link, wire, retry, stopped, loads, description, lastDescription,
          definition, pending, lastState, installed, blockedRun, view>>

Layout == UNION {LayoutsOf[r] : r \in Run}

Update == [run : Run, sequence : 0..MaxSequence, layout : Layout]
Message == [kind : {"description", "state"}, run : Run, sequence : 0..MaxSequence,
            layout : Layout]

\* A request knows whether its generation is still this.generation and whether
\* its controller has been aborted.
Load == [run : Run, layout : Layout, current : BOOLEAN, aborted : BOOLEAN]

Scene == [run : Run, layout : Layout]

\* null is none of them.
ASSUME NullAssumption ==
  None \notin Update \cup Message \cup Scene \cup [run : Run, sequence : 0..MaxSequence]

TypeOK ==
  /\ shown \in Update \cup {None}
  /\ client \in {None} \cup [pending : Update \cup {None}, sending : Message \cup {None},
                             descriptionRun : Run \cup {NoRun}]
  /\ link \in {"none", "opening", "open", "lost"}
  /\ wire \in Seq(Message) /\ Len(wire) <= Window
  /\ retry \in BOOLEAN /\ stopped \in BOOLEAN
  /\ retry => link = "none" /\ ~stopped
  /\ loads \subseteq Load
  /\ \A x, y \in loads : x.current /\ y.current => x = y
  /\ description \in Scene \cup {None} /\ lastDescription \in Scene \cup {None}
  /\ definition \in Scene \cup {None}
  /\ pending \in Message \cup {None}
  /\ lastState \in [run : Run, sequence : 0..MaxSequence] \cup {None}
  /\ installed \in BOOLEAN /\ blockedRun \in Run \cup {NoRun}
  /\ view \in [run : Run, layout : Layout, sequence : 0..MaxSequence, live : BOOLEAN]
              \cup {None}

NewClient == [pending |-> None, sending |-> None, descriptionRun |-> NoRun]

\* The page has been opened: start() has made the first socket.
Init ==
  /\ shown = None /\ client = None
  /\ link = "opening" /\ wire = <<>> /\ retry = FALSE /\ stopped = FALSE
  /\ loads = {} /\ description = None /\ lastDescription = None /\ definition = None
  /\ pending = None /\ lastState = None /\ installed = FALSE /\ blockedRun = NoRun
  /\ view = None

(***************************************************************************)
(* The server                                                              *)
(***************************************************************************)

DescriptionOf(u) ==
  [kind |-> "description", run |-> u.run, sequence |-> 0, layout |-> u.layout]
StateOf(u) ==
  [kind |-> "state", run |-> u.run, sequence |-> u.sequence, layout |-> u.layout]

\* A slip Flush does not make: the description is sent once per connection.
FlushDescribingOnce(c) ==
  IF c.sending # None \/ c.pending = None THEN c
  ELSE IF c.descriptionRun = NoRun
       THEN [c EXCEPT !.sending = DescriptionOf(c.pending)]
       ELSE [c EXCEPT !.sending = StateOf(c.pending), !.pending = None]

\* One send at a time: the description of a run before its states.
Flush(c) ==
  IF c.sending # None \/ c.pending = None THEN c
  ELSE IF c.descriptionRun # c.pending.run
       THEN [c EXCEPT !.sending = DescriptionOf(c.pending)]
       ELSE [c EXCEPT !.sending = StateOf(c.pending), !.pending = None]

Publish(c, u) == Flush([c EXCEPT !.pending = u])

\* A newer state of the run on display, or any of another run.
Announced(u) ==
  IF shown # None /\ u.run = shown.run
    THEN u.sequence > shown.sequence /\ u.layout = shown.layout
    ELSE u.layout \in LayoutsOf[u.run]

\* The receiver has something new to show, and every client is told.
Feed(u) ==
  /\ Announced(u)
  /\ shown' = u
  /\ client' = IF client = None THEN None ELSE Publish(client, u)
  /\ UNCHANGED <<link, wire, retry, stopped, sceneVars>>

\* The server has a new connection, and sends what it holds.
Accept ==
  /\ link = "opening"
  /\ link' = "open"
  /\ client' = IF shown = None THEN NewClient ELSE Publish(NewClient, shown)
  /\ UNCHANGED <<shown, wire, retry, stopped, sceneVars>>

\* The transport takes the message, and the callback of send goes on.
SendCompletes ==
  /\ client # None
  /\ client.sending # None
  /\ Len(wire) < Window
  /\ wire' = Append(wire, client.sending)
  /\ client' = Flush([client EXCEPT
       !.sending = None,
       !.descriptionRun = IF client.sending.kind = "description" THEN client.sending.run ELSE @])
  /\ UNCHANGED <<shown, link, retry, stopped, sceneVars>>

\* The connection breaks, the handshake fails, or the server terminates it. What
\* is on the wire may still arrive.
Lose ==
  /\ link \in {"opening", "open"}
  /\ link' = "lost"
  /\ client' = None
  /\ UNCHANGED <<shown, wire, retry, stopped, sceneVars>>

ServerRestarts ==
  /\ shown # None
  /\ shown' = None
  /\ client' = None
  /\ link' = IF link \in {"opening", "open"} THEN "lost" ELSE link
  /\ UNCHANGED <<wire, retry, stopped, sceneVars>>

(***************************************************************************)
(* The page                                                                *)
(***************************************************************************)

\* callbacks.disconnected: the scene stays and is fed no more.
Disconnected == IF view = None THEN None ELSE [view EXCEPT !.live = FALSE]

\* Abort and a new generation.
Superseded == {[l EXCEPT !.aborted = l.aborted \/ l.current, !.current = FALSE] : l \in loads}

\* onclose: forget what belongs to the connection and come back later.
Closed ==
  /\ link = "lost"
  /\ link' = "none"
  /\ wire' = <<>>
  /\ retry' = TRUE
  /\ loads' = Superseded
  /\ description' = None /\ pending' = None /\ installed' = FALSE
  /\ view' = Disconnected
  /\ UNCHANGED <<serverVars, stopped, lastDescription, definition, lastState, blockedRun>>

Reconnect ==
  /\ retry
  /\ retry' = FALSE
  /\ link' = "opening"
  /\ UNCHANGED <<serverVars, wire, stopped, sceneVars>>

\* A slip Dispose does not make: the timer is left.
DisposeLeavingTimer ==
  /\ ~stopped
  /\ stopped' = TRUE
  /\ loads' = Superseded
  /\ link' = "none" /\ wire' = <<>> /\ client' = None
  /\ UNCHANGED <<retry, shown, description, lastDescription, definition, pending, lastState,
                 installed, blockedRun, view>>

\* The page leaves the live mode.
Dispose ==
  /\ ~stopped
  /\ stopped' = TRUE
  /\ loads' = Superseded
  /\ retry' = FALSE
  /\ link' = "none" /\ wire' = <<>> /\ client' = None
  /\ UNCHANGED <<shown, description, lastDescription, definition, pending, lastState,
                 installed, blockedRun, view>>

\* fail: a run whose content is wrong is blocked until another run is described.
Block(requests) ==
  /\ blockedRun' = IF description # None THEN description.run
                   ELSE IF lastDescription # None THEN lastDescription.run ELSE NoRun
  /\ loads' = {[l EXCEPT !.aborted = l.aborted \/ l.current] : l \in requests}
  /\ view' = Disconnected
  /\ UNCHANGED <<description, lastDescription, installed>>

\* publishReady, and ready in App.tsx: the scene of the same run is kept and fed
\* again, that of another run is made anew.
Ready(scene, described, m) ==
  /\ installed' = TRUE
  /\ pending' = None
  /\ view' = IF view # None /\ view.run = described.run
             THEN [view EXCEPT !.sequence = m.sequence, !.live = TRUE]
             ELSE [run |-> described.run, layout |-> scene.layout, sequence |-> m.sequence,
                   live |-> TRUE]

Arrives(kind, m) ==
  /\ wire # <<>>
  /\ link \in {"open", "lost"}
  /\ m = Head(wire)
  /\ m.kind = kind
  /\ wire' = Tail(wire)
  /\ UNCHANGED <<serverVars, link, retry, stopped>>

SceneOf(m) == [run |-> m.run, layout |-> m.layout]

SameRun(m) == lastDescription # None /\ lastDescription.run = m.run

Changed(m) == SameRun(m) /\ lastDescription # SceneOf(m)

Described(m) == description # None /\ description.run = m.run

IgnoreDescription(m) ==
  /\ Arrives("description", m)
  /\ blockedRun = m.run \/ (~Changed(m) /\ Described(m))
  /\ UNCHANGED sceneVars

\* The description of the last run has changed.
DescriptionChanged(m) ==
  /\ Arrives("description", m)
  /\ blockedRun # m.run
  /\ Changed(m)
  /\ Block(loads)
  /\ UNCHANGED <<definition, pending, lastState>>

\* The first description of a connection, or of another run. What was loaded for
\* the last described run is kept for it.
Describe(m) ==
  /\ Arrives("description", m)
  /\ blockedRun # m.run
  /\ ~Changed(m) /\ ~Described(m)
  /\ blockedRun' = NoRun
  /\ description' = SceneOf(m) /\ lastDescription' = SceneOf(m)
  /\ definition' = IF SameRun(m) THEN definition ELSE None
  /\ pending' = None /\ installed' = FALSE
  /\ loads' = Superseded \cup
       IF definition' # None THEN {}
       ELSE {[run |-> m.run, layout |-> m.layout, current |-> TRUE, aborted |-> FALSE]}
  /\ view' = Disconnected
  /\ UNCHANGED lastState

\* A slip Awaited does not make: any answer is welcome.
AwaitedAlways(l) == ~stopped

\* A request of this generation that has not been aborted may still be answered.
Awaited(l) == l.current /\ ~l.aborted /\ ~stopped

LoadSucceeds(l) ==
  /\ Awaited(l)
  /\ loads' = loads \ {l}
  /\ definition' = [run |-> l.run, layout |-> l.layout]
  /\ IF ~installed /\ description # None /\ pending # None
       THEN Ready(definition', description, pending)
       ELSE UNCHANGED <<installed, pending, view>>
  /\ UNCHANGED <<serverVars, link, wire, retry, stopped, description, lastDescription,
                 lastState, blockedRun>>

\* The resources do not make a scene of this description, or App.tsx cannot show
\* the scene with the state that waits for it.
ContentFails(l) ==
  /\ Awaited(l)
  /\ definition' = definition
     \/ (definition' = [run |-> l.run, layout |-> l.layout] /\ pending # None)
  /\ Block(loads \ {l})
  /\ UNCHANGED <<serverVars, link, wire, retry, stopped, pending, lastState>>

\* The resources could not be read: the connection is closed, to be tried again.
ReadFails(l) ==
  /\ Awaited(l)
  /\ loads' = loads \ {l}
  /\ view' = Disconnected
  /\ link' = "lost" /\ wire' = <<>> /\ client' = None
  /\ UNCHANGED <<shown, retry, stopped, description, lastDescription, definition, pending,
                 lastState, installed, blockedRun>>

LoadIsLate(l) ==
  /\ ~Awaited(l)
  /\ loads' = loads \ {l}
  /\ UNCHANGED <<serverVars, link, wire, retry, stopped, description, lastDescription,
                 definition, pending, lastState, installed, blockedRun, view>>

\* States of a run that is not described, or is blocked, do not count.
Expected(m) == Described(m) /\ blockedRun # m.run

Watched(m) == lastState # None /\ lastState.run = m.run

\* Slips Outdated does not make: nothing is too old, and a state that was seen is never taken again.
OutdatedNever(m) == FALSE

OutdatedOrSeen(m) == Watched(m) /\ m.sequence <= lastState.sequence

\* Older than the last of the run, or the last itself on a scene that shows it.
Outdated(m) ==
  Watched(m) /\ (m.sequence < lastState.sequence \/ (m.sequence = lastState.sequence /\ installed))

Backwards(m) == Watched(m) /\ TimeOf[m.run][m.sequence] < TimeOf[m.run][lastState.sequence]

IgnoreState(m) ==
  /\ Arrives("state", m)
  /\ Expected(m) => m.layout = description.layout /\ Outdated(m)
  /\ UNCHANGED sceneVars

\* The layout disagrees with the description, or the time runs backwards.
StateFails(m) ==
  /\ Arrives("state", m)
  /\ Expected(m)
  /\ m.layout # description.layout \/ (~Outdated(m) /\ Backwards(m))
  /\ Block(loads)
  /\ UNCHANGED <<definition, pending, lastState>>

Accepted(m) ==
  /\ Arrives("state", m)
  /\ Expected(m)
  /\ m.layout = description.layout
  /\ ~Outdated(m) /\ ~Backwards(m)
  /\ lastState' = [run |-> m.run, sequence |-> m.sequence]
  /\ UNCHANGED <<description, lastDescription, definition>>

AcceptState(m) ==
  /\ Accepted(m)
  /\ CASE installed -> /\ view' = IF view # None /\ view.run = m.run
                                  THEN [view EXCEPT !.sequence = m.sequence] ELSE view
                       /\ UNCHANGED <<installed, pending>>
       [] ~installed /\ definition # None -> Ready(definition, description, m)
       [] OTHER -> pending' = m /\ UNCHANGED <<installed, view>>
  /\ UNCHANGED <<loads, blockedRun>>

\* The callback of App.tsx throws: the scene does not take the state.
SceneRefuses(m) ==
  /\ Accepted(m)
  /\ installed \/ definition # None
  /\ pending' = IF installed THEN pending ELSE m
  /\ Block(loads)

Receive ==
  \E m \in Message :
    \/ IgnoreDescription(m)
    \/ DescriptionChanged(m)
    \/ Describe(m)
    \/ IgnoreState(m)
    \/ StateFails(m)
    \/ AcceptState(m)
    \/ SceneRefuses(m)

LoadEnds == \E l \in loads : LoadSucceeds(l) \/ ContentFails(l) \/ LoadIsLate(l)

(***************************************************************************)
(* The specification                                                       *)
(***************************************************************************)

Next ==
  \/ \E u \in Update : Feed(u)
  \/ Accept
  \/ SendCompletes
  \/ Lose
  \/ ServerRestarts
  \/ Closed
  \/ Reconnect
  \/ Dispose
  \/ Receive
  \/ LoadEnds
  \/ \E l \in loads : ReadFails(l)

\* The event loops of the server and the page turn, the network answers, timers
\* fire and requests end. Nobody has to feed, lose, restart or leave anything.
Fairness ==
  /\ WF_vars(Accept) /\ WF_vars(SendCompletes)
  /\ WF_vars(Closed) /\ WF_vars(Reconnect)
  /\ WF_vars(Receive)
  /\ \A r \in Run, y \in Layout, c, x \in BOOLEAN :
       LET l == [run |-> r, layout |-> y, current |-> c, aborted |-> x]
       IN WF_vars(l \in loads /\ (LoadSucceeds(l) \/ ContentFails(l) \/ LoadIsLate(l)))

Spec == Init /\ [][Next]_vars /\ Fairness

(***************************************************************************)
(* Properties                                                              *)
(***************************************************************************)

\* A scene that is fed is the scene of the described run: it was installed for
\* this connection with the resources of that very description, the run is not
\* blocked, and it shows the last state that passed the checks of acceptState.
\* What callbacks arrive in which order, late resources included, never leaves an
\* old scene fed.
FedSceneIsCurrent ==
  view # None /\ view.live =>
    /\ installed
    /\ description # None /\ description.run = view.run
    /\ definition = description
    /\ blockedRun # view.run
    /\ lastState = [run |-> view.run, sequence |-> view.sequence]

\* The page knows the run of every state it receives: StreamClient sends the
\* description of a run before its states on every connection, also when the run
\* changes while a message is being sent.
StatesAreDescribed ==
  wire # <<>> /\ Head(wire).kind = "state" =>
    Described(Head(wire)) \/ blockedRun = Head(wire).run

\* Within a run neither the number nor the time of the last state goes back, over
\* any number of connections, server lives and reloads, and a scene that stays fed
\* shows no older state: acceptState compares with the watermark, which only a
\* state of another run replaces.
WatermarkHolds ==
  [][/\ lastState # None /\ lastState' # None /\ lastState'.run = lastState.run =>
          /\ lastState'.sequence >= lastState.sequence
          /\ TimeOf[lastState.run][lastState'.sequence] >= TimeOf[lastState.run][lastState.sequence]
     /\ view # None /\ view' # None /\ view.live /\ view'.live /\ view'.run = view.run =>
          view'.sequence >= view.sequence]_vars

\* The scene never goes back to an older state of the run it shows, over any
\* number of connections and server lives: LiveController.reconnect takes the
\* state it is given, for the watermark of LiveConnection has been checked.
NeverGoesBack ==
  [][view # None /\ view' # None /\ view'.run = view.run
       => view'.sequence >= view.sequence]_vars

\* A page that left the live mode stays left: no timer, late resource or message
\* opens a socket or touches the scene.
LeftForGood ==
  [][stopped => UNCHANGED <<link, retry, view, definition>>]_vars

Disturbance ==
  \/ \E u \in Update : Feed(u)
  \/ Lose
  \/ ServerRestarts
  \/ Dispose
  \/ \E l \in loads : ReadFails(l)

\* The page has seen a newer state of the run than the server now holds.
ServerIsBehind ==
  shown # None /\ lastState # None /\ lastState.run = shown.run
  /\ lastState.sequence > shown.sequence

CaughtUp ==
  shown # None /\ view # None /\ view.live
  /\ view.run = shown.run /\ view.sequence = shown.sequence

\* Left in peace, the page comes to show what the server holds, whatever was
\* lost before: connections, messages, the state replaced in StreamClient, or
\* requests. Only a page that was left, a server with nothing to show or one
\* behind the page, and a run with wrong content are excepted.
CatchesUp ==
  <>[][~Disturbance]_vars =>
    <>[](CaughtUp \/ stopped \/ shown = None \/ ServerIsBehind \/ blockedRun = shown.run)
-----------------------------------------------------------------------------
(***************************************************************************)
(* Values for the constants: the first of two runs may be described in two *)
(* ways and its clock stands, the clock of the second goes back.           *)
(***************************************************************************)
MCLayoutsOf == [r \in Run |-> IF r = "a" THEN {"one", "two"} ELSE {"one"}]

\* Each run is described in one way.
MCLayoutOf == [r \in Run |-> {"one"}]

MCTimeOf == [r \in Run |-> [s \in 0..MaxSequence |-> IF r = "a" THEN 0 ELSE MaxSequence - s]]
=============================================================================
