---------------------------- MODULE StreamReceiver ----------------------------
(***************************************************************************)
(* StreamReceiver of apps/scene_viewer_web: UDP datagrams in, at most one  *)
(* run on display.  Nothing is assumed of the network: any datagram of any *)
(* message may arrive at any time, any number of times, or never.  A run's *)
(* producer gives every message of a kind its own sequence number, so a    *)
(* message is identified by (run, kind, sequence), and Content says what   *)
(* its body decodes to.                                                    *)
(*                                                                         *)
(* The two JavaScript Maps keep insertion order and the code relies on it; *)
(* here each has a set of pairs <<earlier, later>> beside it.  feed runs   *)
(* to completion on each datagram, so each of its outcomes is one step.    *)
(***************************************************************************)
EXTENDS Integers, FiniteSets

CONSTANTS
  Run,         \* run identities
  NoRun,       \* activeId === null
  MaxSequence, \* bound on the sequence numbers of a run
  Layout,      \* descriptions, up to descriptionSemanticallyEqual
  Invalid,     \* a body decodeMessage rejects
  Content,     \* message -> the layout it describes or is laid out by, or Invalid
  NoMessage,   \* null
  Parts,       \* kind -> how many datagrams a message of that kind takes
  MaxPartials, \* 8
  MaxRuns      \* 16

Kind == {"description", "state"}

Message == [run : Run, kind : Kind, sequence : 0..MaxSequence]

ReceiverAssumption ==
  /\ NoRun \notin Run
  /\ MaxSequence \in Nat
  /\ Invalid \notin Layout
  /\ Content \in [Message -> Layout \cup {Invalid}]
  /\ NoMessage \notin Message
  /\ Parts \in [Kind -> Nat \ {0}]
  /\ MaxPartials \in Nat \ {0}
  /\ MaxRuns \in Nat \ {0, 1}

VARIABLES
  partials,   \* message -> the fragments of it received so far
  arrival,    \* the order of partials
  runs,       \* run -> what is known of it
  registered, \* the order of runs
  active,     \* activeId
  published   \* the last update feed returned, which the server broadcast

vars == <<partials, arrival, runs, registered, active, published>>

Entry == [description : Message \cup {NoMessage}, state : Message \cup {NoMessage},
          pending : Message \cup {NoMessage}, retired : BOOLEAN]

NewEntry == [description |-> NoMessage, state |-> NoMessage,
             pending |-> NoMessage, retired |-> FALSE]

Update == [run : Run \cup {NoRun}, state : Message \cup {NoMessage}]

Fragments(kind) == 1..Parts[kind]

\* Both maps stay bounded whatever arrives: 8 partial messages and 16 runs.
TypeOK ==
  /\ DOMAIN partials \subseteq Message
  /\ \A m \in DOMAIN partials : partials[m] \subseteq Fragments(m.kind)
  /\ arrival \subseteq (DOMAIN partials) \X (DOMAIN partials)
  /\ DOMAIN runs \subseteq Run
  /\ \A r \in DOMAIN runs : runs[r] \in Entry
  /\ registered \subseteq (DOMAIN runs) \X (DOMAIN runs)
  /\ active \in Run \cup {NoRun}
  /\ published \in Update

Init ==
  /\ partials = [m \in {} |-> {}]
  /\ arrival = {}
  /\ runs = [r \in {} |-> NewEntry]
  /\ registered = {}
  /\ active = NoRun
  /\ published = [run |-> NoRun, state |-> NoMessage]

(***************************************************************************)
(* Insertion-ordered maps                                                  *)
(***************************************************************************)

\* The order of a map once only the keys of keep are left and key is set.
Ordered(order, keep, key) ==
  {p \in order : p[1] \in keep /\ p[2] \in keep}
    \cup (IF key \in keep THEN {} ELSE keep \X {key})

\* The first of the keys.
IsOldest(order, keys, key) ==
  key \in keys /\ \A other \in keys \ {key} : <<key, other>> \in order

(***************************************************************************)
(* Reassembly                                                              *)
(***************************************************************************)

\* The sequence accepted last for a lane of a run, sequences.get(kind) ?? -1.
Accepted(r, kind) ==
  IF r \in DOMAIN runs /\ runs[r][kind] # NoMessage THEN runs[r][kind].sequence ELSE -1

\* A slip Admissible does not make: duplicates are recognised, reordering is not.
AdmissibleUnlessRepeated(m) == m.sequence # Accepted(m.run, m.kind)

Admissible(m) == m.sequence > Accepted(m.run, m.kind)

Received(m) == IF m \in DOMAIN partials THEN partials[m] ELSE {}

\* A slip Stay does not make: a full buffer keeps growing.
StayAll(m, keep) == keep = DOMAIN partials

\* The partial messages that stay when one for m is opened; the oldest goes
\* when the buffer is full, even if m needs no second datagram.
Stay(m, keep) ==
  IF m \in DOMAIN partials \/ Cardinality(DOMAIN partials) < MaxPartials
  THEN keep = DOMAIN partials
  ELSE \E oldest \in DOMAIN partials :
         /\ IsOldest(arrival, DOMAIN partials, oldest)
         /\ keep = DOMAIN partials \ {oldest}

\* A fragment that is not the last missing one.
Collect(m, f) ==
  /\ Admissible(m)
  /\ f \notin Received(m)
  /\ Received(m) \cup {f} # Fragments(m.kind)
  /\ \E keep \in SUBSET DOMAIN partials :
       /\ Stay(m, keep)
       /\ partials' = [k \in keep \cup {m} |->
                         IF k = m THEN Received(m) \cup {f} ELSE partials[k]]
       /\ arrival' = Ordered(arrival, keep, m)
  /\ UNCHANGED <<runs, registered, active, published>>

\* A datagram that contradicts what was received under the same identity.
Conflict(m) ==
  /\ m \in DOMAIN partials
  /\ Admissible(m)
  /\ partials' = [k \in DOMAIN partials \ {m} |-> partials[k]]
  /\ arrival' = {p \in arrival : p[1] # m /\ p[2] # m}
  /\ UNCHANGED <<runs, registered, active, published>>

Completes(m, f) ==
  /\ Admissible(m)
  /\ f \notin Received(m)
  /\ Received(m) \cup {f} = Fragments(m.kind)

\* clearOlder for each of the messages just accepted.
Outdated(k, acceptedNow) ==
  \E a \in acceptedNow : k.run = a.run /\ k.kind = a.kind /\ k.sequence <= a.sequence

\* m is complete and leaves the buffer, with what its acceptance makes useless.
Release(m, evicted, acceptedNow) ==
  \E keep \in SUBSET DOMAIN partials :
    /\ Stay(m, keep)
    /\ partials' = [k \in {k \in keep \ {m} : /\ k.run \notin evicted
                                              /\ ~Outdated(k, acceptedNow)} |-> partials[k]]
    /\ arrival' = {p \in arrival : p[1] \in DOMAIN partials' /\ p[2] \in DOMAIN partials'}

(***************************************************************************)
(* Runs                                                                    *)
(***************************************************************************)

Known(r) == IF r \in DOMAIN runs THEN runs[r] ELSE NewEntry

\* A slip MakesRoom does not make: the display's run may be evicted.
MakesRoomAnywhere(r, evicted) ==
  IF r \in DOMAIN runs \/ Cardinality(DOMAIN runs) < MaxRuns
  THEN evicted = {}
  ELSE \E oldest \in DOMAIN runs :
         /\ IsOldest(registered, DOMAIN runs, oldest)
         /\ evicted = {oldest}

\* run(id): the oldest run not on display makes room for a new one.
MakesRoom(r, evicted) ==
  IF r \in DOMAIN runs \/ Cardinality(DOMAIN runs) < MaxRuns
  THEN evicted = {}
  ELSE \E oldest \in DOMAIN runs \ {active} :
         /\ IsOldest(registered, DOMAIN runs \ {active}, oldest)
         /\ evicted = {oldest}

Ready(entry) == entry.description # NoMessage /\ entry.state # NoMessage

Shows(entry) == Ready(entry) /\ ~entry.retired

TakesOver(r, entry) == Shows(entry) /\ active # r

\* feed returns an update: a new run on display, or a new state of the one there.
Announces(m, entry) ==
  TakesOver(m.run, entry) \/ (Shows(entry) /\ m.kind = "state")

\* The run's entry is updated; if that makes it ready it takes the display and
\* every run registered before it is retired.
Install(m, entry, acceptedNow) ==
  \E evicted \in SUBSET DOMAIN runs :
    /\ MakesRoom(m.run, evicted)
    /\ Release(m, evicted, acceptedNow)
    /\ registered' = Ordered(registered, DOMAIN runs \ evicted, m.run)
    /\ runs' = [r \in (DOMAIN runs \ evicted) \cup {m.run} |->
                  IF r = m.run THEN entry
                  ELSE IF TakesOver(m.run, entry) /\ <<r, m.run>> \in registered'
                       THEN [runs[r] EXCEPT !.retired = TRUE]
                       ELSE runs[r]]
    /\ active' = IF TakesOver(m.run, entry) THEN m.run ELSE active
    /\ published' = IF Announces(m, entry)
                    THEN [run |-> m.run, state |-> entry.state] ELSE published

(***************************************************************************)
(* Complete messages                                                       *)
(***************************************************************************)

\* A slip Promoted does not make: a held state is trusted.
PromotedUnchecked(m) == Known(m.run).pending

\* A held state that fits the description becomes the run's state.
Promoted(m) ==
  LET held == Known(m.run).pending
  IN  IF held # NoMessage /\ Content[held] = Content[m] THEN held ELSE NoMessage

Described(m) ==
  [Known(m.run) EXCEPT
     !.description = m,
     !.state = IF Promoted(m) # NoMessage THEN Promoted(m) ELSE @,
     !.pending = NoMessage]

AcceptDescription(m, f) ==
  /\ m.kind = "description"
  /\ Completes(m, f)
  /\ Content[m] # Invalid
  /\ Known(m.run).description # NoMessage =>
       Content[Known(m.run).description] = Content[m]
  /\ Install(m, Described(m), {m} \cup ({Promoted(m)} \ {NoMessage}))

\* A state before its description waits; only the newest does.
HoldState(m, f) ==
  /\ m.kind = "state"
  /\ Completes(m, f)
  /\ Content[m] # Invalid
  /\ Known(m.run).description = NoMessage
  /\ Install(m, [Known(m.run) EXCEPT
                   !.pending = IF @ = NoMessage \/ m.sequence > @.sequence THEN m ELSE @], {})

AcceptState(m, f) ==
  /\ m.kind = "state"
  /\ Completes(m, f)
  /\ Known(m.run).description # NoMessage
  /\ Content[m] = Content[Known(m.run).description]
  /\ Install(m, [Known(m.run) EXCEPT !.state = m], {m})

\* feed throws: the message is malformed, or disagrees with the description.
Refuse(m, f) ==
  /\ Completes(m, f)
  /\ \/ Content[m] = Invalid
     \/ /\ Known(m.run).description # NoMessage
        /\ Content[m] # Content[Known(m.run).description]
  /\ Release(m, {}, {})
  /\ UNCHANGED <<runs, registered, active, published>>

Next ==
  \E m \in Message :
    \/ Conflict(m)
    \/ \E f \in Fragments(m.kind) :
         \/ Collect(m, f)
         \/ AcceptDescription(m, f)
         \/ HoldState(m, f)
         \/ AcceptState(m, f)
         \/ Refuse(m, f)

Spec == Init /\ [][Next]_vars

(***************************************************************************)
(* Properties                                                              *)
(***************************************************************************)

\* Neither many runs nor many messages fill the receiver, and what memory it has
\* is not held for a message that could not be accepted any more: every partial
\* message is newer than what its lane has accepted, and still lacks a fragment.
\* (The two ceilings, clearOlder, run eviction and the deletion on completion.)
MemoryIsBounded ==
  /\ Cardinality(DOMAIN partials) <= MaxPartials
  /\ Cardinality(DOMAIN runs) <= MaxRuns
  /\ \A m \in DOMAIN partials :
       /\ Admissible(m)
       /\ partials[m] \notin {{}, Fragments(m.kind)}

\* A state is bound only to a description it is laid out by, whichever of the
\* two came first, and a state is held back only while there is no description.
StatesFitDescriptions ==
  \A r \in DOMAIN runs :
    LET entry == runs[r]
    IN  /\ entry.state # NoMessage =>
             /\ entry.description # NoMessage
             /\ Content[entry.state] = Content[entry.description]
        /\ entry.pending # NoMessage => entry.description = NoMessage

\* The display belongs to the ready run registered last: it is never evicted
\* while on display, nothing registered before it can take the display back, and
\* any other ready run is such a retired one.  A client that connects now is sent
\* the very state that connected clients were sent last: feed returns an update
\* whenever receiver.current changes.
LatestReadyRunIsActive ==
  /\ active # NoRun => active \in DOMAIN runs /\ Shows(runs[active])
  /\ published = [run |-> active,
                  state |-> IF active = NoRun THEN NoMessage ELSE runs[active].state]
  /\ \A r \in DOMAIN runs \ {active} :
       /\ Ready(runs[r]) => runs[r].retired
       /\ runs[r].retired <=> <<r, active>> \in registered

Feed == INSTANCE StreamFeed WITH
  shown <- [run |-> active,
            sequence |-> IF active = NoRun THEN -1 ELSE runs[active].state.sequence]

\* What the server and its clients rely on: within a run states only get newer,
\* and the display never empties.
ImplementsFeed == Feed!Spec
===============================================================================
