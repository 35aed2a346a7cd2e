-------------------------- MODULE ReportingReceiver --------------------------
(***************************************************************************)
(* receive_state_stream.py: the receiver that listens for a while and      *)
(* writes a report about the runs it heard.  It is a second implementation *)
(* of the stream, independent of the one in the viewer: it shows nothing,  *)
(* keeps the runs by when it last heard of them rather than by when it     *)
(* first did, and hands on a state whose run it has no description of.     *)
(*                                                                         *)
(* Nothing is assumed of the network.  A message is identified by its run, *)
(* kind and sequence number; Content says what its body decodes to: for a  *)
(* description the number of scalars it names, for a state the number it   *)
(* has values of.  Times, arrival intervals and the values are left out,   *)
(* and the three counts of a scalar's statuses are kept as their total.    *)
(***************************************************************************)
EXTENDS Integers, Sequences, SequencesExt, FiniteSetsExt

CONSTANTS
  Run,         \* run identities
  Numbers,     \* kind -> the sequence numbers a run's messages of that kind have
  Parts,       \* kind -> how many datagrams a message of that kind takes
  Content,     \* message -> the number of its scalars, or Invalid
  Invalid,     \* a body decode_description or decode_state rejects
  None,
  MaxPending,  \* maximum_pending_messages
  MaxRuns,     \* maximum_runs
  MaxStates    \* --max-states

Kind == {"description", "state"}

Message == UNION {[run : Run, kind : {k}, sequence : Numbers[k]] : k \in Kind}

ReceiverAssumption ==
  /\ {MaxPending, MaxRuns, MaxStates} \subseteq Nat \ {0}
  /\ Numbers \in [Kind -> SUBSET Nat]
  /\ Parts \in [Kind -> Nat \ {0}]
  /\ Content \in [Message -> Nat \cup {Invalid}]
  /\ None \notin Nat \cup {Invalid}

VARIABLES
  runs,     \* the retained runs, the one heard of last at the end
  known,    \* run -> what is kept of it: latest, descriptions and reports
  pending,  \* the messages in reassembly with their chunks, oldest first
  evicted,  \* whether evicted_runs counts any
  frames,   \* statistics["state_frames"]
  gaps,     \* statistics["sequence_gaps"]
  reason    \* why main has left its loop

vars == <<runs, known, pending, evicted, frames, gaps, reason>>

\* RunReport.__init__.
NewReport == [descriptions |-> 0, states |-> 0, unbound |-> 0,
              first |-> None, last |-> None, gaps |-> 0, counts |-> <<>>]

NewEntry == [latest |-> [k \in Kind |-> -1], description |-> None, report |-> NewReport]

Init ==
  /\ runs = <<>> /\ known = [r \in {} |-> NewEntry] /\ pending = <<>>
  /\ evicted = FALSE /\ frames = 0 /\ gaps = 0 /\ reason = "listening"

(***************************************************************************)
(* What a datagram touches first, even one that is old or contradictory    *)
(***************************************************************************)

\* What is left of a sequence, in its order, when only the members of a set stay.
Keeping(members, s) ==
  LET kept[i \in 0..Len(s)] ==
        IF i = 0 THEN <<>>
        ELSE IF s[i] \in members THEN Append(kept[i - 1], s[i]) ELSE kept[i - 1]
  IN  kept[Len(s)]

Recent(r) == Append(Keeping(ToSet(runs) \ {r}, runs), r)

\* _touch_run: the run moves to the end, and the first goes if they are too many.
Retained(r) == IF Len(Recent(r)) > MaxRuns THEN Tail(Recent(r)) ELSE Recent(r)

Kept(r) == ToSet(Retained(r))

Entry(r) == IF r \in DOMAIN known THEN known[r] ELSE NewEntry

\* A slip Surviving does not make: the messages of an evicted run stay.
SurvivingAll(r) == pending

\* The messages in reassembly that outlive the eviction.
Surviving(r) == Keeping({p \in ToSet(pending) : p.message.run \in Kept(r)}, pending)

\* The effect of touching m's run, whose entry becomes e.
Touch(m, e) ==
  /\ runs' = Retained(m.run)
  /\ known' = [r \in Kept(m.run) |-> IF r = m.run THEN e ELSE Entry(r)]
  /\ evicted' = (evicted \/ Len(Recent(m.run)) > MaxRuns)

(***************************************************************************)
(* Reassembly                                                              *)
(***************************************************************************)

\* A slip IsOld does not make: repetition is recognised, reordering is not.
IsRepeated(m) == m.sequence = Entry(m.run).latest[m.kind]

IsOld(m) == m.sequence <= Entry(m.run).latest[m.kind]

\* The messages in reassembly once one for m is open.
Opened(m) ==
  LET left == Surviving(m.run)
  IN  IF \E i \in 1..Len(left) : left[i].message = m THEN left
      ELSE LET all == Append(left, [message |-> m, chunks |-> {}])
           IN  IF Len(all) > MaxPending THEN Tail(all) ELSE all

Chunks(m) == LET p == Opened(m)
             IN  p[CHOOSE i \in 1..Len(p) : p[i].message = m].chunks

Without(m) == LET all == Opened(m)
              IN  Keeping({p \in ToSet(all) : p.message # m}, all)

\* The rest is the same whatever the datagram turns out to be.
Untold == UNCHANGED <<frames, gaps, reason>>

\* The lane has delivered this message or a later one.
Ignore(m) ==
  /\ IsOld(m)
  /\ Touch(m, Entry(m.run))
  /\ pending' = Surviving(m.run)
  /\ Untold

\* A chunk that was received before, or that is not the last missing one.
Collect(m, f) ==
  /\ ~IsOld(m)
  /\ Chunks(m) \cup {f} # 1..Parts[m.kind]
  /\ Touch(m, Entry(m.run))
  /\ pending' = [i \in 1..Len(Opened(m)) |->
                   IF Opened(m)[i].message = m
                   THEN [message |-> m, chunks |-> Chunks(m) \cup {f}] ELSE Opened(m)[i]]
  /\ Untold

\* A datagram that contradicts those received under the same identity.
Contradict(m) ==
  /\ ~IsOld(m)
  /\ \E i \in 1..Len(Surviving(m.run)) : Surviving(m.run)[i].message = m
  /\ Touch(m, Entry(m.run))
  /\ pending' = Without(m)
  /\ Untold

Completes(m, f) == ~IsOld(m) /\ Chunks(m) \cup {f} = 1..Parts[m.kind]

(***************************************************************************)
(* Complete messages                                                       *)
(***************************************************************************)

\* It decodes, and agrees with the description the run already has.
Agrees(m) ==
  /\ Content[m] # Invalid
  /\ Entry(m.run).description \in {None, Content[m]}

\* feed counts an invalid datagram: the message is dropped, its lane stays.
Refuse(m, f) ==
  /\ Completes(m, f)
  /\ ~Agrees(m)
  /\ Touch(m, Entry(m.run))
  /\ pending' = Without(m)
  /\ Untold

\* The messages of m's lane up to m will not be wanted any more.
Newer(m) ==
  LET all == Without(m)
  IN  Keeping({p \in ToSet(all) : \/ p.message.run # m.run
                                  \/ p.message.kind # m.kind
                                  \/ p.message.sequence > m.sequence}, all)

\* RunReport.observe of a description.
Described(report, m) ==
  [report EXCEPT !.descriptions = @ + 1,
                 !.counts = IF @ = <<>> THEN [i \in 1..Content[m] |-> 0] ELSE @]

\* A slip Counted does not make: a late description counts for all states.
CountedFromTheStart(report, m, description) ==
  [report EXCEPT
     !.gaps = IF report.states > 0 THEN @ + m.sequence - report.last - 1 ELSE @,
     !.first = IF report.states > 0 THEN @ ELSE m.sequence,
     !.last = m.sequence,
     !.states = @ + 1,
     !.unbound = IF description = None THEN @ + 1 ELSE 0,
     !.counts = IF description = None THEN @ ELSE [i \in 1..Len(@) |-> @[i] + 1]]

\* RunReport.observe of a state: only one that is bound counts for the scalars.
Counted(report, m, description) ==
  [report EXCEPT
     !.gaps = IF report.states > 0 THEN @ + m.sequence - report.last - 1 ELSE @,
     !.first = IF report.states > 0 THEN @ ELSE m.sequence,
     !.last = m.sequence,
     !.states = @ + 1,
     !.unbound = IF description = None THEN @ + 1 ELSE @,
     !.counts = IF description = None THEN @ ELSE [i \in 1..Len(@) |-> @[i] + 1]]

DeliverDescription(m, f) ==
  /\ m.kind = "description"
  /\ Completes(m, f)
  /\ Agrees(m)
  /\ Touch(m, [Entry(m.run) EXCEPT !.latest[m.kind] = m.sequence,
                                   !.description = Content[m],
                                   !.report = Described(@, m)])
  /\ pending' = Newer(m)
  /\ Untold

\* A state is handed on without a description too; the last one wanted ends main.
DeliverState(m, f) ==
  /\ m.kind = "state"
  /\ Completes(m, f)
  /\ Agrees(m)
  /\ LET e == Entry(m.run)
     IN  /\ Touch(m, [e EXCEPT !.latest[m.kind] = m.sequence,
                               !.report = Counted(@, m, e.description)])
         /\ gaps' = gaps + (IF e.latest[m.kind] = -1 THEN 0
                            ELSE m.sequence - e.latest[m.kind] - 1)
  /\ pending' = Newer(m)
  /\ frames' = frames + 1
  /\ reason' = IF frames' >= MaxStates THEN "max_states" ELSE reason

\* main's other ways out; even an invalid datagram starts the quiet interval.
Stop ==
  /\ reason' \in {"duration", "idle", "interrupted"}
  /\ UNCHANGED <<runs, known, pending, evicted, frames, gaps>>

Next ==
  /\ reason = "listening"
  /\ \/ Stop
     \/ \E m \in Message :
          \/ Ignore(m)
          \/ Contradict(m)
          \/ \E f \in 1..Parts[m.kind] :
               \/ Collect(m, f)
               \/ Refuse(m, f)
               \/ DeliverDescription(m, f)
               \/ DeliverState(m, f)

Spec == Init /\ [][Next]_vars
-----------------------------------------------------------------------------
\* What is buffered stays within its limits and is worth keeping: no message of a
\* forgotten run, none that its lane has passed, none empty or complete.
BufferIsBounded ==
  /\ Len(runs) <= MaxRuns /\ IsInjective(runs) /\ DOMAIN known = ToSet(runs)
  /\ Len(pending) <= MaxPending
  /\ \A i \in 1..Len(pending) :
       LET p == pending[i]
       IN  /\ p.message.run \in DOMAIN known /\ ~IsOld(p.message)
           /\ p.chunks \notin {{}, 1..Parts[p.message.kind]}
           /\ \A j \in 1..Len(pending) : pending[j].message = p.message => i = j

\* The report adds up, however messages were lost, repeated and reordered: of each
\* run, what was received and what is missing make up the sequence numbers from
\* the first to the last, which is where its lane stands; every scalar was counted
\* once for each state that had a description to be read by, so that the strict
\* zip of observe, which nothing catches, cannot fail; and while no run had to be
\* forgotten the runs account for the statistics of the whole stream.
ReportAddsUp ==
  /\ \A r \in DOMAIN known :
       LET e == known[r] report == e.report
       IN  /\ report.states > 0 =>
                report.states + report.gaps = report.last - report.first + 1
           /\ (IF report.states > 0 THEN report.last ELSE -1) = e.latest["state"]
           /\ IF e.description = None
                THEN report.counts = <<>> /\ report.unbound = report.states
                ELSE /\ Len(report.counts) = e.description
                     /\ \A i \in DOMAIN report.counts :
                          report.counts[i] = report.states - report.unbound
  /\ ~evicted =>
       /\ frames = SumFunction([r \in DOMAIN known |-> known[r].report.states])
       /\ gaps = SumFunction([r \in DOMAIN known |-> known[r].report.gaps])

\* A lane never turns back while its run is retained, and a run is forgotten only to
\* make room for one newly heard of: the one not heard of for the longest.
LanesMoveForward ==
  [][\A r \in DOMAIN known :
       IF r \in DOMAIN known'
       THEN \A k \in Kind : known'[r].latest[k] >= known[r].latest[k]
       ELSE r = Head(runs) /\ runs' = Append(Tail(runs), Last(runs'))]_vars
=============================================================================
