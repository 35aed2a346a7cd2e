--------------------------- MODULE LiveController ---------------------------
(***************************************************************************)
(* The page's display of a live run: LiveController buffers the newest     *)
(* samples and shows, a delay behind the newest, an interval between two   *)
(* of them.  Samples come as LiveConnection lets them pass, the display    *)
(* advances with the animation frames, the reader pauses and resumes, and  *)
(* the connection is lost and comes back.                                  *)
(*                                                                         *)
(* LiveConnection keeps one watermark for all runs.  While another run is  *)
(* described and waits for its resources, App.tsx keeps this display, and  *)
(* a state of that run wipes what was known of this one.                   *)
(***************************************************************************)
EXTENDS Integers, Sequences, SequencesExt, FiniteSetsExt

CONSTANTS
    MaxSequence,  \* bound on the sequence numbers of the run
    MaxTime,      \* bound on simulation time
    MaxNow,       \* bound on the clock; both count the units of the delay
    Delay,        \* delaySeconds
    MaxSamples,   \* what 512 samples or 8 MiB hold
    NoState       \* a watermark of another run

Sample == [sequence : 0..MaxSequence, time : 0..MaxTime]

ControllerAssumption ==
    /\ {MaxSequence, MaxTime, MaxNow, Delay} \subseteq Nat /\ MaxSamples \in Nat \ {0}
    /\ NoState \notin Sample

VARIABLES
    samples,       \* the buffer, oldest first
    displayed,     \* [first, second, time]: the interval shown
    lastArrival,   \* when the newest sample came
    now,           \* performance.now()
    paused, disconnected,
    lastState      \* LiveConnection's: the state accepted last, if it was of this run

vars == <<samples, displayed, lastArrival, now, paused, disconnected, lastState>>

TypeOK ==
    /\ samples \in Seq(Sample) /\ Len(samples) <= MaxSamples
    /\ displayed \in [first : Sample, second : Sample, time : 0..MaxTime]
    /\ now \in 0..MaxNow /\ lastArrival \in 0..now
    /\ paused \in BOOLEAN /\ disconnected \in BOOLEAN
    /\ lastState \in Sample \cup {NoState}

\* resolve: the last sample at or before the time, which is brought into the
\* buffer, and the sample after it.
Resolved(buffer, wanted) ==
    LET time == Max({Head(buffer).time, Min({Last(buffer).time, wanted})})
        left == Max({i \in DOMAIN buffer : i = 1 \/ buffer[i].time <= time})
    IN  [first |-> buffer[left], second |-> buffer[Min({left + 1, Len(buffer)})], time |-> time]

\* append: a sample of the same time replaces the newest; the oldest make room.
Appended(buffer, s) ==
    LET kept == IF buffer # <<>> /\ Last(buffer).time = s.time THEN Front(buffer) ELSE buffer
        all  == Append(kept, s)
    IN  SubSeq(all, Max({1, Len(all) - MaxSamples + 1}), Len(all))

Init ==
    \E first \in {s \in Sample : s.sequence = 0} :
        /\ samples = <<first>>
        /\ displayed = [first |-> first, second |-> first, time |-> first.time]
        /\ lastState = first
        /\ lastArrival = 0 /\ now = 0 /\ paused = FALSE /\ disconnected = FALSE

Newer(s) == s.sequence > lastState.sequence /\ s.time >= lastState.time

\* LiveConnection's guards are those of append, which refuses nothing it is given.
Arrive(s) ==
    /\ ~disconnected /\ Newer(s)
    /\ lastState' = s
    /\ samples' = Appended(samples, s)
    /\ lastArrival' = now
    /\ UNCHANGED <<displayed, now, paused, disconnected>>

\* The socket is closed, or an error blocks the run.
Disconnect ==
    /\ ~disconnected
    /\ disconnected' = TRUE /\ samples' = <<>>
    /\ UNCHANGED <<displayed, lastArrival, now, paused, lastState>>

\* What acceptState lets pass while nothing is installed: only a watermark of the same
\* run counts, and the state that came last may come again.
Passes(s) == lastState # NoState => s = lastState \/ Newer(s)

\* It is kept until the resources are there.
Accept(s) ==
    /\ disconnected /\ Passes(s)
    /\ lastState' = s
    /\ UNCHANGED <<samples, displayed, lastArrival, now, paused, disconnected>>

\* Another run has been described, and one of its states is accepted.
AcceptOther ==
    /\ disconnected
    /\ lastState' = NoState
    /\ UNCHANGED <<samples, displayed, lastArrival, now, paused, disconnected>>

\* reconnect itself takes any state of its run.
Reconnect(s) ==
    /\ disconnected /\ Passes(s)
    /\ lastState' = s
    /\ samples' = Appended(<<>>, s)
    /\ lastArrival' = now
    /\ disconnected' = FALSE
    /\ displayed' = IF paused THEN displayed ELSE Resolved(samples', s.time)
    /\ UNCHANGED <<now, paused>>

Pause ==
    /\ ~paused /\ paused' = TRUE
    /\ UNCHANGED <<samples, displayed, lastArrival, now, disconnected, lastState>>

\* A slip that is not made: the delay alone says what is shown.
ResumeBehind ==
    /\ paused /\ paused' = FALSE
    /\ displayed' = IF samples = <<>> THEN displayed
                    ELSE Resolved(samples, Last(samples).time - Delay)
    /\ UNCHANGED <<samples, lastArrival, now, disconnected, lastState>>

Resume ==
    /\ paused /\ paused' = FALSE
    /\ displayed' = IF samples = <<>> THEN displayed
                    ELSE Resolved(samples, Max({displayed.time, Last(samples).time - Delay}))
    /\ UNCHANGED <<samples, lastArrival, now, disconnected, lastState>>

\* An animation frame.
Advance ==
    /\ ~paused /\ ~disconnected /\ samples # <<>>
    /\ LET latest == Last(samples).time
           target == Min({latest, latest + (now - lastArrival) - Delay})
       IN  displayed' = Resolved(samples, Max({displayed.time, target}))
    /\ UNCHANGED <<samples, lastArrival, now, paused, disconnected, lastState>>

Tick ==
    /\ now < MaxNow /\ now' = now + 1
    /\ UNCHANGED <<samples, displayed, lastArrival, paused, disconnected, lastState>>

Next ==
    \/ \E s \in Sample : Arrive(s) \/ Accept(s) \/ Reconnect(s)
    \/ AcceptOther \/ Disconnect \/ Pause \/ Resume \/ Advance \/ Tick

Spec == Init /\ [][Next]_vars
-----------------------------------------------------------------------------
\* The fraction between the two samples of an interval is a number from 0 to 1.
Interpolates(d) ==
    /\ d.first.time <= d.time /\ d.time <= d.second.time
    /\ d.first = d.second \/ d.first.time < d.second.time

\* What is shown is ahead of every state accepted since the watermark was lost.
Ahead ==
    \/ lastState = NoState
    \/ displayed.time > lastState.time
    \/ displayed.second.sequence > lastState.sequence

Newest == [first |-> lastState, second |-> lastState, time |-> lastState.time]

\* Through pauses, evictions, replacements and reconnections the display goes back in
\* one way only: to the newest state, from one that is ahead of it, and ahead it gets
\* only by the state of another run that wiped the watermark.  Otherwise it goes
\* forward and shows nothing that had not arrived.  It stands while it is paused, and
\* is always between two samples.
DisplayFollowsTheWatermark ==
    [][/\ displayed'.time < displayed.time => Ahead /\ displayed' = Newest'
       /\ Ahead' => displayed' = displayed /\ (Ahead \/ lastState' = NoState)
       /\ paused /\ paused' => displayed' = displayed
       /\ Interpolates(displayed')]_vars
=============================================================================
