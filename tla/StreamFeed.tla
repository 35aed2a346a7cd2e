------------------------------ MODULE StreamFeed ------------------------------
(***************************************************************************)
(* What the live viewer's receiver promises the clients of its server: the *)
(* stream shows nothing, or one state of one run that agrees with the      *)
(* run's description.  While the run stays the same the states only get    *)
(* newer; another run may take over at any time, with any of its states,   *)
(* and once something is shown there is always something to show.          *)
(***************************************************************************)
EXTENDS Integers

CONSTANTS
  Run,         \* run identities
  MaxSequence, \* bound on the sequence numbers of a run
  NoRun        \* nothing is shown yet

VARIABLE shown \* [run, sequence], what StreamReceiver.current holds

Shown == [run : Run, sequence : 0..MaxSequence]

Nothing == [run |-> NoRun, sequence |-> -1]

Init == shown = Nothing

\* A newer state of the run on display.
Advance(s) ==
  /\ s.run = shown.run
  /\ s.sequence > shown.sequence
  /\ shown' = s

\* Another run takes over the display.
TakeOver(s) ==
  /\ s.run # shown.run
  /\ shown' = s

Next == \E s \in Shown : Advance(s) \/ TakeOver(s)

Spec == Init /\ [][Next]_shown
===============================================================================
