--------------------------- MODULE InternalStepper ---------------------------
(***************************************************************************)
(* What every numerical backend promises behind ContinuousStateAdvancer:   *)
(* one internal step at a time, dense output over the last of them, and an *)
(* endpoint that survives every failure, after which only a                *)
(* reinitialization restores the stepping.                                 *)
(***************************************************************************)
EXTENDS Integers

CONSTANT Horizon   \* the last instant

Time == 0..Horizon

VARIABLES
  time,      \* the last successful endpoint
  usable,    \* a step may be taken
  interval   \* the dense output interval, none or one

vars == <<time, usable, interval>>

Init == time \in Time /\ usable = TRUE /\ interval = {}

\* Entering the backend gives the dense output up.
Enter == usable /\ interval' = {} /\ UNCHANGED <<time, usable>>

Step(end) ==
  /\ usable
  /\ time < end
  /\ time' = end
  /\ interval' = {[start |-> time, end |-> end]}
  /\ UNCHANGED usable

Fail == usable' = FALSE /\ interval' = {} /\ UNCHANGED time

Reinitialize(t) == time' = t /\ usable' = TRUE /\ interval' = {}

Next ==
  \/ Enter
  \/ \E end \in Time : Step(end)
  \/ Fail
  \/ \E t \in Time : Reinitialize(t)

Spec == Init /\ [][Next]_vars
=============================================================================
