---------------------------- MODULE Publication ----------------------------
(***************************************************************************)
(* What a reader of one output path may rely on: at most one result is     *)
(* ever published there, whole and in one step, and it stays.  The report  *)
(* of a failed run is a file beside it, also whole, also published once,   *)
(* and never beside a result that is already there.                        *)
(***************************************************************************)
CONSTANTS Runs,        \* the processes that may ever use the path
          Whole(_),    \* the complete output of a run
          Nothing      \* what an absent file or directory holds

VARIABLES result,      \* what the output path holds
          failure      \* what the failure report's path holds

Init == result = Nothing /\ failure = Nothing

Publish(r) ==
    /\ result = Nothing
    /\ result' = Whole(r)
    /\ UNCHANGED failure

ReportFailure(r) ==
    /\ result = Nothing
    /\ failure = Nothing
    /\ failure' = Whole(r)
    /\ UNCHANGED result

Next == \E r \in Runs : Publish(r) \/ ReportFailure(r)

Spec == Init /\ [][Next]_<<result, failure>>
=============================================================================
