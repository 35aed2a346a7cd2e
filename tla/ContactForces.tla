---------------------------- MODULE ContactForces ----------------------------
(***************************************************************************)
(* What the contact force plan promises whoever evaluates it: a question   *)
(* is answered by a reply that depends on the question alone, once, and    *)
(* every question is answered.                                             *)
(***************************************************************************)
CONSTANTS
    Question,
    Reply,    \* the reply to each question
    Waiting,  \* not answered yet
    Nothing   \* asked or answered yet

VARIABLES question, answer

Init == question = Nothing /\ answer = Nothing

Ask == answer # Waiting /\ answer' = Waiting /\ question' \in Question

Answer == answer = Waiting /\ answer' = Reply[question] /\ UNCHANGED question

Next == Ask \/ Answer

Spec == Init /\ [][Next]_<<question, answer>> /\ WF_<<question, answer>>(Answer)
=============================================================================
