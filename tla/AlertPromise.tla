---------------------------- MODULE AlertPromise ----------------------------
(***************************************************************************)
(* What alert delivery promises for each finding, whatever implements it:  *)
(* the owner is told at most once; "sent" is said only of a message that   *)
(* arrived, "dropped" only of one that did not, and what was said last is  *)
(* never taken back.  A message given up as "unsure" may still arrive.     *)
(***************************************************************************)
CONSTANT Findings

VARIABLES
    verdict,  \* what was last said of each finding
    told      \* the findings whose message the owner received

Init == /\ verdict = [f \in Findings |-> "none"]
        /\ told = {}

Say(f, v) == /\ verdict' = [verdict EXCEPT ![f] = v]
             /\ UNCHANGED told

Open(f)    == verdict[f] = "none" /\ Say(f, "open")
Confirm(f) == verdict[f] = "open" /\ f \in told /\ Say(f, "sent")
Drop(f)    == verdict[f] = "open" /\ f \notin told /\ Say(f, "dropped")

Tell(f) == /\ verdict[f] \in {"open", "unsure"}
           /\ f \notin told
           /\ told' = told \cup {f}
           /\ UNCHANGED verdict

\* One statement gives up every expired claim at once.
GiveUp(S) == /\ \A f \in S : verdict[f] = "open"
             /\ verdict' = [f \in Findings |-> IF f \in S THEN "unsure" ELSE verdict[f]]
             /\ UNCHANGED told

Next == \/ \E f \in Findings : Open(f) \/ Confirm(f) \/ Drop(f) \/ Tell(f)
        \/ \E S \in SUBSET Findings : GiveUp(S)

Spec == Init /\ [][Next]_<<verdict, told>>
=============================================================================
