------------------------------ MODULE Allowance ------------------------------
(***************************************************************************)
(* What the quota guard promises, whatever its implementation: in every    *)
(* month at most Budget calls are granted, calls are made only out of what *)
(* was granted, and what is returned was not used.                         *)
(***************************************************************************)
EXTENDS Naturals

CONSTANTS Months, Budget

VARIABLES granted, spent

Init == /\ granted = [m \in Months |-> 0]
        /\ spent = [m \in Months |-> 0]

Grant(m, n) ==
    /\ granted[m] + n <= Budget
    /\ granted' = [granted EXCEPT ![m] = @ + n]
    /\ UNCHANGED spent

Spend(m) ==
    /\ spent[m] < granted[m]
    /\ spent' = [spent EXCEPT ![m] = @ + 1]
    /\ UNCHANGED granted

Return(m, n) ==
    /\ spent[m] + n <= granted[m]
    /\ granted' = [granted EXCEPT ![m] = @ - n]
    /\ UNCHANGED spent

Next == \E m \in Months :
            \/ Spend(m)
            \/ \E n \in 1..Budget : Grant(m, n) \/ Return(m, n)

Spec == Init /\ [][Next]_<<granted, spent>>
=============================================================================
