-------------------------- MODULE MCAlertDelivery --------------------------
(* Instances of AlertDelivery for TLC: a fare that is a new low below the  *)
(* threshold (t1 and n1) and a later one at the threshold (t2).            *)
EXTENDS AlertDelivery

CONSTANTS c1, c2, r1, r2, t1, n1, t2

TwoChecks == {c1, c2}
OneSweep == {r1}
TwoSweeps == {r1, r2}

OneFare == {t1, n1}
TwoThresholds == {t1, t2}
MCTypeOf == [f \in Findings |-> IF f = n1 THEN "new_low" ELSE "threshold"]

SameFare == {{t1, n1}, {t1}}
EitherFare == {{t1}, {t2}}

Always == {TRUE}
Sometimes == {TRUE, FALSE}
NoDelay == {0}
SomeDelay == {0, 2}
Honest == {}
=============================================================================
