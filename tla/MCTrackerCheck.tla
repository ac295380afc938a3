--------------------------- MODULE MCTrackerCheck ---------------------------
(* Instances of TrackerCheck for TLC. *)
EXTENDS TrackerCheck

CONSTANTS t1, u1, k1, k2

OneTick == {t1}
OneUser == {u1}
NoOne == {}

TwoConfs == {k1, k2}
First == {k1}

OneFare == {1}
TwoFares == {1, 2}
AnyOutcome == {"fare", "nothing", "failed", "blocked", "skipped"}
JustFares == {"fare"}

Anything == {"check", "toggle", "edit", "pause", "resume"}
NoBot == {"edit", "check", "toggle"}
=============================================================================
