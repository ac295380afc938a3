--------------------------- MODULE MCSchedulerTick ---------------------------
(* Instances of SchedulerTick for TLC. *)
EXTENDS SchedulerTick

CONSTANTS t1, t2, k1, k2

TwoTicks == {t1, t2}
TwoTrackers == {k1, k2}
Alike == Permutations(TwoTicks)
OneAndTwo == (k1 :> 1) @@ (k2 :> 2)
=============================================================================
