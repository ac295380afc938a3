\* Two invocations overlap, may stall past their lease and have one accident,
\* next to a manual check.
SPECIFICATION Spec
CONSTANTS
    t1 = t1  t2 = t2  k1 = k1  k2 = k2  User = user  Null = Null  Dead = Dead
    Ticks <- TwoTicks  Trackers <- TwoTrackers  Units <- OneAndTwo
    PerTick = 2  Queries = 2  MaxCalls = 1  MaxManual = 1  Slow = FALSE  MaxAccidents = 1
INVARIANTS TickInv OneTickSearches NoDoubleSearch CompletedMeansDone DigestOnce
SYMMETRY Alike
