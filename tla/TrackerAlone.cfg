\* One invocation at a time; searches may fail, trips may end.
SPECIFICATION Spec
CONSTANTS
    t1 = t1  u1 = u1  k1 = k1  k2 = k2  Null = Null
    Ticks <- OneTick  Users <- OneUser  Asks <- Anything  MaxAsks = 3
    Confs <- TwoConfs  Passing <- First  Fares <- TwoFares  Outcomes <- AnyOutcome  MaxFound = 3
    FailureLimit = 2  Overlap = FALSE  Slow = FALSE  MaxCrashes = 0
INVARIANTS SeriesInv LowIsLowest AnnouncedOnce
\* The owner asks only so often, and a paused tracker then rests.
CHECK_DEADLOCK FALSE
