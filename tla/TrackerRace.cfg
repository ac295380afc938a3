\* A tick and a request overlap, holders may outlive their lock, one may die;
\* Cron, time and the living go on.
SPECIFICATION FairSpec
CONSTANTS
    t1 = t1  u1 = u1  k1 = k1  k2 = k2  Null = Null
    Ticks <- OneTick  Users <- OneUser  Asks <- NoBot  MaxAsks = 2
    Confs <- TwoConfs  Passing <- NoOne  Fares <- OneFare  Outcomes <- JustFares  MaxFound = 2
    FailureLimit = 2  Overlap = TRUE  Slow = TRUE  MaxCrashes = 1
INVARIANTS FiledUnderOwnSeries VersionsDiffer ComparedWithinSeries Obeyed
PROPERTY KeepsChecking
\* The owner asks only so often, and a paused tracker then rests.
CHECK_DEADLOCK FALSE
