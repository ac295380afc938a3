\* A window of two departures in two markets, one pair a check and one search a
\* tick: two days pass, the owner checks by hand and saves the form once, and one
\* invocation dies, is refused or outlives its lock.
SPECIFICATION FairSpec
CONSTANTS
    Cron = cron  User = user  Null = Null  Dead = Dead
    Exact = FALSE  Departs <- TwoDays  Markets = 2  PerRun = 1  MaxQueries = 1  Laps = 3
    Caching = TRUE  Overlap = FALSE  EditDies = FALSE
    LastDay = 2  MaxSaves = 1  MaxAccidents = 1
INVARIANT QueueInv
PROPERTIES WholeCycles Served
