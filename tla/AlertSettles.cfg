\* Two fares, both to be delivered one a sweep; one invocation may die.
SPECIFICATION FairSpec
CONSTANTS
    c1 = c1  c2 = c2  r1 = r1  r2 = r2  t1 = t1  n1 = n1  t2 = t2  Null = Null
    Checks <- TwoChecks  Sweeps <- OneSweep
    Findings <- TwoThresholds  TypeOf <- MCTypeOf  Observations <- EitherFare
    Overlap = TRUE  Configured <- Sometimes
    MaxAttempts = 2  Batch = 1  ClaimTTL = 1  Cooldown = 2
    Base = 1  MaxDelay = 2  RetryAfters <- SomeDelay
    Misleading <- Honest  MaxCrashes = 1
PROPERTY EverySettles
