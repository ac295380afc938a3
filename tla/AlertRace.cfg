\* Two checks find the same fare and may overlap with each other and with two
\* sweeps.  Everything may settle, and then only sweeps go on.
SPECIFICATION Spec
CONSTANTS
    c1 = c1  c2 = c2  r1 = r1  r2 = r2  t1 = t1  n1 = n1  t2 = t2  Null = Null
    Checks <- TwoChecks  Sweeps <- TwoSweeps
    Findings <- OneFare  TypeOf <- MCTypeOf  Observations <- SameFare
    Overlap = TRUE  Configured <- Always
    MaxAttempts = 2  Batch = 1  ClaimTTL = 1  Cooldown = 0
    Base = 1  MaxDelay = 1  RetryAfters <- NoDelay
    Misleading <- Honest  MaxCrashes = 1
INVARIANTS AlertInv OncePerFinding VerdictTruthful OneMessagePerObservation
PROPERTY ImplementsPromise
