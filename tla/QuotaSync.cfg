\* Two checks of two units and two attempts, one of them manual and flexible,
\* with an account sync at any moment and a provider that reports other usage
\* and smaller plans.  The checks end, so the system may stop.
SPECIFICATION Spec
CONSTANTS
    c1 = c1  c2 = c2  c3 = c3  Null = Null  s1 = s1
    Checks <- Two  Manual <- One  Flexible <- One
    UnitsPerCheck = 2  MaxAttempts = 2
    Budget = 5  Reserve = 1  HourlyLimit = 6
    Syncs = {s1}  External = {0, 2}  Quotas = {3}  Rates = {2}
    LastTick = 0  TicksPerHour = 1  HoursPerPeriod = 1
    Ticks <- MCTicks  Hours <- MCHours  Periods <- MCPeriods
    HourOf <- MCHourOf  PeriodOf <- MCPeriodOf
INVARIANT LedgerCoversProvider
CHECK_DEADLOCK FALSE
