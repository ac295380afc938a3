\* Two automated checks and a manual one race for the last searches of a
\* month; no account sync.  The checks end, so the system may stop.
SPECIFICATION Spec
CONSTANTS
    c1 = c1  c2 = c2  c3 = c3  Null = Null  s1 = s1
    Checks <- Three  Manual <- Last  Flexible <- None
    UnitsPerCheck = 1  MaxAttempts = 2
    Budget = 5  Reserve = 2  HourlyLimit = 4
    Syncs = {}  External = {0}  Quotas <- NoQuota  Rates <- NoQuota
    LastTick = 1  TicksPerHour = 1  HoursPerPeriod = 2
    Ticks <- MCTicks  Hours <- MCHours  Periods <- MCPeriods
    HourOf <- MCHourOf  PeriodOf <- MCPeriodOf
INVARIANTS TypeOK NoUnreservedCall LedgerCoversHoldings MonthlyCap HourlyCap ReserveKept SettledLedgerIsExact
CHECK_DEADLOCK FALSE
PROPERTY ImplementsAllowance
