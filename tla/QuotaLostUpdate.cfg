\* Three manual checks and one account sync whose write is computed from a
\* ledger read before a reservation.  The checks end.
SPECIFICATION Spec
CONSTANTS
    c1 = c1  c2 = c2  c3 = c3  Null = Null  s1 = s1
    Checks <- Three  Manual <- Three  Flexible <- None
    UnitsPerCheck = 1  MaxAttempts = 1
    Budget = 2  Reserve = 0  HourlyLimit = 3
    Syncs = {s1}  External = {0}  Quotas <- NoQuota  Rates <- NoQuota
    LastTick = 0  TicksPerHour = 1  HoursPerPeriod = 1
    Ticks <- MCTicks  Hours <- MCHours  Periods <- MCPeriods
    HourOf <- MCHourOf  PeriodOf <- MCPeriodOf
INVARIANTS CallsWithinBudget
CHECK_DEADLOCK FALSE
