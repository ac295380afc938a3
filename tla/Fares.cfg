\* Fares about the threshold, four ways to ask for alerts, two series.
SPECIFICATION Spec
CONSTANTS
    Null = Null
    Currency = "EUR"  Preference = "one_stop_max"  MaxStored = 2
    Prices <- Odd  Itineraries <- Direct  Responses <- MCResponses
    Scopes <- Alike  Parties <- Couple  Settings <- Wishes
    MaxChecks = 4  MaxEdits = 1  MaxSeries = 2  MaxHours = 2
INVARIANT FaresInv
PROPERTIES ReachedIsTold QuietOtherwise
\* So many checks, and no more.
CHECK_DEADLOCK FALSE
