\* Two saves of any of the forms, over five days in two months.
SPECIFICATION Spec
CONSTANTS
    Null = Null  Garbled = Garbled
    Forms <- MCForms  Edits <- MCEdits  Safes = {2, 6}  Hards = {2, 8}
    MonthLength = 3  Horizon = 1  MaxCandidates = 8  MaxRequests = 2
    LastDay = 4  MaxSaves = 2
INVARIANT FormInv
PROPERTIES AlwaysSearchable KeepsProgress
\* The days and the saves are bounded.
CHECK_DEADLOCK FALSE
