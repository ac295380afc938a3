\* One update, delivered again and again to three invocations at a time; three times one
\* fails, dies or answers too late, and one may be taken for dead although it goes on.
\* After a 200 nothing is left to do, so the system may stop.
SPECIFICATION FairSpec
CONSTANTS
    Requests = {r1, r2, r3}  MaxAttempts = 2  MaxDeaths = 3  MaxStalls = 1  None = None
INVARIANTS SafeInv NothingForgotten
PROPERTY Answered
CHECK_DEADLOCK FALSE
