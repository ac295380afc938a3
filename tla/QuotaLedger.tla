----------------------------- MODULE QuotaLedger -----------------------------
(***************************************************************************)
(* The provider allowance of the Worker: services/quota.ts, the quota      *)
(* statements of db/repo.ts, and the part of a tracker check that spends   *)
(* it (runTracker and executeLive of services/search.ts, the retry loop of *)
(* providers/serpapi.ts).                                                  *)
(*                                                                         *)
(* Several checks run at once: a Cron tick, "Check now" in the web UI,     *)
(* /check in Telegram.  Every await is a step of its own.  The monthly     *)
(* ledger and the hourly bucket are two D1 rows, each changed by one       *)
(* conditional statement.  A check may die between any two steps.  The     *)
(* owner may refresh the provider's account status at any time.            *)
(***************************************************************************)
EXTENDS Naturals, FiniteSets, Sequences

CONSTANTS
    Checks,         \* runs of SearchService.runTracker
    Manual,         \* those with a MANUAL or INITIAL trigger
    Flexible,       \* those of flexible-preset trackers (Travel Explore)
    UnitsPerCheck,  \* billable query units of one check
    MaxAttempts,    \* provider.maxRequestCount: attempts of one unit
    Budget,         \* config.monthlySearchBudget
    Reserve,        \* config.reserveSearches
    HourlyLimit,    \* config.hourlySearchLimit
    Syncs,          \* POSTs to /settings/sync-provider
    External,       \* calls the account saw that are not this program's
    Quotas, Rates,  \* plan limits the account endpoint may report, or Null
    Null,           \* SQL NULL
    Ticks, Hours, Periods,  \* instants, UTC hours and UTC months
    HourOf, PeriodOf,       \* hourKey and periodKey of an instant
    TicksPerHour            \* length of the rolling hour, in instants

ASSUME ChecksAssumption ==
    /\ IsFiniteSet(Checks)
    /\ Manual \subseteq Checks
    /\ Flexible \subseteq Checks

ASSUME LimitsAssumption ==
    /\ UnitsPerCheck \in Nat
    /\ MaxAttempts \in Nat \ {0}
    /\ Budget \in Nat
    /\ Reserve \in Nat
    /\ HourlyLimit \in Nat

ASSUME ReportsAssumption ==
    /\ Null \notin Nat
    /\ External \subseteq Nat
    /\ Quotas \subseteq Nat \cup {Null}
    /\ Rates \subseteq Nat \cup {Null}

ASSUME CalendarAssumption ==
    /\ Ticks \subseteq Nat
    /\ 0 \in Ticks
    /\ HourOf \in [Ticks -> Hours]
    /\ PeriodOf \in [Ticks -> Periods]
    /\ Null \notin Periods
    /\ TicksPerHour \in Nat

VARIABLES
    clock,      \* the present instant
    local,      \* provider_usage.local_searches, per period
    prov,       \* the provider_* columns of provider_usage, per period
    used,       \* provider_quota_hours.used, per hour
    rows,       \* the provider_calls table
    pc,         \* where each check is
    at,         \* the unit each check is at
    snap,       \* authorize: the budget its snapshot computed, and its now
    allowed,    \* authorize: how many units may go live
    caps,       \* reserveCalls: the limits read before the first write
    key,        \* the period and hour a unit's reservation is charged to
    count,      \* the requestCount the adapter reported, and when
    spc,        \* where each sync is
    sread,      \* what each sync has read
    callAt,     \* the instants at which the provider received a unit's requests
    month,      \* of each unit's reservation, what is still in the ledger
    hour,       \* of each unit's reservation, what is still in the bucket
    lowered     \* per period: a sync wrote a smaller ledger than it found

ledgerVars == <<local, prov, used, rows>>
checkVars  == <<pc, at, snap, allowed, caps, key, count>>
syncVars   == <<spc, sread>>
ghostVars  == <<callAt, month, hour, lowered>>
vars == <<clock, ledgerVars, checkVars, syncVars, ghostVars>>

-----------------------------------------------------------------------------
(* Types and helpers.                                                      *)

MaxOf(a, b) == IF a >= b THEN a ELSE b
MinOf(a, b) == IF a <= b THEN a ELSE b
Minus(a, b) == IF a >= b THEN a - b ELSE 0

Units == Checks \X (1..UnitsPerCheck)
Unit(c) == <<c, at[c]>>

MaybeNat == Nat \cup {Null}
OrZero(x) == IF x = Null THEN 0 ELSE x          \* COALESCE(x, 0)
Capped(n, x) == IF x = Null THEN n ELSE MinOf(n, x)

Report == [usage : MaybeNat, left : MaybeNat, quota : MaybeNat, rate : MaybeNat]
NoReport == [usage |-> Null, left |-> Null, quota |-> Null, rate |-> Null]
NoSnapshot == [budget |-> 0, now |-> 0]
NoKey == [period |-> Null, hour |-> Null]
Key == [period : Periods, hour : Hours] \cup {NoKey}

\* Attempts as <<unit, number>> pairs, so that they can be counted: the first
\* f[u] attempts of every unit u of U.
Attempts == Units \X (1..MaxAttempts)
Held(f, U) == {x \in Attempts : x[1] \in U /\ x[2] <= f[x[1]]}

UnitsOf(p) == {u \in Units : key[u].period = p}
UnitsIn(h) == {u \in Units : key[u].hour = h}
OfChecks(S) == {u \in Units : u[1] \in S}
Calls == [u \in Units |-> Len(callAt[u])]

ChargedTo(p) == Held(month, UnitsOf(p))
ChargedIn(h) == Held(hour, UnitsIn(h))
CallsOf(S, p) == Held(Calls, UnitsOf(p) \cap OfChecks(S))
CallsInHour(S, h) == Held(Calls, UnitsIn(h) \cap OfChecks(S))
\* What the provider bills a month for: requests it received in that month.
Billed(p) == {x \in Attempts : /\ x[2] <= Len(callAt[x[1]])
                               /\ PeriodOf[callAt[x[1]][x[2]]] = p}

\* In the middle of a unit, and anywhere at all.
Working == {"limits", "monthly", "hourly", "undo", "calling",
            "returnMonth", "returnHour", "log"}
PCs == Working \cup {"start", "counting", "units", "done", "crashed"}

LedgerTypeOK ==
    /\ local \in [Periods -> Nat]
    /\ prov \in [Periods -> Report]
    /\ used \in [Hours -> Nat]
    /\ rows \subseteq (Attempts \X Ticks) /\ IsFiniteSet(rows)

CheckTypeOK ==
    /\ pc \in [Checks -> PCs]
    /\ at \in [Checks -> Nat]
    /\ snap \in [Checks -> [budget : Nat, now : Ticks]]
    /\ allowed \in [Checks -> Nat]
    /\ caps \in [Checks -> [monthly : Nat, hourly : Nat]]
    /\ key \in [Units -> Key]
    /\ count \in [Checks -> [n : 0..MaxAttempts, when : Ticks]]

SyncTypeOK ==
    /\ spc \in [Syncs -> {"idle", "reading", "writing", "done"}]
    /\ sread \in [Syncs -> [period : Periods, local : Nat, report : Report]]

GhostTypeOK ==
    /\ callAt \in [Units -> Seq(Ticks)]
    /\ month \in [Units -> 0..MaxAttempts]
    /\ hour \in [Units -> 0..MaxAttempts]
    /\ lowered \in [Periods -> BOOLEAN]

TypeOK == clock \in Ticks /\ LedgerTypeOK /\ CheckTypeOK /\ SyncTypeOK /\ GhostTypeOK

Init ==
    /\ clock = 0
    /\ local = [p \in Periods |-> 0]
    /\ prov = [p \in Periods |-> NoReport]
    /\ used = [h \in Hours |-> 0]
    /\ rows = {}
    /\ pc = [c \in Checks |-> "start"]
    /\ at = [c \in Checks |-> 0]
    /\ snap = [c \in Checks |-> NoSnapshot]
    /\ allowed = [c \in Checks |-> 0]
    /\ caps = [c \in Checks |-> [monthly |-> 0, hourly |-> 0]]
    /\ key = [u \in Units |-> NoKey]
    /\ count = [c \in Checks |-> [n |-> 0, when |-> 0]]
    /\ spc = [s \in Syncs |-> "idle"]
    /\ sread = [s \in Syncs |-> [period |-> PeriodOf[0], local |-> 0, report |-> NoReport]]
    /\ callAt = [u \in Units |-> <<>>]
    /\ month = [u \in Units |-> 0]
    /\ hour = [u \in Units |-> 0]
    /\ lowered = [p \in Periods |-> FALSE]

Goto(c, label) == pc' = [pc EXCEPT ![c] = label]

-----------------------------------------------------------------------------
(* authorize: how many of the check's units may go live.                   *)

\* snapshot(): the usage row, and from it the budget this trigger may spend.
RemainingHard(p) ==
    LET r == prov[p]
        left == Minus(Budget, MaxOf(local[p], OrZero(r.usage)))
    IN  Capped(left, r.left)
RemainingSafe(p) == Minus(RemainingHard(p), Reserve)

ReadUsage(c) ==
    /\ pc[c] = "start"
    /\ snap' = [snap EXCEPT ![c] =
                  [budget |-> IF c \in Manual THEN RemainingHard(PeriodOf[clock])
                                              ELSE RemainingSafe(PeriodOf[clock]),
                   now |-> clock]]
    /\ caps' = [caps EXCEPT ![c] =
                  [monthly |-> 0, hourly |-> Capped(HourlyLimit, prov[PeriodOf[clock]].rate)]]
    /\ Goto(c, "counting")
    /\ UNCHANGED <<clock, ledgerVars, at, allowed, key, count, syncVars, ghostVars>>

\* The rolling hour: rows of provider_calls no older than an hour.
RecentRows(now) == {x \in rows : x[2] + TicksPerHour >= now}

\* granted, and the whole units whose retries fit into it.
CountHourly(c) ==
    /\ pc[c] = "counting"
    /\ LET hourlyLeft == Minus(caps[c].hourly, Cardinality(RecentRows(snap[c].now)))
           granted == MinOf(UnitsPerCheck * MaxAttempts, MinOf(snap[c].budget, hourlyLeft))
       IN  allowed' = [allowed EXCEPT ![c] = granted \div MaxAttempts]
    /\ snap' = [snap EXCEPT ![c] = NoSnapshot]
    /\ at' = [at EXCEPT ![c] = 1]
    /\ Goto(c, "units")
    /\ UNCHANGED <<clock, ledgerVars, caps, key, count, syncVars, ghostVars>>

-----------------------------------------------------------------------------
(* One unit: executeLive, with reserveCalls and finalizeReservation.       *)

\* A unit beyond the allowance is recorded as QUOTA_BLOCKED, and so is every
\* later one; a check past its last unit is done.
StopUnits(c) ==
    /\ pc[c] = "units"
    /\ at[c] > MinOf(allowed[c], UnitsPerCheck)
    /\ Goto(c, "done")
    /\ UNCHANGED <<clock, ledgerVars, at, snap, allowed, caps, key, count, syncVars, ghostVars>>

\* reserveCalls fixes the period and the hour it will charge when it starts.
StartUnit(c) ==
    /\ pc[c] = "units"
    /\ at[c] <= MinOf(allowed[c], UnitsPerCheck)
    /\ key' = [key EXCEPT ![Unit(c)] = [period |-> PeriodOf[clock], hour |-> HourOf[clock]]]
    /\ Goto(c, "limits")
    /\ UNCHANGED <<clock, ledgerVars, at, snap, allowed, caps, count, syncVars, ghostVars>>

\* Mutant: automation may spend the reserve too.
MonthlyLimitMutant(c) == Budget
MonthlyLimit(c) == IF c \in Manual THEN Budget ELSE Minus(Budget, Reserve)

ReadLimits(c) ==
    /\ pc[c] = "limits"
    /\ LET r == prov[key[Unit(c)].period]
       IN  caps' = [caps EXCEPT ![c] = [monthly |-> Capped(MonthlyLimit(c), r.quota),
                                        hourly |-> Capped(HourlyLimit, r.rate)]]
    /\ Goto(c, "monthly")
    /\ UNCHANGED <<clock, ledgerVars, at, snap, allowed, key, count, syncVars, ghostVars>>

\* Mutant: the limit is compared with the ledger before the addition.
MonthlyFitsMutant(p, limit) == MaxOf(local[p], OrZero(prov[p].usage)) < limit

\* reserveMonthlyCalls: the WHERE clause of the conditional UPDATE.
MonthlyFits(p, limit) ==
    LET r == prov[p]
        total == MaxOf(local[p], OrZero(r.usage)) + MaxAttempts
    IN  /\ total <= limit
        /\ r.usage # Null /\ r.left # Null => total <= r.usage + r.left

ReserveMonthly(c) ==
    LET p == key[Unit(c)].period IN
    /\ pc[c] = "monthly"
    /\ MonthlyFits(p, caps[c].monthly)
    /\ local' = [local EXCEPT ![p] = MaxOf(@, OrZero(prov[p].usage)) + MaxAttempts]
    /\ month' = [month EXCEPT ![Unit(c)] = MaxAttempts]
    /\ Goto(c, "hourly")
    /\ UNCHANGED <<clock, prov, used, rows, at, snap, allowed, caps, key, count,
                   syncVars, callAt, hour, lowered>>

\* No reservation: the run is QUOTA_BLOCKED and the loop goes on.
RefuseMonthly(c) ==
    /\ pc[c] = "monthly"
    /\ ~MonthlyFits(key[Unit(c)].period, caps[c].monthly)
    /\ at' = [at EXCEPT ![c] = @ + 1]
    /\ Goto(c, "units")
    /\ UNCHANGED <<clock, ledgerVars, snap, allowed, caps, key, count, syncVars, ghostVars>>

\* Mutant: the limit is compared with the bucket before the addition.
HourlyFitsMutant(h, limit) == used[h] < limit

\* reserveHourlyCalls: the WHERE clause of its conditional UPDATE.
HourlyFits(h, limit) == used[h] + MaxAttempts <= limit

ReserveHourly(c) ==
    LET h == key[Unit(c)].hour IN
    /\ pc[c] = "hourly"
    /\ HourlyFits(h, caps[c].hourly)
    /\ used' = [used EXCEPT ![h] = @ + MaxAttempts]
    /\ hour' = [hour EXCEPT ![Unit(c)] = MaxAttempts]
    /\ Goto(c, "calling")
    /\ UNCHANGED <<clock, local, prov, rows, at, snap, allowed, caps, key, count,
                   syncVars, callAt, month, lowered>>

\* Mutant: the monthly half of a refused reservation is not undone.
RefuseHourlyMutant(c) ==
    /\ pc[c] = "hourly"
    /\ ~HourlyFits(key[Unit(c)].hour, caps[c].hourly)
    /\ at' = [at EXCEPT ![c] = @ + 1]
    /\ Goto(c, "units")
    /\ UNCHANGED <<clock, ledgerVars, snap, allowed, caps, key, count, syncVars, ghostVars>>

RefuseHourly(c) ==
    /\ pc[c] = "hourly"
    /\ ~HourlyFits(key[Unit(c)].hour, caps[c].hourly)
    /\ Goto(c, "undo")
    /\ UNCHANGED <<clock, ledgerVars, at, snap, allowed, caps, key, count, syncVars, ghostVars>>

\* Mutant: the provider's own count is not a floor.
ReturnedNoFloor(p, n) == Minus(local[p], n)

\* Mutant: one call too many is returned.
ReturnedMutant(p, n) == MaxOf(OrZero(prov[p].usage), Minus(local[p], n + 1))

\* releaseMonthlyCalls: never below what the provider itself reported.
Returned(p, n) == MaxOf(OrZero(prov[p].usage), Minus(local[p], n))

UndoMonthly(c) ==
    LET p == key[Unit(c)].period IN
    /\ pc[c] = "undo"
    /\ local' = [local EXCEPT ![p] = Returned(p, MaxAttempts)]
    /\ month' = [month EXCEPT ![Unit(c)] = 0]
    /\ at' = [at EXCEPT ![c] = @ + 1]
    /\ Goto(c, "units")
    /\ UNCHANGED <<clock, prov, used, rows, snap, allowed, caps, key, count,
                   syncVars, callAt, hour, lowered>>

Made(c) == Len(callAt[Unit(c)])
Request(c) == callAt' = [callAt EXCEPT ![Unit(c)] = Append(@, clock)]

\* A timeout or a network error, with an attempt left.
AttemptAgain(c) ==
    /\ pc[c] = "calling"
    /\ Made(c) + 1 < MaxAttempts
    /\ Request(c)
    /\ UNCHANGED <<clock, ledgerVars, checkVars, syncVars, month, hour, lowered>>

\* Mutants: the last attempt is not counted, or counted twice.
ReportedTooFew(c) == {Made(c)}
ReportedTooMany(c) == {Made(c) + 2}

\* What the adapter may report after its last attempt: as many requests as it
\* made, except when the Travel Explore body is rejected after the transport
\* returned it; that error keeps its initial requestCount of 1.
Reported(c) == {Made(c) + 1} \cup (IF c \in Flexible THEN {1} ELSE {})

AttemptEnds(c) ==
    /\ pc[c] = "calling"
    /\ Made(c) < MaxAttempts
    /\ Request(c)
    /\ \E n \in Reported(c) :
         /\ count' = [count EXCEPT ![c] = [n |-> n, when |-> clock]]
         /\ Goto(c, IF n < MaxAttempts THEN "returnMonth" ELSE "log")
    /\ UNCHANGED <<clock, ledgerVars, at, snap, allowed, caps, key, syncVars,
                   month, hour, lowered>>

\* finalizeReservation returns what was not used: ledger, then bucket ...
ReturnMonth(c) ==
    LET p == key[Unit(c)].period IN
    /\ pc[c] = "returnMonth"
    /\ local' = [local EXCEPT ![p] = Returned(p, MaxAttempts - count[c].n)]
    /\ month' = [month EXCEPT ![Unit(c)] = count[c].n]
    /\ Goto(c, "returnHour")
    /\ UNCHANGED <<clock, prov, used, rows, at, snap, allowed, caps, key, count,
                   syncVars, callAt, hour, lowered>>

ReturnHour(c) ==
    LET h == key[Unit(c)].hour IN
    /\ pc[c] = "returnHour"
    /\ used' = [used EXCEPT ![h] = Minus(@, MaxAttempts - count[c].n)]
    /\ hour' = [hour EXCEPT ![Unit(c)] = count[c].n]
    /\ Goto(c, "log")
    /\ UNCHANGED <<clock, local, prov, rows, at, snap, allowed, caps, key, count,
                   syncVars, callAt, month, lowered>>

\* ... and logs one row per reported call, stamped with the end of the call.
InsertRows(c) ==
    /\ pc[c] = "log"
    /\ rows' = rows \cup (({Unit(c)} \X (1..count[c].n)) \X {count[c].when})
    /\ at' = [at EXCEPT ![c] = @ + 1]
    /\ count' = [count EXCEPT ![c] = [n |-> 0, when |-> 0]]
    /\ Goto(c, "units")
    /\ UNCHANGED <<clock, local, prov, used, snap, allowed, caps, key, syncVars, ghostVars>>

\* The invocation is killed, or a D1 statement throws out of runTracker.
Crash(c) ==
    /\ pc[c] \notin {"start", "done", "crashed"}
    /\ Goto(c, "crashed")
    /\ UNCHANGED <<clock, ledgerVars, at, snap, allowed, caps, key, count, syncVars, ghostVars>>

-----------------------------------------------------------------------------
(* An account sync: the provider's answer, then syncFromProvider's read of *)
(* the usage row and its unconditional write.                              *)

\* What the account endpoint may answer: an honest count of the month's calls,
\* those of other programs included, or no count at all.
Reports(p) ==
    {[usage |-> u, quota |-> q, rate |-> r,
      left |-> IF u = Null \/ q = Null THEN Null ELSE Minus(q, u)] :
        u \in {Cardinality(Billed(p)) + e : e \in External} \cup {Null},
        q \in Quotas, r \in Rates}

AccountStatus(s) ==
    /\ spc[s] = "idle"
    /\ \E report \in Reports(PeriodOf[clock]) :
         sread' = [sread EXCEPT ![s].report = report]
    /\ spc' = [spc EXCEPT ![s] = "reading"]
    /\ UNCHANGED <<clock, ledgerVars, checkVars, ghostVars>>

\* The period is the one of this moment, not the one the answer was about.
SyncRead(s) ==
    LET p == PeriodOf[clock] IN
    /\ spc[s] = "reading"
    /\ sread' = [sread EXCEPT ![s].period = p, ![s].local = local[p]]
    /\ spc' = [spc EXCEPT ![s] = "writing"]
    /\ UNCHANGED <<clock, ledgerVars, checkVars, ghostVars>>

SyncWrite(s) ==
    LET p == sread[s].period
        new == MaxOf(sread[s].local, OrZero(sread[s].report.usage))
    IN
    /\ spc[s] = "writing"
    /\ prov' = [prov EXCEPT ![p] = sread[s].report]
    /\ local' = [local EXCEPT ![p] = new]
    /\ lowered' = [lowered EXCEPT ![p] = @ \/ new < local[p]]
    /\ spc' = [spc EXCEPT ![s] = "done"]
    /\ UNCHANGED <<clock, used, rows, checkVars, sread, callAt, month, hour>>

-----------------------------------------------------------------------------
Tick ==
    /\ clock + 1 \in Ticks
    /\ clock' = clock + 1
    /\ UNCHANGED <<ledgerVars, checkVars, syncVars, ghostVars>>

Step(c) ==
    \/ ReadUsage(c)
    \/ CountHourly(c)
    \/ StopUnits(c)
    \/ StartUnit(c)
    \/ ReadLimits(c)
    \/ ReserveMonthly(c)
    \/ RefuseMonthly(c)
    \/ ReserveHourly(c)
    \/ RefuseHourly(c)
    \/ UndoMonthly(c)
    \/ AttemptAgain(c)
    \/ AttemptEnds(c)
    \/ ReturnMonth(c)
    \/ ReturnHour(c)
    \/ InsertRows(c)

Next ==
    \/ \E c \in Checks : Step(c)
    \/ \E c \in Checks : Crash(c)
    \/ \E s \in Syncs : AccountStatus(s) \/ SyncRead(s) \/ SyncWrite(s)
    \/ Tick

Spec == Init /\ [][Next]_vars
-----------------------------------------------------------------------------
(* The abstract specification: a bounded allowance per month.  It speaks of  *)
(* the ledger itself, so it is promised where no account sync races it.      *)

Allowance == INSTANCE Allowance WITH
    Months <- Periods,
    granted <- local,
    spent <- [p \in Periods |-> Cardinality(CallsOf(Checks, p))]

\* The ledger behaves as an allowance: capacity is granted within the budget,
\* calls are spent out of it, and only what was not spent is ever returned.
ImplementsAllowance == Allowance!Spec

-----------------------------------------------------------------------------
(* Properties.                                                             *)

Exact == Checks \ Flexible

\* A call is never made without capacity held for it in the ledger and in the
\* bucket, wherever the check was killed: "a killed invocation can leave
\* capacity reserved, but cannot spend an unreserved call" (quota.ts:127).
NoUnreservedCall ==
    \A c \in Exact, i \in 1..UnitsPerCheck :
        /\ Len(callAt[<<c, i>>]) <= month[<<c, i>>]
        /\ Len(callAt[<<c, i>>]) <= hour[<<c, i>>]

\* The ledger of a month counts at least what checks hold in it, through any
\* interleaving of reservations, returns and crashes, as long as no account
\* sync has written a smaller ledger than it found.
LedgerCoversHoldings ==
    \A p \in Periods : ~lowered[p] => Cardinality(ChargedTo(p)) <= local[p]

\* "Normal application activity cannot exceed the configured monthly
\* allowance" (quota.ts:5): the calls charged to a month stay within the
\* budget whatever number of checks race for the last searches.
MonthlyCap ==
    \A p \in Periods : ~lowered[p] => Cardinality(CallsOf(Exact, p)) <= Budget

\* The same promise without its two exceptions, a racing account sync and the
\* error of a flexible search whose requests were retried.
CallsWithinBudget ==
    \A p \in Periods : Cardinality(CallsOf(Checks, p)) <= Budget

\* No UTC hour is charged more calls than the hourly limit, and the bucket
\* never counts less than what checks hold in it.
HourlyCap ==
    \A h \in Hours : /\ Cardinality(ChargedIn(h)) <= used[h]
                     /\ used[h] <= HourlyLimit

\* Automation alone never eats into the reserve, so that a deliberate
\* "Check now" stays possible after it has run the month dry (quota.ts:10).
ReserveKept ==
    \A p \in Periods :
        (/\ prov[p] = NoReport
         /\ ~lowered[p]
         /\ \A u \in Units : key[u].period = p => u[1] \notin Manual)
        => local[p] <= Minus(Budget, Reserve)

\* Once every check has ended and none was killed, no capacity is lost or
\* returned twice: the ledger is exactly the calls made, and so is the bucket.
SettledLedgerIsExact ==
    (\A c \in Checks : pc[c] = "done") /\ Flexible = {} =>
        /\ \A p \in Periods : prov[p] = NoReport /\ ~lowered[p]
                                => local[p] = Cardinality(CallsOf(Checks, p))
        /\ \A h \in Hours : used[h] = Cardinality(CallsInHour(Checks, h))

\* "Never let the local ledger under-report what the provider has seen"
\* (quota.ts:324): a reservation returned after a sync does not undo it.
LedgerCoversProvider ==
    \A p \in Periods : OrZero(prov[p].usage) <= local[p]
=============================================================================
