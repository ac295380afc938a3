-------------------------- MODULE QuotaLedgerProofs --------------------------
(***************************************************************************)
(* Proofs about QuotaLedger, for any number of checks, units, attempts and *)
(* syncs, and any limits.  Types first; then that nothing is called        *)
(* without a reservation; then, by counting attempts, that the ledger and  *)
(* the hourly bucket cover what is held; hence the two caps.  Then what    *)
(* the account syncs leave: the provider's count as a floor, the reserve,  *)
(* and, on rows no sync wrote, a ledger that is exact; hence that the      *)
(* guard is an allowance.                                                  *)
(***************************************************************************)
EXTENDS QuotaLedger, FiniteSetTheorems, TLAPS

(***************************************************************************)
(* Arithmetic of the helpers.                                              *)
(***************************************************************************)
LEMMA HelperTypes ==
    /\ \A a, b \in Nat : MaxOf(a, b) \in Nat /\ MaxOf(a, b) >= a /\ MaxOf(a, b) >= b
    /\ \A a, b \in Nat : MinOf(a, b) \in Nat /\ MinOf(a, b) <= a /\ MinOf(a, b) <= b
    /\ \A a, b \in Nat : Minus(a, b) \in Nat /\ Minus(a, b) <= a
    /\ \A x \in MaybeNat : OrZero(x) \in Nat
    /\ \A n \in Nat, x \in MaybeNat : Capped(n, x) \in Nat /\ Capped(n, x) <= n
BY ReportsAssumption DEF MaxOf, MinOf, Minus, OrZero, Capped, MaybeNat

LEMMA AttemptsFinite == IsFiniteSet(Attempts)
<1>1. IsFiniteSet(1..UnitsPerCheck) /\ IsFiniteSet(1..MaxAttempts)
  BY FS_Interval, LimitsAssumption
<1>2. IsFiniteSet(Units)
  BY <1>1, FS_Product, ChecksAssumption DEF Units
<1> QED
  BY <1>1, <1>2, FS_Product DEF Attempts

(***************************************************************************)
(* Every report the provider may give has the type of the stored columns.  *)
(***************************************************************************)
LEMMA ReportTypes ==
    ASSUME NEW p
    PROVE  Reports(p) \subseteq Report
<1>1. IsFiniteSet(Billed(p))
  BY AttemptsFinite, FS_Subset DEF Billed
<1>2. Cardinality(Billed(p)) \in Nat
  BY <1>1, FS_CardinalityType
<1> SUFFICES ASSUME NEW u \in {Cardinality(Billed(p)) + e : e \in External} \cup {Null},
                    NEW q \in Quotas, NEW r \in Rates
             PROVE  [usage |-> u, quota |-> q, rate |-> r,
                     left |-> IF u = Null \/ q = Null THEN Null ELSE Minus(q, u)] \in Report
  BY DEF Reports
<1>3. u \in MaybeNat /\ q \in MaybeNat /\ r \in MaybeNat
  BY <1>2, ReportsAssumption DEF MaybeNat
<1>4. (IF u = Null \/ q = Null THEN Null ELSE Minus(q, u)) \in MaybeNat
  BY <1>3, HelperTypes DEF MaybeNat
<1> QED
  BY <1>3, <1>4 DEF Report

(***************************************************************************)
(* Type correctness.                                                       *)
(***************************************************************************)
LEMMA InitTypeOK == Init => TypeOK
<1> SUFFICES ASSUME Init PROVE TypeOK
  OBVIOUS
<1>1. NoReport \in Report
  BY DEF NoReport, Report, MaybeNat
<1>2. IsFiniteSet({})
  BY FS_EmptySet
<1>3. PeriodOf[0] \in Periods /\ 0 \in Ticks /\ 0 \in 0..MaxAttempts
  BY CalendarAssumption, LimitsAssumption
<1>4. LedgerTypeOK
  BY <1>1, <1>2 DEF Init, LedgerTypeOK
<1>5. CheckTypeOK
  BY <1>3 DEF Init, CheckTypeOK, PCs, Key, NoSnapshot
<1>6. SyncTypeOK
  BY <1>1, <1>3 DEF Init, SyncTypeOK
<1>7. GhostTypeOK
  BY <1>3 DEF Init, GhostTypeOK
<1> QED
  BY <1>3, <1>4, <1>5, <1>6, <1>7 DEF TypeOK, Init

(***************************************************************************)
(* A group of variables that a step leaves alone keeps its type.           *)
(***************************************************************************)
LEMMA UnchangedTypes ==
    /\ LedgerTypeOK /\ UNCHANGED ledgerVars => LedgerTypeOK'
    /\ CheckTypeOK /\ UNCHANGED checkVars => CheckTypeOK'
    /\ SyncTypeOK /\ UNCHANGED syncVars => SyncTypeOK'
    /\ GhostTypeOK /\ UNCHANGED ghostVars => GhostTypeOK'
BY DEF LedgerTypeOK, CheckTypeOK, SyncTypeOK, GhostTypeOK,
       ledgerVars, checkVars, syncVars, ghostVars

(***************************************************************************)
(* A check in the middle of a unit is at one of its units, whose           *)
(* reservation has a period and an hour.                                   *)
(***************************************************************************)
Placed ==
    \A c \in Checks :
        /\ pc[c] \in Working => at[c] \in 1..UnitsPerCheck /\ key[Unit(c)] # NoKey
        /\ pc[c] = "units" => at[c] >= 1

LEMMA WorkingUnit ==
    ASSUME TypeOK, Placed, NEW c \in Checks, pc[c] \in Working
    PROVE  /\ at[c] \in 1..UnitsPerCheck
           /\ Unit(c) \in Units
           /\ key[Unit(c)] \in [period : Periods, hour : Hours]
           /\ key[Unit(c)].period \in Periods
           /\ key[Unit(c)].hour \in Hours
<1>1. at[c] \in 1..UnitsPerCheck /\ key[Unit(c)] # NoKey
  BY DEF Placed
<1>2. Unit(c) \in Units
  BY <1>1 DEF Unit, Units
<1>3. key[Unit(c)] \in Key
  BY <1>2 DEF TypeOK, CheckTypeOK
<1> QED
  BY <1>1, <1>2, <1>3 DEF Key

(***************************************************************************)
(* authorize keeps the types.  It changes only the checks' own variables.  *)
(***************************************************************************)
LEMMA AuthorizeTypeOK ==
    ASSUME TypeOK, Placed, NEW c \in Checks,
           ReadUsage(c) \/ CountHourly(c) \/ StopUnits(c)
    PROVE  CheckTypeOK'
<1>a. MaxAttempts \in Nat \ {0} /\ Budget \in Nat /\ Reserve \in Nat /\ HourlyLimit \in Nat
  BY LimitsAssumption
<1>1. CASE ReadUsage(c)
  <2> DEFINE p == PeriodOf[clock]
             new == [budget |-> IF c \in Manual THEN RemainingHard(p) ELSE RemainingSafe(p),
                     now |-> clock]
             lim == [monthly |-> 0, hourly |-> Capped(HourlyLimit, prov[p].rate)]
  <2>1. p \in Periods
    BY CalendarAssumption DEF TypeOK
  <2>2. local[p] \in Nat /\ prov[p] \in Report
    BY <2>1 DEF TypeOK, LedgerTypeOK
  <2>3. RemainingHard(p) \in Nat
    BY <2>2, <1>a, HelperTypes DEF RemainingHard, Report
  <2>4. RemainingSafe(p) \in Nat
    BY <2>3, <1>a, HelperTypes DEF RemainingSafe
  <2>5. new \in [budget : Nat, now : Ticks]
    BY <2>3, <2>4 DEF TypeOK
  <2>6. lim \in [monthly : Nat, hourly : Nat]
    BY <2>2, <1>a, HelperTypes DEF Report
  <2>7. snap' = [snap EXCEPT ![c] = new] /\ caps' = [caps EXCEPT ![c] = lim]
    BY <1>1 DEF ReadUsage
  <2> HIDE DEF new, lim
  <2>8. pc' = [pc EXCEPT ![c] = "counting"] /\ UNCHANGED <<at, allowed, key, count>>
    BY <1>1 DEF ReadUsage, Goto
  <2> QED
    BY <2>5, <2>6, <2>7, <2>8 DEF TypeOK, CheckTypeOK, PCs
<1>2. CASE CountHourly(c)
  <2> DEFINE hourlyLeft == Minus(caps[c].hourly, Cardinality(RecentRows(snap[c].now)))
             granted == MinOf(UnitsPerCheck * MaxAttempts, MinOf(snap[c].budget, hourlyLeft))
  <2>1. Cardinality(RecentRows(snap[c].now)) \in Nat
    BY FS_Subset, FS_CardinalityType DEF RecentRows, TypeOK, LedgerTypeOK
  <2>2. caps[c].hourly \in Nat /\ snap[c].budget \in Nat /\ UnitsPerCheck * MaxAttempts \in Nat
    BY LimitsAssumption DEF TypeOK, CheckTypeOK
  <2>3. hourlyLeft \in Nat
    BY <2>1, <2>2, HelperTypes
  <2>4. granted \in Nat
    BY <2>2, <2>3, HelperTypes
  <2>5. allowed' = [allowed EXCEPT ![c] = granted \div MaxAttempts]
    BY <1>2 DEF CountHourly
  <2> HIDE DEF granted
  <2>6. granted \div MaxAttempts \in Nat
    BY <2>4, <1>a
  <2>7. NoSnapshot \in [budget : Nat, now : Ticks]
    BY CalendarAssumption DEF NoSnapshot
  <2>8. /\ snap' = [snap EXCEPT ![c] = NoSnapshot] /\ at' = [at EXCEPT ![c] = 1]
        /\ pc' = [pc EXCEPT ![c] = "units"] /\ UNCHANGED <<caps, key, count>>
    BY <1>2 DEF CountHourly, Goto
  <2> QED
    BY <2>5, <2>6, <2>7, <2>8 DEF TypeOK, CheckTypeOK, PCs
<1>3. CASE StopUnits(c)
  <2>1. pc' = [pc EXCEPT ![c] = "done"] /\ UNCHANGED <<at, snap, allowed, caps, key, count>>
    BY <1>3 DEF StopUnits, Goto
  <2> QED
    BY <2>1 DEF TypeOK, CheckTypeOK, PCs
<1> QED
  BY <1>1, <1>2, <1>3

(***************************************************************************)
(* So do the steps of a unit, which also change the ledger rows.           *)
(***************************************************************************)
LEMMA ReturnedType ==
    ASSUME TypeOK, NEW p \in Periods, NEW n \in Nat
    PROVE  /\ Returned(p, n) \in Nat
           /\ Returned(p, n) >= local[p] - n
<1> DEFINE kept == Minus(local[p], n)
           floor == OrZero(prov[p].usage)
<1>1. local[p] \in Nat /\ floor \in Nat
  BY HelperTypes DEF TypeOK, LedgerTypeOK, Report
<1>2. kept \in Nat /\ kept >= local[p] - n
  BY <1>1 DEF Minus
<1>3. Returned(p, n) = MaxOf(floor, kept)
  BY DEF Returned
<1> HIDE DEF kept, floor
<1>4. MaxOf(floor, kept) \in Nat /\ MaxOf(floor, kept) >= kept
  BY <1>1, <1>2, HelperTypes
<1> QED
  BY <1>1, <1>2, <1>3, <1>4

LEMMA StartTypeOK ==
    ASSUME TypeOK, Placed, NEW c \in Checks, StartUnit(c) \/ ReadLimits(c)
    PROVE  CheckTypeOK'
<1>a. MaxAttempts \in Nat \ {0} /\ Budget \in Nat /\ Reserve \in Nat /\ HourlyLimit \in Nat
  BY LimitsAssumption
<1>1. CASE StartUnit(c)
  <2>1. PeriodOf[clock] \in Periods /\ HourOf[clock] \in Hours
    BY CalendarAssumption DEF TypeOK
  <2> DEFINE new == [period |-> PeriodOf[clock], hour |-> HourOf[clock]]
  <2>2. new \in Key
    BY <2>1 DEF Key
  <2>3. /\ key' = [key EXCEPT ![Unit(c)] = new] /\ pc' = [pc EXCEPT ![c] = "limits"]
        /\ UNCHANGED <<at, snap, allowed, caps, count>>
    BY <1>1 DEF StartUnit, Goto
  <2> HIDE DEF new
  <2> QED
    BY <2>2, <2>3 DEF TypeOK, CheckTypeOK, PCs, Working
<1>2. CASE ReadLimits(c)
  <2> DEFINE r == prov[key[Unit(c)].period]
             new == [monthly |-> Capped(MonthlyLimit(c), r.quota),
                     hourly |-> Capped(HourlyLimit, r.rate)]
  <2>1. pc[c] \in Working
    BY <1>2 DEF ReadLimits, Working
  <2>2. r \in Report
    BY <2>1, WorkingUnit DEF TypeOK, LedgerTypeOK
  <2>3. MonthlyLimit(c) \in Nat
    BY <1>a, HelperTypes DEF MonthlyLimit
  <2>4. new \in [monthly : Nat, hourly : Nat]
    BY <1>a, <2>2, <2>3, HelperTypes DEF Report
  <2>5. /\ caps' = [caps EXCEPT ![c] = new] /\ pc' = [pc EXCEPT ![c] = "monthly"]
        /\ UNCHANGED <<at, snap, allowed, key, count>>
    BY <1>2 DEF ReadLimits, Goto
  <2> HIDE DEF new
  <2> QED
    BY <2>4, <2>5 DEF TypeOK, CheckTypeOK, PCs, Working
<1> QED
  BY <1>1, <1>2

LEMMA MonthlyTypeOK ==
    ASSUME TypeOK, Placed, NEW c \in Checks,
           ReserveMonthly(c) \/ RefuseMonthly(c) \/ UndoMonthly(c) \/ ReturnMonth(c)
    PROVE  LedgerTypeOK' /\ CheckTypeOK' /\ GhostTypeOK'
<1> DEFINE p == key[Unit(c)].period
<1>a. MaxAttempts \in Nat \ {0} /\ MaxAttempts \in 0..MaxAttempts /\ 0 \in 0..MaxAttempts
  BY LimitsAssumption
<1>b. pc[c] \in Working
  BY DEF ReserveMonthly, RefuseMonthly, UndoMonthly, ReturnMonth, Working
<1>c. Unit(c) \in Units /\ p \in Periods
  BY <1>b, WorkingUnit
<1>d. count[c].n \in 0..MaxAttempts
  BY DEF TypeOK, CheckTypeOK
<1>e. local[p] \in Nat /\ prov[p].usage \in MaybeNat
  BY <1>c DEF TypeOK, LedgerTypeOK, Report
<1>1. CASE ReserveMonthly(c)
  <2> DEFINE new == MaxOf(local[p], OrZero(prov[p].usage)) + MaxAttempts
  <2>0. OrZero(prov[p].usage) \in Nat
    BY <1>e, HelperTypes
  <2>1. new \in Nat
    <3>1. MaxOf(local[p], OrZero(prov[p].usage)) \in Nat
      BY <1>e, <2>0, HelperTypes
    <3> QED
      BY <1>a, <3>1
  <2>2. /\ local' = [local EXCEPT ![p] = new]
        /\ month' = [month EXCEPT ![Unit(c)] = MaxAttempts]
        /\ pc' = [pc EXCEPT ![c] = "hourly"]
        /\ UNCHANGED <<prov, used, rows, at, snap, allowed, caps, key, count, callAt, hour, lowered>>
    BY <1>1 DEF ReserveMonthly, Goto
  <2> HIDE DEF new
  <2>3. LedgerTypeOK'
    BY <2>1, <2>2 DEF TypeOK, LedgerTypeOK
  <2>4. CheckTypeOK'
    BY <2>2 DEF TypeOK, CheckTypeOK, PCs, Working
  <2>5. GhostTypeOK'
    BY <1>a, <2>2 DEF TypeOK, GhostTypeOK
  <2> QED
    BY <2>3, <2>4, <2>5
<1>2. CASE RefuseMonthly(c)
  <2>1. /\ at' = [at EXCEPT ![c] = @ + 1] /\ pc' = [pc EXCEPT ![c] = "units"]
        /\ UNCHANGED <<ledgerVars, snap, allowed, caps, key, count, ghostVars>>
    BY <1>2 DEF RefuseMonthly, Goto
  <2>2. CheckTypeOK'
    BY <2>1 DEF TypeOK, CheckTypeOK, PCs
  <2> QED
    BY <2>1, <2>2, UnchangedTypes DEF TypeOK
<1>3. CASE UndoMonthly(c)
  <2>1. Returned(p, MaxAttempts) \in Nat
    BY <1>a, <1>c, ReturnedType
  <2>2. /\ local' = [local EXCEPT ![p] = Returned(p, MaxAttempts)]
        /\ month' = [month EXCEPT ![Unit(c)] = 0]
        /\ at' = [at EXCEPT ![c] = @ + 1]
        /\ pc' = [pc EXCEPT ![c] = "units"]
        /\ UNCHANGED <<prov, used, rows, snap, allowed, caps, key, count, callAt, hour, lowered>>
    BY <1>3 DEF UndoMonthly, Goto
  <2>3. LedgerTypeOK'
    BY <2>1, <2>2 DEF TypeOK, LedgerTypeOK
  <2>4. CheckTypeOK'
    BY <2>2 DEF TypeOK, CheckTypeOK, PCs
  <2>5. GhostTypeOK'
    BY <1>a, <2>2 DEF TypeOK, GhostTypeOK
  <2> QED
    BY <2>3, <2>4, <2>5
<1>4. CASE ReturnMonth(c)
  <2>1. MaxAttempts - count[c].n \in Nat
    BY <1>a, <1>d
  <2>2. Returned(p, MaxAttempts - count[c].n) \in Nat
    BY <1>c, <2>1, ReturnedType
  <2>3. /\ local' = [local EXCEPT ![p] = Returned(p, MaxAttempts - count[c].n)]
        /\ month' = [month EXCEPT ![Unit(c)] = count[c].n]
        /\ pc' = [pc EXCEPT ![c] = "returnHour"]
        /\ UNCHANGED <<prov, used, rows, at, snap, allowed, caps, key, count, callAt, hour, lowered>>
    BY <1>4 DEF ReturnMonth, Goto
  <2>4. LedgerTypeOK'
    BY <2>2, <2>3 DEF TypeOK, LedgerTypeOK
  <2>5. CheckTypeOK'
    BY <2>3 DEF TypeOK, CheckTypeOK, PCs, Working
  <2>6. GhostTypeOK'
    BY <1>d, <2>3 DEF TypeOK, GhostTypeOK
  <2> QED
    BY <2>4, <2>5, <2>6
<1> QED
  BY <1>1, <1>2, <1>3, <1>4

LEMMA HourlyTypeOK ==
    ASSUME TypeOK, Placed, NEW c \in Checks,
           ReserveHourly(c) \/ RefuseHourly(c) \/ ReturnHour(c)
    PROVE  LedgerTypeOK' /\ CheckTypeOK' /\ GhostTypeOK'
<1> DEFINE h == key[Unit(c)].hour
<1>a. MaxAttempts \in Nat \ {0} /\ MaxAttempts \in 0..MaxAttempts /\ 0 \in 0..MaxAttempts
  BY LimitsAssumption
<1>b. pc[c] \in Working
  BY DEF ReserveHourly, RefuseHourly, ReturnHour, Working
<1>c. Unit(c) \in Units /\ h \in Hours
  BY <1>b, WorkingUnit
<1>d. count[c].n \in 0..MaxAttempts
  BY DEF TypeOK, CheckTypeOK
<1>e. used[h] \in Nat
  BY <1>c DEF TypeOK, LedgerTypeOK
<1>1. CASE ReserveHourly(c)
  <2>1. /\ used' = [used EXCEPT ![h] = @ + MaxAttempts]
        /\ hour' = [hour EXCEPT ![Unit(c)] = MaxAttempts]
        /\ pc' = [pc EXCEPT ![c] = "calling"]
        /\ UNCHANGED <<local, prov, rows, at, snap, allowed, caps, key, count, callAt, month, lowered>>
    BY <1>1 DEF ReserveHourly, Goto
  <2>0. used[h] + MaxAttempts \in Nat
    BY <1>a, <1>e
  <2>2. LedgerTypeOK'
    BY <2>0, <2>1 DEF TypeOK, LedgerTypeOK
  <2>3. CheckTypeOK'
    BY <2>1 DEF TypeOK, CheckTypeOK, PCs, Working
  <2>4. GhostTypeOK'
    BY <1>a, <2>1 DEF TypeOK, GhostTypeOK
  <2> QED
    BY <2>2, <2>3, <2>4
<1>2. CASE RefuseHourly(c)
  <2>1. /\ pc' = [pc EXCEPT ![c] = "undo"]
        /\ UNCHANGED <<ledgerVars, at, snap, allowed, caps, key, count, ghostVars>>
    BY <1>2 DEF RefuseHourly, Goto
  <2>2. CheckTypeOK'
    BY <2>1 DEF TypeOK, CheckTypeOK, PCs, Working
  <2> QED
    BY <2>1, <2>2, UnchangedTypes DEF TypeOK
<1>3. CASE ReturnHour(c)
  <2> DEFINE new == Minus(used[h], MaxAttempts - count[c].n)
  <2>0. MaxAttempts - count[c].n \in Nat
    BY <1>a, <1>d
  <2>1. new \in Nat
    BY <1>e, <2>0, HelperTypes
  <2>2. /\ used' = [used EXCEPT ![h] = new]
        /\ hour' = [hour EXCEPT ![Unit(c)] = count[c].n]
        /\ pc' = [pc EXCEPT ![c] = "log"]
        /\ UNCHANGED <<local, prov, rows, at, snap, allowed, caps, key, count, callAt, month, lowered>>
    BY <1>3 DEF ReturnHour, Goto
  <2> HIDE DEF new
  <2>3. LedgerTypeOK'
    BY <2>1, <2>2 DEF TypeOK, LedgerTypeOK
  <2>4. CheckTypeOK'
    BY <2>2 DEF TypeOK, CheckTypeOK, PCs, Working
  <2>5. GhostTypeOK'
    BY <1>d, <2>2 DEF TypeOK, GhostTypeOK
  <2> QED
    BY <2>3, <2>4, <2>5
<1> QED
  BY <1>1, <1>2, <1>3

LEMMA CallTypeOK ==
    ASSUME TypeOK, Placed, NEW c \in Checks, AttemptAgain(c) \/ AttemptEnds(c) \/ InsertRows(c)
    PROVE  LedgerTypeOK' /\ CheckTypeOK' /\ GhostTypeOK'
<1>a. MaxAttempts \in Nat \ {0} /\ MaxAttempts \in 0..MaxAttempts /\ 0 \in 0..MaxAttempts
  BY LimitsAssumption
<1>b. pc[c] \in Working
  BY DEF AttemptAgain, AttemptEnds, InsertRows, Working
<1>c. Unit(c) \in Units
  BY <1>b, WorkingUnit
<1>d. count[c].n \in 0..MaxAttempts /\ count[c].when \in Ticks
  BY DEF TypeOK, CheckTypeOK
<1>e. callAt[Unit(c)] \in Seq(Ticks) /\ clock \in Ticks
  BY <1>c DEF TypeOK, GhostTypeOK
<1>f. Append(callAt[Unit(c)], clock) \in Seq(Ticks) /\ Made(c) \in Nat
  BY <1>e DEF Made
<1>1. CASE AttemptAgain(c)
  <2>1. /\ callAt' = [callAt EXCEPT ![Unit(c)] = Append(@, clock)]
        /\ UNCHANGED <<ledgerVars, checkVars, month, hour, lowered>>
    BY <1>1 DEF AttemptAgain, Request
  <2>2. GhostTypeOK'
    BY <1>f, <2>1 DEF TypeOK, GhostTypeOK
  <2> QED
    BY <2>1, <2>2, UnchangedTypes DEF TypeOK
<1>2. CASE AttemptEnds(c)
  <2>1. /\ callAt' = [callAt EXCEPT ![Unit(c)] = Append(@, clock)]
        /\ UNCHANGED <<ledgerVars, at, snap, allowed, caps, key, month, hour, lowered>>
    BY <1>2 DEF AttemptEnds, Request
  <2>2. PICK n \in Reported(c) :
            /\ count' = [count EXCEPT ![c] = [n |-> n, when |-> clock]]
            /\ pc' = [pc EXCEPT ![c] = IF n < MaxAttempts THEN "returnMonth" ELSE "log"]
    BY <1>2 DEF AttemptEnds, Goto
  <2>3. n \in 0..MaxAttempts
    BY <1>2, <1>a, <1>f DEF AttemptEnds, Reported
  <2>4. GhostTypeOK'
    BY <1>f, <2>1 DEF TypeOK, GhostTypeOK
  <2>5. CheckTypeOK'
    BY <1>e, <2>1, <2>2, <2>3 DEF TypeOK, CheckTypeOK, PCs, Working
  <2> QED
    BY <2>1, <2>4, <2>5, UnchangedTypes DEF TypeOK
<1>3. CASE InsertRows(c)
  <2> DEFINE new == ({Unit(c)} \X (1..count[c].n)) \X {count[c].when}
  <2>1. /\ rows' = rows \cup new
        /\ at' = [at EXCEPT ![c] = @ + 1]
        /\ count' = [count EXCEPT ![c] = [n |-> 0, when |-> 0]]
        /\ pc' = [pc EXCEPT ![c] = "units"]
        /\ UNCHANGED <<local, prov, used, snap, allowed, caps, key, ghostVars>>
    BY <1>3 DEF InsertRows, Goto
  <2>2. new \subseteq Attempts \X Ticks
    BY <1>a, <1>c, <1>d DEF Attempts
  <2>3. IsFiniteSet(new)
    <3>1. IsFiniteSet({Unit(c)}) /\ IsFiniteSet({count[c].when})
      BY FS_Singleton
    <3>2. IsFiniteSet(1..count[c].n)
      BY <1>d, FS_Interval
    <3> QED
      BY <3>1, <3>2, FS_Product
  <2> HIDE DEF new
  <2>4. IsFiniteSet(rows \cup new)
    BY <2>3, FS_Union DEF TypeOK, LedgerTypeOK
  <2>5. LedgerTypeOK'
    BY <2>1, <2>2, <2>4 DEF TypeOK, LedgerTypeOK
  <2>6. CheckTypeOK'
    BY <1>a, <2>1, CalendarAssumption DEF TypeOK, CheckTypeOK, PCs
  <2> QED
    BY <2>1, <2>5, <2>6, UnchangedTypes DEF TypeOK
<1> QED
  BY <1>1, <1>2, <1>3

(***************************************************************************)
(* An account sync writes what it read and a well-typed report.            *)
(***************************************************************************)
LEMMA SyncKeepsTypes ==
    ASSUME TypeOK, NEW s \in Syncs, AccountStatus(s) \/ SyncRead(s) \/ SyncWrite(s)
    PROVE  TypeOK'
<1>a. sread \in [Syncs -> [period : Periods, local : Nat, report : Report]]
  BY DEF TypeOK, SyncTypeOK
<1>b. PeriodOf[clock] \in Periods
  BY CalendarAssumption DEF TypeOK
<1>1. CASE AccountStatus(s)
  <2>1. PICK report \in Reports(PeriodOf[clock]) : sread' = [sread EXCEPT ![s].report = report]
    BY <1>1 DEF AccountStatus
  <2>2. report \in Report
    BY ReportTypes
  <2>3. /\ spc' = [spc EXCEPT ![s] = "reading"]
        /\ UNCHANGED <<clock, ledgerVars, checkVars, ghostVars>>
    BY <1>1 DEF AccountStatus
  <2>4. SyncTypeOK'
    BY <1>a, <2>1, <2>2, <2>3 DEF TypeOK, SyncTypeOK
  <2> QED
    BY <2>3, <2>4, UnchangedTypes DEF TypeOK
<1>2. CASE SyncRead(s)
  <2>1. /\ sread' = [sread EXCEPT ![s].period = PeriodOf[clock], ![s].local = local[PeriodOf[clock]]]
        /\ spc' = [spc EXCEPT ![s] = "writing"]
        /\ UNCHANGED <<clock, ledgerVars, checkVars, ghostVars>>
    BY <1>2 DEF SyncRead
  <2>2. local[PeriodOf[clock]] \in Nat
    BY <1>b DEF TypeOK, LedgerTypeOK
  <2>3. SyncTypeOK'
    BY <1>a, <1>b, <2>1, <2>2 DEF TypeOK, SyncTypeOK
  <2> QED
    BY <2>1, <2>3, UnchangedTypes DEF TypeOK
<1>3. CASE SyncWrite(s)
  <2> DEFINE p == sread[s].period
             new == MaxOf(sread[s].local, OrZero(sread[s].report.usage))
             fell == lowered[p] \/ new < local[p]
  <2>1. sread[s].local \in Nat /\ sread[s].report \in Report /\ p \in Periods
    BY DEF TypeOK, SyncTypeOK
  <2>2. new \in Nat
    BY <2>1, HelperTypes DEF Report
  <2>3. /\ prov' = [prov EXCEPT ![p] = sread[s].report]
        /\ local' = [local EXCEPT ![p] = new]
        /\ lowered' = [lowered EXCEPT ![p] = fell]
        /\ spc' = [spc EXCEPT ![s] = "done"]
        /\ UNCHANGED <<clock, used, rows, checkVars, sread, callAt, month, hour>>
    BY <1>3 DEF SyncWrite
  <2>4. fell \in BOOLEAN
    BY <2>1 DEF TypeOK, GhostTypeOK
  <2> HIDE DEF new, fell
  <2>5. LedgerTypeOK'
    BY <2>1, <2>2, <2>3 DEF TypeOK, LedgerTypeOK
  <2>6. GhostTypeOK'
    BY <2>3, <2>4 DEF TypeOK, GhostTypeOK
  <2>7. SyncTypeOK'
    BY <2>3 DEF TypeOK, SyncTypeOK
  <2> QED
    BY <2>3, <2>5, <2>6, <2>7, UnchangedTypes DEF TypeOK
<1> QED
  BY <1>1, <1>2, <1>3

(***************************************************************************)
(* A step of one check leaves the place of every other check alone, and    *)
(* moves its own from unit to unit in order.                               *)
(***************************************************************************)
LEMMA StepKeepsTypes ==
    ASSUME TypeOK, Placed, NEW c \in Checks, Step(c) \/ Crash(c)
    PROVE  TypeOK'
<1>1. CASE ReadUsage(c) \/ CountHourly(c) \/ StopUnits(c)
  <2>1. UNCHANGED <<clock, ledgerVars, syncVars, ghostVars>>
    BY <1>1 DEF ReadUsage, CountHourly, StopUnits
  <2> QED
    BY <1>1, <2>1, AuthorizeTypeOK, UnchangedTypes DEF TypeOK
<1>2. CASE StartUnit(c) \/ ReadLimits(c)
  <2>1. UNCHANGED <<clock, ledgerVars, syncVars, ghostVars>>
    BY <1>2 DEF StartUnit, ReadLimits
  <2> QED
    BY <1>2, <2>1, StartTypeOK, UnchangedTypes DEF TypeOK
<1>3. CASE ReserveMonthly(c) \/ RefuseMonthly(c) \/ UndoMonthly(c) \/ ReturnMonth(c)
  <2>1. UNCHANGED <<clock, syncVars>>
    BY <1>3 DEF ReserveMonthly, RefuseMonthly, UndoMonthly, ReturnMonth
  <2> QED
    BY <1>3, <2>1, MonthlyTypeOK, UnchangedTypes DEF TypeOK
<1>4. CASE ReserveHourly(c) \/ RefuseHourly(c) \/ ReturnHour(c)
  <2>1. UNCHANGED <<clock, syncVars>>
    BY <1>4 DEF ReserveHourly, RefuseHourly, ReturnHour
  <2> QED
    BY <1>4, <2>1, HourlyTypeOK, UnchangedTypes DEF TypeOK
<1>5. CASE AttemptAgain(c) \/ AttemptEnds(c) \/ InsertRows(c)
  <2>1. UNCHANGED <<clock, syncVars>>
    BY <1>5 DEF AttemptAgain, AttemptEnds, InsertRows
  <2> QED
    BY <1>5, <2>1, CallTypeOK, UnchangedTypes DEF TypeOK
<1>6. CASE Crash(c)
  <2>1. /\ pc' = [pc EXCEPT ![c] = "crashed"]
        /\ UNCHANGED <<clock, ledgerVars, at, snap, allowed, caps, key, count, syncVars, ghostVars>>
    BY <1>6 DEF Crash, Goto
  <2>2. CheckTypeOK'
    BY <2>1 DEF TypeOK, CheckTypeOK, PCs
  <2> QED
    BY <2>1, <2>2, UnchangedTypes DEF TypeOK
<1> QED
  BY <1>1, <1>2, <1>3, <1>4, <1>5, <1>6 DEF Step

LEMMA StepKeepsPlaced ==
    ASSUME TypeOK, Placed, NEW c \in Checks, Step(c) \/ Crash(c)
    PROVE  Placed'
<1> SUFFICES ASSUME NEW d \in Checks
             PROVE  /\ pc'[d] \in Working => /\ at'[d] \in 1..UnitsPerCheck
                                             /\ key'[<<d, at'[d]>>] # NoKey
                    /\ pc'[d] = "units" => at'[d] >= 1
  BY DEF Placed, Unit
<1>a. pc \in [Checks -> PCs] /\ at \in [Checks -> Nat] /\ key \in [Units -> Key]
  BY DEF TypeOK, CheckTypeOK
<1>b. /\ pc[d] \in Working => at[d] \in 1..UnitsPerCheck /\ key[<<d, at[d]>>] # NoKey
      /\ pc[d] = "units" => at[d] >= 1
  BY DEF Placed, Unit
<1>c. /\ pc[c] \in Working => at[c] \in 1..UnitsPerCheck /\ key[<<c, at[c]>>] # NoKey
      /\ pc[c] = "units" => at[c] >= 1
  BY DEF Placed, Unit
<1>1. CASE ReadUsage(c) \/ CountHourly(c) \/ StopUnits(c) \/ Crash(c)
  BY <1>1, <1>a, <1>b DEF ReadUsage, CountHourly, StopUnits, Crash, Goto, Working
<1>2. CASE StartUnit(c)
  <2> DEFINE new == [period |-> PeriodOf[clock], hour |-> HourOf[clock]]
  <2>1. at[c] \in 1..UnitsPerCheck
    <3>1. allowed[c] \in Nat /\ UnitsPerCheck \in Nat
      BY LimitsAssumption DEF TypeOK, CheckTypeOK
    <3>2. MinOf(allowed[c], UnitsPerCheck) \in Nat /\ MinOf(allowed[c], UnitsPerCheck) <= UnitsPerCheck
      BY <3>1, HelperTypes
    <3>3. at[c] \in Nat /\ at[c] >= 1 /\ at[c] <= MinOf(allowed[c], UnitsPerCheck)
      BY <1>2, <1>a, <1>c DEF StartUnit
    <3> QED
      BY <3>1, <3>2, <3>3
  <2>2. Unit(c) \in Units
    BY <2>1 DEF Unit, Units
  <2>3. new # NoKey
    <3>1. HourOf[clock] \in Hours /\ PeriodOf[clock] \in Periods
      BY CalendarAssumption DEF TypeOK
    <3>2. new.period # Null
      BY <3>1, CalendarAssumption
    <3> QED
      BY <3>2 DEF NoKey
  <2> QED
    BY <1>2, <1>a, <1>b, <2>1, <2>2, <2>3 DEF StartUnit, Goto, Working, Unit
<1>3. CASE \/ ReadLimits(c) \/ ReserveMonthly(c) \/ ReserveHourly(c) \/ RefuseHourly(c)
           \/ AttemptAgain(c) \/ AttemptEnds(c) \/ ReturnMonth(c) \/ ReturnHour(c)
  <2>1. pc[c] \in Working /\ UNCHANGED <<at, key>> /\ \A e \in Checks \ {c} : pc'[e] = pc[e]
    BY <1>3, <1>a DEF ReadLimits, ReserveMonthly, ReserveHourly, RefuseHourly, AttemptAgain,
       AttemptEnds, ReturnMonth, ReturnHour, Goto, Working, checkVars
  <2>2. pc'[c] # "units"
    BY <1>3, <1>a DEF ReadLimits, ReserveMonthly, ReserveHourly, RefuseHourly, AttemptAgain,
       AttemptEnds, ReturnMonth, ReturnHour, Goto, Working, checkVars
  <2> QED
    BY <1>b, <1>c, <2>1, <2>2
<1>4. CASE RefuseMonthly(c) \/ UndoMonthly(c) \/ InsertRows(c)
  <2>1. /\ pc' = [pc EXCEPT ![c] = "units"] /\ at' = [at EXCEPT ![c] = @ + 1]
        /\ key' = key
    BY <1>4 DEF RefuseMonthly, UndoMonthly, InsertRows, Goto
  <2> QED
    BY <1>a, <1>b, <2>1 DEF Working
<1> QED
  BY <1>1, <1>2, <1>3, <1>4 DEF Step

LEMMA NextKeepsTypes ==
    ASSUME TypeOK, Placed, [Next]_vars
    PROVE  TypeOK' /\ Placed'
<1>1. CASE \E c \in Checks : Step(c) \/ Crash(c)
  BY <1>1, StepKeepsTypes, StepKeepsPlaced
<1>2. CASE \E s \in Syncs : AccountStatus(s) \/ SyncRead(s) \/ SyncWrite(s)
  <2>1. UNCHANGED checkVars
    BY <1>2 DEF AccountStatus, SyncRead, SyncWrite
  <2> QED
    BY <1>2, <2>1, SyncKeepsTypes DEF Placed, checkVars, Unit
<1>3. CASE Tick
  <2>1. clock' \in Ticks /\ UNCHANGED <<ledgerVars, checkVars, syncVars, ghostVars>>
    BY <1>3 DEF Tick
  <2> QED
    BY <2>1, UnchangedTypes DEF TypeOK, Placed, checkVars, Unit
<1>4. CASE UNCHANGED vars
  BY <1>4, UnchangedTypes DEF vars, TypeOK, Placed, checkVars, Unit
<1> QED
  BY <1>1, <1>2, <1>3, <1>4 DEF Next

(***************************************************************************)
(* Types and places together are inductive.                                *)
(***************************************************************************)
LEMMA TypeInvariant == Spec => [](TypeOK /\ Placed)
<1>1. Init => TypeOK /\ Placed
  BY InitTypeOK DEF Init, Placed, Working
<1>2. TypeOK /\ Placed /\ [Next]_vars => TypeOK' /\ Placed'
  BY NextKeepsTypes
<1> QED
  BY <1>1, <1>2, PTL DEF Spec

(***************************************************************************)
(* Every variable keeps its type, whatever the number of checks, units,    *)
(* attempts and syncs and whatever the limits.                             *)
(***************************************************************************)
THEOREM TypeCorrect == Spec => []TypeOK
BY TypeInvariant, PTL

(***************************************************************************)
(* What a check holds, by where it is.  Units it has not begun hold        *)
(* nothing; the unit it is at holds what its last steps took or gave back. *)
(***************************************************************************)
Fresh(u) == month[u] = 0 /\ hour[u] = 0 /\ callAt[u] = <<>>

Ahead(c, i) ==
    \/ pc[c] \in {"start", "counting"}
    \/ pc[c] = "units" /\ i >= at[c]
    \/ pc[c] \in Working /\ i > at[c]

Stage(c) ==
    LET u == Unit(c) IN
    /\ pc[c] \in {"limits", "monthly"} => Fresh(u)
    /\ pc[c] \in {"hourly", "undo"} => month[u] = MaxAttempts /\ hour[u] = 0 /\ callAt[u] = <<>>
    /\ pc[c] = "calling" => /\ month[u] = MaxAttempts /\ hour[u] = MaxAttempts
                            /\ Len(callAt[u]) < MaxAttempts
    /\ pc[c] = "returnMonth" => month[u] = MaxAttempts /\ hour[u] = MaxAttempts
    /\ pc[c] = "returnHour" => month[u] = count[c].n /\ hour[u] = MaxAttempts
    /\ pc[c] \in {"returnMonth", "returnHour"} /\ c \in Exact => Len(callAt[u]) <= count[c].n

Backed(u) == Len(callAt[u]) <= month[u] /\ Len(callAt[u]) <= hour[u]

Mine(c) ==
    /\ \A i \in 1..UnitsPerCheck : Ahead(c, i) => Fresh(<<c, i>>)
    /\ Stage(c)
    /\ c \in Exact => \A i \in 1..UnitsPerCheck : Backed(<<c, i>>)

Reserved == \A c \in Checks : Mine(c)

LEMMA InitReserved == Init => Reserved
<1> SUFFICES ASSUME Init, NEW c \in Checks PROVE Mine(c)
  BY DEF Reserved
<1>1. \A i \in 1..UnitsPerCheck : Fresh(<<c, i>>) /\ Len(callAt[<<c, i>>]) = 0
  BY DEF Init, Fresh, Units
<1>2. pc[c] = "start"
  BY DEF Init
<1> QED
  BY <1>1, <1>2 DEF Mine, Stage, Backed, Fresh

(***************************************************************************)
(* What the other checks hold is not touched by a step of c.               *)
(***************************************************************************)
LEMMA OthersKeep ==
    ASSUME Placed, Reserved, NEW c \in Checks, NEW d \in Checks, d # c,
           pc'[d] = pc[d], at'[d] = at[d], count'[d] = count[d],
           \A u \in Units \ {Unit(c)} :
              month'[u] = month[u] /\ hour'[u] = hour[u] /\ callAt'[u] = callAt[u]
    PROVE  Mine(d)'
<1>1. \A i \in 1..UnitsPerCheck :
         /\ month'[<<d, i>>] = month[<<d, i>>]
         /\ hour'[<<d, i>>] = hour[<<d, i>>]
         /\ callAt'[<<d, i>>] = callAt[<<d, i>>]
  BY DEF Units, Unit
<1>2. Mine(d)
  BY DEF Reserved
<1>3. pc[d] \in Working => at[d] \in 1..UnitsPerCheck
  BY DEF Placed
<1>4. \A i \in 1..UnitsPerCheck : Ahead(d, i)' => Fresh(<<d, i>>)'
  BY <1>1, <1>2 DEF Mine, Ahead, Fresh
<1>5. d \in Exact => \A i \in 1..UnitsPerCheck : Backed(<<d, i>>)'
  BY <1>1, <1>2 DEF Mine, Backed
<1>6. Stage(d)'
  <2>1. CASE pc[d] \in Working
    <3>1. /\ month'[<<d, at[d]>>] = month[<<d, at[d]>>]
          /\ hour'[<<d, at[d]>>] = hour[<<d, at[d]>>]
          /\ callAt'[<<d, at[d]>>] = callAt[<<d, at[d]>>]
      BY <1>1, <1>3, <2>1
    <3>2. Stage(d)
      BY <1>2 DEF Mine
    <3> QED
      BY <3>1, <3>2 DEF Stage, Unit, Fresh, Exact
  <2>2. CASE pc[d] \notin Working
    BY <2>2 DEF Stage, Working
  <2> QED
    BY <2>1, <2>2
<1> QED
  BY <1>4, <1>5, <1>6 DEF Mine, Exact

(***************************************************************************)
(* What c itself holds, step by step.                                      *)
(***************************************************************************)
LEMMA OwnQuietSteps ==
    ASSUME TypeOK, Placed, NEW c \in Checks, Mine(c),
           \/ ReadUsage(c) \/ CountHourly(c) \/ StopUnits(c) \/ StartUnit(c)
           \/ ReadLimits(c) \/ RefuseMonthly(c) \/ RefuseHourly(c) \/ InsertRows(c) \/ Crash(c)
    PROVE  Mine(c)'
<1>a. pc \in [Checks -> PCs] /\ at \in [Checks -> Nat]
  BY DEF TypeOK, CheckTypeOK
<1>b. UNCHANGED <<month, hour, callAt>>
  BY DEF ReadUsage, CountHourly, StopUnits, StartUnit, ReadLimits, RefuseMonthly,
     RefuseHourly, InsertRows, Crash, ghostVars
<1>c. \A i \in 1..UnitsPerCheck : Ahead(c, i) => Fresh(<<c, i>>)
  BY DEF Mine
<1>d. c \in Exact => \A i \in 1..UnitsPerCheck : Backed(<<c, i>>)'
  BY <1>b DEF Mine, Backed
<1>1. CASE ReadUsage(c) \/ CountHourly(c)
  <2>1. pc[c] \in {"start", "counting"} /\ pc'[c] \in {"counting", "units"}
    BY <1>1, <1>a DEF ReadUsage, CountHourly, Goto
  <2>2. Stage(c)'
    BY <2>1 DEF Stage
  <2>3. \A i \in 1..UnitsPerCheck : Fresh(<<c, i>>)'
    BY <1>b, <1>c, <2>1 DEF Ahead, Fresh
  <2> QED
    BY <1>d, <2>2, <2>3 DEF Mine, Exact
<1>2. CASE StopUnits(c) \/ Crash(c)
  <2>1. pc'[c] \in {"done", "crashed"}
    BY <1>2, <1>a DEF StopUnits, Crash, Goto
  <2> QED
    BY <1>d, <2>1 DEF Mine, Exact, Stage, Ahead, Working
<1>3. CASE StartUnit(c)
  <2>1. pc[c] = "units" /\ pc'[c] = "limits" /\ at' = at /\ at[c] \in 1..UnitsPerCheck
    <3>1. pc'[c] \in Working /\ Placed'
      BY <1>3, <1>a, StepKeepsPlaced DEF StartUnit, Goto, Working, Step
    <3> QED
      BY <1>3, <1>a, <3>1 DEF StartUnit, Goto, Placed
  <2>2. Fresh(<<c, at[c]>>) /\ \A i \in 1..UnitsPerCheck : i > at[c] => Fresh(<<c, i>>)
    BY <1>a, <1>c, <2>1 DEF Ahead
  <2> QED
    BY <1>b, <1>d, <2>1, <2>2 DEF Mine, Exact, Stage, Ahead, Working, Fresh, Unit
<1>4. CASE ReadLimits(c) \/ RefuseHourly(c)
  <2>1. /\ \/ pc[c] = "limits" /\ pc'[c] = "monthly"
           \/ pc[c] = "hourly" /\ pc'[c] = "undo"
        /\ at' = at
    BY <1>4, <1>a DEF ReadLimits, RefuseHourly, Goto
  <2>2. Stage(c)
    BY DEF Mine
  <2> QED
    BY <1>b, <1>c, <1>d, <2>1, <2>2 DEF Mine, Exact, Stage, Ahead, Working, Fresh, Unit
<1>5. CASE RefuseMonthly(c) \/ InsertRows(c)
  <2>1. pc[c] \in {"monthly", "log"} /\ pc'[c] = "units" /\ at'[c] = at[c] + 1
    BY <1>5, <1>a DEF RefuseMonthly, InsertRows, Goto
  <2> QED
    BY <1>a, <1>b, <1>c, <1>d, <2>1 DEF Mine, Exact, Stage, Ahead, Working, Fresh
<1> QED
  BY <1>1, <1>2, <1>3, <1>4, <1>5

LEMMA OwnSpendingSteps ==
    ASSUME TypeOK, Placed, NEW c \in Checks, Mine(c),
           \/ ReserveMonthly(c) \/ ReserveHourly(c) \/ UndoMonthly(c)
           \/ AttemptAgain(c) \/ AttemptEnds(c) \/ ReturnMonth(c) \/ ReturnHour(c)
    PROVE  Mine(c)'
<1> DEFINE u == Unit(c)
           Covered(v) == Len(callAt'[v]) <= month'[v] /\ Len(callAt'[v]) <= hour'[v]
<1>a. pc \in [Checks -> PCs] /\ at \in [Checks -> Nat] /\ pc[c] \in Working
  BY DEF TypeOK, CheckTypeOK, ReserveMonthly, ReserveHourly, UndoMonthly, AttemptAgain,
     AttemptEnds, ReturnMonth, ReturnHour, Working
<1>b. /\ month \in [Units -> 0..MaxAttempts] /\ hour \in [Units -> 0..MaxAttempts]
      /\ callAt \in [Units -> Seq(Ticks)]
  BY DEF TypeOK, GhostTypeOK
<1>c. u \in Units /\ at[c] \in 1..UnitsPerCheck /\ u = <<c, at[c]>>
  BY <1>a, WorkingUnit DEF Unit
<1>d. \A i \in 1..UnitsPerCheck : i > at[c] => Fresh(<<c, i>>)
  BY <1>a DEF Mine, Ahead
<1>e. Stage(c) /\ (c \in Exact => \A i \in 1..UnitsPerCheck : Backed(<<c, i>>))
  BY DEF Mine
<1>f. MaxAttempts \in Nat \ {0} /\ count[c].n \in 0..MaxAttempts
  BY LimitsAssumption DEF TypeOK, CheckTypeOK
<1>g. Len(callAt[u]) \in Nat
  BY <1>b, <1>c
<1>h. \A i \in 1..UnitsPerCheck : <<c, i>> \in Units
  BY DEF Units
<1>1. \A i \in 1..UnitsPerCheck : i # at[c] =>
         /\ month'[<<c, i>>] = month[<<c, i>>]
         /\ hour'[<<c, i>>] = hour[<<c, i>>]
         /\ callAt'[<<c, i>>] = callAt[<<c, i>>]
  <2>1. \A i \in 1..UnitsPerCheck : i # at[c] => <<c, i>> # u /\ <<c, i>> \in Units
    BY <1>c, <1>h
  <2>2. \A v \in Units : v # u =>
          month'[v] = month[v] /\ hour'[v] = hour[v] /\ callAt'[v] = callAt[v]
    BY <1>b DEF ReserveMonthly, ReserveHourly, UndoMonthly, AttemptAgain,
       AttemptEnds, ReturnMonth, ReturnHour, Request
  <2> QED
    BY <2>1, <2>2
<1>2. \A i \in 1..UnitsPerCheck : i # at[c] /\ c \in Exact => Covered(<<c, i>>)
  BY <1>e, <1>1 DEF Backed
<1>3. \A i \in 1..UnitsPerCheck : i > at[c] => Fresh(<<c, i>>)'
  BY <1>d, <1>1 DEF Fresh
<1>4. ASSUME pc'[c] \in Working, at'[c] = at[c], Stage(c)', c \in Exact => Covered(u)
      PROVE  Mine(c)'
  <2>1. c \in Exact => \A i \in 1..UnitsPerCheck : Covered(<<c, i>>)
    BY <1>2, <1>4, <1>c
  <2> QED
    BY <1>3, <1>4, <1>a, <2>1 DEF Mine, Ahead, Working, Exact, Backed
<1>5. CASE ReserveMonthly(c)
  <2>1. /\ pc[c] = "monthly" /\ pc'[c] = "hourly" /\ at' = at
        /\ month'[u] = MaxAttempts /\ hour'[u] = hour[u] /\ callAt'[u] = callAt[u]
    BY <1>5, <1>a, <1>b, <1>c DEF ReserveMonthly, Goto
  <2>2. Fresh(u)
    BY <1>e, <2>1 DEF Stage
  <2>3. Stage(c)' /\ Covered(u)
    BY <1>c, <1>f, <2>1, <2>2 DEF Stage, Backed, Fresh, Unit
  <2> QED
    BY <1>4, <2>1, <2>3 DEF Working
<1>6. CASE ReserveHourly(c)
  <2>1. /\ pc[c] = "hourly" /\ pc'[c] = "calling" /\ at' = at
        /\ month'[u] = month[u] /\ hour'[u] = MaxAttempts /\ callAt'[u] = callAt[u]
    BY <1>6, <1>a, <1>b, <1>c DEF ReserveHourly, Goto
  <2>2. month[u] = MaxAttempts /\ callAt[u] = <<>>
    BY <1>e, <2>1 DEF Stage
  <2>3. Stage(c)' /\ Covered(u)
    BY <1>c, <1>f, <2>1, <2>2 DEF Stage, Backed, Fresh, Unit
  <2> QED
    BY <1>4, <2>1, <2>3 DEF Working
<1>7. CASE UndoMonthly(c)
  <2>1. /\ pc[c] = "undo" /\ pc'[c] = "units" /\ at'[c] = at[c] + 1
        /\ month'[u] = 0 /\ hour'[u] = hour[u] /\ callAt'[u] = callAt[u]
    BY <1>7, <1>a, <1>b, <1>c DEF UndoMonthly, Goto
  <2>2. hour[u] = 0 /\ callAt[u] = <<>>
    BY <1>e, <2>1 DEF Stage
  <2>3. Covered(u)
    BY <2>1, <2>2 DEF Backed
  <2>4. c \in Exact => \A i \in 1..UnitsPerCheck : Covered(<<c, i>>)
    BY <1>2, <1>c, <2>3
  <2>5. \A i \in 1..UnitsPerCheck : i >= at'[c] => i > at[c]
    BY <1>a, <2>1
  <2> QED
    BY <1>3, <2>1, <2>4, <2>5 DEF Mine, Ahead, Working, Exact, Stage, Backed
<1>8. CASE AttemptAgain(c)
  <2>1. /\ pc[c] = "calling" /\ pc'[c] = "calling" /\ at' = at
        /\ month'[u] = month[u] /\ hour'[u] = hour[u] /\ Len(callAt[u]) + 1 < MaxAttempts
        /\ callAt'[u] = Append(callAt[u], clock)
    BY <1>8, <1>a, <1>b, <1>c DEF AttemptAgain, Request, Made, checkVars
  <2>2. Len(callAt'[u]) = Len(callAt[u]) + 1
    BY <1>b, <1>c, <2>1
  <2>3. month[u] = MaxAttempts /\ hour[u] = MaxAttempts
    BY <1>e, <2>1 DEF Stage
  <2>4. Stage(c)' /\ Covered(u)
    BY <1>c, <1>f, <1>g, <2>1, <2>2, <2>3 DEF Stage, Backed, Fresh, Unit
  <2> QED
    BY <1>4, <2>1, <2>4 DEF Working
<1>9. CASE AttemptEnds(c)
  <2>1. /\ pc[c] = "calling" /\ at' = at
        /\ month'[u] = month[u] /\ hour'[u] = hour[u] /\ Len(callAt[u]) < MaxAttempts
        /\ callAt'[u] = Append(callAt[u], clock)
    BY <1>9, <1>a, <1>b, <1>c DEF AttemptEnds, Request, Made
  <2>2. Len(callAt'[u]) = Len(callAt[u]) + 1
    BY <1>b, <1>c, <2>1
  <2>3. /\ pc'[c] \in {"returnMonth", "log"}
        /\ c \in Exact => count'[c].n = Len(callAt[u]) + 1
    <3>1. PICK n \in Reported(c) :
              /\ count' = [count EXCEPT ![c] = [n |-> n, when |-> clock]]
              /\ pc' = [pc EXCEPT ![c] = IF n < MaxAttempts THEN "returnMonth" ELSE "log"]
      BY <1>9 DEF AttemptEnds, Goto
    <3>2. count'[c].n = n
      BY <3>1 DEF TypeOK, CheckTypeOK
    <3> QED
      BY <1>a, <3>1, <3>2 DEF Exact, Made, Reported
  <2>4. month[u] = MaxAttempts /\ hour[u] = MaxAttempts
    BY <1>e, <2>1 DEF Stage
  <2>5. Covered(u)
    BY <1>f, <1>g, <2>1, <2>2, <2>4 DEF Backed
  <2>6. Unit(c)' = u
    BY <2>1 DEF Unit
  <2>7. Stage(c)'
    BY <1>f, <1>g, <2>1, <2>2, <2>3, <2>4, <2>6 DEF Stage, Exact
  <2> QED
    BY <1>4, <2>1, <2>3, <2>5, <2>7 DEF Working
<1>10. CASE ReturnMonth(c)
  <2>1. /\ pc[c] = "returnMonth" /\ pc'[c] = "returnHour" /\ at' = at /\ count' = count
        /\ month'[u] = count[c].n /\ hour'[u] = hour[u] /\ callAt'[u] = callAt[u]
    BY <1>10, <1>a, <1>b, <1>c DEF ReturnMonth, Goto
  <2>2. hour[u] = MaxAttempts /\ (c \in Exact => Len(callAt[u]) <= count[c].n)
    BY <1>e, <2>1 DEF Stage
  <2>3. Stage(c)' /\ (c \in Exact => Covered(u))
    BY <1>c, <1>f, <1>g, <2>1, <2>2 DEF Stage, Backed, Unit, Exact
  <2> QED
    BY <1>4, <2>1, <2>3 DEF Working
<1>11. CASE ReturnHour(c)
  <2>1. /\ pc[c] = "returnHour" /\ pc'[c] = "log" /\ at' = at /\ count' = count
        /\ month'[u] = month[u] /\ hour'[u] = count[c].n /\ callAt'[u] = callAt[u]
    BY <1>11, <1>a, <1>b, <1>c DEF ReturnHour, Goto
  <2>2. month[u] = count[c].n /\ (c \in Exact => Len(callAt[u]) <= count[c].n)
    BY <1>e, <2>1 DEF Stage
  <2>3. Stage(c)' /\ (c \in Exact => Covered(u))
    BY <1>c, <1>f, <1>g, <2>1, <2>2 DEF Stage, Backed, Unit, Exact
  <2> QED
    BY <1>4, <2>1, <2>3 DEF Working
<1> QED
  BY <1>5, <1>6, <1>7, <1>8, <1>9, <1>10, <1>11

(***************************************************************************)
(* A step of c moves no other check and touches no other unit, and only    *)
(* the start of a unit charges it to a month.                              *)
(***************************************************************************)
LEMMA OthersStay ==
    ASSUME TypeOK, NEW c \in Checks, Step(c) \/ Crash(c)
    PROVE  /\ \A d \in Checks \ {c} : pc'[d] = pc[d] /\ at'[d] = at[d] /\ count'[d] = count[d]
           /\ \A u \in Units \ {Unit(c)} :
                 key'[u] = key[u] /\ month'[u] = month[u] /\ hour'[u] = hour[u]
                 /\ callAt'[u] = callAt[u]
           /\ ~StartUnit(c) => UNCHANGED key
<1>1. \A d \in Checks \ {c} : pc'[d] = pc[d] /\ at'[d] = at[d] /\ count'[d] = count[d]
  BY DEF TypeOK, CheckTypeOK, Step, Crash, ReadUsage, CountHourly, StopUnits, StartUnit,
     ReadLimits, ReserveMonthly, RefuseMonthly, ReserveHourly, RefuseHourly, UndoMonthly,
     AttemptAgain, AttemptEnds, ReturnMonth, ReturnHour, InsertRows, Goto, checkVars
<1>2. \A u \in Units \ {Unit(c)} :
          month'[u] = month[u] /\ hour'[u] = hour[u] /\ callAt'[u] = callAt[u]
  BY DEF TypeOK, GhostTypeOK, Step, Crash, ReadUsage, CountHourly, StopUnits, StartUnit,
     ReadLimits, ReserveMonthly, RefuseMonthly, ReserveHourly, RefuseHourly, UndoMonthly,
     AttemptAgain, AttemptEnds, ReturnMonth, ReturnHour, InsertRows, Request, ghostVars
<1>3. ~StartUnit(c) => UNCHANGED key
  BY DEF Step, Crash, ReadUsage, CountHourly, StopUnits, ReadLimits, ReserveMonthly,
     RefuseMonthly, ReserveHourly, RefuseHourly, UndoMonthly, AttemptAgain, AttemptEnds,
     ReturnMonth, ReturnHour, InsertRows, checkVars
<1>4. \A u \in Units \ {Unit(c)} : key'[u] = key[u]
  BY <1>3 DEF StartUnit, TypeOK, CheckTypeOK
<1> QED
  BY <1>1, <1>2, <1>3, <1>4

(***************************************************************************)
(* Together: a step of any check keeps what every check holds.             *)
(***************************************************************************)
LEMMA StepKeepsReserved ==
    ASSUME TypeOK, Placed, Reserved, NEW c \in Checks, Step(c) \/ Crash(c)
    PROVE  Reserved'
<1>1. Mine(c)
  BY DEF Reserved
<1>2. Mine(c)'
  BY <1>1, OwnQuietSteps, OwnSpendingSteps DEF Step
<1>3. ASSUME NEW d \in Checks, d # c
      PROVE  Mine(d)'
  BY <1>3, OthersStay, OthersKeep
<1> QED
  BY <1>2, <1>3 DEF Reserved

LEMMA NextKeepsReserved ==
    ASSUME TypeOK, Placed, Reserved, [Next]_vars
    PROVE  Reserved'
<1>1. CASE \E c \in Checks : Step(c) \/ Crash(c)
  BY <1>1, StepKeepsReserved
<1>2. CASE (\E s \in Syncs : AccountStatus(s) \/ SyncRead(s) \/ SyncWrite(s)) \/ Tick \/ UNCHANGED vars
  <2>1. UNCHANGED <<pc, at, count, month, hour, callAt>>
    BY <1>2 DEF AccountStatus, SyncRead, SyncWrite, Tick, vars, checkVars, ghostVars
  <2> QED
    BY <2>1 DEF Reserved, Mine, Ahead, Stage, Fresh, Backed, Unit, Exact
<1> QED
  BY <1>1, <1>2 DEF Next

(***************************************************************************)
(* No request leaves without capacity held for it, in the ledger and in    *)
(* the hourly bucket, whatever the interleaving and wherever a check dies. *)
(***************************************************************************)
THEOREM CallsAreReserved == Spec => []NoUnreservedCall
<1>1. Init => Reserved
  BY InitReserved
<1>2. TypeOK /\ Placed /\ Reserved /\ [Next]_vars => Reserved'
  BY NextKeepsReserved
<1>3. Reserved => NoUnreservedCall
  BY DEF Reserved, Mine, Backed, NoUnreservedCall, Exact
<1> QED
  BY <1>1, <1>2, <1>3, TypeInvariant, PTL DEF Spec

(***************************************************************************)
(* Counting.  Raising one unit's count by n adds n attempts to what the    *)
(* units of U hold when the unit is one of them, and nothing otherwise.    *)
(***************************************************************************)
Counts == [Units -> 0..MaxAttempts]

LEMMA HeldFinite ==
    ASSUME NEW f, NEW U
    PROVE  IsFiniteSet(Held(f, U)) /\ Cardinality(Held(f, U)) \in Nat
BY AttemptsFinite, FS_Subset, FS_CardinalityType DEF Held

LEMMA NewAttempts ==
    ASSUME NEW u, NEW a \in Nat, NEW b \in Nat, a <= b
    PROVE  /\ IsFiniteSet({u} \X ((a + 1)..b))
           /\ Cardinality({u} \X ((a + 1)..b)) = b - a
<1> DEFINE low == a + 1
           run == low..b
<1>1. low \in Int /\ b \in Int /\ low = a + 1
  OBVIOUS
<1> HIDE DEF low
<1>2. IsFiniteSet(run) /\ Cardinality(run) = IF low > b THEN 0 ELSE b - low + 1
  BY <1>1, FS_Interval
<1>3. Cardinality(run) = b - a
  BY <1>1, <1>2
<1> HIDE DEF run
<1>4. IsFiniteSet({u}) /\ Cardinality({u}) = 1
  BY FS_Singleton
<1>5. IsFiniteSet({u} \X run) /\ Cardinality({u} \X run) = Cardinality({u}) * Cardinality(run)
  BY <1>2, <1>4, FS_Product
<1>6. Cardinality({u} \X run) = b - a
  BY <1>3, <1>4, <1>5
<1> QED
  BY <1>5, <1>6 DEF run, low

LEMMA HeldGrows ==
    ASSUME NEW f \in Counts, NEW g \in Counts, NEW U \in SUBSET Units, NEW u \in U,
           f[u] <= g[u], \A v \in Units \ {u} : f[v] = g[v]
    PROVE  Cardinality(Held(g, U)) = Cardinality(Held(f, U)) + (g[u] - f[u])
<1> DEFINE new == {u} \X ((f[u] + 1)..g[u])
<1>1. MaxAttempts \in Nat /\ f[u] \in 0..MaxAttempts /\ g[u] \in 0..MaxAttempts
  BY LimitsAssumption DEF Counts
<1>2. IsFiniteSet(new) /\ Cardinality(new) = g[u] - f[u]
  <2>1. f[u] \in Nat /\ g[u] \in Nat
    BY <1>1
  <2> QED
    BY <2>1, NewAttempts, Zenon
<1>3. Held(g, U) = Held(f, U) \cup new
  <2>1. \A x \in Attempts : x[1] # u => (x \in Held(g, U) <=> x \in Held(f, U))
    BY DEF Held, Attempts
  <2>2. \A x \in Attempts : x[1] = u => (x \in Held(g, U) <=> x \in Held(f, U) \/ x[2] \in (f[u] + 1)..g[u])
    BY <1>1 DEF Held, Attempts
  <2>3. new \subseteq Attempts
    BY <1>1 DEF Attempts
  <2>4. \A x \in Attempts : x \in new <=> x[1] = u /\ x[2] \in (f[u] + 1)..g[u]
    BY DEF Attempts
  <2>5. Held(f, U) \subseteq Attempts /\ Held(g, U) \subseteq Attempts
    BY DEF Held
  <2> QED
    BY <2>1, <2>2, <2>3, <2>4, <2>5
<1>4. Held(f, U) \cap new = {}
  BY <1>1 DEF Held, Attempts
<1>5. Cardinality(Held(f, U)) \in Nat /\ IsFiniteSet(Held(f, U))
  BY HeldFinite
<1>6. Cardinality(Held(g, U)) = Cardinality(Held(f, U)) + Cardinality(new)
                                  - Cardinality(Held(f, U) \cap new)
  BY <1>2, <1>3, <1>5, FS_Union
<1>7. Cardinality(Held(f, U) \cap new) = 0
  BY <1>4, FS_EmptySet
<1> HIDE DEF new
<1> QED
  BY <1>1, <1>2, <1>5, <1>6, <1>7

LEMMA CountsChange ==
    ASSUME NEW f \in Counts, NEW g \in Counts, NEW U \in SUBSET Units, NEW u \in U,
           \A v \in Units \ {u} : g[v] = f[v]
    PROVE  Cardinality(Held(g, U)) = Cardinality(Held(f, U)) + (g[u] - f[u])
<1>1. f[u] \in Nat /\ g[u] \in Nat
  BY LimitsAssumption DEF Counts
<1>2. Cardinality(Held(f, U)) \in Nat /\ Cardinality(Held(g, U)) \in Nat
  BY HeldFinite
<1>3. f[u] <= g[u] => Cardinality(Held(g, U)) = Cardinality(Held(f, U)) + (g[u] - f[u])
  BY HeldGrows
<1>4. g[u] <= f[u] => Cardinality(Held(f, U)) = Cardinality(Held(g, U)) + (f[u] - g[u])
  BY HeldGrows
<1> QED
  BY <1>1, <1>2, <1>3, <1>4

LEMMA HeldElsewhere ==
    ASSUME NEW f, NEW g, NEW U, NEW u, u \notin U, \A v \in Units \ {u} : f[v] = g[v]
    PROVE  Held(g, U) = Held(f, U)
BY DEF Held, Attempts

(***************************************************************************)
(* A unit that holds nothing may change its period and hour: no month and  *)
(* no hour is charged differently.                                         *)
(***************************************************************************)
LEMMA ChargesStay ==
    ASSUME TypeOK, NEW u \in Units, month[u] = 0, hour[u] = 0, UNCHANGED <<month, hour>>,
           \A v \in Units \ {u} : key'[v] = key[v]
    PROVE  /\ \A p \in Periods : ChargedTo(p)' = ChargedTo(p)
           /\ \A h \in Hours : ChargedIn(h)' = ChargedIn(h)
<1>1. \A x \in Attempts : x[1] = u => ~(x[2] <= month[x[1]]) /\ ~(x[2] <= hour[x[1]])
  BY LimitsAssumption DEF Attempts
<1>2. \A x \in Attempts : x[1] # u => key'[x[1]] = key[x[1]]
  BY DEF Attempts
<1> QED
  BY <1>1, <1>2 DEF ChargedTo, ChargedIn, Held, UnitsOf, UnitsIn

(***************************************************************************)
(* The counting invariant: the limits a check has read are within the      *)
(* configured ones; the ledger covers what is held, and what is held is    *)
(* within the budget, unless a sync lowered the ledger; and the bucket     *)
(* covers what is held and is within the hourly limit.                     *)
(***************************************************************************)
CapsWithin == \A c \in Checks : caps[c].monthly <= Budget /\ caps[c].hourly <= HourlyLimit
HeldWithinBudget == \A p \in Periods : ~lowered[p] => Cardinality(ChargedTo(p)) <= Budget
LedgerInv == CapsWithin /\ LedgerCoversHoldings /\ HeldWithinBudget /\ HourlyCap

LEMMA NothingHeld ==
    ASSUME Init
    PROVE  /\ \A p : Cardinality(ChargedTo(p)) = 0
           /\ \A h : Cardinality(ChargedIn(h)) = 0
<1>1. \A x \in Attempts : x[1] \in Units /\ x[2] \in 1..MaxAttempts
  BY DEF Attempts
<1>2. \A x \in Attempts : ~(x[2] <= month[x[1]]) /\ ~(x[2] <= hour[x[1]])
  BY <1>1, LimitsAssumption DEF Init
<1>3. \A p : ChargedTo(p) = {}
  BY <1>2 DEF ChargedTo, Held
<1>4. \A h : ChargedIn(h) = {}
  BY <1>2 DEF ChargedIn, Held
<1> QED
  BY <1>3, <1>4, FS_EmptySet

LEMMA InitLedgerInv == Init => LedgerInv
<1> SUFFICES ASSUME Init PROVE LedgerInv
  OBVIOUS
<1>1. CapsWithin
  BY LimitsAssumption DEF Init, CapsWithin
<1>2. LedgerCoversHoldings /\ HeldWithinBudget
  BY NothingHeld, LimitsAssumption DEF Init, LedgerCoversHoldings, HeldWithinBudget
<1>3. HourlyCap
  BY NothingHeld, LimitsAssumption DEF Init, HourlyCap
<1> QED
  BY <1>1, <1>2, <1>3 DEF LedgerInv

LEMMA StepKeepsCaps ==
    ASSUME TypeOK, Placed, CapsWithin, NEW c \in Checks, Step(c) \/ Crash(c)
    PROVE  CapsWithin'
<1>a. Budget \in Nat /\ Reserve \in Nat /\ HourlyLimit \in Nat
  BY LimitsAssumption
<1>b. caps \in [Checks -> [monthly : Nat, hourly : Nat]]
  BY DEF TypeOK, CheckTypeOK
<1>1. CASE ReadUsage(c)
  <2> DEFINE rate == prov[PeriodOf[clock]].rate
             lim == [monthly |-> 0, hourly |-> Capped(HourlyLimit, rate)]
  <2>1. rate \in MaybeNat
    BY CalendarAssumption DEF TypeOK, LedgerTypeOK, Report
  <2>2. lim.monthly <= Budget /\ lim.hourly <= HourlyLimit
    <3>1. Capped(HourlyLimit, rate) <= HourlyLimit
      BY <1>a, <2>1, HelperTypes
    <3> QED
      BY <1>a, <3>1
  <2>3. caps' = [caps EXCEPT ![c] = lim]
    BY <1>1 DEF ReadUsage
  <2> HIDE DEF lim
  <2> QED
    BY <1>b, <2>2, <2>3 DEF CapsWithin
<1>2. CASE ReadLimits(c)
  <2> DEFINE r == prov[key[Unit(c)].period]
             lim == [monthly |-> Capped(MonthlyLimit(c), r.quota),
                     hourly |-> Capped(HourlyLimit, r.rate)]
  <2>1. r \in Report
    <3>1. pc[c] \in Working
      BY <1>2 DEF ReadLimits, Working
    <3> QED
      BY <3>1, WorkingUnit DEF TypeOK, LedgerTypeOK
  <2>2. r.quota \in MaybeNat /\ r.rate \in MaybeNat
    BY <2>1 DEF Report
  <2>3. MonthlyLimit(c) \in Nat /\ MonthlyLimit(c) <= Budget
    BY <1>a, HelperTypes DEF MonthlyLimit
  <2>4. /\ Capped(MonthlyLimit(c), r.quota) \in Nat
        /\ Capped(MonthlyLimit(c), r.quota) <= MonthlyLimit(c)
        /\ Capped(HourlyLimit, r.rate) <= HourlyLimit
    BY <1>a, <2>2, <2>3, HelperTypes
  <2>5. lim.monthly <= Budget /\ lim.hourly <= HourlyLimit
    BY <1>a, <2>3, <2>4
  <2>6. caps' = [caps EXCEPT ![c] = lim]
    BY <1>2 DEF ReadLimits
  <2> HIDE DEF lim
  <2> QED
    BY <1>b, <2>5, <2>6 DEF CapsWithin
<1>3. CASE caps' = caps
  BY <1>3 DEF CapsWithin
<1> QED
  BY <1>1, <1>2, <1>3 DEF Step, Crash, CountHourly, StopUnits, StartUnit, ReserveMonthly,
     RefuseMonthly, ReserveHourly, RefuseHourly, UndoMonthly, AttemptAgain, AttemptEnds,
     ReturnMonth, ReturnHour, InsertRows, checkVars

(***************************************************************************)
(* A step that changes what unit u holds of its month changes what the     *)
(* month is charged by as much, and no other month.                        *)
(***************************************************************************)
LEMMA MonthCharge ==
    ASSUME NEW u \in Units, NEW p, p = key[u].period, UNCHANGED key,
           month \in Counts, month' \in Counts,
           \A v \in Units \ {u} : month'[v] = month[v]
    PROVE  /\ \A q : q # p => ChargedTo(q)' = ChargedTo(q)
           /\ Cardinality(ChargedTo(p)') = Cardinality(ChargedTo(p)) + (month'[u] - month[u])
<1>1. \A q : /\ ChargedTo(q) = Held(month, UnitsOf(q))
             /\ ChargedTo(q)' = Held(month', UnitsOf(q))
             /\ u \in UnitsOf(q) <=> q = p
             /\ UnitsOf(q) \subseteq Units
  BY DEF ChargedTo, UnitsOf, Held
<1>2. ASSUME NEW q, q # p
      PROVE  Held(month', UnitsOf(q)) = Held(month, UnitsOf(q))
  BY <1>1, <1>2, HeldElsewhere
<1>3. Cardinality(Held(month', UnitsOf(p)))
        = Cardinality(Held(month, UnitsOf(p))) + (month'[u] - month[u])
  BY <1>1, CountsChange
<1> QED
  BY <1>1, <1>2, <1>3

LEMMA HourCharge ==
    ASSUME NEW u \in Units, NEW h, h = key[u].hour, UNCHANGED key,
           hour \in Counts, hour' \in Counts,
           \A v \in Units \ {u} : hour'[v] = hour[v]
    PROVE  /\ \A q : q # h => ChargedIn(q)' = ChargedIn(q)
           /\ Cardinality(ChargedIn(h)') = Cardinality(ChargedIn(h)) + (hour'[u] - hour[u])
<1>1. \A q : /\ ChargedIn(q) = Held(hour, UnitsIn(q))
             /\ ChargedIn(q)' = Held(hour', UnitsIn(q))
             /\ u \in UnitsIn(q) <=> q = h
             /\ UnitsIn(q) \subseteq Units
  BY DEF ChargedIn, UnitsIn, Held
<1>2. ASSUME NEW q, q # h
      PROVE  Held(hour', UnitsIn(q)) = Held(hour, UnitsIn(q))
  BY <1>1, <1>2, HeldElsewhere
<1>3. Cardinality(Held(hour', UnitsIn(h)))
        = Cardinality(Held(hour, UnitsIn(h))) + (hour'[u] - hour[u])
  BY <1>1, CountsChange
<1> QED
  BY <1>1, <1>2, <1>3

(***************************************************************************)
(* A step that charges no month and no hour, touches no ledger row and     *)
(* raises no flag keeps the counting invariants.                           *)
(***************************************************************************)
LedgerSteady ==
    /\ UNCHANGED <<local, used, lowered>>
    /\ \A p \in Periods : ChargedTo(p)' = ChargedTo(p)
    /\ \A h \in Hours : ChargedIn(h)' = ChargedIn(h)

LEMMA SteadyKeepsCounts ==
    ASSUME LedgerCoversHoldings, HeldWithinBudget, HourlyCap, LedgerSteady
    PROVE  LedgerCoversHoldings' /\ HeldWithinBudget' /\ HourlyCap'
<1>1. LedgerCoversHoldings' /\ HeldWithinBudget'
  BY DEF LedgerCoversHoldings, HeldWithinBudget, LedgerSteady
<1>2. HourlyCap'
  BY DEF HourlyCap, LedgerSteady
<1> QED
  BY <1>1, <1>2

LEMMA SameCharges ==
    ASSUME UNCHANGED <<local, used, lowered, key, month, hour>>
    PROVE  LedgerSteady
BY DEF LedgerSteady, ChargedTo, ChargedIn, Held, UnitsOf, UnitsIn

LEMMA QuietSteps ==
    ASSUME TypeOK, Placed, Reserved, NEW c \in Checks,
           \/ ReadUsage(c) \/ CountHourly(c) \/ StopUnits(c) \/ StartUnit(c)
           \/ ReadLimits(c) \/ RefuseMonthly(c) \/ RefuseHourly(c) \/ InsertRows(c)
           \/ AttemptAgain(c) \/ AttemptEnds(c) \/ Crash(c)
    PROVE  LedgerSteady
<1>1. CASE StartUnit(c)
  <2>1. pc[c] = "units" /\ pc'[c] = "limits" /\ at' = at
    BY <1>1 DEF StartUnit, Goto, TypeOK, CheckTypeOK
  <2>2. at[c] \in 1..UnitsPerCheck
    BY <1>1, <2>1, StepKeepsPlaced DEF Step, Placed, Working
  <2>3. Unit(c) \in Units /\ month[Unit(c)] = 0 /\ hour[Unit(c)] = 0
    <3>1. Ahead(c, at[c])
      BY <2>1, <2>2 DEF Ahead
    <3> QED
      BY <2>2, <3>1 DEF Reserved, Mine, Fresh, Unit, Units
  <2>4. \A v \in Units \ {Unit(c)} : key'[v] = key[v]
    BY <1>1 DEF StartUnit, TypeOK, CheckTypeOK
  <2>5. UNCHANGED <<local, used, lowered, month, hour>>
    BY <1>1 DEF StartUnit, ledgerVars, ghostVars
  <2> QED
    BY <2>3, <2>4, <2>5, ChargesStay DEF LedgerSteady
<1>2. CASE ~StartUnit(c)
  <2>1. UNCHANGED <<local, used, lowered, key, month, hour>>
    BY <1>2 DEF ReadUsage, CountHourly, StopUnits, ReadLimits, RefuseMonthly, RefuseHourly,
       InsertRows, AttemptAgain, AttemptEnds, Crash, ledgerVars, checkVars, ghostVars
  <2> QED
    BY <2>1, SameCharges
<1> QED
  BY <1>1, <1>2

(***************************************************************************)
(* The three steps that write the ledger on behalf of a check.             *)
(***************************************************************************)
LEMMA MonthlySteps ==
    ASSUME TypeOK, TypeOK', Placed, Reserved, LedgerInv, NEW c \in Checks,
           ReserveMonthly(c) \/ UndoMonthly(c) \/ ReturnMonth(c)
    PROVE  LedgerCoversHoldings' /\ HeldWithinBudget' /\ HourlyCap'
<1>a. pc[c] \in Working
  BY DEF ReserveMonthly, UndoMonthly, ReturnMonth, Working
<1>b. PICK u \in Units : u = Unit(c)
  BY <1>a, WorkingUnit
<1>c. PICK p \in Periods : p = key[u].period
  BY <1>a, <1>b, WorkingUnit
<1>d. month \in Counts /\ month' \in Counts
  BY DEF TypeOK, GhostTypeOK, Counts
<1>e. UNCHANGED <<key, used, hour, lowered>>
  BY DEF ReserveMonthly, UndoMonthly, ReturnMonth
<1>f. \A v \in Units \ {u} : month'[v] = month[v]
  BY <1>b, <1>d DEF ReserveMonthly, UndoMonthly, ReturnMonth, Counts
<1>g. \A q \in Periods \ {p} : local'[q] = local[q]
  BY <1>b, <1>c DEF ReserveMonthly, UndoMonthly, ReturnMonth, TypeOK, LedgerTypeOK
<1>h. MaxAttempts \in Nat \ {0} /\ count[c].n \in 0..MaxAttempts
  BY LimitsAssumption DEF TypeOK, CheckTypeOK
<1>i. month[u] \in Nat /\ month'[u] \in Nat
  BY <1>d, <1>h DEF Counts
<1>j. local[p] \in Nat /\ local'[p] \in Nat
  BY DEF TypeOK, LedgerTypeOK
<1>k. Cardinality(ChargedTo(p)) \in Nat
  BY HeldFinite DEF ChargedTo
<1>l. Stage(c)
  BY DEF Reserved, Mine
<1>1. /\ \A q : q # p => ChargedTo(q)' = ChargedTo(q)
      /\ Cardinality(ChargedTo(p)') = Cardinality(ChargedTo(p)) + (month'[u] - month[u])
  BY <1>c, <1>d, <1>e, <1>f, MonthCharge
<1>2. HourlyCap'
  <2>1. \A h \in Hours : ChargedIn(h)' = ChargedIn(h)
    BY <1>e DEF ChargedIn, UnitsIn, Held
  <2> QED
    BY <1>e, <2>1 DEF LedgerInv, HourlyCap
\* It is enough to look at the month p, and there at what the step adds.
<1>3. ASSUME ~lowered[p] => /\ Cardinality(ChargedTo(p)') <= local'[p]
                            /\ Cardinality(ChargedTo(p)') <= Budget
      PROVE  LedgerCoversHoldings' /\ HeldWithinBudget'
  BY <1>1, <1>3, <1>e, <1>g DEF LedgerInv, LedgerCoversHoldings, HeldWithinBudget
<1>4. ~lowered[p] => Cardinality(ChargedTo(p)) <= local[p] /\ Cardinality(ChargedTo(p)) <= Budget
  BY DEF LedgerInv, LedgerCoversHoldings, HeldWithinBudget
<1>5. CASE ReserveMonthly(c)
  <2> DEFINE floor == OrZero(prov[p].usage)
  <2>1. floor \in Nat
    BY HelperTypes DEF TypeOK, LedgerTypeOK, Report
  <2>2. MaxOf(local[p], floor) \in Nat /\ MaxOf(local[p], floor) >= local[p]
    BY <1>j, <2>1, HelperTypes
  <2>3. /\ local'[p] = MaxOf(local[p], floor) + MaxAttempts
        /\ MaxOf(local[p], floor) + MaxAttempts <= caps[c].monthly
    BY <1>5, <1>b, <1>c DEF ReserveMonthly, MonthlyFits, TypeOK, LedgerTypeOK
  <2>4. caps[c].monthly \in Nat /\ caps[c].monthly <= Budget /\ Budget \in Nat
    BY LimitsAssumption DEF LedgerInv, CapsWithin, TypeOK, CheckTypeOK
  <2>5. month[u] = 0 /\ month'[u] = MaxAttempts
    BY <1>5, <1>b, <1>d, <1>l DEF ReserveMonthly, Stage, Fresh, Counts
  <2> HIDE DEF floor
  <2>6. ~lowered[p] => /\ Cardinality(ChargedTo(p)') <= local'[p]
                       /\ local'[p] <= Budget
    BY <1>1, <1>4, <1>h, <1>j, <1>k, <2>2, <2>3, <2>4, <2>5
  <2> QED
    BY <1>1, <1>2, <1>3, <1>h, <1>i, <1>j, <1>k, <2>4, <2>6
<1>6. CASE UndoMonthly(c)
  <2>1. month[u] = MaxAttempts /\ month'[u] = 0
    BY <1>6, <1>b, <1>d, <1>l DEF UndoMonthly, Stage, Counts
  <2>2. local'[p] = Returned(p, MaxAttempts)
    BY <1>6, <1>b, <1>c DEF UndoMonthly, TypeOK, LedgerTypeOK
  <2>3. local'[p] >= local[p] - MaxAttempts
    BY <1>h, <2>2, ReturnedType
  <2>4. ~lowered[p] => /\ Cardinality(ChargedTo(p)') <= local'[p]
                       /\ Cardinality(ChargedTo(p)') <= Budget
    BY <1>1, <1>4, <1>h, <1>j, <1>k, <2>1, <2>3, LimitsAssumption
  <2> QED
    BY <1>2, <1>3, <2>4
<1>7. CASE ReturnMonth(c)
  <2>1. month[u] = MaxAttempts /\ month'[u] = count[c].n
    BY <1>7, <1>b, <1>d, <1>l DEF ReturnMonth, Stage, Counts
  <2>2. local'[p] = Returned(p, MaxAttempts - count[c].n)
    BY <1>7, <1>b, <1>c DEF ReturnMonth, TypeOK, LedgerTypeOK
  <2>3. MaxAttempts - count[c].n \in Nat
    BY <1>h
  <2>4. local'[p] >= local[p] - (MaxAttempts - count[c].n)
    BY <2>2, <2>3, ReturnedType
  <2>5. ~lowered[p] => /\ Cardinality(ChargedTo(p)') <= local'[p]
                       /\ Cardinality(ChargedTo(p)') <= Budget
    BY <1>1, <1>4, <1>h, <1>j, <1>k, <2>1, <2>3, <2>4, LimitsAssumption
  <2> QED
    BY <1>2, <1>3, <2>5
<1> QED
  BY <1>5, <1>6, <1>7

(***************************************************************************)
(* The two steps that write the hourly bucket.                             *)
(***************************************************************************)
LEMMA HourlySteps ==
    ASSUME TypeOK, TypeOK', Placed, Reserved, LedgerInv, NEW c \in Checks,
           ReserveHourly(c) \/ ReturnHour(c)
    PROVE  LedgerCoversHoldings' /\ HeldWithinBudget' /\ HourlyCap'
<1>a. pc[c] \in Working
  BY DEF ReserveHourly, ReturnHour, Working
<1>b. PICK u \in Units : u = Unit(c)
  BY <1>a, WorkingUnit
<1>c. PICK h \in Hours : h = key[u].hour
  BY <1>a, <1>b, WorkingUnit
<1>d. hour \in Counts /\ hour' \in Counts
  BY DEF TypeOK, GhostTypeOK, Counts
<1>e. UNCHANGED <<key, local, month, lowered>>
  BY DEF ReserveHourly, ReturnHour
<1>f. \A v \in Units \ {u} : hour'[v] = hour[v]
  BY <1>b, <1>d DEF ReserveHourly, ReturnHour, Counts
<1>g. \A q \in Hours \ {h} : used'[q] = used[q]
  BY <1>b, <1>c DEF ReserveHourly, ReturnHour, TypeOK, LedgerTypeOK
<1>h. MaxAttempts \in Nat \ {0} /\ count[c].n \in 0..MaxAttempts
  BY LimitsAssumption DEF TypeOK, CheckTypeOK
<1>i. used[h] \in Nat /\ HourlyLimit \in Nat
  BY LimitsAssumption DEF TypeOK, LedgerTypeOK
<1>j. Cardinality(ChargedIn(h)) \in Nat
  BY HeldFinite DEF ChargedIn
<1>k. Stage(c)
  BY DEF Reserved, Mine
<1>1. /\ \A q : q # h => ChargedIn(q)' = ChargedIn(q)
      /\ Cardinality(ChargedIn(h)') = Cardinality(ChargedIn(h)) + (hour'[u] - hour[u])
  BY <1>c, <1>d, <1>e, <1>f, HourCharge
<1>2. LedgerCoversHoldings' /\ HeldWithinBudget'
  <2>1. \A q \in Periods : ChargedTo(q)' = ChargedTo(q)
    BY <1>e DEF ChargedTo, UnitsOf, Held
  <2> QED
    BY <1>e, <2>1 DEF LedgerInv, LedgerCoversHoldings, HeldWithinBudget
<1>3. ASSUME Cardinality(ChargedIn(h)') <= used'[h], used'[h] <= HourlyLimit
      PROVE  HourlyCap'
  BY <1>1, <1>3, <1>g DEF LedgerInv, HourlyCap
<1>4. Cardinality(ChargedIn(h)) <= used[h] /\ used[h] <= HourlyLimit
  BY DEF LedgerInv, HourlyCap
<1>5. CASE ReserveHourly(c)
  <2>1. used'[h] = used[h] + MaxAttempts /\ used[h] + MaxAttempts <= caps[c].hourly
    BY <1>5, <1>b, <1>c DEF ReserveHourly, HourlyFits, TypeOK, LedgerTypeOK
  <2>2. caps[c].hourly \in Nat /\ caps[c].hourly <= HourlyLimit
    BY DEF LedgerInv, CapsWithin, TypeOK, CheckTypeOK
  <2>3. hour[u] = 0 /\ hour'[u] = MaxAttempts
    BY <1>5, <1>b, <1>d, <1>k DEF ReserveHourly, Stage, Counts
  <2>4. Cardinality(ChargedIn(h)') <= used'[h] /\ used'[h] <= HourlyLimit
    BY <1>1, <1>4, <1>h, <1>i, <1>j, <2>1, <2>2, <2>3
  <2> QED
    BY <1>2, <1>3, <2>4
<1>6. CASE ReturnHour(c)
  <2> DEFINE n == MaxAttempts - count[c].n
  <2>1. used'[h] = Minus(used[h], n)
    BY <1>6, <1>b, <1>c DEF ReturnHour, TypeOK, LedgerTypeOK
  <2>2. n \in Nat
    BY <1>h
  <2>3. used'[h] >= used[h] - n /\ used'[h] <= used[h] /\ used'[h] \in Nat
    BY <1>i, <2>1, <2>2 DEF Minus
  <2>4. hour[u] = MaxAttempts /\ hour'[u] = count[c].n
    BY <1>6, <1>b, <1>d, <1>k DEF ReturnHour, Stage, Counts
  <2>5. Cardinality(ChargedIn(h)') <= used'[h] /\ used'[h] <= HourlyLimit
    BY <1>1, <1>4, <1>h, <1>i, <1>j, <2>3, <2>4
  <2> QED
    BY <1>2, <1>3, <2>5
<1> QED
  BY <1>5, <1>6

(***************************************************************************)
(* A sync either leaves a ledger that still covers what is held, or has    *)
(* lowered it, which the invariant excepts.                                *)
(***************************************************************************)
LEMMA SyncSteps ==
    ASSUME TypeOK, TypeOK', LedgerInv, NEW s \in Syncs, AccountStatus(s) \/ SyncRead(s) \/ SyncWrite(s)
    PROVE  LedgerInv'
<1>1. UNCHANGED <<caps, key, month, hour, used>>
  BY DEF AccountStatus, SyncRead, SyncWrite, checkVars, ledgerVars, ghostVars
<1>2. /\ \A p \in Periods : ChargedTo(p)' = ChargedTo(p)
      /\ \A h \in Hours : ChargedIn(h)' = ChargedIn(h)
  BY <1>1 DEF ChargedTo, ChargedIn, UnitsOf, UnitsIn, Held
<1>3. \A p \in Periods : ~lowered'[p] => ~lowered[p] /\ local'[p] >= local[p]
  <2>1. CASE AccountStatus(s) \/ SyncRead(s)
    BY <2>1 DEF AccountStatus, SyncRead, ledgerVars, ghostVars, TypeOK, LedgerTypeOK
  <2>2. CASE SyncWrite(s)
    <3>1. PICK p \in Periods : p = sread[s].period
      BY DEF TypeOK, SyncTypeOK
    <3>2. PICK new \in Nat : new = MaxOf(sread[s].local, OrZero(sread[s].report.usage))
      BY HelperTypes DEF TypeOK, SyncTypeOK, Report
    <3>3. /\ local' = [local EXCEPT ![p] = new]
          /\ lowered' = [lowered EXCEPT ![p] = lowered[p] \/ new < local[p]]
      BY <2>2, <3>1, <3>2 DEF SyncWrite
    <3>4. local \in [Periods -> Nat] /\ lowered \in [Periods -> BOOLEAN]
      BY DEF TypeOK, LedgerTypeOK, GhostTypeOK
    <3>5. \A q \in Periods : local[q] \in Nat /\ (q # p => local'[q] = local[q] /\ lowered'[q] = lowered[q])
      BY <3>3, <3>4
    <3>6. local'[p] = new /\ lowered'[p] = (lowered[p] \/ new < local[p])
      BY <3>3, <3>4
    <3>7. ~lowered'[p] => ~lowered[p] /\ new >= local[p]
      <4>1. ~lowered'[p] => ~lowered[p] /\ ~(new < local[p])
        BY <3>6, Zenon
      <4>2. ~(new < local[p]) => new >= local[p]
        BY <3>2, <3>5
      <4> QED
        BY <4>1, <4>2, Zenon
    <3>8. \A q \in Periods : local[q] >= local[q]
      BY <3>5
    <3> QED
      BY <3>5, <3>6, <3>7, <3>8
  <2> QED
    BY <2>1, <2>2
<1>4. CapsWithin' /\ HourlyCap'
  BY <1>1, <1>2 DEF LedgerInv, CapsWithin, HourlyCap
<1>5. HeldWithinBudget'
  BY <1>2, <1>3 DEF LedgerInv, HeldWithinBudget
<1>6. LedgerCoversHoldings'
  <2> SUFFICES ASSUME NEW p \in Periods, ~lowered'[p]
               PROVE  Cardinality(ChargedTo(p)') <= local'[p]
    BY DEF LedgerCoversHoldings
  <2>1. Cardinality(ChargedTo(p)) <= local[p] /\ local'[p] >= local[p]
    BY <1>3 DEF LedgerInv, LedgerCoversHoldings
  <2>2. Cardinality(ChargedTo(p)) \in Nat /\ local[p] \in Nat /\ local'[p] \in Nat
    BY HeldFinite DEF ChargedTo, TypeOK, LedgerTypeOK
  <2> QED
    BY <1>2, <2>1, <2>2
<1> QED
  BY <1>4, <1>5, <1>6 DEF LedgerInv

LEMMA NextKeepsLedger ==
    ASSUME TypeOK, TypeOK', Placed, Reserved, LedgerInv, [Next]_vars
    PROVE  LedgerInv'
<1>a. CapsWithin /\ LedgerCoversHoldings /\ HeldWithinBudget /\ HourlyCap
  BY DEF LedgerInv
<1>1. ASSUME NEW c \in Checks, Step(c) \/ Crash(c)
      PROVE  LedgerInv'
  <2>1. CapsWithin'
    BY <1>1, <1>a, StepKeepsCaps
  <2>2. CASE ReserveMonthly(c) \/ UndoMonthly(c) \/ ReturnMonth(c)
    BY <2>1, <2>2, MonthlySteps DEF LedgerInv
  <2>3. CASE ReserveHourly(c) \/ ReturnHour(c)
    BY <2>1, <2>3, HourlySteps DEF LedgerInv
  <2>4. CASE \/ ReadUsage(c) \/ CountHourly(c) \/ StopUnits(c) \/ StartUnit(c)
             \/ ReadLimits(c) \/ RefuseMonthly(c) \/ RefuseHourly(c) \/ InsertRows(c)
             \/ AttemptAgain(c) \/ AttemptEnds(c) \/ Crash(c)
    BY <1>a, <2>1, <2>4, QuietSteps, SteadyKeepsCounts DEF LedgerInv
  <2> QED
    BY <1>1, <2>2, <2>3, <2>4 DEF Step
<1>2. ASSUME NEW s \in Syncs, AccountStatus(s) \/ SyncRead(s) \/ SyncWrite(s)
      PROVE  LedgerInv'
  BY <1>2, SyncSteps
<1>3. CASE Tick \/ UNCHANGED vars
  <2>1. UNCHANGED <<caps, local, used, lowered, key, month, hour>>
    BY <1>3 DEF Tick, vars, ledgerVars, checkVars, ghostVars
  <2>2. CapsWithin'
    BY <1>a, <2>1 DEF CapsWithin
  <2> QED
    BY <1>a, <2>1, <2>2, SameCharges, SteadyKeepsCounts DEF LedgerInv
<1> QED
  BY <1>1, <1>2, <1>3 DEF Next

(***************************************************************************)
(* The inductive invariant.                                                *)
(***************************************************************************)
IInv == TypeOK /\ Placed /\ Reserved /\ LedgerInv

LEMMA Inductive == Spec => []IInv
<1>1. Init => IInv
  BY InitTypeOK, InitReserved, InitLedgerInv DEF IInv, Init, Placed, Working
<1>2. IInv /\ [Next]_vars => IInv'
  BY NextKeepsTypes, NextKeepsReserved, NextKeepsLedger DEF IInv
<1> QED
  BY <1>1, <1>2, PTL DEF Spec

(***************************************************************************)
(* The ledger of a month covers what every check holds in it, as long as   *)
(* no account sync has written a smaller one.                              *)
(***************************************************************************)
THEOREM LedgerCovers == Spec => []LedgerCoversHoldings
<1>1. IInv => LedgerCoversHoldings
  BY DEF IInv, LedgerInv
<1> QED
  BY <1>1, Inductive, PTL

(***************************************************************************)
(* However many checks race, the calls charged to a month stay within the  *)
(* configured budget: each is held, and what is held fits the budget.      *)
(***************************************************************************)
THEOREM MonthlyBudgetHolds == Spec => []MonthlyCap
<1>1. ASSUME IInv, NEW p \in Periods, ~lowered[p]
      PROVE  Cardinality(CallsOf(Exact, p)) <= Budget
  <2>1. CallsOf(Exact, p) \subseteq ChargedTo(p)
    <3> SUFFICES ASSUME NEW x \in Attempts, x[1] \in UnitsOf(p) \cap OfChecks(Exact),
                        x[2] <= Calls[x[1]]
                 PROVE  x[2] <= month[x[1]]
      BY DEF CallsOf, ChargedTo, Held
    <3>1. PICK c \in Exact, i \in 1..UnitsPerCheck : x[1] = <<c, i>>
      BY DEF OfChecks, Units
    <3>2. Backed(x[1]) /\ x[1] \in Units
      BY <1>1, <3>1 DEF IInv, Reserved, Mine, Exact, OfChecks
    <3>3. /\ x[2] \in Nat /\ Calls[x[1]] = Len(callAt[x[1]]) /\ Len(callAt[x[1]]) \in Nat
          /\ month[x[1]] \in Nat
      BY <1>1, <3>2, LimitsAssumption DEF Attempts, Calls, IInv, TypeOK, GhostTypeOK
    <3> QED
      BY <3>2, <3>3 DEF Backed
  <2>2. /\ Cardinality(CallsOf(Exact, p)) <= Cardinality(ChargedTo(p))
        /\ Cardinality(CallsOf(Exact, p)) \in Nat /\ Cardinality(ChargedTo(p)) \in Nat
    BY <2>1, HeldFinite, FS_Subset DEF CallsOf, ChargedTo
  <2>3. Cardinality(ChargedTo(p)) <= Budget /\ Budget \in Nat
    BY <1>1, LimitsAssumption DEF IInv, LedgerInv, HeldWithinBudget
  <2> QED
    BY <2>2, <2>3
<1>2. IInv => MonthlyCap
  BY <1>1 DEF MonthlyCap
<1> QED
  BY <1>2, Inductive, PTL

(***************************************************************************)
(* No UTC hour is charged beyond the hourly limit.                         *)
(***************************************************************************)
THEOREM HourlyLimitHolds == Spec => []HourlyCap
<1>1. IInv => HourlyCap
  BY DEF IInv, LedgerInv
<1> QED
  BY <1>1, Inductive, PTL

(***************************************************************************)
(* What the three writes of the ledger leave in the month's row, and that  *)
(* every other step of a check leaves the ledger and the reports alone.    *)
(***************************************************************************)
WritesLedger(c) == ReserveMonthly(c) \/ UndoMonthly(c) \/ ReturnMonth(c)

LEMMA LedgerWrites ==
    ASSUME TypeOK, NEW c \in Checks, NEW p \in Periods, p = key[Unit(c)].period
    PROVE  /\ WritesLedger(c) => \A q \in Periods \ {p} : local'[q] = local[q]
           /\ ReserveMonthly(c) => local'[p] = MaxOf(local[p], OrZero(prov[p].usage)) + MaxAttempts
           /\ UndoMonthly(c) => local'[p] = Returned(p, MaxAttempts)
           /\ ReturnMonth(c) => local'[p] = Returned(p, MaxAttempts - count[c].n)
BY DEF WritesLedger, ReserveMonthly, UndoMonthly, ReturnMonth, TypeOK, LedgerTypeOK

LEMMA OtherSteps ==
    ASSUME NEW c \in Checks, Step(c) \/ Crash(c)
    PROVE  /\ UNCHANGED <<prov, lowered, syncVars>>
           /\ ~WritesLedger(c) => UNCHANGED local
<1>1. CASE WritesLedger(c)
  BY <1>1 DEF WritesLedger, ReserveMonthly, UndoMonthly, ReturnMonth
<1>2. CASE ~WritesLedger(c)
  BY <1>2 DEF WritesLedger, Step, Crash, ReadUsage, CountHourly, StopUnits, StartUnit, ReadLimits,
     RefuseMonthly, ReserveHourly, RefuseHourly, AttemptAgain, AttemptEnds, ReturnHour, InsertRows,
     ledgerVars, ghostVars, syncVars
<1> QED
  BY <1>1, <1>2

LEMMA LedgerPlace ==
    ASSUME TypeOK, Placed, NEW c \in Checks, WritesLedger(c)
    PROVE  /\ Unit(c) \in Units
           /\ key[Unit(c)].period \in Periods
           /\ MaxAttempts - count[c].n \in Nat
<1>1. pc[c] \in Working
  BY DEF WritesLedger, ReserveMonthly, UndoMonthly, ReturnMonth, Working
<1>2. count[c].n \in 0..MaxAttempts /\ MaxAttempts \in Nat
  BY LimitsAssumption DEF TypeOK, CheckTypeOK
<1> QED
  BY <1>1, <1>2, WorkingUnit

(***************************************************************************)
(* The provider's own count is a floor of the ledger.                      *)
(***************************************************************************)
LEMMA StepKeepsFloor ==
    ASSUME TypeOK, Placed, LedgerCoversProvider, NEW c \in Checks, Step(c) \/ Crash(c)
    PROVE  LedgerCoversProvider'
<1>1. prov' = prov
  BY OtherSteps
<1>2. CASE ~WritesLedger(c)
  BY <1>1, <1>2, OtherSteps DEF LedgerCoversProvider, OrZero
<1>3. CASE WritesLedger(c)
  <2>1. PICK p \in Periods : p = key[Unit(c)].period
    BY <1>3, LedgerPlace
  <2>2. MaxAttempts \in Nat /\ MaxAttempts - count[c].n \in Nat /\ local[p] \in Nat
    BY <1>3, LedgerPlace, LimitsAssumption DEF TypeOK, LedgerTypeOK
  <2>3. PICK floor \in Nat : floor = OrZero(prov[p].usage)
    BY HelperTypes DEF TypeOK, LedgerTypeOK, Report
  <2>4. \A n \in Nat : Returned(p, n) >= floor
    BY <2>2, <2>3, HelperTypes DEF Returned
  <2>5. MaxOf(local[p], floor) + MaxAttempts >= floor
    <3>1. MaxOf(local[p], floor) \in Nat /\ MaxOf(local[p], floor) >= floor
      BY <2>2, <2>3, HelperTypes
    <3> QED
      BY <2>2, <2>3, <3>1
  <2>6. local'[p] >= floor
    <3>1. CASE ReserveMonthly(c)
      BY <2>1, <2>3, <2>5, <3>1, LedgerWrites
    <3>2. CASE UndoMonthly(c)
      BY <2>1, <2>2, <2>4, <3>2, LedgerWrites
    <3>3. CASE ReturnMonth(c)
      BY <2>1, <2>2, <2>4, <3>3, LedgerWrites
    <3> QED
      BY <1>3, <3>1, <3>2, <3>3 DEF WritesLedger
  <2>7. \A q \in Periods \ {p} : local'[q] = local[q]
    BY <1>3, <2>1, LedgerWrites
  <2>8. OrZero(prov'[p].usage) <= local'[p]
    BY <1>1, <2>2, <2>3, <2>6 DEF OrZero
  <2> QED
    BY <1>1, <2>7, <2>8 DEF LedgerCoversProvider, OrZero
<1> QED
  BY <1>2, <1>3

LEMMA NextKeepsFloor ==
    ASSUME TypeOK, Placed, LedgerCoversProvider, [Next]_vars
    PROVE  LedgerCoversProvider'
<1>1. CASE \E c \in Checks : Step(c) \/ Crash(c)
  BY <1>1, StepKeepsFloor
<1>2. ASSUME NEW s \in Syncs, SyncWrite(s)
      PROVE  LedgerCoversProvider'
  <2>1. PICK p \in Periods : p = sread[s].period
    BY DEF TypeOK, SyncTypeOK
  <2>2. PICK report \in Report : report = sread[s].report
    BY DEF TypeOK, SyncTypeOK
  <2>3. sread[s].local \in Nat /\ OrZero(report.usage) \in Nat
    BY HelperTypes DEF TypeOK, SyncTypeOK, Report
  <2>4. PICK new \in Nat : new = MaxOf(sread[s].local, OrZero(report.usage))
    BY <2>3, HelperTypes
  <2>5. new >= OrZero(report.usage)
    BY <2>3, <2>4, HelperTypes
  <2>6. prov' = [prov EXCEPT ![p] = report] /\ local' = [local EXCEPT ![p] = new]
    BY <1>2, <2>1, <2>2, <2>4 DEF SyncWrite
  <2>7. local'[p] = new /\ prov'[p] = report
        /\ \A q \in Periods \ {p} : local'[q] = local[q] /\ prov'[q] = prov[q]
    BY <2>6 DEF TypeOK, LedgerTypeOK
  <2>8. OrZero(prov'[p].usage) <= local'[p]
    BY <2>3, <2>4, <2>5, <2>7
  <2> QED
    BY <2>7, <2>8 DEF LedgerCoversProvider, OrZero
<1>3. CASE (\E s \in Syncs : AccountStatus(s) \/ SyncRead(s)) \/ Tick \/ UNCHANGED vars
  <2>1. UNCHANGED <<local, prov>>
    BY <1>3 DEF AccountStatus, SyncRead, Tick, vars, ledgerVars
  <2> QED
    BY <2>1 DEF LedgerCoversProvider, OrZero
<1> QED
  BY <1>1, <1>2, <1>3 DEF Next

(***************************************************************************)
(* The ledger never counts less than the provider last reported, whatever  *)
(* returns race the syncs and however stale what a sync had read.          *)
(***************************************************************************)
THEOREM ProviderIsCovered == Spec => []LedgerCoversProvider
<1>1. Init => LedgerCoversProvider
  BY DEF Init, LedgerCoversProvider, NoReport, OrZero
<1>2. TypeOK /\ Placed /\ LedgerCoversProvider /\ [Next]_vars => LedgerCoversProvider'
  BY NextKeepsFloor
<1> QED
  BY <1>1, <1>2, TypeInvariant, PTL DEF Spec

(***************************************************************************)
(* A month the account never reported on.  A sync whose answer is blank    *)
(* could follow one that raised the ledger; where every answer says        *)
(* something, a blank row is one no sync has written.                      *)
(***************************************************************************)
NeverBlank == Syncs = {} \/ Null \notin Quotas \/ Null \notin Rates

Answered == \A s \in Syncs : spc[s] \in {"reading", "writing"} => sread[s].report # NoReport

LEMMA AnswersSaySomething ==
    ASSUME NeverBlank, Syncs # {}, NEW p
    PROVE  NoReport \notin Reports(p)
<1>1. \A u, q, r, x : [usage |-> u, quota |-> q, rate |-> r, left |-> x] = NoReport
                        => q = Null /\ r = Null
  BY DEF NoReport
<1>2. \A report \in Reports(p) : \E u, q, r, x :
          /\ q \in Quotas /\ r \in Rates
          /\ report = [usage |-> u, quota |-> q, rate |-> r, left |-> x]
  BY DEF Reports
<1> QED
  BY <1>1, <1>2 DEF NeverBlank

LEMMA NextKeepsAnswered ==
    ASSUME NeverBlank, TypeOK, Answered, [Next]_vars
    PROVE  Answered'
<1>a. /\ spc \in [Syncs -> {"idle", "reading", "writing", "done"}]
      /\ sread \in [Syncs -> [period : Periods, local : Nat, report : Report]]
  BY DEF TypeOK, SyncTypeOK
<1>1. CASE UNCHANGED syncVars
  BY <1>1 DEF Answered, syncVars
<1>2. ASSUME NEW s \in Syncs, AccountStatus(s)
      PROVE  Answered'
  <2>1. PICK report \in Reports(PeriodOf[clock]) : sread' = [sread EXCEPT ![s].report = report]
    BY <1>2 DEF AccountStatus
  <2>2. report # NoReport
    BY AnswersSaySomething
  <2>3. spc' = [spc EXCEPT ![s] = "reading"]
    BY <1>2 DEF AccountStatus
  <2> QED
    BY <1>a, <2>1, <2>2, <2>3 DEF Answered
<1>3. ASSUME NEW s \in Syncs, SyncRead(s)
      PROVE  Answered'
  BY <1>a, <1>3 DEF Answered, SyncRead
<1>4. ASSUME NEW s \in Syncs, SyncWrite(s)
      PROVE  Answered'
  BY <1>a, <1>4 DEF Answered, SyncWrite
<1>5. CASE \E c \in Checks : Step(c) \/ Crash(c)
  BY <1>1, <1>5, OtherSteps
<1>6. CASE Tick \/ UNCHANGED vars
  BY <1>1, <1>6 DEF Tick, vars
<1> QED
  BY <1>2, <1>3, <1>4, <1>5, <1>6 DEF Next

(***************************************************************************)
(* A sync's step leaves a blank row only where the row was blank, and      *)
(* there it leaves the ledger alone.                                       *)
(***************************************************************************)
Blank(p) == prov[p] = NoReport /\ ~lowered[p]

LEMMA SyncsLeaveBlank ==
    ASSUME TypeOK, Answered, NEW s \in Syncs, AccountStatus(s) \/ SyncRead(s) \/ SyncWrite(s)
    PROVE  /\ \A p \in Periods : Blank(p)' => Blank(p) /\ local'[p] = local[p]
           /\ UNCHANGED <<used, checkVars, callAt, month, hour>>
<1>1. UNCHANGED <<used, checkVars, callAt, month, hour>>
  BY DEF AccountStatus, SyncRead, SyncWrite, ledgerVars, ghostVars
<1>2. CASE AccountStatus(s) \/ SyncRead(s)
  BY <1>1, <1>2 DEF AccountStatus, SyncRead, ledgerVars, ghostVars, Blank
<1>3. CASE SyncWrite(s)
  <2>1. PICK p \in Periods : p = sread[s].period
    BY DEF TypeOK, SyncTypeOK
  <2>2. sread[s].report # NoReport
    BY <1>3 DEF SyncWrite, Answered
  <2>3. PICK new : local' = [local EXCEPT ![p] = new]
    BY <1>3, <2>1 DEF SyncWrite
  <2>4. PICK fell : lowered' = [lowered EXCEPT ![p] = fell]
    BY <1>3, <2>1 DEF SyncWrite
  <2>5. prov' = [prov EXCEPT ![p] = sread[s].report]
    BY <1>3, <2>1 DEF SyncWrite
  <2>6. prov'[p] # NoReport
        /\ \A q \in Periods \ {p} : prov'[q] = prov[q] /\ local'[q] = local[q] /\ lowered'[q] = lowered[q]
    BY <2>2, <2>3, <2>4, <2>5 DEF TypeOK, LedgerTypeOK, GhostTypeOK
  <2> QED
    BY <1>1, <2>6 DEF Blank
<1> QED
  BY <1>2, <1>3

(***************************************************************************)
(* On a blank row the three writes are plain additions and subtractions.   *)
(***************************************************************************)
LEMMA BlankWrites ==
    ASSUME TypeOK, Placed, NEW c \in Checks, WritesLedger(c),
           NEW p \in Periods, p = key[Unit(c)].period, prov[p] = NoReport
    PROVE  /\ ReserveMonthly(c) => /\ local'[p] = local[p] + MaxAttempts
                                   /\ local'[p] <= caps[c].monthly
           /\ UndoMonthly(c) => local'[p] = Minus(local[p], MaxAttempts)
           /\ ReturnMonth(c) => local'[p] = Minus(local[p], MaxAttempts - count[c].n)
<1>1. OrZero(prov[p].usage) = 0
  BY DEF NoReport, OrZero
<1>2. local[p] \in Nat /\ MaxAttempts \in Nat /\ MaxAttempts - count[c].n \in Nat
  BY LedgerPlace, LimitsAssumption DEF TypeOK, LedgerTypeOK
<1>3. MaxOf(local[p], 0) = local[p]
  BY <1>2 DEF MaxOf
<1>4. ASSUME NEW n \in Nat
      PROVE  Returned(p, n) = Minus(local[p], n)
  <2>1. Minus(local[p], n) \in Nat
    BY <1>2, HelperTypes
  <2> QED
    BY <1>1, <2>1 DEF Returned, MaxOf
<1>5. ReserveMonthly(c) => MaxOf(local[p], OrZero(prov[p].usage)) + MaxAttempts <= caps[c].monthly
  BY DEF ReserveMonthly, MonthlyFits
<1>6. ReserveMonthly(c) => local'[p] = local[p] + MaxAttempts
  BY <1>1, <1>3, LedgerWrites
<1> QED
  BY <1>1, <1>2, <1>3, <1>4, <1>5, <1>6, LedgerWrites

(***************************************************************************)
(* A unit that has not begun is charged to no month; a step begins at most *)
(* one, and a month once charged to a unit stays so.                       *)
(***************************************************************************)
Unbegun == \A c \in Checks, i \in 1..UnitsPerCheck : Ahead(c, i) => key[<<c, i>>] = NoKey

LEMMA AheadBefore ==
    ASSUME TypeOK, Placed, NEW c \in Checks, Step(c) \/ Crash(c),
           NEW i \in 1..UnitsPerCheck, Ahead(c, i)'
    PROVE  Ahead(c, i) /\ (StartUnit(c) => i # at[c])
<1>a. pc \in [Checks -> PCs] /\ at \in [Checks -> Nat]
  BY DEF TypeOK, CheckTypeOK
<1>1. CASE ReadUsage(c) \/ CountHourly(c) \/ StopUnits(c) \/ Crash(c)
  BY <1>1, <1>a DEF ReadUsage, CountHourly, StopUnits, Crash, StartUnit, Goto, Ahead, Working
<1>2. CASE StartUnit(c)
  BY <1>2, <1>a DEF StartUnit, Goto, Ahead, Working
<1>3. CASE \/ ReadLimits(c) \/ ReserveMonthly(c) \/ ReserveHourly(c) \/ RefuseHourly(c)
           \/ AttemptAgain(c) \/ AttemptEnds(c) \/ ReturnMonth(c) \/ ReturnHour(c)
  <2>1. pc[c] \in Working /\ UNCHANGED at
    BY <1>3 DEF ReadLimits, ReserveMonthly, ReserveHourly, RefuseHourly, AttemptAgain,
       AttemptEnds, ReturnMonth, ReturnHour, Working, checkVars
  <2>2. pc'[c] \in Working
    BY <1>3, <1>a DEF ReadLimits, ReserveMonthly, ReserveHourly, RefuseHourly, AttemptAgain,
       AttemptEnds, ReturnMonth, ReturnHour, Goto, Working, checkVars
  <2> QED
    BY <2>1, <2>2 DEF Ahead, Working, StartUnit
<1>4. CASE RefuseMonthly(c) \/ UndoMonthly(c) \/ InsertRows(c)
  <2>1. pc' = [pc EXCEPT ![c] = "units"] /\ at' = [at EXCEPT ![c] = @ + 1] /\ pc[c] \in Working
    BY <1>4 DEF RefuseMonthly, UndoMonthly, InsertRows, Goto, Working
  <2> QED
    BY <1>a, <2>1 DEF Ahead, Working, StartUnit
<1> QED
  BY <1>1, <1>2, <1>3, <1>4 DEF Step

LEMMA StepKeepsUnbegun ==
    ASSUME TypeOK, Placed, Unbegun, NEW c \in Checks, Step(c) \/ Crash(c)
    PROVE  Unbegun'
<1> SUFFICES ASSUME NEW d \in Checks, NEW i \in 1..UnitsPerCheck, Ahead(d, i)'
             PROVE  key'[<<d, i>>] = NoKey
  BY DEF Unbegun, NoKey
<1>a. <<d, i>> \in Units
  BY DEF Units
<1>1. CASE d # c
  <2>1. Ahead(d, i) /\ <<d, i>> # Unit(c)
    BY <1>1, OthersStay DEF Ahead, Unit
  <2> QED
    BY <1>a, <2>1, OthersStay DEF Unbegun
<1>2. CASE d = c
  <2>1. Ahead(c, i) /\ (StartUnit(c) => <<c, i>> # Unit(c))
    BY <1>2, AheadBefore DEF Unit
  <2> QED
    BY <1>2, <1>a, <2>1, OthersStay DEF Unbegun
<1> QED
  BY <1>1, <1>2

LEMMA NextKeepsUnbegun ==
    ASSUME TypeOK, Placed, Unbegun, [Next]_vars
    PROVE  Unbegun'
<1>1. CASE \E c \in Checks : Step(c) \/ Crash(c)
  BY <1>1, StepKeepsUnbegun
<1>2. CASE (\E s \in Syncs : AccountStatus(s) \/ SyncRead(s) \/ SyncWrite(s)) \/ Tick \/ UNCHANGED vars
  <2>1. UNCHANGED <<pc, at, key>>
    BY <1>2 DEF AccountStatus, SyncRead, SyncWrite, Tick, vars, checkVars
  <2> QED
    BY <2>1 DEF Unbegun, Ahead, NoKey
<1> QED
  BY <1>1, <1>2 DEF Next

LEMMA ChargeStays ==
    ASSUME TypeOK, Placed, Unbegun, NEW c \in Checks, Step(c) \/ Crash(c),
           NEW u \in Units, NEW p \in Periods, key[u].period = p
    PROVE  key'[u].period = p
<1>1. CASE StartUnit(c) /\ u = Unit(c)
  <2>1. PICK d \in Checks, i \in 1..UnitsPerCheck : u = <<d, i>>
    BY DEF Units
  <2>2. d = c /\ i = at[c] /\ pc[c] = "units"
    BY <1>1, <2>1 DEF StartUnit, Unit
  <2>3. key[u] = NoKey
    BY <2>1, <2>2 DEF Unbegun, Ahead
  <2> QED
    BY <2>3, CalendarAssumption DEF NoKey
<1>2. CASE ~(StartUnit(c) /\ u = Unit(c))
  BY <1>2, OthersStay
<1> QED
  BY <1>1, <1>2

(***************************************************************************)
(* The limit an automated check reads leaves the reserve out.              *)
(***************************************************************************)
Automatic == Minus(Budget, Reserve)
Modest == \A c \in Checks \ Manual : caps[c].monthly <= Automatic

LEMMA StepKeepsModest ==
    ASSUME TypeOK, Placed, Modest, NEW c \in Checks, Step(c) \/ Crash(c)
    PROVE  Modest'
<1>a. caps \in [Checks -> [monthly : Nat, hourly : Nat]] /\ Automatic \in Nat
  BY LimitsAssumption, HelperTypes DEF TypeOK, CheckTypeOK, Automatic
<1>1. CASE ReadUsage(c)
  <2>1. PICK h : caps' = [caps EXCEPT ![c] = [monthly |-> 0, hourly |-> h]]
    BY <1>1 DEF ReadUsage
  <2>2. caps'[c].monthly = 0 /\ \A d \in Checks \ {c} : caps'[d] = caps[d]
    BY <1>a, <2>1
  <2> QED
    BY <1>a, <2>2 DEF Modest, Automatic
<1>2. CASE ReadLimits(c)
  <2>1. PICK m, h : /\ caps' = [caps EXCEPT ![c] = [monthly |-> m, hourly |-> h]]
                    /\ m = Capped(MonthlyLimit(c), prov[key[Unit(c)].period].quota)
    BY <1>2 DEF ReadLimits
  <2>2. pc[c] \in Working
    BY <1>2 DEF ReadLimits, Working
  <2>3. prov[key[Unit(c)].period].quota \in MaybeNat
    BY <2>2, WorkingUnit DEF TypeOK, LedgerTypeOK, Report
  <2>4. c \notin Manual => m <= Automatic
    BY <1>a, <2>1, <2>3, HelperTypes DEF MonthlyLimit, Automatic
  <2>5. caps'[c].monthly = m /\ \A d \in Checks \ {c} : caps'[d] = caps[d]
    BY <1>a, <2>1
  <2> QED
    BY <2>4, <2>5 DEF Modest, Automatic
<1>3. CASE caps' = caps
  BY <1>3 DEF Modest, Automatic
<1> QED
  BY <1>1, <1>2, <1>3 DEF Step, Crash, CountHourly, StopUnits, StartUnit, ReserveMonthly,
     RefuseMonthly, ReserveHourly, RefuseHourly, UndoMonthly, AttemptAgain, AttemptEnds,
     ReturnMonth, ReturnHour, InsertRows, checkVars

(***************************************************************************)
(* A month only automation has used: what is added fits the limit that     *)
(* leaves the reserve out, and the rest is given back.                     *)
(***************************************************************************)
LEMMA StepKeepsReserve ==
    ASSUME TypeOK, Placed, Unbegun, Modest, ReserveKept, NEW c \in Checks, Step(c) \/ Crash(c)
    PROVE  ReserveKept'
<1> SUFFICES ASSUME NEW p \in Periods, prov'[p] = NoReport, ~lowered'[p],
                    \A u \in Units : key'[u].period = p => u[1] \notin Manual
             PROVE  local'[p] <= Automatic
  BY DEF ReserveKept, Automatic, NoReport
<1>1. prov[p] = NoReport /\ ~lowered[p]
  BY OtherSteps
<1>2. \A u \in Units : key[u].period = p => u[1] \notin Manual
  BY ChargeStays
<1>3. local[p] <= Automatic /\ local[p] \in Nat /\ local'[p] \in Nat /\ Automatic \in Nat
  BY <1>1, <1>2, StepKeepsTypes, LimitsAssumption, HelperTypes
  DEF ReserveKept, Automatic, TypeOK, LedgerTypeOK
<1>4. CASE ~WritesLedger(c)
  BY <1>3, <1>4, OtherSteps
<1>5. CASE WritesLedger(c) /\ key[Unit(c)].period # p
  <2>1. key[Unit(c)].period \in Periods
    BY <1>5, LedgerPlace
  <2> QED
    BY <1>3, <1>5, <2>1, LedgerWrites
<1>6. CASE WritesLedger(c) /\ key[Unit(c)].period = p
  <2>1. c \notin Manual
    BY <1>2, <1>6, LedgerPlace DEF Unit
  <2>2. caps[c].monthly <= Automatic /\ caps[c].monthly \in Nat
    BY <2>1 DEF Modest, TypeOK, CheckTypeOK
  <2>3. MaxAttempts \in Nat /\ MaxAttempts - count[c].n \in Nat
    BY <1>6, LedgerPlace, LimitsAssumption
  <2>4. \A n \in Nat : Minus(local[p], n) \in Nat /\ Minus(local[p], n) <= local[p]
    BY <1>3, HelperTypes
  <2>5. CASE ReserveMonthly(c)
    BY <1>1, <1>3, <1>6, <2>2, <2>5, BlankWrites
  <2>6. CASE UndoMonthly(c)
    BY <1>1, <1>3, <1>6, <2>3, <2>4, <2>6, BlankWrites
  <2>7. CASE ReturnMonth(c)
    BY <1>1, <1>3, <1>6, <2>3, <2>4, <2>7, BlankWrites
  <2> QED
    BY <1>6, <2>5, <2>6, <2>7 DEF WritesLedger
<1> QED
  BY <1>4, <1>5, <1>6

ReserveInv == Answered /\ Unbegun /\ Modest /\ ReserveKept

LEMMA NextKeepsReserve ==
    ASSUME NeverBlank, TypeOK, Placed, ReserveInv, [Next]_vars
    PROVE  ReserveInv'
<1>1. Answered' /\ Unbegun'
  BY NextKeepsAnswered, NextKeepsUnbegun DEF ReserveInv
<1>2. CASE \E c \in Checks : Step(c) \/ Crash(c)
  BY <1>1, <1>2, StepKeepsModest, StepKeepsReserve DEF ReserveInv
<1>3. CASE \E s \in Syncs : AccountStatus(s) \/ SyncRead(s) \/ SyncWrite(s)
  <2>1. /\ \A p \in Periods : Blank(p)' => Blank(p) /\ local'[p] = local[p]
        /\ UNCHANGED checkVars
    BY <1>3, SyncsLeaveBlank DEF ReserveInv
  <2>2. Modest'
    BY <2>1 DEF ReserveInv, Modest, Automatic, checkVars
  <2>3. ReserveKept'
    BY <2>1 DEF ReserveInv, ReserveKept, Blank, NoReport, checkVars
  <2> QED
    BY <1>1, <2>2, <2>3 DEF ReserveInv
<1>4. CASE Tick \/ UNCHANGED vars
  <2>1. UNCHANGED <<caps, local, prov, lowered, key>>
    BY <1>4 DEF Tick, vars, ledgerVars, checkVars, ghostVars
  <2> QED
    BY <1>1, <2>1 DEF ReserveInv, Modest, Automatic, ReserveKept, NoReport
<1> QED
  BY <1>2, <1>3, <1>4 DEF Next

(***************************************************************************)
(* In a month that only automation has used and no account sync has        *)
(* written, the reserve is whole, however many automated checks race; so   *)
(* a deliberate check finds it.  A blank answer of the account endpoint    *)
(* may hide that a sync raised the ledger: none is given here.             *)
(***************************************************************************)
THEOREM ReserveIsKept ==
    ASSUME NeverBlank
    PROVE  Spec => []ReserveKept
<1>1. Init => ReserveInv
  <2> SUFFICES ASSUME Init PROVE ReserveInv
    OBVIOUS
  <2>1. Automatic \in Nat
    BY LimitsAssumption, HelperTypes DEF Automatic
  <2>2. Answered /\ Modest
    BY <2>1 DEF Init, Answered, Modest, Automatic
  <2>3. Unbegun
    BY DEF Init, Unbegun, Units
  <2>4. ReserveKept
    BY <2>1 DEF Init, ReserveKept, Automatic
  <2> QED
    BY <2>2, <2>3, <2>4 DEF ReserveInv
<1>2. TypeOK /\ Placed /\ ReserveInv /\ [Next]_vars => ReserveInv'
  BY NextKeepsReserve
<1>3. ReserveInv => ReserveKept
  BY DEF ReserveInv
<1> QED
  BY <1>1, <1>2, <1>3, TypeInvariant, PTL DEF Spec

(***************************************************************************)
(* Where every answer says something, the blank rows and the buckets are   *)
(* exactly what the checks hold: a return never finds less than it gives   *)
(* back.                                                                   *)
(***************************************************************************)
LedgerExact == \A p \in Periods : Blank(p) => local[p] = Cardinality(ChargedTo(p))
BucketExact == \A h \in Hours : used[h] = Cardinality(ChargedIn(h))

LEMMA MonthlyStepsExact ==
    ASSUME TypeOK, TypeOK', Placed, Reserved, LedgerExact, BucketExact,
           NEW c \in Checks, WritesLedger(c)
    PROVE  LedgerExact' /\ BucketExact'
<1>a. PICK u \in Units : u = Unit(c)
  BY LedgerPlace
<1>b. PICK p \in Periods : p = key[u].period
  BY <1>a, LedgerPlace
<1>c. month \in Counts /\ month' \in Counts
  BY DEF TypeOK, GhostTypeOK, Counts
<1>d. UNCHANGED <<key, used, hour, prov, lowered>>
  BY DEF WritesLedger, ReserveMonthly, UndoMonthly, ReturnMonth
<1>e. \A v \in Units \ {u} : month'[v] = month[v]
  BY <1>a, OthersStay DEF WritesLedger, Step
<1>f. MaxAttempts \in Nat \ {0} /\ count[c].n \in 0..MaxAttempts /\ MaxAttempts - count[c].n \in Nat
  BY LedgerPlace, LimitsAssumption DEF TypeOK, CheckTypeOK
<1>g. month[u] \in Nat /\ month'[u] \in Nat /\ local[p] \in Nat
  BY <1>c, <1>f DEF Counts, TypeOK, LedgerTypeOK
<1>h. Cardinality(ChargedTo(p)) \in Nat /\ Cardinality(ChargedTo(p)') \in Nat
  <2>1. ChargedTo(p)' = Held(month', UnitsOf(p))
    BY <1>d DEF ChargedTo, UnitsOf, Held
  <2> QED
    BY <2>1, HeldFinite DEF ChargedTo
<1>i. Stage(c)
  BY DEF Reserved, Mine
<1>1. /\ \A q : q # p => ChargedTo(q)' = ChargedTo(q)
      /\ Cardinality(ChargedTo(p)') = Cardinality(ChargedTo(p)) + (month'[u] - month[u])
  BY <1>b, <1>c, <1>d, <1>e, MonthCharge
<1>2. BucketExact'
  <2>1. \A h \in Hours : ChargedIn(h)' = ChargedIn(h)
    BY <1>d DEF ChargedIn, UnitsIn, Held
  <2> QED
    BY <1>d, <2>1 DEF BucketExact
<1>3. \A q \in Periods \ {p} : local'[q] = local[q]
  BY <1>a, <1>b, LedgerWrites
<1>4. ASSUME Blank(p)
      PROVE  local'[p] = Cardinality(ChargedTo(p)')
  <2>1. local[p] = Cardinality(ChargedTo(p)) /\ prov[p] = NoReport
    BY <1>4 DEF LedgerExact, Blank
  <2>2. CASE ReserveMonthly(c)
    <3>1. month[u] = 0 /\ month'[u] = MaxAttempts
      BY <2>2, <1>a, <1>c, <1>i DEF ReserveMonthly, Stage, Fresh, Counts
    <3>2. local'[p] = local[p] + MaxAttempts
      BY <1>a, <1>b, <2>1, <2>2, BlankWrites
    <3> QED
      BY <1>1, <1>f, <1>h, <2>1, <3>1, <3>2
  <2>3. CASE UndoMonthly(c)
    <3>1. month[u] = MaxAttempts /\ month'[u] = 0
      BY <2>3, <1>a, <1>c, <1>i DEF UndoMonthly, Stage, Counts
    <3>2. local'[p] = Minus(local[p], MaxAttempts)
      BY <1>a, <1>b, <2>1, <2>3, BlankWrites
    <3> QED
      BY <1>1, <1>f, <1>g, <1>h, <2>1, <3>1, <3>2 DEF Minus
  <2>4. CASE ReturnMonth(c)
    <3>1. month[u] = MaxAttempts /\ month'[u] = count[c].n
      BY <2>4, <1>a, <1>c, <1>i DEF ReturnMonth, Stage, Counts
    <3>2. local'[p] = Minus(local[p], MaxAttempts - count[c].n)
      BY <1>a, <1>b, <2>1, <2>4, BlankWrites
    <3> QED
      BY <1>1, <1>f, <1>g, <1>h, <2>1, <3>1, <3>2 DEF Minus
  <2> QED
    BY <2>2, <2>3, <2>4 DEF WritesLedger
<1>5. LedgerExact'
  BY <1>1, <1>3, <1>4, <1>d DEF LedgerExact, Blank, NoReport
<1> QED
  BY <1>2, <1>5

LEMMA HourlyStepsExact ==
    ASSUME TypeOK, TypeOK', Placed, Reserved, LedgerExact, BucketExact,
           NEW c \in Checks, ReserveHourly(c) \/ ReturnHour(c)
    PROVE  LedgerExact' /\ BucketExact'
<1>a. pc[c] \in Working
  BY DEF ReserveHourly, ReturnHour, Working
<1>b. PICK u \in Units : u = Unit(c)
  BY <1>a, WorkingUnit
<1>c. PICK h \in Hours : h = key[u].hour
  BY <1>a, <1>b, WorkingUnit
<1>d. hour \in Counts /\ hour' \in Counts
  BY DEF TypeOK, GhostTypeOK, Counts
<1>e. UNCHANGED <<key, local, prov, month, lowered>>
  BY DEF ReserveHourly, ReturnHour
<1>f. \A v \in Units \ {u} : hour'[v] = hour[v]
  BY <1>b, OthersStay DEF Step
<1>g. \A q \in Hours \ {h} : used'[q] = used[q]
  BY <1>b, <1>c DEF ReserveHourly, ReturnHour, TypeOK, LedgerTypeOK
<1>h. MaxAttempts \in Nat \ {0} /\ count[c].n \in 0..MaxAttempts
  BY LimitsAssumption DEF TypeOK, CheckTypeOK
<1>i. used[h] \in Nat /\ used[h] = Cardinality(ChargedIn(h))
  BY DEF TypeOK, LedgerTypeOK, BucketExact
<1>j. Cardinality(ChargedIn(h)') \in Nat
  <2>1. ChargedIn(h)' = Held(hour', UnitsIn(h))
    BY <1>e DEF ChargedIn, UnitsIn, Held
  <2> QED
    BY <2>1, HeldFinite
<1>k. Stage(c)
  BY DEF Reserved, Mine
<1>1. /\ \A q : q # h => ChargedIn(q)' = ChargedIn(q)
      /\ Cardinality(ChargedIn(h)') = Cardinality(ChargedIn(h)) + (hour'[u] - hour[u])
  BY <1>c, <1>d, <1>e, <1>f, HourCharge
<1>2. LedgerExact'
  <2>1. \A q \in Periods : ChargedTo(q)' = ChargedTo(q)
    BY <1>e DEF ChargedTo, UnitsOf, Held
  <2> QED
    BY <1>e, <2>1 DEF LedgerExact, Blank, NoReport
<1>3. CASE ReserveHourly(c)
  <2>1. used'[h] = used[h] + MaxAttempts
    BY <1>3, <1>b, <1>c DEF ReserveHourly, TypeOK, LedgerTypeOK
  <2>2. hour[u] = 0 /\ hour'[u] = MaxAttempts
    BY <1>3, <1>b, <1>d, <1>k DEF ReserveHourly, Stage, Counts
  <2>3. used'[h] = Cardinality(ChargedIn(h)')
    BY <1>1, <1>h, <1>i, <2>1, <2>2
  <2> QED
    BY <1>1, <1>2, <1>g, <2>3 DEF BucketExact
<1>4. CASE ReturnHour(c)
  <2>1. used'[h] = Minus(used[h], MaxAttempts - count[c].n)
    BY <1>4, <1>b, <1>c DEF ReturnHour, TypeOK, LedgerTypeOK
  <2>2. hour[u] = MaxAttempts /\ hour'[u] = count[c].n
    BY <1>4, <1>b, <1>d, <1>k DEF ReturnHour, Stage, Counts
  <2>3. used'[h] = Cardinality(ChargedIn(h)')
    BY <1>1, <1>h, <1>i, <1>j, <2>1, <2>2 DEF Minus
  <2> QED
    BY <1>1, <1>2, <1>g, <2>3 DEF BucketExact
<1> QED
  BY <1>3, <1>4

LEMMA SteadyKeepsExact ==
    ASSUME LedgerExact, BucketExact, LedgerSteady, UNCHANGED prov
    PROVE  LedgerExact' /\ BucketExact'
BY DEF LedgerExact, BucketExact, LedgerSteady, Blank, NoReport

LEMMA NextKeepsExact ==
    ASSUME TypeOK, TypeOK', Placed, Reserved, Answered, LedgerExact, BucketExact, [Next]_vars
    PROVE  LedgerExact' /\ BucketExact'
<1>1. ASSUME NEW c \in Checks, Step(c) \/ Crash(c)
      PROVE  LedgerExact' /\ BucketExact'
  <2>1. CASE WritesLedger(c)
    BY <2>1, MonthlyStepsExact
  <2>2. CASE ReserveHourly(c) \/ ReturnHour(c)
    BY <2>2, HourlyStepsExact
  <2>3. CASE \/ ReadUsage(c) \/ CountHourly(c) \/ StopUnits(c) \/ StartUnit(c)
             \/ ReadLimits(c) \/ RefuseMonthly(c) \/ RefuseHourly(c) \/ InsertRows(c)
             \/ AttemptAgain(c) \/ AttemptEnds(c) \/ Crash(c)
    BY <1>1, <2>3, QuietSteps, OtherSteps, SteadyKeepsExact
  <2> QED
    BY <1>1, <2>1, <2>2, <2>3 DEF Step, WritesLedger
<1>2. ASSUME NEW s \in Syncs, AccountStatus(s) \/ SyncRead(s) \/ SyncWrite(s)
      PROVE  LedgerExact' /\ BucketExact'
  <2>1. /\ \A p \in Periods : Blank(p)' => Blank(p) /\ local'[p] = local[p]
        /\ UNCHANGED <<used, key, month, hour>>
    BY <1>2, SyncsLeaveBlank DEF checkVars
  <2>2. /\ \A p \in Periods : ChargedTo(p)' = ChargedTo(p)
        /\ \A h \in Hours : ChargedIn(h)' = ChargedIn(h)
    BY <2>1 DEF ChargedTo, ChargedIn, UnitsOf, UnitsIn, Held
  <2> QED
    BY <2>1, <2>2 DEF LedgerExact, BucketExact
<1>3. CASE Tick \/ UNCHANGED vars
  <2>1. UNCHANGED <<local, prov, used, lowered, key, month, hour>>
    BY <1>3 DEF Tick, vars, ledgerVars, checkVars, ghostVars
  <2> QED
    BY <2>1, SameCharges, SteadyKeepsExact
<1> QED
  BY <1>1, <1>2, <1>3 DEF Next

(***************************************************************************)
(* What a check that was not killed leaves behind, unit by unit: exactly   *)
(* the capacity its calls used.  The unit it is at follows as it closes.   *)
(***************************************************************************)
Settled(u) == month[u] = Len(callAt[u]) /\ hour[u] = Len(callAt[u])

Closing(c) ==
    LET u == Unit(c) IN
    /\ pc[c] \in {"returnMonth", "returnHour", "log"} => Len(callAt[u]) = count[c].n
    /\ pc[c] \in {"returnHour", "log"} => month[u] = count[c].n
    /\ pc[c] = "log" => hour[u] = count[c].n

Elsewhere(c) == {i \in 1..UnitsPerCheck : pc[c] \in Working => i # at[c]}
Tidy(c) == pc[c] # "crashed" => Closing(c) /\ \A i \in Elsewhere(c) : Settled(<<c, i>>)
AllTidy == \A c \in Exact : Tidy(c)

LEMMA OthersTidy ==
    ASSUME TypeOK, Placed, AllTidy, NEW c \in Checks, Step(c) \/ Crash(c), NEW d \in Exact, d # c
    PROVE  Tidy(d)'
<1>1. d \in Checks /\ pc'[d] = pc[d] /\ at'[d] = at[d] /\ count'[d] = count[d]
  BY OthersStay DEF Exact
<1>2. \A i \in 1..UnitsPerCheck : /\ month'[<<d, i>>] = month[<<d, i>>]
                                  /\ hour'[<<d, i>>] = hour[<<d, i>>]
                                  /\ callAt'[<<d, i>>] = callAt[<<d, i>>]
  BY <1>1, OthersStay DEF Units, Unit
<1>3. pc[d] \in Working => at[d] \in 1..UnitsPerCheck
  BY <1>1 DEF Placed
<1>4. Tidy(d)
  BY DEF AllTidy
<1>5. Elsewhere(d)' = Elsewhere(d)
  BY <1>1 DEF Elsewhere
<1>6. pc[d] # "crashed" => \A i \in Elsewhere(d) : Settled(<<d, i>>)'
  BY <1>2, <1>4 DEF Tidy, Settled, Elsewhere
<1>7. pc[d] # "crashed" => Closing(d)'
  <2>1. CASE pc[d] \in Working
    BY <1>1, <1>2, <1>3, <1>4, <2>1 DEF Tidy, Closing, Unit
  <2>2. CASE pc[d] \notin Working
    BY <1>1, <2>2 DEF Closing, Working
  <2> QED
    BY <2>1, <2>2
<1> QED
  BY <1>1, <1>5, <1>6, <1>7 DEF Tidy

LEMMA OwnTidy ==
    ASSUME TypeOK, Placed, Reserved, NEW c \in Exact, Tidy(c), Step(c) \/ Crash(c)
    PROVE  Tidy(c)'
<1> DEFINE u == Unit(c)
           Left == month'[u] = Len(callAt'[u]) /\ hour'[u] = Len(callAt'[u])
<1>a. pc \in [Checks -> PCs] /\ at \in [Checks -> Nat] /\ c \in Checks
  BY DEF TypeOK, CheckTypeOK, Exact
<1>b. /\ month \in [Units -> 0..MaxAttempts] /\ hour \in [Units -> 0..MaxAttempts]
      /\ callAt \in [Units -> Seq(Ticks)]
      /\ count \in [Checks -> [n : 0..MaxAttempts, when : Ticks]]
  BY DEF TypeOK, GhostTypeOK, CheckTypeOK
<1>c. pc[c] \in Working => u \in Units /\ at[c] \in 1..UnitsPerCheck /\ u = <<c, at[c]>>
  BY <1>a, WorkingUnit DEF Unit
<1>d. Mine(c) /\ Stage(c)
  BY <1>a DEF Reserved, Mine
<1>e. \A i \in 1..UnitsPerCheck : <<c, i>> \in Units
  BY <1>a DEF Units
<1>f. MaxAttempts \in Nat \ {0}
  BY LimitsAssumption
<1>1. \A i \in 1..UnitsPerCheck : <<c, i>> # u =>
         /\ month'[<<c, i>>] = month[<<c, i>>]
         /\ hour'[<<c, i>>] = hour[<<c, i>>]
         /\ callAt'[<<c, i>>] = callAt[<<c, i>>]
  BY <1>a, <1>e, OthersStay
\* Between two steps of a unit only that unit changes.
<1>2. ASSUME pc[c] \in Working, pc'[c] \in Working, at'[c] = at[c], Closing(c)'
      PROVE  Tidy(c)'
  <2>1. Elsewhere(c)' = Elsewhere(c) /\ pc[c] # "crashed"
    BY <1>2 DEF Elsewhere, Working
  <2>2. \A i \in Elsewhere(c) : <<c, i>> # u
    BY <1>2, <1>c DEF Elsewhere
  <2>3. \A i \in Elsewhere(c) : Settled(<<c, i>>)'
    BY <2>1, <2>2, <1>1 DEF Tidy, Settled, Elsewhere
  <2> QED
    BY <1>2, <2>1, <2>3 DEF Tidy
\* A unit that is left is settled.
<1>3. ASSUME pc[c] \in Working, pc'[c] = "units", Left
      PROVE  Tidy(c)'
  <2>1. \A i \in 1..UnitsPerCheck : i # at[c] => Settled(<<c, i>>)'
    BY <1>3, <1>1, <1>c DEF Tidy, Settled, Elsewhere, Working
  <2>2. \A i \in 1..UnitsPerCheck : i = at[c] => Settled(<<c, i>>)'
    BY <1>3, <1>c DEF Settled
  <2>3. \A i \in 1..UnitsPerCheck : Settled(<<c, i>>)'
    BY <2>1, <2>2
  <2>4. Closing(c)'
    BY <1>3 DEF Closing
  <2> QED
    BY <2>3, <2>4 DEF Tidy, Elsewhere
<1>4. CASE ReadUsage(c) \/ CountHourly(c) \/ StopUnits(c)
  <2>1. pc[c] \in {"start", "counting", "units"} /\ pc'[c] \in {"counting", "units", "done"}
    BY <1>4, <1>a DEF ReadUsage, CountHourly, StopUnits, Goto
  <2>2. UNCHANGED <<month, hour, callAt>>
    BY <1>4 DEF ReadUsage, CountHourly, StopUnits, ghostVars
  <2>3. Elsewhere(c) = 1..UnitsPerCheck /\ Elsewhere(c)' = 1..UnitsPerCheck
    BY <2>1 DEF Elsewhere, Working
  <2> QED
    BY <2>1, <2>2, <2>3 DEF Tidy, Closing, Settled
<1>5. CASE Crash(c)
  BY <1>5, <1>a DEF Crash, Goto, Tidy
<1>6. CASE StartUnit(c)
  <2>1. pc[c] = "units" /\ pc'[c] = "limits"
    BY <1>6, <1>a DEF StartUnit, Goto
  <2>2. UNCHANGED <<month, hour, callAt>>
    BY <1>6 DEF StartUnit, ghostVars
  <2>3. Elsewhere(c) = 1..UnitsPerCheck /\ Elsewhere(c)' \subseteq 1..UnitsPerCheck
    BY <2>1 DEF Elsewhere, Working
  <2> QED
    BY <2>1, <2>2, <2>3 DEF Tidy, Closing, Settled
<1>7. CASE ReadLimits(c) \/ ReserveMonthly(c) \/ ReserveHourly(c) \/ RefuseHourly(c) \/ AttemptAgain(c)
  <2>1. pc[c] \in Working /\ UNCHANGED at
    BY <1>7 DEF ReadLimits, ReserveMonthly, ReserveHourly, RefuseHourly, AttemptAgain,
       Working, checkVars
  <2>2. pc'[c] \in {"monthly", "hourly", "calling", "undo"}
    BY <1>7, <1>a DEF ReadLimits, ReserveMonthly, ReserveHourly, RefuseHourly, AttemptAgain,
       Goto, checkVars
  <2>3. Closing(c)'
    BY <2>2 DEF Closing
  <2> QED
    BY <1>2, <2>1, <2>2, <2>3 DEF Working
<1>8. CASE AttemptEnds(c)
  <2>1. /\ pc[c] = "calling" /\ at' = at /\ u \in Units
        /\ month'[u] = month[u] /\ hour'[u] = hour[u]
        /\ callAt'[u] = Append(callAt[u], clock)
    BY <1>8, <1>a, <1>b, <1>c DEF AttemptEnds, Request, Working
  <2>2. Len(callAt'[u]) = Len(callAt[u]) + 1 /\ Len(callAt[u]) \in Nat
    BY <1>b, <2>1
  <2>3. PICK n \in Reported(c) :
            /\ count' = [count EXCEPT ![c] = [n |-> n, when |-> clock]]
            /\ pc' = [pc EXCEPT ![c] = IF n < MaxAttempts THEN "returnMonth" ELSE "log"]
    BY <1>8 DEF AttemptEnds, Goto
  <2>4. n = Len(callAt[u]) + 1 /\ n <= MaxAttempts
    BY <1>8, <1>f, <2>2 DEF AttemptEnds, Reported, Exact, Made
  <2>5. count'[c].n = n /\ pc'[c] = IF n < MaxAttempts THEN "returnMonth" ELSE "log"
    BY <1>a, <1>b, <2>3
  <2>6. month[u] = MaxAttempts /\ hour[u] = MaxAttempts
    BY <1>d, <2>1 DEF Stage
  <2>7. Unit(c)' = u
    BY <2>1 DEF Unit
  <2>8. Closing(c)'
    BY <1>f, <2>1, <2>2, <2>4, <2>5, <2>6, <2>7 DEF Closing
  <2> QED
    BY <1>2, <2>1, <2>5, <2>8 DEF Working
<1>9. CASE ReturnMonth(c)
  <2>1. /\ pc[c] = "returnMonth" /\ pc'[c] = "returnHour" /\ at' = at /\ count' = count
        /\ month'[u] = count[c].n /\ callAt'[u] = callAt[u]
    BY <1>9, <1>a, <1>b, <1>c DEF ReturnMonth, Goto, Working
  <2>2. Closing(c)'
    BY <2>1 DEF Tidy, Closing, Unit
  <2> QED
    BY <1>2, <2>1, <2>2 DEF Working
<1>10. CASE ReturnHour(c)
  <2>1. /\ pc[c] = "returnHour" /\ pc'[c] = "log" /\ at' = at /\ count' = count
        /\ hour'[u] = count[c].n /\ month'[u] = month[u] /\ callAt'[u] = callAt[u]
    BY <1>10, <1>a, <1>b, <1>c DEF ReturnHour, Goto, Working
  <2>2. Closing(c)'
    BY <2>1 DEF Tidy, Closing, Unit
  <2> QED
    BY <1>2, <2>1, <2>2 DEF Working
<1>11. CASE RefuseMonthly(c)
  <2>1. pc[c] = "monthly" /\ pc'[c] = "units" /\ UNCHANGED <<month, hour, callAt>>
    BY <1>11, <1>a DEF RefuseMonthly, Goto, ghostVars
  <2>2. Left
    BY <1>d, <2>1 DEF Stage, Fresh, Settled
  <2> QED
    BY <1>3, <2>1, <2>2 DEF Working
<1>12. CASE UndoMonthly(c)
  <2>1. /\ pc[c] = "undo" /\ pc'[c] = "units"
        /\ month'[u] = 0 /\ hour'[u] = hour[u] /\ callAt'[u] = callAt[u]
    BY <1>12, <1>a, <1>b, <1>c DEF UndoMonthly, Goto, Working
  <2>2. Left
    BY <1>d, <2>1 DEF Stage, Settled
  <2> QED
    BY <1>3, <2>1, <2>2 DEF Working
<1>13. CASE InsertRows(c)
  <2>1. pc[c] = "log" /\ pc'[c] = "units" /\ UNCHANGED <<month, hour, callAt>>
    BY <1>13, <1>a DEF InsertRows, Goto, ghostVars
  <2>2. Left
    BY <2>1 DEF Tidy, Closing, Settled
  <2> QED
    BY <1>3, <2>1, <2>2 DEF Working
<1> QED
  BY <1>4, <1>5, <1>6, <1>7, <1>8, <1>9, <1>10, <1>11, <1>12, <1>13 DEF Step

LEMMA NextKeepsTidy ==
    ASSUME TypeOK, Placed, Reserved, AllTidy, [Next]_vars
    PROVE  AllTidy'
<1>1. ASSUME NEW c \in Checks, Step(c) \/ Crash(c)
      PROVE  AllTidy'
  <2>1. ASSUME NEW d \in Exact
        PROVE  Tidy(d)'
    BY <1>1, <2>1, OthersTidy, OwnTidy DEF AllTidy
  <2> QED
    BY <2>1 DEF AllTidy, Exact
<1>2. CASE (\E s \in Syncs : AccountStatus(s) \/ SyncRead(s) \/ SyncWrite(s)) \/ Tick \/ UNCHANGED vars
  <2>1. UNCHANGED <<pc, at, count, month, hour, callAt>>
    BY <1>2 DEF AccountStatus, SyncRead, SyncWrite, Tick, vars, checkVars, ghostVars
  <2> QED
    BY <2>1 DEF AllTidy, Tidy, Closing, Settled, Elsewhere, Unit, Exact
<1> QED
  BY <1>1, <1>2 DEF Next

ExactInv == TypeOK /\ Placed /\ Reserved /\ Answered /\ LedgerExact /\ BucketExact /\ AllTidy

LEMMA ExactInvariant ==
    ASSUME NeverBlank
    PROVE  Spec => []ExactInv
<1>1. Init => Answered /\ LedgerExact /\ BucketExact /\ AllTidy
  <2> SUFFICES ASSUME Init PROVE Answered /\ LedgerExact /\ BucketExact /\ AllTidy
    OBVIOUS
  <2>1. Answered
    BY DEF Init, Answered
  <2>2. LedgerExact /\ BucketExact
    BY NothingHeld DEF Init, LedgerExact, BucketExact
  <2>3. \A c \in Checks, i \in 1..UnitsPerCheck : Settled(<<c, i>>)
    BY DEF Init, Settled, Units
  <2>4. AllTidy
    BY <2>3 DEF Init, AllTidy, Tidy, Closing, Elsewhere, Exact
  <2> QED
    BY <2>1, <2>2, <2>4
<1>2. Init => ExactInv
  BY <1>1, InitTypeOK, InitReserved DEF ExactInv, Init, Placed, Working
<1>3. ExactInv /\ [Next]_vars => ExactInv'
  BY NextKeepsTypes, NextKeepsReserved, NextKeepsAnswered, NextKeepsExact, NextKeepsTidy
  DEF ExactInv
<1> QED
  BY <1>2, <1>3, PTL DEF Spec

(***************************************************************************)
(* Once every check has ended and none was killed, the ledger of a month   *)
(* no sync has written is exactly the calls made in it, and so is every    *)
(* hour's bucket: nothing is lost, nothing is returned twice.              *)
(***************************************************************************)
THEOREM SettledIsExact ==
    ASSUME NeverBlank
    PROVE  Spec => []SettledLedgerIsExact
<1>1. ASSUME ExactInv PROVE SettledLedgerIsExact
  <2> SUFFICES ASSUME \A c \in Checks : pc[c] = "done", Flexible = {}
               PROVE  /\ \A p \in Periods : prov[p] = NoReport /\ ~lowered[p]
                                  => local[p] = Cardinality(CallsOf(Checks, p))
                      /\ \A h \in Hours : used[h] = Cardinality(CallsInHour(Checks, h))
    BY DEF SettledLedgerIsExact
  <2>1. \A c \in Checks, i \in 1..UnitsPerCheck : Settled(<<c, i>>)
    BY <1>1 DEF ExactInv, AllTidy, Tidy, Elsewhere, Working, Exact
  <2>2. \A u \in Units : u[1] \in Checks /\ month[u] = Calls[u] /\ hour[u] = Calls[u]
    BY <2>1 DEF Units, Settled, Calls
  <2>3. \A p \in Periods : CallsOf(Checks, p) = ChargedTo(p)
    BY <2>2 DEF CallsOf, ChargedTo, Held, OfChecks, Attempts
  <2>4. \A h \in Hours : CallsInHour(Checks, h) = ChargedIn(h)
    BY <2>2 DEF CallsInHour, ChargedIn, Held, OfChecks, Attempts
  <2> QED
    BY <1>1, <2>3, <2>4 DEF ExactInv, LedgerExact, BucketExact, Blank
<1> QED
  BY <1>1, ExactInvariant, PTL

(***************************************************************************)
(* The refinement.  Without an account sync every row is blank, and where  *)
(* no search is flexible the calls of a month fit what the ledger grants.  *)
(***************************************************************************)
Spent == [p \in Periods |-> Cardinality(CallsOf(Checks, p))]
AllBlank == \A p \in Periods : Blank(p)
CallsFit == /\ Calls \in Counts
            /\ \A p \in Periods : Spent[p] \in Nat /\ local[p] \in Nat /\ Spent[p] <= local[p]

LEMMA NextKeepsBlank ==
    ASSUME Syncs = {}, AllBlank, [Next]_vars
    PROVE  AllBlank'
<1>1. CASE \E c \in Checks : Step(c) \/ Crash(c)
  BY <1>1, OtherSteps DEF AllBlank, Blank, NoReport
<1>2. CASE Tick \/ UNCHANGED vars
  BY <1>2 DEF AllBlank, Blank, NoReport, Tick, vars, ledgerVars, ghostVars
<1> QED
  BY <1>1, <1>2 DEF Next

LEMMA GrantsCoverCalls ==
    ASSUME Flexible = {}
    PROVE  ExactInv /\ AllBlank => CallsFit
<1> SUFFICES ASSUME ExactInv, AllBlank PROVE CallsFit
  OBVIOUS
<1>1. ASSUME NEW u \in Units
      PROVE  Calls[u] = Len(callAt[u]) /\ Calls[u] \in 0..MaxAttempts /\ Calls[u] <= month[u]
  <2>1. PICK c \in Checks, i \in 1..UnitsPerCheck : u = <<c, i>>
    BY DEF Units
  <2>2. Backed(u)
    BY <2>1 DEF ExactInv, Reserved, Mine, Exact
  <2>3. Len(callAt[u]) \in Nat /\ month[u] \in 0..MaxAttempts /\ MaxAttempts \in Nat
    BY LimitsAssumption DEF ExactInv, TypeOK, GhostTypeOK
  <2> QED
    BY <2>2, <2>3 DEF Backed, Calls
<1>2. Calls \in Counts
  BY <1>1 DEF Counts, Calls
<1>3. ASSUME NEW p \in Periods
      PROVE  Spent[p] \in Nat /\ local[p] \in Nat /\ Spent[p] <= local[p]
  <2>1. CallsOf(Checks, p) \subseteq ChargedTo(p)
    <3> SUFFICES ASSUME NEW x \in Attempts, x[2] <= Calls[x[1]]
                 PROVE  x[2] <= month[x[1]]
      BY DEF CallsOf, ChargedTo, Held
    <3>1. x[1] \in Units /\ x[2] \in Nat /\ month[x[1]] \in Nat
      BY LimitsAssumption DEF Attempts, ExactInv, TypeOK, GhostTypeOK
    <3>2. Calls[x[1]] \in Nat /\ Calls[x[1]] <= month[x[1]]
      BY <1>1, <3>1, LimitsAssumption
    <3> QED
      BY <3>1, <3>2
  <2>2. /\ Cardinality(CallsOf(Checks, p)) <= Cardinality(ChargedTo(p))
        /\ Cardinality(CallsOf(Checks, p)) \in Nat
    BY <2>1, HeldFinite, FS_Subset DEF CallsOf, ChargedTo
  <2>3. local[p] = Cardinality(ChargedTo(p)) /\ local[p] \in Nat
    BY DEF ExactInv, LedgerExact, AllBlank, TypeOK, LedgerTypeOK
  <2> QED
    BY <2>2, <2>3 DEF Spent
<1> QED
  BY <1>2, <1>3 DEF CallsFit

(***************************************************************************)
(* A request is a Spend; no other step of a check changes what is spent.   *)
(***************************************************************************)
LEMMA RequestsSpend ==
    ASSUME TypeOK, TypeOK', Placed, CallsFit, CallsFit', NEW c \in Checks,
           AttemptAgain(c) \/ AttemptEnds(c)
    PROVE  Allowance!Next
<1>a. pc[c] \in Working
  BY DEF AttemptAgain, AttemptEnds, Working
<1>b. PICK u \in Units : u = Unit(c)
  BY <1>a, WorkingUnit
<1>c. PICK p \in Periods : p = key[u].period
  BY <1>a, <1>b, WorkingUnit
<1>d. UNCHANGED <<local, key>>
  BY DEF AttemptAgain, AttemptEnds, ledgerVars, checkVars
<1>e. callAt \in [Units -> Seq(Ticks)] /\ callAt' = [callAt EXCEPT ![u] = Append(callAt[u], clock)]
  BY <1>b DEF AttemptAgain, AttemptEnds, Request, TypeOK, GhostTypeOK
<1>f. Len(callAt'[u]) = Len(callAt[u]) + 1
  BY <1>e DEF TypeOK
<1>g. Calls \in Counts /\ Calls' \in Counts
  BY DEF CallsFit
<1>h. \A v \in Units \ {u} : Calls'[v] = Calls[v]
  BY <1>e DEF Calls
<1>i. Calls'[u] = Calls[u] + 1
  BY <1>f DEF Calls
<1> DEFINE Of(q) == UnitsOf(q) \cap OfChecks(Checks)
<1>1. /\ u \in Of(p)
      /\ \A q : Of(q) \in SUBSET Units
      /\ \A q : q # p => u \notin Of(q)
  BY <1>c DEF UnitsOf, OfChecks, Units
<1>2. \A q : /\ CallsOf(Checks, q) = Held(Calls, Of(q))
             /\ CallsOf(Checks, q)' = Held(Calls', Of(q))
  BY <1>d DEF CallsOf, UnitsOf, OfChecks, Held, Calls
<1> HIDE DEF Of
<1>3. Cardinality(Held(Calls', Of(p))) = Cardinality(Held(Calls, Of(p))) + (Calls'[u] - Calls[u])
  BY <1>1, <1>g, <1>h, CountsChange
<1>4. \A q : q # p => Held(Calls', Of(q)) = Held(Calls, Of(q))
  BY <1>1, <1>h, HeldElsewhere
<1>5. /\ Spent[p] \in Nat /\ Calls[u] \in Nat /\ local[p] \in Nat
      /\ Spent'[p] <= local'[p]
  BY <1>g, LimitsAssumption DEF CallsFit, Counts
<1>6. Spent'[p] = Spent[p] + 1
  BY <1>2, <1>3, <1>5, <1>i DEF Spent
<1>7. Spent' = [Spent EXCEPT ![p] = Spent[p] + 1]
  <2>1. \A q \in Periods \ {p} : Spent'[q] = Spent[q]
    BY <1>2, <1>4 DEF Spent
  <2> QED
    BY <1>6, <2>1 DEF Spent
<1>8. Spent[p] < local[p]
  BY <1>5, <1>6, <1>d
<1> QED
  BY <1>7, <1>8, <1>d DEF Allowance!Next, Allowance!Spend, Spent

LEMMA OtherStepsSpendNothing ==
    ASSUME TypeOK, Placed, Reserved, NEW c \in Checks, Step(c) \/ Crash(c),
           ~AttemptAgain(c), ~AttemptEnds(c)
    PROVE  Spent' = Spent
<1>1. callAt' = callAt
  BY DEF Step, Crash, ReadUsage, CountHourly, StopUnits, StartUnit, ReadLimits, ReserveMonthly,
     RefuseMonthly, ReserveHourly, RefuseHourly, UndoMonthly, ReturnMonth, ReturnHour,
     InsertRows, ghostVars
<1>2. \A p \in Periods : CallsOf(Checks, p)' = CallsOf(Checks, p)
  <2>1. CASE StartUnit(c)
    <3>1. pc[c] = "units" /\ pc'[c] = "limits" /\ at' = at
      BY <2>1 DEF StartUnit, Goto, TypeOK, CheckTypeOK
    <3>2. at[c] \in 1..UnitsPerCheck
      BY <2>1, <3>1, StepKeepsPlaced DEF Step, Placed, Working
    <3>3. Unit(c) \in Units /\ callAt[Unit(c)] = <<>>
      BY <3>1, <3>2 DEF Ahead, Reserved, Mine, Fresh, Unit, Units
    <3>4. PICK u \in Units : u = Unit(c) /\ Calls[u] = 0
      BY <3>3 DEF Calls
    <3>5. \A x \in Attempts : x[1] = u => ~(x[2] <= Calls[x[1]])
      BY <3>4, LimitsAssumption DEF Attempts
    <3>6. \A x \in Attempts : x[1] # u => key'[x[1]] = key[x[1]]
      BY <3>4, OthersStay DEF Attempts
    <3>7. Calls' = Calls
      BY <1>1 DEF Calls
    <3> QED
      BY <3>5, <3>6, <3>7 DEF CallsOf, Held, UnitsOf, OfChecks
  <2>2. CASE ~StartUnit(c)
    BY <1>1, <2>2, OthersStay DEF CallsOf, Held, UnitsOf, OfChecks, Calls
  <2> QED
    BY <2>1, <2>2
<1> QED
  BY <1>2 DEF Spent

(***************************************************************************)
(* A reservation is a Grant within the budget; what is undone or returned  *)
(* is a Return of what no call used.                                       *)
(***************************************************************************)
LEMMA WritesGrantOrReturn ==
    ASSUME ExactInv, ExactInv', LedgerInv, AllBlank, CallsFit, CallsFit',
           NEW c \in Checks, WritesLedger(c), Spent' = Spent
    PROVE  Allowance!Next \/ UNCHANGED <<local, Spent>>
<1> USE DEF ExactInv
<1>a. PICK u \in Units : u = Unit(c)
  BY LedgerPlace
<1>b. PICK p \in Periods : p = key[u].period
  BY <1>a, LedgerPlace
<1>c. /\ local \in [Periods -> Nat] /\ local' \in [Periods -> Nat]
      /\ local[p] = Cardinality(ChargedTo(p)) /\ local'[p] = Cardinality(ChargedTo(p)')
  <2>1. Blank(p)'
    BY OtherSteps DEF WritesLedger, Step, AllBlank, Blank, NoReport
  <2> QED
    BY <2>1 DEF TypeOK, LedgerTypeOK, LedgerExact, AllBlank
<1>d. \A q \in Periods \ {p} : local'[q] = local[q]
  BY <1>a, <1>b, LedgerWrites
<1>e. /\ MaxAttempts \in Nat \ {0} /\ count[c].n \in 0..MaxAttempts /\ Budget \in Nat
      /\ MaxAttempts - count[c].n \in Nat
  BY LedgerPlace, LimitsAssumption DEF TypeOK, CheckTypeOK
<1>f. month \in Counts /\ month' \in Counts
  BY DEF TypeOK, GhostTypeOK, Counts
<1>g. local[p] \in Nat /\ local'[p] \in Nat /\ month[u] \in Nat /\ month'[u] \in Nat
  BY <1>c, <1>e, <1>f DEF Counts
<1>h. Spent[p] \in Nat /\ Spent[p] <= local'[p]
  BY DEF CallsFit
<1>1. local'[p] = local[p] + (month'[u] - month[u])
  <2>1. UNCHANGED key /\ \A v \in Units \ {u} : month'[v] = month[v]
    BY <1>a, OthersStay DEF WritesLedger, Step, ReserveMonthly, UndoMonthly, ReturnMonth
  <2> QED
    BY <1>b, <1>c, <1>f, <2>1, MonthCharge
<1>2. ASSUME NEW n \in Nat, local'[p] = local[p] - n, local[p] <= Budget
      PROVE  Allowance!Next \/ UNCHANGED <<local, Spent>>
  <2>1. CASE n = 0
    BY <1>2, <1>c, <1>d, <2>1
  <2>2. CASE n # 0
    <3>1. n \in 1..Budget /\ Spent[p] + n <= local[p]
      BY <1>2, <1>e, <1>g, <1>h, <2>2
    <3>2. local' = [local EXCEPT ![p] = local[p] - n]
      BY <1>2, <1>c, <1>d
    <3>3. Allowance!Return(p, n)
      BY <3>1, <3>2 DEF Allowance!Return, Spent
    <3> QED
      BY <3>1, <3>3 DEF Allowance!Next
  <2> QED
    BY <2>1, <2>2
<1>3. Stage(c)
  BY DEF Reserved, Mine
<1>4. prov[p] = NoReport /\ local[p] <= Budget
  BY <1>c DEF AllBlank, Blank, LedgerInv, HeldWithinBudget
<1>5. CASE ReserveMonthly(c)
  <2>1. local'[p] = local[p] + MaxAttempts /\ local'[p] <= caps[c].monthly
    BY <1>4, <1>5, <1>a, <1>b, BlankWrites
  <2>2. caps[c].monthly \in Nat /\ caps[c].monthly <= Budget
    BY DEF LedgerInv, CapsWithin, TypeOK, CheckTypeOK
  <2>3. MaxAttempts \in 1..Budget /\ local[p] + MaxAttempts <= Budget
    BY <1>e, <1>g, <2>1, <2>2
  <2>4. local' = [local EXCEPT ![p] = local[p] + MaxAttempts]
    BY <1>c, <1>d, <2>1
  <2>5. Allowance!Grant(p, MaxAttempts)
    BY <2>3, <2>4 DEF Allowance!Grant, Spent
  <2> QED
    BY <2>3, <2>5 DEF Allowance!Next
<1>6. CASE UndoMonthly(c)
  <2>1. month[u] = MaxAttempts /\ month'[u] = 0
    BY <1>3, <1>6, <1>a, <1>f DEF UndoMonthly, Stage, Counts
  <2> QED
    BY <1>1, <1>2, <1>4, <1>e, <1>g, <2>1
<1>7. CASE ReturnMonth(c)
  <2>1. month[u] = MaxAttempts /\ month'[u] = count[c].n
    BY <1>3, <1>7, <1>a, <1>f DEF ReturnMonth, Stage, Counts
  <2> QED
    BY <1>1, <1>2, <1>4, <1>e, <1>g, <2>1
<1> QED
  BY <1>5, <1>6, <1>7 DEF WritesLedger

(***************************************************************************)
(* Where no account sync races it and no search is flexible, the quota     *)
(* guard is an allowance: it grants at most the budget in a month, calls   *)
(* are made only out of what was granted, and only what was not used is    *)
(* ever returned.                                                          *)
(***************************************************************************)
THEOREM LedgerIsAnAllowance ==
    ASSUME Syncs = {}, Flexible = {}
    PROVE  Spec => ImplementsAllowance
<1>1. Init => AllBlank
  BY DEF Init, AllBlank, Blank
<1>2. AllBlank /\ [Next]_vars => AllBlank'
  BY NextKeepsBlank
<1>3. Spec => []AllBlank
  BY <1>1, <1>2, PTL DEF Spec
<1>4. Spec => [](IInv /\ ExactInv)
  BY Inductive, ExactInvariant, PTL DEF NeverBlank
<1>5. ExactInv /\ AllBlank => CallsFit
  BY GrantsCoverCalls
<1>6. ExactInv' /\ AllBlank' => CallsFit'
  BY <1>5, PTL
<1>7. Init => Allowance!Init
  <2> SUFFICES ASSUME Init PROVE Allowance!Init
    OBVIOUS
  <2>1. \A x \in Attempts : ~(x[2] <= Calls[x[1]])
    <3>1. \A x \in Attempts : x[1] \in Units /\ x[2] \in 1..MaxAttempts
      BY DEF Attempts
    <3>2. \A u \in Units : Calls[u] = 0
      BY DEF Init, Calls
    <3> QED
      BY <3>1, <3>2, LimitsAssumption
  <2>2. \A p \in Periods : CallsOf(Checks, p) = {}
    BY <2>1 DEF CallsOf, Held
  <2>3. \A p \in Periods : Cardinality(CallsOf(Checks, p)) = 0
    BY <2>2, FS_EmptySet
  <2> QED
    BY <2>3 DEF Init, Allowance!Init
<1>8. ASSUME IInv, ExactInv, ExactInv', AllBlank, AllBlank', [Next]_vars
      PROVE  Allowance!Next \/ UNCHANGED <<local, Spent>>
  <2>1. CallsFit /\ CallsFit' /\ LedgerInv
    BY <1>5, <1>6, <1>8 DEF IInv
  <2>2. TypeOK /\ TypeOK' /\ Placed /\ Reserved
    BY <1>8 DEF ExactInv
  <2>3. ASSUME NEW c \in Checks, Step(c) \/ Crash(c)
        PROVE  Allowance!Next \/ UNCHANGED <<local, Spent>>
    <3>1. CASE AttemptAgain(c) \/ AttemptEnds(c)
      BY <2>1, <2>2, <3>1, RequestsSpend
    <3>2. CASE ~AttemptAgain(c) /\ ~AttemptEnds(c)
      <4>1. Spent' = Spent
        BY <2>2, <2>3, <3>2, OtherStepsSpendNothing
      <4>2. CASE WritesLedger(c)
        BY <1>8, <2>1, <4>1, <4>2, WritesGrantOrReturn
      <4>3. CASE ~WritesLedger(c)
        BY <2>3, <4>1, <4>3, OtherSteps
      <4> QED
        BY <4>2, <4>3
    <3> QED
      BY <3>1, <3>2
  <2>4. CASE Tick \/ UNCHANGED vars
    <3>1. UNCHANGED <<local, key, callAt>>
      BY <2>4 DEF Tick, vars, ledgerVars, checkVars, ghostVars
    <3> QED
      BY <3>1 DEF Spent, CallsOf, Held, UnitsOf, OfChecks, Calls
  <2> QED
    BY <1>8, <2>3, <2>4 DEF Next
<1>9. IInv /\ ExactInv /\ ExactInv' /\ AllBlank /\ AllBlank' /\ [Next]_vars
        => [Allowance!Next]_<<local, [p \in Periods |-> Cardinality(CallsOf(Checks, p))]>>
  BY <1>8 DEF Spent
<1> QED
  BY <1>3, <1>4, <1>7, <1>9, PTL DEF Spec, ImplementsAllowance, Allowance!Spec
=============================================================================
