------------------------ MODULE SchedulerTickProofs ------------------------
(***************************************************************************)
(* Proofs about SchedulerTick, for any number of invocations and trackers, *)
(* any budgets, and any number of stalls, deaths, exceptions and lost      *)
(* answers.                                                                *)
(***************************************************************************)
EXTENDS SchedulerTick, FiniteSetTheorems, SequenceTheorems, TLAPS

-----------------------------------------------------------------------------
(* The queue of due trackers.                                              *)

LEMMA RemoveAtShape ==
  ASSUME NEW S, NEW s \in Seq(S), NEW i \in 1..Len(s)
  PROVE  /\ RemoveAt(s, i) \in Seq(S)
         /\ Len(RemoveAt(s, i)) = Len(s) - 1
         /\ \A j \in 1..(Len(s) - 1) : RemoveAt(s, i)[j] = s[IF j < i THEN j ELSE j + 1]
<1> DEFINE a == SubSeq(s, 1, i - 1)
           b == SubSeq(s, i + 1, Len(s))
<1>1. /\ a \in Seq(S) /\ Len(a) = i - 1
      /\ \A j \in 1..(i - 1) : a[j] = s[j]
  BY SubSeqProperties, SMTT(30)
<1>2. /\ b \in Seq(S) /\ Len(b) = Len(s) - i
      /\ \A j \in 1..(Len(s) - i) : b[j] = s[i + j]
  BY SubSeqProperties, SMTT(30)
<1> HIDE DEF a, b
<1>3. RemoveAt(s, i) = a \o b
  BY DEF RemoveAt, a, b
<1>4. /\ a \o b \in Seq(S)
      /\ Len(a \o b) = Len(s) - 1
      /\ \A j \in 1..(Len(s) - 1) : (a \o b)[j] = IF j <= i - 1 THEN a[j] ELSE b[j - (i - 1)]
  <2>1. /\ Len(a \o b) = Len(a) + Len(b)
        /\ \A j \in 1..(Len(a) + Len(b)) : (a \o b)[j] = IF j <= Len(a) THEN a[j] ELSE b[j - Len(a)]
    BY <1>1, <1>2, ConcatProperties
  <2>2. a \o b \in Seq(S)
    BY <1>1, <1>2, ConcatProperties
  <2>3. Len(a) + Len(b) = Len(s) - 1
    BY <1>1, <1>2
  <2> QED
    BY <1>1, <2>1, <2>2, <2>3
<1>5. ASSUME NEW j \in 1..(Len(s) - 1)
      PROVE  (a \o b)[j] = s[IF j < i THEN j ELSE j + 1]
  <2>1. CASE j < i
    <3>1. j \in 1..(i - 1)
      BY <2>1
    <3> QED
      BY <1>1, <1>4, <2>1, <3>1
  <2>2. CASE ~(j < i)
    <3>1. j - (i - 1) \in 1..(Len(s) - i) /\ i + (j - (i - 1)) = j + 1 /\ ~(j <= i - 1)
      BY <2>2
    <3>2. (a \o b)[j] = b[j - (i - 1)]
      BY <1>4, <3>1
    <3>3. b[j - (i - 1)] = s[i + (j - (i - 1))]
      BY <1>2, <3>1
    <3> QED
      BY <2>2, <3>1, <3>2, <3>3
  <2> QED
    BY <2>1, <2>2
<1> QED
  BY <1>3, <1>4, <1>5

LEMMA RemoveAtInjective ==
  ASSUME NEW S, NEW s \in Seq(S), IsInjective(s), NEW i \in 1..Len(s)
  PROVE  IsInjective(RemoveAt(s, i))
<1>1. DOMAIN s = 1..Len(s) /\ DOMAIN RemoveAt(s, i) = 1..(Len(s) - 1)
  BY RemoveAtShape, LenProperties
<1>2. ASSUME NEW j \in 1..(Len(s) - 1), NEW k \in 1..(Len(s) - 1),
             RemoveAt(s, i)[j] = RemoveAt(s, i)[k]
      PROVE  j = k
  <2>1. s[IF j < i THEN j ELSE j + 1] = s[IF k < i THEN k ELSE k + 1]
    BY <1>2, RemoveAtShape
  <2>2. (IF j < i THEN j ELSE j + 1) = (IF k < i THEN k ELSE k + 1)
    BY <2>1, <1>1 DEF IsInjective
  <2> QED
    BY <2>2
<1> QED
  BY <1>1, <1>2 DEF IsInjective

LEMMA AppendInjectiveSeq ==
  ASSUME NEW S, NEW s \in Seq(S), IsInjective(s), NEW e \in S, ~Contains(s, e)
  PROVE  Append(s, e) \in Seq(S) /\ IsInjective(Append(s, e))
<1>1. /\ Append(s, e) \in Seq(S)
      /\ Len(Append(s, e)) = Len(s) + 1
      /\ \A j \in 1..Len(s) : Append(s, e)[j] = s[j]
      /\ Append(s, e)[Len(s) + 1] = e
  BY AppendProperties
<1>2. DOMAIN s = 1..Len(s) /\ DOMAIN Append(s, e) = 1..(Len(s) + 1)
  BY <1>1, LenProperties
<1> QED
  BY <1>1, <1>2 DEF IsInjective, Contains

\* The queue keeps its type when a tracker leaves it.
LEMMA NoLongerDueType ==
  ASSUME line \in Seq(Trackers), IsInjective(line), NEW k, NoLongerDue(k)
  PROVE  line' \in Seq(Trackers) /\ IsInjective(line')
BY RemoveAtShape, RemoveAtInjective DEF NoLongerDue

\* The searches a check may make, in the words of arithmetic.
LEMMA MinOfTwo ==
  ASSUME NEW a \in Int, NEW b \in Int
  PROVE  Min({a, b}) = IF a <= b THEN a ELSE b
<1>1. \E x \in {a, b} : \A y \in {a, b} : x <= y
  OBVIOUS
<1>2. /\ Min({a, b}) \in {a, b}
      /\ \A y \in {a, b} : Min({a, b}) <= y
  BY <1>1 DEF Min
<1> QED
  BY <1>2

-----------------------------------------------------------------------------
(* Types, and what the places in the code promise.                         *)

OnTracker == {"renew", "beat", "search", "finalize", "release"}
Checking == OnTracker \cup {"lock"}

\* A tick that works on a tracker has one; who checks has something to spend,
\* and who searches has searches left.
Fit(r) ==
    /\ r.pc \in OnTracker => r.todo # <<>>
    /\ r.pc = "renew" => r.budget > 0
    /\ r.pc \in {"beat", "search"} => r.units > 0

\* Who holds the scheduler lease is past it; a check by hand has its tracker.
Placed ==
    /\ \A t \in Ticks : Fit(tick[t])
    /\ \A t \in Ticks : Holds(lease, t) => Working(t)
    /\ manual.busy => manual.on \in Trackers

Shape == TypeOK /\ Placed

LEMMA ShapeInit == Init => Shape
BY ActorsAssumption, LimitsAssumption
   DEF Init, Shape, TypeOK, Placed, Unheld, Lease, Actors, Idle, TickState, PCs, NoCheck,
       OnTracker, Fit, Holds, Working, IsInjective

LEMMA HeadOfTodo ==
  ASSUME Shape, NEW t \in Ticks, tick[t].todo # <<>>
  PROVE  Now(t) \in Trackers /\ Tail(tick[t].todo) \in Seq(Trackers)
BY DEF Shape, TypeOK, TickState, Now

-----------------------------------------------------------------------------
(* What each step does to the invocations.                                 *)

\* A step moves one invocation and leaves the others alone.
Moved(t, r) ==
    /\ tick' \in [Ticks -> TickState]
    /\ tick'[t] = r
    /\ \A s \in Ticks \ {t} : tick'[s] = tick[s]

LEMMA PlacesOfCode ==
  /\ "idle" \in PCs /\ "lease" \in PCs /\ "lock" \in PCs /\ "renew" \in PCs
  /\ "beat" \in PCs /\ "search" \in PCs /\ "finalize" \in PCs /\ "release" \in PCs
  /\ "count" \in PCs /\ "digest" \in PCs /\ "send" \in PCs /\ "save" \in PCs
  /\ "clean" \in PCs /\ "prune" \in PCs /\ "unclaim" \in PCs /\ "finish" \in PCs
BY DEF PCs

\* The edits of an invocation's memory that the steps make.
LEMMA Edits ==
  ASSUME NEW r \in TickState
  PROVE  /\ \A p \in PCs :
              [r EXCEPT !.pc = p] \in TickState
         /\ \A q \in Seq(Trackers) :
              [r EXCEPT !.todo = q] \in TickState
         /\ \A o \in SUBSET Trackers :
              [r EXCEPT !.owed = o] \in TickState
         /\ \A p \in PCs, o \in SUBSET Trackers :
              [r EXCEPT !.pc = p, !.owed = o] \in TickState
         /\ \A p \in PCs, c \in BOOLEAN :
              [r EXCEPT !.pc = p, !.cut = c] \in TickState
         /\ \A p \in PCs, c \in BOOLEAN :
              [r EXCEPT !.pc = p, !.short = c] \in TickState
         /\ \A p \in PCs, n \in Nat, c \in BOOLEAN :
              [r EXCEPT !.pc = p, !.units = n, !.cut = c] \in TickState
         /\ \A p \in PCs, n \in Nat, m \in Nat :
              [r EXCEPT !.pc = p, !.units = n, !.spent = m] \in TickState
         /\ \A p \in PCs, q \in Seq(Trackers), b \in Int :
              [r EXCEPT !.pc = p, !.todo = q, !.budget = b] \in TickState
         /\ \A p \in PCs, h \in SUBSET Trackers, q \in Seq(Trackers) :
              [r EXCEPT !.pc = p, !.handled = h, !.todo = q] \in TickState
         /\ \A p \in PCs, c \in BOOLEAN, o \in SUBSET Trackers :
              [r EXCEPT !.pc = p, !.completed = c, !.owed = o] \in TickState
         /\ \A p \in PCs, n \in Nat, m \in Nat, c \in BOOLEAN, d \in BOOLEAN :
              [r EXCEPT !.pc = p, !.units = n, !.spent = m, !.cut = c, !.short = d] \in TickState
BY ZenonT(60) DEF TickState

\* The one that closes a tracker's check.
LEMMA ClosingEdit ==
  ASSUME NEW r \in TickState, NEW p \in PCs, NEW b \in Int, NEW c \in BOOLEAN
  PROVE  [r EXCEPT !.pc = p, !.budget = b, !.short = c,
                   !.units = 0, !.spent = 0, !.cut = FALSE] \in TickState
BY DEF TickState

LEMMA IdleType == Idle \in TickState
BY PlacesOfCode DEF Idle, TickState

\* The memory of an invocation, field by field.
LEMMA MemoryType ==
  ASSUME Shape, NEW t \in Ticks
  PROVE  /\ tick \in [Ticks -> TickState] /\ tick[t] \in TickState
         /\ tick[t].pc \in PCs /\ tick[t].todo \in Seq(Trackers)
         /\ tick[t].owed \in SUBSET Trackers /\ tick[t].handled \in SUBSET Trackers
         /\ tick[t].budget \in Int /\ tick[t].spent \in Nat /\ tick[t].units \in Nat
         /\ tick[t].short \in BOOLEAN /\ tick[t].cut \in BOOLEAN
         /\ tick[t].completed \in BOOLEAN
BY DEF Shape, TypeOK, TickState

LEMMA Goes ==
  ASSUME Shape, NEW t \in Ticks, NEW p \in PCs, Goto(t, p)
  PROVE  Moved(t, [tick[t] EXCEPT !.pc = p])
BY MemoryType, Edits DEF Goto, Moved

LEMMA Becomes ==
  ASSUME Shape, NEW t \in Ticks, NEW r \in TickState, tick' = [tick EXCEPT ![t] = r]
  PROVE  Moved(t, r)
BY MemoryType DEF Moved

LEMMA BeginMoves ==
  ASSUME Shape, NEW t \in Ticks, Begin(t)
  PROVE  Moved(t, [tick[t] EXCEPT !.pc = "lease", !.owed = ToSet(line)])
<1>1. ToSet(line) \subseteq Trackers
  BY DEF Shape, TypeOK, ToSet
<1> QED
  BY <1>1, MemoryType, PlacesOfCode, Edits DEF Begin, Moved

LEMMA AcquireMoves ==
  ASSUME Shape, NEW t \in Ticks, Acquire(t)
  PROVE  \/ Moved(t, [Idle EXCEPT !.pc = "digest"])
         \/ \E q \in Seq(Trackers) :
              Moved(t, [tick[t] EXCEPT !.pc = "lock", !.todo = q, !.budget = Queries])
<1>1. PICK n \in 0..PerTick : \E p \in [1..n -> Places(t)] :
        tick' = [tick EXCEPT ![t] =
                   IF n = 0 THEN [Idle EXCEPT !.pc = "digest"]
                   ELSE [@ EXCEPT !.pc = "lock", !.todo = [i \in 1..n |-> line[p[i]]],
                                  !.budget = Queries]]
  BY DEF Acquire, SelectDue
<1>2. PICK p \in [1..n -> Places(t)] :
        tick' = [tick EXCEPT ![t] =
                   IF n = 0 THEN [Idle EXCEPT !.pc = "digest"]
                   ELSE [@ EXCEPT !.pc = "lock", !.todo = [i \in 1..n |-> line[p[i]]],
                                  !.budget = Queries]]
  BY <1>1
<1>3. CASE n = 0
  <2>1. [Idle EXCEPT !.pc = "digest"] \in TickState
    BY IdleType, PlacesOfCode, Edits
  <2> QED
    BY <1>2, <1>3, <2>1, Becomes
<1>4. CASE n # 0
  <2> DEFINE q == [i \in 1..n |-> line[p[i]]]
  <2>1. q \in Seq(Trackers)
    BY LimitsAssumption DEF Places, Shape, TypeOK
  <2> HIDE DEF q
  <2>2. [tick[t] EXCEPT !.pc = "lock", !.todo = q, !.budget = Queries] \in TickState
    <3>1. Queries \in Int
      BY LimitsAssumption
    <3> QED
      BY <2>1, <3>1, MemoryType, PlacesOfCode, Edits
  <2>3. tick' = [tick EXCEPT ![t] = [tick[t] EXCEPT !.pc = "lock", !.todo = q, !.budget = Queries]]
    BY <1>2, <1>4, MemoryType DEF q
  <2> QED
    BY <2>1, <2>2, <2>3, Becomes
<1> QED
  BY <1>3, <1>4

LEMMA LockMoves ==
  ASSUME Shape, NEW t \in Ticks, LockTracker(t)
  PROVE  \/ Free(lock[Now(t)]) /\ Moved(t, [tick[t] EXCEPT !.pc = "renew"])
         \/ UNCHANGED lock /\ Moved(t, [tick[t] EXCEPT !.todo = Tail(@)])
<1>1. tick[t].todo # <<>>
  BY DEF LockTracker, GoesOn
<1> QED
  <2>1. CASE Free(lock[Now(t)])
    BY <2>1, Goes, PlacesOfCode DEF LockTracker
  <2>2. CASE ~Free(lock[Now(t)])
    <3>1. [tick[t] EXCEPT !.todo = Tail(tick[t].todo)] \in TickState
      BY <1>1, HeadOfTodo, MemoryType, Edits
    <3>2. tick' = [tick EXCEPT ![t] = [tick[t] EXCEPT !.todo = Tail(tick[t].todo)]]
      BY <2>2, MemoryType DEF LockTracker
    <3> QED
      BY <2>2, <3>1, <3>2, Becomes DEF LockTracker
  <2> QED
    BY <2>1, <2>2

LEMMA RenewMoves ==
  ASSUME Shape, NEW t \in Ticks, Renew(t)
  PROVE  \/ /\ Holds(lease, t) /\ lease' = Renewed(lease)
            /\ WithinBudget(t) \in Nat \ {0} /\ WithinBudget(t) <= tick[t].budget
            /\ Moved(t, [tick[t] EXCEPT !.pc = "beat", !.units = WithinBudget(t),
                                        !.cut = Units[Now(t)] > tick[t].budget])
         \/ /\ UNCHANGED lease
            /\ Moved(t, [tick[t] EXCEPT !.pc = "release", !.short = TRUE])
<1>1. Now(t) \in Trackers /\ tick[t].budget \in Int /\ tick[t].budget > 0
  BY HeadOfTodo, MemoryType DEF Renew, At, Shape, Placed, Fit, OnTracker
<1>2. WithinBudget(t) \in Nat \ {0} /\ WithinBudget(t) <= tick[t].budget
  BY <1>1, MinOfTwo, LimitsAssumption DEF WithinBudget
<1>3. CASE Holds(lease, t)
  <2>1. (Units[Now(t)] > tick[t].budget) \in BOOLEAN
    OBVIOUS
  <2>2. [tick[t] EXCEPT !.pc = "beat", !.units = WithinBudget(t),
                        !.cut = Units[Now(t)] > tick[t].budget] \in TickState
    BY <1>2, <2>1, MemoryType, PlacesOfCode, Edits
  <2>3. tick' = [tick EXCEPT ![t] = [tick[t] EXCEPT !.pc = "beat", !.units = WithinBudget(t),
                                       !.cut = Units[Now(t)] > tick[t].budget]]
    BY <1>3, MemoryType DEF Renew
  <2> QED
    BY <1>2, <1>3, <2>2, <2>3, Becomes DEF Renew
<1>4. CASE ~Holds(lease, t)
  <2>1. [tick[t] EXCEPT !.pc = "release", !.short = TRUE] \in TickState
    BY MemoryType, PlacesOfCode, Edits
  <2>2. tick' = [tick EXCEPT ![t] = [tick[t] EXCEPT !.pc = "release", !.short = TRUE]]
    BY <1>4, MemoryType DEF Renew
  <2> QED
    BY <1>4, <2>1, <2>2, Becomes DEF Renew
<1> QED
  BY <1>3, <1>4

LEMMA BeatMoves ==
  ASSUME Shape, NEW t \in Ticks, Beat(t)
  PROVE  \/ /\ Holds(lease, t) /\ Holds(lock[Now(t)], t)
            /\ Moved(t, [tick[t] EXCEPT !.pc = "search"])
         \/ Moved(t, [tick[t] EXCEPT !.pc = "finalize", !.cut = TRUE])
<1>1. CASE Holds(lease, t) /\ Holds(lock[Now(t)], t)
  BY <1>1, Goes, PlacesOfCode DEF Beat, Goto
<1>2. CASE ~(Holds(lease, t) /\ Holds(lock[Now(t)], t))
  <2>1. [tick[t] EXCEPT !.pc = "finalize", !.cut = TRUE] \in TickState
    BY MemoryType, PlacesOfCode, Edits
  <2>2. tick' = [tick EXCEPT ![t] = [tick[t] EXCEPT !.pc = "finalize", !.cut = TRUE]]
    BY <1>2, MemoryType DEF Beat
  <2> QED
    BY <2>1, <2>2, Becomes
<1> QED
  BY <1>1, <1>2

LEMMA SearchMoves ==
  ASSUME Shape, NEW t \in Ticks, Search(t)
  PROVE  \E calls \in Nat :
           /\ Moved(t, [tick[t] EXCEPT !.pc = IF tick[t].units = 1 THEN "finalize" ELSE "beat",
                                       !.units = @ - 1, !.spent = @ + calls])
           /\ searches' = [searches EXCEPT ![t] = IF calls = 0 THEN @ ELSE @ + 1]
<1>1. tick[t].units \in Nat /\ tick[t].units > 0
  BY MemoryType DEF Search, At, Shape, Placed, Fit
<1>2. PICK calls \in 0..MaxCalls :
         /\ tick' = [tick EXCEPT ![t].pc = IF tick[t].units = 1 THEN "finalize" ELSE "beat",
                       ![t].units = @ - 1, ![t].spent = @ + calls]
         /\ searches' = [searches EXCEPT ![t] = IF calls = 0 THEN @ ELSE @ + 1]
  BY DEF Search
<1> DEFINE p == IF tick[t].units = 1 THEN "finalize" ELSE "beat"
<1>3. p \in PCs
  BY PlacesOfCode
<1>4. calls \in Nat
  BY <1>2, LimitsAssumption
<1> HIDE DEF p
<1>5. tick[t].units - 1 \in Nat /\ tick[t].spent + calls \in Nat
  BY <1>1, <1>4, MemoryType
<1>6. [tick[t] EXCEPT !.pc = p, !.units = @ - 1, !.spent = @ + calls] \in TickState
  BY <1>3, <1>5, MemoryType, Edits
<1>7. tick' = [tick EXCEPT ![t] = [tick[t] EXCEPT !.pc = p, !.units = @ - 1, !.spent = @ + calls]]
  BY <1>2, MemoryType DEF p
<1>8. Moved(t, [tick[t] EXCEPT !.pc = p, !.units = @ - 1, !.spent = @ + calls])
  BY <1>6, <1>7, Becomes
<1> QED
  BY <1>2, <1>4, <1>8 DEF p

\* A check that ends takes the tracker off the list of every invocation.
MovedAll(t, k, r) ==
    /\ tick' \in [Ticks -> TickState]
    /\ tick'[t] = [r EXCEPT !.owed = @ \ {k}]
    /\ \A s \in Ticks \ {t} : tick'[s] = [tick[s] EXCEPT !.owed = @ \ {k}]

LEMMA SettledType ==
  ASSUME NEW f \in [Ticks -> TickState], NEW k
  PROVE  /\ Settled(f, k) \in [Ticks -> TickState]
         /\ \A s \in Ticks : Settled(f, k)[s] = [f[s] EXCEPT !.owed = @ \ {k}]
BY DEF Settled, TickState

LEMMA FinalizeMoves ==
  ASSUME Shape, NEW t \in Ticks, Finalize(t)
  PROVE  \E b \in Int, c \in BOOLEAN :
           /\ b = tick[t].budget - tick[t].spent
           /\ c = (tick[t].short \/ tick[t].cut)
           /\ MovedAll(t, Now(t), [tick[t] EXCEPT !.pc = "release", !.budget = b, !.short = c,
                                     !.units = 0, !.spent = 0, !.cut = FALSE])
<1> DEFINE b == tick[t].budget - tick[t].spent
           c == tick[t].short \/ tick[t].cut
           r == [tick[t] EXCEPT !.pc = "release", !.budget = b, !.short = c,
                                !.units = 0, !.spent = 0, !.cut = FALSE]
           f == [tick EXCEPT ![t] = r]
<1>1. tick' = Settled(f, Now(t))
  <2>1. f = [tick EXCEPT ![t].pc = "release", ![t].budget = @ - tick[t].spent,
                         ![t].short = @ \/ tick[t].cut,
                         ![t].units = 0, ![t].spent = 0, ![t].cut = FALSE]
    BY MemoryType
  <2> QED
    BY <2>1 DEF Finalize
<1>2. b \in Int /\ c \in BOOLEAN
  BY MemoryType
<1>3. b = tick[t].budget - tick[t].spent /\ c = (tick[t].short \/ tick[t].cut)
  OBVIOUS
<1> HIDE DEF b, c
<1>4. r \in TickState
  BY <1>2, MemoryType, PlacesOfCode, ClosingEdit
<1>5. MovedAll(t, Now(t), r)
  <2> HIDE DEF r
  <2>1. f \in [Ticks -> TickState] /\ f[t] = r /\ \A s \in Ticks \ {t} : f[s] = tick[s]
    BY <1>4, MemoryType
  <2> QED
    BY <1>1, <2>1, SettledType DEF MovedAll
<1> QED
  BY <1>2, <1>3, <1>5

LEMMA ReleaseMoves ==
  ASSUME Shape, NEW t \in Ticks, ReleaseTracker(t)
  PROVE  Moved(t, [tick[t] EXCEPT !.pc = "lock", !.handled = Handled(t), !.todo = Tail(@)])
<1>1. Now(t) \in Trackers /\ Tail(tick[t].todo) \in Seq(Trackers)
  BY HeadOfTodo DEF ReleaseTracker, At, Shape, Placed, Fit, OnTracker
<1> QED
  <2>1. Handled(t) \in SUBSET Trackers
    BY <1>1, MemoryType DEF Handled
  <2>2. [tick[t] EXCEPT !.pc = "lock", !.handled = Handled(t), !.todo = Tail(tick[t].todo)]
            \in TickState
    BY <1>1, <2>1, MemoryType, PlacesOfCode, Edits
  <2>3. tick' = [tick EXCEPT ![t] = [tick[t] EXCEPT !.pc = "lock", !.handled = Handled(t),
                                                    !.todo = Tail(tick[t].todo)]]
    BY MemoryType DEF ReleaseTracker
  <2> QED
    BY <2>2, <2>3, Becomes

LEMMA CountMoves ==
  ASSUME Shape, NEW t \in Ticks, Count(t)
  PROVE  \E completed \in BOOLEAN :
           /\ completed = (StillDue(t) = {} /\ ~tick[t].short /\ tick[t].budget > 0)
           /\ Moved(t, [Idle EXCEPT !.pc = "digest", !.completed = completed,
                                    !.owed = IF completed THEN tick[t].owed ELSE {}])
<1> DEFINE c == StillDue(t) = {} /\ ~tick[t].short /\ tick[t].budget > 0
           r == [Idle EXCEPT !.pc = "digest", !.completed = c,
                             !.owed = IF c THEN tick[t].owed ELSE {}]
<1>1. c \in BOOLEAN /\ tick' = [tick EXCEPT ![t] = r]
  BY DEF Count
<1>2. r \in TickState
  <2> HIDE DEF c
  <2> QED
    <3>1. (IF c THEN tick[t].owed ELSE {}) \in SUBSET Trackers
      BY MemoryType
    <3> QED
      BY <1>1, <3>1, IdleType, PlacesOfCode, Edits
<1>3. Moved(t, r)
  <2> HIDE DEF r
  <2> QED
    BY <1>1, <1>2, Becomes
<1> QED
  BY <1>1, <1>3

LEMMA ThrowMoves ==
  ASSUME Shape, NEW t \in Ticks, Throw(t)
  PROVE  \/ /\ Catch(tick[t].pc) = "finish"
            /\ Moved(t, [Idle EXCEPT !.pc = "finish"])
         \/ \E q \in {"release", "clean", "unclaim"}, c \in BOOLEAN :
              /\ Catch(tick[t].pc) = q
              /\ c = (tick[t].short \/ q = "release")
              /\ Moved(t, [tick[t] EXCEPT !.pc = q, !.units = 0, !.spent = 0, !.cut = FALSE,
                                          !.short = c])
<1> DEFINE q == Catch(tick[t].pc)
           c == tick[t].short \/ q = "release"
           r == [tick[t] EXCEPT !.pc = q, !.units = 0, !.spent = 0, !.cut = FALSE, !.short = c]
<1>1. q \in {"finish", "release", "clean", "unclaim"}
  BY DEF Throw, Working, At, Catch, Shape, TypeOK, TickState, PCs
<1>2. tick' = IF q = "finish"
              THEN [tick EXCEPT ![t] = [Idle EXCEPT !.pc = q]]
              ELSE [tick EXCEPT ![t].pc = q, ![t].units = 0, ![t].spent = 0,
                      ![t].cut = FALSE, ![t].short = @ \/ q = "release"]
  BY Zenon DEF Throw
<1>3. c \in BOOLEAN /\ c = (tick[t].short \/ q = "release")
  BY MemoryType
<1>4. tick' = [tick EXCEPT ![t] = IF q = "finish" THEN [Idle EXCEPT !.pc = q] ELSE r]
  <2> HIDE DEF q
  <2> QED
    BY <1>2, MemoryType
<1> HIDE DEF q, c
<1>5. CASE q = "finish"
  <2>1. [Idle EXCEPT !.pc = "finish"] \in TickState
    BY IdleType, PlacesOfCode, Edits
  <2>2. tick' = [tick EXCEPT ![t] = [Idle EXCEPT !.pc = "finish"]]
    BY <1>4, <1>5
  <2> QED
    BY <1>5, <2>1, <2>2, Becomes DEF q
<1>6. CASE q # "finish"
  <2>1. r \in TickState
    <3>1. q \in PCs
      BY <1>1, PlacesOfCode
    <3> QED
      BY <1>3, <3>1, MemoryType, Edits
  <2>2. Moved(t, r)
    <3> HIDE DEF r
    <3> QED
      BY <1>4, <1>6, <2>1, Becomes
  <2> QED
    BY <1>1, <1>3, <1>6, <2>2 DEF q
<1> QED
  BY <1>5, <1>6

LEMMA EndMoves ==
  ASSUME Shape, NEW t \in Ticks, NEW l, End(t, l)
  PROVE  Moved(t, Idle)
BY IdleType, Becomes DEF End

-----------------------------------------------------------------------------
(* The type invariant.                                                     *)

LEMMA MovedFit ==
  ASSUME Shape, NEW t \in Ticks, NEW r, Moved(t, r), Fit(r)
  PROVE  tick' \in [Ticks -> TickState] /\ \A s \in Ticks : Fit(tick'[s])
BY DEF Moved, Shape, Placed

LEMMA MovedAllFit ==
  ASSUME Shape, NEW t \in Ticks, NEW k, NEW r \in TickState, MovedAll(t, k, r), Fit(r)
  PROVE  tick' \in [Ticks -> TickState] /\ \A s \in Ticks : Fit(tick'[s])
<1>1. tick'[t] = [r EXCEPT !.owed = @ \ {k}]
  BY DEF MovedAll
<1>2. Fit(tick'[t])
  BY <1>1 DEF TickState, Fit
<1>3. ASSUME NEW s \in Ticks \ {t}
      PROVE  Fit(tick'[s])
  <2>1. tick'[s] = [tick[s] EXCEPT !.owed = @ \ {k}] /\ Fit(tick[s]) /\ tick[s] \in TickState
    BY MemoryType DEF MovedAll, Shape, Placed
  <2> QED
    BY <2>1 DEF TickState, Fit
<1> QED
  BY <1>2, <1>3 DEF MovedAll

LEMMA MemoryStep ==
  ASSUME Shape, [Next]_vars
  PROVE  tick' \in [Ticks -> TickState] /\ \A s \in Ticks : Fit(tick'[s])
<1> DEFINE Goal == tick' \in [Ticks -> TickState] /\ \A s \in Ticks : Fit(tick'[s])
<1>1. ASSUME NEW t \in Ticks, NEW p \in PCs, Goto(t, p), p \notin OnTracker
      PROVE  Goal
  <2>1. Fit([tick[t] EXCEPT !.pc = p])
    BY <1>1, MemoryType DEF Fit, OnTracker, TickState
  <2> QED
    BY <1>1, <2>1, Goes, MovedFit
<1>2. ASSUME NEW t \in Ticks, Begin(t)
      PROVE  Goal
  <2>1. Fit([tick[t] EXCEPT !.pc = "lease", !.owed = ToSet(line)])
    BY MemoryType DEF Fit, OnTracker, TickState
  <2> QED
    BY <1>2, <2>1, BeginMoves, MovedFit
<1>3. ASSUME NEW t \in Ticks, Acquire(t)
      PROVE  Goal
  <2>1. Fit([Idle EXCEPT !.pc = "digest"])
    BY DEF Fit, OnTracker, Idle
  <2>2. ASSUME NEW q \in Seq(Trackers)
        PROVE  Fit([tick[t] EXCEPT !.pc = "lock", !.todo = q, !.budget = Queries])
    BY MemoryType DEF Fit, OnTracker, TickState
  <2> QED
    BY <1>3, <2>1, <2>2, AcquireMoves, MovedFit
<1>4. ASSUME NEW t \in Ticks, LockTracker(t)
      PROVE  Goal
  <2>1. tick[t].todo # <<>> /\ tick[t].budget > 0 /\ tick[t].pc = "lock"
    BY <1>4 DEF LockTracker, GoesOn, At
  <2>2. Fit([tick[t] EXCEPT !.pc = "renew"])
    BY <2>1, MemoryType DEF Fit, OnTracker, TickState
  <2>3. Fit([tick[t] EXCEPT !.todo = Tail(@)])
    BY <2>1, MemoryType DEF Fit, OnTracker, TickState
  <2> QED
    BY <1>4, <2>2, <2>3, LockMoves, MovedFit
<1>5. ASSUME NEW t \in Ticks, Renew(t)
      PROVE  Goal
  <2>1. tick[t].todo # <<>>
    BY <1>5 DEF Renew, At, Shape, Placed, Fit, OnTracker
  <2>2. ASSUME WithinBudget(t) \in Nat \ {0}
        PROVE  Fit([tick[t] EXCEPT !.pc = "beat", !.units = WithinBudget(t),
                                   !.cut = Units[Now(t)] > tick[t].budget])
    BY <2>1, <2>2, MemoryType DEF Fit, OnTracker, TickState
  <2>3. Fit([tick[t] EXCEPT !.pc = "release", !.short = TRUE])
    BY <2>1, MemoryType DEF Fit, OnTracker, TickState
  <2> QED
    BY <1>5, <2>2, <2>3, RenewMoves, MovedFit
<1>6. ASSUME NEW t \in Ticks, Beat(t)
      PROVE  Goal
  <2>1. tick[t].todo # <<>> /\ tick[t].units > 0
    BY <1>6 DEF Beat, At, Shape, Placed, Fit, OnTracker
  <2>2. Fit([tick[t] EXCEPT !.pc = "search"])
    BY <2>1, MemoryType DEF Fit, OnTracker, TickState
  <2>3. Fit([tick[t] EXCEPT !.pc = "finalize", !.cut = TRUE])
    BY <2>1, MemoryType DEF Fit, OnTracker, TickState
  <2> QED
    BY <1>6, <2>2, <2>3, BeatMoves, MovedFit
<1>7. ASSUME NEW t \in Ticks, Search(t)
      PROVE  Goal
  <2>1. tick[t].todo # <<>> /\ tick[t].units > 0
    BY <1>7 DEF Search, At, Shape, Placed, Fit, OnTracker
  <2>2. ASSUME NEW calls \in Nat
        PROVE  Fit([tick[t] EXCEPT !.pc = IF tick[t].units = 1 THEN "finalize" ELSE "beat",
                                   !.units = @ - 1, !.spent = @ + calls])
    BY <2>1, MemoryType DEF Fit, OnTracker, TickState
  <2> QED
    BY <1>7, <2>2, SearchMoves, MovedFit
<1>8. ASSUME NEW t \in Ticks, Finalize(t)
      PROVE  Goal
  <2>1. tick[t].todo # <<>>
    BY <1>8 DEF Finalize, At, Shape, Placed, Fit, OnTracker
  <2>2. ASSUME NEW b \in Int, NEW c \in BOOLEAN
        PROVE  LET r == [tick[t] EXCEPT !.pc = "release", !.budget = b, !.short = c,
                                        !.units = 0, !.spent = 0, !.cut = FALSE]
               IN r \in TickState /\ Fit(r)
    <3>1. [tick[t] EXCEPT !.pc = "release", !.budget = b, !.short = c,
                          !.units = 0, !.spent = 0, !.cut = FALSE] \in TickState
      BY MemoryType, PlacesOfCode, ClosingEdit
    <3> QED
      BY <2>1, <3>1, MemoryType DEF Fit, OnTracker, TickState
  <2> QED
    BY <1>8, <2>2, FinalizeMoves, MovedAllFit
<1>9. ASSUME NEW t \in Ticks, ReleaseTracker(t)
      PROVE  Goal
  <2>1. Fit([tick[t] EXCEPT !.pc = "lock", !.handled = Handled(t), !.todo = Tail(@)])
    BY MemoryType DEF Fit, OnTracker, TickState
  <2> QED
    BY <1>9, <2>1, ReleaseMoves, MovedFit
<1>10. ASSUME NEW t \in Ticks, Count(t)
       PROVE  Goal
  <2>1. ASSUME NEW c \in BOOLEAN
        PROVE  Fit([Idle EXCEPT !.pc = "digest", !.completed = c,
                                !.owed = IF c THEN tick[t].owed ELSE {}])
    BY DEF Fit, OnTracker, Idle
  <2> QED
    BY <1>10, <2>1, CountMoves, MovedFit
<1>11. ASSUME NEW t \in Ticks, Throw(t)
       PROVE  Goal
  <2>1. Fit([Idle EXCEPT !.pc = "finish"])
    BY DEF Fit, OnTracker, Idle
  <2>2. ASSUME NEW q \in {"release", "clean", "unclaim"}, NEW c \in BOOLEAN,
               Catch(tick[t].pc) = q
        PROVE  Fit([tick[t] EXCEPT !.pc = q, !.units = 0, !.spent = 0, !.cut = FALSE,
                                   !.short = c])
    <3>1. q = "release" => tick[t].todo # <<>>
      BY <1>11, <2>2 DEF Throw, Catch, Working, At, Shape, TypeOK, TickState, PCs, Placed, Fit, OnTracker
    <3> QED
      BY <3>1, MemoryType DEF Fit, OnTracker, TickState
  <2> QED
    BY <1>11, <2>1, <2>2, ThrowMoves, MovedFit
<1>12. ASSUME NEW t \in Ticks, NEW l, End(t, l)
       PROVE  Goal
  <2>1. Fit(Idle)
    BY DEF Fit, OnTracker, Idle
  <2> QED
    BY <1>12, <2>1, EndMoves, MovedFit
<1>13. ASSUME NEW k, tick' = Settled(tick, k)
       PROVE  Goal
  <2>1. ASSUME NEW s \in Ticks
        PROVE  Fit(tick'[s])
    <3>1. tick'[s] = [tick[s] EXCEPT !.owed = @ \ {k}] /\ Fit(tick[s]) /\ tick[s] \in TickState
      BY <1>13, MemoryType, SettledType DEF Shape, Placed
    <3> QED
      BY <3>1 DEF TickState, Fit
  <2> QED
    BY <1>13, <2>1, SettledType DEF Shape, TypeOK
<1>14. ASSUME UNCHANGED tick
       PROVE  Goal
  BY <1>14 DEF Shape, TypeOK, Placed
<1> HIDE DEF Goal
<1>15. ASSUME NEW t \in Ticks, TickStep(t) \/ SendUnanswered(t)
       PROVE  Goal
  <2>1. ASSUME \E p \in {"count", "digest", "send", "save", "clean", "prune", "unclaim", "finish"} : Goto(t, p)
        PROVE  Goal
    BY <1>1, <2>1, PlacesOfCode DEF OnTracker
  <2>2. CASE Stop(t) \/ Digest(t) \/ SendDigest(t) \/ SendUnanswered(t) \/ SaveDigest(t)
             \/ ClaimCleanup(t) \/ Prune(t) \/ Unclaim(t)
    BY <2>1, <2>2
       DEF Stop, Digest, SendDigest, SendUnanswered, SaveDigest, ClaimCleanup, Prune, Unclaim
  <2>3. CASE FindHeld(t) \/ Finish(t)
    BY <1>12, <2>3 DEF FindHeld, Finish
  <2> QED
    BY <1>3, <1>4, <1>5, <1>6, <1>7, <1>8, <1>9, <1>10, <1>15, <2>2, <2>3 DEF TickStep
<1>16. ASSUME NEW t \in Ticks, Begin(t) \/ Throw(t) \/ Die(t)
       PROVE  Goal
  BY <1>2, <1>11, <1>12, <1>16 DEF Die
<1>17. ASSUME ManualStep \/ ManualThrow \/ ManualDie
       PROVE  Goal
  BY <1>13, <1>14, <1>17
     DEF ManualStep, ManualFinalize, ManualRelease, ManualThrow, ManualDie
<1>18. ASSUME NEW k \in Trackers, ManualLock(k) \/ ComeDue(k) \/ ExpireLock(k)
       PROVE  Goal
  BY <1>14, <1>18 DEF ManualLock, ComeDue, ExpireLock
<1>19. ASSUME ExpireLease \/ DayPasses \/ WeekPasses \/ UNCHANGED vars
       PROVE  Goal
  BY <1>14, <1>19 DEF ExpireLease, DayPasses, WeekPasses, vars
<1>20. Goal
  BY <1>15, <1>16, <1>17, <1>18, <1>19 DEF Next
<1> QED
  BY <1>20 DEF Goal

\* The leases in the database.
LEMMA LeaseEdits ==
  ASSUME NEW l \in Lease, NEW a \in Actors
  PROVE  /\ Taken(a) \in Lease /\ Unheld \in Lease /\ [Taken(a) EXCEPT !.fresh = ~Slow] \in Lease
         /\ Renewed(l) \in Lease /\ Aged(l) \in Lease
         /\ Released(l, a) \in Lease /\ Bereft(l, a) \in Lease
BY LimitsAssumption DEF Lease, Taken, Unheld, Renewed, Aged, Released, Bereft

LEMMA LeasesStep ==
  ASSUME Shape, [Next]_vars
  PROVE  lease' \in Lease /\ lock' \in [Trackers -> Lease]
<1> DEFINE Goal == lease' \in Lease /\ lock' \in [Trackers -> Lease]
<1>1. lease \in Lease /\ lock \in [Trackers -> Lease]
  BY DEF Shape, TypeOK
<1>2. \A t \in Ticks : t \in Actors
  BY DEF Actors
<1>3. User \in Actors
  BY DEF Actors
<1>4. ASSUME NEW t \in Ticks, NEW l \in Lease, End(t, l)
      PROVE  Goal
  BY <1>1, <1>2, <1>4, LeaseEdits DEF End
<1>5. ASSUME NEW t \in Ticks, FindHeld(t) \/ Finish(t) \/ Die(t)
      PROVE  Goal
  BY <1>1, <1>2, <1>4, <1>5, LeaseEdits DEF FindHeld, Finish, Die
<1>6. ASSUME NEW t \in Ticks, Acquire(t) \/ LockTracker(t) \/ Renew(t)
      PROVE  Goal
  BY <1>1, <1>2, <1>6, LeaseEdits DEF Acquire, LockTracker, Renew
<1>7. ASSUME NEW t \in Ticks, Beat(t) \/ Search(t) \/ ReleaseTracker(t) \/ Throw(t)
      PROVE  Goal
  <2>1. CASE Beat(t)
    <3>1. /\ lease' = Renewed(lease) \/ lease' = lease
          /\ lock' = [lock EXCEPT ![Now(t)] = Renewed(lock[Now(t)])] \/ lock' = lock
      BY <2>1 DEF Beat
    <3> QED
      BY <1>1, <1>2, <3>1, LeaseEdits
  <2>2. CASE Search(t)
    BY <1>1, <1>2, <2>2, LeaseEdits DEF Search
  <2>3. CASE ReleaseTracker(t)
    BY <1>1, <1>2, <2>3, LeaseEdits DEF ReleaseTracker
  <2>4. CASE Throw(t)
    <3>1. /\ lease' = IF Holds(lease, t) THEN Aged(lease) ELSE lease
          /\ lock' = [k \in Trackers |-> IF Holds(lock[k], t) THEN Aged(lock[k]) ELSE lock[k]]
      BY <2>4 DEF Throw
    <3> QED
      BY <1>1, <1>2, <3>1, LeaseEdits
  <2> QED
    BY <1>7, <2>1, <2>2, <2>3, <2>4
<1>8. ASSUME NEW t \in Ticks,
             Begin(t) \/ Stop(t) \/ Finalize(t) \/ Count(t) \/ Digest(t) \/ SendDigest(t)
               \/ SendUnanswered(t) \/ SaveDigest(t) \/ ClaimCleanup(t) \/ Prune(t) \/ Unclaim(t)
      PROVE  Goal
  BY <1>1, <1>8 DEF Begin, Stop, Finalize, Count, Digest, SendDigest, SendUnanswered,
                    SaveDigest, ClaimCleanup, Prune, Unclaim, tables
<1>9. ASSUME NEW k \in Trackers, ManualLock(k) \/ ComeDue(k) \/ ExpireLock(k)
      PROVE  Goal
  BY <1>1, <1>3, <1>9, LeaseEdits DEF ManualLock, ComeDue, ExpireLock
<1>10. ASSUME ManualStep \/ ManualThrow \/ ManualDie
       PROVE  Goal
  <2>1. manual.on \in Trackers \cup {Null}
    BY DEF Shape, TypeOK
  <2>2. CASE ManualRelease \/ ManualDie
    <3>1. manual.on \in Trackers /\ lease' = lease
      BY <2>1, <2>2 DEF ManualRelease, ManualDie
    <3>2. PICK k \in Trackers : \/ lock' = [lock EXCEPT ![k] = Released(lock[k], User)]
                                \/ lock' = [lock EXCEPT ![k] = Bereft(lock[k], User)]
      BY <2>2, <3>1 DEF ManualRelease, ManualDie
    <3>3. Released(lock[k], User) \in Lease /\ Bereft(lock[k], User) \in Lease
      BY <1>1, <1>3, LeaseEdits
    <3> QED
      BY <1>1, <3>1, <3>2, <3>3
  <2>3. CASE ManualFinalize \/ ManualThrow
    BY <1>1, <2>3 DEF ManualFinalize, ManualThrow, tables
  <2> QED
    BY <1>10, <2>2, <2>3 DEF ManualStep
<1>11. ASSUME ExpireLease \/ DayPasses \/ WeekPasses \/ UNCHANGED vars
       PROVE  Goal
  BY <1>1, <1>3, <1>11, LeaseEdits DEF ExpireLease, DayPasses, WeekPasses, vars, tables
<1> HIDE DEF Goal
<1>12. Goal
  BY <1>5, <1>6, <1>7, <1>8, <1>9, <1>10, <1>11 DEF Next, TickStep
<1> QED
  BY <1>12 DEF Goal

LEMMA OthersStep ==
  ASSUME Shape, [Next]_vars
  PROVE  /\ line' \in Seq(Trackers) /\ IsInjective(line')
         /\ manual' \in [on : Trackers \cup {Null}, busy : BOOLEAN]
         /\ manual'.busy => manual'.on \in Trackers
         /\ digest' \in {"never", "due", "fresh"}
         /\ cleanup' \in {"due", "done", "lost"} \cup Ticks
<1> DEFINE Goal == /\ line' \in Seq(Trackers) /\ IsInjective(line')
                   /\ manual' \in [on : Trackers \cup {Null}, busy : BOOLEAN]
                   /\ manual'.busy => manual'.on \in Trackers
                   /\ digest' \in {"never", "due", "fresh"}
                   /\ cleanup' \in {"due", "done", "lost"} \cup Ticks
<1>1. /\ line \in Seq(Trackers) /\ IsInjective(line)
      /\ manual \in [on : Trackers \cup {Null}, busy : BOOLEAN]
      /\ manual.busy => manual.on \in Trackers
      /\ digest \in {"never", "due", "fresh"}
      /\ cleanup \in {"due", "done", "lost"} \cup Ticks
  BY DEF Shape, TypeOK, Placed
<1>2. ASSUME NEW t \in Ticks,
             Begin(t) \/ Acquire(t) \/ FindHeld(t) \/ LockTracker(t) \/ Stop(t) \/ Renew(t)
               \/ Beat(t) \/ Search(t) \/ ReleaseTracker(t) \/ Count(t) \/ SendDigest(t)
               \/ SendUnanswered(t)
      PROVE  Goal
  BY <1>1, <1>2 DEF Begin, Acquire, FindHeld, LockTracker, Stop, Renew, Beat, Search,
                    ReleaseTracker, Count, SendDigest, SendUnanswered, tables
<1>3. ASSUME NEW t \in Ticks,
             Digest(t) \/ SaveDigest(t) \/ ClaimCleanup(t) \/ Prune(t) \/ Unclaim(t)
               \/ Finish(t) \/ Throw(t) \/ Die(t)
      PROVE  Goal
  BY <1>1, <1>3 DEF Digest, SaveDigest, ClaimCleanup, Prune, Unclaim, GivenBack, Finish,
                    Throw, Die
<1>4. ASSUME NEW t \in Ticks, Finalize(t)
      PROVE  Goal
  BY <1>1, <1>4, NoLongerDueType DEF Finalize
<1>5. ASSUME ManualFinalize
      PROVE  Goal
  BY <1>1, <1>5, NoLongerDueType DEF ManualFinalize
<1>6. ASSUME ManualRelease \/ ManualThrow \/ ManualDie
      PROVE  Goal
  <2>1. CASE ManualRelease
    BY <1>1, <2>1 DEF ManualRelease, NoCheck
  <2>2. CASE ManualThrow
    BY <1>1, <2>2 DEF ManualThrow, tables
  <2>3. CASE ManualDie
    BY <1>1, <2>3 DEF ManualDie, NoCheck
  <2> QED
    BY <1>6, <2>1, <2>2, <2>3
<1>7. ASSUME NEW k \in Trackers, ManualLock(k) \/ ComeDue(k) \/ ExpireLock(k)
      PROVE  Goal
  <2>1. CASE ManualLock(k)
    BY <1>1, <2>1 DEF ManualLock
  <2>2. CASE ComeDue(k)
    BY <1>1, <2>2, AppendInjectiveSeq DEF ComeDue
  <2>3. CASE ExpireLock(k)
    BY <1>1, <2>3 DEF ExpireLock
  <2> QED
    BY <1>7, <2>1, <2>2, <2>3
<1>8. ASSUME ExpireLease \/ DayPasses \/ WeekPasses \/ UNCHANGED vars
      PROVE  Goal
  BY <1>1, <1>8 DEF ExpireLease, DayPasses, WeekPasses, vars, tables
<1> HIDE DEF Goal
<1>9. Goal
  BY <1>2, <1>3, <1>4, <1>5, <1>6, <1>7, <1>8 DEF Next, TickStep, ManualStep
<1> QED
  BY <1>9 DEF Goal

LEMMA CountersStep ==
  ASSUME Shape, [Next]_vars
  PROVE  /\ asks' \in 0..MaxManual /\ accidents' \in 0..MaxAccidents
         /\ searches' \in [Ticks -> Nat] /\ threw' \subseteq Ticks /\ digests' \in Nat
<1> DEFINE Goal == /\ asks' \in 0..MaxManual /\ accidents' \in 0..MaxAccidents
                   /\ searches' \in [Ticks -> Nat] /\ threw' \subseteq Ticks
                   /\ digests' \in Nat
<1>1. /\ asks \in 0..MaxManual /\ accidents \in 0..MaxAccidents
      /\ searches \in [Ticks -> Nat] /\ threw \subseteq Ticks /\ digests \in Nat
      /\ MaxManual \in Nat /\ MaxAccidents \in Nat
  BY LimitsAssumption DEF Shape, TypeOK
<1>2. ASSUME NEW t \in Ticks,
             Begin(t) \/ Acquire(t) \/ LockTracker(t) \/ Stop(t) \/ Renew(t)
               \/ Beat(t) \/ Finalize(t) \/ ReleaseTracker(t) \/ Count(t) \/ SaveDigest(t)
               \/ Digest(t) \/ ClaimCleanup(t) \/ Prune(t) \/ Unclaim(t)
      PROVE  Goal
  BY <1>1, <1>2 DEF Begin, Acquire, LockTracker, Stop, Renew, Beat, Finalize, ReleaseTracker,
                    Count, SaveDigest, Digest, ClaimCleanup, Prune, Unclaim, bounds, history
<1>3. ASSUME NEW t \in Ticks, Search(t) \/ SendDigest(t) \/ SendUnanswered(t)
      PROVE  Goal
  BY <1>1, <1>3 DEF Search, SendDigest, SendUnanswered, bounds
<1>4. ASSUME NEW t \in Ticks, FindHeld(t) \/ Finish(t) \/ Throw(t) \/ Die(t)
      PROVE  Goal
  BY <1>1, <1>4 DEF FindHeld, Finish, Throw, Die, End, bounds
<1>5. ASSUME ManualStep \/ ManualThrow \/ ManualDie
      PROVE  Goal
  BY <1>1, <1>5
     DEF ManualStep, ManualFinalize, ManualRelease, ManualThrow, ManualDie, bounds, history
<1>6. ASSUME NEW k \in Trackers, ManualLock(k) \/ ComeDue(k) \/ ExpireLock(k)
      PROVE  Goal
  BY <1>1, <1>6 DEF ManualLock, ComeDue, ExpireLock, RunsOut, bounds, history
<1>7. ASSUME ExpireLease \/ DayPasses \/ WeekPasses \/ UNCHANGED vars
      PROVE  Goal
  BY <1>1, <1>7 DEF ExpireLease, RunsOut, DayPasses, WeekPasses, vars, bounds, history
<1> HIDE DEF Goal
<1>8. Goal
  BY <1>2, <1>3, <1>4, <1>5, <1>6, <1>7 DEF Next, TickStep
<1> QED
  BY <1>8 DEF Goal

-----------------------------------------------------------------------------
(* Where a step leads.                                                     *)

\* An invocation that does not take the step: at most it is told that a tracker
\* is settled.
Alike(s) ==
    /\ tick'[s].pc = tick[s].pc /\ tick'[s].todo = tick[s].todo
    /\ tick'[s].handled = tick[s].handled /\ tick'[s].owed \subseteq tick[s].owed
    /\ tick'[s].budget = tick[s].budget /\ tick'[s].spent = tick[s].spent
    /\ tick'[s].units = tick[s].units /\ tick'[s].short = tick[s].short
    /\ tick'[s].completed = tick[s].completed

Aside(t) == \A s \in Ticks \ {t} : Alike(s)

LEMMA MovedAside ==
  ASSUME NEW t, NEW r, Moved(t, r)
  PROVE  Aside(t) /\ tick'[t] = r
BY DEF Moved, Aside, Alike

LEMMA MovedAllAside ==
  ASSUME Shape, NEW t \in Ticks, NEW k, NEW r \in TickState, MovedAll(t, k, r)
  PROVE  Aside(t) /\ tick'[t] = [r EXCEPT !.owed = @ \ {k}]
<1>1. ASSUME NEW s \in Ticks \ {t}
      PROVE  Alike(s)
  <2>1. tick'[s] = [tick[s] EXCEPT !.owed = @ \ {k}] /\ tick[s] \in TickState
    BY MemoryType DEF MovedAll
  <2> QED
    BY <2>1 DEF TickState, Alike
<1> QED
  BY <1>1 DEF MovedAll, Aside

\* The steps that take an invocation from one place to another.
LEMMA Onwards ==
  ASSUME Shape, NEW t \in Ticks, NEW p \in PCs, Goto(t, p)
  PROVE  /\ Aside(t) /\ tick'[t].pc = p
         /\ tick'[t].todo = tick[t].todo /\ tick'[t].handled = tick[t].handled
         /\ tick'[t].owed = tick[t].owed /\ tick'[t].budget = tick[t].budget
         /\ tick'[t].spent = tick[t].spent /\ tick'[t].units = tick[t].units
         /\ tick'[t].short = tick[t].short /\ tick'[t].completed = tick[t].completed
<1>1. tick'[t] = [tick[t] EXCEPT !.pc = p] /\ Aside(t)
  BY Goes, MovedAside
<1> QED
  BY <1>1, MemoryType DEF TickState

LEMMA BeginLeads ==
  ASSUME Shape, NEW t \in Ticks, Begin(t)
  PROVE  /\ Aside(t) /\ tick'[t].pc = "lease"
         /\ tick'[t].handled = tick[t].handled /\ tick'[t].spent = tick[t].spent
         /\ tick'[t].short = tick[t].short /\ tick'[t].completed = tick[t].completed
<1>1. tick'[t] = [tick[t] EXCEPT !.pc = "lease", !.owed = ToSet(line)] /\ Aside(t)
  BY BeginMoves, MovedAside
<1> QED
  BY <1>1, MemoryType DEF TickState

LEMMA AcquireLeads ==
  ASSUME Shape, NEW t \in Ticks, Acquire(t)
  PROVE  /\ Aside(t)
         /\ \/ tick'[t].pc = "digest" /\ ~tick'[t].completed
            \/ /\ tick'[t].pc = "lock" /\ tick'[t].budget = Queries
               /\ tick'[t].spent = tick[t].spent /\ tick'[t].completed = tick[t].completed
               /\ tick'[t].short = tick[t].short /\ tick'[t].handled = tick[t].handled
               /\ tick'[t].owed = tick[t].owed
<1>1. CASE Moved(t, [Idle EXCEPT !.pc = "digest"])
  BY <1>1, MovedAside DEF Idle
<1>2. CASE \E q \in Seq(Trackers) :
             Moved(t, [tick[t] EXCEPT !.pc = "lock", !.todo = q, !.budget = Queries])
  <2>1. PICK q \in Seq(Trackers) :
          tick'[t] = [tick[t] EXCEPT !.pc = "lock", !.todo = q, !.budget = Queries] /\ Aside(t)
    BY <1>2, MovedAside
  <2> QED
    BY <2>1, MemoryType DEF TickState
<1> QED
  BY <1>1, <1>2, AcquireMoves

LEMMA LockLeads ==
  ASSUME Shape, NEW t \in Ticks, LockTracker(t)
  PROVE  /\ Aside(t) /\ tick[t].budget > 0
         /\ \/ tick'[t].pc = "renew" /\ Free(lock[Now(t)]) /\ tick'[t].todo = tick[t].todo
            \/ tick'[t].pc = "lock" /\ UNCHANGED lock
         /\ tick'[t].handled = tick[t].handled
         /\ tick'[t].owed = tick[t].owed /\ tick'[t].budget = tick[t].budget
         /\ tick'[t].spent = tick[t].spent
         /\ tick'[t].short = tick[t].short /\ tick'[t].completed = tick[t].completed
<1>1. tick[t].pc = "lock" /\ tick[t].budget > 0
  BY DEF LockTracker, At, GoesOn
<1>2. CASE Free(lock[Now(t)]) /\ Moved(t, [tick[t] EXCEPT !.pc = "renew"])
  <2>1. tick'[t] = [tick[t] EXCEPT !.pc = "renew"] /\ Aside(t)
    BY <1>2, MovedAside
  <2> QED
    BY <1>1, <1>2, <2>1, MemoryType DEF TickState
<1>3. CASE UNCHANGED lock /\ Moved(t, [tick[t] EXCEPT !.todo = Tail(@)])
  <2>1. tick'[t] = [tick[t] EXCEPT !.todo = Tail(@)] /\ Aside(t)
    BY <1>3, MovedAside
  <2> QED
    BY <1>1, <1>3, <2>1, MemoryType DEF TickState
<1> QED
  BY <1>2, <1>3, LockMoves

LEMMA RenewLeads ==
  ASSUME Shape, NEW t \in Ticks, Renew(t)
  PROVE  /\ Aside(t)
         /\ \/ /\ tick'[t].pc = "beat" /\ tick'[t].short = tick[t].short
               /\ tick'[t].units <= tick[t].budget
            \/ tick'[t].pc = "release" /\ tick'[t].short
         /\ tick'[t].handled = tick[t].handled /\ tick'[t].owed = tick[t].owed
         /\ tick'[t].budget = tick[t].budget /\ tick'[t].spent = tick[t].spent
         /\ tick'[t].completed = tick[t].completed
<1>1. CASE WithinBudget(t) <= tick[t].budget
           /\ Moved(t, [tick[t] EXCEPT !.pc = "beat", !.units = WithinBudget(t),
                                       !.cut = Units[Now(t)] > tick[t].budget])
  <2>1. tick'[t] = [tick[t] EXCEPT !.pc = "beat", !.units = WithinBudget(t),
                                   !.cut = Units[Now(t)] > tick[t].budget] /\ Aside(t)
    BY <1>1, MovedAside
  <2> QED
    BY <1>1, <2>1, MemoryType DEF TickState
<1>2. CASE Moved(t, [tick[t] EXCEPT !.pc = "release", !.short = TRUE])
  <2>1. tick'[t] = [tick[t] EXCEPT !.pc = "release", !.short = TRUE] /\ Aside(t)
    BY <1>2, MovedAside
  <2> QED
    BY <2>1, MemoryType DEF TickState
<1> QED
  BY <1>1, <1>2, RenewMoves

LEMMA BeatLeads ==
  ASSUME Shape, NEW t \in Ticks, Beat(t)
  PROVE  /\ Aside(t)
         /\ \/ tick'[t].pc = "search" /\ Holds(lease, t) /\ Holds(lock[Now(t)], t)
            \/ tick'[t].pc = "finalize"
         /\ tick'[t].todo = tick[t].todo /\ tick'[t].handled = tick[t].handled
         /\ tick'[t].owed = tick[t].owed /\ tick'[t].budget = tick[t].budget
         /\ tick'[t].spent = tick[t].spent /\ tick'[t].units = tick[t].units
         /\ tick'[t].short = tick[t].short /\ tick'[t].completed = tick[t].completed
<1>1. CASE /\ Holds(lease, t) /\ Holds(lock[Now(t)], t)
           /\ Moved(t, [tick[t] EXCEPT !.pc = "search"])
  <2>1. tick'[t] = [tick[t] EXCEPT !.pc = "search"] /\ Aside(t)
    BY <1>1, MovedAside
  <2> QED
    BY <1>1, <2>1, MemoryType DEF TickState
<1>2. CASE Moved(t, [tick[t] EXCEPT !.pc = "finalize", !.cut = TRUE])
  <2>1. tick'[t] = [tick[t] EXCEPT !.pc = "finalize", !.cut = TRUE] /\ Aside(t)
    BY <1>2, MovedAside
  <2> QED
    BY <2>1, MemoryType DEF TickState
<1> QED
  BY <1>1, <1>2, BeatMoves

LEMMA SearchLeads ==
  ASSUME Shape, NEW t \in Ticks, Search(t)
  PROVE  /\ Aside(t) /\ tick'[t].pc \in {"beat", "finalize"}
         /\ tick'[t].handled = tick[t].handled
         /\ tick'[t].owed = tick[t].owed /\ tick'[t].budget = tick[t].budget
         /\ tick'[t].units = tick[t].units - 1
         /\ tick'[t].short = tick[t].short /\ tick'[t].completed = tick[t].completed
         /\ \/ tick'[t].spent = tick[t].spent /\ searches' = searches
            \/ /\ tick'[t].spent >= tick[t].spent + 1
               /\ searches' = [searches EXCEPT ![t] = searches[t] + 1]
<1>1. PICK calls \in Nat :
        /\ Moved(t, [tick[t] EXCEPT !.pc = IF tick[t].units = 1 THEN "finalize" ELSE "beat",
                                    !.units = @ - 1, !.spent = @ + calls])
        /\ searches' = [searches EXCEPT ![t] = IF calls = 0 THEN @ ELSE @ + 1]
  BY SearchMoves
<1>2. tick'[t] = [tick[t] EXCEPT !.pc = IF tick[t].units = 1 THEN "finalize" ELSE "beat",
                                 !.units = @ - 1, !.spent = @ + calls] /\ Aside(t)
  BY <1>1, MovedAside
<1>3. /\ tick'[t].pc \in {"beat", "finalize"}
      /\ tick'[t].handled = tick[t].handled
      /\ tick'[t].owed = tick[t].owed /\ tick'[t].budget = tick[t].budget
      /\ tick'[t].units = tick[t].units - 1 /\ tick'[t].spent = tick[t].spent + calls
      /\ tick'[t].short = tick[t].short /\ tick'[t].completed = tick[t].completed
  BY <1>2, MemoryType DEF TickState
<1>4. IF calls = 0 THEN searches' = searches
      ELSE searches' = [searches EXCEPT ![t] = searches[t] + 1]
  BY <1>1 DEF Shape, TypeOK
<1> QED
  BY <1>2, <1>3, <1>4, MemoryType

LEMMA FinalizeLeads ==
  ASSUME Shape, NEW t \in Ticks, Finalize(t)
  PROVE  /\ Aside(t) /\ tick'[t].pc = "release"
         /\ tick'[t].todo = tick[t].todo /\ tick'[t].handled = tick[t].handled
         /\ tick'[t].owed = tick[t].owed \ {Now(t)}
         /\ tick'[t].budget = tick[t].budget - tick[t].spent /\ tick'[t].spent = 0
         /\ tick[t].short => tick'[t].short
         /\ tick'[t].completed = tick[t].completed
<1>1. PICK b \in Int, c \in BOOLEAN :
        /\ b = tick[t].budget - tick[t].spent
        /\ c = (tick[t].short \/ tick[t].cut)
        /\ MovedAll(t, Now(t), [tick[t] EXCEPT !.pc = "release", !.budget = b, !.short = c,
                                  !.units = 0, !.spent = 0, !.cut = FALSE])
  BY FinalizeMoves
<1> DEFINE r == [tick[t] EXCEPT !.pc = "release", !.budget = b, !.short = c,
                                !.units = 0, !.spent = 0, !.cut = FALSE]
<1>2. r \in TickState
  BY MemoryType, PlacesOfCode, ClosingEdit
<1>3. /\ r.pc = "release" /\ r.budget = b /\ r.short = c /\ r.spent = 0
      /\ r.todo = tick[t].todo /\ r.handled = tick[t].handled /\ r.owed = tick[t].owed
      /\ r.completed = tick[t].completed
  BY MemoryType DEF TickState
<1> HIDE DEF r
<1>4. Aside(t) /\ tick'[t] = [r EXCEPT !.owed = @ \ {Now(t)}]
  BY <1>1, <1>2, MovedAllAside DEF r
<1> QED
  BY <1>1, <1>2, <1>3, <1>4 DEF TickState

LEMMA ReleaseLeads ==
  ASSUME Shape, NEW t \in Ticks, ReleaseTracker(t)
  PROVE  /\ Aside(t) /\ tick'[t].pc = "lock"
         /\ tick'[t].handled = Handled(t)
         /\ tick'[t].owed = tick[t].owed /\ tick'[t].budget = tick[t].budget
         /\ tick'[t].spent = tick[t].spent
         /\ tick'[t].short = tick[t].short /\ tick'[t].completed = tick[t].completed
<1>1. tick'[t] = [tick[t] EXCEPT !.pc = "lock", !.handled = Handled(t), !.todo = Tail(@)]
      /\ Aside(t)
  BY ReleaseMoves, MovedAside
<1> QED
  BY <1>1, MemoryType DEF TickState

LEMMA CountLeads ==
  ASSUME Shape, NEW t \in Ticks, Count(t)
  PROVE  /\ Aside(t) /\ tick'[t].pc = "digest"
         /\ tick'[t].completed => /\ StillDue(t) = {} /\ ~tick[t].short
                                  /\ tick'[t].owed = tick[t].owed
<1>1. PICK c \in BOOLEAN :
        /\ c = (StillDue(t) = {} /\ ~tick[t].short /\ tick[t].budget > 0)
        /\ Moved(t, [Idle EXCEPT !.pc = "digest", !.completed = c,
                                 !.owed = IF c THEN tick[t].owed ELSE {}])
  BY CountMoves
<1>2. tick'[t] = [Idle EXCEPT !.pc = "digest", !.completed = c,
                              !.owed = IF c THEN tick[t].owed ELSE {}] /\ Aside(t)
  BY <1>1, MovedAside
<1> QED
  BY <1>1, <1>2 DEF Idle

LEMMA ThrowLeads ==
  ASSUME Shape, NEW t \in Ticks, Throw(t)
  PROVE  /\ Aside(t) /\ tick'[t].pc = Catch(tick[t].pc)
         /\ \/ tick'[t].pc = "finish" /\ ~tick'[t].completed
            \/ /\ tick'[t].pc \in {"release", "clean", "unclaim"}
               /\ tick'[t].handled = tick[t].handled /\ tick'[t].owed = tick[t].owed
               /\ tick'[t].completed = tick[t].completed /\ tick'[t].spent = 0
               /\ tick'[t].pc = "release" => tick'[t].short
<1>1. CASE Catch(tick[t].pc) = "finish" /\ Moved(t, [Idle EXCEPT !.pc = "finish"])
  BY <1>1, MovedAside DEF Idle
<1>2. CASE \E q \in {"release", "clean", "unclaim"}, c \in BOOLEAN :
             /\ Catch(tick[t].pc) = q
             /\ c = (tick[t].short \/ q = "release")
             /\ Moved(t, [tick[t] EXCEPT !.pc = q, !.units = 0, !.spent = 0, !.cut = FALSE,
                                         !.short = c])
  <2>1. PICK q \in {"release", "clean", "unclaim"}, c \in BOOLEAN :
             /\ Catch(tick[t].pc) = q
             /\ c = (tick[t].short \/ q = "release")
             /\ Moved(t, [tick[t] EXCEPT !.pc = q, !.units = 0, !.spent = 0, !.cut = FALSE,
                                         !.short = c])
    BY <1>2
  <2>2. tick'[t] = [tick[t] EXCEPT !.pc = q, !.units = 0, !.spent = 0, !.cut = FALSE,
                                   !.short = c] /\ Aside(t)
    BY <2>1, MovedAside
  <2> QED
    BY <2>1, <2>2, MemoryType DEF TickState
<1> QED
  BY <1>1, <1>2, ThrowMoves

LEMMA EndLeads ==
  ASSUME Shape, NEW t \in Ticks, NEW l, End(t, l)
  PROVE  Aside(t) /\ tick'[t] = Idle
BY EndMoves, MovedAside

\* What the owner and time do leaves every invocation where it was.
LEMMA OutsideAlike ==
  ASSUME Shape,
         \/ ManualStep \/ ManualThrow \/ ManualDie \/ ExpireLease \/ DayPasses \/ WeekPasses
         \/ \E k \in Trackers : ManualLock(k) \/ ComeDue(k) \/ ExpireLock(k)
         \/ UNCHANGED vars
  PROVE  \A s \in Ticks : Alike(s)
<1>1. CASE UNCHANGED tick
  BY <1>1 DEF Alike
<1>2. CASE tick' = Settled(tick, manual.on)
  <2> SUFFICES ASSUME NEW s \in Ticks
               PROVE  Alike(s)
    OBVIOUS
  <2>1. tick'[s] = [tick[s] EXCEPT !.owed = @ \ {manual.on}]
    BY <1>2, MemoryType, SettledType, SMTT(30)
  <2> QED
    BY <2>1, MemoryType DEF TickState, Alike
<1> QED
  BY <1>1, <1>2
     DEF ManualStep, ManualFinalize, ManualRelease, ManualThrow, ManualDie, ExpireLease,
         DayPasses, WeekPasses, ManualLock, ComeDue, ExpireLock, vars

-----------------------------------------------------------------------------
(* Who holds the scheduler lease.                                          *)

\* Renewals and the passing of time do not change the owner.
LEMMA Owners ==
  ASSUME NEW l \in Lease, NEW a
  PROVE  /\ Renewed(l).owner = l.owner /\ Aged(l).owner = l.owner
         /\ Taken(a).owner = a
         /\ Renewed(l).fresh /\ ~Aged(l).fresh
         /\ \A b \in Actors : Holds(Released(l, a), b) => Holds(l, b) /\ b # a
         /\ \A b \in Actors : Holds(Bereft(l, a), b) => Holds(l, b) /\ b # a
BY ActorsAssumption
   DEF Lease, Renewed, Aged, Taken, Released, Bereft, Holds, Unheld

LEMMA HolderStep ==
  ASSUME Shape, [Next]_vars
  PROVE  \A s \in Ticks : Holds(lease', s) => tick'[s].pc \notin {"idle", "lease"}
<1> DEFINE Past(s) == Holds(lease', s) => tick'[s].pc \notin {"idle", "lease"}
           Goal == \A s \in Ticks : Past(s)
<1>1. lease \in Lease /\ \A s \in Ticks : s \in Actors
  BY DEF Shape, TypeOK, Actors
<1>2. \A s \in Ticks : Holds(lease, s) => tick[s].pc \notin {"idle", "lease"}
  BY DEF Shape, Placed, Working
<1>3. ASSUME NEW t \in Ticks, Aside(t), lease'.owner = lease.owner,
             tick'[t].pc \notin {"idle", "lease"}
      PROVE  Goal
  BY <1>2, <1>3 DEF Aside, Alike, Holds
<1>4. ASSUME \A s \in Ticks : Alike(s), lease' = lease \/ lease' = Unheld
      PROVE  Goal
  BY <1>2, <1>4, ActorsAssumption DEF Alike, Holds, Unheld, Actors
<1>5. ASSUME NEW t \in Ticks, NEW l \in Lease, End(t, l),
             \A s \in Ticks : Holds(l, s) => s = t \/ Holds(lease, s)
      PROVE  Goal
  <2>1. lease' = Bereft(l, t) /\ Aside(t)
    BY <1>5, EndLeads DEF End
  <2> QED
    BY <1>1, <1>2, <1>5, <2>1, Owners DEF Aside, Alike
<1>6. ASSUME NEW t \in Ticks, FindHeld(t) \/ Finish(t) \/ Die(t)
      PROVE  Goal
  <2>1. CASE FindHeld(t) \/ Die(t)
    BY <1>1, <1>5, <2>1 DEF FindHeld, Die
  <2>2. CASE Finish(t)
    <3>1. Released(lease, t) \in Lease /\ End(t, Released(lease, t))
      BY <1>1, <2>2, LeaseEdits DEF Finish
    <3>2. \A s \in Ticks : Holds(Released(lease, t), s) => Holds(lease, s)
      BY <1>1, Owners
    <3> QED
      BY <1>5, <3>1, <3>2
  <2> QED
    BY <1>6, <2>1, <2>2
<1>7. ASSUME NEW t \in Ticks, Acquire(t)
      PROVE  Goal
  <2>1. lease' = Taken(t) /\ Aside(t) /\ tick'[t].pc \in {"digest", "lock"}
    BY <1>7, AcquireLeads DEF Acquire
  <2> QED
    BY <1>1, <2>1, Owners DEF Aside, Alike, Holds
<1>8. ASSUME NEW t \in Ticks, Begin(t)
      PROVE  Goal
  <2>1. lease' = lease /\ Aside(t) /\ tick[t].pc = "idle"
    BY <1>8, BeginLeads DEF Begin, At, tables
  <2> QED
    BY <1>2, <2>1 DEF Aside, Alike, Holds
<1>9. ASSUME NEW t \in Ticks, NEW p \in PCs, Goto(t, p), p \notin {"idle", "lease"}, lease' = lease
      PROVE  Goal
  BY <1>3, <1>9, Onwards
<1>10. ASSUME NEW t \in Ticks,
              \/ Stop(t) \/ Digest(t) \/ SendDigest(t) \/ SendUnanswered(t) \/ SaveDigest(t)
              \/ ClaimCleanup(t) \/ Prune(t) \/ Unclaim(t)
       PROVE  Goal
  <2>1. /\ lease' = lease
        /\ \E p \in {"count", "save", "send", "clean", "prune", "finish"} : Goto(t, p)
    BY <1>10 DEF Stop, Digest, SendDigest, SendUnanswered, SaveDigest, ClaimCleanup, Prune,
                 Unclaim, tables
  <2> QED
    BY <1>9, <2>1, PlacesOfCode
<1>11. ASSUME NEW t \in Ticks, LockTracker(t) \/ Renew(t) \/ Beat(t) \/ Search(t)
       PROVE  Goal
  <2>1. lease'.owner = lease.owner
    BY <1>1, <1>11, Owners DEF LockTracker, Renew, Beat, Search
  <2>2. Aside(t) /\ tick'[t].pc \notin {"idle", "lease"}
    BY <1>11, LockLeads, RenewLeads, BeatLeads, SearchLeads
  <2> QED
    BY <1>3, <2>1, <2>2
<1>12. ASSUME NEW t \in Ticks, Finalize(t) \/ ReleaseTracker(t) \/ Count(t) \/ Throw(t)
       PROVE  Goal
  <2>1. lease'.owner = lease.owner
    BY <1>1, <1>12, Owners DEF Finalize, ReleaseTracker, Count, Throw, tables
  <2>2. Aside(t) /\ tick'[t].pc \notin {"idle", "lease"}
    BY <1>12, FinalizeLeads, ReleaseLeads, CountLeads, ThrowLeads
  <2> QED
    BY <1>3, <2>1, <2>2
<1>13. ASSUME \/ ManualStep \/ ManualThrow \/ ManualDie \/ ExpireLease \/ DayPasses \/ WeekPasses
              \/ \E k \in Trackers : ManualLock(k) \/ ComeDue(k) \/ ExpireLock(k)
              \/ UNCHANGED vars
       PROVE  Goal
  <2>1. lease' = lease \/ lease' = Unheld
    BY <1>13 DEF ManualStep, ManualFinalize, ManualRelease, ManualThrow, ManualDie, ExpireLease,
                 DayPasses, WeekPasses, ManualLock, ComeDue, ExpireLock, vars, tables
  <2> QED
    BY <1>4, <1>13, <2>1, OutsideAlike
<1> HIDE DEF Goal
<1>14. Goal
  BY <1>6, <1>7, <1>8, <1>10, <1>11, <1>12, <1>13 DEF Next, TickStep
<1> QED
  BY <1>14 DEF Goal

LEMMA ShapeStep ==
  ASSUME Shape, [Next]_vars
  PROVE  Shape'
BY MemoryStep, LeasesStep, OthersStep, CountersStep, HolderStep
   DEF Shape, TypeOK, Placed, Working

\* Whatever throws, stalls or dies, the state keeps its type.
LEMMA Typed == Spec => []Shape
BY ShapeInit, ShapeStep, PTL DEF Spec

-----------------------------------------------------------------------------
(* Mutual exclusion.  A search happens between a renewal of both leases and *)
(* the next, so it is over before either can run out.                      *)

Firm(l, a) == Holds(l, a) /\ l.fresh

\* Whoever searches has just renewed the scheduler lease and the tracker's lock;
\* a check by hand that is never slow still has the lock it took.
Covered ==
    /\ \A t \in Ticks : At(t, "search") => Firm(lease, t) /\ Firm(lock[Now(t)], t)
    /\ manual.busy /\ ~Slow => Firm(lock[manual.on], User)

LEMMA CoveredInit == Init => Covered
BY DEF Init, Covered, At, Idle, NoCheck

\* A step of somebody else takes from a no lease that a has just renewed.
Keeps(a) ==
    /\ Firm(lease, a) => Firm(lease', a)
    /\ \A k \in Trackers : Firm(lock[k], a) => Firm(lock'[k], a)

LEMMA FirmEdits ==
  ASSUME NEW l \in Lease, NEW a \in Actors, NEW b \in Actors \ {a}
  PROVE  /\ Firm(l, a) => Firm(Renewed(l), a)
         /\ Firm(l, a) => ~Holds(l, b) /\ ~Free(l)
         /\ Firm(l, a) => Firm(Released(l, b), a) /\ Firm(Bereft(l, b), a)
BY ActorsAssumption DEF Firm, Holds, Lease, Renewed, Free, Released, Bereft

LEMMA TickKeeps ==
  ASSUME Shape, NEW t \in Ticks, Begin(t) \/ TickStep(t) \/ SendUnanswered(t) \/ Throw(t) \/ Die(t),
         NEW a \in Actors \ {t}
  PROVE  Keeps(a)
<1>1. /\ lease \in Lease /\ lock \in [Trackers -> Lease]
      /\ a \in Actors /\ t \in Actors \ {a}
      /\ \A k \in Trackers : lock[k] \in Lease
  BY DEF Shape, TypeOK, Actors
<1>2. ASSUME NEW l, lease' = Bereft(l, t), lock' = [k \in Trackers |-> Bereft(lock[k], t)],
             l = lease \/ l = Released(lease, t)
      PROVE  Keeps(a)
  <2>1. ASSUME NEW k \in Trackers, Firm(lock[k], a)
        PROVE  Firm(lock'[k], a)
    BY <1>1, <1>2, <2>1, FirmEdits
  <2>2. ASSUME Firm(lease, a)
        PROVE  Firm(lease', a)
    BY <1>1, <1>2, <2>2, FirmEdits, LeaseEdits
  <2> QED
    BY <2>1, <2>2 DEF Keeps
<1>3. CASE FindHeld(t) \/ Finish(t) \/ Die(t)
  BY <1>2, <1>3 DEF FindHeld, Finish, Die, End
<1>4. CASE Acquire(t)
  BY <1>1, <1>4, FirmEdits DEF Acquire, Keeps
<1>5. CASE LockTracker(t)
  BY <1>1, <1>5, FirmEdits DEF LockTracker, Keeps
<1>6. CASE Renew(t)
  BY <1>1, <1>6, FirmEdits DEF Renew, Keeps
<1>7. CASE Beat(t)
  <2>1. /\ lease' = lease \/ lease' = Renewed(lease)
        /\ lock' = lock \/ lock' = [lock EXCEPT ![Now(t)] = Renewed(lock[Now(t)])]
    BY <1>7 DEF Beat
  <2> QED
    BY <1>1, <2>1, FirmEdits DEF Keeps
<1>8. CASE Search(t)
  BY <1>1, <1>8, FirmEdits DEF Search, Keeps
<1>9. CASE ReleaseTracker(t)
  BY <1>1, <1>9, FirmEdits DEF ReleaseTracker, Keeps
<1>10. CASE Throw(t)
  <2>1. /\ lease' = IF Holds(lease, t) THEN Aged(lease) ELSE lease
        /\ lock' = [k \in Trackers |-> IF Holds(lock[k], t) THEN Aged(lock[k]) ELSE lock[k]]
    BY <1>10 DEF Throw
  <2> QED
    BY <1>1, <2>1, FirmEdits DEF Keeps
<1>11. CASE \/ Begin(t) \/ Stop(t) \/ Finalize(t) \/ Count(t) \/ Digest(t) \/ SendDigest(t)
            \/ SendUnanswered(t) \/ SaveDigest(t) \/ ClaimCleanup(t) \/ Prune(t) \/ Unclaim(t)
  BY <1>11 DEF Begin, Stop, Finalize, Count, Digest, SendDigest, SendUnanswered, SaveDigest,
               ClaimCleanup, Prune, Unclaim, tables, Keeps
<1> QED
  BY <1>3, <1>4, <1>5, <1>6, <1>7, <1>8, <1>9, <1>10, <1>11 DEF TickStep

LEMMA ManualKeeps ==
  ASSUME Shape, ManualStep \/ ManualThrow \/ ManualDie \/ \E k \in Trackers : ManualLock(k),
         NEW a \in Ticks
  PROVE  Keeps(a)
<1>1. /\ lease \in Lease /\ lock \in [Trackers -> Lease]
      /\ a \in Actors /\ User \in Actors \ {a}
      /\ \A k \in Trackers : lock[k] \in Lease
  BY ActorsAssumption DEF Shape, TypeOK, Actors
<1>2. CASE ManualFinalize \/ ManualThrow
  BY <1>2 DEF ManualFinalize, ManualThrow, tables, Keeps
<1>3. CASE ManualRelease \/ ManualDie
  <2>1. PICK k : /\ \/ lock' = [lock EXCEPT ![k] = Released(lock[k], User)]
                    \/ lock' = [lock EXCEPT ![k] = Bereft(lock[k], User)]
                 /\ lease' = lease
    BY <1>3 DEF ManualRelease, ManualDie
  <2> QED
    BY <1>1, <2>1, FirmEdits DEF Keeps
<1>4. ASSUME NEW k \in Trackers, ManualLock(k)
      PROVE  Keeps(a)
  BY <1>1, <1>4, FirmEdits DEF ManualLock, Keeps
<1> QED
  BY <1>2, <1>3, <1>4 DEF ManualStep

LEMMA TimeKeeps ==
  ASSUME Shape, \/ ExpireLease \/ DayPasses \/ WeekPasses \/ UNCHANGED vars
                \/ \E k \in Trackers : ComeDue(k) \/ ExpireLock(k),
         NEW a \in Actors
  PROVE  Keeps(a)
<1>1. lock \in [Trackers -> Lease]
  BY DEF Shape, TypeOK
<1>2. CASE ExpireLease
  BY <1>2 DEF ExpireLease, RunsOut, Keeps, Firm
<1>3. ASSUME NEW k \in Trackers, ExpireLock(k)
      PROVE  Keeps(a)
  BY <1>1, <1>3 DEF ExpireLock, RunsOut, Keeps, Firm
<1>4. CASE DayPasses \/ WeekPasses \/ UNCHANGED vars \/ \E k \in Trackers : ComeDue(k)
  BY <1>4 DEF DayPasses, WeekPasses, vars, tables, ComeDue, Keeps
<1> QED
  BY <1>2, <1>3, <1>4

LEMMA CoveredStep ==
  ASSUME Shape, Covered, [Next]_vars
  PROVE  Covered'
<1> DEFINE Ticking(s) == tick'[s].pc = "search" =>
                           Firm(lease', s) /\ Firm(lock'[Head(tick'[s].todo)], s)
           ByHand == manual'.busy /\ ~Slow => Firm(lock'[manual'.on], User)
<1>1. ASSUME NEW s \in Ticks, Alike(s), Keeps(s)
      PROVE  Ticking(s)
  <2>1. tick[s].pc = "search" => Now(s) \in Trackers
    BY HeadOfTodo DEF Shape, Placed, Fit, OnTracker
  <2> QED
    BY <1>1, <2>1 DEF Covered, At, Now, Alike, Keeps
<1>2. ASSUME Keeps(User), manual' = manual
      PROVE  ByHand
  BY <1>2 DEF Covered, Keeps, Shape, Placed
<1>3. ASSUME NEW t \in Ticks,
             Begin(t) \/ TickStep(t) \/ SendUnanswered(t) \/ Throw(t) \/ Die(t),
             Aside(t), tick'[t].pc # "search", manual' = manual
      PROVE  ByHand /\ \A s \in Ticks : Ticking(s)
  BY <1>1, <1>2, <1>3, TickKeeps, ActorsAssumption DEF Aside, Actors
<1>4. ASSUME NEW t \in Ticks, Beat(t)
      PROVE  ByHand /\ \A s \in Ticks : Ticking(s)
  <2>1. Aside(t) /\ manual' = manual /\ tick[t].pc = "beat"
    BY <1>4, BeatLeads DEF Beat, At
  <2>2. CASE Holds(lease, t) /\ Holds(lock[Now(t)], t)
    <3>1. /\ lease' = Renewed(lease) /\ lock' = [lock EXCEPT ![Now(t)] = Renewed(lock[Now(t)])]
          /\ tick'[t].todo = tick[t].todo
      BY <1>4, <2>2, BeatLeads DEF Beat
    <3>2. lease \in Lease /\ lock \in [Trackers -> Lease] /\ Now(t) \in Trackers
      BY <2>1, HeadOfTodo DEF Shape, TypeOK, Placed, Fit, OnTracker
    <3>3. Ticking(t)
      BY <2>2, <3>1, <3>2, Owners DEF Firm, Holds, Now
    <3> QED
      BY <1>1, <1>2, <1>4, <2>1, <3>3, TickKeeps, ActorsAssumption DEF TickStep, Aside, Actors
  <2>3. CASE tick'[t].pc # "search"
    BY <1>3, <1>4, <2>1, <2>3 DEF TickStep
  <2> QED
    BY <1>4, <2>2, <2>3, BeatLeads
<1>5. ASSUME NEW t \in Ticks, NEW p \in PCs \ {"search"}, Goto(t, p)
      PROVE  Aside(t) /\ tick'[t].pc # "search"
  BY <1>5, Onwards
<1>6. ASSUME NEW t \in Ticks,
             \/ Stop(t) \/ Digest(t) \/ SendDigest(t) \/ SendUnanswered(t) \/ SaveDigest(t)
             \/ ClaimCleanup(t) \/ Prune(t) \/ Unclaim(t)
      PROVE  ByHand /\ \A s \in Ticks : Ticking(s)
  <2>1. /\ manual' = manual
        /\ \E p \in {"count", "save", "send", "clean", "prune", "finish"} : Goto(t, p)
    BY <1>6 DEF Stop, Digest, SendDigest, SendUnanswered, SaveDigest, ClaimCleanup, Prune,
                Unclaim
  <2> QED
    BY <1>3, <1>5, <1>6, <2>1, PlacesOfCode DEF TickStep
<1>7. ASSUME NEW t \in Ticks,
             \/ Begin(t) \/ Acquire(t) \/ LockTracker(t) \/ Renew(t) \/ Search(t) \/ Finalize(t)
             \/ ReleaseTracker(t) \/ Count(t) \/ Throw(t)
      PROVE  ByHand /\ \A s \in Ticks : Ticking(s)
  <2>1. manual' = manual
    BY <1>7 DEF Begin, Acquire, LockTracker, Renew, Search, Finalize, ReleaseTracker, Count, Throw
  <2>2. Aside(t) /\ tick'[t].pc # "search"
    BY <1>7, BeginLeads, AcquireLeads, LockLeads, RenewLeads, SearchLeads, FinalizeLeads,
       ReleaseLeads, CountLeads, ThrowLeads
  <2> QED
    BY <1>3, <1>7, <2>1, <2>2 DEF TickStep
<1>8. ASSUME NEW t \in Ticks, FindHeld(t) \/ Finish(t) \/ Die(t)
      PROVE  ByHand /\ \A s \in Ticks : Ticking(s)
  <2>1. manual' = manual /\ Aside(t) /\ tick'[t].pc # "search"
    BY <1>8, EndLeads DEF FindHeld, Finish, Die, Idle
  <2> QED
    BY <1>3, <1>8, <2>1 DEF TickStep
<1>9. ASSUME ManualStep \/ ManualThrow \/ ManualDie \/ \E k \in Trackers : ManualLock(k)
      PROVE  ByHand /\ \A s \in Ticks : Ticking(s)
  <2>1. \A s \in Ticks : Ticking(s)
    BY <1>1, <1>9, ManualKeeps, OutsideAlike
  <2>2. ASSUME ManualStep \/ ManualThrow \/ ManualDie
        PROVE  ByHand
    <3>1. manual' = [manual EXCEPT !.busy = FALSE] \/ manual' = NoCheck
      BY <2>2 DEF ManualStep, ManualFinalize, ManualRelease, ManualThrow, ManualDie
    <3>2. ~manual'.busy
      BY <3>1 DEF NoCheck, Shape, TypeOK
    <3> QED
      BY <3>2
  <2>3. ASSUME NEW k \in Trackers, ManualLock(k)
        PROVE  ByHand
    BY <2>3, LimitsAssumption DEF ManualLock, Taken, Firm, Holds, Shape, TypeOK
  <2> QED
    BY <1>9, <2>1, <2>2, <2>3
<1>10. ASSUME \/ ExpireLease \/ DayPasses \/ WeekPasses \/ UNCHANGED vars
              \/ \E k \in Trackers : ComeDue(k) \/ ExpireLock(k)
       PROVE  ByHand /\ \A s \in Ticks : Ticking(s)
  <2>1. manual' = manual
    BY <1>10 DEF ExpireLease, DayPasses, WeekPasses, ComeDue, ExpireLock, vars
  <2> QED
    BY <1>1, <1>2, <1>10, <2>1, TimeKeeps, OutsideAlike DEF Actors
<1> HIDE DEF Ticking, ByHand
<1>11. ByHand /\ \A s \in Ticks : Ticking(s)
  BY <1>4, <1>6, <1>7, <1>8, <1>9, <1>10 DEF Next, TickStep
<1> QED
  BY <1>11 DEF Ticking, ByHand, Covered, At, Now

LEMMA Safe == Spec => [](Shape /\ Covered)
<1>1. Init => Shape /\ Covered
  BY ShapeInit, CoveredInit
<1>2. Shape /\ Covered /\ [Next]_vars => (Shape /\ Covered)'
  BY ShapeStep, CoveredStep
<1> QED
  BY <1>1, <1>2, PTL DEF Spec

\* Whatever throws, stalls or dies, two invocations of Cron never search at once:
\* withLease and the heartbeat of scheduled.ts.
THEOREM TicksExclude == Spec => []OneTickSearches
<1>1. Shape /\ Covered => OneTickSearches
  BY DEF Covered, OneTickSearches, Firm, Holds
<1> QED
  BY <1>1, Safe, PTL

\* And nobody searches a tracker that somebody else is searching, as long as a
\* check by hand is over before its lock runs out.
THEOREM SearchesExclude ==
  ASSUME Slow = FALSE
  PROVE  Spec => []NoDoubleSearch
<1>1. Shape /\ Covered => NoDoubleSearch
  <2> SUFFICES ASSUME Shape, Covered, NEW a \in Actors, NEW b \in Actors, a # b,
                      NEW k \in Searching(a), k \in Searching(b)
               PROVE  FALSE
    BY DEF NoDoubleSearch
  <2>1. ASSUME NEW c \in Actors, k \in Searching(c)
        PROVE  Firm(lock[k], c)
    BY <2>1 DEF Searching, Covered, Actors
  <2> QED
    BY <2>1 DEF Firm, Holds
<1> QED
  BY <1>1, Safe, PTL

-----------------------------------------------------------------------------
(* The budget of an invocation.                                            *)

\* What a tick has searched and may still search is never more than Queries; it
\* counts what it has spent when a check ends, and its units come out of what
\* was left then.
Thrifty(s) ==
    /\ tick[s].pc \in {"idle", "lease"} => s \notin threw /\ searches[s] = 0
    /\ tick[s].pc \in {"idle", "lease", "lock", "renew", "release"} => tick[s].spent = 0
    /\ s \notin threw =>
         /\ searches[s] <= Queries
         /\ tick[s].pc \in Checking => searches[s] + tick[s].budget - tick[s].spent <= Queries
         /\ tick[s].pc \in {"beat", "search"} => searches[s] + tick[s].units <= Queries

Budgeted == \A s \in Ticks : Thrifty(s)

LEMMA BudgetedInit == Init => Budgeted
BY LimitsAssumption DEF Init, Budgeted, Thrifty, Idle, Checking, OnTracker

LEMMA BudgetedStep ==
  ASSUME Shape, Budgeted, [Next]_vars
  PROVE  Budgeted'
<1> DEFINE After(s) ==
      /\ tick'[s].pc \in {"idle", "lease"} => s \notin threw' /\ searches'[s] = 0
      /\ tick'[s].pc \in {"idle", "lease", "lock", "renew", "release"} => tick'[s].spent = 0
      /\ s \notin threw' =>
         /\ searches'[s] <= Queries
         /\ tick'[s].pc \in Checking => searches'[s] + tick'[s].budget - tick'[s].spent <= Queries
         /\ tick'[s].pc \in {"beat", "search"} => searches'[s] + tick'[s].units <= Queries
           Goal == \A s \in Ticks : After(s)
<1> USE DEF Checking, OnTracker
<1>1. /\ searches \in [Ticks -> Nat] /\ Queries \in Nat
      /\ \A s \in Ticks : /\ searches[s] \in Nat /\ tick[s].budget \in Int
                          /\ tick[s].spent \in Nat /\ tick[s].units \in Nat
  BY MemoryType, LimitsAssumption DEF Shape, TypeOK
<1>2. ASSUME NEW s \in Ticks, Alike(s), searches'[s] = searches[s], s \in threw' <=> s \in threw
      PROVE  After(s)
  BY <1>2 DEF Budgeted, Thrifty, Alike
<1>3. ASSUME NEW t \in Ticks, Aside(t), searches' = searches, threw' = threw, After(t)
      PROVE  Goal
  BY <1>2, <1>3 DEF Aside
<1>4. ASSUME NEW t \in Ticks, NEW p \in {"count", "send", "save", "clean", "prune", "finish"},
             Goto(t, p), searches' = searches, threw' = threw, tick[t].pc \notin {"idle", "lease"}
      PROVE  Goal
  <2>1. Aside(t) /\ tick'[t].pc = p
    BY <1>4, Onwards, PlacesOfCode
  <2>2. After(t)
    BY <1>4, <2>1 DEF Budgeted, Thrifty
  <2> QED
    BY <1>3, <1>4, <2>1, <2>2
<1>5. ASSUME NEW t \in Ticks,
             \/ Stop(t) \/ Digest(t) \/ SendDigest(t) \/ SendUnanswered(t) \/ SaveDigest(t)
             \/ ClaimCleanup(t) \/ Prune(t) \/ Unclaim(t)
      PROVE  Goal
  <2>1. /\ searches' = searches /\ threw' = threw /\ tick[t].pc \notin {"idle", "lease"}
        /\ \E p \in {"count", "save", "send", "clean", "prune", "finish"} : Goto(t, p)
    BY <1>5 DEF Stop, Digest, SendDigest, SendUnanswered, SaveDigest, ClaimCleanup, Prune,
                Unclaim, history, At
  <2> QED
    BY <1>4, <2>1
<1>6. ASSUME NEW t \in Ticks, Begin(t)
      PROVE  Goal
  <2>1. searches' = searches /\ threw' = threw /\ tick[t].pc = "idle"
    BY <1>6 DEF Begin, history, At
  <2> QED
    BY <1>3, <1>6, <2>1, BeginLeads DEF Budgeted, Thrifty
<1>7. ASSUME NEW t \in Ticks, Acquire(t)
      PROVE  Goal
  <2>1. searches' = searches /\ threw' = threw /\ tick[t].pc = "lease"
    BY <1>7 DEF Acquire, history, At
  <2> QED
    BY <1>1, <1>3, <1>7, <2>1, AcquireLeads DEF Budgeted, Thrifty
<1>8. ASSUME NEW t \in Ticks, LockTracker(t)
      PROVE  Goal
  <2>1. searches' = searches /\ threw' = threw /\ tick[t].pc = "lock"
    BY <1>8 DEF LockTracker, history, At
  <2> QED
    BY <1>1, <1>3, <1>8, <2>1, LockLeads DEF Budgeted, Thrifty
<1>9. ASSUME NEW t \in Ticks, Renew(t)
      PROVE  Goal
  <2>1. searches' = searches /\ threw' = threw /\ tick[t].pc = "renew"
    BY <1>9 DEF Renew, history, At
  <2>2. tick'[t].units \in Nat
    BY MemoryStep DEF TickState
  <2>3. After(t)
    BY <1>1, <1>9, <2>1, <2>2, RenewLeads DEF Budgeted, Thrifty
  <2> QED
    BY <1>3, <1>9, <2>1, <2>3, RenewLeads
<1>10. ASSUME NEW t \in Ticks, Beat(t)
       PROVE  Goal
  <2>1. searches' = searches /\ threw' = threw /\ tick[t].pc = "beat"
    BY <1>10 DEF Beat, history, At
  <2> QED
    BY <1>1, <1>3, <1>10, <2>1, BeatLeads DEF Budgeted, Thrifty
<1>11. ASSUME NEW t \in Ticks, Search(t)
       PROVE  Goal
  <2>1. threw' = threw /\ tick[t].pc = "search" /\ tick[t].units > 0
    BY <1>11 DEF Search, At, Shape, Placed, Fit
  <2>2. Aside(t) /\ \A s \in Ticks \ {t} : searches'[s] = searches[s]
    BY <1>1, <1>11, SearchLeads
  <2>3. After(t)
    <3>1. CASE tick'[t].spent = tick[t].spent /\ searches' = searches
      BY <1>1, <1>11, <2>1, <3>1, SearchLeads DEF Budgeted, Thrifty
    <3>2. CASE /\ tick'[t].spent >= tick[t].spent + 1
               /\ searches' = [searches EXCEPT ![t] = searches[t] + 1]
      <4>1. tick'[t].spent \in Nat /\ searches'[t] = searches[t] + 1
        BY <1>1, <3>2, MemoryStep DEF TickState
      <4> QED
        BY <1>1, <1>11, <2>1, <3>2, <4>1, SearchLeads DEF Budgeted, Thrifty
    <3> QED
      BY <1>11, <3>1, <3>2, SearchLeads
  <2> QED
    BY <1>2, <2>1, <2>2, <2>3 DEF Aside
<1>12. ASSUME NEW t \in Ticks, Finalize(t)
       PROVE  Goal
  <2>1. searches' = searches /\ threw' = threw /\ tick[t].pc = "finalize"
    BY <1>12 DEF Finalize, history, At
  <2> QED
    BY <1>1, <1>3, <1>12, <2>1, FinalizeLeads DEF Budgeted, Thrifty
<1>13. ASSUME NEW t \in Ticks, ReleaseTracker(t)
       PROVE  Goal
  <2>1. searches' = searches /\ threw' = threw /\ tick[t].pc = "release"
    BY <1>13 DEF ReleaseTracker, history, At
  <2> QED
    BY <1>1, <1>3, <1>13, <2>1, ReleaseLeads DEF Budgeted, Thrifty
<1>14. ASSUME NEW t \in Ticks, Count(t)
       PROVE  Goal
  <2>1. searches' = searches /\ threw' = threw /\ tick[t].pc = "count"
    BY <1>14 DEF Count, history, At
  <2> QED
    BY <1>1, <1>3, <1>14, <2>1, CountLeads DEF Budgeted, Thrifty
<1>15. ASSUME NEW t \in Ticks, Throw(t)
       PROVE  Goal
  <2>1. /\ searches' = [searches EXCEPT ![t] = IF tick[t].pc = "search" THEN @ + 1 ELSE @]
        /\ threw' = IF Catch(tick[t].pc) = "release" THEN threw \cup {t} ELSE threw
        /\ tick[t].pc \notin {"idle", "lease"}
    BY <1>15 DEF Throw, Working
  <2>2. Aside(t) /\ \A s \in Ticks \ {t} : searches'[s] = searches[s] /\ (s \in threw' <=> s \in threw)
    BY <1>1, <1>15, <2>1, ThrowLeads
  <2>3. After(t)
    <3>1. tick[t].pc # "search" => searches' = searches
      BY <1>1, <2>1
    <3>2. Catch("search") = "release"
      BY DEF Catch
    <3>3. tick'[t].pc = Catch(tick[t].pc) /\ tick'[t].pc \in {"finish", "release", "clean", "unclaim"}
      BY <1>15, ThrowLeads
    <3>4. tick'[t].pc = "release" => t \in threw' /\ tick'[t].spent = 0
      BY <1>15, <2>1, <3>3, ThrowLeads
    <3>5. tick'[t].pc # "release" => t \in threw' \/ searches'[t] <= Queries
      BY <2>1, <3>1, <3>2, <3>3 DEF Budgeted, Thrifty
    <3> QED
      BY <3>3, <3>4, <3>5
  <2> QED
    BY <1>2, <2>2, <2>3 DEF Aside
<1>16. ASSUME NEW t \in Ticks, FindHeld(t) \/ Finish(t) \/ Die(t)
       PROVE  Goal
  <2>1. /\ searches' = [searches EXCEPT ![t] = 0] /\ threw' = threw \ {t}
        /\ Aside(t) /\ tick'[t] = Idle
    BY <1>16, EndLeads DEF FindHeld, Finish, Die, End
  <2>2. After(t)
    BY <1>1, <2>1 DEF Idle
  <2> QED
    BY <1>1, <1>2, <2>1, <2>2 DEF Aside
<1>17. ASSUME \/ ManualStep \/ ManualThrow \/ ManualDie \/ ExpireLease \/ DayPasses \/ WeekPasses
              \/ \E k \in Trackers : ManualLock(k) \/ ComeDue(k) \/ ExpireLock(k)
              \/ UNCHANGED vars
       PROVE  Goal
  <2>1. searches' = searches /\ threw' = threw
    BY <1>17 DEF ManualStep, ManualFinalize, ManualRelease, ManualThrow, ManualDie, ExpireLease,
                 DayPasses, WeekPasses, ManualLock, ComeDue, ExpireLock, vars, history
  <2> QED
    BY <1>2, <1>17, <2>1, OutsideAlike
<1> HIDE DEF Goal
<1>18. Goal
  BY <1>5, <1>6, <1>7, <1>8, <1>9, <1>10, <1>11, <1>12, <1>13, <1>14, <1>15, <1>16, <1>17
     DEF Next, TickStep
<1> QED
  BY <1>18 DEF Goal, Budgeted, Thrifty

-----------------------------------------------------------------------------
(* The claim on the day's cleanup.                                         *)

LEMMA ClaimsInit == Init => ClaimsAreWorkedOff
BY ActorsAssumption DEF Init, ClaimsAreWorkedOff, Idle

LEMMA ClaimsStep ==
  ASSUME Shape, ClaimsAreWorkedOff, [Next]_vars
  PROVE  ClaimsAreWorkedOff'
<1> DEFINE Worked(s) == /\ cleanup' = s => tick'[s].pc \in {"prune", "unclaim"}
                        /\ tick'[s].pc = "prune" => cleanup' = s
           Goal == \A s \in Ticks : Worked(s)
<1>1. ASSUME NEW s \in Ticks, Alike(s), cleanup' = s <=> cleanup = s
      PROVE  Worked(s)
  BY <1>1 DEF ClaimsAreWorkedOff, Alike
<1>2. ASSUME NEW t \in Ticks, Aside(t), Worked(t),
             \/ cleanup' = cleanup
             \/ cleanup' \in {t, "due", "done", "lost"} /\ cleanup \in {t, "due"}
      PROVE  Goal
  BY <1>1, <1>2, ActorsAssumption DEF Aside
<1>3. ASSUME NEW t \in Ticks, Aside(t), cleanup' = cleanup,
             tick[t].pc \notin {"prune", "unclaim"}, tick'[t].pc # "prune"
      PROVE  Goal
  BY <1>2, <1>3 DEF ClaimsAreWorkedOff
<1>4. ASSUME NEW t \in Ticks,
             \/ Begin(t) \/ Acquire(t) \/ LockTracker(t) \/ Renew(t) \/ Beat(t) \/ Search(t)
             \/ Finalize(t) \/ ReleaseTracker(t) \/ Count(t)
      PROVE  Goal
  <2>1. cleanup' = cleanup /\ tick[t].pc \notin {"prune", "unclaim"}
    BY <1>4 DEF Begin, Acquire, LockTracker, Renew, Beat, Search, Finalize, ReleaseTracker, Count,
                tables, At
  <2>2. Aside(t) /\ tick'[t].pc # "prune"
    BY <1>4, BeginLeads, AcquireLeads, LockLeads, RenewLeads, BeatLeads, SearchLeads,
       FinalizeLeads, ReleaseLeads, CountLeads
  <2> QED
    BY <1>3, <2>1, <2>2
<1>5. ASSUME NEW t \in Ticks,
             Stop(t) \/ Digest(t) \/ SendDigest(t) \/ SendUnanswered(t) \/ SaveDigest(t)
      PROVE  Goal
  <2>1. /\ cleanup' = cleanup /\ tick[t].pc \notin {"prune", "unclaim"}
        /\ \E p \in {"count", "send", "save", "clean"} : Goto(t, p)
    BY <1>5 DEF Stop, Digest, SendDigest, SendUnanswered, SaveDigest, tables, At
  <2> QED
    BY <1>3, <2>1, Onwards, PlacesOfCode
<1>6. ASSUME NEW t \in Ticks, ClaimCleanup(t)
      PROVE  Goal
  <2>1. CASE cleanup = "due"
    <3>1. cleanup' = t /\ Goto(t, "prune")
      BY <1>6, <2>1 DEF ClaimCleanup
    <3> QED
      BY <1>2, <2>1, <3>1, Onwards, PlacesOfCode
  <2>2. CASE cleanup # "due"
    <3>1. cleanup' = cleanup /\ Goto(t, "finish") /\ tick[t].pc = "clean"
      BY <1>6, <2>2 DEF ClaimCleanup, At
    <3> QED
      BY <1>3, <3>1, Onwards, PlacesOfCode
  <2> QED
    BY <2>1, <2>2
<1>7. ASSUME NEW t \in Ticks, Prune(t) \/ Unclaim(t)
      PROVE  Goal
  <2>1. /\ Goto(t, "finish")
        /\ \/ cleanup = t /\ cleanup' \in {"done", "due"}
           \/ cleanup # t /\ cleanup' = cleanup
    BY <1>7 DEF Prune, Unclaim, GivenBack
  <2>2. Aside(t) /\ tick'[t].pc = "finish" /\ cleanup' # t
    BY <2>1, Onwards, PlacesOfCode, ActorsAssumption
  <2> QED
    BY <1>2, <2>1, <2>2
<1>8. ASSUME NEW t \in Ticks, Throw(t)
      PROVE  Goal
  <2>1. /\ cleanup' = IF tick[t].pc = "unclaim" /\ cleanup = t THEN "lost" ELSE cleanup
        /\ Aside(t) /\ tick'[t].pc = Catch(tick[t].pc)
        /\ tick'[t].pc \in {"finish", "release", "clean", "unclaim"}
    BY <1>8, ThrowLeads DEF Throw
  <2>2. Worked(t)
    BY <2>1, ActorsAssumption DEF ClaimsAreWorkedOff, Catch
  <2> QED
    BY <1>2, <2>1, <2>2
<1>9. ASSUME NEW t \in Ticks, FindHeld(t) \/ Finish(t)
      PROVE  Goal
  <2>1. cleanup' = cleanup /\ tick[t].pc \notin {"prune", "unclaim"} /\ Aside(t) /\ tick'[t] = Idle
    BY <1>9, EndLeads DEF FindHeld, Finish, At
  <2> QED
    BY <1>3, <2>1 DEF Idle
<1>10. ASSUME NEW t \in Ticks, Die(t)
       PROVE  Goal
  <2>1. cleanup' = (IF cleanup = t THEN "lost" ELSE cleanup) /\ Aside(t) /\ tick'[t] = Idle
    BY <1>10, EndLeads DEF Die
  <2>2. Worked(t)
    BY <2>1, ActorsAssumption DEF Idle
  <2> QED
    BY <1>2, <2>1, <2>2
<1>11. ASSUME \/ ManualStep \/ ManualThrow \/ ManualDie \/ ExpireLease \/ WeekPasses
              \/ \E k \in Trackers : ManualLock(k) \/ ComeDue(k) \/ ExpireLock(k)
              \/ UNCHANGED vars
       PROVE  Goal
  <2>1. cleanup' = cleanup
    BY <1>11 DEF ManualStep, ManualFinalize, ManualRelease, ManualThrow, ManualDie, ExpireLease,
                 WeekPasses, ManualLock, ComeDue, ExpireLock, vars, tables
  <2> QED
    BY <1>1, <1>11, <2>1, OutsideAlike
<1>12. ASSUME DayPasses
       PROVE  Goal
  BY <1>12, ActorsAssumption DEF DayPasses, Alive
<1> HIDE DEF Goal
<1>13. Goal
  BY <1>4, <1>5, <1>6, <1>7, <1>8, <1>9, <1>10, <1>11, <1>12 DEF Next, TickStep
<1> QED
  BY <1>13 DEF Goal, ClaimsAreWorkedOff

LEMMA Frugal == Spec => [](Shape /\ Budgeted /\ ClaimsAreWorkedOff)
<1>1. Init => Shape /\ Budgeted /\ ClaimsAreWorkedOff
  BY ShapeInit, BudgetedInit, ClaimsInit
<1>2. Shape /\ Budgeted /\ ClaimsAreWorkedOff /\ [Next]_vars
        => (Shape /\ Budgeted /\ ClaimsAreWorkedOff)'
  BY ShapeStep, BudgetedStep, ClaimsStep
<1> QED
  BY <1>1, <1>2, PTL DEF Spec

\* The state keeps its type; an invocation makes no more live searches than
\* MAX_QUERIES_PER_TICK unless an exception kept it from counting them; and who
\* has claimed the day's cleanup is at it (runScheduledTick, runDailyCleanup).
THEOREM TickIsSound == Spec => []TickInv
<1>1. Shape /\ Budgeted /\ ClaimsAreWorkedOff => TickInv
  BY DEF Shape, Budgeted, Thrifty, TickInv, TickBudget
<1> QED
  BY <1>1, Frugal, PTL

-----------------------------------------------------------------------------
(* The outcome.  While nothing went short, what a tick has handled is no    *)
(* longer on its list, and it says "completed" only when nothing is left on *)
(* the list either.                                                        *)

Honest(s) ==
    /\ tick[s].pc \in {"idle", "lease"} => tick[s].handled = {}
    /\ tick[s].pc \in Checking \cup {"idle", "lease", "count"} => ~tick[s].completed
    /\ tick[s].pc \in Checking \cup {"lease", "count"} /\ ~tick[s].short =>
         tick[s].handled \cap tick[s].owed = {}
    /\ tick[s].pc = "release" /\ ~tick[s].short => Now(s) \notin tick[s].owed
    /\ tick[s].completed => tick[s].owed = {}

Accounted == \A s \in Ticks : Honest(s)

LEMMA AccountedInit == Init => Accounted
BY DEF Init, Accounted, Honest, Idle, Checking, OnTracker

LEMMA AccountedStep ==
  ASSUME Shape, Accounted, [Next]_vars
  PROVE  Accounted'
<1> DEFINE After(s) ==
      /\ tick'[s].pc \in {"idle", "lease"} => tick'[s].handled = {}
      /\ tick'[s].pc \in Checking \cup {"idle", "lease", "count"} => ~tick'[s].completed
      /\ tick'[s].pc \in Checking \cup {"lease", "count"} /\ ~tick'[s].short =>
           tick'[s].handled \cap tick'[s].owed = {}
      /\ tick'[s].pc = "release" /\ ~tick'[s].short => Head(tick'[s].todo) \notin tick'[s].owed
      /\ tick'[s].completed => tick'[s].owed = {}
           Goal == \A s \in Ticks : After(s)
<1> USE DEF Checking, OnTracker
<1>1. ASSUME NEW s \in Ticks, Alike(s)
      PROVE  After(s)
  BY <1>1 DEF Accounted, Honest, Alike, Now
<1>2. ASSUME NEW t \in Ticks, Aside(t), After(t)
      PROVE  Goal
  BY <1>1, <1>2 DEF Aside
<1>3. ASSUME NEW t \in Ticks, NEW p \in {"send", "save", "clean", "prune", "finish"}, Goto(t, p)
      PROVE  Goal
  <2>1. Aside(t) /\ After(t)
    BY <1>3, Onwards, PlacesOfCode DEF Accounted, Honest
  <2> QED
    BY <1>2, <2>1
<1>4. ASSUME NEW t \in Ticks,
             \/ Digest(t) \/ SendDigest(t) \/ SendUnanswered(t) \/ SaveDigest(t)
             \/ ClaimCleanup(t) \/ Prune(t) \/ Unclaim(t)
      PROVE  Goal
  BY <1>3, <1>4 DEF Digest, SendDigest, SendUnanswered, SaveDigest, ClaimCleanup, Prune, Unclaim
<1>5. ASSUME NEW t \in Ticks, Stop(t)
      PROVE  Goal
  <2>1. Goto(t, "count") /\ tick[t].pc = "lock"
    BY <1>5 DEF Stop, At
  <2> QED
    BY <1>2, <2>1, Onwards, PlacesOfCode DEF Accounted, Honest
<1>6. ASSUME NEW t \in Ticks, Begin(t)
      PROVE  Goal
  <2>1. tick[t].pc = "idle"
    BY <1>6 DEF Begin, At
  <2> QED
    BY <1>2, <1>6, <2>1, BeginLeads DEF Accounted, Honest
<1>7. ASSUME NEW t \in Ticks, Acquire(t)
      PROVE  Goal
  <2>1. tick[t].pc = "lease"
    BY <1>7 DEF Acquire, At
  <2> QED
    BY <1>2, <1>7, <2>1, AcquireLeads DEF Accounted, Honest
<1>8. ASSUME NEW t \in Ticks, LockTracker(t)
      PROVE  Goal
  <2>1. tick[t].pc = "lock"
    BY <1>8 DEF LockTracker, At
  <2> QED
    BY <1>2, <1>8, <2>1, LockLeads DEF Accounted, Honest
<1>9. ASSUME NEW t \in Ticks, Renew(t)
      PROVE  Goal
  <2>1. tick[t].pc = "renew"
    BY <1>9 DEF Renew, At
  <2> QED
    BY <1>2, <1>9, <2>1, RenewLeads DEF Accounted, Honest
<1>10. ASSUME NEW t \in Ticks, Beat(t)
       PROVE  Goal
  <2>1. tick[t].pc = "beat"
    BY <1>10 DEF Beat, At
  <2> QED
    BY <1>2, <1>10, <2>1, BeatLeads DEF Accounted, Honest
<1>11. ASSUME NEW t \in Ticks, Search(t)
       PROVE  Goal
  <2>1. tick[t].pc = "search"
    BY <1>11 DEF Search, At
  <2> QED
    BY <1>2, <1>11, <2>1, SearchLeads DEF Accounted, Honest
<1>12. ASSUME NEW t \in Ticks, Finalize(t)
       PROVE  Goal
  <2>1. tick[t].pc = "finalize"
    BY <1>12 DEF Finalize, At
  <2> QED
    BY <1>2, <1>12, <2>1, FinalizeLeads DEF Accounted, Honest, Now
<1>13. ASSUME NEW t \in Ticks, ReleaseTracker(t)
       PROVE  Goal
  <2>1. tick[t].pc = "release"
    BY <1>13 DEF ReleaseTracker, At
  <2> QED
    BY <1>2, <1>13, <2>1, ReleaseLeads DEF Accounted, Honest, Handled
<1>14. ASSUME NEW t \in Ticks, Count(t)
       PROVE  Goal
  <2>1. tick[t].pc = "count"
    BY <1>14 DEF Count, At
  <2>2. tick'[t].completed => tick'[t].owed = {}
    BY <1>14, <2>1, CountLeads DEF Accounted, Honest, StillDue
  <2> QED
    BY <1>2, <1>14, <2>2, CountLeads
<1>15. ASSUME NEW t \in Ticks, Throw(t)
       PROVE  Goal
  <2>1. tick'[t].completed => tick'[t].owed = {}
    BY <1>15, ThrowLeads DEF Accounted, Honest
  <2>2. tick'[t].pc = "release" => ~tick'[t].completed
    <3>1. Catch(tick[t].pc) = "release" => tick[t].pc \in Checking
      BY <1>15 DEF Throw, Working, At, Catch, Shape, TypeOK, TickState, PCs
    <3> QED
      BY <1>15, <3>1, ThrowLeads DEF Accounted, Honest
  <2> QED
    BY <1>2, <1>15, <2>1, <2>2, ThrowLeads
<1>16. ASSUME NEW t \in Ticks, FindHeld(t) \/ Finish(t) \/ Die(t)
       PROVE  Goal
  <2>1. Aside(t) /\ tick'[t] = Idle
    BY <1>16, EndLeads DEF FindHeld, Finish, Die
  <2> QED
    BY <1>2, <2>1 DEF Idle
<1>17. ASSUME \/ ManualStep \/ ManualThrow \/ ManualDie \/ ExpireLease \/ DayPasses \/ WeekPasses
              \/ \E k \in Trackers : ManualLock(k) \/ ComeDue(k) \/ ExpireLock(k)
              \/ UNCHANGED vars
       PROVE  Goal
  BY <1>1, <1>17, OutsideAlike
<1> HIDE DEF Goal
<1>18. Goal
  BY <1>4, <1>5, <1>6, <1>7, <1>8, <1>9, <1>10, <1>11, <1>12, <1>13, <1>14, <1>15, <1>16, <1>17
     DEF Next, TickStep
<1> QED
  BY <1>18 DEF Goal, Accounted, Honest, Now

\* A tick reports "completed" only when every tracker that was due when it began
\* has been checked since, whatever it found locked, whatever threw and whoever
\* else was at work (countDueTrackers and the outcome in runScheduledTick).
THEOREM CompletedIsTrue == Spec => []CompletedMeansDone
<1>1. Init => Shape /\ Accounted
  BY ShapeInit, AccountedInit
<1>2. Shape /\ Accounted /\ [Next]_vars => (Shape /\ Accounted)'
  BY ShapeStep, AccountedStep
<1>3. Shape /\ Accounted => CompletedMeansDone
  BY DEF Accounted, Honest, CompletedMeansDone
<1> QED
  BY <1>1, <1>2, <1>3, PTL DEF Spec

-----------------------------------------------------------------------------
(* The weekly digest.  An invocation that may still send it and has lost    *)
(* the lease (a stray) has cost an accident, a lease that ran out under its *)
(* living holder; only the holder's first message of the week is free, and  *)
(* that one is either being saved or has been.                             *)

MaySend(t) ==
    \/ tick[t].pc = "send"
    \/ digest = "due" /\ tick[t].pc \in Checking \cup {"count", "digest"}
Strays == {t \in Ticks : ~Holds(lease, t) /\ MaySend(t)}
HolderAt(p) == \E t \in Ticks : Holds(lease, t) /\ tick[t].pc = p
Granted == IF digest = "fresh" \/ HolderAt("save") THEN 1 ELSE 0
Awaited == IF digest = "fresh" /\ HolderAt("send") THEN 1 ELSE 0

Paid ==
    /\ IsFiniteSet(Strays)
    /\ digests + Cardinality(Strays) + Awaited <= accidents + Granted

LEMMA Crowd ==
  ASSUME NEW S, IsFiniteSet(S), NEW T, NEW t, T \subseteq S \cup {t}
  PROVE  /\ IsFiniteSet(T) /\ Cardinality(T) \in Nat /\ Cardinality(S) \in Nat
         /\ Cardinality(T) <= Cardinality(S) + 1
         /\ (t \notin T \/ t \in S) => Cardinality(T) <= Cardinality(S)
         /\ t \notin T /\ t \in S => Cardinality(T) + 1 <= Cardinality(S)
<1>1. /\ IsFiniteSet(S \cup {t})
      /\ Cardinality(S \cup {t}) = IF t \in S THEN Cardinality(S) ELSE Cardinality(S) + 1
      /\ Cardinality(S) \in Nat
  BY FS_AddElement, FS_CardinalityType
<1>2. IsFiniteSet(T) /\ Cardinality(T) \in Nat /\ Cardinality(T) <= Cardinality(S \cup {t})
  BY <1>1, FS_Subset, FS_CardinalityType
<1>3. ASSUME t \notin T
      PROVE  Cardinality(T) <= Cardinality(S)
  <2>1. T \subseteq S
    BY <1>3
  <2> QED
    BY <2>1, FS_Subset
<1>4. ASSUME t \notin T, t \in S
      PROVE  Cardinality(T) + 1 <= Cardinality(S)
  <2>1. T \subseteq S \ {t}
    BY <1>4
  <2>2. IsFiniteSet(S \ {t}) /\ Cardinality(S \ {t}) = Cardinality(S) - 1
    BY <1>4, FS_RemoveElement
  <2>3. Cardinality(T) <= Cardinality(S \ {t})
    BY <2>1, <2>2, FS_Subset
  <2> QED
    BY <1>1, <1>2, <2>2, <2>3
<1> QED
  BY <1>1, <1>2, <1>3, <1>4

LEMMA PaidInit == Init => Paid
<1> SUFFICES ASSUME Init
             PROVE  Paid
  OBVIOUS
<1>1. Strays = {} /\ Awaited = 0 /\ Granted = 0
  BY ActorsAssumption
     DEF Init, Strays, MaySend, Awaited, Granted, HolderAt, Idle, Checking, OnTracker, Holds, Unheld, Actors
<1> QED
  BY <1>1, FS_EmptySet DEF Init, Paid

\* A step that sends nothing, saves nothing and makes no stray changes nothing.
LEMMA PaidKept ==
  ASSUME Shape, Paid, digests' = digests, accidents' \in Nat, accidents' >= accidents,
         digest' = digest,
         \A s \in Ticks :
           /\ s \in Strays' => s \in Strays
           /\ Holds(lease', s) /\ tick'[s].pc = "send" =>
                digest = "due" \/ (Holds(lease, s) /\ tick[s].pc = "send")
           /\ Holds(lease, s) /\ tick[s].pc = "save" => Holds(lease', s) /\ tick'[s].pc = "save"
  PROVE  Paid'
<1>1. Strays' \subseteq Strays
  BY DEF Strays
<1>2. /\ IsFiniteSet(Strays') /\ Cardinality(Strays') \in Nat /\ Cardinality(Strays) \in Nat
      /\ Cardinality(Strays') <= Cardinality(Strays)
  BY <1>1, FS_Subset, FS_CardinalityType DEF Paid
<1>3. Awaited \in 0..1 /\ Awaited' \in 0..1 /\ Awaited' <= Awaited
  BY DEF Awaited, HolderAt
<1>4. Granted \in 0..1 /\ Granted' \in 0..1 /\ Granted <= Granted'
  BY DEF Granted, HolderAt
<1>5. digests \in Nat /\ accidents \in Nat
  BY LimitsAssumption DEF Shape, TypeOK
<1> QED
  BY <1>2, <1>3, <1>4, <1>5 DEF Paid

LEMMA OwnerKept ==
  ASSUME Shape, NEW t \in Ticks,
         \/ Begin(t) \/ LockTracker(t) \/ Stop(t) \/ Renew(t) \/ Beat(t) \/ Search(t)
         \/ Finalize(t) \/ ReleaseTracker(t) \/ Count(t) \/ Digest(t) \/ SendDigest(t)
         \/ SendUnanswered(t) \/ SaveDigest(t) \/ ClaimCleanup(t) \/ Prune(t) \/ Unclaim(t)
         \/ Throw(t)
  PROVE  \A s \in Ticks : Holds(lease', s) <=> Holds(lease, s)
<1>1. lease' = lease \/ lease' = Renewed(lease) \/ lease' = Aged(lease)
  BY DEF Begin, LockTracker, Stop, Renew, Beat, Search, Finalize, ReleaseTracker, Count, Digest,
         SendDigest, SendUnanswered, SaveDigest, ClaimCleanup, Prune, Unclaim, Throw, tables
<1>2. lease \in Lease
  BY DEF Shape, TypeOK
<1> QED
  BY <1>1, <1>2, Owners DEF Holds

\* One invocation moves, does not get to send by it, and does not leave "save".
LEMMA PaidAside ==
  ASSUME Shape, Paid, NEW t \in Ticks, Aside(t), digests' = digests, accidents' \in Nat,
         accidents' >= accidents, digest' = digest,
         \A s \in Ticks \ {t} : Holds(lease', s) <=> Holds(lease, s),
         t \in Strays' => t \in Strays,
         Holds(lease', t) /\ tick'[t].pc = "send" => digest = "due",
         Holds(lease, t) => tick[t].pc # "save"
  PROVE  Paid'
<1>1. ASSUME NEW s \in Ticks \ {t}
      PROVE  /\ s \in Strays' => s \in Strays
             /\ Holds(lease', s) /\ tick'[s].pc = "send" => Holds(lease, s) /\ tick[s].pc = "send"
             /\ Holds(lease, s) /\ tick[s].pc = "save" => Holds(lease', s) /\ tick'[s].pc = "save"
  BY DEF Aside, Alike, Strays, MaySend
<1>2. \A s \in Ticks :
           /\ s \in Strays' => s \in Strays
           /\ Holds(lease', s) /\ tick'[s].pc = "send" =>
                digest = "due" \/ (Holds(lease, s) /\ tick[s].pc = "send")
           /\ Holds(lease, s) /\ tick[s].pc = "save" => Holds(lease', s) /\ tick'[s].pc = "save"
  <2> TAKE s \in Ticks
  <2>1. CASE s = t
    BY <2>1
  <2>2. CASE s # t
    BY <1>1, <2>2
  <2> QED
    BY <2>1, <2>2
<1> QED
  BY <1>2, PaidKept

LEMMA AccidentsStep ==
  ASSUME Shape, [Next]_vars
  PROVE  accidents \in Nat /\ accidents' \in Nat /\ digests \in Nat /\ digests' \in Nat
BY CountersStep, LimitsAssumption DEF Shape, TypeOK

\* The steps of an invocation that neither send nor save nor end it.
LEMMA PaidWorking ==
  ASSUME Shape, Paid, [Next]_vars, NEW t \in Ticks,
         \/ Begin(t) \/ LockTracker(t) \/ Stop(t) \/ Renew(t) \/ Beat(t) \/ Search(t)
         \/ Finalize(t) \/ ReleaseTracker(t) \/ Count(t) \/ ClaimCleanup(t) \/ Prune(t)
         \/ Unclaim(t) \/ (Throw(t) /\ tick[t].pc # "save")
  PROVE  Paid'
<1>1. \A s \in Ticks : Holds(lease', s) <=> Holds(lease, s)
  BY OwnerKept
<1>2. /\ digests' = digests /\ digest' = digest
      /\ accidents' = accidents \/ (Throw(t) /\ accidents' = accidents + 1)
  <2>1. CASE Throw(t)
    BY <2>1 DEF Throw
  <2>2. CASE Begin(t) \/ Stop(t) \/ Count(t)
    BY <2>2 DEF Begin, Stop, Count, tables, bounds, history
  <2>3. CASE LockTracker(t) \/ Renew(t) \/ Beat(t)
    BY <2>3 DEF LockTracker, Renew, Beat, bounds, history
  <2>4. CASE Search(t) \/ Finalize(t) \/ ReleaseTracker(t)
    BY <2>4 DEF Search, Finalize, ReleaseTracker, bounds, history
  <2>5. CASE ClaimCleanup(t) \/ Prune(t) \/ Unclaim(t)
    BY <2>5 DEF ClaimCleanup, Prune, Unclaim, bounds, history
  <2> QED
    BY <2>1, <2>2, <2>3, <2>4, <2>5
<1>3. accidents \in Nat /\ accidents' \in Nat /\ accidents' >= accidents
  BY <1>2, AccidentsStep
<1> DEFINE Sending == Checking \cup {"count", "digest"}
<1>4. /\ Aside(t) /\ tick[t].pc # "save" /\ tick'[t].pc # "send"
      /\ tick'[t].pc \in Sending => tick[t].pc \in Sending
  <2>1. CASE Begin(t) \/ Stop(t)
    BY <2>1, BeginLeads, Onwards, PlacesOfCode DEF Begin, Stop, At, Checking, OnTracker
  <2>2. CASE LockTracker(t) \/ Renew(t) \/ Beat(t) \/ Search(t)
    BY <2>2, LockLeads, RenewLeads, BeatLeads, SearchLeads
       DEF LockTracker, Renew, Beat, Search, At, Checking, OnTracker
  <2>3. CASE Finalize(t) \/ ReleaseTracker(t) \/ Count(t)
    BY <2>3, FinalizeLeads, ReleaseLeads, CountLeads
       DEF Finalize, ReleaseTracker, Count, At, Checking, OnTracker
  <2>4. CASE ClaimCleanup(t) \/ Prune(t) \/ Unclaim(t)
    <3>1. (\E p \in {"prune", "finish"} : Goto(t, p)) /\ tick[t].pc # "save"
      BY <2>4 DEF ClaimCleanup, Prune, Unclaim, At
    <3> QED
      BY <3>1, Onwards, PlacesOfCode DEF Checking, OnTracker
  <2>5. CASE Throw(t) /\ tick[t].pc # "save"
    <3>1. Catch(tick[t].pc) = "release" => tick[t].pc \in Checking
      BY <2>5 DEF Throw, Working, At, Catch, Shape, TypeOK, TickState, PCs, Checking, OnTracker
    <3> QED
      BY <2>5, <3>1, ThrowLeads DEF Checking, OnTracker
  <2> QED
    BY <2>1, <2>2, <2>3, <2>4, <2>5
<1>5. t \in Strays' => t \in Strays
  BY <1>1, <1>2, <1>4 DEF Strays, MaySend
<1> QED
  BY <1>1, <1>2, <1>3, <1>4, <1>5, PaidAside

\* The week's first run, or the way to the message.
LEMMA PaidDigest ==
  ASSUME Shape, Paid, NEW t \in Ticks, Digest(t)
  PROVE  Paid'
<1>1. \A s \in Ticks : Holds(lease', s) <=> Holds(lease, s)
  BY OwnerKept
<1>2. /\ digests' = digests /\ accidents' = accidents /\ tick[t].pc = "digest"
      /\ accidents \in Nat /\ digests \in Nat
  BY LimitsAssumption DEF Digest, bounds, history, At, Shape, TypeOK
<1>3. CASE digest = "due"
  <2>1. digest' = digest /\ Aside(t) /\ tick'[t].pc = "send"
    BY <1>3, Onwards, PlacesOfCode DEF Digest
  <2>2. t \in Strays' => t \in Strays
    BY <1>1, <1>2, <1>3 DEF Strays, MaySend
  <2> QED
    BY <1>1, <1>2, <1>3, <2>1, <2>2, PaidAside
<1>4. CASE digest # "due"
  <2>1. Aside(t) /\ tick'[t].pc = "clean" /\ digest' = "fresh"
    BY <1>4, Onwards, PlacesOfCode DEF Digest, Shape, TypeOK
  <2>2. Strays' \subseteq Strays
    BY <1>1, <2>1 DEF Strays, MaySend, Aside, Alike, Checking, OnTracker
  <2>3. /\ IsFiniteSet(Strays') /\ Cardinality(Strays') \in Nat /\ Cardinality(Strays) \in Nat
        /\ Cardinality(Strays') <= Cardinality(Strays)
    BY <2>2, FS_Subset, FS_CardinalityType DEF Paid
  <2>4. Awaited' \in Nat /\ Granted' \in Nat /\ Awaited \in Nat /\ Granted \in Nat
    BY <2>1 DEF Awaited, Granted
  <2>5. HolderAt("send")' => HolderAt("send") /\ ~HolderAt("save")
    BY <1>1, <2>1 DEF HolderAt, Aside, Alike, Holds
  <2>6. Awaited' + Granted <= Awaited + Granted'
    BY <2>1, <2>5 DEF Awaited, Granted
  <2>7. digests + Cardinality(Strays) + Awaited <= accidents + Granted
    BY DEF Paid
  <2>8. digests' + Cardinality(Strays') + Awaited' <= accidents' + Granted'
    BY <1>2, <2>3, <2>4, <2>6, <2>7, SMTT(30)
  <2> QED
    BY <2>3, <2>8 DEF Paid
<1> QED
  BY <1>3, <1>4

\* The message, answered or not.  The holder's first is granted; a stray pays with
\* the lease it lost; an unanswered one is an accident itself.
LEMMA PaidSend ==
  ASSUME Shape, Paid, [Next]_vars, NEW t \in Ticks, SendDigest(t) \/ SendUnanswered(t)
  PROVE  Paid'
<1>1. \A s \in Ticks : Holds(lease', s) <=> Holds(lease, s)
  BY OwnerKept
<1>2. digest' = digest /\ tick[t].pc = "send"
  BY DEF SendDigest, SendUnanswered, tables, At
<1>3. \E p \in {"save", "clean"} :
        /\ Goto(t, p)
        /\ \/ p = "save" /\ digests' = digests + 1 /\ accidents' = accidents
           \/ p = "clean" /\ digests' = digests /\ accidents' = accidents
           \/ p = "clean" /\ digests' = digests + 1 /\ accidents' = accidents + 1
  BY DEF SendDigest, SendUnanswered, bounds
<1>4. PICK p \in {"save", "clean"} :
        /\ Aside(t) /\ tick'[t].pc = p
        /\ \/ p = "save" /\ digests' = digests + 1 /\ accidents' = accidents
           \/ p = "clean" /\ digests' = digests /\ accidents' = accidents
           \/ p = "clean" /\ digests' = digests + 1 /\ accidents' = accidents + 1
  BY <1>3, Onwards, PlacesOfCode
<1>5. t \notin Strays' /\ Strays' \subseteq Strays \cup {t}
  BY <1>1, <1>2, <1>4 DEF Strays, MaySend, Aside, Alike, Checking, OnTracker
<1>6. /\ IsFiniteSet(Strays') /\ Cardinality(Strays') \in Nat /\ Cardinality(Strays) \in Nat
      /\ Cardinality(Strays') <= Cardinality(Strays)
      /\ t \in Strays => Cardinality(Strays') + 1 <= Cardinality(Strays)
  BY <1>5, Crowd DEF Paid
<1>7. Awaited \in 0..1 /\ Granted \in 0..1 /\ Awaited' \in 0..1 /\ Granted' \in 0..1
  BY DEF Awaited, Granted
<1>8. Awaited' <= Awaited /\ Granted <= Granted'
  BY <1>1, <1>2, <1>4 DEF Awaited, Granted, HolderAt, Aside, Alike
<1>9. ASSUME Holds(lease, t), p = "save"
      PROVE  Awaited' = 0 /\ Granted' = 1 /\ Awaited = Granted
  <2>1. ~HolderAt("send")' /\ HolderAt("save")' /\ HolderAt("send") /\ ~HolderAt("save")
    BY <1>1, <1>2, <1>4, <1>9 DEF HolderAt, Holds
  <2> QED
    BY <2>1 DEF Awaited, Granted
<1>10. ~Holds(lease, t) => t \in Strays
  BY <1>2 DEF Strays, MaySend
<1>11. accidents \in Nat /\ digests \in Nat
  BY AccidentsStep
<1> QED
  BY <1>4, <1>6, <1>7, <1>8, <1>9, <1>10, <1>11 DEF Paid

LEMMA PaidSave ==
  ASSUME Shape, Paid, NEW t \in Ticks, SaveDigest(t)
  PROVE  Paid'
<1>1. \A s \in Ticks : Holds(lease', s) <=> Holds(lease, s)
  BY OwnerKept
<1>2. /\ digests' = digests /\ accidents' = accidents /\ digest' = "fresh"
      /\ accidents \in Nat /\ digests \in Nat
      /\ Aside(t) /\ tick'[t].pc = "clean" /\ tick[t].pc = "save"
  BY LimitsAssumption, Onwards, PlacesOfCode
     DEF SaveDigest, bounds, history, At, Shape, TypeOK
<1>3. Strays' \subseteq Strays
  BY <1>1, <1>2 DEF Strays, MaySend, Aside, Alike
<1>4. /\ IsFiniteSet(Strays') /\ Cardinality(Strays') \in Nat /\ Cardinality(Strays) \in Nat
      /\ Cardinality(Strays') <= Cardinality(Strays)
  BY <1>3, FS_Subset, FS_CardinalityType DEF Paid
<1>5. HolderAt("send")' => HolderAt("send") /\ ~HolderAt("save")
  BY <1>1, <1>2 DEF HolderAt, Aside, Alike, Holds
<1>6. /\ Awaited' \in Nat /\ Granted' \in Nat /\ Awaited \in Nat /\ Granted \in Nat
      /\ Awaited' + Granted <= Awaited + Granted'
  BY <1>2, <1>5 DEF Awaited, Granted
<1> QED
  BY <1>2, <1>4, <1>6 DEF Paid

\* After an accident one stray more, or one grant less, is paid for.
LEMMA PaidAccident ==
  ASSUME Shape, Paid, NEW t \in Ticks, digests' = digests, accidents' = accidents + 1,
         digest' = digest,
         Strays' \subseteq Strays \cup {t},
         t \in Strays' => t \in Strays \/ tick[t].pc # "save",
         \A s \in Ticks :
           /\ Holds(lease', s) /\ tick'[s].pc = "send" => Holds(lease, s) /\ tick[s].pc = "send"
           /\ s # t /\ Holds(lease, s) /\ tick[s].pc = "save" =>
                Holds(lease', s) /\ tick'[s].pc = "save",
         Granted <= Granted' \/ t \notin Strays' \/ t \in Strays
  PROVE  Paid'
<1>1. /\ IsFiniteSet(Strays') /\ Cardinality(Strays') \in Nat /\ Cardinality(Strays) \in Nat
      /\ Cardinality(Strays') <= Cardinality(Strays) + 1
      /\ t \notin Strays' \/ t \in Strays => Cardinality(Strays') <= Cardinality(Strays)
  BY Crowd DEF Paid
<1>2. Awaited \in 0..1 /\ Awaited' \in 0..1 /\ Awaited' <= Awaited
  BY DEF Awaited, HolderAt
<1>3. Granted \in 0..1 /\ Granted' \in 0..1
  BY DEF Granted
<1>4. digests \in Nat /\ accidents \in Nat
  BY LimitsAssumption DEF Shape, TypeOK
<1> QED
  BY <1>1, <1>2, <1>3, <1>4 DEF Paid

LEMMA PaidThrow ==
  ASSUME Shape, Paid, NEW t \in Ticks, Throw(t), tick[t].pc = "save"
  PROVE  Paid'
<1>1. \A s \in Ticks : Holds(lease', s) <=> Holds(lease, s)
  BY OwnerKept
<1>2. /\ digests' = digests /\ digest' = digest /\ accidents' = accidents + 1
  BY DEF Throw
<1>3. Aside(t) /\ tick'[t].pc = "clean"
  BY ThrowLeads DEF Catch
<1>4. Strays' \subseteq Strays /\ t \notin Strays'
  BY <1>1, <1>2, <1>3 DEF Strays, MaySend, Aside, Alike, Checking, OnTracker
<1>5. \A s \in Ticks :
           /\ Holds(lease', s) /\ tick'[s].pc = "send" => Holds(lease, s) /\ tick[s].pc = "send"
           /\ s # t /\ Holds(lease, s) /\ tick[s].pc = "save" =>
                Holds(lease', s) /\ tick'[s].pc = "save"
  BY <1>1, <1>3 DEF Aside, Alike
<1> QED
  BY <1>2, <1>4, <1>5, PaidAccident

LEMMA PaidAcquire ==
  ASSUME Shape, Paid, NEW t \in Ticks, Acquire(t)
  PROVE  Paid'
<1>1. /\ lease' = Taken(t) /\ Free(lease) /\ digests' = digests /\ accidents' = accidents
      /\ digest' = digest /\ Aside(t) /\ tick'[t].pc \in {"lock", "digest"}
  BY AcquireLeads DEF Acquire, bounds, history
<1>2. \A s \in Ticks : ~Holds(lease, s) /\ (Holds(lease', s) <=> s = t)
  BY <1>1, ActorsAssumption DEF Taken, Free, Holds, Actors
<1>3. t \notin Strays'
  BY <1>2 DEF Strays
<1>4. accidents \in Nat
  BY LimitsAssumption DEF Shape, TypeOK
<1> QED
  BY <1>1, <1>2, <1>3, <1>4, PaidAside

LEMMA PaidEnd ==
  ASSUME Shape, Paid, NEW t \in Ticks, FindHeld(t) \/ Finish(t) \/ Die(t)
  PROVE  Paid'
<1>1. /\ digests' = digests /\ digest' = digest /\ Aside(t) /\ tick'[t] = Idle
      /\ \/ accidents' = accidents /\ tick[t].pc # "save"
         \/ accidents' = accidents + 1
  BY EndLeads DEF FindHeld, Finish, Die, bounds, At
<1>2. \A s \in Ticks \ {t} : Holds(lease', s) <=> Holds(lease, s)
  <2>1. lease' = Bereft(lease, t) \/ lease' = Bereft(Released(lease, t), t)
    BY DEF FindHeld, Finish, Die, End
  <2> QED
    BY <2>1, ActorsAssumption DEF Bereft, Released, Unheld, Taken, Holds, Actors
<1>3. Strays' \subseteq Strays /\ t \notin Strays'
  BY <1>1, <1>2 DEF Strays, MaySend, Aside, Alike, Idle, Checking, OnTracker
<1>4. accidents \in Nat
  BY LimitsAssumption DEF Shape, TypeOK
<1>5. CASE accidents' = accidents /\ tick[t].pc # "save"
  BY <1>1, <1>2, <1>3, <1>4, <1>5, PaidAside DEF Idle
<1>6. CASE accidents' = accidents + 1
  <2>1. \A s \in Ticks :
           /\ Holds(lease', s) /\ tick'[s].pc = "send" => Holds(lease, s) /\ tick[s].pc = "send"
           /\ s # t /\ Holds(lease, s) /\ tick[s].pc = "save" =>
                Holds(lease', s) /\ tick'[s].pc = "save"
    BY <1>1, <1>2 DEF Aside, Alike, Idle
  <2> QED
    BY <1>1, <1>3, <1>6, <2>1, PaidAccident
<1> QED
  BY <1>1, <1>5, <1>6

\* A lease that runs out under its holder makes a stray of it, unless it has sent
\* already; a dead one concerns nobody.
LEMMA PaidExpiry ==
  ASSUME Shape, Paid, ExpireLease
  PROVE  Paid'
<1>1. /\ digests' = digests /\ digest' = digest /\ tick' = tick /\ lease' = Unheld
      /\ \/ lease.owner = Dead /\ accidents' = accidents
         \/ accidents' = accidents + 1
  BY DEF ExpireLease, RunsOut, history
<1>2. \A s \in Ticks : ~Holds(lease', s)
  BY <1>1, ActorsAssumption DEF Unheld, Holds, Actors
<1>3. accidents \in Nat
  BY LimitsAssumption DEF Shape, TypeOK
<1>4. CASE \A s \in Ticks : ~Holds(lease, s)
  <2>1. \A s \in Ticks : s \in Strays' => s \in Strays
    BY <1>1, <1>2, <1>4 DEF Strays, MaySend
  <2>2. accidents' \in Nat /\ accidents' >= accidents
    BY <1>1, <1>3
  <2> QED
    BY <1>1, <1>2, <1>4, <2>1, <2>2, PaidKept
<1>5. ASSUME NEW t \in Ticks, Holds(lease, t)
      PROVE  Paid'
  <2>1. accidents' = accidents + 1
    BY <1>1, <1>5, ActorsAssumption DEF Holds, Actors
  <2>2. \A s \in Ticks \ {t} : ~Holds(lease, s)
    BY <1>5 DEF Holds
  <2>3. Strays' \subseteq Strays \cup {t}
    BY <1>1, <2>2 DEF Strays, MaySend
  <2>4. CASE tick[t].pc = "save"
    <3>1. t \notin Strays'
      BY <1>1, <2>4 DEF Strays, MaySend, Checking, OnTracker
    <3> QED
      BY <1>1, <1>2, <2>1, <2>2, <2>3, <3>1, PaidAccident
  <2>5. CASE tick[t].pc # "save"
    <3>1. Granted <= Granted'
      BY <1>1, <2>2, <2>5 DEF Granted, HolderAt
    <3> QED
      BY <1>1, <1>2, <2>1, <2>2, <2>3, <2>5, <3>1, PaidAccident
  <2> QED
    BY <2>4, <2>5
<1> QED
  BY <1>4, <1>5

LEMMA PaidOutside ==
  ASSUME Shape, Paid, [Next]_vars,
         \/ ManualStep \/ ManualThrow \/ ManualDie \/ DayPasses \/ UNCHANGED vars
         \/ \E k \in Trackers : ManualLock(k) \/ ComeDue(k) \/ ExpireLock(k)
  PROVE  Paid'
<1>1. \A s \in Ticks : Alike(s)
  BY OutsideAlike
<1>2. /\ digests' = digests /\ digest' = digest /\ lease' = lease
      /\ accidents' \in {accidents, accidents + 1}
  BY DEF ManualStep, ManualFinalize, ManualRelease, ManualThrow, ManualDie, DayPasses, ManualLock,
         ComeDue, ExpireLock, RunsOut, vars, tables, bounds, history
<1>3. accidents \in Nat /\ accidents' \in Nat /\ accidents' >= accidents
  BY <1>2, AccidentsStep
<1>4. \A s \in Ticks : s \in Strays' => s \in Strays
  BY <1>1, <1>2 DEF Strays, MaySend, Alike
<1> QED
  BY <1>1, <1>2, <1>3, <1>4, PaidKept DEF Alike

LEMMA PaidWeek ==
  ASSUME Shape, Paid, WeekPasses
  PROVE  Paid'
<1>1. /\ digests' = 0 /\ accidents' = accidents /\ tick' = tick
      /\ \A s \in Ticks : tick[s].pc = "idle"
  BY DEF WeekPasses, Alive, bounds
<1>2. Strays' = {} /\ Awaited' = 0 /\ Granted' \in Nat
  BY <1>1 DEF Strays, MaySend, Awaited, Granted, HolderAt, Checking, OnTracker
<1>3. accidents \in Nat
  BY LimitsAssumption DEF Shape, TypeOK
<1> QED
  BY <1>1, <1>2, <1>3, FS_EmptySet DEF Paid

LEMMA PaidStep ==
  ASSUME Shape, Paid, [Next]_vars
  PROVE  Paid'
<1>1. ASSUME NEW t \in Ticks, Begin(t) \/ TickStep(t) \/ SendUnanswered(t) \/ Throw(t) \/ Die(t)
      PROVE  Paid'
  <2>1. CASE \/ Begin(t) \/ LockTracker(t) \/ Stop(t) \/ Renew(t) \/ Beat(t) \/ Search(t)
             \/ Finalize(t) \/ ReleaseTracker(t) \/ Count(t) \/ ClaimCleanup(t) \/ Prune(t)
             \/ Unclaim(t)
    BY <2>1, PaidWorking
  <2>2. CASE Throw(t)
    BY <2>2, PaidWorking, PaidThrow
  <2>3. CASE Digest(t) \/ SendDigest(t) \/ SendUnanswered(t) \/ SaveDigest(t)
    BY <2>3, PaidDigest, PaidSend, PaidSave
  <2>4. CASE Acquire(t) \/ FindHeld(t) \/ Finish(t) \/ Die(t)
    BY <2>4, PaidAcquire, PaidEnd
  <2> QED
    BY <1>1, <2>1, <2>2, <2>3, <2>4 DEF TickStep
<1>2. CASE \/ ManualStep \/ ManualThrow \/ ManualDie \/ DayPasses \/ UNCHANGED vars
           \/ \E k \in Trackers : ManualLock(k) \/ ComeDue(k) \/ ExpireLock(k)
  BY <1>2, PaidOutside
<1>3. CASE ExpireLease \/ WeekPasses
  BY <1>3, PaidExpiry, PaidWeek
<1> QED
  BY <1>1, <1>2, <1>3 DEF Next

\* The owner gets one digest a week, and at most one more for each accident: a
\* lease that runs out under its holder, a death or an exception after the
\* message, a lost answer (maybeSendWeeklyDigest).
THEOREM DigestsArePaid == Spec => []DigestOnce
<1>1. Init => Shape /\ Paid
  BY ShapeInit, PaidInit
<1>2. Shape /\ Paid /\ [Next]_vars => (Shape /\ Paid)'
  BY ShapeStep, PaidStep
<1>3. Shape /\ Paid => DigestOnce
  <2> SUFFICES ASSUME Shape, Paid
               PROVE  DigestOnce
    OBVIOUS
  <2>1. Cardinality(Strays) \in Nat
    BY FS_CardinalityType DEF Paid
  <2>2. Awaited \in Nat /\ Granted \in 0..1
    BY DEF Awaited, Granted
  <2>3. digests \in Nat /\ accidents \in Nat
    BY LimitsAssumption DEF Shape, TypeOK
  <2> QED
    BY <2>1, <2>2, <2>3 DEF Paid, DigestOnce
<1> QED
  BY <1>1, <1>2, <1>3, PTL DEF Spec
=============================================================================
