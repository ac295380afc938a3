---------------------------- MODULE SchedulerTick ----------------------------
(***************************************************************************)
(* Cron invocations (runScheduledTick of scheduled.ts) that may overlap,   *)
(* stall, throw and die, next to a manual check of one tracker: the        *)
(* scheduler lease, the tracker locks, the queue of due trackers, the      *)
(* weekly digest (services/digest.ts) and the daily cleanup.               *)
(*                                                                         *)
(* Time is what may have expired.  A lease or a lock may run out whenever  *)
(* its holder was not just seen to renew it: one search is shorter than    *)
(* TTL, and nothing else is known.  (A lock that is taken relative to the  *)
(* beginning of a slow tick may run out as soon as it is taken.)           *)
(***************************************************************************)
EXTENDS Integers, FiniteSets, Sequences, SequencesExt

CONSTANTS
    Ticks,         \* invocations that Cron starts, over and over
    User,          \* the request that checks a tracker by hand
    Trackers,
    Units,         \* how many searches a check of a tracker wants
    Slow,          \* may a manual check outlive its lock?
    PerTick,       \* MAX_TRACKERS_PER_TICK
    Queries,       \* MAX_QUERIES_PER_TICK
    MaxCalls,      \* requests one search may cost: maxRequestCount
    MaxManual,     \* how often the owner checks by hand
    MaxAccidents,  \* how many deaths, exceptions, lost answers, and leases or locks
                   \* that run out while their holder lives
    Null, Dead     \* no owner; an owner that is no more

Actors == Ticks \cup {User}

ASSUME ActorsAssumption ==
    /\ User \notin Ticks
    /\ {Null, Dead} \cap Actors = {} /\ Null # Dead /\ Null \notin Trackers
    /\ {"due", "done", "lost"} \cap Ticks = {}
ASSUME LimitsAssumption ==
    /\ {PerTick, Queries, MaxCalls} \subseteq Nat \ {0}
    /\ Units \in [Trackers -> Nat \ {0}]
    /\ {MaxManual, MaxAccidents} \subseteq Nat
    /\ Slow \in BOOLEAN

VARIABLES
    line,       \* the trackers that are due, by next_run_at
    lease,      \* scheduler_state: who holds the lease, and whether just renewed
    lock,       \* the same of every tracker
    tick,       \* each invocation: where it is and what it remembers
    manual,     \* the manual check
    digest,     \* weekly_digest_last_sent: "never", "due" or "fresh"
    cleanup,    \* last_cleanup_at: a day old ("due"), or claimed by this tick, or
                \* an older claim, by a tick that pruned ("done") or not ("lost")
    asks, accidents,
    searches,   \* history: live searches of each tick
    threw,      \* history: the ticks that lost count of them to an exception
    digests     \* history: digests the owner got this week

tables == <<line, lease, lock, digest, cleanup>>
bounds == <<asks, accidents>>
history == <<searches, threw, digests>>
vars == <<tables, tick, manual, bounds, history>>

-----------------------------------------------------------------------------
Lease == [owner : Actors \cup {Null, Dead}, fresh : BOOLEAN]
PCs == {"idle", "lease", "lock", "renew", "beat", "search", "finalize", "release",
        "count", "digest", "send", "save", "clean", "prune", "unclaim", "finish"}
TickState == [pc : PCs, todo : Seq(Trackers), owed : SUBSET Trackers,
              handled : SUBSET Trackers, budget : Int, spent : Nat, units : Nat,
              short : BOOLEAN, cut : BOOLEAN, completed : BOOLEAN]

TypeOK ==
    /\ line \in Seq(Trackers) /\ IsInjective(line)
    /\ lease \in Lease
    /\ lock \in [Trackers -> Lease]
    /\ tick \in [Ticks -> TickState]
    /\ manual \in [on : Trackers \cup {Null}, busy : BOOLEAN]
    /\ digest \in {"never", "due", "fresh"}
    /\ cleanup \in {"due", "done", "lost"} \cup Ticks
    /\ asks \in 0..MaxManual /\ accidents \in 0..MaxAccidents
    /\ searches \in [Ticks -> Nat] /\ threw \subseteq Ticks /\ digests \in Nat

Unheld == [owner |-> Null, fresh |-> FALSE]
Idle == [pc |-> "idle", todo |-> <<>>, owed |-> {}, handled |-> {},
         budget |-> 0, spent |-> 0, units |-> 0, short |-> FALSE, cut |-> FALSE,
         completed |-> FALSE]
NoCheck == [on |-> Null, busy |-> FALSE]

Init ==
    /\ line = <<>>
    /\ lease = Unheld
    /\ lock = [k \in Trackers |-> Unheld]
    /\ tick = [t \in Ticks |-> Idle]
    /\ manual = NoCheck
    /\ digest = "never"
    /\ cleanup = "due"
    /\ asks = 0 /\ accidents = 0
    /\ searches = [t \in Ticks |-> 0]
    /\ threw = {} /\ digests = 0

Alive(t) == tick[t].pc # "idle"
At(t, p) == tick[t].pc = p
Goto(t, p) == tick' = [tick EXCEPT ![t].pc = p]
Now(t) == Head(tick[t].todo)   \* the tracker a tick works on

-----------------------------------------------------------------------------
\* A lease that has run out is as good as unheld: it can be taken, and it can
\* no longer be renewed.
FreeMutant(l) == TRUE
Free(l) == l.owner = Null
Taken(a) == [owner |-> a, fresh |-> FALSE]
HoldsMutant(l, a) == l.owner # Null
Holds(l, a) == l.owner = a
Renewed(l) == [l EXCEPT !.fresh = TRUE]
Aged(l) == [l EXCEPT !.fresh = FALSE]
Released(l, a) == IF l.owner = a THEN Unheld ELSE l
Bereft(l, a) == IF l.owner = a THEN Taken(Dead) ELSE l

\* Ticks that went past the lease: they act as if they had it.
Working(t) == tick[t].pc \notin {"idle", "lease"}

\* makeOwnerId names an invocation, so what the last one still holds is nobody's.
End(t, leaseThen) ==
    /\ tick' = [tick EXCEPT ![t] = Idle]
    /\ lease' = Bereft(leaseThen, t)
    /\ lock' = [k \in Trackers |-> Bereft(lock[k], t)]
    /\ searches' = [searches EXCEPT ![t] = 0]
    /\ threw' = threw \ {t}

-----------------------------------------------------------------------------
\* Cron fires and `now' is taken.  (With SCHEDULER_ENABLED false the
\* run is recorded and nothing else happens.  cron_runs is left out: it is only
\* shown.)
Begin(t) ==
    /\ At(t, "idle")
    /\ tick' = [tick EXCEPT ![t].pc = "lease", ![t].owed = ToSet(line)]
    /\ UNCHANGED <<tables, manual, bounds, history>>

\* selectDueTrackers: due when the tick began and not locked by anyone alive
\* then, the longest due first.  (The places in the line that p lists.)
Places(t) == {i \in 1..Len(line) : line[i] \in tick[t].owed /\ Free(lock[line[i]])}
Foremost(p, n, places) ==
    /\ \A i, j \in 1..n : i < j => p[i] < p[j]
    /\ \A q \in places : \/ \E i \in 1..n : p[i] = q
                         \/ n = PerTick /\ \A i \in 1..n : p[i] < q
SelectDue(t) ==
    \E n \in 0..PerTick : \E p \in [1..n -> Places(t)] :
        /\ Foremost(p, n, Places(t))
        /\ tick' = [tick EXCEPT ![t] =
                      IF n = 0 THEN [Idle EXCEPT !.pc = "digest"]
                      ELSE [@ EXCEPT !.pc = "lock", !.todo = [i \in 1..n |-> line[p[i]]],
                                     !.budget = Queries]]

\* The lease, and at once the trackers (their locks are asked for one by one
\* later, so nothing is lost by taking the two statements together).
Acquire(t) ==
    /\ At(t, "lease") /\ Free(lease)
    /\ lease' = Taken(t)
    /\ SelectDue(t)
    /\ UNCHANGED <<line, lock, digest, cleanup, manual, bounds, history>>

\* lease_held: another invocation is at work.
FindHeld(t) ==
    /\ At(t, "lease") /\ ~Free(lease)
    /\ End(t, lease)
    /\ UNCHANGED <<line, digest, cleanup, manual, bounds,
                   digests>>

\* Is there a tracker left, and anything to spend on it?
GoesOn(t) == tick[t].todo # <<>> /\ tick[t].budget > 0

Stop(t) ==
    /\ At(t, "lock") /\ ~GoesOn(t)
    /\ Goto(t, "count")
    /\ UNCHANGED <<tables, manual, bounds, history>>

LockTracker(t) ==
    /\ At(t, "lock") /\ GoesOn(t)
    /\ \/ /\ Free(lock[Now(t)])
          /\ lock' = [lock EXCEPT ![Now(t)] = Taken(t)]
          /\ Goto(t, "renew")
       \/ /\ ~Free(lock[Now(t)])     \* checked by hand: left alone
          /\ tick' = [tick EXCEPT ![t].todo = Tail(@)]
          /\ UNCHANGED lock
    /\ UNCHANGED <<line, lease, digest, cleanup, manual, bounds, history>>

\* units.slice: the searches a check may make.
WithinBudget(t) == Min({Units[Now(t)], tick[t].budget})

\* The first renewal throws where the heartbeat returns false.  runTracker then
\* plans its searches and cuts them to the budget.
Renew(t) ==
    /\ At(t, "renew")
    /\ IF Holds(lease, t)
       THEN /\ lease' = Renewed(lease)
            /\ tick' = [tick EXCEPT ![t].pc = "beat",
                          ![t].units = WithinBudget(t),
                          ![t].cut = Units[Now(t)] > tick[t].budget]
       ELSE /\ tick' = [tick EXCEPT ![t].pc = "release", ![t].short = TRUE]
            /\ UNCHANGED lease
    /\ UNCHANGED <<line, lock, digest, cleanup, manual, bounds, history>>

\* heartbeat: before each search both leases are renewed, or the rest is left.
Beat(t) ==
    /\ At(t, "beat")
    /\ lease' = IF Holds(lease, t) THEN Renewed(lease) ELSE lease
    /\ IF Holds(lease, t) /\ Holds(lock[Now(t)], t)
       THEN /\ lock' = [lock EXCEPT ![Now(t)] = Renewed(@)]
            /\ tick' = [tick EXCEPT ![t].pc = "search"]
       ELSE /\ tick' = [tick EXCEPT ![t].pc = "finalize", ![t].cut = TRUE]
            /\ UNCHANGED lock
    /\ UNCHANGED <<line, digest, cleanup, manual, bounds, history>>

\* A search costs up to MaxCalls requests, or none when the answer is cached or
\* the allowance refuses it.
Search(t) ==
    /\ At(t, "search")
    /\ \E calls \in 0..MaxCalls :
         /\ tick' = [tick EXCEPT ![t].pc = IF tick[t].units = 1 THEN "finalize" ELSE "beat",
                       ![t].units = @ - 1, ![t].spent = @ + calls]
         /\ searches' = [searches EXCEPT ![t] = IF calls = 0 THEN @ ELSE @ + 1]
    /\ lease' = IF Holds(lease, t) THEN Aged(lease) ELSE lease
    /\ lock' = [lock EXCEPT ![Now(t)] = IF Holds(@, t) THEN Aged(@) ELSE @]
    /\ UNCHANGED <<line, digest, cleanup, manual, bounds,
                   threw, digests>>

\* A check that ends sets next_run_at, for whoever selected the tracker.
NoLongerDue(k) ==
    \/ ~Contains(line, k) /\ UNCHANGED line
    \/ \E i \in 1..Len(line) : line[i] = k /\ line' = RemoveAt(line, i)
Settled(ticks, k) == [s \in Ticks |-> [ticks[s] EXCEPT !.owed = @ \ {k}]]

Finalize(t) ==
    /\ At(t, "finalize")
    /\ NoLongerDue(Now(t))
    /\ tick' = Settled([tick EXCEPT ![t].pc = "release", ![t].budget = @ - tick[t].spent,
                          ![t].short = @ \/ tick[t].cut,
                          ![t].units = 0, ![t].spent = 0, ![t].cut = FALSE], Now(t))
    /\ UNCHANGED <<lease, lock, digest, cleanup, manual, bounds, history>>

Handled(t) == tick[t].handled \cup {Now(t)}

ReleaseTracker(t) ==
    /\ At(t, "release")
    /\ lock' = [lock EXCEPT ![Now(t)] = Released(@, t)]
    /\ tick' = [tick EXCEPT ![t].pc = "lock", ![t].handled = Handled(t), ![t].todo = Tail(@)]
    /\ UNCHANGED <<line, lease, digest, cleanup, manual, bounds, history>>

\* countDueTrackers and the outcome that follows from it; then
\* retryPendingAlerts(5), which is AlertDelivery's.
StillDueMutant(t) == {k \in tick[t].owed \ tick[t].handled : Free(lock[k])}
StillDue(t) == tick[t].owed \ tick[t].handled

Count(t) ==
    /\ At(t, "count")
    /\ LET completed == StillDue(t) = {} /\ ~tick[t].short /\ tick[t].budget > 0
       IN tick' = [tick EXCEPT ![t] = [Idle EXCEPT !.pc = "digest", !.completed = completed,
                                         !.owed = IF completed THEN tick[t].owed ELSE {}]]
    /\ UNCHANGED <<tables, manual, bounds, history>>

-----------------------------------------------------------------------------
\* maybeSendWeeklyDigest.  The first time it only starts the week.
Digest(t) ==
    /\ At(t, "digest")
    /\ digest' = IF digest = "never" THEN "fresh" ELSE digest
    /\ Goto(t, IF digest = "due" THEN "send" ELSE "clean")
    /\ UNCHANGED <<line, lease, lock, cleanup, manual, bounds, history>>

\* Nothing is kept of a message that Telegram refused, or that is not configured:
\* the next tick tries again.
SendDigest(t) ==
    /\ At(t, "send")
    /\ \/ /\ digests' = digests + 1
          /\ Goto(t, "save")
       \/ /\ Goto(t, "clean")
          /\ UNCHANGED digests
    /\ UNCHANGED <<tables, manual, bounds, searches, threw>>

\* The message arrives and the answer does not: taken for a refusal.
SendUnanswered(t) ==
    /\ At(t, "send") /\ accidents < MaxAccidents
    /\ digests' = digests + 1
    /\ accidents' = accidents + 1
    /\ Goto(t, "clean")
    /\ UNCHANGED <<tables, manual, asks, searches, threw>>

SaveDigestMutant(t) ==
    /\ At(t, "save")
    /\ Goto(t, "clean")
    /\ UNCHANGED <<tables, manual, bounds, history>>
SaveDigest(t) ==
    /\ At(t, "save")
    /\ digest' = "fresh"
    /\ Goto(t, "clean")
    /\ UNCHANGED <<line, lease, lock, cleanup, manual, bounds, history>>

ClaimCleanup(t) ==
    /\ At(t, "clean")
    /\ cleanup' = IF cleanup = "due" THEN t ELSE cleanup
    /\ Goto(t, IF cleanup = "due" THEN "prune" ELSE "finish")
    /\ UNCHANGED <<line, lease, lock, digest, manual, bounds, history>>

Prune(t) ==
    /\ At(t, "prune")
    /\ cleanup' = IF cleanup = t THEN "done" ELSE cleanup
    /\ Goto(t, "finish")
    /\ UNCHANGED <<line, lease, lock, digest, manual, bounds, history>>

\* A DELETE failed: this very claim is given back.
GivenBackMutant(t) == cleanup
GivenBack(t) == IF cleanup = t THEN "due" ELSE cleanup

Unclaim(t) ==
    /\ At(t, "unclaim")
    /\ cleanup' = GivenBack(t)
    /\ Goto(t, "finish")
    /\ UNCHANGED <<line, lease, lock, digest, manual, bounds, history>>

\* recordSweepState and finishCronRun, which only tell the owner; then the lease.
Finish(t) ==
    /\ At(t, "finish")
    /\ End(t, Released(lease, t))
    /\ UNCHANGED <<line, digest, cleanup, manual, bounds,
                   digests>>

-----------------------------------------------------------------------------
(* A statement throws.  Where a tick goes on then is the nesting of its     *)
(* try blocks; the acquisition of the lease is outside of all of them.      *)
Catch(p) ==
    CASE p \in {"renew", "beat", "search", "finalize"} -> "release"
      [] p \in {"digest", "send", "save"} -> "clean"
      [] p = "prune" -> "unclaim"
      [] p \in {"lock", "release", "count", "clean", "unclaim"} -> "finish"

Throw(t) ==
    /\ Working(t) /\ ~At(t, "finish") /\ accidents < MaxAccidents
    /\ accidents' = accidents + 1
    /\ LET p == tick[t].pc
           q == Catch(p)
       IN /\ tick' = IF q = "finish"
                     THEN [tick EXCEPT ![t] = [Idle EXCEPT !.pc = q]]
                     ELSE [tick EXCEPT ![t].pc = q, ![t].units = 0, ![t].spent = 0,
                             ![t].cut = FALSE, ![t].short = @ \/ q = "release"]
          /\ threw' = IF q = "release" THEN threw \cup {t} ELSE threw
          /\ searches' = [searches EXCEPT ![t] = IF p = "search" THEN @ + 1 ELSE @]
          /\ cleanup' = IF p = "unclaim" /\ cleanup = t THEN "lost" ELSE cleanup
    /\ lease' = IF Holds(lease, t) THEN Aged(lease) ELSE lease
    /\ lock' = [k \in Trackers |-> IF Holds(lock[k], t) THEN Aged(lock[k]) ELSE lock[k]]
    /\ UNCHANGED <<line, digest, manual, asks, digests>>

\* The invocation dies, or throws where nothing catches (when it asks for the
\* lease) or nothing is left to do (when it releases it).
Die(t) ==
    /\ Alive(t) /\ accidents < MaxAccidents
    /\ accidents' = accidents + 1
    /\ cleanup' = IF cleanup = t THEN "lost" ELSE cleanup
    /\ End(t, lease)
    /\ UNCHANGED <<line, digest, manual, asks, digests>>

-----------------------------------------------------------------------------
\* "Check now" and /check: the tracker lock for TTL from now, and no heartbeat.
ManualLock(k) ==
    /\ manual = NoCheck /\ asks < MaxManual
    /\ Free(lock[k])
    /\ lock' = [lock EXCEPT ![k] = [Taken(User) EXCEPT !.fresh = ~Slow]]
    /\ manual' = [on |-> k, busy |-> TRUE]
    /\ asks' = asks + 1
    /\ UNCHANGED <<line, lease, digest, cleanup, tick, accidents, history>>

ManualFinalize ==
    /\ manual.busy
    /\ NoLongerDue(manual.on)
    /\ tick' = Settled(tick, manual.on)
    /\ manual' = [manual EXCEPT !.busy = FALSE]
    /\ UNCHANGED <<lease, lock, digest, cleanup, bounds, history>>

ManualRelease ==
    /\ manual.on # Null /\ ~manual.busy
    /\ lock' = [lock EXCEPT ![manual.on] = Released(@, User)]
    /\ manual' = NoCheck
    /\ UNCHANGED <<line, lease, digest, cleanup, tick, bounds, history>>

\* It throws, and the lock is released at least; or it dies.
ManualThrow ==
    /\ manual.busy /\ accidents < MaxAccidents
    /\ accidents' = accidents + 1
    /\ manual' = [manual EXCEPT !.busy = FALSE]
    /\ UNCHANGED <<tables, tick, asks, history>>

ManualDie ==
    /\ manual.on # Null /\ accidents < MaxAccidents
    /\ accidents' = accidents + 1
    /\ lock' = [lock EXCEPT ![manual.on] = Bereft(@, User)]
    /\ manual' = NoCheck
    /\ UNCHANGED <<line, lease, digest, cleanup, tick, asks, history>>

-----------------------------------------------------------------------------
\* Time.  The dead cannot renew; the living may be too slow to.
RunsOut(l) ==
    /\ ~Free(l) /\ ~l.fresh
    /\ \/ l.owner = Dead /\ UNCHANGED accidents
       \/ l.owner # Dead /\ accidents < MaxAccidents /\ accidents' = accidents + 1

ExpireLease ==
    /\ RunsOut(lease)
    /\ lease' = Unheld
    /\ UNCHANGED <<line, lock, digest, cleanup, tick, manual, asks, history>>

ExpireLock(k) ==
    /\ RunsOut(lock[k])
    /\ lock' = [lock EXCEPT ![k] = Unheld]
    /\ UNCHANGED <<line, lease, digest, cleanup, tick, manual, asks, history>>

ComeDue(k) ==
    /\ ~Contains(line, k)
    /\ line' = Append(line, k)
    /\ UNCHANGED <<lease, lock, digest, cleanup, tick, manual, bounds, history>>

\* The day and the week end between two runs of Cron.
DayPasses ==
    /\ cleanup # "due" /\ \A t \in Ticks : ~Alive(t)
    /\ cleanup' = "due"
    /\ UNCHANGED <<line, lease, lock, digest, tick, manual, bounds, history>>

WeekPasses ==
    /\ digest = "fresh" /\ \A t \in Ticks : ~Alive(t)
    /\ digest' = "due"
    /\ digests' = 0
    /\ UNCHANGED <<line, lease, lock, cleanup, tick, manual, bounds,
                   searches, threw>>

TickStep(t) ==
    \/ Acquire(t) \/ FindHeld(t) \/ LockTracker(t) \/ Stop(t)
    \/ Renew(t) \/ Beat(t) \/ Search(t) \/ Finalize(t) \/ ReleaseTracker(t)
    \/ Count(t) \/ Digest(t) \/ SendDigest(t) \/ SaveDigest(t)
    \/ ClaimCleanup(t) \/ Prune(t) \/ Unclaim(t) \/ Finish(t)
ManualStep == ManualFinalize \/ ManualRelease

Next ==
    \/ \E t \in Ticks : Begin(t) \/ TickStep(t)
                         \/ SendUnanswered(t) \/ Throw(t) \/ Die(t)
    \/ \E k \in Trackers : ManualLock(k) \/ ComeDue(k)
    \/ ManualStep \/ ManualThrow \/ ManualDie
    \/ ExpireLease \/ (\E k \in Trackers : ExpireLock(k))
    \/ DayPasses \/ WeekPasses

Spec == Init /\ [][Next]_vars

-----------------------------------------------------------------------------
Searching(a) ==
    IF a = User THEN IF manual.busy THEN {manual.on} ELSE {}
    ELSE IF At(a, "search") THEN {Now(a)} ELSE {}

\* Whatever throws or dies, two invocations never search at once.
OneTickSearches ==
    \A s, t \in Ticks : At(s, "search") /\ At(t, "search") => s = t

\* Nobody searches a tracker that somebody else is searching.
NoDoubleSearch ==
    \A a, b \in Actors : a # b => Searching(a) \cap Searching(b) = {}

\* A tick that reports `completed' leaves nothing that was due when it began
\* unchecked, not even what it found locked.
CompletedMeansDone ==
    \A t \in Ticks : tick[t].completed => tick[t].owed = {}

\* An invocation makes no more live searches than it may, unless an exception
\* keeps it from counting them.
TickBudget == \A t \in Ticks \ threw : searches[t] <= Queries

\* One digest a week, and at most one more for each accident: a lease outlived, a
\* death or a failed write after the message, a lost answer.
DigestOnce == digests <= 1 + accidents

\* Whoever has claimed the day's cleanup is at it: a claim whose work failed is
\* not left behind, and nobody gives back what another has claimed or done.
ClaimsAreWorkedOff ==
    /\ \A t \in Ticks : cleanup = t => tick[t].pc \in {"prune", "unclaim"}
    /\ \A t \in Ticks : tick[t].pc = "prune" => cleanup = t

TickInv == TypeOK /\ TickBudget /\ ClaimsAreWorkedOff
=============================================================================
