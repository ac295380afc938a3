--------------------------- MODULE CandidateSweep ---------------------------
(***************************************************************************)
(* What a check searches: planUnits, executeLive, executeCached and        *)
(* persistOffers of services/search.ts, and the queue of date pairs of a   *)
(* tracker (db/repo.ts) that a custom window is swept from, cycle after    *)
(* cycle, while days pass, the owner edits the tracker, invocations die    *)
(* and the allowance refuses.                                              *)
(*                                                                         *)
(* Date pairs are numbered in the order of the queue, which is also that   *)
(* of their ids.  A pair or a market that was checked and one that failed  *)
(* are both settled: only the owner is told the difference.                *)
(***************************************************************************)
EXTENDS Integers, FiniteSets, Sequences

CONSTANTS
    Cron, User,    \* a tick at this tracker; the owner's requests
    Exact,         \* BOOLEAN: exact dates or a preset (one pair, no queue), or a window
    Departs,       \* the day each date pair departs
    Markets,       \* how many country markets
    PerRun,        \* candidates_per_run
    MaxQueries,    \* what a tick lets one check search
    Laps,          \* cycles are compared for equality alone: counted modulo Laps
    Caching,       \* BOOLEAN: QUERY_CACHE_TTL_SECONDS > 0
    Overlap,       \* BOOLEAN: may one begin (and read) while another is at work?
    LastDay, MaxSaves,
    MaxAccidents,  \* how many deaths, refusals, and locks that expire under a live holder
    Null, Dead

Actors == {Cron, User}
Pairs == 1..Len(Departs)
Units == Pairs \X (1..Markets)

ASSUME ActorsAssumption == Cron # User /\ {Null, Dead} \cap Actors = {} /\ Null # Dead
ASSUME QueueAssumption ==
    /\ Departs \in Seq(Nat) /\ Exact => Len(Departs) = 1
    /\ {Markets, PerRun, MaxQueries} \subseteq Nat \ {0}
    /\ Laps \in Nat /\ Laps > 2
    /\ {LastDay, MaxSaves, MaxAccidents} \subseteq Nat

VARIABLES
    today,
    conf,      \* the configuration in the tracker's fields, by number
    latest,    \* its latest version: id, and the configuration it is of
    queue,     \* the date pairs: the version they belong to, which build of the queue
               \* (its ids), the pairs, their cycle, the pending pairs and markets
    lap,       \* trackers.coverage_cycle
    over,      \* is the tracker completed?
    lock,      \* the tracker lock
    cache,     \* the searches of this configuration that were ever answered
    op,        \* what each actor does and remembers
    saves, accidents

tracker == <<conf, latest, lap, over>>
bounds == <<saves, accidents>>
vars == <<today, tracker, queue, lock, cache, op, bounds>>

-----------------------------------------------------------------------------
PCs == {"idle", "lock", "version", "skip", "claim", "advance", "bump", "plan",
        "unit", "store", "end", "fields", "rebuild"}
Op == [pc : PCs, conf : Nat, lap : 0..(Laps - 1), id : Nat, build : Nat, day : Nat,
       claimed : SUBSET Pairs, units : SUBSET Units, hits : SUBSET Units,
       allowed : SUBSET Units]
Queue == [id : Nat, build : Nat, pairs : SUBSET Pairs, lap : [Pairs -> 0..(Laps - 1)],
          pending : SUBSET Pairs, markets : SUBSET Units]

TypeOK ==
    /\ today \in 0..LastDay
    /\ conf \in 0..MaxSaves
    /\ latest \in [id : Nat, conf : 0..MaxSaves]
    /\ queue \in Queue
    /\ lap \in 0..(Laps - 1) /\ over \in BOOLEAN
    /\ lock \in Actors \cup {Null, Dead}
    /\ cache \subseteq Units
    /\ op \in [Actors -> Op]
    /\ saves \in 0..MaxSaves /\ accidents \in 0..MaxAccidents

Idle == [pc |-> "idle", conf |-> 0, lap |-> 0, id |-> 0, build |-> 0, day |-> 0,
         claimed |-> {}, units |-> {}, hits |-> {}, allowed |-> {}]

\* A queue as it is inserted, with the rows that ensureCandidateMarkets adds
\* before the first claim: the markets of a version never change.
Built(id, build, pairs) ==
    [id |-> id, build |-> build, pairs |-> pairs, lap |-> [p \in Pairs |-> 1],
     pending |-> pairs, markets |-> pairs \X (1..Markets)]

Bookable(day) == {p \in Pairs : Departs[p] >= day}

Init ==
    /\ today = 0
    /\ conf = 0 /\ latest = [id |-> 1, conf |-> 0]
    /\ queue = Built(1, 0, IF Exact THEN {} ELSE Bookable(0))
    /\ lap = 1 /\ over = FALSE
    /\ lock = Null
    /\ cache = {}
    /\ op = [a \in Actors |-> Idle]
    /\ saves = 0 /\ accidents = 0

At(a, p) == op[a].pc = p
Goto(a, p) == op' = [op EXCEPT ![a].pc = p]
Rest(a) == op' = [op EXCEPT ![a] = Idle]
Spent(accident) ==
    /\ accident => accidents < MaxAccidents
    /\ accidents' = IF accident THEN accidents + 1 ELSE accidents
MayBegin == Overlap \/ (lock = Null /\ \A a \in Actors : At(a, "idle"))

-----------------------------------------------------------------------------
\* The row is read: selected by a tick, or for a request.
Read(a) ==
    /\ At(a, "idle") /\ MayBegin
    /\ a = Cron => ~over
    /\ op' = [op EXCEPT ![a] = [Idle EXCEPT !.pc = "lock", !.conf = conf, !.lap = lap]]
    /\ UNCHANGED <<today, tracker, queue, lock, cache, bounds>>

Acquire(a) ==
    /\ At(a, "lock")
    /\ \/ /\ lock = Null
          /\ lock' = a
          /\ Goto(a, "version")
       \/ /\ lock # Null
          /\ Rest(a)
          /\ UNCHANGED lock
    /\ UNCHANGED <<today, tracker, queue, cache, bounds>>

\* tripCompletedReason.
TripOver == Bookable(today) = {}

\* ensureConfigVersion of a check, which knows no date pairs: a row that differs
\* from the latest version makes a new one, and the queue stays with the old one.
\* Then a trip whose last departure has passed is over.
Version(a) ==
    /\ At(a, "version")
    /\ LET changed == latest.conf # op[a].conf
           id == IF changed THEN latest.id + 1 ELSE latest.id
       IN /\ latest' = [id |-> id, conf |-> op[a].conf]
          /\ op' = [op EXCEPT ![a].id = id,
                      ![a].pc = CASE TripOver -> "end"
                                  [] Exact -> "plan"
                                  [] OTHER -> "skip"]
    /\ over' = (over \/ TripOver)
    /\ UNCHANGED <<today, conf, lap, queue, lock, cache, bounds>>

\* skipPastCandidates: what can no longer be booked is settled unsearched.
Flown(a) == IF queue.id = op[a].id THEN Pairs \ Bookable(today) ELSE {}

Skip(a) ==
    /\ At(a, "skip")
    /\ queue' = [queue EXCEPT !.pending = @ \ Flown(a),
                              !.markets = {u \in @ : u[1] \notin Flown(a)}]
    /\ op' = [op EXCEPT ![a].pc = "claim", ![a].day = today]
    /\ UNCHANGED <<today, tracker, lock, cache, bounds>>

\* claimCandidates: the first pending pairs of this version in this cycle.
Claimed(a, l) ==
    LET due == {p \in queue.pending : queue.id = op[a].id /\ queue.lap[p] = l}
    IN {p \in due : Cardinality({q \in due : q < p}) < PerRun}

Claim(a) ==
    /\ At(a, "claim")
    /\ op' = [op EXCEPT ![a].claimed = Claimed(a, op[a].lap), ![a].build = queue.build,
                ![a].pc = IF Claimed(a, op[a].lap) = {} THEN "advance" ELSE "plan"]
    /\ UNCHANGED <<today, tracker, queue, lock, cache, bounds>>

NextLap(l) == (l + 1) % Laps

\* startNextCycle: nothing is left of this one, so everything bookable is
\* pending again.
ReopenedMutant(q, pairs, l) ==
    [q EXCEPT !.pending = @ \cup pairs,
              !.lap = [p \in Pairs |-> IF p \in pairs THEN l ELSE @[p]]]
Reopened(q, pairs, l) ==
    [q EXCEPT !.pending = @ \cup pairs,
              !.markets = @ \cup (pairs \X (1..Markets)),
              !.lap = [p \in Pairs |-> IF p \in pairs THEN l ELSE @[p]]]

Advance(a) ==
    /\ At(a, "advance")
    /\ queue' = IF queue.id = op[a].id
                THEN Reopened(queue, queue.pairs \cap Bookable(op[a].day), NextLap(op[a].lap))
                ELSE queue
    /\ Goto(a, "bump")
    /\ UNCHANGED <<today, tracker, lock, cache, bounds>>

\* The tracker's cycle follows, and the pairs are claimed once more.
Bump(a) ==
    /\ At(a, "bump")
    /\ lap' = NextLap(op[a].lap)
    /\ op' = [op EXCEPT ![a].pc = "plan", ![a].lap = NextLap(@), ![a].build = queue.build,
                ![a].claimed = Claimed(a, NextLap(op[a].lap))]
    /\ UNCHANGED <<today, conf, latest, over, queue, lock, cache, bounds>>

\* pendingCandidateMarkets, by candidate and market; or every market there is.
WorkMutant(a) == IF Exact THEN Units ELSE op[a].claimed \X (1..Markets)
Work(a) ==
    IF Exact THEN Units
    ELSE {u \in queue.markets : /\ u[1] \in op[a].claimed /\ queue.build = op[a].build
                                /\ queue.lap[u[1]] = op[a].lap}
\* They are asked by candidate and market; a budget cuts the list short.
Before(u, v) == u[1] < v[1] \/ (u[1] = v[1] /\ u[2] < v[2])
First(n, units) == {u \in units : Cardinality({v \in units : Before(v, u)}) < n}
Sliced(a, units) == IF a = Cron THEN First(MaxQueries, units) ELSE units

\* cacheGet: what was answered for this configuration and has not expired, unless a
\* fresh answer is wanted.
Hits(a, units) == IF op[a].conf = conf THEN SUBSET (cache \cap units) ELSE {{}}

\* The plan is cut to the budget, the cache is asked, and the allowance grants the rest, or the
\* first of it.
Plan(a) ==
    /\ At(a, "plan")
    /\ LET units == Sliced(a, Work(a))
       IN \E hits \in Hits(a, units) :
            LET billable == units \ hits
            IN \E granted \in 0..Cardinality(billable) :
                 /\ Spent(granted < Cardinality(billable))
                 /\ op' = [op EXCEPT ![a].pc = IF units = {} THEN "end" ELSE "unit",
                             ![a].units = units, ![a].hits = hits,
                             ![a].allowed = First(granted, billable),
                             ![a].claimed = {}, ![a].id = 0, ![a].day = 0]
    /\ UNCHANGED <<today, tracker, queue, lock, cache, saves>>

\* The search at hand.
Unit(a) == CHOOSE u \in op[a].units : \A v \in op[a].units : ~Before(v, u)
Dropped(a) ==
    op' = [op EXCEPT ![a].units = @ \ {Unit(a)},
             ![a].pc = IF op[a].units = {Unit(a)} THEN "end" ELSE "unit"]

\* The heartbeat of a tick, which has lost the tracker.
LoseLock(a) ==
    /\ At(a, "unit") /\ a = Cron /\ lock # a
    /\ Goto(a, "end")
    /\ UNCHANGED <<today, tracker, queue, lock, cache, bounds>>

MayGoOn(a) == At(a, "unit") /\ (a = Cron => lock = a)

UseCached(a) ==
    /\ MayGoOn(a) /\ Unit(a) \in op[a].hits
    /\ Goto(a, "store")
    /\ UNCHANGED <<today, tracker, queue, lock, cache, bounds>>

\* Refused by the grant, or when its calls are reserved: it stays pending.
Block(a) ==
    /\ MayGoOn(a) /\ Unit(a) \notin op[a].hits
    /\ Spent(Unit(a) \in op[a].allowed)
    /\ Dropped(a)
    /\ UNCHANGED <<today, tracker, queue, lock, cache, saves>>

\* A live search, which finds something to keep or fails.
Search(a) ==
    /\ MayGoOn(a) /\ Unit(a) \in op[a].allowed
    /\ \/ Caching /\ op[a].conf = conf /\ cache' = cache \cup {Unit(a)}
       \/ UNCHANGED cache
    /\ Goto(a, "store")
    /\ UNCHANGED <<today, tracker, queue, lock, bounds>>

\* markCandidateMarketChecked: the market, and the pair once no market is left.
\* Rows of another build or another cycle are left alone.
SettledMutant(q, u) ==
    [q EXCEPT !.markets = @ \ {u}, !.pending = @ \ {u[1]}]
Settled(q, u) ==
    [q EXCEPT !.markets = @ \ {u},
              !.pending = IF \E m \in 1..Markets : <<u[1], m>> \in q.markets \ {u}
                          THEN @ \cup {u[1]} ELSE @ \ {u[1]}]

Store(a) ==
    /\ At(a, "store")
    /\ queue' = IF ~Exact /\ queue.build = op[a].build /\ queue.lap[Unit(a)[1]] = op[a].lap
                THEN Settled(queue, Unit(a)) ELSE queue
    /\ Dropped(a)
    /\ UNCHANGED <<today, tracker, lock, cache, bounds>>

\* finalize and the next run are TrackerCheck's; the lock is released.
End(a) ==
    /\ At(a, "end")
    /\ lock' = IF lock = a THEN Null ELSE lock
    /\ Rest(a)
    /\ UNCHANGED <<today, tracker, queue, cache, bounds>>

-----------------------------------------------------------------------------
\* The owner saves the form: a window needs a departure that can be booked.  The
\* pairs are those from today on.
Save ==
    /\ At(User, "idle") /\ MayBegin /\ lock = Null
    /\ ~TripOver /\ saves < MaxSaves
    /\ saves' = saves + 1
    /\ lock' = User
    /\ op' = [op EXCEPT ![User] = [Idle EXCEPT !.pc = "fields",
                                     !.claimed = IF Exact THEN {} ELSE Bookable(today)]]
    /\ UNCHANGED <<today, tracker, queue, cache, accidents>>

\* The fields, changed or as they were; then the row is read again.
SaveFields ==
    /\ At(User, "fields")
    /\ \E c \in {conf, conf + 1} :
         /\ conf' = c
         /\ cache' = IF c = conf THEN cache ELSE {}
         /\ op' = [op EXCEPT ![User].pc = "rebuild", ![User].conf = c]
    /\ over' = FALSE
    /\ UNCHANGED <<today, latest, lap, queue, lock, bounds>>

\* replaceCandidates, if other pairs are in the queue than the form now means.
Replaced(pairs, id) ==
    LET found == IF queue.id = latest.id THEN queue.pairs ELSE {}
    IN IF id # latest.id \/ found # pairs THEN Built(id, queue.build + 1, pairs) ELSE queue

\* ensureConfigVersion with the date pairs: a new version comes with a new queue
\* and the first cycle; the same version has its queue replaced if other pairs
\* are in it, in the first cycle whatever the tracker's is.
Rebuild ==
    /\ At(User, "rebuild")
    /\ LET changed == latest.conf # op[User].conf
           id == IF changed THEN latest.id + 1 ELSE latest.id
       IN /\ latest' = [id |-> id, conf |-> op[User].conf]
          /\ lap' = IF changed THEN 1 ELSE lap
          /\ queue' = Replaced(op[User].claimed, id)
    /\ op' = [op EXCEPT ![User] = [Idle EXCEPT !.pc = "end"]]
    /\ UNCHANGED <<today, conf, over, lock, cache, bounds>>

-----------------------------------------------------------------------------
\* An invocation dies, or a statement throws: the rest of it is not done.  (What
\* throws still releases its lock, as if that expired at once.)  An edit that
\* dies half-way is a question of its own: EditDies.
CONSTANT EditDies
Die(a) ==
    /\ ~At(a, "idle") /\ (At(a, "rebuild") => EditDies)
    /\ Spent(TRUE)
    /\ lock' = IF lock = a THEN Dead ELSE lock
    /\ Rest(a)
    /\ UNCHANGED <<today, tracker, queue, cache, saves>>

Expire ==
    /\ lock # Null
    /\ Spent(lock # Dead)
    /\ lock' = Null
    /\ UNCHANGED <<today, tracker, queue, cache, op, saves>>

DayPasses ==
    /\ today < LastDay
    /\ today' = today + 1
    /\ UNCHANGED <<tracker, queue, lock, cache, op, bounds>>

Step(a) ==
    \/ Acquire(a) \/ Version(a) \/ Skip(a) \/ Claim(a) \/ Advance(a) \/ Bump(a) \/ Plan(a)
    \/ LoseLock(a) \/ UseCached(a) \/ Block(a) \/ Search(a) \/ Store(a) \/ End(a)
SaveStep == SaveFields \/ Rebuild

Next ==
    \/ \E a \in Actors : Read(a) \/ Step(a) \/ Die(a)
    \/ Save \/ SaveStep
    \/ Expire \/ DayPasses

Spec == Init /\ [][Next]_vars

\* Cron comes again and again, what is alive goes on, the locks of the dead expire.
FairSpec ==
    /\ Spec
    /\ WF_vars(Read(Cron)) /\ \A a \in Actors : WF_vars(Step(a))
    /\ WF_vars(SaveStep) /\ WF_vars(Expire)

-----------------------------------------------------------------------------
\* A date pair is pending as long as one of its markets is, and no longer,
\* whatever was skipped, rebuilt or stored in between.
PairOfMarkets ==
    /\ queue.pending = {u[1] : u \in queue.markets}
    /\ queue.pending \subseteq queue.pairs

\* What a check searches is still to be searched: it had not departed by the day the
\* check looked at, and nobody searched it in that market in this cycle (unless an
\* invocation died before it stored what it found, and that left no trace).
SearchesDue ==
    \A a \in Actors : ~Exact =>
       /\ At(a, "plan") => op[a].claimed \subseteq Bookable(op[a].day)
       /\ At(a, "unit") => Unit(a) \in queue.markets

QueueInv == TypeOK /\ PairOfMarkets /\ SearchesDue

\* No cycle is cut short: until a pair of the tracker's cycle has been searched in
\* every market it does not enter the next one, unless it was skipped as flown or
\* the queue was rebuilt.
WholeCycles ==
    [][\A p \in Pairs :
          /\ queue'.build = queue.build
          /\ queue.lap[p] = lap /\ queue'.lap[p] # lap
          => \A m \in 1..Markets : <<p, m>> \notin queue.markets]_vars

\* Every date pair is searched in every market, again and again, until it departs.
Asked(u) == \E a \in Actors : At(a, "store") /\ Unit(a) = u
Served == \A u \in Units : []<>(Asked(u) \/ Departs[u[1]] < today)
=============================================================================
