---------------------------- MODULE TrackerCheck ----------------------------
(***************************************************************************)
(* One tracker row under everything that writes it: checks by Cron and by  *)
(* hand (runTracker and finalize of services/search.ts, ensureConfigVersion *)
(* of services/tracker.ts), the web actions toggle and edit (web/router.ts) *)
(* and /pause and /resume (services/bot.ts).                               *)
(*                                                                         *)
(* Each of them takes the tracker lock.  The lock lives for a fixed time,  *)
(* so a slow or dead holder may lose it; and most callers read the row     *)
(* before they take it and go on with what they read.                      *)
(***************************************************************************)
EXTENDS Naturals, FiniteSets, Sequences

CONSTANTS
    Ticks,         \* Cron invocations that look at this tracker, over and over
    Users,         \* requests of the owner in flight, over and over
    Asks,          \* what the owner may ask for
    MaxAsks,       \* how often
    Confs,         \* search configurations (COMPARISON_FIELDS and markets)
    Passing,       \* those whose travel dates may pass
    Fares,         \* best fares a check may find
    Outcomes,      \* how a search may end
    MaxFound,      \* how many checks may find a fare
    FailureLimit,  \* FAILURE_LIMIT
    Overlap,       \* may an invocation begin while another runs?
    Slow,          \* may a living holder outlive its lock?
    MaxCrashes,    \* how many invocations may die or throw
    Null           \* SQL NULL

Actors == Ticks \cup Users
Ops == {"check", "toggle", "edit", "pause", "resume"}

ASSUME ActorsAssumption == Ticks \cap Users = {} /\ Null \notin Actors
ASSUME AsksAssumption == Asks \subseteq Ops /\ MaxAsks \in Nat
ASSUME SearchAssumption ==
    /\ Passing \subseteq Confs
    /\ Null \notin Nat
    /\ Fares \subseteq Nat
    /\ Outcomes \subseteq {"fare", "nothing", "failed", "blocked", "skipped"}
    /\ MaxFound \in Nat
    /\ FailureLimit \in Nat \ {0}
    /\ Overlap \in BOOLEAN /\ Slow \in BOOLEAN
    /\ MaxCrashes \in Nat

VARIABLES
    row,        \* the trackers row
    versions,   \* tracker_config_versions: the configuration of each version
    seen,       \* fare_observations: the best one of each check that found any
    lock,       \* lock_owner while lock_expires_at is to come, else Null
    past,       \* configurations whose travel dates have passed
    op, pc,     \* what each actor does, and where it is
    mem,        \* the row as the actor read it and changed it in memory
    want,       \* the configuration an edit asks for
    latest,     \* ensureConfigVersion: the number of versions it read
    found,      \* how its search ended
    best,       \* the observation it made
    asked, crashes,
    wish,       \* history: what the owner was last told, "run" or "stop", until
                \* who did not know of it, or a parking, overrules it
    behind,     \* history: who read the row before the owner was told so
    torn,       \* history: does the row name observations of another configuration?
    misled,     \* history: who read the row while it did
    compared,   \* history: what evaluate compared, and whether it was misled
    parkings,   \* history: how often the tracker became parked
    notices     \* history: how often the owner was told so

tables == <<row, versions, seen, lock>>
own == <<op, pc, mem, want, latest, found, best>>
copies == <<behind, misled>>
told == <<wish, torn, compared, parkings, notices>>
history == <<copies, told>>
vars == <<tables, past, own, asked, crashes, history>>

-----------------------------------------------------------------------------
Statuses == {"active", "paused", "error", "completed"}
Row == [status : Statuses, conf : Confs, cv : Nat,
        latest : Nat, low : Nat, lowFare : Nat \cup {Null},
        failures : 0..FailureLimit, due : BOOLEAN]
PCs == {"idle", "lock", "reread", "write", "fresh", "latest", "version",
        "search", "finalize", "park", "announce", "schedule", "release"}

\* 0 stands for no observation, and for no version.
TypeOK ==
    /\ row \in Row
    /\ versions \in Seq(Confs)
    /\ seen \in Seq([cv : Nat, conf : Confs, fare : Fares])
    /\ lock \in Actors \cup {Null}
    /\ past \subseteq Passing
    /\ op \in [Actors -> Ops \cup {"tick", "none"}]
    /\ pc \in [Actors -> PCs]
    /\ mem \in [Actors -> Row]
    /\ want \in [Actors -> Confs]
    /\ latest \in [Actors -> Nat]
    /\ found \in [Actors -> Outcomes \cup {"none"}]
    /\ best \in [Actors -> Nat]
    /\ asked \in 0..MaxAsks
    /\ crashes \in 0..MaxCrashes
    /\ wish \in {"run", "stop", "overruled"}
    /\ behind \subseteq Actors /\ misled \subseteq Actors /\ torn \in BOOLEAN
    /\ compared \subseteq [fresh : Nat, old : Nat, misled : BOOLEAN]
    /\ parkings \in Nat /\ notices \in Nat

\* A tracker as the form creates it: a row, a first version, and due at once.
NewRow(k) == [status |-> "active", conf |-> k, cv |-> 1, latest |-> 0, low |-> 0,
              lowFare |-> Null, failures |-> 0, due |-> TRUE]

\* What an actor between two operations holds: nothing anyone looks at.
Blank == NewRow(CHOOSE k \in Confs : TRUE)

\* Only whether the failures reach the limit is ever asked.
CapFailures(n) == IF n < FailureLimit THEN n ELSE FailureLimit

Init ==
    /\ \E k \in Confs : row = NewRow(k) /\ versions = <<k>>
    /\ seen = <<>>
    /\ lock = Null
    /\ past = {}
    /\ op = [a \in Actors |-> "none"]
    /\ pc = [a \in Actors |-> "idle"]
    /\ mem = [a \in Actors |-> Blank]
    /\ want = [a \in Actors |-> Blank.conf]
    /\ latest = [a \in Actors |-> 0]
    /\ found = [a \in Actors |-> "none"]
    /\ best = [a \in Actors |-> 0]
    /\ asked = 0
    /\ crashes = 0
    /\ wish = "run" /\ behind = {}
    /\ torn = FALSE /\ misled = {}
    /\ compared = {}
    /\ parkings = 0 /\ notices = 0

Go(a, p) == pc' = [pc EXCEPT ![a] = p]
Read(a) == /\ mem' = [mem EXCEPT ![a] = row]
           /\ behind' = behind \ {a}
           /\ misled' = IF torn THEN misled \cup {a} ELSE misled \ {a}
Begin(a, o) == /\ op' = [op EXCEPT ![a] = o]
               /\ Read(a)
               /\ Go(a, "lock")
End(a) == /\ op' = [op EXCEPT ![a] = "none"]
          /\ mem' = [mem EXCEPT ![a] = Blank]
          /\ want' = [want EXCEPT ![a] = Blank.conf]
          /\ latest' = [latest EXCEPT ![a] = 0]
          /\ found' = [found EXCEPT ![a] = "none"]
          /\ best' = [best EXCEPT ![a] = 0]
          /\ behind' = behind \ {a} /\ misled' = misled \ {a}
          /\ Go(a, "idle")

-----------------------------------------------------------------------------
(* The tracker lock.  Every statement that tests it takes an expired one   *)
(* for none, so the model forgets the owner when the lock expires.         *)

Quiet == \A a \in Actors : pc[a] = "idle"
MayBegin == Overlap \/ Quiet

\* selectDueTrackers; a next_run_at of NULL is due.
Select(t) ==
    /\ pc[t] = "idle"
    /\ MayBegin
    /\ row.status = "active" /\ row.due /\ lock = Null
    /\ Begin(t, "tick")
    /\ UNCHANGED <<tables, past, want, latest, found, best, asked, crashes, told>>

\* A request reads the tracker before anything else.
Ask(u, o) ==
    /\ pc[u] = "idle"
    /\ MayBegin
    /\ asked < MaxAsks
    /\ asked' = asked + 1
    /\ \E k \in IF o = "edit" THEN Confs \ past ELSE {want[u]} :
          want' = [want EXCEPT ![u] = k]
    /\ Begin(u, o)
    /\ UNCHANGED <<tables, past, latest, found, best, crashes, told>>

Entry(o) == CASE o \in {"tick", "check"} -> "latest"
              [] o \in {"toggle", "edit"} -> "write"
              [] OTHER -> "reread"

Acquire(a) ==
    /\ pc[a] = "lock"
    /\ lock = Null
    /\ lock' = a
    /\ Go(a, Entry(op[a]))
    /\ UNCHANGED <<row, versions, seen, past, op, mem, want, latest, found, best,
                   asked, crashes, history>>

Busy(a) ==
    /\ pc[a] = "lock"
    /\ lock # Null
    /\ End(a)
    /\ UNCHANGED <<tables, past, asked, crashes, told>>

Release(a) ==
    /\ pc[a] = "release"
    /\ lock' = IF lock = a THEN Null ELSE lock
    /\ End(a)
    /\ UNCHANGED <<row, versions, seen, past, asked, crashes, told>>

-----------------------------------------------------------------------------
(* Toggle, /pause and /resume; the edit form.                              *)

\* The bot reads the row again inside the lock.
Reread(a) ==
    /\ pc[a] = "reread"
    /\ Read(a)
    /\ Go(a, "write")
    /\ UNCHANGED <<tables, past, op, want, latest, found, best, asked, crashes, told>>

Target(a) == CASE op[a] = "pause" -> "paused"
               [] op[a] = "resume" -> "active"
               [] OTHER -> IF mem[a].status = "active" THEN "paused" ELSE "active"

\* The owner's last word, which nobody in flight has read; and a status written by who
\* did not know of it.
Tell(word) == wish' = word /\ behind' = {a \in Actors : pc[a] # "idle"}
Overrule(a, status) ==
    wish' = IF a \in behind /\ status # row.status THEN "overruled" ELSE wish

SetStatus(a) ==
    /\ pc[a] = "write"
    /\ op[a] \in {"toggle", "pause", "resume"}
    /\ mem[a].status # "completed"
    /\ row' = [row EXCEPT !.status = Target(a),
                          !.due = TRUE,
                          !.failures = IF Target(a) = "active" THEN 0 ELSE @]
    /\ Tell(IF Target(a) = "active" THEN "run" ELSE "stop")
    /\ Go(a, "release")
    /\ UNCHANGED <<versions, seen, lock, past, op, mem, want, latest, found, best,
                   asked, crashes, torn, misled, compared, parkings, notices>>

RefuseCompleted(a) ==
    /\ pc[a] = "write"
    /\ op[a] \in {"toggle", "pause", "resume"}
    /\ mem[a].status = "completed"
    /\ Go(a, "release")
    /\ UNCHANGED <<tables, past, op, mem, want, latest, found, best, asked, crashes, history>>

\* An edit revives a completed tracker and keeps any other status it read.
EditedStatus(s) == IF s = "completed" THEN "active" ELSE s

SaveEdit(a) ==
    /\ pc[a] = "write"
    /\ op[a] = "edit"
    /\ row' = [row EXCEPT !.status = EditedStatus(mem[a].status), !.conf = want[a]]
    /\ torn' = (torn \/ want[a] # row.conf)
    /\ IF mem[a].status = "completed" THEN Tell("run")
       ELSE Overrule(a, EditedStatus(mem[a].status)) /\ UNCHANGED behind
    /\ Go(a, "fresh")
    /\ UNCHANGED <<versions, seen, lock, past, op, mem, want, latest, found, best,
                   asked, crashes, misled, compared, parkings, notices>>

ReadFresh(a) ==
    /\ pc[a] = "fresh"
    /\ Read(a)
    /\ Go(a, "latest")
    /\ UNCHANGED <<tables, past, op, want, latest, found, best, asked, crashes, told>>

-----------------------------------------------------------------------------
(* ensureConfigVersion.                                                    *)

AfterVersion(a) == Go(a, IF op[a] = "edit" THEN "release" ELSE "search")

ReadLatest(a) ==
    /\ pc[a] = "latest"
    /\ latest' = [latest EXCEPT ![a] = Len(versions)]
    /\ Go(a, "version")
    /\ UNCHANGED <<tables, past, op, mem, want, found, best, asked, crashes, history>>

\* A version never changes, so its payload may be looked up here.
SameSeriesMutant(a) == mem[a].cv = latest[a]
SameSeries(a) == versions[latest[a]] = mem[a].conf

KeepVersion(a) ==
    /\ pc[a] = "version"
    /\ SameSeries(a)
    /\ row' = IF mem[a].cv = latest[a] THEN row ELSE [row EXCEPT !.cv = latest[a]]
    /\ mem' = [mem EXCEPT ![a].cv = latest[a]]
    /\ AfterVersion(a)
    /\ UNCHANGED <<versions, seen, lock, past, op, want, latest, found, best,
                   asked, crashes, history>>

\* The summaries of a row that starts a new series, and what the invocation
\* resets of its own copy: not the observation ids.
SummaryKept(r) == r
NewSeries(r) == [r EXCEPT !.latest = 0, !.low = 0, !.lowFare = Null]
InMemory(r) == [r EXCEPT !.lowFare = Null]

\* UNIQUE (tracker_id, version) fails the batch of the second of two.
VersionFreeMutant(a) == TRUE
VersionFree(a) == Len(versions) = latest[a]

NewVersion(a) ==
    /\ pc[a] = "version"
    /\ ~SameSeries(a)
    /\ VersionFree(a)
    /\ versions' = Append(versions, mem[a].conf)
    /\ row' = [NewSeries(row) EXCEPT !.cv = Len(versions')]
    /\ mem' = [mem EXCEPT ![a] = [InMemory(mem[a]) EXCEPT !.cv = Len(versions')]]
    /\ torn' = FALSE
    /\ AfterVersion(a)
    /\ UNCHANGED <<seen, lock, past, op, want, latest, found, best, asked, crashes,
                   wish, copies, compared, parkings, notices>>

VersionClash(a) ==
    /\ pc[a] = "version"
    /\ ~SameSeries(a)
    /\ ~VersionFree(a)
    /\ Go(a, "release")
    /\ UNCHANGED <<tables, past, op, mem, want, latest, found, best, asked, crashes, history>>

-----------------------------------------------------------------------------
(* runTracker, after the series is settled.                                *)

\* tripCompletedReason
Complete(a) ==
    /\ pc[a] = "search"
    /\ mem[a].conf \in past
    /\ row' = [row EXCEPT !.status = "completed", !.due = TRUE]
    /\ Go(a, "release")
    /\ UNCHANGED <<versions, seen, lock, past, op, mem, want, latest, found, best,
                   asked, crashes, history>>

\* A tick renews its lock before each unit and stops when it cannot.
MayGoOn(a) == op[a] = "tick" => lock = a

\* No provider, no unit to run, nothing allowed, every request failed, or
\* answers without a usable fare.
SearchInVain(a) ==
    /\ pc[a] = "search"
    /\ mem[a].conf \notin past
    /\ \E o \in Outcomes \ {"fare"} :
          /\ o \in {"nothing", "failed"} => MayGoOn(a)
          /\ found' = [found EXCEPT ![a] = o]
          /\ Go(a, IF o = "skipped" THEN "schedule" ELSE "finalize")
    /\ UNCHANGED <<tables, past, op, mem, want, latest, best, asked, crashes, history>>

\* persistOffers files the observation under the version in memory.
SearchFinds(a) ==
    /\ pc[a] = "search"
    /\ mem[a].conf \notin past
    /\ "fare" \in Outcomes /\ Len(seen) < MaxFound
    /\ MayGoOn(a)
    /\ \E f \in Fares :
          seen' = Append(seen, [cv |-> mem[a].cv, conf |-> mem[a].conf, fare |-> f])
    /\ found' = [found EXCEPT ![a] = "fare"]
    /\ best' = [best EXCEPT ![a] = Len(seen')]
    /\ Go(a, "finalize")
    /\ UNCHANGED <<row, versions, lock, past, op, mem, want, latest,
                   asked, crashes, history>>

\* finalize with a best observation: one UPDATE.  What it compares with are the
\* observations the copy in memory names.
LowerMutant(f, low) == low # Null /\ f < low
Lower(f, low) == low = Null \/ f < low

\* A success ends an error and keeps any other status it read.
RevivedMutant(s) == "active"
Revived(s) == IF s = "error" THEN "active" ELSE s

RecordFare(a) ==
    LET fare == seen[best[a]].fare
        isLow == Lower(fare, mem[a].lowFare)
        status == Revived(mem[a].status)
    IN  /\ pc[a] = "finalize"
        /\ found[a] = "fare"
        /\ row' = [row EXCEPT
                     !.latest = best[a],
                     !.low = IF isLow THEN best[a] ELSE mem[a].low,
                     !.lowFare = IF isLow THEN fare ELSE mem[a].lowFare,
                     !.failures = 0,
                     !.status = status]
        /\ compared' = compared \cup
               {[fresh |-> best[a], old |-> old, misled |-> a \in misled] :
                   old \in {mem[a].latest, mem[a].low} \ {0}}
        /\ torn' = (torn \/ a \in misled \/ mem[a].conf # row.conf)
        /\ Overrule(a, status)
        /\ Go(a, "schedule")
        /\ UNCHANGED <<versions, seen, lock, past, op, mem, want, latest, found, best,
                       asked, crashes, copies, parkings, notices>>

RecordFailure(a) ==
    LET n == CapFailures(mem[a].failures + 1)
    IN  /\ pc[a] = "finalize"
        /\ found[a] = "failed"
        /\ row' = [row EXCEPT !.failures = n]
        /\ mem' = [mem EXCEPT ![a].failures = n]
        /\ Go(a, IF n >= FailureLimit THEN "park" ELSE "schedule")
        /\ UNCHANGED <<versions, seen, lock, past, op, want, latest, found, best,
                       asked, crashes, history>>

\* The UPDATE, then the message, which nothing repeats when it is lost.
WasParkedMutant(r) == FALSE
WasParked(r) == r.status = "error"

Park(a) ==
    /\ pc[a] = "park"
    /\ row' = [row EXCEPT !.status = "error"]
    /\ parkings' = IF row.status = "error" THEN parkings ELSE parkings + 1
    /\ wish' = "overruled"
    /\ Go(a, IF WasParked(mem[a]) THEN "schedule" ELSE "announce")
    /\ UNCHANGED <<versions, seen, lock, past, op, mem, want, latest, found, best,
                   asked, crashes, copies, torn, compared, notices>>

Announce(a) ==
    /\ pc[a] = "announce"
    /\ notices' = notices + 1
    /\ Go(a, "schedule")
    /\ UNCHANGED <<tables, past, op, mem, want, latest, found, best,
                   asked, crashes, copies, wish, torn, compared, parkings>>

RecordNothing(a) ==
    /\ pc[a] = "finalize"
    /\ found[a] \in {"nothing", "blocked"}
    /\ row' = IF found[a] = "nothing" /\ mem[a].failures > 0
                  THEN [row EXCEPT !.failures = 0] ELSE row
    /\ Go(a, "schedule")
    /\ UNCHANGED <<versions, seen, lock, past, op, mem, want, latest, found, best,
                   asked, crashes, history>>

\* scheduleFollowUp, scheduleNextRun: some minutes from now.
Schedule(a) ==
    /\ pc[a] = "schedule"
    /\ row' = [row EXCEPT !.due = FALSE]
    /\ Go(a, "release")
    /\ UNCHANGED <<versions, seen, lock, past, op, mem, want, latest, found, best,
                   asked, crashes, history>>

-----------------------------------------------------------------------------
(* Time and accidents.                                                     *)

\* A statement fails and the finally block releases the lock, or the
\* invocation dies and leaves it.
Accident(a) ==
    /\ pc[a] \notin {"idle", "lock", "release"}
    /\ crashes < MaxCrashes
    /\ crashes' = crashes + 1
    /\ \/ Go(a, "release") /\ UNCHANGED <<op, mem, want, latest, found, best, copies>>
       \/ End(a)
    /\ UNCHANGED <<tables, past, asked, told>>

\* A dead holder loses the lock in time; a living one only if it is slow.
ExpireMutant ==
    /\ lock # Null
    /\ pc[lock] \notin {"idle", "lock"}
    /\ lock' = Null
    /\ UNCHANGED <<row, versions, seen, past, own, asked, crashes, history>>

Expire ==
    /\ lock # Null
    /\ Slow \/ pc[lock] \in {"idle", "lock"}
    /\ lock' = Null
    /\ UNCHANGED <<row, versions, seen, past, own, asked, crashes, history>>

ComeDue ==
    /\ ~row.due
    /\ row' = [row EXCEPT !.due = TRUE]
    /\ UNCHANGED <<versions, seen, lock, past, own, asked, crashes, history>>

DatesPass(k) ==
    /\ k \notin past
    /\ past' = past \cup {k}
    /\ UNCHANGED <<tables, own, asked, crashes, history>>

Step(a) == \/ Acquire(a) \/ Busy(a) \/ Release(a)
           \/ Reread(a) \/ SetStatus(a) \/ RefuseCompleted(a)
           \/ SaveEdit(a) \/ ReadFresh(a)
           \/ ReadLatest(a) \/ KeepVersion(a) \/ NewVersion(a) \/ VersionClash(a)
           \/ Complete(a) \/ SearchInVain(a) \/ SearchFinds(a)
           \/ RecordFare(a) \/ RecordFailure(a) \/ Park(a) \/ Announce(a)
           \/ RecordNothing(a)
           \/ Schedule(a)

Next == \/ \E t \in Ticks : Select(t)
        \/ \E u \in Users, o \in Asks : Ask(u, o)
        \/ \E a \in Actors : Step(a) \/ Accident(a)
        \/ Expire \/ ComeDue
        \/ \E k \in Passing : DatesPass(k)

Spec == Init /\ [][Next]_vars

\* Cron keeps coming, what has begun goes on, and time passes.
Fairness == /\ \A t \in Ticks : WF_vars(Select(t))
            /\ \A a \in Actors : WF_vars(Step(a))
            /\ WF_vars(Expire) /\ WF_vars(ComeDue)
FairSpec == Spec /\ Fairness

-----------------------------------------------------------------------------
(* Properties.                                                             *)

\* Whatever a check remembers, an observation is filed under a version of the
\* configuration that was searched.
FiledUnderOwnSeries ==
    \A i \in 1..Len(seen) :
        seen[i].cv \in 1..Len(versions) /\ versions[seen[i].cv] = seen[i].conf

\* A new version is a new configuration: no overlap of checks and edits splits
\* one series in two.
VersionsDiffer ==
    \A i \in 1..Len(versions) - 1 : versions[i] # versions[i + 1]

\* The summaries of the row are observations of its current series, and its
\* low is one of them, no dearer than the latest.
SummaryOfSeries ==
    /\ \A i \in {row.latest, row.low} \ {0} : seen[i].cv = row.cv
    /\ row.low = 0 <=> row.lowFare = Null
    /\ row.low # 0 => /\ row.lowFare = seen[row.low].fare
                      /\ row.lowFare <= seen[row.latest].fare

\* Once checks are over, the low of the row is the lowest fare the series ever
\* saw, whatever failures, pauses and edits lay between (finalize).
LowIsLowest ==
    Quiet =>
        \A i \in 1..Len(seen) :
            seen[i].cv = row.cv => row.low # 0 /\ row.lowFare <= seen[i].fare

\* Between operations the row's configuration is that of its version.
VersionOfConf ==
    Quiet => versions[row.cv] = row.conf

\* The row is that of one series.
SeriesInv == TypeOK /\ SummaryOfSeries /\ VersionOfConf

\* Fares of two configurations are not compared (evaluate in finalize, and the comment
\* of ensureConfigVersion), whatever overlaps, expires or dies, but by a check that was
\* misled: it read the row after an edit had changed its configuration, or after a
\* check of another configuration, or one misled, had recorded a fare, and before a
\* new series began.
ComparedWithinSeries ==
    \A c \in compared : ~c.misled => seen[c.fresh].conf = seen[c.old].conf

\* The owner's last word holds: a tracker he was told is paused does not check by itself,
\* and one he was told is running is not paused, until failures park it or a status
\* is written by an invocation that had read the row before he was told.
Obeyed ==
    /\ wish = "stop" => row.status \in {"paused", "completed"}
    /\ wish = "run" => row.status \in {"active", "completed"}

\* The owner is told of a parked tracker each time it becomes one, and only then.
AnnouncedOnce ==
    Quiet => notices = parkings

\* An active tracker is checked again, whoever died holding its lock.
KeepsChecking ==
    row.status = "active" ~> (row.status # "active" \/ \E a \in Actors : pc[a] = "search")
=============================================================================
