---------------------------- MODULE AlertDelivery ----------------------------
(***************************************************************************)
(* The alert queue of the Worker: services/alerts.ts, the alert_events     *)
(* statements of db/repo.ts and the reply classification of                *)
(* services/telegram.ts.                                                   *)
(*                                                                         *)
(* A check that found something inserts one alert_events row per finding;  *)
(* the UNIQUE dedupe key makes the INSERT both the duplicate test and the  *)
(* claim to send it.  A retry sweep, run by every Cron tick, gives up the  *)
(* claims that expired and claims a batch of the failures worth another    *)
(* try.  Checks and sweeps overlap, and any of them may die at any await.  *)
(* Telegram may accept a message whose answer is lost.                     *)
(*                                                                         *)
(* An instant is kept as the time left to it.                              *)
(***************************************************************************)
EXTENDS Naturals, FiniteSets

CONSTANTS
    Checks,        \* tracker checks that call AlertService.process
    Sweeps,        \* callers of AlertService.retryPending
    Findings,      \* dedupe keys
    TypeOf,        \* the alert type of a finding
    Observations,  \* the sets of findings one observation can earn
    Overlap,       \* may two checks of the tracker run at once?
    Configured,    \* what a configuration test may answer
    MaxAttempts,   \* MAX_DELIVERY_ATTEMPTS
    Batch,         \* the limit of one sweep
    ClaimTTL,      \* DELIVERY_CLAIM_TTL_SECONDS
    Cooldown,      \* tracker.cooldown_minutes; 0 is off
    Base, MaxDelay,\* the first retry delay, doubled per attempt, and its cap
    RetryAfters,   \* values of Telegram's retry_after; 0 for none
    Misleading,    \* error replies that may hide an accepted message
    MaxCrashes,    \* how many invocations may die
    Null           \* SQL NULL

Workers == Checks \cup Sweeps

ASSUME ActorsAssumption ==
    /\ Checks \cap Sweeps = {}
    /\ Null \notin Workers \cup Findings
    /\ IsFiniteSet(Findings)

ASSUME FindingsAssumption ==
    /\ TypeOf \in [Findings -> {"threshold", "new_low", "approaching"}]
    /\ Observations \subseteq SUBSET Findings
    /\ \A o \in Observations : \A f, g \in o :
          /\ TypeOf[f] = TypeOf[g] => f = g
          /\ TypeOf[f] = "approaching" => f = g  \* only when nothing else is earned

ASSUME LimitsAssumption ==
    /\ Overlap \in BOOLEAN
    /\ Configured \subseteq BOOLEAN
    /\ MaxAttempts \in Nat \ {0}
    /\ Batch \in Nat
    /\ ClaimTTL \in Nat
    /\ Cooldown \in Nat
    /\ Base \in Nat
    /\ MaxDelay \in Nat
    /\ RetryAfters \subseteq Nat
    /\ Misleading \subseteq {"server_error", "rejected"}
    /\ MaxCrashes \in Nat

VARIABLES
    \* the alert_events table, a column a variable
    state, attempts, retryable, owner,
    lease,      \* time left to claim_expires_at
    wait,       \* time left to next_attempt_at
    cool,       \* time left to the end of the cooldown delivered_at starts
    born,       \* rank by created_at, id
    \* the invocations
    phase,      \* where each worker is
    seen,       \* the findings of a check's observation
    jobs,       \* findings a worker has yet to handle
    job,        \* the one it is handling
    answer,     \* what it will record of it
    crashes,
    \* what no program variable holds
    tries,      \* sendMessage requests made per finding
    accepted,   \* those Telegram accepted
    by          \* the check whose observation a row records

rowVars   == <<state, attempts, retryable, owner, lease, wait, cool, born>>
workVars  == <<phase, seen, jobs, job, answer>>
ghostVars == <<tries, accepted, by>>
vars == <<rowVars, workVars, crashes, ghostVars>>

-----------------------------------------------------------------------------
MinOf(a, b) == IF a <= b THEN a ELSE b
MaxOf(a, b) == IF a >= b THEN a ELSE b
Left(n) == IF n = 0 THEN 0 ELSE n - 1

States == {"absent", "sending", "failed", "sent", "uncertain",
           "suppressed_duplicate", "suppressed_cooldown", "not_configured"}
Replies == {"ok", "ambiguous", "rate_limit", "server_error", "rejected"}
Answers == Replies \cup {"consolidated", "cooldown", "unconfigured"}
Phases == {"idle", "next", "cooldown", "send", "record", "claim", "done"}

TypeOK ==
    /\ state \in [Findings -> States]
    /\ attempts \in [Findings -> 0..MaxAttempts]
    /\ retryable \in [Findings -> BOOLEAN]
    /\ owner \in [Findings -> Workers \cup {Null}]
    /\ lease \in [Findings -> 0..ClaimTTL]
    /\ wait \in [Findings -> Nat]
    /\ cool \in [Findings -> 0..Cooldown + 1]
    /\ born \in [Findings -> Nat]
    /\ phase \in [Workers -> Phases]
    /\ seen \in [Workers -> SUBSET Findings]
    /\ jobs \in [Workers -> SUBSET Findings]
    /\ job \in [Workers -> Findings \cup {Null}]
    /\ answer \in [Workers -> Answers \cup {Null}]
    /\ crashes \in 0..MaxCrashes
    /\ tries \in [Findings -> Nat]
    /\ accepted \in [Findings -> Nat]
    /\ by \in [Findings -> Checks \cup {Null}]

Init ==
    /\ state = [f \in Findings |-> "absent"]
    /\ attempts = [f \in Findings |-> 0]
    /\ retryable = [f \in Findings |-> FALSE]
    /\ owner = [f \in Findings |-> Null]
    /\ lease = [f \in Findings |-> 0]
    /\ wait = [f \in Findings |-> 0]
    /\ cool = [f \in Findings |-> 0]
    /\ born = [f \in Findings |-> 0]
    /\ phase = [w \in Workers |-> "idle"]
    /\ seen = [w \in Workers |-> {}]
    /\ jobs = [w \in Workers |-> {}]
    /\ job = [w \in Workers |-> Null]
    /\ answer = [w \in Workers |-> Null]
    /\ crashes = 0
    /\ tries = [f \in Findings |-> 0]
    /\ accepted = [f \in Findings |-> 0]
    /\ by = [f \in Findings |-> Null]

Go(w, p) == phase' = [phase EXCEPT ![w] = p]
Answer(w, a) == /\ answer' = [answer EXCEPT ![w] = a]
                /\ Go(w, "record")
\* Where a worker stands once it has handled everything.
Rest(w) == IF w \in Checks THEN "done" ELSE "idle"

-----------------------------------------------------------------------------
(* A check: process and handleOne.                                         *)

\* A new low already reports the threshold, whose row is then only recorded.
QuietMutant(c, f) == FALSE
Quiet(c, f) == /\ TypeOf[f] = "threshold"
               /\ \E g \in seen[c] : TypeOf[g] = "new_low"

\* The tracker lock keeps the checks of one tracker apart until it expires.
Observe(c) ==
    /\ phase[c] = "idle"
    /\ Overlap \/ \A d \in Checks : phase[d] \in {"idle", "done"}
    /\ \E o \in Observations :
          /\ seen' = [seen EXCEPT ![c] = o]
          /\ jobs' = [jobs EXCEPT ![c] = o]
    /\ Go(c, "next")
    /\ UNCHANGED <<rowVars, job, answer, crashes, ghostVars>>

\* The consolidated findings come last.
NextOf(c) == {f \in jobs[c] : Quiet(c, f) => \A g \in jobs[c] : Quiet(c, g)}

Insert(c, f) ==
    /\ phase[c] = "next"
    /\ f \in NextOf(c)
    /\ state[f] = "absent"
    /\ state' = [state EXCEPT ![f] = "sending"]
    /\ attempts' = [attempts EXCEPT ![f] = 1]
    /\ owner' = [owner EXCEPT ![f] = c]
    /\ lease' = [lease EXCEPT ![f] = ClaimTTL]
    /\ born' = [born EXCEPT ![f] = Cardinality({g \in Findings : state[g] # "absent"})]
    /\ by' = [by EXCEPT ![f] = c]
    /\ jobs' = [jobs EXCEPT ![c] = @ \ {f}]
    /\ job' = [job EXCEPT ![c] = f]
    /\ IF Quiet(c, f)
          THEN Answer(c, "consolidated")
          ELSE Go(c, "cooldown") /\ UNCHANGED answer
    /\ UNCHANGED <<retryable, wait, cool, seen, crashes, tries, accepted>>

\* ON CONFLICT DO NOTHING: the finding was recorded before.
Duplicate(c, f) ==
    /\ phase[c] = "next"
    /\ f \in NextOf(c)
    /\ state[f] # "absent"
    /\ jobs' = [jobs EXCEPT ![c] = @ \ {f}]
    /\ UNCHANGED <<rowVars, phase, seen, job, answer, crashes, ghostVars>>

\* An alert delivered exactly a cooldown ago is still inside the window.
CoolFor == IF Cooldown > 0 THEN Cooldown + 1 ELSE 0

\* The latest delivered alert of the type lies within the window.
InCooldown(f) ==
    \E g \in Findings \ {f} :
        TypeOf[g] = TypeOf[f] /\ state[g] = "sent" /\ cool[g] > 0

CheckCooldown(c) ==
    /\ phase[c] = "cooldown"
    /\ \/ InCooldown(job[c]) /\ Answer(c, "cooldown")
       \/ ~InCooldown(job[c]) /\ FALSE \in Configured /\ Answer(c, "unconfigured")
       \/ /\ ~InCooldown(job[c])
          /\ TRUE \in Configured
          /\ Go(c, "send")
          /\ UNCHANGED answer
    /\ UNCHANGED <<rowVars, seen, jobs, job, crashes, ghostVars>>

-----------------------------------------------------------------------------
(* Delivery: deliverClaimed, for a check's row and for a sweep's.          *)

\* The request reaches Telegram, or does not, and the client classifies what
\* came back.  A timeout, a lost connection and an unreadable body say nothing.
MayHide == {"ambiguous"} \cup Misleading
Transmit(w) ==
    /\ phase[w] = "send"
    /\ \E reply \in Replies, arrived \in BOOLEAN :
          /\ reply = "ok" => arrived
          /\ arrived => reply \in {"ok"} \cup MayHide
          /\ accepted' = [accepted EXCEPT ![job[w]] = @ + (IF arrived THEN 1 ELSE 0)]
          /\ Answer(w, reply)
    /\ tries' = [tries EXCEPT ![job[w]] = @ + 1]
    /\ UNCHANGED <<rowVars, seen, jobs, job, crashes, by>>

VerdictMutant(a) ==
    CASE a = "ok"           -> "sent"
      [] a = "consolidated" -> "suppressed_duplicate"
      [] a = "cooldown"     -> "suppressed_cooldown"
      [] a = "unconfigured" -> "not_configured"
      [] OTHER              -> "failed"
Verdict(a) ==
    CASE a = "ok"           -> "sent"
      [] a = "ambiguous"    -> "uncertain"
      [] a = "consolidated" -> "suppressed_duplicate"
      [] a = "cooldown"     -> "suppressed_cooldown"
      [] a = "unconfigured" -> "not_configured"
      [] OTHER              -> "failed"

WorthRetrying(a, n) == a \in {"rate_limit", "server_error"} /\ n < MaxAttempts

Delay(n, after) == MinOf(MaxDelay, MaxOf(after, Base * 2^(n - 1)))

StillOwnedMutant(w, f) == TRUE
StillOwned(w, f) == owner[f] = w /\ state[f] = "sending"

PutDown(w) == /\ job' = [job EXCEPT ![w] = Null]
              /\ answer' = [answer EXCEPT ![w] = Null]
              /\ Go(w, "next")

\* completeAlertClaim, then on to the next row.
Record(w) ==
    LET f == job[w]
        again == WorthRetrying(answer[w], attempts[f])
    IN  /\ phase[w] = "record"
        /\ StillOwned(w, f)
        /\ state' = [state EXCEPT ![f] = Verdict(answer[w])]
        /\ retryable' = [retryable EXCEPT ![f] = again]
        /\ \E after \in RetryAfters :
              wait' = [wait EXCEPT ![f] = IF again THEN Delay(attempts[f], after) ELSE 0]
        /\ cool' = [cool EXCEPT ![f] = IF answer[w] = "ok" THEN CoolFor ELSE 0]
        /\ owner' = [owner EXCEPT ![f] = Null]
        /\ lease' = [lease EXCEPT ![f] = 0]
        /\ PutDown(w)
        /\ UNCHANGED <<attempts, born, seen, jobs, crashes, ghostVars>>

\* The claim was given up meanwhile: nothing is written.
LoseClaim(w) ==
    /\ phase[w] = "record"
    /\ ~StillOwned(w, job[w])
    /\ PutDown(w)
    /\ UNCHANGED <<rowVars, seen, jobs, crashes, ghostVars>>

Finish(w) ==
    /\ phase[w] = "next"
    /\ jobs[w] = {}
    /\ Go(w, Rest(w))
    /\ seen' = [seen EXCEPT ![w] = {}]
    /\ UNCHANGED <<rowVars, jobs, job, answer, crashes, ghostVars>>

-----------------------------------------------------------------------------
(* A sweep: retryPending.                                                  *)

ExpiredMutant(f) == FALSE
Expired(f) == state[f] = "sending" /\ lease[f] = 0

MarkExpired(r) ==
    /\ phase[r] = "idle"
    /\ state' = [f \in Findings |-> IF Expired(f) THEN "uncertain" ELSE state[f]]
    /\ retryable' = [f \in Findings |-> retryable[f] /\ ~Expired(f)]
    /\ owner' = [f \in Findings |-> IF Expired(f) THEN Null ELSE owner[f]]
    /\ \E ready \in Configured : Go(r, IF ready THEN "claim" ELSE "idle")
    /\ UNCHANGED <<attempts, lease, wait, cool, born, seen, jobs, job, answer,
                   crashes, ghostVars>>

EligibleReclaims ==
    {f \in Findings : /\ attempts[f] < MaxAttempts
                      /\ \/ state[f] = "failed" /\ retryable[f] /\ wait[f] = 0
                         \/ state[f] = "sending" /\ lease[f] = 0}
Eligible == {f \in Findings : /\ state[f] = "failed"
                              /\ retryable[f]
                              /\ attempts[f] < MaxAttempts
                              /\ wait[f] = 0}
Oldest(S) == {f \in S : Cardinality({g \in S : born[g] < born[f]}) < Batch}

NextAttemptTwice(n) == n + 2
NextAttempt(n) == n + 1

Claim(r) ==
    /\ phase[r] = "claim"
    /\ LET batch == Oldest(Eligible) IN
          /\ state' = [f \in Findings |-> IF f \in batch THEN "sending" ELSE state[f]]
          /\ attempts' = [f \in Findings |->
                            IF f \in batch THEN NextAttempt(attempts[f]) ELSE attempts[f]]
          /\ retryable' = [f \in Findings |-> retryable[f] /\ f \notin batch]
          /\ owner' = [f \in Findings |-> IF f \in batch THEN r ELSE owner[f]]
          /\ lease' = [f \in Findings |-> IF f \in batch THEN ClaimTTL ELSE lease[f]]
          /\ jobs' = [jobs EXCEPT ![r] = batch]
    /\ Go(r, "next")
    /\ UNCHANGED <<wait, cool, born, seen, job, answer, crashes, ghostVars>>

\* RETURNING promises no order.
Take(r, f) ==
    /\ phase[r] = "next"
    /\ f \in jobs[r]
    /\ jobs' = [jobs EXCEPT ![r] = @ \ {f}]
    /\ job' = [job EXCEPT ![r] = f]
    /\ Go(r, "send")
    /\ UNCHANGED <<rowVars, seen, answer, crashes, ghostVars>>

-----------------------------------------------------------------------------
(* The platform.                                                           *)

\* The invocation dies, or a statement fails and ends it; the sweep's place
\* is taken by the next tick.
Crash(w) ==
    /\ crashes < MaxCrashes
    /\ phase[w] \notin {"idle", "done"}
    /\ crashes' = crashes + 1
    /\ Go(w, Rest(w))
    /\ seen' = [seen EXCEPT ![w] = {}]
    /\ jobs' = [jobs EXCEPT ![w] = {}]
    /\ job' = [job EXCEPT ![w] = Null]
    /\ answer' = [answer EXCEPT ![w] = Null]
    /\ UNCHANGED <<rowVars, ghostVars>>

Tick ==
    /\ lease' = [f \in Findings |-> Left(lease[f])]
    /\ wait' = [f \in Findings |-> Left(wait[f])]
    /\ cool' = [f \in Findings |-> Left(cool[f])]
    /\ UNCHANGED <<state, attempts, retryable, owner, born, workVars, crashes, ghostVars>>

CheckStep(c) == \/ Observe(c)
                \/ \E f \in Findings : Insert(c, f) \/ Duplicate(c, f)
                \/ CheckCooldown(c)
SweepStep(r) == \/ MarkExpired(r)
                \/ Claim(r)
                \/ \E f \in Findings : Take(r, f)
Deliver(w) == Transmit(w) \/ Record(w) \/ LoseClaim(w) \/ Finish(w)

Next == \/ \E c \in Checks : CheckStep(c)
        \/ \E r \in Sweeps : SweepStep(r)
        \/ \E w \in Workers : Deliver(w) \/ Crash(w)
        \/ Tick

Spec == Init /\ [][Next]_vars

\* Time passes, Cron keeps starting sweeps, and an invocation that is not
\* killed goes on; a check need not start, and none is owed a crash.
Fairness == /\ WF_vars(Tick)
            /\ \A r \in Sweeps : WF_vars(SweepStep(r) \/ Deliver(r))
            /\ \A c \in Checks : WF_vars(Deliver(c) \/ (phase[c] # "idle" /\ CheckStep(c)))
FairSpec == Spec /\ Fairness

-----------------------------------------------------------------------------
(* Properties.                                                             *)

\* What a worker holds and will send, or has sent without recording it.
ToSend(w) == (IF w \in Sweeps THEN jobs[w] ELSE {}) \cup
             (IF phase[w] \in {"cooldown", "send", "record"} THEN {job[w]} ELSE {})

\* The rows a claim returns go to no other invocation, even after the claim
\* has expired under its holder.
SoleSender == \A v, w \in Workers : v # w => ToSend(v) \cap ToSend(w) = {}

\* The same finding produces at most one message, through concurrent checks,
\* retries, claims that expire under a live sender, and crashes.
OncePerFinding == \A f \in Findings : accepted[f] <= 1

\* What the dashboard says of a finding is so: "sent" was accepted, and one
\* that failed for good or was suppressed was not.
VerdictTruthful ==
    \A f \in Findings :
        /\ state[f] = "sent" => accepted[f] = 1
        /\ state[f] \in {"failed", "suppressed_duplicate", "suppressed_cooldown",
                         "not_configured"} => accepted[f] = 0

\* One observation produces at most one message, retries included.
OneMessagePerObservation ==
    \A f, g \in Findings :
        (by[f] # Null /\ by[f] = by[g] /\ accepted[f] > 0 /\ accepted[g] > 0) => f = g

\* The attempts column never undercounts the requests made, whoever dies, and
\* stays within the limit.
AttemptsCovered == \A f \in Findings : tries[f] <= attempts[f] /\ attempts[f] <= MaxAttempts

AlertInv == TypeOK /\ SoleSender /\ AttemptsCovered

Settled(f) == \/ state[f] \in {"sent", "uncertain", "suppressed_duplicate",
                               "suppressed_cooldown", "not_configured"}
              \/ state[f] = "failed" /\ ~retryable[f]

\* Whatever dies, a recorded finding reaches a final verdict.
EverySettles == \A f \in Findings : state[f] # "absent" ~> Settled(f)

verdictOf == [f \in Findings |->
    CASE state[f] = "absent" -> "none"
      [] state[f] = "sent" -> "sent"
      [] state[f] = "uncertain" -> "unsure"
      [] state[f] = "sending" \/ (state[f] = "failed" /\ retryable[f]) -> "open"
      [] OTHER -> "dropped"]
toldOf == {f \in Findings : accepted[f] > 0}
Promise == INSTANCE AlertPromise WITH verdict <- verdictOf, told <- toldOf

\* The queue implements the at-most-once promise.
ImplementsPromise == Promise!Spec
=============================================================================
