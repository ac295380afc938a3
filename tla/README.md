# FlightNotify: specification and proofs

FlightNotify watches flight prices for one owner.  A Cloudflare Worker
(`src/worker/src/`, TypeScript over a D1/SQLite database) is the live system; a
Python application (`src/flightnotify/`) is the behavioural reference it was
ported from and the rollback target.  This directory holds TLA+ models of the
Worker, the TLC configurations that check them and TLAPS proofs about them.

Every `await` of the Worker is a point where another invocation may act: a Cron
tick, a web request and a Telegram update are separate invocations that share
nothing but the database, and each of them may be killed at any point.  A D1
statement is atomic, and so is a batch; nothing larger is.  The models follow
that: one action per statement or external call, an action of its own for the
death of an invocation, and the in-memory values an invocation carries from one
await to the next as variables.

## 1. Inventory

| Component | Code | State it keeps | Operations |
|---|---|---|---|
| Provider quota | `services/quota.ts`, `db/repo.ts:800-990` | `provider_usage` (a ledger per UTC month and what the provider reported), `provider_quota_hours` (a counter per UTC hour), `provider_calls` | authorize, reserveCalls, finalizeReservation, syncFromProvider, prunes |
| Search provider adapter | `providers/serpapi.ts`, `types.ts`, `errors.ts` | none (request count of one call) | the HTTP request with retries, parsing, account status |
| Alert delivery | `services/alerts.ts`, `services/telegram.ts`, `db/repo.ts:605-790` | `alert_events`, a queue with claims | process, deliverClaimed, retryPending, expiry of claims |
| Scheduler tick | `scheduled.ts`, `db/repo.ts:1175-1310` | `scheduler_state` lease and housekeeping claim, `cron_runs` | one bounded tick every 15 minutes |
| Tracker locks | `db/repo.ts:188-250` | `trackers.lock_owner`, `lock_expires_at` | acquire, renew, release around every write to a tracker |
| Tracker check | `services/search.ts` | `trackers` (status, prices, failures, next run), `search_runs`, `fare_observations` | runTracker: plan, run units, evaluate, alert, schedule the next run |
| Date-window sweep | `services/search.ts:311-451`, `db/repo.ts:1324-1640` | `flexible_date_candidates`, `candidate_markets`, `trackers.coverage_cycle` | plan, claim, mark, start the next cycle |
| Configuration series | `services/tracker.ts`, `db/repo.ts:389-475` | `tracker_config_versions`, the current version of a tracker | ensureConfigVersion, transition |
| Query cache | `db/repo.ts:1000-1050`, `services/search.ts:345-370` | `query_cache` | get, put, prune |
| Telegram bot | `services/bot.ts`, `web/telegram-webhook.ts`, `db/repo.ts:1085-1170` | `telegram_updates` with a reply and its delivery claim | claim an update, execute, deliver the reply |
| Weekly digest | `services/digest.ts` | a setting with the last send | send when due |
| Tracker form | `web/tracker-form.ts`, `web/router.ts`, `services/planner.ts`, `domain/dates.ts` | the fields of `trackers`, the date pairs of a window | parse, refuse, estimate the cost, save, show again |
| Web UI and sessions | `web/router.ts`, `auth.ts`, `views.ts`, `chart.ts` | `auth_throttle`, session generation | sign in, tracker actions, settings |
| Pure domain code | `domain/*.ts`, `services/planner.ts`, `time.ts` | none | fare evaluation, date pairs, planning, fingerprints, money |
| Python application | `src/flightnotify/` | SQLAlchemy tables | scheduler loop, search, alerts, bot poller, CLI, web |

How they interact.  A tick takes the scheduler lease, selects due trackers, and
for each takes the tracker lock, runs a check and releases it; "Check now" and
`/check` take the same tracker lock without the lease.  A check asks the quota
guard what it may spend, reserves every unit before calling the provider, stores
observations, updates the tracker row and hands the best fare to the alert
queue.  The tick also sweeps that queue, sends the digest and prunes.

What is hard, by component, and what makes it correct:

* **Quota**: concurrent checks race for the last searches; reservation, return
  and account sync are separate statements.  Correct: no request without
  reserved capacity, month and hour caps, a reserve kept for manual checks.
* **Alerts**: lost answers, overlapping checks and sweeps, claims that expire
  under a live sender.  Correct: each finding at most once, verdicts true and
  final, one message per observation, and everything recorded settles.
* **Leases and locks**: they expire by time while their holder still works.
  Correct: at most one live holder, a dead holder never blocks for longer than
  the TTL, no release of a lock someone else took.
* **Tracker check**: the row is read before the lock is taken and used until the
  end of the check.  Correct: a pause or an edit made meanwhile is not undone,
  prices of two configurations are never compared.
* **Scheduler tick**: it selects, locks, searches, sends a digest and cleans up
  under a lease that may pass to another tick at any await, and its exceptions
  are caught at three levels.  Correct: one tick searches at a time, its budget
  holds, "completed" means done, a digest a week, no cleanup claimed and dropped.
* **Sweep of a date window**: what is skipped, claimed, marked and reopened is
  spread over a check's statements, while the owner rebuilds the queue.  Correct:
  a pair is pending as long as one of its markets is, no cycle is cut short, and
  every pair is searched in every market again and again until it departs.
* **Bot**: Telegram redelivers updates; a command must not run twice and its
  reply must not be lost or doubled.
* **Fare evaluation**: two roundings, three price scopes, two owner's bases, and a
  row that remembers only the latest and the lowest fare.  Correct: what is told
  is exact, what crosses the threshold or undercuts the series is told, and
  nothing else is.
* **Tracker form**: limits on departures, returns, nights, pairs and cost decide
  together.  Correct: the queue is what the window means, what is accepted can
  be searched and costs what was said, and saving again loses nothing.

The hazards, each at its line, are in `PROJECT.json`.

## 2. Modules

| Module | What it is |
|---|---|
| `QuotaLedger` | the quota guard, the sync of account status, and the part of a check that spends |
| `Allowance` | what the quota guard promises: grants within a budget, calls within grants |
| `MCQuotaLedger` | clocks, hours and months for TLC |
| `AlertDelivery` | the alert queue: checks that insert and send, sweeps that retry |
| `AlertPromise` | what the queue promises for one finding: told at most once, verdicts final |
| `MCAlertDelivery` | findings and observations for TLC |
| `TrackerCheck` | one tracker row: checks, edits, pauses and resumes, the tracker lock, configuration versions |
| `MCTrackerCheck` | small sets of actors, configurations and outcomes for TLC |
| `SchedulerTick` | Cron invocations next to a manual check: lease, locks, budget, digest, cleanup |
| `CandidateSweep` | what a check plans, searches and marks: the queue of date pairs, cycles, the cache |
| `TelegramWebhook` | one Telegram update from its first delivery to its last |
| `ProviderOffers` | from the answers of the provider to the fare a check goes on with; `FareAlerts` extends it |
| `FareAlerts` | a series of fares: normalisation, rounding, thresholds, new lows, drops, cooldown |
| `TrackerForm` | the dates of the form, the pairs they mean, their cost, and the checks that follow |
| `QuotaLedgerProofs`, `AlertDeliveryProofs`, `TrackerCheckProofs`, `SchedulerTickProofs`, `CandidateSweepProofs`, `TelegramWebhookProofs`, `FareAlertsProofs`, `TrackerFormProofs` | theorems about the module each is named after (section 5) |
| `MCSchedulerTick`, `MCCandidateSweep`, `MCTelegramWebhook`, `MCFareAlerts`, `MCTrackerForm` | instances of these for TLC |

### QuotaLedger

Three kinds of process: a *check* (`runTracker`, with its units one after the
other), a *sync* (`POST /settings/sync-provider`) and the clock.  `pc[c]` says
which statement a check is about to execute.  `local`, `prov`, `used` and `rows`
are the database; `snap`, `allowed`, `caps`, `key` and `count` are what the
check holds in memory.  A unit goes through `ReadLimits`, `ReserveMonthly`,
`ReserveHourly`, its HTTP attempts (`Request`, `AttemptAgain`, `AttemptEnds`),
`ReturnMonth`, `ReturnHour` and `InsertRows`, the order of `reserveCalls`,
`singleRequest` and `finalizeReservation`; a refused hour goes through
`UndoMonthly`.  Conditional UPDATEs are actions whose guard is the WHERE clause
(`MonthlyFits`, `HourlyFits`).  `Crash` may end a check between any two.

Three history variables say what no table does: `callAt`, when the provider
received the requests of a unit; `month` and `hour`, what of a unit's
reservation the two counters still contain; `lowered`, whether a sync wrote a
smaller ledger than it found.

Left out: who else reads the ledger for display, and the month or hour rows that
a prune deletes after no guard reads them any more.

### AlertDelivery

`state`, `attempts`, `retryable`, `owner`, `lease`, `wait` and `born` are the
columns of `alert_events`, one row per finding; a finding is a dedupe key.
`phase`, `jobs`, `job` and `answer` are an invocation's own.  A check inserts a
row already claimed (`Insert`), reads the cooldown (`CheckCooldown`), sends
(`Transmit`) and records the outcome if it still owns the row (`Record`,
`LoseClaim`).  A sweep gives up expired claims (`MarkExpired`), claims a batch
(`Claim`) and sends row by row.  `Transmit` decides both whether Telegram
accepted the message and what the client made of the answer; the two agree
only where HTTP makes them.  Instants are countdowns that `Tick` decrements.
`tries`, `accepted` and `by` are history variables.

Left out: the text of messages; `claimAlert`, which nothing calls; rows in state
`pending`, which nothing writes; the deletion of a tracker with its rows.  A
request that times out may in reality be accepted a little later than the
model's step; the row is already uncertain by then or about to be.

### TrackerCheck

An actor is a Cron tick that looks at the tracker or a request of the owner: a
check, a toggle or an edit from the web, `/check`, `/pause` or `/resume` from
Telegram.  `op[a]` and `pc[a]` say what it does and which statement comes next.
`row`, `versions`, `seen` and `lock` are the database: the tracker, its
configuration versions (the payload of each), the best observation of each check
that found one, and the lock.  `mem[a]` is the row as the actor read it and
changed it in memory.  It is read by `Select` or `Ask`, before `Acquire`; only
`Reread` (the bot) and `ReadFresh` (the edit, after its first batch) read it
again.

The lock is its owner until it expires, and nobody afterwards: every statement
that tests it treats an expired one as absent.  `Expire` may always take it from
the dead, and from the living where `Slow` says so.  A search is one step that
either stores a best fare (`SearchFinds`) or ends in one of four other ways
(`SearchInVain`); its units and its spending are the matter of `QuotaLedger`.  A
tick that lost its lock stores nothing more (`MayGoOn`); a manual check has no
such test.  `finalize` is `RecordFare`, or `RecordFailure` with `Park` and
`Announce`, or `RecordNothing`, then `Schedule`, one action per statement.
Failures are counted up to `FailureLimit`, since only that is ever asked.

History variables say what an actor could not know.  `wish` is what the owner was
last told of the tracker, "run" or "stop", until something overrules it, and `behind`
are the actors that read the row before he was told.  `torn` says that the row may
name observations of another configuration: an edit has changed the
configuration and no new series has begun, or a check of another configuration,
or one itself misled, has entered its fare.  `misled` are the actors that read it so.
`compared` holds the pairs of observations `evaluate` was given, each with whether
its check was misled; `parkings` and `notices` count.

Left out: the deletion and duplication of trackers (`TrackerForm`), candidates
(`CandidateSweep`), alerts (`AlertDelivery`, `FareAlerts`), and the fields no
decision here depends on.  Instants are reduced to "due or not" and "passed or not".

### SchedulerTick

`tick[t].pc` is where an invocation of `runScheduledTick` is, and the rest of
`tick[t]` what it holds in memory: the trackers it selected, those it has
handled, what is left of its budget, and whether anything was left undone.
`line`, `lease`, `lock`, `digest` and `cleanup` are the tables: the due trackers
in the order of `next_run_at`, `scheduler_state`, `trackers.lock_owner`, the
setting of the weekly digest and the housekeeping claim.  A lease or a lock is
its owner and whether it was just renewed (`fresh`); one that is not may run out
under a live holder (`RunsOut`), at the price of an accident, and always under a
dead one.  One search is taken to be shorter than the TTL, which is what the
heartbeat is for; nothing is assumed of what a tick does between two heartbeats
of different trackers.  `Throw` is a statement that fails: `Catch` says where the
nesting of the `try` blocks lets the tick go on.  The manual check takes the
tracker lock without the lease and without a heartbeat.

History variables: `searches` and `threw` (live searches of a tick, and whether an
exception kept it from counting them) and `digests`.  Left out: `cron_runs` and
the sweep state, which are only shown; `retryPendingAlerts`, which is
`AlertDelivery`'s sweep.

### CandidateSweep

`queue` is `flexible_date_candidates` with `candidate_markets`: the version the
pairs belong to, the build they were inserted by (their ids), the cycle of each,
and the pending pairs and markets.  `latest`, `conf` and `lap` are the tracker's
latest version, its configuration and its `coverage_cycle`.  A check goes through
`Read`, `Acquire`, `Version`, `Skip`, `Claim`, `Advance` and `Bump` (when the cycle
is over), `Plan`, and for each unit `UseCached`, `Block` or `Search`, then `Store`:
one action per statement of `planUnits`, `executeCached`, `executeLive` and
`persistOffers`.  An edit is `Save`, `SaveFields` and `Rebuild`, the last with
`replaceCandidates`.  Cycles are only compared for equality and are counted
modulo `Laps`.  The allowance is what `QuotaLedger` may grant: any prefix of the
billable units.  What a check plans is a set of `<<pair, market>>` units that are
asked in the order of `Before`: a cut keeps the `First` of them, and `Unit` is the
one at hand.

Left out: failed and checked rows are both settled; `EditDies` and `Overlap` are
off in the run and open the door to two defects of section 4.

### TelegramWebhook

`row` is the row of `telegram_updates`, `req[r]` what an invocation of the webhook
holds of it, `ran` how often the command took effect, `told` how often Telegram
accepted a reply.  Telegram delivers (`Receive`) until a 200 (`acked`), also while
earlier deliveries are still being handled.  Every UPDATE of the row is one
action; only `ClaimReply` is conditional, as in the code.  `Dispatch` is the whole
command, whose effect on a tracker is `TrackerCheck`'s.  `row.old` says that
PROCESSING_ABANDON_MS have passed since the row was written.  `RunsOnce` holds
whatever is taken for dead; the promises about replies are made while `InTime`,
that is, while nothing taken for dead goes on.

### FareAlerts

One check after another of one tracker, over the fares, scopes and party sizes
the provider may answer with.  `NormalizePrice`, `Stored`, `ObservationCents` and
`ComparableCents` are the two ways the code computes the cents it compares;
`ThresholdAlert`, `NewLowAlert`, `MinDropBlocks` and `AlertsToSend` are `evaluate`;
`Findings`, `Consolidated`, `Cooling` and `Messages` are what `AlertService` makes
of them; `Check` is `finalize`.  The fare comes from `ProviderOffers`, where an offer
is its place in the answer: `Offers` are the places the two parsers keep,
`Eligible` those that `eligibilityFor` passes, and `Cheapest`, `Kept`, `BestItem` and
`BestOffer` are `persistOffers` over the units of a check.  A sort by price that
keeps equal ones in place is the order `Earlier`.  `missed` is a history variable
that compares the choice with the cheapest fare a person would find in the
answers.  A message is delivered at once: retries are
`AlertDelivery`'s.  Time is hours since the last message of each type.

### TrackerForm

A form is a record of its fields (`Form`), each of them a day, a number, empty or
unreadable, and a `Row` is one with a status.  `Errors`, `Fields` and `Candidates` are `parseTrackerForm`;
`GeneratePairs`, `BisectionOrder` and `OrderedPairs` are `domain/dates.ts`;
`Ranges` is the queue
of ranges that bisection takes its middles from.  `CallsPerScan`, `CallsRemaining`, `Blocked` and `Warned` are the planner.  `Submit` is
a save, `Resave` saves the edit page as it is shown (`ValuesFromTracker`), and
`Check`, `Complete` and `DayPasses` let the days go by that the estimate is about.
`Duplicate`, `Toggle` and `Delete` are the other actions on a tracker; after a
copy the model goes on with the copy.  A month has `MonthLength` days.  `done` are the pairs of the current cycle that
were checked or skipped.

### How the modules fit together

Each module keeps the state that its hazards are about and takes from the others
the least that its own properties depend on: `SchedulerTick` sees a check as a
number of searches, `CandidateSweep` sees the quota as any prefix of what it asks
for, `TrackerCheck` sees a search as one step with five outcomes, `AlertDelivery`
sees an evaluation as a set of findings.  In each case the smaller model allows
every behaviour of the larger one at that interface.  Two modules are shown to
implement an abstract one: `QuotaLedger` implements `Allowance`, `AlertDelivery`
implements `AlertPromise`.

## 3. Runs

| Run | Question | Bounds |
|---|---|---|
| `QuotaRace` | Do the caps, the reserve and the abstract allowance hold when three checks race? | two automated checks and a manual one, one unit of two attempts each, budget 5, reserve 2, hour limit 4, an hour boundary |
| `QuotaSync` | Does the ledger stay above what the provider counts when a sync interferes? | two checks (one manual, one flexible) with two units of two attempts, one sync, foreign usage |
| `QuotaLostUpdate` | Does the budget hold when a sync overlaps a reservation?  It does not. | three manual checks, budget 2 |
| `AlertRace` | At most once, one message per observation, true and final verdicts | two overlapping checks, two sweeps, two findings, two attempts, one crash |
| `AlertSettles` | Does every recorded finding settle? | two findings, two attempts, backoff, a cooldown, one crash, Telegram perhaps unconfigured |
| `TrackerAlone` | One invocation at a time: do the row's summaries stay with its series, is its low the lowest, is each parking announced once? | a tick over and over, three requests of any kind, two configurations one of whose dates may pass, two fares, three found, two failures park |
| `TrackerRace` | When a tick and checks, toggles or edits overlap: are versions unique and observations filed rightly, who may compare two configurations, who may undo a pause?  Is an active tracker always searched again? | two requests, two configurations, two observations of one fare, locks that expire under live holders, one crash |
| `TickRace` | Does one tick search at a time, and nobody twice?  Is "completed" true, the budget kept, the digest sent once, the cleanup worked off? | two ticks over and over, one manual check, two trackers of one and two searches, budget 2, one accident (a death, an exception, a lost answer, a lease outlived) |
| `Sweep` | Are cycles whole, is only what is due searched, and is every pair served for ever? | two pairs, two markets, one pair a check, one search a tick, three days, one save, one accident |
| `Webhook` | Does the command run at most once, is no reply doubled, none forgotten, and is there always an answer? | three invocations at a time, two attempts (the code allows three), three deaths, one invocation taken for dead that goes on |
| `Fares` | Is the cheapest usable offer chosen?  Is what is compared what is stored and exact?  Is everything told that should be, and nothing else? | four checks, ten responses (crowded out, unpriced, in another currency, of several units, empty), two stored of up to five offers, four fares about the threshold, two passengers, three scopes, four ways to ask, one edit, two series |
| `Form` | Is the queue what the form means, its cost what was said, and is what is accepted searchable? | 1 300 forms, two saves, any copies, pauses and deletions, five days in months of three, windows of up to eight pairs |

Why the bounds are enough.  Races for quota need two parties for the check
between guard and write and a third to spend what a lost update freed; two
attempts tell a reservation from a call; the budget lies below what all checks
ask for, so refusals happen, and above what one asks for, so grants do.  The
clock crosses one hour and, where it matters, one month.  For alerts, one
finding shows duplicates, two are needed for consolidation and for a batch of
one to leave work behind; with two attempts a row can be retried and exhausted;
a claim of one instant expires both before and after the answer.  For a tracker,
two configurations are enough to leave a series and come back to it, two
failures to tell the one that parks from the one that does not, and two fares to
have a low that is not the latest; three requests give pause, failure and edit
in any order around a tick that never stops coming.  Two actors at a time
suffice for what a stale row can overwrite, and two observations for one to be
compared with another; fares play no part in that.  For the tick, a tracker that needs
two searches under a budget of two can be cut by the one before it, and a second
tick is all that a lease excludes; the ticks begin again and again, so one
accident may strike any of many invocations.  For the sweep, two pairs in two
markets under one search a check leave both a pair and a market half-done in
every cycle, and three values tell a cycle from the next and the one before.
The update's reply has two attempts and three invocations, so each may fail
where the last one stopped.  Fares lie on both sides of each threshold, one cent
off a half, and the odd ones have no exact share.  Requests are bounded where
the table says so, and the system then comes to rest: those runs do not check
for deadlock.

Fairness.  In `AlertSettles`: time passes, Cron keeps starting sweeps
(`wrangler.jsonc` triggers it every 15 minutes), and an invocation that is not
killed goes on, since each of its awaits has a timeout.  Crashes are bounded,
because if every sweep died nothing could be promised.  No check is assumed to
start.  In `TrackerRace`: Cron keeps selecting what is due, an invocation that
is alive goes on, locks expire and the next run comes due; no request is assumed
and crashes are bounded as before.  In `Sweep`: Cron reads the tracker again and
again, what is alive goes on, locks of the dead expire; the owner need not do
anything, but finishes a save that has begun.  In `Webhook`: Telegram delivers
until it is answered, as its documentation of webhooks says, and time passes.
The other runs check safety of specifications without fairness.

## 4. What the code does not promise

The run `QuotaLostUpdate` is expected to be violated: `syncFromProvider` writes a
ledger computed from an earlier read and erases a reservation made in between, so
that a later check spends beyond the budget.

The other places where the code falls short of what a reader of its documents
would expect are kept out of the passing runs by a constant, never by a changed
action, or are excused by a property.  Each can be seen by giving the constant
the value named here.

1. `Flexible` with `MaxAttempts = 2` and a budget of two: an answer the Travel Explore
   parser rejects after a retry reports one attempt where several were made, so
   calls are returned to the ledger that were really billed
   (`CallsWithinBudget` fails).
2. `HourlyCap` is about a UTC hour, not the rolling window of the repository's README.
3. `Misleading = {"server_error"}`: a 5xx from Telegram is taken for a refusal and the
   finding is sent twice.  With `"rejected"`, an accepted message whose answer is not
   JSON is recorded as failed.
4. A retried alert is not tested against the cooldown again (`alerts.ts:396`).
5. Between the two batches of an edit the row has the new configuration and names
   observations of the old one; and a check whose row was read before an edit enters
   its fare into a row of another configuration.  Who reads the row then compares two
   configurations, because `ensureConfigVersion` resets the prices in memory but not
   the observation ids that `finalize` compares with (`tracker.ts:157`), against
   what is said above it at `tracker.ts:100`.  `ComparedWithinSeries` excuses a check
   that was `misled`, and nobody else; without the excuse `TrackerRace` shows an edit
   interrupted between its batches and a check after its lock has expired.
6. `finalize` and the edit write the status they read before the lock, so a pause
   confirmed meanwhile is undone; and a paused tracker whose manual checks fail
   often enough becomes ERROR and, with the next success, active.  `Obeyed` lets the
   owner's word be overruled by a parking, and by an actor that is `behind` and
   writes another status than the row has, and by nobody else.
7. `Slow = TRUE` in `TickRace`: a manual check has no heartbeat, and a tick may begin
   the same search (`NoDoubleSearch`).
8. `DigestOnce` allows one more digest for each accident: a send whose outcome is not
   known is repeated.
9. `Exact = TRUE` with more markets than MAX_QUERIES_PER_TICK: each tick cuts the plan at
   the same place, and the last markets are never searched by Cron (`Served`).
10. `EditDies = TRUE`, or an edit that overlaps a check: the fields are saved without
    the version, the next check mints one without date pairs, and the window is not
    swept until the next edit (`Served`).
11. With a stall in `Webhook`, two redeliveries that find the same abandoned row both
    answer, or make a delivered reply ready again: `RepliesOnce` and
    `NothingForgotten` are about histories that are `InTime`.  `RunsOnce` and
    `Answered` hold with it.
12. A fare that is both a new low and under the threshold: if the new low is cooling,
    the threshold is consolidated into a message that is not sent, and since
    `last_threshold_met` is saved it is not told later.  `ReachedIsTold` excuses it.
13. `KeepsProgress` is about queues none of whose pairs has departed: later, saving an
    unchanged form means fewer pairs and begins the cycle anew.
14. A window whose returns end before its departures stays active and is checked
    without a pair to search (`ReturnsEndFirst` in `AlwaysSearchable`).
15. `WithinBudget` allows one scan beyond the estimate: the first one, made at once.  It
    is about trackers that were saved and not resumed since: neither a resume nor a
    copy is compared with the budget.

## 5. Proofs

Each module with a run is proved about in its `...Proofs` module: every invariant
and every action property of the passing runs is a theorem of the specification,
for every number of processes, every limit and every length of a history, where
a run looks at two or three of each.  What a proof assumes of the constants is
what the ASSUMEs of the module say (finite sets, natural numbers, a calendar) and
what its theorem names.

| Module | Theorem | Property | Under |
|---|---|---|---|
| `QuotaLedgerProofs` | `TypeCorrect`, `CallsAreReserved`, `LedgerCovers`, `MonthlyBudgetHolds`, `HourlyLimitHolds` | `TypeOK`, `NoUnreservedCall`, `LedgerCoversHoldings`, `MonthlyCap`, `HourlyCap` | |
| | `ProviderIsCovered` | `LedgerCoversProvider` | |
| | `ReserveIsKept`, `SettledIsExact` | `ReserveKept`, `SettledLedgerIsExact` | `NeverBlank` |
| | `LedgerIsAnAllowance` | `ImplementsAllowance` | no sync, no flexible search |
| `AlertDeliveryProofs` | `QueueIsSound`, `OneMessage` | `AlertInv`, `OneMessagePerObservation` | |
| | `ToldAtMostMaxAttempts` | a finding is accepted at most `MaxAttempts` times | |
| | `ToldAtMostOnce`, `DashboardIsRight`, `QueueKeepsPromise` | `OncePerFinding`, `VerdictTruthful`, `ImplementsPromise` | `Misleading = {}` |
| `SchedulerTickProofs` | `TicksExclude`, `TickIsSound`, `CompletedIsTrue`, `DigestsArePaid` | `OneTickSearches`, `TickInv`, `CompletedMeansDone`, `DigestOnce` | |
| | `SearchesExclude` | `NoDoubleSearch` | `Slow = FALSE` |
| `TrackerCheckProofs` | `ObservationsAreFiled`, `SeriesAreNotSplit` | `FiledUnderOwnSeries`, `VersionsDiffer` | |
| | `ComparisonsAreFair`, `OwnerIsObeyed` | `ComparedWithinSeries`, `Obeyed` | |
| | `RowIsOneSeries`, `LowIsTheLowest`, `ParkingsAreAnnounced` | `SeriesInv`, `LowIsLowest`, `AnnouncedOnce` | `Overlap = FALSE`, no crash |
| `CandidateSweepProofs` | `PairsFollowMarkets` | `TypeOK`, and `PairOfMarkets` of `QueueInv` | |
| | `OnlyDueIsSearched`, `CyclesAreWhole` | `QueueInv`, `WholeCycles` | `Overlap = FALSE` |
| `TelegramWebhookProofs` | `RunsAtMostOnce`, `AcknowledgedIsDone` | `SafeInv`, `NothingForgotten` | |
| `FareAlertsProofs` | `BestIsCheapest` | of any answers, what a check goes on with is the cheapest usable fare | |
| | `FaresAreRight`, `OwnerIsTold`, `OwnerIsNotBothered` | `FaresInv`, `ReachedIsTold`, `QuietOtherwise` | |
| `TrackerFormProofs` | `BisectionLeavesNothingOut` | `BisectionOrder(n)` lists each of `0..n-1` once, for every `n` | |
| | `SweptOverItsTrips` | the queue holds each trip the window means, over all dates, and no other | |
| | `SavedMeansWhatItSays`, `SavedIsSearchable`, `ProgressSurvivesSaves` | `FormInv`, `AlwaysSearchable`, `KeepsProgress` | |

The hypotheses are the ones the runs are made under, and none can be dropped:
TLC finds each property violated when its hypothesis is.  `Misleading = {}`,
`Slow = FALSE` and `Overlap = FALSE` are the exceptions of section 4 (in
`CandidateSweep`, a check that outlives its lock beside an edit, between the edit's
fields and its queue, moves on a cycle nobody searched or plans what is replaced).  A death
between two statements of `finalize` or `ensureConfigVersion` leaves a summary
half written, so with one crash `TrackerAlone`'s three properties fail.  `NeverBlank` says that every answer of the
account endpoint has a plan or a rate limit in it: with none at all, a second
sync may write a row that looks as if no sync had ever written it over a ledger
that the first one raised.  A sync may give back a reservation, and a flexible
search may return calls it made, and `ImplementsAllowance` fails with either.

### QuotaLedger

The caps are not inductive: that a reservation fits the budget depends on the
ledger counting every attempt held by every check.  The inductive invariant is
`TypeOK /\ Placed /\ Reserved /\ LedgerInv`.  `Placed` ties the program counter
of a check to its unit and the month and hour it is charged to; `Reserved` says
what a check holds at each statement and bounds calls by it; `LedgerInv` compares
the counters with the cardinality of the set of held attempts.  Counting is done
on sets of `<<unit, number>>` pairs, so that a reservation adds, and a return
removes, a finite set whose cardinality the library's theorems give
(`HeldGrows`, `CountsChange`, `MonthCharge`, `HourCharge`).

A ledger that covers may still leak.  For `SettledLedgerIsExact` the inequalities
become equations, on rows no sync wrote (`LedgerExact`, `BucketExact`), and
`AllTidy` says that a check leaves behind, unit by unit, the capacity its calls
used; `Minus` never cuts anything off, because what is returned was counted.  The
reserve needs that units which have not begun are charged to no month
(`Unbegun`), or starting one could turn a month into one that only automation
uses.  The refinement maps `ReserveMonthly` to `Grant`, an HTTP attempt to `Spend`,
`UndoMonthly` and `ReturnMonth` to `Return` and everything else to a stutter;
that a `Return` never takes what was spent is `LedgerExact` after the step.

### AlertDelivery

`Holding` is inductive by itself: whoever is about to send a row or to record it
owns a claim that others cannot take while it lasts (`SoleSender`, `ClaimsHeld`),
and each request was counted before it left (`Counted`, `AttemptsCovered`).
`Truth` adds what the row's state says of Telegram: a row that may be sent again
was not accepted.  `FromObservation` and `Consolidated` are about an observation: a
row belongs to the check that inserted it, and a threshold beside a new low is
never sendable again.  That needs one fact of the code beyond the queue: a
near-miss is evaluated only if nothing else was found (`search.ts:905`), which
`FindingsAssumption` states; otherwise one observation could send two messages.  In
`AlertPromise` `told` is the set of findings the owner was told of.

### SchedulerTick

`Covered` says that whoever is searching has just renewed the lease and the lock
(`Firm`), which is all that keeps another tick out: an unrenewed lease may run out
under its holder at any time.  The budget is a balance of searches, budget and
what the current check has spent (`Thrifty`).  `CompletedMeansDone` follows from an
account of what a tick owes, what it handled and whether it came up short
(`Honest`), over a queue whose order others change.  `DigestOnce` charges each
digest to an accident: the ticks that may still send without the lease are
counted (`Strays`), and an accident is what it takes to add one.

### TrackerCheck

Four promises hold for whatever overlaps, expires or dies.  Two rest on the rule
that a version is only appended by who saw the latest one (`Sound`).  The other two
follow what an actor knows of the row: after each step it rests, has just read
the row, or goes on with the configuration, the status and the observation ids it
had read (`CopyStep`).  `Whole` says that a row that is not torn, and the copy of who
was not misled, name observations of their own configuration, and that what a
check finds is of the configuration it read.  `Obedient` says that the status of the
row, and of every copy that is not behind, fits what the owner was told.  Without
the clauses about copies neither is inductive: `finalize` writes and compares what
is in memory, not what is in the row.

The rest is about one invocation at a time: then its copy of the row is the row, up
to `next_run_at`, until it writes (`Copies`), and the row's summaries are indices of
its own series (`Series`, `Summary`, `LowKnown`), except for the one observation that
`finalize` is about to enter (`Late`).

### CandidateSweep

That tables are well formed and that a pair is pending exactly as long as one of
its markets is (`PairOfMarkets`) follows statement by statement, whoever else is at
work.  For the rest the inductive invariant is `SweepInv == Shape /\ PairOfMarkets
/\ Course`.  `Course` follows one invocation from its read to its last unit: the
cycle it remembers is the tracker's (`Aware`), what is pending can be booked once
it has skipped (`InSight`), nothing of its cycle is left when it moves on
(`Exhausted`), what it claimed can be booked (`Chosen`), and what it plans is
still to be searched (`Ahead`).  `WholeCycles` is `Exhausted` seen from the step that
reopens a pair.

### TelegramWebhook

`Once` says that an absent row has run nothing, and that at most one invocation is
about to dispatch, with nothing run yet.  While `InTime`, `Orderly` adds what each
state of the row says of the invocations: who is sending a reply holds the row in
`processing` and is alone in that, whoever has yet to send or to retry knows that
the reply was not accepted, and a row may only be buried when nobody is at work
on it.

### FareAlerts

`FareInv` says that the row points at fares of its series, at one that no other
undercuts, and remembers on which side of the threshold the last one was
(`Summary`).  What the invariants ask of it is arithmetic: `RoundingsAgree` shows that
`Math.round` and the division by half up give the same cents for every amount that
is not negative, `SharesGrow` that a dearer total never has a cheaper share, so
that the order of totals is the order of what the owner is shown, and `DropIsReal`
that a drop that passes the filter is at least what was asked for.  That the best
offer survives the cut to `MAX_STORED_OFFERS` is `NothingCrowdedOut`, a count of the
offers before it.

### TrackerForm

Bisection is a loop over a queue of ranges.  What is taken from it is proved by
the least number of steps at which the claim fails, a least element of a set of
numbers, which takes the place of an induction theorem.  The invariant of the
loop (`BisectionInvariant`) is that the ranges are disjoint, not empty
(`Proper`) and cover, with what was taken, all of `0..n-1`; `FirstPlaces` follows the
first seven ranges to show that the first three and seven scans fall in
different quarters and eighths of the window (`PlacesAreSpread`, for `Spread`).

`SearchInv` says that the fields of the row are what a form passed on the day
`since`, and the queue what they meant then.  `LastDayFlies` then gives a pair to
search as long as the last departure is ahead.  `BudgetInv` adds a balance: what was
spent, and one scan for each that the rest of the month has room for
(`ScansLeft`), is at most what was left when the form was saved and one scan more.  A check
takes one scan from the second term, and a day without one cannot add to it.

### What proving changed

Attempts that failed showed these things about the models, corrected since.
`TypeOK` of `SchedulerTick` bounded a tick's budget by what the run's constants
make of it; the budget may become negative when a search costs more requests
than are left, as `scheduled.ts` lets it.  The alert model let a near-miss be
found together with other findings, which `finalize` does not.  `MinDropBlocks`
divided by a previous best of zero, which the share of a fare of a few cents
rounds down to; the code knows no drop from nothing.  `ComparedWithinSeries` and
`Obeyed` were proved for one invocation at a time, which left out the stale rows
they are about; they now say by whom they may be broken, and hold for any overlap.

Other changes are of form.  A plan was a sequence and is a set with the order the
statements use; offers were sorted and folded and are places with the order
they are sorted by; the halves, quarters and eighths of `Spread` were powers of
two; and what a form or a row may hold is a named set, with the assumption that
the forms submitted are among them.

### Only model-checked

Liveness: `EverySettles`, `KeepsChecking`, `Served` and `Answered`, since the installed
provers have no rules for ENABLED.  `QuotaLostUpdate` is expected to fail and shows
a counterexample.  `Spread` speaks of halves, quarters and eighths, and nothing is
said of a window's finer parts.

## 6. Plan

What remains worth proving, in this order:

1. Of each hypothesis of section 5, what is left of the property without it, as is
   done for `ComparedWithinSeries` and `Obeyed`: a bound on the damage of one overlap
   or one death where now nothing is said.
2. Abstract specifications for `SchedulerTick` (a search is held by one party at a
   time) and `TelegramWebhook` (a command runs and is answered once), with the
   refinements that the invariants proved here make possible.
3. That the smaller models of a component allow what the larger ones do, where
   the two meet (the end of section 2), so far a matter of reading.

## 7. Not modelled

Sign-in and sessions (`web/auth.ts`): access control, which shares no table with
the rest and is not a matter of these properties.  Rendering (views, chart, html),
the wording of messages, airport search, hashing, configuration parsing
(`env.ts`), the dates, times, names and links of an itinerary, migrations as such, and
everything under `tests/` and `test/`: they hold no shared state beyond what the
modelled components own.  Deleting a tracker under a check that has lost its lock:
the row and all that hangs on it go in one statement, after which the check's
updates change nothing and its inserts violate a foreign key.

The Python application (`src/flightnotify/`) is the reference the Worker was
ported from and the target of a rollback.  It is a single process with one
scheduler thread over the same domain code, and what it shares with the Worker
is modelled once, from the Worker.
