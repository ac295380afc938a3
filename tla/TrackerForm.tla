---------------------------- MODULE TrackerForm ----------------------------
(***************************************************************************)
(* From the form to the searches: parseTrackerForm and valuesFromTracker   *)
(* of web/tracker-form.ts, the date pairs of a window and their order      *)
(* (domain/dates.ts), the budget (services/planner.ts), the save routes    *)
(* of web/router.ts, with duplicate, toggle and delete, and what a check   *)
(* then finds to search                                                    *)
(* (tripCompletedReason and planUnits of services/search.ts).              *)
(*                                                                         *)
(* A date is a day number, a month a number of days; a garbled date is     *)
(* one the parser refuses.  What the form says of the travelers, the       *)
(* route, the alerts and the amounts is right or wrong as a whole.  One    *)
(* request and one check go on at a time; each search of a check succeeds  *)
(* (CandidateSweep has the others).                                        *)
(***************************************************************************)
EXTENDS Integers, FiniteSets, Sequences, SequencesExt

CONSTANTS
    Forms, Edits,   \* what the owner may submit for a new tracker, and for one there is
    Safes, Hards,   \* what may be left of the allowance, for automation and at all
    MonthLength,    \* days
    Horizon,        \* months Travel Explore looks ahead: 6
    MaxCandidates,  \* MAX_CANDIDATES
    MaxRequests,    \* what one search may cost, retries included
    LastDay, MaxSaves,
    Garbled, Null   \* an unreadable date; a field left empty, or SQL NULL

\* What a form may hold once its fields are read, right or wrong; and a row.
Day == Nat \cup {Null, Garbled}
Nights == Nat \cup {Null}
Form == [mode : STRING, outbound : Day, return : Day, month : Day, start : Day, end : Day,
         return_start : Day, return_end : Day, min_nights : Nights, max_nights : Nights,
         markets : Nat \ {0}, per_run : Nat, interval : Nat \ {0},
         ack : BOOLEAN, rest : BOOLEAN]
Statuses == {"active", "paused", "completed"}
Row == [mode : STRING, outbound : Day, return : Day, month : Day, start : Day, end : Day,
        return_start : Day, return_end : Day, min_nights : Nights, max_nights : Nights,
        markets : Nat \ {0}, per_run : Nat, interval : Nat \ {0},
        ack : BOOLEAN, rest : BOOLEAN, status : Statuses]

ASSUME FormsAssumption == Forms \cup Edits \subseteq Form
ASSUME NullAssumption ==
    /\ Null \notin Int /\ Garbled \notin Int /\ Null # Garbled
    /\ Null \notin Row
ASSUME CalendarAssumption ==
    /\ {MonthLength, MaxRequests} \subseteq Nat \ {0}
    /\ {Horizon, MaxCandidates, LastDay, MaxSaves} \subseteq Nat
    /\ Safes \cup Hards \subseteq Nat

VARIABLES
    today,
    tracker,      \* the row, or Null before it is created
    queue,        \* flexible_date_candidates, by order_index
    done,         \* those of this cycle that are checked or skipped
    wait,         \* days to next_run_at
    saves,
    since,        \* history: the day the queue was built
    safe, spent   \* history: what was left when the form was saved, and the searches
                  \* since, in the same month; Null if nothing was promised for it

vars == <<today, tracker, queue, done, wait, saves, since, safe, spent>>

Modes == {"exact", "flexible_preset", "custom_window"}
DateFields == {"outbound", "return", "month", "start", "end", "return_start", "return_end",
               "min_nights", "max_nights"}
OfMode(mode) ==
    CASE mode = "exact" -> {"outbound", "return"}
      [] mode = "flexible_preset" -> {"month"}
      [] mode = "custom_window" -> DateFields \ {"outbound", "return", "month"}
      [] OTHER -> {}

MonthOf(day) == day \div MonthLength
Max0(n) == IF n < 0 THEN 0 ELSE n
Max1(n) == IF n < 1 THEN 1 ELSE n

-----------------------------------------------------------------------------
(* Date pairs: <<outbound, return>>.                                       *)

Given(v) == v # Null
IsDate(v) == v \notin {Null, Garbled}

\* The indices of 0..n-1 by bisection, breadth first: the middle of the range, then
\* the middles of its halves.
Middle(range) == (range[1] + range[2]) \div 2
Halves(range) ==
    (IF range[1] <= Middle(range) - 1 THEN << <<range[1], Middle(range) - 1>> >> ELSE <<>>)
    \o (IF Middle(range) + 1 <= range[2] THEN << <<Middle(range) + 1, range[2]>> >> ELSE <<>>)
\* The queue of ranges after so many of them were taken.
Ranges(n) ==
    LET ranges[i \in 0..n] ==
            IF i = 0 THEN << <<0, n - 1>> >>
            ELSE Tail(ranges[i - 1]) \o Halves(Head(ranges[i - 1]))
    IN ranges
BisectionOrder(n) == [i \in 1..n |-> Middle(Head(Ranges(n)[i - 1]))]

\* generatePairs: the departures not yet past; the returns from the return window or
\* from the trip length; the trip length filters the window.
Departures(f, day) == (IF f.start < day THEN day ELSE f.start)..f.end
ReturnsMutant(f, out) ==
    IF Given(f.return_start) THEN f.return_start..f.return_end
    ELSE (out + f.min_nights)..(out + f.max_nights)
Returns(f, out) ==
    IF Given(f.return_start)
    THEN (IF f.return_start < out + 1 THEN out + 1 ELSE f.return_start)..f.return_end
    ELSE (out + Max1(f.min_nights))..(out + f.max_nights)
LongEnough(f, nights) ==
    /\ Given(f.min_nights) => nights >= f.min_nights
    /\ Given(f.max_nights) => nights <= f.max_nights
GeneratePairs(f, day) ==
    {pair \in UNION {{out} \X Returns(f, out) : out \in Departures(f, day)} :
        LongEnough(f, pair[2] - pair[1])}

\* By departure and then by return, from the first; then in the order of bisection.
Place(p, pairs) == Cardinality({q \in pairs : q[1] < p[1] \/ (q[1] = p[1] /\ q[2] < p[2])})
OrderedPairs(pairs) ==
    LET order == BisectionOrder(Cardinality(pairs))
    IN [i \in DOMAIN order |-> CHOOSE p \in pairs : Place(p, pairs) = order[i]]

-----------------------------------------------------------------------------
(* parseTrackerForm: the fields in error.                                  *)

ExactErrors(f, day) ==
    IF ~IsDate(f.outbound) \/ ~IsDate(f.return) THEN {"dates"}
    ELSE {e \in {"return", "outbound"} :
             IF e = "return" THEN f.return <= f.outbound ELSE f.outbound < day}

\* flexiblePresetMonth: neither past nor beyond the horizon.
PresetErrors(f, day) ==
    IF ~IsDate(f.month) \/ f.month - MonthOf(day) \notin 0..Horizon THEN {"month"} ELSE {}

Halved(a, b) == Given(a) # Given(b)
WindowErrors(f) ==
    {e \in {"outbound", "return", "nights", "either"} :
        CASE e = "outbound" -> ~IsDate(f.start) \/ ~IsDate(f.end)
          [] e = "return" -> \/ Halved(f.return_start, f.return_end)
                             \/ Garbled \in {f.return_start, f.return_end}
                             \/ /\ IsDate(f.return_start) /\ IsDate(f.return_end)
                                /\ f.return_end < f.return_start
          [] e = "nights" -> \/ Halved(f.min_nights, f.max_nights)
                             \/ Given(f.min_nights) /\ f.min_nights < 1
                             \/ Given(f.max_nights) /\ f.max_nights < 1
                             \/ /\ Given(f.min_nights) /\ Given(f.max_nights)
                                /\ f.max_nights < f.min_nights
          [] OTHER -> ~Given(f.return_start) /\ ~Given(f.return_end)
                      /\ ~Given(f.min_nights) /\ ~Given(f.max_nights)}

\* What generatePairs throws over: a window that ends before it starts, is past, has
\* no pair, or too many.
UnusableWindow(f, day) ==
    \/ f.end < f.start \/ f.end < day
    \/ GeneratePairs(f, day) = {}
    \/ Cardinality(GeneratePairs(f, day)) > MaxCandidates

DateErrors(f, day) ==
    CASE f.mode = "exact" -> ExactErrors(f, day)
      [] f.mode = "flexible_preset" -> PresetErrors(f, day)
      [] f.mode = "custom_window" ->
            IF WindowErrors(f) # {} THEN WindowErrors(f)
            ELSE IF UnusableWindow(f, day) THEN {"window"} ELSE {}
      [] OTHER -> {"mode"}

Errors(f, day) == DateErrors(f, day) \cup (IF f.rest THEN {} ELSE {"rest"})

Candidates(f, day) ==
    IF f.mode = "custom_window" THEN OrderedPairs(GeneratePairs(f, day)) ELSE <<>>

\* Every mode writes the full set; the fields of the others become NULL.
FieldsMutant(f) == f
Fields(f) == [k \in DOMAIN f |-> IF k \in DateFields \ OfMode(f.mode) THEN Null ELSE f[k]]

\* valuesFromTracker: the stored fields, but not the acknowledgement.
ValuesFromTracker == [k \in DOMAIN tracker \ {"status"} |->
                         IF k = "ack" THEN FALSE ELSE tracker[k]]

-----------------------------------------------------------------------------
(* The budget.                                                             *)

PerScan(f) == IF f.mode = "custom_window" THEN Max1(f.per_run) ELSE 1
CallsPerScan(f) == PerScan(f) * f.markets
DaysLeft(day) == (MonthOf(day) + 1) * MonthLength - day
CallsRemaining(f, day) == (DaysLeft(day) \div f.interval) * CallsPerScan(f)

\* assess: a single scan that does not fit, and one that does not for the whole month.
Blocked(f, hard) == CallsPerScan(f) * MaxRequests > hard
Warned(f, day, left) == CallsRemaining(f, day) > left

\* refuseIfOverBudget: the one is refused, the other wants to be acknowledged.
Affordable(f, day, left, hard) == ~Blocked(f, hard) /\ (Warned(f, day, left) => f.ack)

-----------------------------------------------------------------------------
Init ==
    /\ today = 0
    /\ tracker = Null /\ queue = <<>> /\ done = {} /\ wait = 0
    /\ saves = 0 /\ since = 0 /\ safe = Null /\ spent = 0

\* The fields and markets that define a series.
Searched(t) == [k \in DateFields \cup {"mode", "markets"} |-> t[k]]
WithStatus(f, status) ==
    [k \in DOMAIN f \cup {"status"} |-> IF k = "status" THEN status ELSE f[k]]

\* ensureConfigVersion: a new series takes the new queue; the same one keeps its queue
\* and its progress if that holds the intended pairs.
Kept(f, pairs) == Searched(tracker) = Searched(Fields(f)) /\ queue = pairs

Persist(f) ==
    LET pairs == Candidates(f, today)
    IN IF tracker # Null /\ Kept(f, pairs)
       THEN UNCHANGED <<queue, done, since>>
       ELSE queue' = pairs /\ done' = {} /\ since' = today

\* POST /trackers and POST /trackers/<id>.  An edit revives a completed tracker, which
\* has no next run and so is due; it leaves the status and the next run of another
\* alone.
SavedStatus == IF tracker # Null /\ tracker.status = "paused" THEN "paused" ELSE "active"

Submit(f, left, hard) ==
    /\ saves < MaxSaves
    /\ Errors(f, today) = {}
    /\ left <= hard /\ Affordable(f, today, left, hard)
    /\ saves' = saves + 1
    /\ tracker' = WithStatus(Fields(f), SavedStatus)
    /\ Persist(f)
    /\ safe' = left /\ spent' = 0
    /\ UNCHANGED <<today, wait>>

Create == tracker = Null /\ \E f \in Forms, left \in Safes, hard \in Hards : Submit(f, left, hard)
Edit ==
    /\ tracker # Null
    /\ \E f \in Edits, left \in Safes, hard \in Hards : Submit(f, left, hard)

\* The edit page, saved as it is shown, perhaps with the box ticked.
Resave ==
    /\ tracker # Null
    /\ \E ack \in BOOLEAN, left \in Safes, hard \in Hards :
          Submit([ValuesFromTracker EXCEPT !.ack = ack], left, hard)

\* POST /trackers/<id>/duplicate: a paused copy of the row, with a version of its own
\* and the pairs of the source's, none of them checked.  The model goes on with the copy.
Duplicate ==
    /\ tracker # Null
    /\ tracker' = WithStatus(tracker, "paused")
    /\ done' = {} /\ wait' = 0
    /\ safe' = Null /\ spent' = 0
    /\ UNCHANGED <<today, queue, saves, since>>

\* POST /trackers/<id>/toggle: resumed, it is due at once, which no estimate counted.
Toggle ==
    /\ tracker # Null /\ tracker.status \in {"active", "paused"}
    /\ tracker' = WithStatus(tracker, IF tracker.status = "active" THEN "paused" ELSE "active")
    /\ wait' = 0
    /\ safe' = Null /\ spent' = 0
    /\ UNCHANGED <<today, queue, done, saves, since>>

\* POST /trackers/<id>/delete: the row, and with it the queue.
Delete ==
    /\ tracker # Null
    /\ tracker' = Null /\ queue' = <<>> /\ done' = {} /\ wait' = 0
    /\ since' = 0 /\ safe' = Null /\ spent' = 0
    /\ UNCHANGED <<today, saves>>

-----------------------------------------------------------------------------
(* A check.                                                                *)

\* tripCompletedReason.
TripOverMutant(t) ==
    CASE t.mode = "exact" -> t.outbound <= today
      [] t.mode = "flexible_preset" -> t.month < MonthOf(today)
      [] OTHER -> t.end < today
TripOver(t) ==
    CASE t.mode = "exact" -> t.outbound < today
      [] t.mode = "flexible_preset" -> t.month < MonthOf(today)
      [] OTHER -> t.end < today

Due == tracker # Null /\ tracker.status = "active" /\ wait = 0

Complete ==
    /\ Due /\ TripOver(tracker)
    /\ tracker' = WithStatus(tracker, "completed")
    /\ UNCHANGED <<today, queue, done, wait, saves, since, safe, spent>>

\* planUnits: of a window the first pairs not yet checked or flown; when none is left,
\* those of the next cycle.
Flown == {i \in DOMAIN queue : queue[i][1] < today}
First(t, open) == {i \in open : Cardinality({j \in open : j < i}) < Max1(t.per_run)}
Open == DOMAIN queue \ (done \cup Flown)
Claimed(t) ==
    IF t.mode # "custom_window" THEN {}
    ELSE IF Open # {} THEN First(t, Open) ELSE First(t, DOMAIN queue \ Flown)

Check ==
    /\ Due /\ ~TripOver(tracker)
    /\ LET pairs == IF tracker.mode = "custom_window" THEN Cardinality(Claimed(tracker)) ELSE 1
       IN spent' = spent + pairs * tracker.markets
    /\ done' = (IF Open = {} THEN Flown ELSE done \cup Flown) \cup Claimed(tracker)
    /\ wait' = tracker.interval
    /\ UNCHANGED <<today, tracker, queue, saves, since, safe>>

DayPasses ==
    /\ today < LastDay
    /\ today' = today + 1
    /\ wait' = Max0(wait - 1)
    /\ LET same == MonthOf(today') = MonthOf(today)
       IN /\ safe' = IF same THEN safe ELSE Null
          /\ spent' = IF same THEN spent ELSE 0
    /\ UNCHANGED <<tracker, queue, done, saves, since>>

Next ==
    \/ Create \/ Edit \/ Resave \/ Duplicate \/ Toggle \/ Delete
    \/ Complete \/ Check \/ DayPasses

Spec == Init /\ [][Next]_vars

-----------------------------------------------------------------------------
(* Properties.                                                             *)

TypeOK ==
    /\ today \in 0..LastDay /\ saves \in 0..MaxSaves /\ since \in 0..LastDay
    /\ tracker \in Row \cup {Null}
    /\ queue \in Seq(Nat \X Nat) /\ done \subseteq DOMAIN queue
    /\ wait \in Nat /\ spent \in Nat /\ safe \in Nat \cup {Null}

\* The trips a window means: out and back within all the limits given, a night apart.
Means(t, out, back) ==
    /\ out >= since /\ t.start <= out /\ out <= t.end
    /\ back > out
    /\ Given(t.return_start) => t.return_start <= back /\ back <= t.return_end
    /\ Given(t.min_nights) => back - out >= t.min_nights /\ back - out <= t.max_nights

\* After the first 1, 3 and 7 pairs no stretch of the window longer than its half, its
\* quarter and its eighth is unsampled.
Spread ==
    \A parts \in {2, 4, 8} : parts - 1 <= Len(queue) =>
        LET stretch == Len(queue) \div parts + 1
        IN \A from \in 0..(Len(queue) - stretch) : \E i \in 1..(parts - 1) :
              Place(queue[i], ToSet(queue)) \in from..(from + stretch - 1)

\* A saved window is swept over exactly the trips it means, each once, and from the
\* first scans on across the whole of it.
QueueMeansTheWindow ==
    IF tracker = Null \/ tracker.mode # "custom_window" THEN queue = <<>>
    ELSE /\ IsInjective(queue)
         /\ \A out, back \in 0..(2 * LastDay + 4) :
               <<out, back>> \in ToSet(queue) <=> Means(tracker, out, back)
         /\ Spread

\* What is saved unacknowledged costs no more in its month than was left for
\* automation, but for the scan that is made at once.
WithinBudget ==
    tracker # Null /\ ~tracker.ack /\ safe # Null => spent <= safe + CallsPerScan(tracker)

FormInv == TypeOK /\ QueueMeansTheWindow /\ WithinBudget

ReturnsEndFirst(t) ==
    Given(t.return_end) /\ t.return_end < t.end + (IF Given(t.min_nights) THEN t.min_nights ELSE 1)

Completed(t) == t # Null /\ t.status = "completed"

\* What is accepted can be searched there and then; and a check of a tracker that is
\* not over finds something to search, unless its returns end before its departures.
AlwaysSearchable ==
    [][/\ saves' = saves + 1 =>
            /\ ~TripOver(tracker')
            /\ tracker'.mode = "custom_window" => \E i \in DOMAIN queue' : queue'[i][1] >= today
       /\ wait < wait' => spent < spent' \/ ReturnsEndFirst(tracker)
       /\ Completed(tracker') /\ ~Completed(tracker) =>
            /\ Flown = DOMAIN queue
            /\ tracker.mode = "exact" => tracker.outbound < today]_vars

\* Saving again what is searched for keeps the progress of the sweep, until a pair of
\* it has flown.
SameSearch(s, t) ==
    s.mode = t.mode /\ s.markets = t.markets /\ \A k \in OfMode(s.mode) : s[k] = t[k]
KeepsProgress ==
    [][saves' = saves + 1 /\ tracker # Null /\ Flown = {} =>
          (SameSearch(tracker, tracker') => queue' = queue /\ done' = done)]_vars
=============================================================================
