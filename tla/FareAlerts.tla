----------------------------- MODULE FareAlerts -----------------------------
(***************************************************************************)
(* What the owner is told of the fares of one tracker: the best offer of   *)
(* the answers to a check (ProviderOffers), evaluate of                    *)
(* domain/evaluation.ts with the money it counts in (domain/money.ts),     *)
(* finalize of services/search.ts and process of services/alerts.ts, from  *)
(* check to check, while hours pass and the owner edits the tracker.       *)
(*                                                                         *)
(* Checks come one at a time, as the tracker lock intends; what happens    *)
(* without it is TrackerCheck's.  A message is accepted or not; retrying   *)
(* it is AlertDelivery's.                                                  *)
(***************************************************************************)
EXTENDS ProviderOffers, SequencesExt, FiniteSetsExt

CONSTANTS
    Prices,       \* cents a provider may report
    Itineraries,  \* what is offered at them
    Responses,    \* what it may answer a check: a sequence of answers, one for each unit
    Scopes,       \* what a reported price is of: SERPAPI_PRICE_SCOPE
    Parties,      \* how many travelers hold a seat
    Settings,     \* what an edit may set without a new series
    MaxChecks, MaxEdits, MaxSeries, MaxHours

Bases == {"party", "per_traveler"}

\* What a provider answers, with or without a price; what the code makes of it.
Item == [price : Prices \cup {0, Null}, segments : Nat, layovers : Nat,
         stops : Nat \cup {Null}, itinerary : Itineraries]
Answer == [engine : {"google_flights", "google_travel_explore"},
           currency : STRING \cup {Null}, items : Seq(Item)]
BestOffers == [cents : Prices, itinerary : Itineraries]
Observation == [price : Prices, itinerary : Itineraries,
                party : Nat \cup {Null}, per_traveler : Nat \cup {Null}]

ASSUME PricesAssumption == Prices \subseteq Nat \ {0} /\ Parties \subseteq Nat
ASSUME NullAssumption == Null \notin Int /\ Null \notin Observation /\ Null \notin BestOffers
ASSUME ResponsesAssumption == Responses \subseteq Seq(Answer)
ASSUME ScopesAssumption == Scopes \subseteq {"party_total", "per_traveler", "unknown"}
ASSUME SettingsAssumption ==
    \A s \in Settings : /\ {s.threshold, s.minDrop, s.minDropBp, s.cooldown} \subseteq Nat
                        /\ s.basis \in Bases
                        /\ {s.onThreshold, s.onNewLow} \subseteq BOOLEAN
ASSUME BoundsAssumption == {MaxChecks, MaxEdits, MaxHours} \subseteq Nat /\ MaxSeries \in Nat \ {0}

VARIABLES
    scope, party,  \* how the provider's prices are read
    settings,      \* threshold, its basis, alert switches, minimum drops and cooldown
    latest, low,   \* the observations the row points at, or Null
    met,           \* last_threshold_met
    series,        \* current_config_version_id
    events,        \* alert_events: the dedupe keys recorded
    sent,          \* for each type, hours since a message of it was delivered, or Null
    checks, edits, \* how many
    fares,         \* history: the observations of this series
    under,         \* history: was the last of them at or under the threshold of its day?
    said,          \* history: the type of the message the last check attempted, or "nothing"
    missed         \* history: has a check gone on without the cheapest usable fare offered?

row == <<latest, low, met, series>>
bounds == <<checks, edits>>
history == <<fares, under, said, missed>>
vars == <<scope, party, settings, row, events, sent, bounds, history>>

Types == {"threshold", "new_low", "approaching"}

-----------------------------------------------------------------------------
(* Money.                                                                  *)

Magnitude(n) == IF n < 0 THEN -n ELSE n

\* Half away from zero, as Python's ROUND_HALF_UP.
DivideDown(n, d) == IF n < 0 THEN -(Magnitude(n) \div d) ELSE n \div d
DivideHalfUp(n, d) ==
    LET q == Magnitude(n) \div d
        rounded == IF 2 * (Magnitude(n) - q * d) >= d THEN q + 1 ELSE q
    IN IF n < 0 THEN -rounded ELSE rounded

Seats(n) == IF n < 1 THEN 1 ELSE n

\* A reported price on both bases.  Nothing is derived from an unknown scope.
NormalizePrice(cents) ==
    CASE scope = "party_total"  -> [party |-> cents, per_traveler |-> DivideHalfUp(cents, Seats(party))]
      [] scope = "per_traveler" -> [party |-> cents * Seats(party), per_traveler |-> cents]
      [] OTHER                  -> [party |-> Null, per_traveler |-> Null]

ComparableCents(cents, basis) ==
    LET on == NormalizePrice(cents)[basis] IN IF on = Null THEN cents ELSE on

-----------------------------------------------------------------------------
(* An observation, and what a later check reads of it.                     *)

\* normalizedColumns: stored with Math.round, which rounds a half up.
RoundMutant(n, d) == n \div d
Round(n, d) == (2 * n + d) \div (2 * d)

Stored(cents, itinerary) ==
    [price |-> cents, itinerary |-> itinerary,
     party |-> CASE scope = "party_total" -> cents
                 [] scope = "per_traveler" -> cents * Seats(party)
                 [] OTHER -> Null,
     per_traveler |-> CASE scope = "party_total" -> Round(cents, Seats(party))
                        [] scope = "per_traveler" -> cents
                        [] OTHER -> Null]

\* comparableObservationCents.
ObservationCents(o, basis) ==
    IF o[basis] # Null THEN o[basis] ELSE ComparableCents(o.price, basis)

TypeOK ==
    /\ scope \in Scopes /\ party \in Parties /\ settings \in Settings
    /\ {latest, low} \subseteq {Null} \cup {Stored(p, i) : p \in Prices, i \in Itineraries}
    /\ met \in BOOLEAN /\ under \in BOOLEAN
    /\ series \in 1..MaxSeries
    /\ events \subseteq [type : Types, series : 1..MaxSeries, cents : Nat, itinerary : Itineraries]
    /\ sent \in [Types -> (0..MaxHours) \cup {Null}]
    /\ checks \in 0..MaxChecks /\ edits \in 0..MaxEdits
    /\ fares \subseteq {Stored(p, i) : p \in Prices, i \in Itineraries}
    /\ said \in Types \cup {"nothing"} /\ missed \in BOOLEAN

Init ==
    /\ scope \in Scopes /\ party \in Parties /\ settings \in Settings
    /\ latest = Null /\ low = Null /\ met = FALSE
    /\ series = 1
    /\ events = {}
    /\ sent = [t \in Types |-> Null]
    /\ checks = 0 /\ edits = 0
    /\ fares = {} /\ under = FALSE /\ said = "nothing" /\ missed = FALSE

-----------------------------------------------------------------------------
(* evaluate.                                                               *)

Comparable(cents) == ComparableCents(cents, settings.basis)
Baseline == latest = Null
Meets(cents) == Comparable(cents) <= settings.threshold
IsNewLow(cents) ==
    ~Baseline /\ low # Null /\ Comparable(cents) < ObservationCents(low, settings.basis)

\* The drop since the last check, in cents and in hundredths of a percent: of no
\* more than nothing there is none.
PreviousBest == ObservationCents(latest, settings.basis)
Drop(cents) == PreviousBest - Comparable(cents)
DropPercentBp(cents) == DivideHalfUp(Drop(cents) * 10000, PreviousBest)

Falls(cents) ==
    /\ PreviousBest > 0
    /\ settings.minDrop > 0 => Drop(cents) >= settings.minDrop
    /\ settings.minDropBp > 0 => DropPercentBp(cents) >= settings.minDropBp
NoMinimum == settings.minDrop = 0 /\ settings.minDropBp = 0
MinDropBlocks(cents) == ~Baseline /\ ~NoMinimum /\ ~Falls(cents)

ThresholdAlert(cents) ==
    /\ settings.onThreshold /\ Meets(cents)
    /\ met => IsNewLow(cents) \/ Baseline
    /\ ~MinDropBlocks(cents)
NewLowAlert(cents) ==
    settings.onNewLow /\ ~Baseline /\ IsNewLow(cents) /\ ~MinDropBlocks(cents)

AlertsToSend(cents) == {t \in {"threshold", "new_low"} :
                           IF t = "threshold" THEN ThresholdAlert(cents) ELSE NewLowAlert(cents)}

\* A heads-up for a baseline or a new low within five percent above the threshold.
Approaching(cents) ==
    /\ ~Meets(cents) /\ Comparable(cents) * 100 <= settings.threshold * 105
    /\ settings.onThreshold
    /\ Baseline \/ IsNewLow(cents)
    /\ AlertsToSend(cents) = {}

-----------------------------------------------------------------------------
(* process and handleOne.                                                  *)

Key(type, cents, itinerary) ==
    [type |-> type, series |-> series, cents |-> Comparable(cents), itinerary |-> itinerary]

\* An event is recorded for each finding; the threshold of a new low, only recorded.
Findings(cents) ==
    IF Approaching(cents) THEN {"approaching"} ELSE AlertsToSend(cents)
Consolidated(cents) ==
    IF "new_low" \in AlertsToSend(cents) THEN {"threshold"} ELSE {}

CoolingMutant(type) ==
    settings.cooldown > 0 /\ \E t \in Types : sent[t] # Null /\ sent[t] <= settings.cooldown
Cooling(type) == settings.cooldown > 0 /\ sent[type] # Null /\ sent[type] <= settings.cooldown

Messages(cents, itinerary) ==
    {t \in Findings(cents) \ Consolidated(cents) :
        Key(t, cents, itinerary) \notin events /\ ~Cooling(t)}

LowerMutant(cents, itinerary) ==
    IF low = Null \/ cents < latest.price THEN Stored(cents, itinerary) ELSE low
Lower(cents, itinerary) ==
    IF low = Null \/ cents < low.price THEN Stored(cents, itinerary) ELSE low

\* The fares a check may go on with, as a person reads the answers: those with a price
\* in the tracker's currency that are not known to have more stops than it allows.
UsableIn(answer, item) ==
    /\ item.price # Null /\ item.price > 0
    /\ answer.currency \in {Currency, Null}
    /\ Preference # "any" =>
          LET allowed == IF Preference = "nonstop" THEN 0 ELSE 1
          IN IF answer.engine = "google_flights"
             THEN item.layovers <= allowed /\ (item.layovers = 0 => item.segments <= allowed + 1)
             ELSE item.stops \in {Null} \cup 0..allowed
Usable(answers) ==
    {item.price : item \in UNION {{i \in ToSet(answers[k].items) : UsableIn(answers[k], i)} :
                                       k \in DOMAIN answers}}
Missed(best, answers) ==
    IF best = Null THEN Usable(answers) # {}
    ELSE Usable(answers) = {} \/ best.cents # Min(Usable(answers))

\* What the answers to a check come down to.
Results == {LET best == BestOffer(answers)
            IN [best |-> best, missed |-> Missed(best, answers)] : answers \in Responses}

\* A check whose answers hold no fare it can use leaves the prices as they are.
FindNothing(result) ==
    /\ result.best = Null
    /\ missed' = (missed \/ result.missed)
    /\ UNCHANGED <<scope, party, settings, row, events, sent, bounds, fares, under, said>>

\* finalize of a check that found a fare.  The row is written before any message
\* is attempted, whatever becomes of that.
MetMutant(cents) == ThresholdAlert(cents)
Met(cents) == Meets(cents)

Check(cents, itinerary, accepted) ==
    /\ checks < MaxChecks
    /\ checks' = checks + 1
    /\ latest' = Stored(cents, itinerary)
    /\ low' = Lower(cents, itinerary)
    /\ met' = Met(cents)
    /\ events' = events \cup {Key(t, cents, itinerary) : t \in Findings(cents)}
    /\ accepted \subseteq Messages(cents, itinerary)
    /\ sent' = [t \in Types |-> IF t \in accepted THEN 0 ELSE sent[t]]
    /\ fares' = fares \cup {Stored(cents, itinerary)}
    /\ under' = Meets(cents)
    /\ said' = IF Messages(cents, itinerary) = {} THEN "nothing"
               ELSE CHOOSE t \in Messages(cents, itinerary) : TRUE
    /\ UNCHANGED <<scope, party, settings, series, edits>>

Find(result, accepted) ==
    /\ result.best # Null
    /\ Check(result.best.cents, result.best.itinerary, accepted)
    /\ missed' = (missed \/ result.missed)

-----------------------------------------------------------------------------
\* The owner changes the threshold or the alerts: the history stays comparable.
EditAlerts(s) ==
    /\ edits < MaxEdits
    /\ edits' = edits + 1
    /\ settings' = s
    /\ UNCHANGED <<scope, party, row, events, sent, checks, history>>

\* Or what is searched: a new series begins (transitionConfigVersion).
EditSearch ==
    /\ edits < MaxEdits /\ series < MaxSeries
    /\ edits' = edits + 1
    /\ series' = series + 1
    /\ party' \in Parties
    /\ latest' = Null /\ low' = Null /\ met' = FALSE
    /\ fares' = {} /\ under' = FALSE
    /\ UNCHANGED <<scope, settings, events, sent, checks, said, missed>>

HourPasses ==
    /\ \E t \in Types : sent[t] # Null /\ sent[t] < MaxHours
    /\ sent' = [t \in Types |-> IF sent[t] = Null \/ sent[t] = MaxHours
                                THEN sent[t] ELSE sent[t] + 1]
    /\ UNCHANGED <<scope, party, settings, row, events, bounds, history>>

Next ==
    \/ \E result \in Results :
          FindNothing(result) \/ \E accepted \in SUBSET Types : Find(result, accepted)
    \/ \E s \in Settings : EditAlerts(s)
    \/ EditSearch
    \/ HourPasses

Spec == Init /\ [][Next]_vars

-----------------------------------------------------------------------------
(* Properties.                                                             *)

Checked == checks' = checks + 1

\* A fare as a person computes it, without the rounding of either computation:
\* twice its distance from the exact quotient is at most one cent a seat.
Exactly(cents, basis, o) ==
    CASE scope = "party_total" /\ basis = "per_traveler" ->
            2 * Magnitude(cents * Seats(party) - o.price) <= Seats(party)
      [] scope = "per_traveler" /\ basis = "party" -> cents = o.price * Seats(party)
      [] OTHER -> cents = o.price

\* The fare that was compared and told is the one later checks read back, though
\* two roundings compute it; it is exact on the owner's basis, and the observed low
\* of the row is the least fare of the series on either of them.
LowOfSeries ==
    \A basis \in Bases :
        /\ \A o \in fares : /\ ObservationCents(o, basis) = ComparableCents(o.price, basis)
                            /\ Exactly(ObservationCents(o, basis), basis, o)
        /\ fares # {} => ObservationCents(low, basis) = Min({ObservationCents(o, basis) : o \in fares})

\* Every check goes on with the cheapest fare it was offered and can use, however
\* many cheaper ones it cannot use came with it, in whatever answer it was.
NoneMissed == ~missed

FaresInv == TypeOK /\ LowOfSeries /\ NoneMissed

Known(type, o) == \E e \in events : e.type = type /\ e.series = series /\ e.itinerary = o.itinerary
                                    /\ e.cents = ObservationCents(o, settings.basis)
Crossed == settings.onThreshold /\ under' /\ (fares = {} \/ ~under)
LowerThanAll == fares # {} /\ \A o \in fares : ObservationCents(latest', settings.basis)
                                                < ObservationCents(o, settings.basis)
Recent(type) == settings.cooldown > 0 /\ sent[type] \in 0..settings.cooldown
Untold(type) == Known(type, latest') \/ Recent(type)

\* A fare that comes down to the threshold is told, and so is one below all others
\* of its series, unless that very finding was recorded before or a message of its
\* type was delivered within the cooldown.
ReachedIsTold ==
    [][Checked /\ NoMinimum =>
          /\ LowerThanAll /\ settings.onNewLow => said' = "new_low" \/ Untold("new_low")
          /\ Crossed /\ ~(LowerThanAll /\ settings.onNewLow)
                => said' = "threshold" \/ Untold("threshold")]_vars

\* Nothing is told of a fare that merely stays under the threshold, nor a new low
\* of a first fare; nothing at all of a drop smaller than the owner asked for.
QuietOtherwise ==
    [][Checked =>
          /\ said' = "threshold" => Crossed \/ (under' /\ LowerThanAll)
          /\ said' = "new_low" => LowerThanAll
          /\ said' \in {"threshold", "new_low"} /\ fares # {} =>
                LET before == ObservationCents(latest, settings.basis)
                    drop == before - ObservationCents(latest', settings.basis)
                IN /\ settings.minDrop > 0 => drop >= settings.minDrop
                   /\ settings.minDropBp > 0 =>
                         20000 * drop >= (2 * settings.minDropBp - 1) * before]_vars
=============================================================================
