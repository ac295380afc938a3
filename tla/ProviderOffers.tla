--------------------------- MODULE ProviderOffers ---------------------------
(***************************************************************************)
(* From the answers of the provider to the one fare a check goes on with:  *)
(* the two parsers of providers/serpapi.ts, then persistOffers and         *)
(* eligibilityFor of services/search.ts.  An answer lists itineraries with *)
(* a price or without, at any number of stops, in the currency it was      *)
(* asked for or in another.  Sorting and searching an array are modelled   *)
(* by the order they go by, on the places of the answer.                   *)
(***************************************************************************)
EXTENDS Integers, Sequences, FiniteSets

CONSTANTS
    Currency,     \* the tracker's
    Preference,   \* its stops preference
    MaxStored,    \* MAX_STORED_OFFERS
    Null

ASSUME OffersAssumption ==
    /\ Preference \in {"any", "nonstop", "one_stop_max"}
    /\ MaxStored \in Nat \ {0}

\* A price that is missing, unreadable or not positive is none.
PriceCentsFrom(price) == IF price # Null /\ price > 0 THEN price ELSE Null

\* The currency the answer echoes, or else the one that was asked for.
CurrencyOf(answer) == IF answer.currency = Null THEN Currency ELSE answer.currency

\* Google Flights lists the legs of an itinerary; Travel Explore says how many stops.
GoogleFlightsStops(item) ==
    IF item.layovers > 0 THEN item.layovers
    ELSE IF item.segments > 0 THEN item.segments - 1 ELSE Null
StopsOf(answer, item) ==
    IF answer.engine = "google_flights" THEN GoogleFlightsStops(item) ELSE item.stops

\* Where in the answer the offers are: what cannot be tracked is skipped.
Offers(answer) ==
    {k \in DOMAIN answer.items : PriceCentsFrom(answer.items[k].price) # Null}

EligibilityFor(answer, item) ==
    LET stops == StopsOf(answer, item)
    IN /\ CurrencyOf(answer) = Currency
       /\ stops # Null => /\ Preference = "nonstop" => stops <= 0
                          /\ Preference = "one_stop_max" => stops <= 1
Eligible(answer) == {k \in Offers(answer) : EligibilityFor(answer, answer.items[k])}

\* By price, equal ones in the order of the answer.
Earlier(items, i, j) ==
    items[i].price < items[j].price \/ (items[i].price = items[j].price /\ i < j)
First(items, places) ==
    CHOOSE i \in places : \A j \in places \ {i} : Earlier(items, i, j)
Dearest(items, places) ==
    CHOOSE i \in places : \A j \in places \ {i} : Earlier(items, j, i)

\* The cheapest few are stored, and the cheapest eligible one whatever crowds it out.
Cheapest(answer) ==
    {k \in Offers(answer) :
        Cardinality({j \in Offers(answer) : Earlier(answer.items, j, k)}) < MaxStored}
KeptMutant(answer) == Cheapest(answer)
Kept(answer) ==
    LET cheapest == Cheapest(answer)
    IN IF Eligible(answer) = {} \/ Eligible(answer) \cap cheapest # {} THEN cheapest
       ELSE (cheapest \ {Dearest(answer.items, cheapest)})
                \cup {First(answer.items, Eligible(answer))}

\* is_best_of_run: the answer's own best, if it has one.
Candidates(answer) == Kept(answer) \cap Eligible(answer)
BestItem(answer) == answer.items[First(answer.items, Candidates(answer))]

\* Unit by unit, a later one replaces the best so far if it is cheaper.
BestOffer(answers) ==
    LET found == {k \in DOMAIN answers : Candidates(answers[k]) # {}}
        best == First([k \in found |-> BestItem(answers[k])], found)
    IN IF found = {} THEN Null
       ELSE [cents |-> BestItem(answers[best]).price,
             itinerary |-> BestItem(answers[best]).itinerary]
=============================================================================
