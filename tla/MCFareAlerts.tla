---------------------------- MODULE MCFareAlerts ----------------------------
(* Instances of FareAlerts for TLC: an odd fare for two has no exact share, and *)
(* 105 and 106 are shared alike.                                                *)
EXTENDS FareAlerts

Odd == {105, 106, 109, 111}

Leg(price, legs) ==
    [price |-> price, segments |-> legs, layovers |-> 0, stops |-> Null, itinerary |-> "direct"]
Hub(price, stops) == [Leg(price, 0) EXCEPT !.stops = stops]
Flights(items) == [engine |-> "google_flights", currency |-> Null, items |-> items]
Explore(items) == [engine |-> "google_travel_explore", currency |-> "EUR", items |-> items]
InDollars(answer) == [answer EXCEPT !.currency = "USD"]

MCResponses ==
    {<<Flights(<<Leg(p, 2)>>)>> : p \in Odd} \cup
    { \* crowded out, out of order, without a price
      <<Flights(<<Leg(111, 3), Leg(106, 3), Leg(105, 4), Leg(109, 1)>>)>>,
      <<Flights(<<Leg(111, 2), Leg(0, 1), Leg(Null, 1), [Leg(105, 2) EXCEPT !.layovers = 2],
                  Leg(106, 0)>>)>>,
      \* several units, in either currency
      <<Explore(<<Hub(111, 0)>>), InDollars(Flights(<<Leg(105, 1)>>)), Explore(<<Hub(109, Null)>>)>>,
      <<Flights(<<Leg(105, 1)>>), Explore(<<Hub(111, 1), Hub(106, 2)>>)>>,
      \* nothing to go on with
      <<Explore(<<>>)>>,
      <<InDollars(Explore(<<Hub(105, 0)>>)), Flights(<<Leg(106, 3)>>)>> }

Direct == {"direct"}
Alike == {"party_total", "per_traveler", "unknown"}
Couple == {2}

Wanted(threshold, basis, drop, bp, cooldown) ==
    [threshold |-> threshold, basis |-> basis, onThreshold |-> TRUE, onNewLow |-> TRUE,
     minDrop |-> drop, minDropBp |-> bp, cooldown |-> cooldown]
Wishes == {Wanted(106, "party", 0, 0, 1), Wanted(53, "per_traveler", 0, 0, 0),
           [Wanted(108, "party", 0, 0, 1) EXCEPT !.onNewLow = FALSE],
           Wanted(106, "party", 2, 280, 0)}
=============================================================================
