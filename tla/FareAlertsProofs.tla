-------------------------- MODULE FareAlertsProofs --------------------------
(***************************************************************************)
(* Proofs about FareAlerts, for every price, party, order of answers and   *)
(* setting: the cheapest usable fare is gone on with, what is compared is  *)
(* what is stored, and the owner is told of what was asked for.            *)
(***************************************************************************)
EXTENDS FareAlerts, WellFoundedInduction, FiniteSetTheorems, TLAPS

-----------------------------------------------------------------------------
(* Money.                                                                  *)

LEMMA Quotient ==
  ASSUME NEW n \in Nat, NEW d \in Nat \ {0}
  PROVE  n \div d \in Nat /\ (n \div d) * d <= n /\ n < (n \div d) * d + d
OBVIOUS

LEMMA AtMost ==
  ASSUME NEW q \in Int, NEW r \in Int, NEW d \in Nat \ {0}, q * d < r * d + d
  PROVE  q <= r
OBVIOUS

LEMMA Times ==
  ASSUME NEW q \in Nat, NEW r \in Nat, NEW d \in Nat, q <= r
  PROVE  q * d <= r * d
OBVIOUS

\* The two roundings agree on amounts that are not negative: a half goes up.
LEMMA RoundingsAgree ==
  ASSUME NEW n \in Nat, NEW d \in Nat \ {0}
  PROVE  /\ DivideHalfUp(n, d) \in Nat
         /\ Round(n, d) = DivideHalfUp(n, d)
         /\ 2 * Magnitude(Round(n, d) * d - n) <= d
<1> DEFINE q == n \div d
           h == DivideHalfUp(n, d)
           r == Round(n, d)
<1>1. q \in Nat /\ q * d <= n /\ n < q * d + d
  BY Quotient
<1>2. h = IF 2 * (n - q * d) >= d THEN q + 1 ELSE q
  BY <1>1 DEF DivideHalfUp, Magnitude
<1>3. 2 * n + d \in Nat /\ 2 * d \in Nat \ {0}
  OBVIOUS
<1>4. r \in Nat /\ r * (2 * d) <= 2 * n + d /\ 2 * n + d < r * (2 * d) + 2 * d
  BY <1>3, Quotient DEF Round
<1>5. h \in Nat /\ 2 * (h * d) <= 2 * n + d /\ 2 * n + d < 2 * (h * d) + 2 * d
  <2>1. CASE 2 * (n - q * d) >= d
    <3>1. h = q + 1 /\ h * d = q * d + d
      BY <1>1, <1>2, <2>1
    <3> QED
      BY <1>1, <2>1, <3>1
  <2>2. CASE ~(2 * (n - q * d) >= d)
    <3>1. h = q
      BY <1>1, <1>2, <2>2
    <3> QED
      BY <1>1, <2>2, <3>1
  <2> QED
    BY <2>1, <2>2
<1>6. r * (2 * d) = 2 * (r * d)
  BY <1>4
<1>7. h = r
  <2> HIDE DEF h, r
  <2>1. r * d < h * d + d /\ h * d < r * d + d
    BY <1>4, <1>5, <1>6
  <2> QED
    BY <2>1, <1>4, <1>5, AtMost
<1>8. 2 * Magnitude(r * d - n) <= d
  <2> HIDE DEF r
  <2>1. r * d \in Nat /\ 2 * (r * d) <= 2 * n + d /\ 2 * n < 2 * (r * d) + d
    BY <1>4, <1>6
  <2> QED
    BY <2>1 DEF Magnitude
<1> QED
  BY <1>5, <1>7, <1>8

\* A greater amount has no lesser share.
LEMMA SharesGrow ==
  ASSUME NEW m \in Nat, NEW n \in Nat, NEW d \in Nat \ {0}, m <= n
  PROVE  DivideHalfUp(m, d) <= DivideHalfUp(n, d)
<1> DEFINE r == Round(m, d)
           s == Round(n, d)
<1>1. /\ 2 * m + d \in Nat /\ 2 * n + d \in Nat /\ 2 * d \in Nat \ {0}
      /\ 2 * m + d <= 2 * n + d
  OBVIOUS
<1>2. /\ r \in Nat /\ r * (2 * d) <= 2 * m + d
      /\ s \in Nat /\ 2 * n + d < s * (2 * d) + 2 * d
  BY <1>1, Quotient DEF Round
<1>3. r <= s
  <2> HIDE DEF r, s
  <2>1. r * (2 * d) < s * (2 * d) + 2 * d
    BY <1>1, <1>2
  <2> QED
    BY <2>1, <1>1, <1>2, AtMost
<1> QED
  BY <1>3, RoundingsAgree

\* A drop of so many hundredths of a percent, rounded, is one of nearly as many.
LEMMA DropIsReal ==
  ASSUME NEW drop \in Int, NEW before \in Nat \ {0}, NEW bp \in Nat \ {0},
         DivideHalfUp(drop * 10000, before) >= bp
  PROVE  20000 * drop >= (2 * bp - 1) * before
<1> DEFINE n == drop * 10000
           h == DivideHalfUp(n, before)
<1>0. h >= bp
  OBVIOUS
<1>1. CASE drop < 0
  <2>1. Magnitude(n) \in Nat
    BY <1>1 DEF Magnitude
  <2> DEFINE q == Magnitude(n) \div before
  <2>2. q \in Nat
    BY <2>1, Quotient
  <2>3. h \in Int /\ h <= 0
    BY <1>1, <2>2 DEF DivideHalfUp
  <2> HIDE DEF h
  <2> QED
    BY <1>0, <2>3
<1>2. CASE drop >= 0
  <2>1. n \in Nat
    BY <1>2
  <2>2. h \in Nat /\ 2 * Magnitude(h * before - n) <= before
    BY <2>1, RoundingsAgree
  <2>3. 2 * (h * before) <= 2 * n + before
    BY <2>1, <2>2 DEF Magnitude
  <2>4. bp * before <= h * before
    <3> HIDE DEF h
    <3> QED
      BY <1>0, <2>2, Times
  <2>5. 2 * (bp * before) - before <= 20000 * drop
    BY <2>1, <2>2, <2>3, <2>4
  <2>6. (2 * bp - 1) * before = 2 * (bp * before) - before
    OBVIOUS
  <2> QED
    BY <2>5, <2>6
<1> QED
  BY <1>1, <1>2

-----------------------------------------------------------------------------
(* A price, an observation of it, and what they are on either basis.       *)

LEMMA SeatsPositive ==
  ASSUME party \in Nat
  PROVE  Seats(party) \in Nat \ {0}
BY DEF Seats

LEMMA PricesPositive ==
  ASSUME NEW p \in Prices
  PROVE  p \in Nat \ {0}
BY PricesAssumption

\* Which scopes there are, and how each one reads a price.
Reading == scope \in {"party_total", "per_traveler", "unknown"} /\ party \in Nat

LEMMA ReadingTyped ==
  ASSUME TypeOK
  PROVE  Reading
BY ScopesAssumption, PricesAssumption DEF TypeOK, Reading

LEMMA ComparableRead ==
  ASSUME Reading, NEW p \in Nat, NEW basis \in Bases
  PROVE  ComparableCents(p, basis) =
           CASE scope = "party_total" /\ basis = "per_traveler" -> DivideHalfUp(p, Seats(party))
             [] scope = "per_traveler" /\ basis = "party" -> p * Seats(party)
             [] OTHER -> p
<1>1. Seats(party) \in Nat \ {0} /\ DivideHalfUp(p, Seats(party)) \in Nat
  BY SeatsPositive, RoundingsAgree DEF Reading
<1>2. /\ p # Null /\ p * Seats(party) \in Nat /\ p * Seats(party) # Null
      /\ DivideHalfUp(p, Seats(party)) # Null
  BY <1>1, NullAssumption
<1>3. basis = "party" \/ basis = "per_traveler"
  BY DEF Bases
<1>4. CASE scope = "party_total"
  BY <1>2, <1>3, <1>4 DEF ComparableCents, NormalizePrice
<1>5. CASE scope = "per_traveler"
  BY <1>2, <1>3, <1>5 DEF ComparableCents, NormalizePrice
<1>6. CASE scope = "unknown"
  BY <1>2, <1>3, <1>6 DEF ComparableCents, NormalizePrice
<1> QED
  BY <1>4, <1>5, <1>6 DEF Reading

LEMMA ComparableTyped ==
  ASSUME Reading, NEW p \in Nat, NEW basis \in Bases
  PROVE  ComparableCents(p, basis) \in Nat
<1>1. Seats(party) \in Nat \ {0} /\ DivideHalfUp(p, Seats(party)) \in Nat
  BY SeatsPositive, RoundingsAgree DEF Reading
<1>2. p * Seats(party) \in Nat
  BY <1>1
<1> QED
  BY <1>1, <1>2, ComparableRead

\* A dearer fare is not compared as a cheaper one.
LEMMA ComparisonGrows ==
  ASSUME Reading, NEW p \in Nat, NEW q \in Nat, p <= q, NEW basis \in Bases
  PROVE  ComparableCents(p, basis) <= ComparableCents(q, basis)
<1>1. Seats(party) \in Nat \ {0}
  BY SeatsPositive DEF Reading
<1>2. DivideHalfUp(p, Seats(party)) <= DivideHalfUp(q, Seats(party))
  BY <1>1, SharesGrow
<1>3. p * Seats(party) <= q * Seats(party)
  BY <1>1, Times
<1> QED
  BY <1>2, <1>3, ComparableRead

LEMMA StoredFields ==
  ASSUME Reading, NEW p \in Prices, NEW i \in Itineraries
  PROVE  /\ Stored(p, i).price = p /\ Stored(p, i).itinerary = i
         /\ Stored(p, i) \in Observation
<1>1. p \in Nat /\ Seats(party) \in Nat \ {0}
  BY SeatsPositive, PricesPositive DEF Reading
<1>2. p * Seats(party) \in Nat /\ Round(p, Seats(party)) \in Nat
  BY <1>1, RoundingsAgree
<1>3. CASE scope = "party_total"
  BY <1>1, <1>2, <1>3 DEF Stored, Observation
<1>4. CASE scope = "per_traveler"
  BY <1>1, <1>2, <1>4 DEF Stored, Observation
<1>5. CASE scope = "unknown"
  BY <1>1, <1>2, <1>5 DEF Stored, Observation
<1> QED
  BY <1>3, <1>4, <1>5 DEF Reading, Stored

LEMMA StoredIsSome ==
  ASSUME Reading, NEW p \in Prices, NEW i \in Itineraries
  PROVE  Stored(p, i) # Null
BY StoredFields, NullAssumption

\* What is read back is what was compared, and it is exact.
LEMMA ReadsBack ==
  ASSUME Reading, NEW p \in Prices, NEW i \in Itineraries, NEW basis \in Bases
  PROVE  /\ ObservationCents(Stored(p, i), basis) = ComparableCents(p, basis)
         /\ Exactly(ComparableCents(p, basis), basis, Stored(p, i))
<1> DEFINE o == Stored(p, i)
           seats == Seats(party)
<1>1. p \in Nat /\ seats \in Nat \ {0} /\ o.price = p
  BY SeatsPositive, PricesPositive, StoredFields DEF Reading
<1>2. /\ Round(p, seats) = DivideHalfUp(p, seats) /\ DivideHalfUp(p, seats) \in Nat
      /\ 2 * Magnitude(Round(p, seats) * seats - p) <= seats
  BY <1>1, RoundingsAgree
<1>3. /\ p # Null /\ p * seats \in Nat /\ p * seats # Null
      /\ DivideHalfUp(p, seats) # Null
  BY <1>1, <1>2, NullAssumption
<1>4. basis = "party" \/ basis = "per_traveler"
  BY DEF Bases
<1>5. ComparableCents(p, basis) =
           CASE scope = "party_total" /\ basis = "per_traveler" -> DivideHalfUp(p, seats)
             [] scope = "per_traveler" /\ basis = "party" -> p * seats
             [] OTHER -> p
  BY <1>1, ComparableRead
<1>6. ObservationCents(o, basis) = ComparableCents(p, basis)
  <2>1. o[basis] = IF scope = "unknown" THEN Null ELSE ComparableCents(p, basis)
    <3>1. CASE scope = "party_total"
      BY <1>2, <1>4, <1>5, <3>1 DEF Stored
    <3>2. CASE scope = "per_traveler"
      BY <1>2, <1>4, <1>5, <3>2 DEF Stored
    <3>3. CASE scope = "unknown"
      BY <1>4, <3>3 DEF Stored
    <3> QED
      BY <3>1, <3>2, <3>3 DEF Reading
  <2>2. ComparableCents(p, basis) # Null
    BY <1>1, ComparableTyped, NullAssumption
  <2> QED
    BY <1>1, <2>1, <2>2 DEF ObservationCents
<1>7. Exactly(ComparableCents(p, basis), basis, o)
  BY <1>1, <1>2, <1>4, <1>5 DEF Exactly
<1> QED
  BY <1>6, <1>7

-----------------------------------------------------------------------------
(* The cheapest of the offers.                                             *)

LEMMA LeastNatural ==
  ASSUME NEW T \in SUBSET Nat, T # {}
  PROVE  \E x \in T : \A y \in T : x <= y
<1>1. PICK x \in T : \A y \in T : ~(<<y, x>> \in OpToRel(<, Nat))
  BY NatLessThanWellFounded, WFMin
<1>2. ASSUME NEW y \in T
      PROVE  x <= y
  <2>1. ~(y < x)
    BY <1>1, <1>2 DEF OpToRel
  <2> QED
    BY <2>1
<1> QED
  BY <1>2

LEMMA MinIs ==
  ASSUME NEW T \in SUBSET Nat, NEW m \in T, \A y \in T : m <= y
  PROVE  Min(T) = m
<1> DEFINE least == Min(T)
<1>1. least \in T /\ \A y \in T : least <= y
  BY DEF Min
<1>2. least = m
  <2> HIDE DEF least
  <2> QED
    BY <1>1
<1> QED
  BY <1>2

LEMMA FirstIs ==
  ASSUME NEW items, NEW places \in SUBSET Nat, places # {},
         \A k \in places : items[k].price \in Nat
  PROVE  /\ First(items, places) \in places
         /\ \A j \in places : items[First(items, places)].price <= items[j].price
<1> DEFINE prices == {items[k].price : k \in places}
<1>1. prices \in SUBSET Nat /\ prices # {}
  OBVIOUS
<1>2. PICK c \in prices : \A y \in prices : c <= y
  <2> HIDE DEF prices
  <2> QED
    BY <1>1, LeastNatural
<1> DEFINE cheap == {k \in places : items[k].price = c}
<1>3. /\ cheap \in SUBSET Nat /\ cheap # {}
      /\ \A k \in places : c <= items[k].price
  BY <1>2
<1>4. PICK i \in cheap : \A j \in cheap : i <= j
  <2> HIDE DEF cheap
  <2> QED
    BY <1>3, LeastNatural
<1>5. ASSUME NEW j \in places \ {i}
      PROVE  Earlier(items, i, j)
  <2>1. items[i].price = c /\ c \in Nat /\ i \in Nat /\ j \in Nat
    BY <1>4
  <2>2. c <= items[j].price /\ items[j].price \in Nat
    BY <1>3
  <2>3. items[j].price = c => i <= j
    BY <1>4
  <2> QED
    BY <2>1, <2>2, <2>3 DEF Earlier
<1> DEFINE f == First(items, places)
<1>6. f \in places /\ \A j \in places \ {f} : Earlier(items, f, j)
  BY <1>4, <1>5 DEF First
<1>7. ASSUME NEW j \in places
      PROVE  items[f].price <= items[j].price
  <2> HIDE DEF f
  <2>1. items[f].price \in Nat /\ items[j].price \in Nat
    BY <1>6
  <2>2. CASE j = f
    BY <2>1, <2>2
  <2>3. CASE j # f
    BY <1>6, <2>1, <2>3 DEF Earlier
  <2> QED
    BY <2>2, <2>3
<1> QED
  BY <1>6, <1>7

\* The places of an answer and what is at them.
LEMMA OffersTyped ==
  ASSUME NEW answer \in Answer
  PROVE  /\ Offers(answer) \in SUBSET Nat /\ IsFiniteSet(Offers(answer))
         /\ Eligible(answer) \subseteq Offers(answer)
         /\ \A k \in Offers(answer) : /\ k \in DOMAIN answer.items
                                      /\ answer.items[k] \in Item
                                      /\ answer.items[k].price \in Prices
<1>1. answer.items \in Seq(Item)
  BY DEF Answer
<1>2. DOMAIN answer.items = 1..Len(answer.items) /\ Len(answer.items) \in Nat
  BY <1>1
<1>3. IsFiniteSet(DOMAIN answer.items)
  BY <1>2, FS_Interval
<1>4. Offers(answer) \in SUBSET DOMAIN answer.items
  BY DEF Offers
<1>5. ASSUME NEW k \in Offers(answer)
      PROVE  answer.items[k] \in Item /\ answer.items[k].price \in Prices
  <2>1. answer.items[k] \in Item
    BY <1>1, <1>2, <1>4
  <2>2. answer.items[k].price # Null /\ answer.items[k].price # 0
    BY <2>1, NullAssumption DEF Offers, PriceCentsFrom
  <2> QED
    BY <2>1, <2>2 DEF Item
<1> QED
  BY <1>2, <1>3, <1>4, <1>5, FS_Subset DEF Eligible

\* However many offers are cheaper, and however few are kept, the best that can be
\* used is among them.
LEMMA NothingCrowdedOut ==
  ASSUME NEW answer \in Answer
  PROVE  /\ Candidates(answer) \subseteq Eligible(answer)
         /\ Eligible(answer) # {} =>
              /\ Candidates(answer) # {}
              /\ First(answer.items, Candidates(answer)) \in Eligible(answer)
              /\ \A k \in Eligible(answer) : BestItem(answer).price <= answer.items[k].price
<1> DEFINE items == answer.items
           offers == Offers(answer)
           eligible == Eligible(answer)
           cheapest == Cheapest(answer)
           Before(k) == {j \in offers : Earlier(items, j, k)}
<1>1. /\ offers \in SUBSET Nat /\ IsFiniteSet(offers) /\ eligible \subseteq offers
      /\ \A k \in offers : items[k].price \in Nat
  BY OffersTyped, PricesPositive
<1>2. Candidates(answer) = Kept(answer) \cap eligible
  BY DEF Candidates
<1>3. SUFFICES ASSUME eligible # {}
      PROVE  /\ Candidates(answer) # {}
             /\ First(items, Candidates(answer)) \in eligible
             /\ \A k \in eligible : BestItem(answer).price <= items[k].price
  BY <1>2
<1>4. CASE eligible \cap cheapest = {}
  <2>1. /\ First(items, eligible) \in eligible
        /\ \A k \in eligible : items[First(items, eligible)].price <= items[k].price
    BY <1>1, <1>3, FirstIs
  <2>2. Candidates(answer) = {First(items, eligible)}
    BY <1>2, <1>3, <1>4, <2>1 DEF Kept
  <2>3. /\ First(items, Candidates(answer)) \in Candidates(answer)
    BY <1>1, <2>1, <2>2, FirstIs
  <2>4. First(items, Candidates(answer)) = First(items, eligible)
    BY <2>2, <2>3
  <2> QED
    BY <2>1, <2>2, <2>4 DEF BestItem
<1>5. CASE eligible \cap cheapest # {}
  <2> DEFINE f == First(items, Candidates(answer))
  <2>1. Candidates(answer) = cheapest \cap eligible
    BY <1>2, <1>5 DEF Kept
  <2>2. /\ f \in eligible /\ f \in cheapest
        /\ \A k \in eligible \cap cheapest : items[f].price <= items[k].price
    BY <1>1, <1>5, <2>1, FirstIs
  <2>3. ASSUME NEW k \in eligible, ~(items[f].price <= items[k].price)
        PROVE  FALSE
    <3> HIDE DEF f
    <3>1. items[k].price < items[f].price /\ k \in offers /\ f \in offers
      BY <1>1, <2>2, <2>3
    <3>2. Before(k) \subseteq Before(f)
      BY <1>1, <3>1 DEF Earlier
    <3>3. IsFiniteSet(Before(f)) /\ IsFiniteSet(Before(k))
      BY <1>1, FS_Subset
    <3>4. /\ Cardinality(Before(k)) \in Nat /\ Cardinality(Before(f)) \in Nat
          /\ Cardinality(Before(k)) <= Cardinality(Before(f))
      BY <3>2, <3>3, FS_Subset, FS_CardinalityType
    <3>5. Cardinality(Before(f)) < MaxStored
      BY <2>2 DEF Cheapest
    <3>6. Cardinality(Before(k)) < MaxStored
      <4> HIDE DEF Before
      <4> QED
        BY <3>4, <3>5, OffersAssumption
    <3>7. k \in cheapest
      BY <3>1, <3>6 DEF Cheapest
    <3> QED
      BY <2>2, <2>3, <3>7
  <2> QED
    BY <1>5, <2>1, <2>2, <2>3 DEF BestItem
<1> QED
  BY <1>4, <1>5

\* What the code takes for eligible is what a person would use.
LEMMA ReadAlike ==
  ASSUME NEW answer \in Answer, NEW k \in DOMAIN answer.items
  PROVE  k \in Eligible(answer) <=> UsableIn(answer, answer.items[k])
<1> DEFINE item == answer.items[k]
<1>1. item \in Item
  <2>1. answer.items \in Seq(Item)
    BY DEF Answer
  <2> QED
    BY <2>1
<1>2. /\ item.layovers \in Nat /\ item.segments \in Nat
      /\ item.stops \in Nat \cup {Null} /\ Null \notin Int
  BY <1>1, NullAssumption DEF Item
<1>3. PriceCentsFrom(item.price) # Null <=> item.price # Null /\ item.price > 0
  BY DEF PriceCentsFrom
<1>4. CurrencyOf(answer) = Currency <=> answer.currency \in {Currency, Null}
  BY DEF CurrencyOf
<1>5. LET stops == StopsOf(answer, item)
          allowed == IF Preference = "nonstop" THEN 0 ELSE 1
      IN  (stops # Null => /\ Preference = "nonstop" => stops <= 0
                           /\ Preference = "one_stop_max" => stops <= 1)
          <=> (Preference # "any" =>
                 IF answer.engine = "google_flights"
                 THEN /\ item.layovers <= allowed
                      /\ item.layovers = 0 => item.segments <= allowed + 1
                 ELSE item.stops \in {Null} \cup 0..allowed)
  <2> HIDE DEF item
  <2>1. CASE answer.engine = "google_flights"
    <3>1. StopsOf(answer, item) = GoogleFlightsStops(item)
      BY <2>1 DEF StopsOf
    <3>2. CASE Preference = "any"
      BY <3>2
    <3>3. CASE Preference = "nonstop"
      BY <1>2, <2>1, <3>1, <3>3 DEF GoogleFlightsStops
    <3>4. CASE Preference = "one_stop_max"
      BY <1>2, <2>1, <3>1, <3>4 DEF GoogleFlightsStops
    <3> QED
      BY <3>2, <3>3, <3>4, OffersAssumption
  <2>2. CASE answer.engine # "google_flights"
    <3>1. StopsOf(answer, item) = item.stops
      BY <2>2 DEF StopsOf
    <3>2. CASE Preference = "any"
      BY <3>2
    <3>3. CASE Preference = "nonstop"
      BY <1>2, <2>2, <3>1, <3>3
    <3>4. CASE Preference = "one_stop_max"
      BY <1>2, <2>2, <3>1, <3>4
    <3> QED
      BY <3>2, <3>3, <3>4, OffersAssumption
  <2> QED
    BY <2>1, <2>2
<1> QED
  BY <1>3, <1>4, <1>5 DEF Eligible, Offers, EligibilityFor, UsableIn

LEMMA UsableFares ==
  ASSUME NEW answers \in Seq(Answer), NEW p
  PROVE  p \in Usable(answers) <=>
           \E k \in DOMAIN answers : \E j \in Eligible(answers[k]) : p = answers[k].items[j].price
<1>1. \A k \in DOMAIN answers : answers[k] \in Answer
  OBVIOUS
<1>2. ASSUME NEW k \in DOMAIN answers, NEW j \in Eligible(answers[k])
      PROVE  /\ answers[k].items[j] \in ToSet(answers[k].items)
             /\ UsableIn(answers[k], answers[k].items[j])
  <2>1. j \in DOMAIN answers[k].items
    BY <1>1, OffersTyped
  <2>2. answers[k].items[j] \in ToSet(answers[k].items)
    BY <2>1 DEF ToSet
  <2>3. UsableIn(answers[k], answers[k].items[j])
    BY <1>1, <2>1, ReadAlike
  <2> QED
    BY <2>2, <2>3
<1>3. ASSUME NEW k \in DOMAIN answers, NEW item \in ToSet(answers[k].items),
             UsableIn(answers[k], item)
      PROVE  \E j \in Eligible(answers[k]) : item = answers[k].items[j]
  <2>1. PICK j \in DOMAIN answers[k].items : item = answers[k].items[j]
    BY DEF ToSet
  <2>2. j \in Eligible(answers[k])
    BY <1>1, <1>3, <2>1, ReadAlike
  <2> QED
    BY <2>1, <2>2
<1> QED
  BY <1>2, <1>3 DEF Usable

\* Whatever a check was answered, it goes on with the cheapest fare that could be used,
\* or with none if no answer offered one.
THEOREM BestIsCheapest ==
  ASSUME NEW answers \in Responses
  PROVE  /\ BestOffer(answers) \in BestOffers \cup {Null}
         /\ ~Missed(BestOffer(answers), answers)
<1> DEFINE found == {k \in DOMAIN answers : Candidates(answers[k]) # {}}
           bests == [k \in found |-> BestItem(answers[k])]
           best == First(bests, found)
<1>1. answers \in Seq(Answer) /\ \A k \in DOMAIN answers : answers[k] \in Answer
  BY ResponsesAssumption
<1>2. found \in SUBSET Nat
  BY <1>1
<1>3. ASSUME NEW k \in found
      PROVE  /\ bests[k] \in Item /\ bests[k].price \in Prices
             /\ \E j \in Eligible(answers[k]) : bests[k] = answers[k].items[j]
             /\ \A j \in Eligible(answers[k]) : bests[k].price <= answers[k].items[j].price
  <2>1. answers[k] \in Answer /\ Eligible(answers[k]) # {}
    BY <1>1, NothingCrowdedOut
  <2>2. /\ First(answers[k].items, Candidates(answers[k])) \in Eligible(answers[k])
        /\ \A j \in Eligible(answers[k]) : BestItem(answers[k]).price <= answers[k].items[j].price
    BY <2>1, NothingCrowdedOut
  <2>3. bests[k] = answers[k].items[First(answers[k].items, Candidates(answers[k]))]
    BY DEF BestItem
  <2> QED
    BY <2>1, <2>2, <2>3, OffersTyped
<1>4. Usable(answers) \in SUBSET Nat
  <2>1. ASSUME NEW p \in Usable(answers)
        PROVE  p \in Nat
    <3>1. PICK k \in DOMAIN answers :
             \E j \in Eligible(answers[k]) : p = answers[k].items[j].price
      BY <1>1, UsableFares
    <3>2. PICK j \in Eligible(answers[k]) : p = answers[k].items[j].price
      BY <3>1
    <3>3. p \in Prices
      BY <1>1, <3>2, OffersTyped
    <3> QED
      BY <3>3, PricesPositive
  <2> QED
    BY <2>1
<1>5. CASE found = {}
  <2>1. BestOffer(answers) = Null
    BY <1>5 DEF BestOffer
  <2>2. \A k \in DOMAIN answers : Eligible(answers[k]) = {}
    BY <1>1, <1>5, NothingCrowdedOut
  <2>3. Usable(answers) = {}
    BY <1>1, <2>2, UsableFares
  <2> QED
    BY <2>1, <2>3 DEF Missed
<1>6. CASE found # {}
  <2> DEFINE offer == [cents |-> bests[best].price, itinerary |-> bests[best].itinerary]
  <2>1. \A k \in found : bests[k].price \in Nat
    BY <1>3, PricesPositive
  <2>2. best \in found /\ \A k \in found : bests[best].price <= bests[k].price
    <3> HIDE DEF found, bests
    <3> QED
      BY <1>2, <1>6, <2>1, FirstIs
  <2>3. BestOffer(answers) = offer
    BY <1>6, <2>2 DEF BestOffer
  <2>4. offer \in BestOffers /\ offer # Null
    <3>1. bests[best].price \in Prices /\ bests[best].itinerary \in Itineraries
      BY <1>3, <2>2 DEF Item
    <3> HIDE DEF found, bests, best
    <3> QED
      BY <3>1, NullAssumption DEF BestOffers
  <2>5. offer.cents \in Usable(answers)
    <3>1. best \in DOMAIN answers
      BY <2>2
    <3>2. \E j \in Eligible(answers[best]) : offer.cents = answers[best].items[j].price
      BY <1>3, <2>2
    <3> QED
      BY <1>1, <3>1, <3>2, UsableFares
  <2>6. ASSUME NEW p \in Usable(answers)
        PROVE  offer.cents <= p
    <3>1. PICK k \in DOMAIN answers :
             \E j \in Eligible(answers[k]) : p = answers[k].items[j].price
      BY <1>1, UsableFares
    <3>2. PICK j \in Eligible(answers[k]) : p = answers[k].items[j].price
      BY <3>1
    <3>3. k \in found
      BY <1>1, <3>1, <3>2, NothingCrowdedOut
    <3>4. bests[best].price <= bests[k].price /\ bests[k].price <= p
      BY <1>3, <2>2, <3>2, <3>3
    <3>5. bests[best].price \in Nat /\ bests[k].price \in Nat /\ p \in Nat
      BY <1>4, <2>1, <2>2, <3>3
    <3> HIDE DEF found, bests, best
    <3> QED
      BY <3>4, <3>5
  <2>7. offer.cents = Min(Usable(answers))
    <3> HIDE DEF offer
    <3> QED
      BY <1>4, <2>5, <2>6, MinIs
  <2> QED
    BY <2>3, <2>4, <2>5, <2>7 DEF Missed
<1> QED
  BY <1>5, <1>6

LEMMA ResultsSound ==
  ASSUME NEW result \in Results
  PROVE  result.best \in BestOffers \cup {Null} /\ result.missed = FALSE
<1>1. PICK answers \in Responses :
         result = [best |-> BestOffer(answers), missed |-> Missed(BestOffer(answers), answers)]
  BY DEF Results
<1>2. Missed(BestOffer(answers), answers) = FALSE
  BY BestIsCheapest DEF Missed
<1> QED
  BY <1>1, <1>2, BestIsCheapest

-----------------------------------------------------------------------------
(* The row and the history of its series.                                  *)

\* The row points at observations of its series, the lower one at one that no other
\* undercuts, and remembers whether the last one was under the threshold.
Summary ==
    /\ (latest = Null <=> fares = {}) /\ (low = Null <=> fares = {})
    /\ fares # {} => /\ latest \in fares /\ low \in fares
                     /\ \A o \in fares : low.price <= o.price
    /\ met = under
FareInv == TypeOK /\ Summary /\ NoneMissed

LEMMA InitSound ==
  ASSUME Init
  PROVE  FareInv
<1>1. checks \in 0..MaxChecks /\ edits \in 0..MaxEdits /\ series \in 1..MaxSeries
  BY BoundsAssumption DEF Init
<1>2. sent \in [Types -> (0..MaxHours) \cup {Null}]
  BY DEF Init
<1>3. met \in BOOLEAN /\ under \in BOOLEAN /\ missed \in BOOLEAN
  BY DEF Init
<1>4. TypeOK
  BY <1>1, <1>2, <1>3 DEF Init, TypeOK
<1> QED
  BY <1>4 DEF Init, FareInv, Summary, NoneMissed

LEMMA ComparableSetting ==
  ASSUME TypeOK, NEW p \in Prices
  PROVE  Comparable(p) \in Nat
<1>1. settings.basis \in Bases
  BY SettingsAssumption DEF TypeOK
<1> QED
  BY <1>1, ReadingTyped, PricesPositive, ComparableTyped DEF Comparable

LEMMA FoundTypes ==
  ASSUME NEW p
  PROVE  /\ AlertsToSend(p) \subseteq {"threshold", "new_low"} /\ Findings(p) \subseteq Types
         /\ \A i : Messages(p, i) \subseteq Findings(p)
BY DEF AlertsToSend, Findings, Messages, Types

LEMMA CheckSound ==
  ASSUME FareInv, NEW p \in Prices, NEW i \in Itineraries, NEW accepted \in SUBSET Types,
         Check(p, i, accepted), missed' \in BOOLEAN
  PROVE  TypeOK' /\ Summary'
<1> DEFINE o == Stored(p, i)
<1>1. Reading /\ o # Null /\ o.price = p /\ p \in Nat
  BY ReadingTyped, StoredIsSome, StoredFields, PricesPositive DEF FareInv
<1>2. /\ fares \subseteq {Stored(q, j) : q \in Prices, j \in Itineraries}
      /\ \A x \in fares : x.price \in Nat /\ x # Null
  <2>1. fares \subseteq {Stored(q, j) : q \in Prices, j \in Itineraries}
    BY DEF FareInv, TypeOK
  <2>2. ASSUME NEW x \in fares
        PROVE  x.price \in Nat /\ x # Null
    <3>1. PICK q \in Prices, j \in Itineraries : x = Stored(q, j)
      BY <2>1
    <3> QED
      BY <3>1, <1>1, StoredFields, StoredIsSome, PricesPositive
  <2> QED
    BY <2>1, <2>2
<1>3. /\ fares' = fares \cup {o} /\ latest' = o
      /\ low' = IF low = Null \/ p < low.price THEN o ELSE low
      /\ met' = under' /\ met' \in BOOLEAN
  BY DEF Check, Lower, Met, Meets
<1>4. Summary'
  <2>1. low' \in fares' /\ \A x \in fares' : low'.price <= x.price
    <3>1. CASE low = Null
      <4>1. fares = {} /\ low' = o
        BY <1>3, <3>1 DEF FareInv, Summary
      <4> HIDE DEF o
      <4> QED
        BY <1>1, <1>3, <4>1
    <3>2. CASE low # Null
      <4>1. low \in fares /\ \A x \in fares : low.price <= x.price
        BY <3>2 DEF FareInv, Summary
      <4> HIDE DEF o
      <4> QED
        BY <1>1, <1>2, <1>3, <3>2, <4>1
    <3> QED
      BY <3>1, <3>2
  <2>2. low' # Null
    <3> HIDE DEF o
    <3> QED
      BY <1>1, <1>2, <1>3
  <2> QED
    BY <1>1, <1>3, <2>1, <2>2 DEF Summary
<1>5. scope' = scope /\ party' = party /\ settings' = settings /\ series' = series /\ edits' = edits
  BY DEF Check
<1>6. {latest', low'} \subseteq {Null} \cup {Stored(q, j)' : q \in Prices, j \in Itineraries}
      /\ fares' \subseteq {Stored(q, j)' : q \in Prices, j \in Itineraries}
  <2>1. \A q, j : Stored(q, j)' = Stored(q, j)
    BY <1>5 DEF Stored, Seats
  <2>2. o \in {Stored(q, j) : q \in Prices, j \in Itineraries}
    OBVIOUS
  <2>3. low \in {Null} \cup {Stored(q, j) : q \in Prices, j \in Itineraries}
    BY DEF FareInv, TypeOK
  <2> HIDE DEF o
  <2> QED
    BY <1>2, <1>3, <2>1, <2>2, <2>3
<1>7. events' \subseteq [type : Types, series : 1..MaxSeries, cents : Nat, itinerary : Itineraries]
  <2>1. \A t \in Findings(p) :
           Key(t, p, i) \in [type : Types, series : 1..MaxSeries, cents : Nat, itinerary : Itineraries]
    BY ComparableSetting, FoundTypes DEF Key, FareInv, TypeOK
  <2>2. events' = events \cup {Key(t, p, i) : t \in Findings(p)}
    BY DEF Check
  <2> QED
    BY <2>1, <2>2 DEF FareInv, TypeOK
<1>8. sent' \in [Types -> (0..MaxHours) \cup {Null}]
  <2>1. sent' = [t \in Types |-> IF t \in accepted THEN 0 ELSE sent[t]] /\ 0 \in 0..MaxHours
    BY BoundsAssumption DEF Check
  <2> QED
    BY <2>1 DEF FareInv, TypeOK
<1>9. checks' \in 0..MaxChecks
  BY BoundsAssumption DEF Check, FareInv, TypeOK
<1>10. said' \in Types \cup {"nothing"}
  <2>1. CASE Messages(p, i) = {}
    BY <2>1 DEF Check
  <2>2. CASE Messages(p, i) # {}
    <3>1. said' \in Messages(p, i)
      BY <2>2 DEF Check
    <3> QED
      BY <3>1, FoundTypes
  <2> QED
    BY <2>1, <2>2
<1>11. /\ scope' \in Scopes /\ party' \in Parties /\ settings' \in Settings
       /\ met' \in BOOLEAN /\ under' \in BOOLEAN /\ series' \in 1..MaxSeries
       /\ edits' \in 0..MaxEdits
  <2>1. met' \in BOOLEAN /\ under' \in BOOLEAN
    BY DEF Check, Met, Meets
  <2> QED
    BY <1>5, <2>1 DEF FareInv, TypeOK
<1>12. TypeOK'
  BY <1>6, <1>7, <1>8, <1>9, <1>10, <1>11 DEF TypeOK
<1> QED
  BY <1>4, <1>12

LEMMA EditAlertsSound ==
  ASSUME FareInv, NEW s \in Settings, EditAlerts(s)
  PROVE  FareInv'
<1>1. /\ settings' = s /\ edits' = edits + 1 /\ edits < MaxEdits
      /\ UNCHANGED <<scope, party, latest, low, met, series, events, sent, checks>>
      /\ UNCHANGED <<fares, under, said, missed>>
  BY DEF EditAlerts, row, history
<1>2. edits' \in 0..MaxEdits
  BY <1>1, BoundsAssumption DEF FareInv, TypeOK
<1>3. \A q, j : Stored(q, j)' = Stored(q, j)
  BY <1>1 DEF Stored, Seats
<1>4. TypeOK'
  BY <1>1, <1>2, <1>3 DEF FareInv, TypeOK
<1> QED
  BY <1>1, <1>4 DEF FareInv, Summary, NoneMissed

LEMMA EditSearchSound ==
  ASSUME FareInv, EditSearch
  PROVE  FareInv'
<1>1. /\ edits' = edits + 1 /\ edits < MaxEdits /\ series' = series + 1 /\ series < MaxSeries
      /\ party' \in Parties /\ latest' = Null /\ low' = Null /\ met' = FALSE
      /\ fares' = {} /\ under' = FALSE
      /\ UNCHANGED <<scope, settings, events, sent, checks, said, missed>>
  BY DEF EditSearch
<1>2. edits' \in 0..MaxEdits /\ series' \in 1..MaxSeries
  BY <1>1, BoundsAssumption DEF FareInv, TypeOK
<1>3. TypeOK'
  <2>1. /\ scope' \in Scopes /\ settings' \in Settings /\ sent' \in [Types -> (0..MaxHours) \cup {Null}]
        /\ events' \subseteq [type : Types, series : 1..MaxSeries, cents : Nat, itinerary : Itineraries]
        /\ checks' \in 0..MaxChecks /\ said' \in Types \cup {"nothing"}
    BY <1>1 DEF FareInv, TypeOK
  <2>2. met' \in BOOLEAN /\ under' \in BOOLEAN /\ missed' \in BOOLEAN
    <3>1. missed \in BOOLEAN
      BY DEF FareInv, TypeOK
    <3> QED
      BY <1>1, <3>1
  <2>3. /\ {latest', low'} \subseteq {Null} \cup {Stored(q, j)' : q \in Prices, j \in Itineraries}
        /\ fares' \subseteq {Stored(q, j)' : q \in Prices, j \in Itineraries}
    BY <1>1
  <2> QED
    BY <1>1, <1>2, <2>1, <2>2, <2>3 DEF TypeOK
<1> QED
  BY <1>1, <1>3 DEF FareInv, Summary, NoneMissed

LEMMA HourPassesSound ==
  ASSUME FareInv, HourPasses
  PROVE  FareInv'
<1>1. /\ sent' = [t \in Types |-> IF sent[t] = Null \/ sent[t] = MaxHours
                                  THEN sent[t] ELSE sent[t] + 1]
      /\ UNCHANGED <<scope, party, settings, latest, low, met, series, events>>
      /\ UNCHANGED <<checks, edits, fares, under, said, missed>>
  BY DEF HourPasses, row, bounds, history
<1>2. sent' \in [Types -> (0..MaxHours) \cup {Null}]
  <2>1. ASSUME NEW t \in Types
        PROVE  sent'[t] \in (0..MaxHours) \cup {Null}
    <3>1. sent[t] \in (0..MaxHours) \cup {Null}
      BY DEF FareInv, TypeOK
    <3> QED
      BY <1>1, <3>1, BoundsAssumption
  <2> QED
    BY <1>1, <2>1
<1>3. \A q, j : Stored(q, j)' = Stored(q, j)
  BY <1>1 DEF Stored, Seats
<1>4. TypeOK'
  BY <1>1, <1>2, <1>3 DEF FareInv, TypeOK
<1> QED
  BY <1>1, <1>4 DEF FareInv, Summary, NoneMissed

LEMMA FindNothingSound ==
  ASSUME FareInv, NEW result \in Results, FindNothing(result)
  PROVE  FareInv'
<1>0. missed' = missed
  <2>1. missed' = (missed \/ result.missed) /\ missed = FALSE
    BY DEF FindNothing, FareInv, NoneMissed, TypeOK
  <2> QED
    BY <2>1, ResultsSound
<1>1. /\ missed' = missed
      /\ UNCHANGED <<scope, party, settings, latest, low, met, series, events, sent>>
      /\ UNCHANGED <<checks, edits, fares, under, said>>
  BY <1>0 DEF FindNothing, row, bounds
<1>2. \A q, j : Stored(q, j)' = Stored(q, j)
  BY <1>1 DEF Stored, Seats
<1>3. TypeOK'
  BY <1>1, <1>2 DEF FareInv, TypeOK
<1> QED
  BY <1>1, <1>3 DEF FareInv, Summary, NoneMissed

LEMMA FindSound ==
  ASSUME FareInv, NEW result \in Results, NEW accepted \in SUBSET Types, Find(result, accepted)
  PROVE  FareInv'
<1>1. missed' = FALSE
  BY ResultsSound DEF Find, FareInv, NoneMissed
<1>2. result.best.cents \in Prices /\ result.best.itinerary \in Itineraries
  BY ResultsSound DEF Find, BestOffers
<1>3. TypeOK' /\ Summary'
  BY <1>1, <1>2, CheckSound DEF Find
<1> QED
  BY <1>1, <1>3 DEF FareInv, NoneMissed

LEMMA StutterSound ==
  ASSUME FareInv, UNCHANGED vars
  PROVE  FareInv'
<1>1. /\ UNCHANGED <<scope, party, settings, latest, low, met, series, events, sent>>
      /\ UNCHANGED <<checks, edits, fares, under, said, missed>>
  BY DEF vars, row, bounds, history
<1>2. \A q, j : Stored(q, j)' = Stored(q, j)
  BY <1>1 DEF Stored, Seats
<1>3. TypeOK'
  BY <1>1, <1>2 DEF FareInv, TypeOK
<1> QED
  BY <1>1, <1>3 DEF FareInv, Summary, NoneMissed

LEMMA StepSound ==
  ASSUME FareInv, [Next]_vars
  PROVE  FareInv'
<1>1. ASSUME NEW result \in Results, FindNothing(result)
      PROVE  FareInv'
  BY <1>1, FindNothingSound
<1>2. ASSUME NEW result \in Results, NEW accepted \in SUBSET Types, Find(result, accepted)
      PROVE  FareInv'
  BY <1>2, FindSound
<1>3. ASSUME NEW s \in Settings, EditAlerts(s)
      PROVE  FareInv'
  BY <1>3, EditAlertsSound
<1>4. CASE EditSearch
  BY <1>4, EditSearchSound
<1>5. CASE HourPasses
  BY <1>5, HourPassesSound
<1>6. CASE UNCHANGED vars
  BY <1>6, StutterSound
<1> QED
  BY <1>1, <1>2, <1>3, <1>4, <1>5, <1>6 DEF Next

LEMMA FareInvHolds == Spec => []FareInv
<1>1. Init => FareInv
  BY InitSound
<1>2. FareInv /\ [Next]_vars => FareInv'
  BY StepSound
<1> QED
  BY <1>1, <1>2, PTL DEF Spec

\* What the observations of a series are read back as.
LEMMA SeriesReads ==
  ASSUME FareInv, NEW basis \in Bases, NEW o \in fares
  PROVE  /\ ObservationCents(o, basis) = ComparableCents(o.price, basis)
         /\ ObservationCents(o, basis) \in Nat
         /\ Exactly(ObservationCents(o, basis), basis, o)
         /\ low \in fares /\ ObservationCents(low, basis) <= ObservationCents(o, basis)
<1>1. Reading /\ low \in fares /\ low.price <= o.price
  BY ReadingTyped DEF FareInv, Summary
<1>2. ASSUME NEW x \in fares
      PROVE  /\ x.price \in Nat /\ ObservationCents(x, basis) = ComparableCents(x.price, basis)
             /\ Exactly(ObservationCents(x, basis), basis, x)
  <2>1. PICK p \in Prices, i \in Itineraries : x = Stored(p, i)
    BY DEF FareInv, TypeOK
  <2>2. x.price = p /\ p \in Nat
    BY <1>1, <2>1, StoredFields, PricesPositive
  <2>3. /\ ObservationCents(x, basis) = ComparableCents(p, basis)
        /\ Exactly(ComparableCents(p, basis), basis, x)
    BY <1>1, <2>1, ReadsBack
  <2> QED
    BY <2>2, <2>3
<1>3. ComparableCents(o.price, basis) \in Nat
  BY <1>1, <1>2, ComparableTyped
<1>4. ComparableCents(low.price, basis) <= ComparableCents(o.price, basis)
  BY <1>1, <1>2, ComparisonGrows
<1>5. ObservationCents(low, basis) = ComparableCents(low.price, basis)
  BY <1>1, <1>2
<1> QED
  BY <1>1, <1>2, <1>3, <1>4, <1>5

\* The fare compared and told is the one later checks read back, exact on the owner's
\* basis, whatever the prices and the travelers are; the observed low is the least fare
\* of the series; and each check went on with the cheapest fare it could use, however
\* many others were offered with it and however few are stored.
THEOREM FaresAreRight == Spec => []FaresInv
<1>1. FareInv => FaresInv
  <2> SUFFICES ASSUME FareInv
               PROVE  FaresInv
    OBVIOUS
  <2>1. ASSUME NEW basis \in Bases, fares # {}
        PROVE  ObservationCents(low, basis) = Min({ObservationCents(o, basis) : o \in fares})
    <3> DEFINE cents == {ObservationCents(o, basis) : o \in fares}
    <3>1. \A o \in fares : /\ ObservationCents(o, basis) \in Nat /\ low \in fares
                           /\ ObservationCents(low, basis) <= ObservationCents(o, basis)
      BY SeriesReads
    <3>2. cents \in SUBSET Nat /\ ObservationCents(low, basis) \in cents
      BY <2>1, <3>1
    <3>3. \A y \in cents : ObservationCents(low, basis) <= y
      BY <3>1
    <3> HIDE DEF cents
    <3>4. Min(cents) = ObservationCents(low, basis)
      BY <3>2, <3>3, MinIs
    <3> QED
      BY <3>4 DEF cents
  <2>2. LowOfSeries
    BY <2>1, SeriesReads DEF LowOfSeries
  <2> QED
    BY <2>2 DEF FareInv, FaresInv
<1> QED
  BY <1>1, FareInvHolds, PTL

-----------------------------------------------------------------------------
(* What the owner is told.                                                 *)

\* A check that found a fare, as far as the messages go.
LEMMA CheckedFound ==
  ASSUME FareInv, [Next]_vars, Checked
  PROVE  \E p \in Prices, i \in Itineraries, accepted \in SUBSET Types : Check(p, i, accepted)
<1>1. checks \in Int
  BY DEF FareInv, TypeOK
<1>2. checks' # checks
  BY <1>1 DEF Checked
<1>3. PICK result \in Results, accepted \in SUBSET Types : Find(result, accepted)
  BY <1>2 DEF Next, FindNothing, EditAlerts, EditSearch, HourPasses, vars, bounds
<1>4. result.best.cents \in Prices /\ result.best.itinerary \in Itineraries
  BY <1>3, ResultsSound DEF Find, BestOffers
<1> QED
  BY <1>3, <1>4 DEF Find

\* The alert for a new low is about the whole series.
LEMMA NewLowIsLowest ==
  ASSUME FareInv, NEW p \in Prices, NEW i \in Itineraries, NEW accepted, Check(p, i, accepted)
  PROVE  /\ Comparable(p) \in Nat
         /\ ObservationCents(latest', settings.basis) = Comparable(p)
         /\ latest'.itinerary = i
         /\ under' = Meets(p)
         /\ Baseline <=> fares = {}
         /\ IsNewLow(p) <=> LowerThanAll
         /\ fares # {} => PreviousBest \in Nat
<1>1. settings.basis \in Bases /\ Reading /\ latest' = Stored(p, i)
  BY ReadingTyped, SettingsAssumption DEF FareInv, TypeOK, Check
<1>2. /\ Comparable(p) \in Nat /\ ObservationCents(latest', settings.basis) = Comparable(p)
      /\ latest'.itinerary = i
  BY <1>1, ComparableSetting, ReadsBack, StoredFields DEF FareInv, Comparable
<1>3. Baseline <=> fares = {}
  BY DEF Baseline, FareInv, Summary
<1>4. fares # {} => PreviousBest \in Nat
  <2>1. fares # {} => latest \in fares
    BY DEF FareInv, Summary
  <2> QED
    BY <1>1, <2>1, SeriesReads DEF PreviousBest
<1>5. IsNewLow(p) <=> LowerThanAll
  <2>1. CASE fares = {}
    BY <1>3, <2>1 DEF IsNewLow, LowerThanAll
  <2>2. CASE fares # {}
    <3>1. low # Null /\ low \in fares /\ ~Baseline
      BY <1>3, <2>2 DEF FareInv, Summary
    <3>2. \A o \in fares : /\ ObservationCents(o, settings.basis) \in Nat
                           /\ ObservationCents(low, settings.basis)
                                <= ObservationCents(o, settings.basis)
      BY <1>1, SeriesReads
    <3>3. IsNewLow(p) <=> Comparable(p) < ObservationCents(low, settings.basis)
      BY <3>1 DEF IsNewLow
    <3>4. LowerThanAll <=> \A o \in fares : Comparable(p) < ObservationCents(o, settings.basis)
      BY <1>2, <2>2 DEF LowerThanAll
    <3> QED
      BY <1>2, <3>1, <3>2, <3>3, <3>4
  <2> QED
    BY <2>1, <2>2
<1>6. under' = Meets(p)
  BY DEF Check
<1> QED
  BY <1>2, <1>3, <1>4, <1>5, <1>6

\* A message is of an alert that was evaluated, or of a near-miss.
LEMMA SaidWasFound ==
  ASSUME NEW p, NEW i, NEW accepted, Check(p, i, accepted), said' # "nothing"
  PROVE  said' \in Messages(p, i) /\ said' \in Findings(p)
<1>1. Messages(p, i) # {}
  BY DEF Check
<1>2. said' \in Messages(p, i)
  BY <1>1 DEF Check
<1> QED
  BY <1>2, FoundTypes

LEMMA SaidThreshold ==
  ASSUME NEW p, NEW i, NEW accepted, Check(p, i, accepted), said' = "threshold"
  PROVE  ThresholdAlert(p)
<1>1. "threshold" \in Findings(p)
  BY SaidWasFound
<1> QED
  BY <1>1 DEF Findings, AlertsToSend

LEMMA SaidNewLow ==
  ASSUME NEW p, NEW i, NEW accepted, Check(p, i, accepted), said' = "new_low"
  PROVE  NewLowAlert(p)
<1>1. "new_low" \in Findings(p)
  BY SaidWasFound
<1> QED
  BY <1>1 DEF Findings, AlertsToSend

\* A drop that the minimums let pass is one the owner asked for.
LEMMA DropsAsAsked ==
  ASSUME FareInv, NEW p \in Prices, NEW i \in Itineraries, NEW accepted, Check(p, i, accepted),
         ~MinDropBlocks(p), fares # {}
  PROVE  LET drop == PreviousBest - ObservationCents(latest', settings.basis)
         IN /\ settings.minDrop > 0 => drop >= settings.minDrop
            /\ settings.minDropBp > 0 =>
                  20000 * drop >= (2 * settings.minDropBp - 1) * PreviousBest
<1> DEFINE drop == PreviousBest - ObservationCents(latest', settings.basis)
<1>1. /\ Comparable(p) \in Nat /\ PreviousBest \in Nat /\ drop = Drop(p) /\ ~Baseline
      /\ drop \in Int
  BY NewLowIsLowest DEF Drop
<1>2. settings.minDrop \in Nat /\ settings.minDropBp \in Nat
  BY SettingsAssumption DEF FareInv, TypeOK
<1>3. CASE NoMinimum
  BY <1>2, <1>3 DEF NoMinimum
<1>4. CASE Falls(p)
  <2>1. settings.minDrop > 0 => drop >= settings.minDrop
    BY <1>1, <1>4 DEF Falls
  <2>2. ASSUME settings.minDropBp > 0
        PROVE  20000 * drop >= (2 * settings.minDropBp - 1) * PreviousBest
    <3>1. PreviousBest \in Nat \ {0} /\ settings.minDropBp \in Nat \ {0}
      BY <1>1, <1>2, <1>4, <2>2 DEF Falls
    <3>2. DivideHalfUp(drop * 10000, PreviousBest) >= settings.minDropBp
      BY <1>1, <1>4, <2>2 DEF Falls, DropPercentBp
    <3> HIDE DEF drop
    <3> QED
      BY <1>1, <3>1, <3>2, DropIsReal
  <2> QED
    BY <2>1, <2>2
<1> QED
  BY <1>1, <1>3, <1>4 DEF MinDropBlocks

\* Nothing is told of a fare that stays under the threshold, nor a new low of a first
\* fare, nor a drop smaller than the owner asked for: a message of a threshold means a
\* crossing or a fare below all others, one of a new low a fare below all others.
THEOREM OwnerIsNotBothered == Spec => QuietOtherwise
<1> DEFINE Quiet ==
      Checked =>
          /\ said' = "threshold" => Crossed \/ (under' /\ LowerThanAll)
          /\ said' = "new_low" => LowerThanAll
          /\ said' \in {"threshold", "new_low"} /\ fares # {} =>
                LET before == ObservationCents(latest, settings.basis)
                    drop == before - ObservationCents(latest', settings.basis)
                IN /\ settings.minDrop > 0 => drop >= settings.minDrop
                   /\ settings.minDropBp > 0 =>
                         20000 * drop >= (2 * settings.minDropBp - 1) * before
<1>1. ASSUME FareInv, [Next]_vars, Checked
      PROVE  Quiet
  <2>1. PICK p \in Prices, i \in Itineraries, accepted \in SUBSET Types : Check(p, i, accepted)
    BY <1>1, CheckedFound
  <2>2. /\ Baseline <=> fares = {}
        /\ IsNewLow(p) <=> LowerThanAll
        /\ under' = Meets(p)
    BY <1>1, <2>1, NewLowIsLowest
  <2>3. ASSUME said' = "threshold"
        PROVE  Crossed \/ (under' /\ LowerThanAll)
    <3>1. ThresholdAlert(p)
      BY <2>1, <2>3, SaidThreshold
    <3>2. settings.onThreshold /\ under' /\ (met => IsNewLow(p) \/ Baseline)
      BY <2>2, <3>1 DEF ThresholdAlert
    <3>3. met = under
      BY <1>1 DEF FareInv, Summary
    <3> QED
      BY <2>2, <3>2, <3>3 DEF Crossed
  <2>4. ASSUME said' = "new_low"
        PROVE  LowerThanAll
    BY <2>1, <2>2, <2>4, SaidNewLow DEF NewLowAlert
  <2>5. ASSUME said' \in {"threshold", "new_low"}
        PROVE  ~MinDropBlocks(p)
    BY <2>1, <2>5, SaidThreshold, SaidNewLow DEF ThresholdAlert, NewLowAlert
  <2>6. ASSUME said' \in {"threshold", "new_low"}, fares # {}
        PROVE  LET before == ObservationCents(latest, settings.basis)
                   drop == before - ObservationCents(latest', settings.basis)
               IN /\ settings.minDrop > 0 => drop >= settings.minDrop
                  /\ settings.minDropBp > 0 =>
                        20000 * drop >= (2 * settings.minDropBp - 1) * before
    BY <1>1, <2>1, <2>5, <2>6, DropsAsAsked DEF PreviousBest
  <2> QED
    BY <2>3, <2>4, <2>6
<1>2. FareInv /\ [Next]_vars => [Quiet]_vars
  BY <1>1
<1> QED
  BY <1>2, FareInvHolds, PTL DEF Spec, QuietOtherwise

\* A finding is told by this check unless its key is recorded or its type is cooling.
LEMMA ToldUnless ==
  ASSUME FareInv, NEW p \in Prices, NEW i \in Itineraries, NEW accepted, Check(p, i, accepted),
         NEW t \in Types, Findings(p) \ Consolidated(p) = {t}
  PROVE  said' = t \/ Untold(t)
<1>1. /\ Comparable(p) \in Nat
      /\ ObservationCents(latest', settings.basis) = Comparable(p) /\ latest'.itinerary = i
  BY NewLowIsLowest
<1>2. CASE Key(t, p, i) \in events
  <2>1. /\ Key(t, p, i).type = t /\ Key(t, p, i).series = series
        /\ Key(t, p, i).itinerary = i /\ Key(t, p, i).cents = Comparable(p)
    BY DEF Key
  <2>2. Known(t, latest')
    BY <1>1, <1>2, <2>1 DEF Known
  <2> QED
    BY <2>2 DEF Untold
<1>3. CASE Cooling(t)
  <2>1. sent[t] \in (0..MaxHours) \cup {Null} /\ settings.cooldown \in Nat
    BY SettingsAssumption DEF FareInv, TypeOK
  <2>2. sent[t] \in 0..settings.cooldown /\ settings.cooldown > 0
    BY <1>3, <2>1, BoundsAssumption DEF Cooling
  <2> QED
    BY <2>2 DEF Untold, Recent
<1>4. CASE Key(t, p, i) \notin events /\ ~Cooling(t)
  <2>1. Messages(p, i) = {t}
    BY <1>4 DEF Messages
  <2>2. said' = CHOOSE x \in {t} : TRUE
    BY <2>1 DEF Check
  <2> QED
    BY <2>2
<1> QED
  BY <1>2, <1>3, <1>4

\* A fare that comes down to the threshold is told, and so is one below all others of its
\* series, unless that very finding was recorded or a message of its type is recent.
THEOREM OwnerIsTold == Spec => ReachedIsTold
<1> DEFINE Told ==
      Checked /\ NoMinimum =>
          /\ LowerThanAll /\ settings.onNewLow => said' = "new_low" \/ Untold("new_low")
          /\ Crossed /\ ~(LowerThanAll /\ settings.onNewLow)
                => said' = "threshold" \/ Untold("threshold")
<1>1. ASSUME FareInv, [Next]_vars, Checked, NoMinimum
      PROVE  Told
  <2>1. PICK p \in Prices, i \in Itineraries, accepted \in SUBSET Types : Check(p, i, accepted)
    BY <1>1, CheckedFound
  <2>2. /\ Baseline <=> fares = {}
        /\ IsNewLow(p) <=> LowerThanAll
        /\ under' = Meets(p)
    BY <1>1, <2>1, NewLowIsLowest
  <2>3. ~MinDropBlocks(p) /\ met = under /\ "new_low" \in Types /\ "threshold" \in Types
    BY <1>1 DEF MinDropBlocks, FareInv, Summary, Types
  <2>4. ASSUME LowerThanAll, settings.onNewLow
        PROVE  said' = "new_low" \/ Untold("new_low")
    <3>1. NewLowAlert(p)
      BY <2>2, <2>3, <2>4 DEF NewLowAlert, LowerThanAll
    <3>2. "new_low" \in AlertsToSend(p)
      BY <3>1 DEF AlertsToSend
    <3>3. Findings(p) = AlertsToSend(p) /\ Consolidated(p) = {"threshold"}
      BY <3>2 DEF Findings, Consolidated, Approaching
    <3>4. Findings(p) \ Consolidated(p) = {"new_low"}
      BY <3>2, <3>3, FoundTypes
    <3> QED
      BY <1>1, <2>1, <2>3, <3>4, ToldUnless
  <2>5. ASSUME Crossed, ~(LowerThanAll /\ settings.onNewLow)
        PROVE  said' = "threshold" \/ Untold("threshold")
    <3>1. ThresholdAlert(p)
      BY <2>2, <2>3, <2>5 DEF ThresholdAlert, Crossed
    <3>2. ~NewLowAlert(p)
      BY <2>2, <2>5 DEF NewLowAlert
    <3>3. AlertsToSend(p) = {"threshold"}
      BY <3>1, <3>2 DEF AlertsToSend
    <3>4. Findings(p) \ Consolidated(p) = {"threshold"}
      BY <3>3 DEF Findings, Consolidated, Approaching
    <3> QED
      BY <1>1, <2>1, <2>3, <3>4, ToldUnless
  <2> QED
    BY <2>4, <2>5
<1>2. FareInv /\ [Next]_vars => [Told]_vars
  BY <1>1
<1> QED
  BY <1>2, FareInvHolds, PTL DEF Spec, ReachedIsTold
=============================================================================
