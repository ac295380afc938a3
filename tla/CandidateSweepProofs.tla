------------------------ MODULE CandidateSweepProofs ------------------------
(***************************************************************************)
(* Proofs about CandidateSweep, for windows of any length, any number of   *)
(* markets, budgets, days, edits and accidents.                            *)
(***************************************************************************)
EXTENDS CandidateSweep, FiniteSetTheorems, WellFoundedInduction, TLAPS

LEMMA Limits ==
  /\ {Markets, PerRun, MaxQueries} \subseteq Nat \ {0} /\ Laps \in Nat /\ Laps > 2
  /\ LastDay \in Nat /\ MaxSaves \in Nat /\ MaxAccidents \in Nat
  /\ Pairs \subseteq Nat
BY QueueAssumption DEF Pairs

-----------------------------------------------------------------------------
(* The least of a set of numbers, and the first of a set of searches.      *)

LEMMA LeastNatural ==
  ASSUME NEW T \in SUBSET Nat, T # {}
  PROVE  \E x \in T : \A y \in T : x <= y
<1>1. PICK x \in T : \A y \in T : ~(<<y, x>> \in OpToRel(<, Nat))
  BY NatLessThanWellFounded, WFMin
<1>2. ASSUME NEW y \in T
      PROVE  x <= y
  <2>1. ~(y < x)
    BY <1>1, <1>2 DEF OpToRel
  <2> QED
    BY <2>1
<1> QED
  BY <1>2

\* A check that has searches left has one at hand, and it is one of them.
LEMMA UnitAtHand ==
  ASSUME NEW a \in Actors, op[a].units \in SUBSET Units, op[a].units # {}
  PROVE  Unit(a) \in op[a].units
<1> DEFINE U == op[a].units
           T == {u[1] : u \in U}
<1>1. Pairs \subseteq Nat /\ (1..Markets) \subseteq Nat /\ \A u \in U : u \in Pairs \X (1..Markets)
  BY QueueAssumption DEF Pairs, Units
<1>2. T \in SUBSET Nat /\ T # {}
  BY <1>1
<1>3. PICK p \in T : \A q \in T : p <= q
  BY <1>2, LeastNatural
<1> DEFINE M == {u[2] : u \in {v \in U : v[1] = p}}
<1>4. M \in SUBSET Nat /\ M # {}
  BY <1>1, <1>3
<1>5. PICK m \in M : \A n \in M : m <= n
  BY <1>4, LeastNatural
<1>6. PICK u \in U : u[1] = p /\ u[2] = m
  BY <1>5
<1>7. ASSUME NEW v \in U
      PROVE  ~Before(v, u)
  <2>1. v[1] \in T /\ v[1] \in Nat /\ p \in Nat /\ v[2] \in Nat /\ m \in Nat
    BY <1>1, <1>2, <1>3, <1>4, <1>5
  <2>2. p <= v[1] /\ (v[1] = p => m <= v[2])
    BY <1>3, <1>5, <2>1
  <2> QED
    BY <1>6, <2>1, <2>2 DEF Before
<1> QED
  BY <1>6, <1>7 DEF Unit

\* The first pair that is due is claimed: none is claimed only if none is due.
LEMMA NoneDue ==
  ASSUME TypeOK, NEW a \in Actors, NEW l, Claimed(a, l) = {}, queue.id = op[a].id
  PROVE  \A p \in queue.pending : queue.lap[p] # l
<1> DEFINE D == {p \in queue.pending : queue.id = op[a].id /\ queue.lap[p] = l}
<1> SUFFICES ASSUME D # {}
             PROVE  FALSE
  OBVIOUS
<1>1. D \in SUBSET Nat
  <2>1. queue.pending \subseteq Pairs
    BY DEF TypeOK, Queue
  <2> QED
    BY <2>1, Limits
<1>2. PICK x \in D : \A y \in D : x <= y
  BY <1>1, LeastNatural
<1> DEFINE E == {q \in D : q < x}
<1>3. E = {}
  BY <1>1, <1>2
<1>4. Cardinality(E) < PerRun
  <2>1. Cardinality({}) = 0
    BY FS_EmptySet
  <2>2. 0 < PerRun
    BY Limits
  <2> HIDE DEF E
  <2> QED
    BY <1>3, <2>1, <2>2
<1>5. x \in Claimed(a, l)
  BY <1>4 DEF Claimed
<1> QED
  BY <1>5

-----------------------------------------------------------------------------
(* The types of the tables, and what a step does to the queue.             *)

LEMMA QueueType ==
  ASSUME TypeOK
  PROVE  /\ queue \in Queue /\ queue.id \in Nat /\ queue.build \in Nat
         /\ queue.pairs \subseteq Pairs /\ queue.lap \in [Pairs -> 0..(Laps - 1)]
         /\ queue.pending \subseteq Pairs /\ queue.markets \subseteq Units
BY DEF TypeOK, Queue

LEMMA OpType ==
  ASSUME TypeOK, NEW a \in Actors
  PROVE  /\ op \in [Actors -> Op] /\ op[a] \in Op /\ op[a].pc \in PCs /\ op[a].conf \in Nat
         /\ op[a].lap \in 0..(Laps - 1) /\ op[a].id \in Nat /\ op[a].build \in Nat
         /\ op[a].day \in Nat /\ op[a].claimed \subseteq Pairs /\ op[a].units \subseteq Units
         /\ op[a].hits \subseteq Units /\ op[a].allowed \subseteq Units
BY DEF TypeOK, Op

LEMMA LapType ==
  /\ 1 \in 0..(Laps - 1)
  /\ \A l \in 0..(Laps - 1) : NextLap(l) \in 0..(Laps - 1)
BY Limits DEF NextLap

LEMMA BookableType == \A d : Bookable(d) \subseteq Pairs
BY DEF Bookable

LEMMA PlacesOfCode ==
  /\ "idle" \in PCs /\ "lock" \in PCs /\ "version" \in PCs /\ "skip" \in PCs /\ "claim" \in PCs
  /\ "advance" \in PCs /\ "bump" \in PCs /\ "plan" \in PCs /\ "unit" \in PCs /\ "store" \in PCs
  /\ "end" \in PCs /\ "fields" \in PCs /\ "rebuild" \in PCs
BY DEF PCs

LEMMA IdleType == Idle \in Op
BY Limits, PlacesOfCode DEF Idle, Op

LEMMA BuiltType ==
  ASSUME NEW i \in Nat, NEW b \in Nat, NEW P \in SUBSET Pairs
  PROVE  Built(i, b, P) \in Queue
<1>1. P \X (1..Markets) \in SUBSET Units
  BY DEF Units
<1> QED
  BY <1>1, LapType DEF Built, Queue

LEMMA ReopenedType ==
  ASSUME NEW q \in Queue, NEW P \in SUBSET Pairs, NEW l \in 0..(Laps - 1)
  PROVE  Reopened(q, P, l) \in Queue
<1>1. P \X (1..Markets) \in SUBSET Units
  BY DEF Units
<1> QED
  BY <1>1 DEF Reopened, Queue

\* A pair stays pending only with a market of its own, so storing a search that was
\* never in the queue adds nothing to it.
LEMMA SettledType ==
  ASSUME NEW q \in Queue, NEW u
  PROVE  Settled(q, u) \in Queue
<1>1. ASSUME NEW m \in 1..Markets, <<u[1], m>> \in q.markets \ {u}
      PROVE  u[1] \in Pairs
  BY <1>1 DEF Queue, Units
<1> QED
  BY <1>1 DEF Settled, Queue

-----------------------------------------------------------------------------
(* What each step does to the memory of the one who takes it.  Configurations are *)
(* numbered by the edits: nobody remembers one that was not saved yet.     *)

Numbered ==
    /\ conf + (IF At(User, "fields") THEN 1 ELSE 0) <= saves
    /\ \A a \in Actors : op[a].conf <= conf

Shape == TypeOK /\ Numbered

Moved(a, r) ==
    /\ op' \in [Actors -> Op] /\ op'[a] = r
    /\ \A b \in Actors \ {a} : op'[b] = op[b]

LEMMA MovedBy ==
  ASSUME TypeOK, NEW a \in Actors, NEW r \in Op, op' = [op EXCEPT ![a] = r]
  PROVE  Moved(a, r)
BY OpType DEF Moved

LEMMA GotoMoves ==
  ASSUME TypeOK, NEW a \in Actors, NEW p \in PCs, Goto(a, p)
  PROVE  Moved(a, [op[a] EXCEPT !.pc = p])
<1>1. [op[a] EXCEPT !.pc = p] \in Op
  BY OpType DEF Op
<1>2. op' = [op EXCEPT ![a] = [op[a] EXCEPT !.pc = p]]
  BY OpType DEF Goto
<1> QED
  BY <1>1, <1>2, MovedBy

LEMMA RestMoves ==
  ASSUME TypeOK, NEW a \in Actors, Rest(a)
  PROVE  Moved(a, Idle)
BY IdleType, MovedBy DEF Rest

LEMMA ReadMoves ==
  ASSUME TypeOK, NEW a \in Actors, Read(a)
  PROVE  Moved(a, [Idle EXCEPT !.pc = "lock", !.conf = conf, !.lap = lap])
<1>1. conf \in Nat /\ lap \in 0..(Laps - 1)
  BY Limits DEF TypeOK
<1>2. [Idle EXCEPT !.pc = "lock", !.conf = conf, !.lap = lap] \in Op
  BY <1>1, IdleType, PlacesOfCode DEF Op
<1> QED
  BY <1>2, MovedBy DEF Read

LEMMA VersionMoves ==
  ASSUME TypeOK, NEW a \in Actors, Version(a)
  PROVE  \E i \in Nat, p \in {"end", "plan", "skip"} :
            /\ p = "plan" => Exact
            /\ p = "skip" => ~Exact
            /\ latest' = [id |-> i, conf |-> op[a].conf]
            /\ Moved(a, [op[a] EXCEPT !.id = i, !.pc = p])
<1> DEFINE i == IF latest.conf # op[a].conf THEN latest.id + 1 ELSE latest.id
           p == CASE TripOver -> "end" [] Exact -> "plan" [] OTHER -> "skip"
<1>1. latest.id \in Nat
  BY DEF TypeOK
<1>2. i \in Nat
  BY <1>1
<1>3. /\ p \in {"end", "plan", "skip"}
      /\ p = "plan" => Exact
      /\ p = "skip" => ~Exact
  OBVIOUS
<1>4. /\ op' = [op EXCEPT ![a].id = i, ![a].pc = p]
      /\ latest' = [id |-> i, conf |-> op[a].conf]
  BY DEF Version
<1> HIDE DEF i, p
<1>5. [op[a] EXCEPT !.id = i, !.pc = p] \in Op
  BY <1>2, <1>3, OpType, PlacesOfCode DEF Op
<1>6. op' = [op EXCEPT ![a] = [op[a] EXCEPT !.id = i, !.pc = p]]
  BY <1>4, OpType
<1>7. Moved(a, [op[a] EXCEPT !.id = i, !.pc = p])
  BY <1>5, <1>6, MovedBy
<1> QED
  BY <1>2, <1>3, <1>4, <1>7

LEMMA SkipMoves ==
  ASSUME TypeOK, NEW a \in Actors, Skip(a)
  PROVE  Moved(a, [op[a] EXCEPT !.pc = "claim", !.day = today])
<1>1. today \in Nat
  BY Limits DEF TypeOK
<1>2. [op[a] EXCEPT !.pc = "claim", !.day = today] \in Op
  BY <1>1, OpType, PlacesOfCode DEF Op
<1>3. op' = [op EXCEPT ![a] = [op[a] EXCEPT !.pc = "claim", !.day = today]]
  BY OpType DEF Skip
<1> QED
  BY <1>2, <1>3, MovedBy

LEMMA ClaimedType ==
  ASSUME TypeOK, NEW a \in Actors, NEW l
  PROVE  /\ Claimed(a, l) \subseteq Pairs
         /\ Claimed(a, l) \subseteq queue.pending
         /\ Claimed(a, l) # {} => queue.id = op[a].id
BY QueueType DEF Claimed

LEMMA ClaimMoves ==
  ASSUME TypeOK, NEW a \in Actors, Claim(a)
  PROVE  LET p == IF Claimed(a, op[a].lap) = {} THEN "advance" ELSE "plan"
         IN Moved(a, [op[a] EXCEPT !.claimed = Claimed(a, op[a].lap), !.build = queue.build,
                                   !.pc = p])
<1> DEFINE p == IF Claimed(a, op[a].lap) = {} THEN "advance" ELSE "plan"
           C == Claimed(a, op[a].lap)
<1>1. p \in PCs /\ C \in SUBSET Pairs
  BY PlacesOfCode, ClaimedType
<1>2. op' = [op EXCEPT ![a] = [op[a] EXCEPT !.claimed = C, !.build = queue.build, !.pc = p]]
  BY OpType DEF Claim
<1> HIDE DEF p, C
<1>3. [op[a] EXCEPT !.claimed = C, !.build = queue.build, !.pc = p] \in Op
  BY <1>1, OpType, QueueType DEF Op
<1>4. Moved(a, [op[a] EXCEPT !.claimed = C, !.build = queue.build, !.pc = p])
  BY <1>2, <1>3, MovedBy
<1> QED
  BY <1>4 DEF p, C

LEMMA BumpMoves ==
  ASSUME TypeOK, NEW a \in Actors, Bump(a)
  PROVE  Moved(a, [op[a] EXCEPT !.pc = "plan", !.lap = NextLap(op[a].lap), !.build = queue.build,
                                !.claimed = Claimed(a, NextLap(op[a].lap))])
<1> DEFINE n == NextLap(op[a].lap)
           C == Claimed(a, n)
<1>1. n \in 0..(Laps - 1)
  BY OpType, LapType
<1> HIDE DEF n
<1>2. C \in SUBSET Pairs
  BY ClaimedType
<1>3. op' = [op EXCEPT ![a] = [op[a] EXCEPT !.pc = "plan", !.lap = n, !.build = queue.build,
                                            !.claimed = C]]
  BY OpType DEF Bump, n
<1> HIDE DEF C
<1>4. [op[a] EXCEPT !.pc = "plan", !.lap = n, !.build = queue.build, !.claimed = C] \in Op
  BY <1>1, <1>2, OpType, QueueType, PlacesOfCode DEF Op
<1>5. Moved(a, [op[a] EXCEPT !.pc = "plan", !.lap = n, !.build = queue.build, !.claimed = C])
  BY <1>3, <1>4, MovedBy
<1> QED
  BY <1>5 DEF n, C

LEMMA WorkType ==
  ASSUME TypeOK, NEW a \in Actors
  PROVE  /\ Sliced(a, Work(a)) \subseteq Work(a) /\ Work(a) \subseteq Units
         /\ ~Exact => Work(a) \subseteq queue.markets
BY QueueType DEF Sliced, First, Work

LEMMA PlanMoves ==
  ASSUME TypeOK, NEW a \in Actors, Plan(a)
  PROVE  \E U \in SUBSET Units, H \in SUBSET Units, G \in SUBSET Units :
            LET p == IF U = {} THEN "end" ELSE "unit"
            IN /\ U \subseteq Work(a)
               /\ Moved(a, [op[a] EXCEPT !.pc = p, !.units = U, !.hits = H, !.allowed = G,
                                         !.claimed = {}, !.id = 0, !.day = 0])
<1> DEFINE U == Sliced(a, Work(a))
           p == IF U = {} THEN "end" ELSE "unit"
<1>0. PICK H \in Hits(a, U) : \E n \in 0..Cardinality(U \ H) :
        op' = [op EXCEPT ![a].pc = p, ![a].units = U, ![a].hits = H,
                         ![a].allowed = First(n, U \ H),
                         ![a].claimed = {}, ![a].id = 0, ![a].day = 0]
  BY ZenonT(60) DEF Plan
<1>1. PICK n \in 0..Cardinality(U \ H) :
        op' = [op EXCEPT ![a].pc = p, ![a].units = U, ![a].hits = H,
                         ![a].allowed = First(n, U \ H),
                         ![a].claimed = {}, ![a].id = 0, ![a].day = 0]
  BY <1>0
<1> DEFINE G == First(n, U \ H)
<1>2. U \in SUBSET Units /\ U \subseteq Work(a)
  BY WorkType
<1>3. H \in SUBSET Units
  BY <1>2 DEF Hits
<1>4. G \in SUBSET Units
  BY <1>2 DEF First
<1>5. p \in PCs
  BY PlacesOfCode
<1>6. op' = [op EXCEPT ![a].pc = p, ![a].units = U, ![a].hits = H, ![a].allowed = G,
                       ![a].claimed = {}, ![a].id = 0, ![a].day = 0]
  BY <1>1
<1> HIDE DEF U, G
<1>7. op' = [op EXCEPT ![a] = [op[a] EXCEPT !.pc = p, !.units = U, !.hits = H, !.allowed = G,
                                            !.claimed = {}, !.id = 0, !.day = 0]]
  BY <1>6, OpType
<1> HIDE DEF p
<1>8. [op[a] EXCEPT !.pc = p, !.units = U, !.hits = H, !.allowed = G,
                    !.claimed = {}, !.id = 0, !.day = 0] \in Op
  BY <1>2, <1>3, <1>4, <1>5, OpType DEF Op
<1>9. Moved(a, [op[a] EXCEPT !.pc = p, !.units = U, !.hits = H, !.allowed = G,
                             !.claimed = {}, !.id = 0, !.day = 0])
  BY <1>7, <1>8, MovedBy
<1> QED
  BY <1>2, <1>3, <1>4, <1>9 DEF p

LEMMA DroppedMoves ==
  ASSUME TypeOK, NEW a \in Actors, Dropped(a)
  PROVE  LET p == IF op[a].units = {Unit(a)} THEN "end" ELSE "unit"
         IN Moved(a, [op[a] EXCEPT !.units = op[a].units \ {Unit(a)}, !.pc = p])
<1> DEFINE p == IF op[a].units = {Unit(a)} THEN "end" ELSE "unit"
           U == op[a].units \ {Unit(a)}
<1>1. p \in PCs /\ U \in SUBSET Units
  BY OpType, PlacesOfCode
<1>2. op' = [op EXCEPT ![a].units = U, ![a].pc = p]
  BY OpType DEF Dropped
<1> HIDE DEF p, U
<1>3. op' = [op EXCEPT ![a] = [op[a] EXCEPT !.units = U, !.pc = p]]
  BY <1>2, OpType
<1>4. [op[a] EXCEPT !.units = U, !.pc = p] \in Op
  BY <1>1, OpType DEF Op
<1>5. Moved(a, [op[a] EXCEPT !.units = U, !.pc = p])
  BY <1>3, <1>4, MovedBy
<1> QED
  BY <1>5 DEF p, U

LEMMA SaveMoves ==
  ASSUME TypeOK, Save
  PROVE  \E P \in SUBSET Pairs : Moved(User, [Idle EXCEPT !.pc = "fields", !.claimed = P])
<1> DEFINE P == IF Exact THEN {} ELSE Bookable(today)
<1>1. P \in SUBSET Pairs
  BY BookableType
<1>2. op' = [op EXCEPT ![User] = [Idle EXCEPT !.pc = "fields", !.claimed = P]]
  BY DEF Save
<1> HIDE DEF P
<1>3. [Idle EXCEPT !.pc = "fields", !.claimed = P] \in Op
  BY <1>1, IdleType, PlacesOfCode DEF Op
<1> QED
  BY <1>1, <1>2, <1>3, MovedBy DEF Actors

LEMMA FieldsMove ==
  ASSUME TypeOK, SaveFields
  PROVE  \E c \in {conf, conf + 1} :
            conf' = c /\ Moved(User, [op[User] EXCEPT !.pc = "rebuild", !.conf = c])
<1>1. User \in Actors
  BY DEF Actors
<1>2. PICK c \in {conf, conf + 1} :
        conf' = c /\ op' = [op EXCEPT ![User].pc = "rebuild", ![User].conf = c]
  BY DEF SaveFields
<1>3. conf \in Nat
  BY Limits DEF TypeOK
<1>4. [op[User] EXCEPT !.pc = "rebuild", !.conf = c] \in Op
  <2>1. c \in Nat
    BY <1>2, <1>3
  <2> QED
    BY <1>1, <2>1, OpType, PlacesOfCode DEF Op
<1>5. op' = [op EXCEPT ![User] = [op[User] EXCEPT !.pc = "rebuild", !.conf = c]]
  BY <1>1, <1>2, OpType
<1> QED
  BY <1>1, <1>2, <1>4, <1>5, MovedBy

LEMMA RebuildMoves ==
  ASSUME TypeOK, Rebuild
  PROVE  Moved(User, [Idle EXCEPT !.pc = "end"])
<1>1. [Idle EXCEPT !.pc = "end"] \in Op
  BY IdleType, PlacesOfCode DEF Op
<1> QED
  BY <1>1, MovedBy DEF Rebuild, Actors

-----------------------------------------------------------------------------
(* The types are kept.                                                     *)

LEMMA ShapeInit == Init => Shape
<1> SUFFICES ASSUME Init
             PROVE  Shape
  OBVIOUS
<1>1. queue \in Queue
  <2> DEFINE P == IF Exact THEN {} ELSE Bookable(0)
  <2>1. P \in SUBSET Pairs
    BY BookableType
  <2>2. queue = Built(1, 0, P)
    BY DEF Init
  <2> HIDE DEF P
  <2> QED
    BY <2>1, <2>2, BuiltType
<1>2. op \in [Actors -> Op]
  BY IdleType DEF Init
<1>3. lap \in 0..(Laps - 1)
  BY LapType DEF Init
<1>4. /\ today \in 0..LastDay /\ conf \in 0..MaxSaves /\ saves \in 0..MaxSaves
      /\ accidents \in 0..MaxAccidents /\ latest \in [id : Nat, conf : 0..MaxSaves]
      /\ over \in BOOLEAN /\ cache \subseteq Units /\ lock \in Actors \cup {Null, Dead}
  <2>1. 0 \in 0..LastDay /\ 0 \in 0..MaxSaves /\ 0 \in 0..MaxAccidents
    BY Limits
  <2> QED
    BY <2>1 DEF Init
<1>5. Numbered
  <2>1. \A a \in Actors : op[a].conf = 0 /\ op[a].pc = "idle"
    BY DEF Init, Idle
  <2> QED
    BY <2>1 DEF Init, Numbered, At, Actors
<1> QED
  BY <1>1, <1>2, <1>3, <1>4, <1>5 DEF Shape, TypeOK

\* A step that leaves the configuration, and that nobody takes to the form's fields.
LEMMA NumberedStays ==
  ASSUME Shape, NEW a \in Actors, NEW r, Moved(a, r), r.conf <= conf, r.pc # "fields",
         UNCHANGED <<conf, saves>>
  PROVE  Numbered'
<1>1. \A b \in Actors : op'[b].conf <= conf
  BY DEF Moved, Shape, Numbered
<1>2. At(User, "fields")' => At(User, "fields")
  BY DEF Moved, At, Actors
<1>3. conf \in Nat /\ saves \in Nat
  BY Limits DEF Shape, TypeOK
<1> QED
  BY <1>1, <1>2, <1>3 DEF Numbered, Shape

\* All of TypeOK but the memory of the actors.
TablesOK ==
    /\ today \in 0..LastDay
    /\ conf \in 0..MaxSaves
    /\ latest \in [id : Nat, conf : 0..MaxSaves]
    /\ queue \in Queue
    /\ lap \in 0..(Laps - 1) /\ over \in BOOLEAN
    /\ lock \in Actors \cup {Null, Dead}
    /\ cache \subseteq Units
    /\ saves \in 0..MaxSaves /\ accidents \in 0..MaxAccidents

LEMMA ShapeByParts ==
  ASSUME Shape, NEW a \in Actors, NEW r, Moved(a, r), r.conf <= conf, r.pc # "fields",
         UNCHANGED <<conf, saves>>, TablesOK'
  PROVE  Shape'
<1>1. Numbered'
  BY NumberedStays
<1>2. op' \in [Actors -> Op]
  BY DEF Moved
<1> QED
  BY <1>1, <1>2 DEF TablesOK, Shape, TypeOK

LEMMA SpentType ==
  ASSUME accidents \in 0..MaxAccidents, NEW b, Spent(b)
  PROVE  accidents' \in 0..MaxAccidents
BY Limits DEF Spent

\* A configuration that somebody remembers is one that was saved.
LEMMA OldConf ==
  ASSUME Shape, NEW a \in Actors
  PROVE  op[a].conf \in 0..MaxSaves /\ op[a].conf <= conf /\ 0 <= conf /\ Idle.conf = 0
<1>1. conf \in 0..MaxSaves /\ MaxSaves \in Nat
  BY Limits DEF Shape, TypeOK
<1>2. op[a].conf \in Nat
  BY OpType DEF Shape
<1>3. op[a].conf <= conf
  BY DEF Shape, Numbered
<1>4. Idle.conf = 0
  BY DEF Idle
<1> QED
  BY <1>1, <1>2, <1>3, <1>4

LEMMA ReadShape ==
  ASSUME Shape, NEW a \in Actors, Read(a)
  PROVE  Shape'
<1> DEFINE r == [Idle EXCEPT !.pc = "lock", !.conf = conf, !.lap = lap]
<1>1. Moved(a, r) /\ r.conf = conf /\ r.pc = "lock"
  BY ReadMoves DEF Shape, Idle
<1>2. UNCHANGED <<conf, saves>> /\ TablesOK'
  BY DEF Read, tracker, bounds, TablesOK, Shape, TypeOK
<1>3. conf <= conf
  <2>1. conf \in Nat
    BY Limits DEF Shape, TypeOK
  <2> QED
    BY <2>1
<1> HIDE DEF r
<1> QED
  BY <1>1, <1>2, <1>3, ShapeByParts

LEMMA GotoShape ==
  ASSUME Shape, NEW a \in Actors, NEW p \in PCs \ {"fields"}, Goto(a, p),
         UNCHANGED <<conf, saves>>, TablesOK'
  PROVE  Shape'
<1> DEFINE r == [op[a] EXCEPT !.pc = p]
<1>1. Moved(a, r) /\ r.conf = op[a].conf /\ r.pc = p
  BY GotoMoves, OpType DEF Shape, Op
<1> HIDE DEF r
<1> QED
  BY <1>1, OldConf, ShapeByParts

LEMMA RestShape ==
  ASSUME Shape, NEW a \in Actors, Rest(a), UNCHANGED <<conf, saves>>, TablesOK'
  PROVE  Shape'
<1>1. Moved(a, Idle) /\ Idle.conf <= conf /\ Idle.pc # "fields"
  BY RestMoves, OldConf DEF Shape, Idle
<1> QED
  BY <1>1, ShapeByParts

LEMMA VersionShape ==
  ASSUME Shape, NEW a \in Actors, Version(a)
  PROVE  Shape'
<1>1. PICK i \in Nat, p \in {"end", "plan", "skip"} :
        /\ latest' = [id |-> i, conf |-> op[a].conf]
        /\ Moved(a, [op[a] EXCEPT !.id = i, !.pc = p])
  BY VersionMoves DEF Shape
<1> DEFINE r == [op[a] EXCEPT !.id = i, !.pc = p]
<1>2. Moved(a, r) /\ r.conf = op[a].conf /\ r.pc # "fields"
  BY <1>1, OpType DEF Shape, Op
<1>3. latest' \in [id : Nat, conf : 0..MaxSaves]
  BY <1>1, OldConf
<1>4. UNCHANGED <<conf, saves>> /\ TablesOK'
  BY <1>3 DEF Version, tracker, bounds, TablesOK, Shape, TypeOK
<1> HIDE DEF r
<1> QED
  BY <1>2, <1>4, OldConf, ShapeByParts

LEMMA SkipShape ==
  ASSUME Shape, NEW a \in Actors, Skip(a)
  PROVE  Shape'
<1> DEFINE r == [op[a] EXCEPT !.pc = "claim", !.day = today]
<1>1. Moved(a, r) /\ r.conf = op[a].conf /\ r.pc # "fields"
  BY SkipMoves, OpType DEF Shape, Op
<1>2. queue' \in Queue
  BY QueueType DEF Skip, Shape, Queue
<1>3. UNCHANGED <<conf, saves>> /\ TablesOK'
  BY <1>2 DEF Skip, tracker, bounds, TablesOK, Shape, TypeOK
<1> HIDE DEF r
<1> QED
  BY <1>1, <1>3, OldConf, ShapeByParts

LEMMA ClaimShape ==
  ASSUME Shape, NEW a \in Actors, Claim(a)
  PROVE  Shape'
<1> DEFINE p == IF Claimed(a, op[a].lap) = {} THEN "advance" ELSE "plan"
           r == [op[a] EXCEPT !.claimed = Claimed(a, op[a].lap), !.build = queue.build, !.pc = p]
<1>1. Moved(a, r)
  BY ClaimMoves DEF Shape
<1>2. r.conf = op[a].conf /\ r.pc # "fields"
  BY OpType DEF Shape, Op
<1>3. UNCHANGED <<conf, saves>> /\ TablesOK'
  BY DEF Claim, tracker, bounds, TablesOK, Shape, TypeOK
<1> HIDE DEF r
<1> QED
  BY <1>1, <1>2, <1>3, OldConf, ShapeByParts

LEMMA AdvanceShape ==
  ASSUME Shape, NEW a \in Actors, Advance(a)
  PROVE  Shape'
<1>1. queue' \in Queue
  <2> DEFINE P == queue.pairs \cap Bookable(op[a].day)
  <2>1. P \in SUBSET Pairs /\ NextLap(op[a].lap) \in 0..(Laps - 1)
    BY QueueType, OpType, LapType DEF Shape
  <2>2. queue' \in {queue, Reopened(queue, P, NextLap(op[a].lap))}
    BY DEF Advance
  <2> HIDE DEF P
  <2> QED
    BY <2>1, <2>2, QueueType, ReopenedType DEF Shape
<1>2. UNCHANGED <<conf, saves>> /\ TablesOK'
  BY <1>1 DEF Advance, tracker, bounds, TablesOK, Shape, TypeOK
<1> QED
  BY <1>2, GotoShape, PlacesOfCode DEF Advance

LEMMA BumpShape ==
  ASSUME Shape, NEW a \in Actors, Bump(a)
  PROVE  Shape'
<1> DEFINE r == [op[a] EXCEPT !.pc = "plan", !.lap = NextLap(op[a].lap), !.build = queue.build,
                              !.claimed = Claimed(a, NextLap(op[a].lap))]
<1>1. Moved(a, r)
  BY BumpMoves DEF Shape
<1>2. r.conf = op[a].conf /\ r.pc # "fields"
  BY OpType DEF Shape, Op
<1>3. lap' \in 0..(Laps - 1)
  BY OpType, LapType DEF Bump, Shape
<1>4. UNCHANGED <<conf, saves>> /\ TablesOK'
  BY <1>3 DEF Bump, tracker, bounds, TablesOK, Shape, TypeOK
<1> HIDE DEF r
<1> QED
  BY <1>1, <1>2, <1>4, OldConf, ShapeByParts

LEMMA PlanShape ==
  ASSUME Shape, NEW a \in Actors, Plan(a)
  PROVE  Shape'
<1>1. PICK r \in Op : Moved(a, r) /\ r.conf = op[a].conf /\ r.pc # "fields"
  <2>1. PICK U \in SUBSET Units, H \in SUBSET Units, G \in SUBSET Units :
          LET p == IF U = {} THEN "end" ELSE "unit"
          IN Moved(a, [op[a] EXCEPT !.pc = p, !.units = U, !.hits = H, !.allowed = G,
                                    !.claimed = {}, !.id = 0, !.day = 0])
    BY PlanMoves DEF Shape
  <2> DEFINE p == IF U = {} THEN "end" ELSE "unit"
             r == [op[a] EXCEPT !.pc = p, !.units = U, !.hits = H, !.allowed = G,
                                !.claimed = {}, !.id = 0, !.day = 0]
  <2>2. Moved(a, r)
    BY <2>1
  <2>3. r.conf = op[a].conf /\ r.pc # "fields"
    BY OpType DEF Shape, Op
  <2>4. r \in Op
    BY <2>2 DEF Moved
  <2> QED
    BY <2>2, <2>3, <2>4
<1>2. \E b : Spent(b)
  BY DEF Plan
<1>3. UNCHANGED <<conf, saves>> /\ TablesOK'
  BY <1>2, SpentType DEF Plan, tracker, TablesOK, Shape, TypeOK
<1> QED
  BY <1>1, <1>3, OldConf, ShapeByParts

LEMMA DroppedShape ==
  ASSUME Shape, NEW a \in Actors, Dropped(a), UNCHANGED <<conf, saves>>, TablesOK'
  PROVE  Shape'
<1> DEFINE p == IF op[a].units = {Unit(a)} THEN "end" ELSE "unit"
           r == [op[a] EXCEPT !.units = op[a].units \ {Unit(a)}, !.pc = p]
<1>1. Moved(a, r)
  BY DroppedMoves DEF Shape
<1>2. r.conf = op[a].conf /\ r.pc # "fields"
  BY OpType DEF Shape, Op
<1> HIDE DEF r
<1> QED
  BY <1>1, <1>2, OldConf, ShapeByParts

LEMMA StoreShape ==
  ASSUME Shape, NEW a \in Actors, Store(a)
  PROVE  Shape'
<1>1. queue' \in Queue
  BY QueueType, SettledType DEF Store, Shape
<1>2. UNCHANGED <<conf, saves>> /\ TablesOK'
  BY <1>1 DEF Store, tracker, bounds, TablesOK, Shape, TypeOK
<1> QED
  BY <1>2, DroppedShape DEF Store

LEMMA SearchShape ==
  ASSUME Shape, NEW a \in Actors, Search(a)
  PROVE  Shape'
<1>1. cache' \subseteq Units
  BY OpType DEF Search, Shape, TypeOK
<1>2. UNCHANGED <<conf, saves>> /\ TablesOK'
  BY <1>1 DEF Search, tracker, bounds, TablesOK, Shape, TypeOK
<1> QED
  BY <1>2, GotoShape, PlacesOfCode DEF Search

\* What a step of a check does that leaves the queue, and only goes on or rests.
LEMMA QuietShape ==
  ASSUME Shape, NEW a \in Actors,
         Acquire(a) \/ LoseLock(a) \/ UseCached(a) \/ Block(a) \/ End(a) \/ Die(a)
  PROVE  Shape'
<1>1. CASE Acquire(a)
  <2>1. UNCHANGED <<conf, saves>> /\ TablesOK'
    BY <1>1 DEF Acquire, tracker, bounds, TablesOK, Shape, TypeOK
  <2>2. Goto(a, "version") \/ Rest(a)
    BY <1>1 DEF Acquire
  <2> QED
    BY <2>1, <2>2, GotoShape, RestShape, PlacesOfCode
<1>2. CASE LoseLock(a) \/ UseCached(a)
  <2>1. UNCHANGED <<conf, saves>> /\ TablesOK'
    BY <1>2 DEF LoseLock, UseCached, tracker, bounds, TablesOK, Shape, TypeOK
  <2>2. Goto(a, "end") \/ Goto(a, "store")
    BY <1>2 DEF LoseLock, UseCached
  <2> QED
    BY <2>1, <2>2, GotoShape, PlacesOfCode
<1>3. CASE Block(a)
  <2>1. \E b : Spent(b)
    BY <1>3 DEF Block
  <2>2. UNCHANGED <<conf, saves>> /\ TablesOK'
    BY <1>3, <2>1, SpentType DEF Block, tracker, TablesOK, Shape, TypeOK
  <2> QED
    BY <1>3, <2>2, DroppedShape DEF Block
<1>4. CASE End(a)
  <2>1. UNCHANGED <<conf, saves>> /\ TablesOK'
    BY <1>4 DEF End, tracker, bounds, TablesOK, Shape, TypeOK
  <2> QED
    BY <1>4, <2>1, RestShape DEF End
<1>5. CASE Die(a)
  <2>1. Spent(TRUE)
    BY <1>5 DEF Die
  <2>2. UNCHANGED <<conf, saves>> /\ TablesOK'
    BY <1>5, <2>1, SpentType DEF Die, tracker, TablesOK, Shape, TypeOK
  <2> QED
    BY <1>5, <2>2, RestShape DEF Die
<1> QED
  BY <1>1, <1>2, <1>3, <1>4, <1>5

LEMMA SaveShape ==
  ASSUME Shape, Save
  PROVE  Shape'
<1>1. PICK P \in SUBSET Pairs : Moved(User, [Idle EXCEPT !.pc = "fields", !.claimed = P])
  BY SaveMoves DEF Shape
<1> DEFINE r == [Idle EXCEPT !.pc = "fields", !.claimed = P]
<1>2. Moved(User, r) /\ r.conf = 0 /\ User \in Actors
  BY <1>1 DEF Idle, Actors
<1>3. /\ conf \in Nat /\ saves \in 0..MaxSaves /\ MaxSaves \in Nat
      /\ saves' = saves + 1 /\ saves < MaxSaves /\ conf' = conf /\ ~At(User, "fields")
  BY Limits DEF Save, Shape, TypeOK, tracker, At
<1> HIDE DEF r
<1>4. \A a \in Actors : op'[a].conf <= conf'
  BY <1>2, <1>3 DEF Moved, Shape, Numbered
<1>5. Numbered'
  BY <1>3, <1>4 DEF Numbered, Shape
<1>6. /\ UNCHANGED <<today, tracker, queue, cache, accidents>> /\ lock' = User
  BY DEF Save
<1>7. TablesOK'
  BY <1>2, <1>3, <1>6 DEF TablesOK, Shape, TypeOK, tracker
<1>8. op' \in [Actors -> Op]
  BY <1>2 DEF Moved
<1> QED
  BY <1>5, <1>7, <1>8 DEF Shape, TypeOK, TablesOK

LEMMA FieldsShape ==
  ASSUME Shape, SaveFields
  PROVE  Shape'
<1>1. PICK c \in {conf, conf + 1} :
        conf' = c /\ Moved(User, [op[User] EXCEPT !.pc = "rebuild", !.conf = c])
  BY FieldsMove DEF Shape
<1> DEFINE r == [op[User] EXCEPT !.pc = "rebuild", !.conf = c]
<1>2. User \in Actors
  BY DEF Actors
<1>3. Moved(User, r) /\ r.conf = c /\ r.pc = "rebuild"
  BY <1>1, <1>2, OpType DEF Shape, Op
<1>4. /\ conf \in Nat /\ saves \in 0..MaxSaves /\ MaxSaves \in Nat /\ conf + 1 <= saves
      /\ saves' = saves /\ At(User, "fields")
  BY Limits DEF SaveFields, Shape, TypeOK, Numbered, bounds
<1> HIDE DEF r
<1>5. \A a \in Actors : op'[a].conf <= conf'
  <2>1. \A a \in Actors : op[a].conf \in Nat /\ op[a].conf <= conf
    BY OpType DEF Shape, Numbered
  <2>2. c \in Nat /\ conf <= c
    BY <1>4
  <2>3. ASSUME NEW a \in Actors
        PROVE  op'[a].conf <= c
    <3>1. CASE a = User
      BY <1>3, <2>2, <3>1 DEF Moved
    <3>2. CASE a # User
      <4>1. op'[a] = op[a]
        BY <1>3, <3>2 DEF Moved
      <4> QED
        BY <1>4, <2>1, <2>2, <4>1
    <3> QED
      BY <3>1, <3>2
  <2> QED
    BY <1>1, <2>3
<1>6. ~At(User, "fields")'
  BY <1>3 DEF Moved, At
<1>7. Numbered' /\ conf' \in 0..MaxSaves
  BY <1>1, <1>4, <1>5, <1>6 DEF Numbered
<1>8. UNCHANGED <<today, latest, lap, queue, lock, bounds>> /\ over' = FALSE /\ cache' \in {cache, {}}
  BY DEF SaveFields
<1>9. TablesOK'
  BY <1>7, <1>8 DEF TablesOK, Shape, TypeOK, bounds
<1>10. op' \in [Actors -> Op]
  BY <1>3 DEF Moved
<1> QED
  BY <1>7, <1>9, <1>10 DEF Shape, TypeOK, TablesOK

LEMMA ReplacedType ==
  ASSUME TypeOK, NEW P \in SUBSET Pairs, NEW i \in Nat
  PROVE  Replaced(P, i) \in Queue
BY QueueType, BuiltType DEF Replaced

LEMMA RebuildShape ==
  ASSUME Shape, Rebuild
  PROVE  Shape'
<1> DEFINE r == [Idle EXCEPT !.pc = "end"]
<1>1. Moved(User, r) /\ r.conf = 0 /\ r.pc = "end" /\ User \in Actors
  BY RebuildMoves DEF Shape, Idle, Actors
<1>2. PICK i \in Nat : /\ latest' = [id |-> i, conf |-> op[User].conf]
                       /\ queue' = Replaced(op[User].claimed, i)
  BY DEF Rebuild, Shape, TypeOK
<1>3. queue' \in Queue
  BY <1>1, <1>2, OpType, ReplacedType DEF Shape
<1>4. latest' \in [id : Nat, conf : 0..MaxSaves]
  BY <1>1, <1>2, OldConf
<1>5. lap' \in 0..(Laps - 1)
  BY LapType DEF Rebuild, Shape, TypeOK
<1>6. UNCHANGED <<conf, saves>> /\ TablesOK'
  BY <1>3, <1>4, <1>5 DEF Rebuild, bounds, TablesOK, Shape, TypeOK
<1>7. r.conf <= conf /\ r.pc # "fields"
  BY <1>1, OldConf
<1> HIDE DEF r
<1> QED
  BY <1>1, <1>6, <1>7, ShapeByParts

LEMMA TimeShape ==
  ASSUME Shape, Expire \/ DayPasses
  PROVE  Shape'
<1>1. CASE Expire
  <2>1. \E b : Spent(b)
    BY <1>1 DEF Expire
  <2>2. TablesOK'
    BY <1>1, <2>1, SpentType DEF Expire, tracker, TablesOK, Shape, TypeOK
  <2> QED
    BY <1>1, <2>2 DEF Expire, tracker, Shape, TypeOK, TablesOK, Numbered, At
<1>2. CASE DayPasses
  <2>1. today' \in 0..LastDay
    BY <1>2, Limits DEF DayPasses, Shape, TypeOK
  <2> QED
    BY <1>2, <2>1 DEF DayPasses, tracker, bounds, Shape, TypeOK, Numbered, At
<1> QED
  BY <1>1, <1>2

LEMMA ShapeStep == Shape /\ [Next]_vars => Shape'
<1> SUFFICES ASSUME Shape, [Next]_vars
             PROVE  Shape'
  OBVIOUS
<1>1. ASSUME NEW a \in Actors, Step(a)
      PROVE  Shape'
  BY <1>1, QuietShape, VersionShape, SkipShape, ClaimShape, AdvanceShape, BumpShape, PlanShape,
     SearchShape, StoreShape DEF Step
<1>2. CASE UNCHANGED vars
  BY <1>2 DEF vars, tracker, bounds, Shape, TypeOK, Numbered, At
<1> QED
  BY <1>1, <1>2, ReadShape, QuietShape, SaveShape, FieldsShape, RebuildShape, TimeShape
     DEF Next, SaveStep

-----------------------------------------------------------------------------
(* The queue.                                                              *)

LEMMA BuiltPairs ==
  ASSUME NEW i, NEW b, NEW P
  PROVE  LET q == Built(i, b, P)
         IN q.pending = {u[1] : u \in q.markets} /\ q.pending \subseteq q.pairs
<1> DEFINE N == P \X (1..Markets)
<1>1. ASSUME NEW x \in P
      PROVE  x \in {u[1] : u \in N}
  <2>1. <<x, 1>> \in N /\ <<x, 1>>[1] = x
    BY Limits, <1>1
  <2> HIDE DEF N
  <2> QED
    BY <2>1
<1>2. P = {u[1] : u \in N}
  <2>1. \A u \in N : u[1] \in P
    OBVIOUS
  <2> HIDE DEF N
  <2> QED
    BY <1>1, <2>1
<1> QED
  BY <1>2 DEF Built

LEMMA PairsInit == Init => PairOfMarkets
<1> DEFINE P == IF Exact THEN {} ELSE Bookable(0)
<1> SUFFICES ASSUME queue = Built(1, 0, P)
             PROVE  PairOfMarkets
  BY DEF Init
<1> HIDE DEF P
<1> QED
  BY BuiltPairs DEF PairOfMarkets

LEMMA SkipPairs ==
  ASSUME Shape, PairOfMarkets, NEW a \in Actors, Skip(a)
  PROVE  PairOfMarkets'
<1> DEFINE F == Flown(a)
           M == {u \in queue.markets : u[1] \notin F}
<1>1. /\ queue'.pending = queue.pending \ F /\ queue'.markets = M /\ queue'.pairs = queue.pairs
  BY QueueType DEF Skip, Shape, Queue
<1>2. queue.pending \ F = {u[1] : u \in M}
  BY DEF PairOfMarkets
<1> HIDE DEF F, M
<1> QED
  BY <1>1, <1>2 DEF PairOfMarkets

LEMMA AdvancePairs ==
  ASSUME Shape, PairOfMarkets, NEW a \in Actors, Advance(a)
  PROVE  PairOfMarkets'
<1> DEFINE P == queue.pairs \cap Bookable(op[a].day)
           N == P \X (1..Markets)
<1>1. CASE queue' = queue
  BY <1>1 DEF PairOfMarkets
<1>2. CASE queue' = Reopened(queue, P, NextLap(op[a].lap))
  <2>1. /\ queue'.pending = queue.pending \cup P /\ queue'.markets = queue.markets \cup N
        /\ queue'.pairs = queue.pairs
    BY <1>2, QueueType DEF Reopened, Shape, Queue
  <2>2. \A x \in P : <<x, 1>> \in N
    BY Limits
  <2>3. queue.pending \cup P = {u[1] : u \in queue.markets \cup N}
    <3>1. queue.pending = {u[1] : u \in queue.markets}
      BY DEF PairOfMarkets
    <3>2. P = {u[1] : u \in N}
      <4>1. ASSUME NEW x \in P
            PROVE  x \in {u[1] : u \in N}
        <5>1. <<x, 1>> \in N /\ <<x, 1>>[1] = x
          BY <2>2, <4>1
        <5> HIDE DEF N
        <5> QED
          BY <5>1
      <4>2. \A u \in N : u[1] \in P
        OBVIOUS
      <4> HIDE DEF N
      <4> QED
        BY <4>1, <4>2
    <3> HIDE DEF P, N
    <3> QED
      BY <3>1, <3>2
  <2>4. P \subseteq queue.pairs
    OBVIOUS
  <2> HIDE DEF P, N
  <2> QED
    BY <2>1, <2>3, <2>4 DEF PairOfMarkets
<1> QED
  BY <1>1, <1>2 DEF Advance

LEMMA StorePairs ==
  ASSUME Shape, PairOfMarkets, NEW a \in Actors, Store(a)
  PROVE  PairOfMarkets'
<1> DEFINE u == Unit(a)
           M == queue.markets \ {u}
<1>1. CASE queue' = queue
  BY <1>1 DEF PairOfMarkets
<1>2. CASE queue' = Settled(queue, u)
  <2>1. /\ queue'.markets = M /\ queue'.pairs = queue.pairs
        /\ \/ (\E m \in 1..Markets : <<u[1], m>> \in M) /\ queue'.pending = queue.pending \cup {u[1]}
           \/ ~(\E m \in 1..Markets : <<u[1], m>> \in M) /\ queue'.pending = queue.pending \ {u[1]}
    BY <1>2, QueueType DEF Settled, Shape, Queue
  <2>2. \A v \in queue.markets : v[2] \in 1..Markets /\ v = <<v[1], v[2]>>
    BY QueueType DEF Shape, Units
  <2> HIDE DEF u
  <2>3. queue.pending = {v[1] : v \in queue.markets} /\ queue.pending \subseteq queue.pairs
    BY DEF PairOfMarkets
  <2>4. ASSUME NEW m \in 1..Markets, <<u[1], m>> \in M
        PROVE  {v[1] : v \in M} = queue.pending /\ u[1] \in queue.pending
    <3>1. u[1] \in queue.pending /\ u[1] \in {v[1] : v \in M}
      BY <2>3, <2>4
    <3>2. \A v \in queue.markets : v[1] \in {w[1] : w \in M}
      BY <3>1
    <3> QED
      BY <2>3, <3>1, <3>2
  <2>5. ASSUME ~(\E m \in 1..Markets : <<u[1], m>> \in M)
        PROVE  {v[1] : v \in M} = queue.pending \ {u[1]}
    <3>1. \A v \in M : v[1] # u[1]
      BY <2>2, <2>5
    <3> QED
      BY <2>3, <3>1
  <2> HIDE DEF M
  <2> QED
    BY <2>1, <2>3, <2>4, <2>5 DEF PairOfMarkets
<1> QED
  BY <1>1, <1>2 DEF Store

LEMMA RebuildPairs ==
  ASSUME PairOfMarkets, Rebuild
  PROVE  PairOfMarkets'
<1>1. PICK P, i : queue' = Replaced(P, i)
  BY DEF Rebuild
<1> QED
  BY <1>1, BuiltPairs DEF Replaced, PairOfMarkets

LEMMA OthersLeaveQueue ==
  ASSUME [Next]_vars
  PROVE  \/ UNCHANGED queue
         \/ \E a \in Actors : Skip(a) \/ Advance(a) \/ Store(a)
         \/ Rebuild
<1>1. ASSUME NEW a \in Actors, Read(a) \/ Die(a)
      PROVE  UNCHANGED queue
  BY <1>1 DEF Read, Die
<1>2. ASSUME NEW a \in Actors, Step(a)
      PROVE  UNCHANGED queue \/ Skip(a) \/ Advance(a) \/ Store(a)
  <2>1. CASE Acquire(a) \/ Version(a) \/ Claim(a) \/ Bump(a) \/ Plan(a)
    BY <2>1 DEF Acquire, Version, Claim, Bump, Plan
  <2>2. CASE LoseLock(a) \/ UseCached(a) \/ Block(a) \/ Search(a) \/ End(a)
    BY <2>2 DEF LoseLock, UseCached, Block, Search, End
  <2> QED
    BY <1>2, <2>1, <2>2 DEF Step
<1>3. Save \/ SaveFields \/ Expire \/ DayPasses => UNCHANGED queue
  BY DEF Save, SaveFields, Expire, DayPasses
<1>4. UNCHANGED vars => UNCHANGED queue
  BY DEF vars
<1> QED
  BY <1>1, <1>2, <1>3, <1>4 DEF Next, SaveStep

LEMMA PairsStep == Shape /\ PairOfMarkets /\ [Next]_vars => PairOfMarkets'
<1> SUFFICES ASSUME Shape, PairOfMarkets, [Next]_vars
             PROVE  PairOfMarkets'
  OBVIOUS
<1>1. CASE UNCHANGED queue
  BY <1>1 DEF PairOfMarkets
<1> QED
  BY <1>1, OthersLeaveQueue, SkipPairs, AdvancePairs, StorePairs, RebuildPairs

\* The tables are always well formed, and a date pair is pending exactly as long as
\* one of its markets is: for any overlap of checks and edits, deaths and lost
\* locks (trackers, tracker_config_versions and flexible_date_candidates of db/repo.ts).
THEOREM PairsFollowMarkets == Spec => [](TypeOK /\ PairOfMarkets)
<1>1. Shape /\ PairOfMarkets /\ [Next]_vars => (Shape /\ PairOfMarkets)'
  BY ShapeStep, PairsStep
<1>2. Shape /\ PairOfMarkets => TypeOK /\ PairOfMarkets
  BY DEF Shape
<1> QED
  BY <1>1, <1>2, ShapeInit, PairsInit, PTL DEF Spec

-----------------------------------------------------------------------------
(* What a check works on, when one is at work at a time.                   *)

Solo == \A a, b \in Actors : a # b => At(a, "idle") \/ At(b, "idle")

\* Until it plans, the cycle a check goes by is the tracker's; what is pending of its
\* version can be booked once it skipped the rest, and nothing is pending of a cycle
\* it is about to end.  What it then has to search is in the queue.
Aware(a) == op[a].pc \in {"lock", "version", "skip", "claim", "advance", "bump"} => op[a].lap = lap
InSight(a) ==
    op[a].pc \in {"claim", "advance", "bump"} /\ queue.id = op[a].id
    => queue.pending \subseteq Bookable(op[a].day)
Exhausted(a) ==
    op[a].pc = "advance" /\ queue.id = op[a].id
    => \A p \in queue.pending : queue.lap[p] # op[a].lap
Chosen(a) == ~Exact /\ op[a].pc = "plan" => op[a].claimed \subseteq Bookable(op[a].day)
Ahead(a) ==
    ~Exact /\ op[a].pc \in {"unit", "store"}
    => op[a].units # {} /\ op[a].units \subseteq queue.markets

OnCourse(a) == Aware(a) /\ InSight(a) /\ Exhausted(a) /\ Chosen(a) /\ Ahead(a)

Course == Solo /\ \A a \in Actors : OnCourse(a)

LEMMA RestingIsOnCourse ==
  ASSUME NEW a
  PROVE  (op'[a].pc \in {"idle", "fields", "rebuild", "end"}) => OnCourse(a)'
BY DEF OnCourse, Aware, InSight, Exhausted, Chosen, Ahead

\* The others are idle while one goes on.
LEMMA CourseOfOne ==
  ASSUME Course, NEW a \in Actors, NEW r, Moved(a, r), OnCourse(a)',
         ~At(a, "idle") \/ \A b \in Actors : At(b, "idle")
  PROVE  Course'
<1>1. \A b \in Actors \ {a} : op'[b].pc = "idle"
  BY DEF Course, Solo, At, Moved
<1>2. \A b \in Actors : OnCourse(b)'
  BY <1>1, RestingIsOnCourse
<1>3. Solo'
  BY <1>1 DEF Solo, At
<1> QED
  BY <1>2, <1>3 DEF Course

LEMMA CourseInit == Init => Course
BY DEF Init, Idle, Course, Solo, At, OnCourse, Aware, InSight, Exhausted, Chosen, Ahead

LEMMA CourseRests ==
  ASSUME Course, NEW a \in Actors, NEW r, Moved(a, r),
         r.pc \in {"idle", "fields", "rebuild", "end"},
         ~At(a, "idle") \/ \A b \in Actors : At(b, "idle")
  PROVE  Course'
<1>1. OnCourse(a)'
  BY RestingIsOnCourse DEF Moved
<1> QED
  BY <1>1, CourseOfOne

LEMMA ReadCourse ==
  ASSUME Shape, Course, ~Overlap, NEW a \in Actors, Read(a)
  PROVE  Course'
<1> DEFINE r == [Idle EXCEPT !.pc = "lock", !.conf = conf, !.lap = lap]
<1>1. Moved(a, r) /\ r.pc = "lock" /\ r.lap = lap
  BY ReadMoves DEF Shape, Idle
<1>2. lap' = lap /\ \A b \in Actors : At(b, "idle")
  BY DEF Read, tracker, MayBegin
<1> HIDE DEF r
<1>3. OnCourse(a)'
  BY <1>1, <1>2 DEF Moved, OnCourse, Aware, InSight, Exhausted, Chosen, Ahead
<1> QED
  BY <1>1, <1>2, <1>3, CourseOfOne

LEMMA AcquireCourse ==
  ASSUME Shape, Course, NEW a \in Actors, Acquire(a)
  PROVE  Course'
<1>1. At(a, "lock") /\ ~At(a, "idle") /\ lap' = lap
  BY DEF Acquire, At, tracker
<1>2. CASE Rest(a)
  BY <1>1, <1>2, RestMoves, CourseRests DEF Shape, Idle
<1>3. CASE Goto(a, "version")
  <2> DEFINE r == [op[a] EXCEPT !.pc = "version"]
  <2>1. Moved(a, r) /\ r.pc = "version" /\ r.lap = op[a].lap
    BY <1>3, GotoMoves, OpType, PlacesOfCode DEF Shape, Op
  <2> HIDE DEF r
  <2>2. op[a].lap = lap
    BY <1>1 DEF Course, OnCourse, Aware, At
  <2>3. OnCourse(a)'
    BY <1>1, <2>1, <2>2 DEF Moved, OnCourse, Aware, InSight, Exhausted, Chosen, Ahead
  <2> QED
    BY <1>1, <2>1, <2>3, CourseOfOne
<1> QED
  BY <1>2, <1>3 DEF Acquire

LEMMA VersionCourse ==
  ASSUME Shape, Course, NEW a \in Actors, Version(a)
  PROVE  Course'
<1>1. At(a, "version") /\ ~At(a, "idle") /\ lap' = lap
  BY DEF Version, At
<1>2. PICK i \in Nat, p \in {"end", "plan", "skip"} :
        /\ p = "plan" => Exact
        /\ Moved(a, [op[a] EXCEPT !.id = i, !.pc = p])
  BY VersionMoves DEF Shape
<1> DEFINE r == [op[a] EXCEPT !.id = i, !.pc = p]
<1>3. Moved(a, r) /\ r.pc = p /\ r.lap = op[a].lap
  BY <1>2, OpType DEF Shape, Op
<1> HIDE DEF r
<1>4. op[a].lap = lap
  BY <1>1 DEF Course, OnCourse, Aware, At
<1>5. OnCourse(a)'
  BY <1>1, <1>2, <1>3, <1>4 DEF Moved, OnCourse, Aware, InSight, Exhausted, Chosen, Ahead
<1> QED
  BY <1>1, <1>3, <1>5, CourseOfOne

LEMMA SkipCourse ==
  ASSUME Shape, Course, NEW a \in Actors, Skip(a)
  PROVE  Course'
<1>1. At(a, "skip") /\ ~At(a, "idle") /\ lap' = lap
  BY DEF Skip, At, tracker
<1> DEFINE r == [op[a] EXCEPT !.pc = "claim", !.day = today]
<1>2. Moved(a, r) /\ r.pc = "claim" /\ r.lap = op[a].lap /\ r.id = op[a].id /\ r.day = today
  BY SkipMoves, OpType DEF Shape, Op
<1> HIDE DEF r
<1>3. op[a].lap = lap
  BY <1>1 DEF Course, OnCourse, Aware, At
<1>4. queue'.id = queue.id /\ queue'.pending = queue.pending \ Flown(a)
  BY QueueType DEF Skip, Shape, Queue
<1>5. queue.id = op[a].id => queue'.pending \subseteq Bookable(today)
  BY <1>4, QueueType DEF Flown, Shape
<1>6. OnCourse(a)'
  BY <1>1, <1>2, <1>3, <1>4, <1>5
     DEF Moved, OnCourse, Aware, InSight, Exhausted, Chosen, Ahead, Bookable
<1> QED
  BY <1>1, <1>2, <1>6, CourseOfOne

LEMMA ClaimCourse ==
  ASSUME Shape, Course, NEW a \in Actors, Claim(a)
  PROVE  Course'
<1> DEFINE C == Claimed(a, op[a].lap)
           p == IF C = {} THEN "advance" ELSE "plan"
           r == [op[a] EXCEPT !.claimed = C, !.build = queue.build, !.pc = p]
<1>1. At(a, "claim") /\ ~At(a, "idle") /\ lap' = lap /\ queue' = queue
  BY DEF Claim, At, tracker
<1>2. Moved(a, r)
  BY ClaimMoves DEF Shape
<1>3. r.pc = p /\ r.lap = op[a].lap /\ r.id = op[a].id /\ r.day = op[a].day /\ r.claimed = C
  BY OpType DEF Shape, Op
<1>4. /\ op[a].lap = lap
      /\ queue.id = op[a].id => queue.pending \subseteq Bookable(op[a].day)
  BY <1>1 DEF Course, OnCourse, Aware, InSight, At
<1>5. C # {} => queue.id = op[a].id /\ C \subseteq queue.pending
  BY ClaimedType DEF Shape
<1>6. C = {} /\ queue.id = op[a].id => \A d \in queue.pending : queue.lap[d] # op[a].lap
  BY NoneDue DEF Shape
<1> HIDE DEF C, r
<1>7. OnCourse(a)'
  BY <1>1, <1>2, <1>3, <1>4, <1>5, <1>6
     DEF Moved, OnCourse, Aware, InSight, Exhausted, Chosen, Ahead, Bookable
<1> QED
  BY <1>1, <1>2, <1>7, CourseOfOne

LEMMA AdvanceCourse ==
  ASSUME Shape, Course, NEW a \in Actors, Advance(a)
  PROVE  Course'
<1> DEFINE P == queue.pairs \cap Bookable(op[a].day)
           r == [op[a] EXCEPT !.pc = "bump"]
<1>1. At(a, "advance") /\ ~At(a, "idle") /\ lap' = lap
  BY DEF Advance, At, tracker
<1>2. Moved(a, r) /\ r.pc = "bump" /\ r.lap = op[a].lap /\ r.id = op[a].id /\ r.day = op[a].day
  BY GotoMoves, OpType, PlacesOfCode DEF Advance, Shape, Op
<1>3. /\ op[a].lap = lap
      /\ queue.id = op[a].id => queue.pending \subseteq Bookable(op[a].day)
  BY <1>1 DEF Course, OnCourse, Aware, InSight, At
<1>4. queue'.id = queue.id /\ queue'.pending \subseteq queue.pending \cup P
  BY QueueType DEF Advance, Reopened, Shape, Queue
<1>5. queue'.id = op[a].id => queue'.pending \subseteq Bookable(op[a].day)
  BY <1>3, <1>4
<1> HIDE DEF r
<1>6. OnCourse(a)'
  BY <1>1, <1>2, <1>3, <1>5
     DEF Moved, OnCourse, Aware, InSight, Exhausted, Chosen, Ahead, Bookable
<1> QED
  BY <1>1, <1>2, <1>6, CourseOfOne

LEMMA BumpCourse ==
  ASSUME Shape, Course, NEW a \in Actors, Bump(a)
  PROVE  Course'
<1> DEFINE C == Claimed(a, NextLap(op[a].lap))
           r == [op[a] EXCEPT !.pc = "plan", !.lap = NextLap(op[a].lap), !.build = queue.build,
                              !.claimed = C]
<1>1. At(a, "bump") /\ ~At(a, "idle") /\ queue' = queue
  BY DEF Bump, At
<1>2. Moved(a, r)
  BY BumpMoves DEF Shape
<1>3. r.pc = "plan" /\ r.day = op[a].day /\ r.claimed = C
  BY OpType DEF Shape, Op
<1>4. queue.id = op[a].id => queue.pending \subseteq Bookable(op[a].day)
  BY <1>1 DEF Course, OnCourse, InSight, At
<1>5. C # {} => queue.id = op[a].id /\ C \subseteq queue.pending
  BY ClaimedType DEF Shape
<1> HIDE DEF C, r
<1>6. OnCourse(a)'
  BY <1>1, <1>2, <1>3, <1>4, <1>5
     DEF Moved, OnCourse, Aware, InSight, Exhausted, Chosen, Ahead, Bookable
<1> QED
  BY <1>1, <1>2, <1>6, CourseOfOne

LEMMA PlanCourse ==
  ASSUME Shape, Course, NEW a \in Actors, Plan(a)
  PROVE  Course'
<1>1. At(a, "plan") /\ ~At(a, "idle") /\ queue' = queue
  BY DEF Plan, At
<1>2. PICK U \in SUBSET Units, H \in SUBSET Units, G \in SUBSET Units :
        LET p == IF U = {} THEN "end" ELSE "unit"
        IN /\ U \subseteq Work(a)
           /\ Moved(a, [op[a] EXCEPT !.pc = p, !.units = U, !.hits = H, !.allowed = G,
                                     !.claimed = {}, !.id = 0, !.day = 0])
  BY PlanMoves DEF Shape
<1> DEFINE p == IF U = {} THEN "end" ELSE "unit"
           r == [op[a] EXCEPT !.pc = p, !.units = U, !.hits = H, !.allowed = G,
                              !.claimed = {}, !.id = 0, !.day = 0]
<1>3. Moved(a, r)
  BY <1>2
<1>4. r.pc = p /\ r.units = U
  BY OpType DEF Shape, Op
<1>5. ~Exact => U \subseteq queue.markets
  BY <1>2, WorkType DEF Shape
<1> HIDE DEF r
<1>6. OnCourse(a)'
  BY <1>1, <1>3, <1>4, <1>5 DEF Moved, OnCourse, Aware, InSight, Exhausted, Chosen, Ahead
<1> QED
  BY <1>1, <1>3, <1>6, CourseOfOne

\* One search is done with, and at most that one leaves the queue.
LEMMA DroppedCourse ==
  ASSUME Shape, Course, NEW a \in Actors, Dropped(a), op[a].pc \in {"unit", "store"},
         queue.markets \ {Unit(a)} \subseteq queue'.markets
  PROVE  Course'
<1> DEFINE u == Unit(a)
           p == IF op[a].units = {u} THEN "end" ELSE "unit"
           r == [op[a] EXCEPT !.units = op[a].units \ {u}, !.pc = p]
<1>1. Moved(a, r) /\ ~At(a, "idle")
  BY DroppedMoves DEF Shape, At
<1>2. r.pc = p /\ r.units = op[a].units \ {u}
  BY OpType DEF Shape, Op
<1>3. ~Exact => op[a].units # {} /\ op[a].units \subseteq queue.markets
  BY DEF Course, OnCourse, Ahead
<1> HIDE DEF r, u
<1>4. p = "unit" /\ op[a].units # {} => op[a].units \ {u} # {}
  OBVIOUS
<1>5. ~Exact => op[a].units \ {u} \subseteq queue'.markets
  BY <1>3 DEF u
<1>6. OnCourse(a)'
  BY <1>1, <1>2, <1>3, <1>4, <1>5 DEF Moved, OnCourse, Aware, InSight, Exhausted, Chosen, Ahead
<1> QED
  BY <1>1, <1>6, CourseOfOne

LEMMA StoreCourse ==
  ASSUME Shape, Course, NEW a \in Actors, Store(a)
  PROVE  Course'
<1>1. queue.markets \ {Unit(a)} \subseteq queue'.markets
  BY QueueType DEF Store, Settled, Shape, Queue
<1> QED
  BY <1>1, DroppedCourse DEF Store, At

\* What goes on to a search, or to the end, or gives up.
LEMMA QuietCourse ==
  ASSUME Shape, Course, NEW a \in Actors,
         LoseLock(a) \/ UseCached(a) \/ Block(a) \/ Search(a) \/ End(a) \/ Die(a)
  PROVE  Course'
<1>1. queue' = queue /\ ~At(a, "idle")
  BY DEF LoseLock, UseCached, Block, Search, End, Die, MayGoOn, At
<1>2. CASE LoseLock(a)
  <2>1. Moved(a, [op[a] EXCEPT !.pc = "end"])
    BY <1>2, GotoMoves, PlacesOfCode DEF LoseLock, Shape
  <2>2. [op[a] EXCEPT !.pc = "end"].pc = "end"
    BY OpType DEF Shape, Op
  <2> QED
    BY <1>1, <2>1, <2>2, CourseRests
<1>3. CASE UseCached(a) \/ Search(a)
  <2> DEFINE r == [op[a] EXCEPT !.pc = "store"]
  <2>1. Moved(a, r) /\ r.pc = "store" /\ r.units = op[a].units
    BY <1>3, GotoMoves, OpType, PlacesOfCode DEF UseCached, Search, Shape, Op
  <2> HIDE DEF r
  <2>2. ~Exact => op[a].units # {} /\ op[a].units \subseteq queue.markets
    BY <1>3 DEF UseCached, Search, MayGoOn, At, Course, OnCourse, Ahead
  <2>3. OnCourse(a)'
    BY <1>1, <2>1, <2>2 DEF Moved, OnCourse, Aware, InSight, Exhausted, Chosen, Ahead
  <2> QED
    BY <1>1, <2>1, <2>3, CourseOfOne
<1>4. CASE Block(a)
  BY <1>1, <1>4, DroppedCourse DEF Block, MayGoOn, At
<1>5. CASE End(a) \/ Die(a)
  <2>1. Moved(a, Idle) /\ Idle.pc = "idle"
    BY <1>5, RestMoves DEF End, Die, Shape, Idle
  <2> QED
    BY <1>1, <2>1, CourseRests
<1> QED
  BY <1>2, <1>3, <1>4, <1>5

LEMMA EditCourse ==
  ASSUME Shape, Course, ~Overlap, Save \/ SaveFields \/ Rebuild
  PROVE  Course'
<1>1. User \in Actors
  BY DEF Actors
<1>2. CASE Save
  <2>1. PICK P \in SUBSET Pairs : Moved(User, [Idle EXCEPT !.pc = "fields", !.claimed = P])
    BY <1>2, SaveMoves DEF Shape
  <2>2. [Idle EXCEPT !.pc = "fields", !.claimed = P].pc = "fields"
    BY DEF Idle
  <2>3. \A b \in Actors : At(b, "idle")
    BY <1>2 DEF Save, MayBegin
  <2> QED
    BY <1>1, <2>1, <2>2, <2>3, CourseRests
<1>3. CASE SaveFields
  <2>1. PICK c \in {conf, conf + 1} : Moved(User, [op[User] EXCEPT !.pc = "rebuild", !.conf = c])
    BY <1>3, FieldsMove DEF Shape
  <2>2. [op[User] EXCEPT !.pc = "rebuild", !.conf = c].pc = "rebuild"
    BY <1>1, OpType DEF Shape, Op
  <2>3. ~At(User, "idle")
    BY <1>3 DEF SaveFields, At
  <2> QED
    BY <1>1, <2>1, <2>2, <2>3, CourseRests
<1>4. CASE Rebuild
  <2>1. Moved(User, [Idle EXCEPT !.pc = "end"]) /\ [Idle EXCEPT !.pc = "end"].pc = "end"
    BY <1>4, RebuildMoves DEF Shape, Idle
  <2>2. ~At(User, "idle")
    BY <1>4 DEF Rebuild, At
  <2> QED
    BY <1>1, <2>1, <2>2, CourseRests
<1> QED
  BY <1>2, <1>3, <1>4

LEMMA CourseStep ==
  ASSUME ~Overlap
  PROVE  Shape /\ Course /\ [Next]_vars => Course'
<1> SUFFICES ASSUME Shape, Course, [Next]_vars
             PROVE  Course'
  OBVIOUS
<1>1. ASSUME NEW a \in Actors, Step(a)
      PROVE  Course'
  BY <1>1, AcquireCourse, VersionCourse, SkipCourse, ClaimCourse, AdvanceCourse, BumpCourse,
     PlanCourse, StoreCourse, QuietCourse DEF Step
<1>2. CASE UNCHANGED vars \/ Expire \/ DayPasses
  <2>1. UNCHANGED <<op, queue, lap>>
    BY <1>2 DEF vars, tracker, Expire, DayPasses
  <2> QED
    BY <2>1 DEF Course, Solo, At, OnCourse, Aware, InSight, Exhausted, Chosen, Ahead, Bookable
<1> QED
  BY <1>1, <1>2, ReadCourse, QuietCourse, EditCourse DEF Next, SaveStep

SweepInv == Shape /\ PairOfMarkets /\ Course

LEMMA SweepStep ==
  ASSUME ~Overlap
  PROVE  /\ Init => SweepInv
         /\ SweepInv /\ [Next]_vars => SweepInv'
BY ShapeInit, PairsInit, CourseInit, ShapeStep, PairsStep, CourseStep DEF SweepInv

\* What a check searches is still to be searched, and had not departed when the check
\* looked (planUnits, claimCandidates and pendingCandidateMarkets): whatever the
\* window, the budget and the edits, as long as nobody reads the tracker while
\* another is at work.
THEOREM OnlyDueIsSearched ==
  ASSUME ~Overlap
  PROVE  Spec => []QueueInv
<1>1. SweepInv => QueueInv
  <2> SUFFICES ASSUME SweepInv
               PROVE  QueueInv
    OBVIOUS
  <2>1. ASSUME NEW a \in Actors, ~Exact, At(a, "unit")
        PROVE  Unit(a) \in queue.markets
    <3>1. op[a].units # {} /\ op[a].units \subseteq queue.markets
      BY <2>1 DEF SweepInv, Course, OnCourse, Ahead, At
    <3> QED
      BY <3>1, OpType, UnitAtHand DEF SweepInv, Shape
  <2>2. SearchesDue
    BY <2>1 DEF SearchesDue, SweepInv, Course, OnCourse, Chosen, At
  <2> QED
    BY <2>2 DEF QueueInv, SweepInv, Shape
<1>2. Init => SweepInv
  BY SweepStep
<1>3. SweepInv /\ [Next]_vars => SweepInv'
  BY SweepStep
<1> QED
  BY <1>1, <1>2, <1>3, PTL DEF Spec

\* No cycle is cut short: a pair enters the next one only when no market of it is
\* left in this one (claimCandidates and startNextCycle), on the same terms.
THEOREM CyclesAreWhole ==
  ASSUME ~Overlap
  PROVE  Spec => WholeCycles
<1> DEFINE Whole == \A p \in Pairs :
                      /\ queue'.build = queue.build
                      /\ queue.lap[p] = lap /\ queue'.lap[p] # lap
                      => \A m \in 1..Markets : <<p, m>> \notin queue.markets
<1>1. SweepInv /\ [Next]_vars => [Whole]_vars
  <2> SUFFICES ASSUME SweepInv, [Next]_vars,
                      NEW p \in Pairs, queue'.build = queue.build,
                      queue.lap[p] = lap, queue'.lap[p] # lap
               PROVE  \A m \in 1..Markets : <<p, m>> \notin queue.markets
    OBVIOUS
  <2>1. PICK a \in Actors : Advance(a) /\ queue.id = op[a].id
    <3>1. UNCHANGED queue => FALSE
      OBVIOUS
    <3>2. ASSUME NEW a \in Actors, Skip(a) \/ Store(a)
          PROVE  FALSE
      BY <3>2, QueueType DEF Skip, Store, Settled, SweepInv, Shape, Queue
    <3>3. Rebuild => FALSE
      <4> SUFFICES ASSUME Rebuild
                   PROVE  FALSE
        OBVIOUS
      <4>1. PICK P, i : queue' = Replaced(P, i)
        BY DEF Rebuild
      <4>2. queue.build + 1 # queue.build
        BY QueueType DEF SweepInv, Shape
      <4> QED
        BY <3>1, <4>1, <4>2 DEF Replaced, Built
    <3> QED
      BY <3>1, <3>2, <3>3, OthersLeaveQueue DEF Advance
  <2>2. op[a].lap = lap /\ \A d \in queue.pending : queue.lap[d] # op[a].lap
    BY <2>1 DEF Advance, At, SweepInv, Course, OnCourse, Aware, Exhausted
  <2>3. p \notin queue.pending
    BY <2>2
  <2>4. ASSUME NEW m \in 1..Markets, <<p, m>> \in queue.markets
        PROVE  p \in queue.pending
    BY <2>4 DEF SweepInv, PairOfMarkets
  <2> QED
    BY <2>3, <2>4
<1>2. Init => SweepInv
  BY SweepStep
<1>3. SweepInv /\ [Next]_vars => SweepInv'
  BY SweepStep
<1> QED
  BY <1>1, <1>2, <1>3, PTL DEF Spec, WholeCycles
=============================================================================
