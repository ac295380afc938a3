------------------------- MODULE TrackerCheckProofs -------------------------
(***************************************************************************)
(* Proofs about TrackerCheck: what holds however many checks and requests  *)
(* overlap and wherever they die, and what holds when one invocation runs  *)
(* at a time.                                                              *)
(***************************************************************************)
EXTENDS TrackerCheck, TLAPS

-----------------------------------------------------------------------------
(* Types.                                                                  *)

OwnType ==
    /\ op \in [Actors -> Ops \cup {"tick", "none"}] /\ pc \in [Actors -> PCs]
    /\ mem \in [Actors -> Row] /\ want \in [Actors -> Confs] /\ latest \in [Actors -> Nat]
    /\ found \in [Actors -> Outcomes \cup {"none"}] /\ best \in [Actors -> Nat]

LEMMA Types ==
  ASSUME TypeOK
  PROVE  /\ OwnType /\ row \in Row /\ versions \in Seq(Confs)
         /\ seen \in Seq([cv : Nat, conf : Confs, fare : Fares])
         /\ FailureLimit \in Nat \ {0} /\ MaxCrashes \in Nat /\ MaxAsks \in Nat /\ Null \notin Nat
         /\ Null \notin Actors /\ Fares \subseteq Nat
BY ActorsAssumption, AsksAssumption, SearchAssumption DEF TypeOK, OwnType

LEMMA PlacesOfCode ==
  /\ "idle" \in PCs /\ "lock" \in PCs /\ "reread" \in PCs /\ "write" \in PCs /\ "fresh" \in PCs
  /\ "latest" \in PCs /\ "version" \in PCs /\ "search" \in PCs /\ "finalize" \in PCs
  /\ "park" \in PCs /\ "announce" \in PCs /\ "schedule" \in PCs /\ "release" \in PCs
BY DEF PCs

LEMMA RowFields ==
  ASSUME NEW w \in Row
  PROVE  /\ w.status \in Statuses /\ w.conf \in Confs /\ w.cv \in Nat /\ w.latest \in Nat
         /\ w.low \in Nat /\ w.lowFare \in Nat \cup {Null} /\ w.failures \in 0..FailureLimit
         /\ w.due \in BOOLEAN
BY DEF Row

LEMMA BlankType ==
  ASSUME TypeOK
  PROVE  Blank \in Row /\ Blank.conf \in Confs
<1>1. Confs # {} /\ 0 \in 0..FailureLimit /\ "active" \in Statuses
  BY Types, RowFields DEF Statuses
<1>2. (CHOOSE k \in Confs : TRUE) \in Confs
  BY <1>1
<1> QED
  BY <1>1, <1>2 DEF Blank, NewRow, Row

\* The edits of a row, one by one.
LEMMA RowEdits ==
  ASSUME NEW w \in Row, FailureLimit \in Nat
  PROVE  /\ \A s \in Statuses, n \in 0..FailureLimit :
              [w EXCEPT !.status = s, !.due = TRUE, !.failures = n] \in Row
         /\ \A s \in Statuses, k \in Confs : [w EXCEPT !.status = s, !.conf = k] \in Row
         /\ \A v \in Nat : [w EXCEPT !.cv = v] \in Row
         /\ \A v \in Nat : [NewSeries(w) EXCEPT !.cv = v] \in Row
         /\ \A v \in Nat : [InMemory(w) EXCEPT !.cv = v] \in Row
         /\ \A s \in Statuses : [w EXCEPT !.status = s, !.due = TRUE] \in Row
         /\ \A s \in Statuses : [w EXCEPT !.status = s] \in Row
         /\ \A n \in 0..FailureLimit : [w EXCEPT !.failures = n] \in Row
         /\ [w EXCEPT !.due = TRUE] \in Row /\ [w EXCEPT !.due = FALSE] \in Row
         /\ \A b, l \in Nat, f \in Nat \cup {Null}, s \in Statuses :
              [w EXCEPT !.latest = b, !.low = l, !.lowFare = f, !.failures = 0, !.status = s]
                \in Row
<1>1. NewSeries(w) \in Row /\ InMemory(w) \in Row
  BY DEF Row, NewSeries, InMemory
<1>2. ASSUME NEW x \in Row
      PROVE  \A v \in Nat : [x EXCEPT !.cv = v] \in Row
  BY DEF Row
<1>3. /\ \A v \in Nat : [NewSeries(w) EXCEPT !.cv = v] \in Row
      /\ \A v \in Nat : [InMemory(w) EXCEPT !.cv = v] \in Row
  BY <1>1, <1>2
<1>4. \A s \in Statuses, n \in 0..FailureLimit :
        [w EXCEPT !.status = s, !.due = TRUE, !.failures = n] \in Row
  BY DEF Row
<1>5. /\ \A s \in Statuses, k \in Confs : [w EXCEPT !.status = s, !.conf = k] \in Row
      /\ \A s \in Statuses : [w EXCEPT !.status = s, !.due = TRUE] \in Row
      /\ \A s \in Statuses : [w EXCEPT !.status = s] \in Row
      /\ \A n \in 0..FailureLimit : [w EXCEPT !.failures = n] \in Row
  BY DEF Row
<1>6. [w EXCEPT !.due = TRUE] \in Row /\ [w EXCEPT !.due = FALSE] \in Row
  BY DEF Row
<1>7. \A b, l \in Nat, f \in Nat \cup {Null}, s \in Statuses :
        [w EXCEPT !.latest = b, !.low = l, !.lowFare = f, !.failures = 0, !.status = s] \in Row
  <2>1. ASSUME NEW x \in Row, NEW b \in Nat, NEW l \in Nat
        PROVE  [x EXCEPT !.latest = b, !.low = l] \in Row
    BY <2>1 DEF Row
  <2>2. ASSUME NEW x \in Row, NEW f \in Nat \cup {Null}
        PROVE  [x EXCEPT !.lowFare = f] \in Row
    BY <2>2 DEF Row
  <2>3. ASSUME NEW x \in Row, NEW s \in Statuses
        PROVE  [x EXCEPT !.failures = 0, !.status = s] \in Row
    <3>1. 0 \in 0..FailureLimit
      OBVIOUS
    <3> QED
      BY <2>3, <3>1 DEF Row
  <2>4. ASSUME NEW b, NEW l, NEW f, NEW s
        PROVE  [w EXCEPT !.latest = b, !.low = l, !.lowFare = f, !.failures = 0, !.status = s]
                 = [[[w EXCEPT !.latest = b, !.low = l] EXCEPT !.lowFare = f]
                      EXCEPT !.failures = 0, !.status = s]
    BY DEF Row
  <2> QED
    BY <2>1, <2>2, <2>3, <2>4
<1> QED
  BY <1>2, <1>3, <1>4, <1>5, <1>6, <1>7

-----------------------------------------------------------------------------
(* What each step does to the actors.                                      *)

\* A step of one actor leaves the others alone.
Aside(a) == \A b \in Actors \ {a} :
    /\ op'[b] = op[b] /\ pc'[b] = pc[b] /\ mem'[b] = mem[b] /\ latest'[b] = latest[b]
    /\ found'[b] = found[b] /\ best'[b] = best[b]
Turns(a, p) == OwnType' /\ Aside(a) /\ pc'[a] = p

LEMMA GoLeads ==
  ASSUME TypeOK, NEW a \in Actors, NEW p \in PCs, Go(a, p),
         UNCHANGED <<op, mem, want, latest, found, best>>
  PROVE  Turns(a, p)
BY Types DEF Go, Turns, Aside, OwnType

LEMMA ReadLeads ==
  ASSUME TypeOK, NEW a \in Actors, NEW p \in PCs, Go(a, p), Read(a),
         UNCHANGED <<op, want, latest, found, best>>
  PROVE  Turns(a, p) /\ mem'[a] = row
BY Types DEF Go, Read, Turns, Aside, OwnType

LEMMA EndLeads ==
  ASSUME TypeOK, NEW a \in Actors, End(a)
  PROVE  Turns(a, "idle")
<1>1. /\ "none" \in Ops \cup {"tick", "none"} /\ "none" \in Outcomes \cup {"none"} /\ 0 \in Nat
      /\ Blank \in Row /\ Blank.conf \in Confs /\ "idle" \in PCs
  BY BlankType, PlacesOfCode
<1> QED
  BY <1>1, Types DEF End, Go, Turns, Aside, OwnType

LEMMA SelectLeads ==
  ASSUME TypeOK, NEW a \in Ticks, Select(a)
  PROVE  Turns(a, "lock") /\ mem'[a] = row /\ op'[a] = "tick"
<1>1. a \in Actors /\ "lock" \in PCs /\ "tick" \in Ops \cup {"tick", "none"}
  BY PlacesOfCode DEF Actors
<1> QED
  BY <1>1, Types DEF Select, Begin, Read, Go, Turns, Aside, OwnType

LEMMA AskLeads ==
  ASSUME TypeOK, NEW a \in Users, NEW o \in Asks, Ask(a, o)
  PROVE  Turns(a, "lock") /\ mem'[a] = row /\ op'[a] = o
<1>1. a \in Actors /\ "lock" \in PCs /\ o \in Ops \cup {"tick", "none"}
  BY PlacesOfCode, AsksAssumption DEF Actors
<1>2. want' \in [Actors -> Confs]
  <2>1. PICK k \in IF o = "edit" THEN Confs \ past ELSE {want[a]} : want' = [want EXCEPT ![a] = k]
    BY DEF Ask
  <2>2. k \in Confs
    BY <1>1, <2>1, Types DEF OwnType
  <2> QED
    BY <2>1, <2>2, Types DEF OwnType
<1> QED
  BY <1>1, <1>2, Types DEF Ask, Begin, Read, Go, Turns, Aside, OwnType

LEMMA KeepVersionLeads ==
  ASSUME TypeOK, NEW a \in Actors, KeepVersion(a)
  PROVE  /\ Turns(a, IF op[a] = "edit" THEN "release" ELSE "search")
         /\ mem'[a] = [mem[a] EXCEPT !.cv = latest[a]]
<1>1. mem' = [mem EXCEPT ![a] = [mem[a] EXCEPT !.cv = latest[a]]]
  BY Types DEF KeepVersion, OwnType
<1>2. [mem[a] EXCEPT !.cv = latest[a]] \in Row
  BY Types, RowEdits DEF OwnType
<1> QED
  BY <1>1, <1>2, Types, PlacesOfCode DEF KeepVersion, AfterVersion, Go, Turns, Aside, OwnType

LEMMA NewVersionLeads ==
  ASSUME TypeOK, NEW a \in Actors, NewVersion(a)
  PROVE  /\ Turns(a, IF op[a] = "edit" THEN "release" ELSE "search")
         /\ mem'[a] = [InMemory(mem[a]) EXCEPT !.cv = Len(versions')]
         /\ versions' = Append(versions, mem[a].conf) /\ versions' \in Seq(Confs)
<1>1. versions' = Append(versions, mem[a].conf) /\ mem[a] \in Row /\ mem[a].conf \in Confs
  BY Types, RowFields DEF NewVersion, OwnType
<1>2. versions' \in Seq(Confs) /\ Len(versions') \in Nat
  BY <1>1, Types
<1>3. [InMemory(mem[a]) EXCEPT !.cv = Len(versions')] \in Row
  BY <1>1, <1>2, Types, RowEdits
<1>4. mem' = [mem EXCEPT ![a] = [InMemory(mem[a]) EXCEPT !.cv = Len(versions')]]
  BY DEF NewVersion
<1> QED
  BY <1>1, <1>2, <1>3, <1>4, Types, PlacesOfCode
     DEF NewVersion, AfterVersion, Go, Turns, Aside, OwnType

LEMMA ReadLatestLeads ==
  ASSUME TypeOK, NEW a \in Actors, ReadLatest(a)
  PROVE  Turns(a, "version") /\ latest'[a] = Len(versions) /\ UNCHANGED <<op, mem>>
<1>1. Len(versions) \in Nat
  BY Types
<1> QED
  BY <1>1, Types, PlacesOfCode DEF ReadLatest, Go, Turns, Aside, OwnType

LEMMA SearchInVainLeads ==
  ASSUME TypeOK, NEW a \in Actors, SearchInVain(a)
  PROVE  \E p \in {"schedule", "finalize"} : Turns(a, p) /\ found'[a] # "fare"
<1>1. PICK o \in Outcomes \ {"fare"} :
        /\ found' = [found EXCEPT ![a] = o]
        /\ Go(a, IF o = "skipped" THEN "schedule" ELSE "finalize")
  BY DEF SearchInVain
<1> QED
  BY <1>1, Types, PlacesOfCode DEF SearchInVain, Go, Turns, Aside, OwnType

LEMMA SearchFindsLeads ==
  ASSUME TypeOK, NEW a \in Actors, SearchFinds(a)
  PROVE  /\ Turns(a, "finalize") /\ found'[a] = "fare" /\ best'[a] = Len(seen) + 1 /\ UNCHANGED <<op, mem>>
         /\ \E o \in [cv : Nat, conf : Confs, fare : Fares] :
              o.cv = mem[a].cv /\ o.conf = mem[a].conf /\ seen' = Append(seen, o)
         /\ seen' \in Seq([cv : Nat, conf : Confs, fare : Fares])
<1>1. PICK f \in Fares :
        seen' = Append(seen, [cv |-> mem[a].cv, conf |-> mem[a].conf, fare |-> f])
  BY DEF SearchFinds
<1>2. [cv |-> mem[a].cv, conf |-> mem[a].conf, fare |-> f] \in [cv : Nat, conf : Confs, fare : Fares]
  BY Types, RowFields DEF OwnType
<1>3. seen' \in Seq([cv : Nat, conf : Confs, fare : Fares]) /\ Len(seen') = Len(seen) + 1
      /\ Len(seen) \in Nat
  BY <1>1, <1>2, Types
<1>4. Turns(a, "finalize") /\ found'[a] = "fare" /\ best'[a] = Len(seen) + 1
  BY <1>3, Types, PlacesOfCode DEF SearchFinds, Go, Turns, Aside, OwnType
<1>5. PICK o \in [cv : Nat, conf : Confs, fare : Fares] :
        o = [cv |-> mem[a].cv, conf |-> mem[a].conf, fare |-> f]
  BY <1>2
<1> QED
  BY <1>1, <1>3, <1>4, <1>5 DEF SearchFinds

LEMMA RecordFailureLeads ==
  ASSUME TypeOK, NEW a \in Actors, RecordFailure(a)
  PROVE  \E p \in {"park", "schedule"}, n \in 0..FailureLimit :
           /\ Turns(a, p) /\ mem'[a] = [mem[a] EXCEPT !.failures = n]
           /\ row' = [row EXCEPT !.failures = n] /\ UNCHANGED <<op, found>>
<1>1. PICK n : n = CapFailures(mem[a].failures + 1)
  OBVIOUS
<1>2. n \in 0..FailureLimit
  BY <1>1, Types, RowFields DEF CapFailures, OwnType
<1>3. mem' = [mem EXCEPT ![a] = [mem[a] EXCEPT !.failures = n]]
  BY <1>1, Types DEF RecordFailure, OwnType
<1>4. [mem[a] EXCEPT !.failures = n] \in Row
  BY <1>2, Types, RowEdits DEF OwnType
<1>5. PICK p \in {"park", "schedule"} : Go(a, p)
  BY DEF RecordFailure
<1>6. Turns(a, p)
  <2>1. mem' \in [Actors -> Row] /\ \A b \in Actors \ {a} : mem'[b] = mem[b]
    BY <1>3, <1>4, Types DEF OwnType
  <2>2. pc' \in [Actors -> PCs] /\ pc'[a] = p /\ \A b \in Actors \ {a} : pc'[b] = pc[b]
    BY <1>5, Types, PlacesOfCode DEF Go, OwnType
  <2>3. UNCHANGED <<op, want, latest, found, best>>
    BY DEF RecordFailure
  <2> QED
    BY <2>1, <2>2, <2>3, Types DEF Turns, Aside, OwnType
<1>7. row' = [row EXCEPT !.failures = n] /\ UNCHANGED <<op, found>>
  BY <1>1 DEF RecordFailure
<1> QED
  BY <1>2, <1>3, <1>6, <1>7, Types DEF OwnType

\* The other actions, which only move on.
Plain(a) ==
    Acquire(a) \/ SetStatus(a) \/ RefuseCompleted(a) \/ SaveEdit(a) \/ VersionClash(a)
      \/ Complete(a) \/ RecordFare(a) \/ Park(a) \/ Announce(a) \/ RecordNothing(a) \/ Schedule(a)
Stops(a) == Busy(a) \/ Release(a)
Reads(a) == Reread(a) \/ ReadFresh(a)

LEMMA PlainLeads ==
  ASSUME TypeOK, NEW a \in Actors, Plain(a)
  PROVE  UNCHANGED <<op, mem, want, latest, found, best>> /\ \E p \in PCs : Go(a, p) /\ Turns(a, p)
<1>1. UNCHANGED <<op, mem, want, latest, found, best>>
  BY DEF Plain, Acquire, SetStatus, RefuseCompleted, SaveEdit, VersionClash, Complete, RecordFare,
     Park, Announce, RecordNothing, Schedule
<1>2. Entry(op[a]) \in PCs
  BY PlacesOfCode DEF Entry
<1>3. ASSUME Acquire(a) \/ SetStatus(a) \/ RefuseCompleted(a) \/ SaveEdit(a) \/ VersionClash(a)
      PROVE  \E p \in PCs : Go(a, p)
  BY <1>2, <1>3, PlacesOfCode DEF Acquire, SetStatus, RefuseCompleted, SaveEdit, VersionClash
<1>4. ASSUME Park(a)
      PROVE  \E p \in PCs : Go(a, p)
  <2>1. (IF WasParked(mem[a]) THEN "schedule" ELSE "announce") \in PCs
    BY PlacesOfCode
  <2> QED
    BY <1>4, <2>1 DEF Park
<1>5. ASSUME Complete(a) \/ RecordFare(a) \/ Announce(a) \/ RecordNothing(a) \/ Schedule(a)
      PROVE  \E p \in PCs : Go(a, p)
  BY <1>5, PlacesOfCode DEF Complete, RecordFare, Announce, RecordNothing, Schedule
<1>6. PICK p \in PCs : Go(a, p)
  BY <1>3, <1>4, <1>5 DEF Plain
<1> QED
  BY <1>1, <1>6, GoLeads

LEMMA AccidentLeads ==
  ASSUME TypeOK, NEW a \in Actors, Accident(a)
  PROVE  \E p \in {"idle", "release"} : Turns(a, p)
BY GoLeads, EndLeads, PlacesOfCode DEF Accident

LEMMA ReadsLeads ==
  ASSUME TypeOK, NEW a \in Actors, Reads(a)
  PROVE  \E p \in {"write", "latest"} : Turns(a, p) /\ mem'[a] = row /\ UNCHANGED op
BY ReadLeads, PlacesOfCode DEF Reads, Reread, ReadFresh

LEMMA StopsLeads ==
  ASSUME TypeOK, NEW a \in Actors, Stops(a)
  PROVE  Turns(a, "idle")
BY EndLeads DEF Stops, Busy, Release

Elsewhere == Expire \/ ComeDue \/ (\E k \in Passing : DatesPass(k)) \/ UNCHANGED vars

LEMMA ElsewhereLeads ==
  ASSUME Elsewhere
  PROVE  UNCHANGED own
BY DEF Elsewhere, Expire, ComeDue, DatesPass, vars

LEMMA OwnTypeStep ==
  ASSUME TypeOK, [Next]_vars
  PROVE  OwnType'
<1>1. ASSUME Elsewhere
      PROVE  OwnType'
  BY <1>1, ElsewhereLeads, Types DEF own, OwnType
<1>2. ASSUME NEW a \in Ticks, Select(a)
      PROVE  OwnType'
  BY <1>2, SelectLeads DEF Turns
<1>3. ASSUME NEW a \in Users, NEW o \in Asks, Ask(a, o)
      PROVE  OwnType'
  BY <1>3, AskLeads DEF Turns
<1>4. ASSUME NEW a \in Actors, Plain(a)
      PROVE  OwnType'
  BY <1>4, PlainLeads DEF Turns
<1>5. ASSUME NEW a \in Actors, Stops(a) \/ Accident(a)
      PROVE  OwnType'
  BY <1>5, StopsLeads, AccidentLeads DEF Turns
<1>6. ASSUME NEW a \in Actors, Reads(a) \/ ReadLatest(a) \/ KeepVersion(a) \/ NewVersion(a)
      PROVE  OwnType'
  BY <1>6, ReadsLeads, ReadLatestLeads, KeepVersionLeads, NewVersionLeads DEF Turns
<1>7. ASSUME NEW a \in Actors, SearchInVain(a) \/ SearchFinds(a) \/ RecordFailure(a)
      PROVE  OwnType'
  BY <1>7, SearchInVainLeads, SearchFindsLeads, RecordFailureLeads DEF Turns
<1> QED
  BY <1>1, <1>2, <1>3, <1>4, <1>5, <1>6, <1>7 DEF Next, Step, Plain, Stops, Reads, Elsewhere

-----------------------------------------------------------------------------
(* The row and the counters.                                               *)

\* The tests a row is typed by, action by action.
LEMMA RowTypeStep ==
  ASSUME TypeOK, [Next]_vars, \A a \in Actors : RecordFare(a) => row' \in Row
  PROVE  row' \in Row
<1>0. row \in Row /\ FailureLimit \in Nat
  BY Types
<1>1. /\ \A x \in {"active", "paused", "error", "completed"} : x \in Statuses
      /\ 0 \in 0..FailureLimit
  BY <1>0 DEF Statuses
<1>2. ASSUME NEW a \in Actors, SetStatus(a)
      PROVE  row' \in Row
  <2>1. PICK s \in Statuses, n \in 0..FailureLimit :
          row' = [row EXCEPT !.status = s, !.due = TRUE, !.failures = n]
    <3>1. Target(a) \in Statuses
      BY <1>1 DEF Target
    <3>2. row.failures \in 0..FailureLimit
      BY <1>0, RowFields
    <3>3. row' = [row EXCEPT !.status = Target(a), !.due = TRUE,
                             !.failures = IF Target(a) = "active" THEN 0 ELSE row.failures]
      BY <1>2, <1>0 DEF SetStatus
    <3> QED
      BY <1>1, <3>1, <3>2, <3>3
  <2> QED
    BY <1>0, <2>1, RowEdits
<1>3. ASSUME NEW a \in Actors, SaveEdit(a)
      PROVE  row' \in Row
  <2>1. EditedStatus(mem[a].status) \in Statuses /\ want[a] \in Confs
    BY <1>1, Types, RowFields DEF EditedStatus, OwnType
  <2> QED
    BY <1>0, <1>3, <2>1, RowEdits DEF SaveEdit
<1>4. ASSUME NEW a \in Actors, KeepVersion(a)
      PROVE  row' \in Row
  BY <1>0, <1>4, Types, RowEdits DEF KeepVersion, OwnType
<1>5. ASSUME NEW a \in Actors, NewVersion(a)
      PROVE  row' \in Row
  <2>1. Len(versions') \in Nat
    BY <1>5, NewVersionLeads
  <2> QED
    BY <1>0, <1>5, <2>1, RowEdits DEF NewVersion
<1>6. ASSUME NEW a \in Actors, Complete(a) \/ Park(a) \/ Schedule(a)
      PROVE  row' \in Row
  BY <1>0, <1>1, <1>6, RowEdits DEF Complete, Park, Schedule
<1>7. ASSUME NEW a \in Actors, RecordNothing(a)
      PROVE  row' \in Row
  BY <1>0, <1>1, <1>7, RowEdits DEF RecordNothing
<1>8. ASSUME NEW a \in Actors, RecordFailure(a)
      PROVE  row' \in Row
  <2>1. PICK n \in 0..FailureLimit : row' = [row EXCEPT !.failures = n]
    BY <1>8, RecordFailureLeads
  <2> QED
    BY <1>0, <2>1, RowEdits
<1>9. ASSUME ComeDue
      PROVE  row' \in Row
  BY <1>0, <1>9, RowEdits DEF ComeDue
<1>10. ASSUME UNCHANGED row
       PROVE  row' \in Row
  BY <1>0, <1>10
<1> QED
  BY <1>2, <1>3, <1>4, <1>5, <1>6, <1>7, <1>8, <1>9, <1>10
     DEF Next, Step, Select, Ask, Acquire, Busy, Release, Reread, RefuseCompleted, ReadFresh,
         ReadLatest, VersionClash, SearchInVain, SearchFinds, Announce, Accident, Expire, DatesPass,
         tables, vars

LEMMA LogsStep ==
  ASSUME TypeOK, [Next]_vars
  PROVE  /\ UNCHANGED versions \/ \E a \in Actors : NewVersion(a)
         /\ UNCHANGED seen \/ \E a \in Actors : SearchFinds(a)
         /\ UNCHANGED compared \/ \E a \in Actors : RecordFare(a)
         /\ versions' \in Seq(Confs) /\ seen' \in Seq([cv : Nat, conf : Confs, fare : Fares])
<1>1. UNCHANGED versions \/ \E a \in Actors : NewVersion(a)
  BY ZenonT(60)
     DEF Next, Step, Select, Ask, Acquire, Busy, Release, Reread, SetStatus,
         RefuseCompleted, SaveEdit, ReadFresh, ReadLatest, KeepVersion, VersionClash,
         Complete, SearchInVain, SearchFinds, RecordFare, RecordFailure, Park, Announce,
         RecordNothing, Schedule, Accident, Expire, ComeDue, DatesPass, tables, vars
<1>2. UNCHANGED seen \/ \E a \in Actors : SearchFinds(a)
  BY ZenonT(60)
     DEF Next, Step, Select, Ask, Acquire, Busy, Release, Reread, SetStatus,
         RefuseCompleted, SaveEdit, ReadFresh, ReadLatest, KeepVersion, NewVersion,
         VersionClash, Complete, SearchInVain, RecordFare, RecordFailure, Park, Announce,
         RecordNothing, Schedule, Accident, Expire, ComeDue, DatesPass, tables, vars
<1>3. UNCHANGED compared \/ \E a \in Actors : RecordFare(a)
  BY ZenonT(60)
     DEF Next, Step, Select, Ask, Acquire, Busy, Release, Reread, SetStatus,
         RefuseCompleted, SaveEdit, ReadFresh, ReadLatest, KeepVersion, NewVersion,
         VersionClash, Complete, SearchInVain, SearchFinds, RecordFailure, Park, Announce,
         RecordNothing, Schedule, Accident, Expire, ComeDue, DatesPass, told, history, vars
<1> QED
  BY <1>1, <1>2, <1>3, NewVersionLeads, SearchFindsLeads, Types

LEMMA CountersTypeStep ==
  ASSUME TypeOK, [Next]_vars
  PROVE  /\ lock' \in Actors \cup {Null} /\ past' \subseteq Passing
         /\ asked' \in 0..MaxAsks /\ crashes' \in 0..MaxCrashes
         /\ wish' \in {"run", "stop", "overruled"} /\ torn' \in BOOLEAN
         /\ behind' \subseteq Actors /\ misled' \subseteq Actors
         /\ parkings' \in Nat /\ notices' \in Nat
<1>1. lock' \in Actors \cup {Null}
  <2>1. UNCHANGED lock \/ lock' = Null \/ \E a \in Actors : lock' = a
    BY ZenonT(60)
       DEF Next, Step, Select, Ask, Acquire, Busy, Release, Reread, SetStatus,
           RefuseCompleted, SaveEdit, ReadFresh, ReadLatest, KeepVersion, NewVersion,
           VersionClash, Complete, SearchInVain, SearchFinds, RecordFare, RecordFailure,
           Park, Announce, RecordNothing, Schedule, Accident, Expire, ComeDue, DatesPass,
           tables, vars
  <2>2. lock \in Actors \cup {Null}
    BY DEF TypeOK
  <2> QED
    BY <2>1, <2>2
<1>2. past' \subseteq Passing
  <2>1. UNCHANGED past \/ \E k \in Passing : past' = past \cup {k}
    BY ZenonT(60)
       DEF Next, Step, Select, Ask, Acquire, Busy, Release, Reread, SetStatus,
           RefuseCompleted, SaveEdit, ReadFresh, ReadLatest, KeepVersion, NewVersion,
           VersionClash, Complete, SearchInVain, SearchFinds, RecordFare, RecordFailure,
           Park, Announce, RecordNothing, Schedule, Accident, Expire, ComeDue, DatesPass,
           vars
  <2>2. past \subseteq Passing
    BY DEF TypeOK
  <2> QED
    BY <2>1, <2>2
<1>3. asked' \in 0..MaxAsks
  <2>1. asked' = asked \/ (asked < MaxAsks /\ asked' = asked + 1)
    BY ZenonT(60)
       DEF Next, Step, Select, Ask, Acquire, Busy, Release, Reread, SetStatus,
           RefuseCompleted, SaveEdit, ReadFresh, ReadLatest, KeepVersion, NewVersion,
           VersionClash, Complete, SearchInVain, SearchFinds, RecordFare, RecordFailure,
           Park, Announce, RecordNothing, Schedule, Accident, Expire, ComeDue, DatesPass,
           vars
  <2>2. asked \in 0..MaxAsks
    BY DEF TypeOK
  <2> QED
    BY <2>1, <2>2, Types
<1>4. crashes' \in 0..MaxCrashes
  <2>1. crashes' = crashes \/ (crashes < MaxCrashes /\ crashes' = crashes + 1)
    BY ZenonT(60)
       DEF Next, Step, Select, Ask, Acquire, Busy, Release, Reread, SetStatus,
           RefuseCompleted, SaveEdit, ReadFresh, ReadLatest, KeepVersion, NewVersion,
           VersionClash, Complete, SearchInVain, SearchFinds, RecordFare, RecordFailure,
           Park, Announce, RecordNothing, Schedule, Accident, Expire, ComeDue, DatesPass,
           vars
  <2>2. crashes \in 0..MaxCrashes
    BY DEF TypeOK
  <2> QED
    BY <2>1, <2>2, Types
<1>5. wish' \in {"run", "stop", "overruled"}
  <2>1. UNCHANGED wish
          \/ \E a \in Actors : SetStatus(a) \/ SaveEdit(a) \/ RecordFare(a) \/ Park(a)
    BY ZenonT(60)
       DEF Next, Step, Select, Ask, Acquire, Busy, Release, Reread, RefuseCompleted,
           ReadFresh, ReadLatest, KeepVersion, NewVersion, VersionClash, Complete,
           SearchInVain, SearchFinds, RecordFailure, Announce, RecordNothing, Schedule,
           Accident, Expire, ComeDue, DatesPass, told, history, vars
  <2>2. ASSUME NEW a \in Actors, SetStatus(a) \/ SaveEdit(a) \/ RecordFare(a) \/ Park(a)
        PROVE  wish' \in {"run", "stop", "overruled", wish}
    BY <2>2 DEF SetStatus, SaveEdit, RecordFare, Park, Tell, Overrule
  <2>3. wish \in {"run", "stop", "overruled"}
    BY DEF TypeOK
  <2> QED
    BY <2>1, <2>2, <2>3
<1>6. torn' \in BOOLEAN
  <2>1. UNCHANGED torn \/ \E a \in Actors : SaveEdit(a) \/ NewVersion(a) \/ RecordFare(a)
    BY ZenonT(60)
       DEF Next, Step, Select, Ask, Acquire, Busy, Release, Reread, SetStatus,
           RefuseCompleted, ReadFresh, ReadLatest, KeepVersion, VersionClash, Complete,
           SearchInVain, SearchFinds, RecordFailure, Park, Announce, RecordNothing,
           Schedule, Accident, Expire, ComeDue, DatesPass, told, history, vars
  <2>2. ASSUME NEW a \in Actors, SaveEdit(a) \/ NewVersion(a) \/ RecordFare(a)
        PROVE  torn' \in BOOLEAN
    BY <2>2 DEF SaveEdit, NewVersion, RecordFare
  <2>3. torn \in BOOLEAN
    BY DEF TypeOK
  <2> QED
    BY <2>1, <2>2, <2>3
<1>7. behind' \subseteq Actors /\ misled' \subseteq Actors
  <2>1. \/ UNCHANGED <<behind, misled>>
        \/ \E a \in Actors : Read(a) \/ End(a) \/ SetStatus(a) \/ SaveEdit(a)
    BY ZenonT(60)
       DEF Next, Step, Actors, Select, Ask, Begin, Acquire, Busy, Release, Reread,
           RefuseCompleted, ReadFresh, ReadLatest, KeepVersion, NewVersion, VersionClash,
           Complete, SearchInVain, SearchFinds, RecordFare, RecordFailure, Park, Announce,
           RecordNothing, Schedule, Accident, Expire, ComeDue, DatesPass, copies, history,
           vars
  <2>2. behind \subseteq Actors /\ misled \subseteq Actors
    BY DEF TypeOK
  <2>3. ASSUME NEW a \in Actors, Read(a) \/ End(a) \/ SetStatus(a) \/ SaveEdit(a)
        PROVE  behind' \subseteq Actors /\ misled' \subseteq Actors
    BY <2>2, <2>3 DEF Read, End, SetStatus, SaveEdit, Tell, Overrule
  <2> QED
    BY <2>1, <2>2, <2>3
<1>8. parkings' \in {parkings, parkings + 1} /\ notices' \in {notices, notices + 1}
  BY ZenonT(60)
     DEF Next, Step, Select, Ask, Acquire, Busy, Release, Reread, SetStatus,
         RefuseCompleted, SaveEdit, ReadFresh, ReadLatest, KeepVersion, NewVersion,
         VersionClash, Complete, SearchInVain, SearchFinds, RecordFare, RecordFailure, Park,
         Announce, RecordNothing, Schedule, Accident, Expire, ComeDue, DatesPass, told,
         history, vars
<1>9. parkings \in Nat /\ notices \in Nat
  BY DEF TypeOK
<1> QED
  BY <1>1, <1>2, <1>3, <1>4, <1>5, <1>6, <1>7, <1>8, <1>9

-----------------------------------------------------------------------------
(* Versions and observations, however many actors overlap and whoever      *)
(* outlives its lock or dies.                                              *)

\* What an actor holds of the versions and of the observations, as far as it will use it.
Held(a) ==
    /\ pc[a] = "version" => latest[a] \in 1..Len(versions)
    /\ pc[a] = "search" =>
         mem[a].cv \in 1..Len(versions) /\ versions[mem[a].cv] = mem[a].conf
    /\ pc[a] = "finalize" /\ found[a] = "fare" =>
         best[a] \in 1..Len(seen) /\ seen[best[a]].cv = mem[a].cv

Sound ==
    /\ row.cv \in 1..Len(versions)
    /\ FiledUnderOwnSeries /\ VersionsDiffer
    /\ \A a \in Actors : Held(a)

LEMMA Elements ==
  ASSUME NEW S, NEW s \in Seq(S), NEW i \in 1..Len(s)
  PROVE  s[i] \in S
OBVIOUS

LEMMA Appended ==
  ASSUME NEW S, NEW s \in Seq(S), NEW x \in S
  PROVE  /\ Append(s, x) \in Seq(S) /\ Len(Append(s, x)) = Len(s) + 1 /\ Len(s) \in Nat
         /\ \A i \in 1..Len(s) : Append(s, x)[i] = s[i]
         /\ Append(s, x)[Len(s) + 1] = x
OBVIOUS

\* Logs only grow.
LEMMA LogsGrow ==
  ASSUME TypeOK, [Next]_vars
  PROVE  /\ Len(versions') >= Len(versions) /\ \A i \in 1..Len(versions) : versions'[i] = versions[i]
         /\ Len(seen') >= Len(seen) /\ \A i \in 1..Len(seen) : seen'[i] = seen[i]
         /\ Len(versions) \in Nat /\ Len(versions') \in Nat
         /\ Len(seen) \in Nat /\ Len(seen') \in Nat
<1>1. Len(versions) \in Nat /\ Len(seen) \in Nat
  BY Types
<1>2. /\ Len(versions') >= Len(versions) /\ \A i \in 1..Len(versions) : versions'[i] = versions[i]
      /\ Len(versions') \in Nat
  <2>1. CASE UNCHANGED versions
    BY <1>1, <2>1
  <2>2. ASSUME NEW a \in Actors, NewVersion(a)
        PROVE  /\ Len(versions') >= Len(versions)
               /\ \A i \in 1..Len(versions) : versions'[i] = versions[i]
               /\ Len(versions') \in Nat
    <3>1. versions' = Append(versions, mem[a].conf) /\ mem[a].conf \in Confs
      BY <2>2, Types, RowFields DEF NewVersion, OwnType
    <3> QED
      BY <1>1, <3>1, Types, Appended
  <2> QED
    BY <2>1, <2>2, LogsStep
<1>3. Len(seen') >= Len(seen) /\ (\A i \in 1..Len(seen) : seen'[i] = seen[i]) /\ Len(seen') \in Nat
  <2>1. CASE UNCHANGED seen
    BY <1>1, <2>1
  <2>2. ASSUME NEW a \in Actors, SearchFinds(a)
        PROVE  /\ Len(seen') >= Len(seen) /\ \A i \in 1..Len(seen) : seen'[i] = seen[i]
               /\ Len(seen') \in Nat
    <3>1. PICK o \in [cv : Nat, conf : Confs, fare : Fares] : seen' = Append(seen, o)
      BY <2>2, SearchFindsLeads
    <3> QED
      BY <1>1, <3>1, Types, Appended
  <2> QED
    BY <2>1, <2>2, LogsStep
<1> QED
  BY <1>1, <1>2, <1>3

\* An observation is filed under the version of the configuration that is searched for.
LEMMA FiledStep ==
  ASSUME TypeOK, Sound, [Next]_vars
  PROVE  FiledUnderOwnSeries'
<1>1. ASSUME NEW i \in 1..Len(seen)
      PROVE  /\ seen'[i].cv \in 1..Len(versions') /\ versions'[seen'[i].cv] = seen'[i].conf
  BY LogsGrow DEF Sound, FiledUnderOwnSeries
<1>2. CASE UNCHANGED seen
  BY <1>1, <1>2 DEF FiledUnderOwnSeries
<1>3. ASSUME NEW a \in Actors, SearchFinds(a)
      PROVE  FiledUnderOwnSeries'
  <2>1. PICK o \in [cv : Nat, conf : Confs, fare : Fares] :
          o.cv = mem[a].cv /\ o.conf = mem[a].conf /\ seen' = Append(seen, o)
    BY <1>3, SearchFindsLeads
  <2>2. Len(seen') = Len(seen) + 1 /\ seen'[Len(seen) + 1] = o
    BY <2>1, Types, Appended
  <2>3. o.cv \in 1..Len(versions') /\ versions'[o.cv] = o.conf
    BY <1>3, <2>1, LogsGrow DEF SearchFinds, Sound, Held
  <2>4. ASSUME NEW i \in 1..Len(seen')
        PROVE  /\ seen'[i].cv \in 1..Len(versions') /\ versions'[seen'[i].cv] = seen'[i].conf
    BY <1>1, <2>2, <2>3, LogsGrow
  <2> QED
    BY <2>4 DEF FiledUnderOwnSeries
<1> QED
  BY <1>2, <1>3, LogsStep

\* A version is appended by an actor that saw the last one, and only if it differs.
LEMMA VersionsStep ==
  ASSUME TypeOK, Sound, [Next]_vars
  PROVE  VersionsDiffer'
<1>1. CASE UNCHANGED versions
  BY <1>1 DEF Sound, VersionsDiffer
<1>2. ASSUME NEW a \in Actors, NewVersion(a)
      PROVE  VersionsDiffer'
  <2>1. /\ versions' = Append(versions, mem[a].conf) /\ mem[a].conf \in Confs
        /\ Len(versions) = latest[a] /\ versions[latest[a]] # mem[a].conf /\ latest[a] >= 1
    BY <1>2, Types, RowFields DEF NewVersion, SameSeries, VersionFree, Sound, Held, OwnType
  <2>2. Len(versions') = Len(versions) + 1 /\ versions'[Len(versions) + 1] = mem[a].conf
    BY <2>1, Types, Appended
  <2>3. ASSUME NEW i \in 1..Len(versions') - 1
        PROVE  versions'[i] # versions'[i + 1]
    <3>1. CASE i = Len(versions)
      BY <2>1, <2>2, <3>1, LogsGrow
    <3>2. CASE i \in 1..Len(versions) - 1
      <4>1. i \in 1..Len(versions) /\ i + 1 \in 1..Len(versions)
        BY <3>2, LogsGrow
      <4>2. versions[i] # versions[i + 1]
        BY <3>2 DEF Sound, VersionsDiffer
      <4> QED
        BY <4>1, <4>2, LogsGrow
    <3> QED
      BY <2>2, <3>1, <3>2, LogsGrow
  <2> QED
    BY <2>3 DEF VersionsDiffer
<1> QED
  BY <1>1, <1>2, LogsStep

LEMMA CurrentStep ==
  ASSUME TypeOK, Sound, [Next]_vars
  PROVE  row'.cv \in 1..Len(versions')
<1>1. row \in Row
  BY Types
<1>2. ASSUME row'.cv = row.cv
      PROVE  row'.cv \in 1..Len(versions')
  BY <1>2, LogsGrow DEF Sound
<1>3. ASSUME NEW a \in Actors, KeepVersion(a)
      PROVE  row'.cv \in 1..Len(versions')
  BY <1>1, <1>3, LogsGrow DEF KeepVersion, Sound, Held, Row
<1>4. ASSUME NEW a \in Actors, NewVersion(a)
      PROVE  row'.cv \in 1..Len(versions')
  <2>1. row'.cv = Len(versions')
    BY <1>1, <1>4 DEF NewVersion, NewSeries, Row
  <2>2. Len(versions') = Len(versions) + 1
    BY <1>4, Types, RowFields, Appended DEF NewVersion, OwnType
  <2> QED
    BY <2>1, <2>2, LogsGrow
<1>5. ASSUME NEW a \in Actors,
             SetStatus(a) \/ SaveEdit(a) \/ Complete(a) \/ Park(a) \/ Schedule(a) \/ RecordNothing(a)
      PROVE  row'.cv = row.cv
  BY <1>1, <1>5 DEF SetStatus, SaveEdit, Complete, Park, Schedule, RecordNothing, Row
<1>6. ASSUME NEW a \in Actors, RecordFare(a)
      PROVE  row'.cv = row.cv
  BY <1>1, <1>6 DEF RecordFare, Row
<1>7. ASSUME NEW a \in Actors, RecordFailure(a)
      PROVE  row'.cv = row.cv
  BY <1>1, <1>7, RecordFailureLeads DEF Row
<1>8. ASSUME ComeDue
      PROVE  row'.cv = row.cv
  BY <1>1, <1>8 DEF ComeDue, Row
<1>9. \/ UNCHANGED row \/ ComeDue
      \/ \E a \in Actors :
           \/ KeepVersion(a) \/ NewVersion(a) \/ RecordFare(a) \/ RecordFailure(a)
           \/ SetStatus(a) \/ SaveEdit(a) \/ Complete(a) \/ Park(a) \/ Schedule(a) \/ RecordNothing(a)
  BY DEF Next, Step, Select, Ask, Acquire, Busy, Release, Reread, RefuseCompleted, ReadFresh,
         ReadLatest, VersionClash, SearchInVain, SearchFinds, Announce, Accident, Expire, DatesPass,
         tables, vars
<1> QED
  BY <1>2, <1>3, <1>4, <1>5, <1>6, <1>7, <1>8, <1>9

\* finalize uses the observation that the check has made.
LEMMA RecordFareLeads ==
  ASSUME TypeOK, Sound, NEW a \in Actors, RecordFare(a)
  PROVE  /\ best[a] \in 1..Len(seen) /\ seen[best[a]].fare \in Nat
         /\ \E s \in Statuses :
              /\ s = Revived(mem[a].status)
              /\ \/ /\ Lower(seen[best[a]].fare, mem[a].lowFare)
                    /\ row' = [row EXCEPT !.latest = best[a], !.low = best[a],
                                 !.lowFare = seen[best[a]].fare, !.failures = 0, !.status = s]
                 \/ /\ ~Lower(seen[best[a]].fare, mem[a].lowFare)
                    /\ row' = [row EXCEPT !.latest = best[a], !.low = mem[a].low,
                                 !.lowFare = mem[a].lowFare, !.failures = 0, !.status = s]
<1>1. best[a] \in 1..Len(seen)
  BY DEF RecordFare, Sound, Held
<1>2. seen[best[a]].fare \in Nat
  <2>1. seen[best[a]] \in [cv : Nat, conf : Confs, fare : Fares]
    BY <1>1, Types, Elements
  <2> QED
    BY <2>1, Types
<1>3. mem[a].status \in Statuses /\ "active" \in Statuses
  BY Types, RowFields DEF Statuses, OwnType
<1>4. PICK s \in Statuses : s = Revived(mem[a].status)
  BY <1>3 DEF Revived
<1>5. row' = [row EXCEPT
                !.latest = best[a],
                !.low = IF Lower(seen[best[a]].fare, mem[a].lowFare) THEN best[a] ELSE mem[a].low,
                !.lowFare = IF Lower(seen[best[a]].fare, mem[a].lowFare) THEN seen[best[a]].fare
                                                                         ELSE mem[a].lowFare,
                !.failures = 0,
                !.status = s]
  BY <1>4 DEF RecordFare
<1> QED
  BY <1>1, <1>2, <1>4, <1>5

LEMMA TypeStep ==
  ASSUME TypeOK, Sound, [Next]_vars
  PROVE  TypeOK'
<1>1. row' \in Row
  <2>1. ASSUME NEW a \in Actors, RecordFare(a)
        PROVE  row' \in Row
    <3>1. /\ best[a] \in Nat /\ seen[best[a]].fare \in Nat /\ mem[a].low \in Nat
          /\ mem[a].lowFare \in Nat \cup {Null} /\ row \in Row /\ FailureLimit \in Nat
      BY <2>1, RecordFareLeads, Types, RowFields DEF OwnType
    <3>2. PICK l \in Nat, f \in Nat \cup {Null}, s \in Statuses :
            row' = [row EXCEPT !.latest = best[a], !.low = l, !.lowFare = f, !.failures = 0,
                               !.status = s]
      <4>1. PICK s \in Statuses :
              \/ row' = [row EXCEPT !.latest = best[a], !.low = best[a],
                           !.lowFare = seen[best[a]].fare, !.failures = 0, !.status = s]
              \/ row' = [row EXCEPT !.latest = best[a], !.low = mem[a].low,
                           !.lowFare = mem[a].lowFare, !.failures = 0, !.status = s]
        BY <2>1, RecordFareLeads
      <4>2. seen[best[a]].fare \in Nat \cup {Null}
        BY <3>1
      <4> QED
        BY <3>1, <4>1, <4>2
    <3> QED
      BY <3>1, <3>2, RowEdits
  <2> QED
    BY <2>1, RowTypeStep
<1>2. compared' \subseteq [fresh : Nat, old : Nat, misled : BOOLEAN]
  <2>1. compared \subseteq [fresh : Nat, old : Nat, misled : BOOLEAN]
    BY DEF TypeOK
  <2>2. ASSUME NEW a \in Actors, RecordFare(a)
        PROVE  compared' \subseteq [fresh : Nat, old : Nat, misled : BOOLEAN]
    <3>1. best[a] \in Nat /\ mem[a].latest \in Nat /\ mem[a].low \in Nat
      BY Types, RowFields DEF OwnType
    <3>2. compared' = compared \cup
               {[fresh |-> best[a], old |-> old, misled |-> a \in misled] :
                   old \in {mem[a].latest, mem[a].low} \ {0}}
      BY <2>2 DEF RecordFare
    <3>3. ASSUME NEW old \in Nat
          PROVE  [fresh |-> best[a], old |-> old, misled |-> a \in misled]
                   \in [fresh : Nat, old : Nat, misled : BOOLEAN]
      <4>1. \A m \in BOOLEAN : [fresh |-> best[a], old |-> old, misled |-> m]
                                \in [fresh : Nat, old : Nat, misled : BOOLEAN]
        BY <3>1
      <4>2. (a \in misled) \in BOOLEAN
        OBVIOUS
      <4> QED
        BY <4>1, <4>2, Zenon
    <3> QED
      BY <2>1, <3>1, <3>2, <3>3
  <2> QED
    BY <2>1, <2>2, LogsStep
<1> QED
  BY <1>1, <1>2, OwnTypeStep, LogsStep, CountersTypeStep DEF TypeOK, OwnType

\* An actor that does not move holds what it held.
LEMMA HeldKept ==
  ASSUME TypeOK, Sound, [Next]_vars, NEW b \in Actors,
         /\ pc'[b] = pc[b] /\ mem'[b] = mem[b] /\ latest'[b] = latest[b]
         /\ found'[b] = found[b] /\ best'[b] = best[b]
  PROVE  Held(b)'
BY LogsGrow DEF Sound, Held

LEMMA HeldStep ==
  ASSUME TypeOK, Sound, [Next]_vars, NEW b \in Actors
  PROVE  Held(b)'
<1> DEFINE Goal == Held(b)'
<1>1. ASSUME NEW a \in Actors, Aside(a), Held(a)'
      PROVE  Goal
  BY <1>1, HeldKept DEF Aside
<1>2. ASSUME NEW a \in Actors, NEW p \in PCs \ {"version", "search", "finalize"}, Turns(a, p)
      PROVE  Goal
  BY <1>1, <1>2 DEF Turns, Held
<1>3. ASSUME Elsewhere
      PROVE  Goal
  BY <1>3, ElsewhereLeads, HeldKept DEF own
<1>4. ASSUME NEW a \in Ticks, Select(a)
      PROVE  Goal
  BY <1>2, <1>4, SelectLeads, PlacesOfCode DEF Actors
<1>5. ASSUME NEW a \in Users, NEW o \in Asks, Ask(a, o)
      PROVE  Goal
  BY <1>2, <1>5, AskLeads, PlacesOfCode DEF Actors
<1>6. ASSUME NEW a \in Actors, Plain(a)
      PROVE  Goal
  <2>1. PICK p \in PCs : Go(a, p) /\ Turns(a, p)
    BY <1>6, PlainLeads
  <2>2. pc'[a] = p
    BY <2>1 DEF Turns
  <2>3. p \notin {"version", "search", "finalize"}
    <3>1. \A q \in {"version", "search", "finalize"} : Entry(op[a]) # q
      BY DEF Entry
    <3> QED
      BY <1>6, <2>1, <2>2, <3>1, Types
         DEF Plain, Acquire, SetStatus, RefuseCompleted, SaveEdit, VersionClash, Complete, RecordFare,
             Park, Announce, RecordNothing, Schedule, Go, OwnType
  <2> QED
    BY <1>2, <2>1, <2>3
<1>7. ASSUME NEW a \in Actors, Stops(a) \/ Accident(a) \/ Reads(a)
      PROVE  Goal
  BY <1>2, <1>7, StopsLeads, AccidentLeads, ReadsLeads, PlacesOfCode
<1>8. ASSUME NEW a \in Actors, ReadLatest(a)
      PROVE  Goal
  <2>1. latest'[a] \in 1..Len(versions')
    BY <1>8, ReadLatestLeads, LogsGrow DEF Sound
  <2> QED
    BY <1>1, <1>8, <2>1, ReadLatestLeads DEF Turns, Held
<1>9. ASSUME NEW a \in Actors, KeepVersion(a)
      PROVE  Goal
  <2>1. latest[a] \in 1..Len(versions) /\ versions[latest[a]] = mem[a].conf
    BY <1>9 DEF KeepVersion, SameSeries, Sound, Held
  <2>2. mem'[a].cv = latest[a] /\ mem'[a].conf = mem[a].conf
    <3>1. mem'[a] = [mem[a] EXCEPT !.cv = latest[a]] /\ mem[a] \in Row
      BY <1>9, KeepVersionLeads, Types DEF OwnType
    <3> QED
      BY <3>1 DEF Row
  <2>3. mem'[a].cv \in 1..Len(versions') /\ versions'[mem'[a].cv] = mem'[a].conf
    BY <2>1, <2>2, LogsGrow
  <2> QED
    BY <1>1, <1>9, <2>3, KeepVersionLeads DEF Turns, Held
<1>10. ASSUME NEW a \in Actors, NewVersion(a)
       PROVE  Goal
  <2>1. versions' = Append(versions, mem[a].conf) /\ mem[a].conf \in Confs /\ mem[a] \in Row
    BY <1>10, NewVersionLeads, Types, RowFields DEF OwnType
  <2>2. Len(versions') = Len(versions) + 1 /\ versions'[Len(versions) + 1] = mem[a].conf
    BY <2>1, Types, Appended
  <2>3. mem'[a].cv = Len(versions') /\ mem'[a].conf = mem[a].conf
    BY <1>10, <2>1, NewVersionLeads DEF Row, InMemory
  <2>4. mem'[a].cv \in 1..Len(versions') /\ versions'[mem'[a].cv] = mem'[a].conf
    BY <2>2, <2>3, LogsGrow
  <2> QED
    BY <1>1, <1>10, <2>4, NewVersionLeads DEF Turns, Held
<1>11. ASSUME NEW a \in Actors, SearchInVain(a)
       PROVE  Goal
  BY <1>1, <1>11, SearchInVainLeads DEF Turns, Held
<1>12. ASSUME NEW a \in Actors, SearchFinds(a)
       PROVE  Goal
  <2>1. PICK o \in [cv : Nat, conf : Confs, fare : Fares] :
          o.cv = mem[a].cv /\ seen' = Append(seen, o)
    BY <1>12, SearchFindsLeads
  <2>2. Len(seen') = Len(seen) + 1 /\ seen'[Len(seen) + 1] = o
    BY <2>1, Types, Appended
  <2>3. best'[a] \in 1..Len(seen') /\ seen'[best'[a]].cv = mem'[a].cv
    BY <1>12, <2>1, <2>2, SearchFindsLeads, LogsGrow
  <2> QED
    BY <1>1, <1>12, <2>3, SearchFindsLeads DEF Turns, Held
<1>13. ASSUME NEW a \in Actors, RecordFailure(a)
       PROVE  Goal
  BY <1>2, <1>13, RecordFailureLeads, PlacesOfCode
<1> HIDE DEF Goal
<1>14. Goal
  BY <1>3, <1>4, <1>5, <1>6, <1>7, <1>8, <1>9, <1>10, <1>11, <1>12, <1>13
     DEF Next, Step, Plain, Stops, Reads, Elsewhere
<1> QED
  BY <1>14 DEF Goal

LEMMA SoundInit == Init => TypeOK /\ Sound
<1> SUFFICES ASSUME Init
             PROVE  TypeOK /\ Sound
  OBVIOUS
<1>1. PICK k \in Confs : row = NewRow(k) /\ versions = <<k>>
  BY DEF Init
<1>2. FailureLimit \in Nat \ {0} /\ MaxCrashes \in Nat /\ MaxAsks \in Nat
  BY AsksAssumption, SearchAssumption
<1>3. row \in Row /\ row.cv = 1
  BY <1>1, <1>2 DEF NewRow, Row, Statuses
<1>4. versions \in Seq(Confs) /\ Len(versions) = 1
  BY <1>1
<1>5. Blank \in Row /\ Blank.conf \in Confs
  <2>1. (CHOOSE c \in Confs : TRUE) \in Confs
    OBVIOUS
  <2> QED
    BY <1>2, <2>1 DEF Blank, NewRow, Row, Statuses
<1>6. OwnType
  BY <1>5, PlacesOfCode DEF Init, OwnType
<1>7. seen = <<>> /\ \A a \in Actors : pc[a] = "idle"
  BY DEF Init
<1>8. TypeOK
  <2>1. seen \in Seq([cv : Nat, conf : Confs, fare : Fares])
    BY <1>7
  <2>2. lock \in Actors \cup {Null} /\ past \subseteq Passing
    BY DEF Init
  <2>3. asked \in 0..MaxAsks /\ crashes \in 0..MaxCrashes
    BY <1>2 DEF Init
  <2>4. /\ wish \in {"run", "stop", "overruled"} /\ parkings \in Nat /\ notices \in Nat
        /\ behind \subseteq Actors /\ misled \subseteq Actors /\ torn \in BOOLEAN
        /\ compared \subseteq [fresh : Nat, old : Nat, misled : BOOLEAN]
    BY DEF Init
  <2> QED
    BY <1>3, <1>4, <1>6, <2>1, <2>2, <2>3, <2>4 DEF TypeOK, OwnType
<1>9. Sound
  <2>1. FiledUnderOwnSeries /\ VersionsDiffer
    BY <1>4, <1>7 DEF FiledUnderOwnSeries, VersionsDiffer
  <2> QED
    BY <1>3, <1>4, <1>7, <2>1 DEF Sound, Held
<1> QED
  BY <1>8, <1>9

LEMMA SoundStep ==
  ASSUME TypeOK, Sound, [Next]_vars
  PROVE  TypeOK' /\ Sound'
BY TypeStep, CurrentStep, FiledStep, VersionsStep, HeldStep DEF Sound

LEMMA SoundHolds == Spec => [](TypeOK /\ Sound)
<1>1. Init => TypeOK /\ Sound
  BY SoundInit
<1>2. TypeOK /\ Sound /\ [Next]_vars => TypeOK' /\ Sound'
  BY SoundStep
<1> QED
  BY <1>1, <1>2, PTL DEF Spec

\* Whatever copy of the tracker a check remembers, and whoever changes it or outlives its
\* lock meanwhile, persistOffers files an observation under a version of the configuration
\* that was searched (ensureConfigVersion, runTracker).
THEOREM ObservationsAreFiled == Spec => []FiledUnderOwnSeries
<1>1. TypeOK /\ Sound => FiledUnderOwnSeries
  BY DEF Sound
<1> QED
  BY <1>1, SoundHolds, PTL

\* No overlap of checks and edits, and no death between two statements of
\* ensureConfigVersion, splits one series in two: UNIQUE (tracker_id, version) lets only an
\* actor that saw the latest version append another, and it appends a different one.
THEOREM SeriesAreNotSplit == Spec => []VersionsDiffer
<1>1. TypeOK /\ Sound => VersionsDiffer
  BY DEF Sound
<1> QED
  BY <1>1, SoundHolds, PTL

-----------------------------------------------------------------------------
(* Who knows what.  An invocation goes on with the row as it read it: what *)
(* it knows of it was true then, and history says what has changed since.  *)

\* A begin, of Cron or of the owner.
Starts(a) == (a \in Ticks /\ Select(a)) \/ (a \in Users /\ \E o \in Asks : Ask(a, o))
Learns(a) == Starts(a) \/ Reads(a)

\* What an actor has read of the observations, the configuration and the status.
Kin(m, w) == w.status = m.status /\ w.conf = m.conf /\ w.latest = m.latest /\ w.low = m.low

\* After a step an actor rests, or has just read the row, or goes on with what it had read.
Rests(b) == pc'[b] = "idle"
Learnt(b) ==
    /\ mem'[b] = row /\ UNCHANGED <<row, told>>
    /\ b \in misled' <=> torn
GoesOn(b) ==
    /\ pc[b] # "idle" /\ Kin(mem[b], mem'[b])
    /\ b \in misled' <=> b \in misled
    /\ b \in behind => b \in behind'

\* What a step writes into the row, field by field.
KeepsSummary ==
    row'.cv = row.cv /\ row'.latest = row.latest /\ row'.low = row.low /\ row'.lowFare = row.lowFare
Sets(s, k) == row'.status = s /\ row'.conf = k /\ KeepsSummary

LEMMA RowLeads ==
  ASSUME TypeOK, NEW a \in Actors
  PROVE  /\ SetStatus(a) => Sets(Target(a), row.conf)
         /\ SaveEdit(a) => Sets(EditedStatus(mem[a].status), want[a])
         /\ Complete(a) => Sets("completed", row.conf)
         /\ Park(a) => Sets("error", row.conf)
         /\ Schedule(a) \/ RecordNothing(a) \/ RecordFailure(a) \/ ComeDue => Sets(row.status, row.conf)
         /\ ComeDue => row'.failures = row.failures
<1>1. row \in Row
  BY Types
<1>2. SetStatus(a) => Sets(Target(a), row.conf)
  BY <1>1 DEF SetStatus, Sets, KeepsSummary, Row
<1>3. SaveEdit(a) => Sets(EditedStatus(mem[a].status), want[a])
  BY <1>1 DEF SaveEdit, Sets, KeepsSummary, Row
<1>4. /\ Complete(a) => Sets("completed", row.conf)
      /\ Park(a) => Sets("error", row.conf)
  BY <1>1 DEF Complete, Park, Sets, KeepsSummary, Row
<1>5. ASSUME Schedule(a) \/ RecordNothing(a)
      PROVE  Sets(row.status, row.conf)
  BY <1>1, <1>5 DEF Schedule, RecordNothing, Sets, KeepsSummary, Row
<1>6. ASSUME RecordFailure(a)
      PROVE  Sets(row.status, row.conf)
  BY <1>1, <1>6, RecordFailureLeads DEF Sets, KeepsSummary, Row
<1>7. ASSUME ComeDue
      PROVE  Sets(row.status, row.conf) /\ row'.failures = row.failures
  BY <1>1, <1>7 DEF ComeDue, Sets, KeepsSummary, Row
<1> QED
  BY <1>2, <1>3, <1>4, <1>5, <1>6, <1>7

LEMMA VersionKeepsStatus ==
  ASSUME TypeOK, NEW a \in Actors
  PROVE  /\ KeepVersion(a) \/ NewVersion(a) =>
              row'.status = row.status /\ mem'[a].status = mem[a].status
         /\ VersionClash(a) \/ Accident(a) => row'.status = row.status
<1>1. row \in Row /\ mem[a] \in Row
  BY Types DEF OwnType
<1>2. ASSUME KeepVersion(a)
      PROVE  row'.status = row.status /\ mem'[a].status = mem[a].status
  <2>1. mem'[a] = [mem[a] EXCEPT !.cv = latest[a]]
    BY <1>2, KeepVersionLeads
  <2> QED
    BY <1>1, <1>2, <2>1 DEF KeepVersion, Row
<1>3. ASSUME NewVersion(a)
      PROVE  row'.status = row.status /\ mem'[a].status = mem[a].status
  <2>1. mem'[a] = [InMemory(mem[a]) EXCEPT !.cv = Len(versions')]
    BY <1>3, NewVersionLeads
  <2>2. row' = [NewSeries(row) EXCEPT !.cv = Len(versions')]
    BY <1>3 DEF NewVersion
  <2> QED
    BY <1>1, <2>1, <2>2 DEF NewSeries, InMemory, Row
<1>4. VersionClash(a) \/ Accident(a) => row'.status = row.status
  BY DEF VersionClash, Accident, tables
<1> QED
  BY <1>2, <1>3, <1>4

\* What each step does to the histories of copies.
LEMMA CopiesLead ==
  ASSUME TypeOK, NEW a \in Actors
  PROVE  /\ Learns(a) => /\ behind' = behind \ {a} /\ UNCHANGED <<row, seen, told>>
                         /\ misled' = IF torn THEN misled \cup {a} ELSE misled \ {a}
         /\ Stops(a) => behind' = behind \ {a} /\ misled' = misled \ {a}
         /\ Accident(a) => \/ behind' = behind \ {a} /\ misled' = misled \ {a} /\ pc'[a] = "idle"
                           \/ UNCHANGED <<behind, misled, mem>> /\ pc[a] # "idle"
         /\ Plain(a) =>
              /\ UNCHANGED misled
              /\ behind' = behind \/ behind' = {b \in Actors : pc[b] # "idle"}
         /\ ReadLatest(a) \/ KeepVersion(a) \/ NewVersion(a) \/ SearchInVain(a) \/ SearchFinds(a)
              \/ RecordFailure(a) => UNCHANGED <<behind, misled>>
<1>1. ASSUME Learns(a)
      PROVE  /\ behind' = behind \ {a} /\ UNCHANGED <<row, seen, told>>
             /\ misled' = IF torn THEN misled \cup {a} ELSE misled \ {a}
  BY <1>1 DEF Learns, Starts, Select, Ask, Reads, Reread, ReadFresh, Begin, Read, tables
<1>2. Stops(a) => behind' = behind \ {a} /\ misled' = misled \ {a}
  BY DEF Stops, Busy, Release, End
<1>3. ASSUME Accident(a)
      PROVE  \/ behind' = behind \ {a} /\ misled' = misled \ {a} /\ pc'[a] = "idle"
             \/ UNCHANGED <<behind, misled, mem>> /\ pc[a] # "idle"
  <2>1. CASE End(a)
    BY <2>1, EndLeads DEF End, Turns
  <2>2. CASE ~End(a)
    BY <1>3, <2>2 DEF Accident, copies
  <2> QED
    BY <2>1, <2>2
<1>4. ASSUME Plain(a)
      PROVE  UNCHANGED misled /\ (behind' = behind \/ behind' = {b \in Actors : pc[b] # "idle"})
  <2>1. CASE SetStatus(a) \/ SaveEdit(a)
    BY <2>1 DEF SetStatus, SaveEdit, Tell, Overrule
  <2>2. CASE ~(SetStatus(a) \/ SaveEdit(a))
    BY <1>4, <2>2
       DEF Plain, Acquire, RefuseCompleted, VersionClash, Complete, RecordFare, Park, Announce,
           RecordNothing, Schedule, copies, history
  <2> QED
    BY <2>1, <2>2
<1>5. ReadLatest(a) \/ KeepVersion(a) \/ NewVersion(a) \/ SearchInVain(a) \/ SearchFinds(a)
        \/ RecordFailure(a) => UNCHANGED <<behind, misled>>
  BY DEF ReadLatest, KeepVersion, NewVersion, SearchInVain, SearchFinds, RecordFailure, copies, history
<1> QED
  BY <1>1, <1>2, <1>3, <1>4, <1>5

LEMMA CopyStep ==
  ASSUME TypeOK, [Next]_vars, NEW b \in Actors
  PROVE  Rests(b) \/ Learnt(b) \/ GoesOn(b)
<1> DEFINE Goal == Rests(b) \/ Learnt(b) \/ GoesOn(b)
<1>0. mem[b] \in Row
  BY Types DEF OwnType
<1>1. ASSUME mem'[b] = mem[b], pc'[b] = pc[b], b \in misled' <=> b \in misled,
             pc[b] # "idle" /\ b \in behind => b \in behind'
      PROVE  Goal
  BY <1>1 DEF Rests, GoesOn, Kin
<1>2. ASSUME pc[b] # "idle", Kin(mem[b], mem'[b]), UNCHANGED <<behind, misled>>
      PROVE  Goal
  BY <1>2 DEF GoesOn
<1>3. ASSUME Elsewhere
      PROVE  Goal
  <2>1. UNCHANGED <<pc, mem, behind, misled>>
    BY <1>3, ElsewhereLeads
       DEF own, Elsewhere, Expire, ComeDue, DatesPass, copies, history, vars
  <2> QED
    BY <1>1, <2>1
<1>4. ASSUME NEW a \in Actors, Learns(a)
      PROVE  Goal
  <2>1. Aside(a) /\ mem'[a] = row
    BY <1>4, SelectLeads, AskLeads, ReadsLeads DEF Learns, Starts, Turns
  <2>2. CASE b = a
    BY <1>4, <2>1, <2>2, CopiesLead DEF Learnt
  <2>3. CASE b # a
    BY <1>1, <1>4, <2>1, <2>3, CopiesLead DEF Aside
  <2> QED
    BY <2>2, <2>3
<1>5. ASSUME NEW a \in Actors, Stops(a)
      PROVE  Goal
  <2>1. Aside(a) /\ pc'[a] = "idle"
    BY <1>5, StopsLeads DEF Turns
  <2>2. CASE b = a
    BY <2>1, <2>2 DEF Rests
  <2>3. CASE b # a
    BY <1>1, <1>5, <2>1, <2>3, CopiesLead DEF Aside
  <2> QED
    BY <2>2, <2>3
<1>6. ASSUME NEW a \in Actors, Accident(a)
      PROVE  Goal
  <2>1. Aside(a)
    BY <1>6, AccidentLeads DEF Turns
  <2>2. CASE b = a
    BY <1>2, <1>6, <2>2, CopiesLead DEF Rests, Kin
  <2>3. CASE b # a
    BY <1>1, <1>6, <2>1, <2>3, CopiesLead DEF Aside
  <2> QED
    BY <2>2, <2>3
<1>7. ASSUME NEW a \in Actors, Plain(a)
      PROVE  Goal
  <2>1. Aside(a) /\ UNCHANGED mem
    BY <1>7, PlainLeads DEF Turns
  <2>2. UNCHANGED misled /\ (pc[b] # "idle" /\ b \in behind => b \in behind')
    BY <1>7, CopiesLead
  <2>3. CASE b = a
    <3>1. pc[a] # "idle"
      BY <1>7 DEF Plain, Acquire, SetStatus, RefuseCompleted, SaveEdit, VersionClash, Complete,
         RecordFare, Park, Announce, RecordNothing, Schedule
    <3> QED
      BY <2>1, <2>2, <2>3, <3>1 DEF GoesOn, Kin
  <2>4. CASE b # a
    BY <1>1, <2>1, <2>2, <2>4 DEF Aside
  <2> QED
    BY <2>3, <2>4
<1>8. ASSUME NEW a \in Actors,
             \/ ReadLatest(a) \/ KeepVersion(a) \/ NewVersion(a) \/ SearchInVain(a) \/ SearchFinds(a)
             \/ RecordFailure(a)
      PROVE  Goal
  <2>1. Aside(a)
    BY <1>8, ReadLatestLeads, KeepVersionLeads, NewVersionLeads, SearchInVainLeads, SearchFindsLeads,
       RecordFailureLeads DEF Turns
  <2>2. UNCHANGED <<behind, misled>>
    BY <1>8, CopiesLead
  <2>3. ASSUME b = a
        PROVE  Kin(mem[b], mem'[b])
    <3>1. CASE ReadLatest(a) \/ SearchInVain(a) \/ SearchFinds(a)
      BY <3>1 DEF ReadLatest, SearchInVain, SearchFinds, Kin
    <3>2. CASE KeepVersion(a)
      BY <1>0, <2>3, <3>2, KeepVersionLeads DEF Kin, Row
    <3>3. CASE NewVersion(a)
      BY <1>0, <2>3, <3>3, NewVersionLeads DEF Kin, InMemory, Row
    <3>4. CASE RecordFailure(a)
      BY <1>0, <2>3, <3>4, RecordFailureLeads DEF Kin, Row
    <3> QED
      BY <1>8, <3>1, <3>2, <3>3, <3>4
  <2>4. CASE b = a
    <3>1. pc[a] # "idle"
      BY <1>8 DEF ReadLatest, KeepVersion, NewVersion, SearchInVain, SearchFinds, RecordFailure
    <3> QED
      BY <1>2, <2>2, <2>3, <2>4, <3>1
  <2>5. CASE b # a
    BY <1>1, <2>1, <2>2, <2>5 DEF Aside
  <2> QED
    BY <2>4, <2>5
<1> HIDE DEF Goal
<1>9. Goal
  BY <1>3, <1>4, <1>5, <1>6, <1>7, <1>8
     DEF Next, Step, Plain, Stops, Reads, Learns, Starts, Elsewhere, Actors
<1> QED
  BY <1>9 DEF Goal

\* finalize with a fare, field by field.
LEMMA RecordFareWrites ==
  ASSUME TypeOK, Sound, NEW a \in Actors, RecordFare(a)
  PROVE  /\ row'.status = Revived(mem[a].status) /\ row'.conf = row.conf
         /\ row'.latest = best[a] /\ row'.low \in {best[a], mem[a].low}
<1>1. row \in Row
  BY Types
<1>2. PICK s \in Statuses :
        /\ s = Revived(mem[a].status)
        /\ \/ row' = [row EXCEPT !.latest = best[a], !.low = best[a],
                        !.lowFare = seen[best[a]].fare, !.failures = 0, !.status = s]
           \/ row' = [row EXCEPT !.latest = best[a], !.low = mem[a].low,
                        !.lowFare = mem[a].lowFare, !.failures = 0, !.status = s]
  BY RecordFareLeads
<1> QED
  BY <1>1, <1>2 DEF Row

-----------------------------------------------------------------------------
(* Comparisons.  A row that is not torn names observations of its own      *)
(* configuration, and so does the copy of an actor that read it whole:     *)
(* what it finds later is filed under that configuration too.              *)

Names(w) == {w.latest, w.low} \ {0}
Known(w, s) == Names(w) \subseteq 1..Len(s)
Own(w, s) == \A i \in Names(w) : s[i].conf = w.conf
WholeRow == Known(row, seen) /\ (~torn => Own(row, seen))
WholeCopy(a) ==
    pc[a] # "idle" => Known(mem[a], seen) /\ (a \notin misled => Own(mem[a], seen))
WholeFind(a) ==
    pc[a] = "finalize" /\ found[a] = "fare" => seen[best[a]].conf = mem[a].conf
WholePairs ==
    /\ \A c \in compared : c.fresh \in 1..Len(seen) /\ c.old \in 1..Len(seen)
    /\ ComparedWithinSeries
Whole == WholeRow /\ WholePairs /\ \A a \in Actors : WholeCopy(a) /\ WholeFind(a)

\* Observations stay what they are, so what names them names them still.
LEMMA NamesKept ==
  ASSUME TypeOK, [Next]_vars, NEW m, NEW w, Names(w) = Names(m)
  PROVE  /\ Known(m, seen) => Known(w, seen')
         /\ Known(m, seen) /\ Own(m, seen) /\ w.conf = m.conf => Own(w, seen')
BY LogsGrow DEF Known, Own

LEMMA WholeRowStep ==
  ASSUME TypeOK, Sound, Whole, [Next]_vars
  PROVE  WholeRow'
<1>0. row \in Row /\ Known(row, seen) /\ (~torn => Own(row, seen)) /\ torn \in BOOLEAN
  BY Types DEF Whole, WholeRow, TypeOK
<1>1. ASSUME row'.latest = row.latest, row'.low = row.low,
             ~torn' => ~torn /\ row'.conf = row.conf
      PROVE  WholeRow'
  <2>1. Names(row') = Names(row)
    BY <1>1 DEF Names
  <2>2. Known(row', seen') /\ (~torn' => Own(row', seen'))
    BY <1>0, <1>1, <2>1, NamesKept
  <2> QED
    BY <2>2 DEF WholeRow
<1>2. ASSUME NEW a \in Actors, RecordFare(a)
      PROVE  WholeRow'
  <2>1. /\ row'.latest = best[a] /\ row'.low \in {best[a], mem[a].low} /\ row'.conf = row.conf
        /\ UNCHANGED seen /\ best[a] \in 1..Len(seen)
    BY <1>2, RecordFareWrites, RecordFareLeads DEF RecordFare
  <2>2. /\ seen[best[a]].conf = mem[a].conf /\ Known(mem[a], seen)
        /\ a \notin misled => Own(mem[a], seen)
    BY <1>2 DEF RecordFare, Whole, WholeCopy, WholeFind
  <2>3. Known(row', seen)
    BY <2>1, <2>2 DEF Known, Names
  <2>4. ASSUME ~torn'
        PROVE  Own(row', seen)
    <3>1. a \notin misled /\ mem[a].conf = row.conf
      BY <1>2, <2>4 DEF RecordFare
    <3> QED
      BY <2>1, <2>2, <3>1 DEF Own, Names
  <2> QED
    BY <2>1, <2>3, <2>4 DEF WholeRow
<1>3. ASSUME NEW a \in Actors, NewVersion(a)
      PROVE  WholeRow'
  <2>1. row'.latest = 0 /\ row'.low = 0
    BY <1>0, <1>3 DEF NewVersion, NewSeries, Row
  <2> QED
    BY <2>1 DEF WholeRow, Known, Own, Names
<1>4. ASSUME NEW a \in Actors, SaveEdit(a)
      PROVE  WholeRow'
  <2>1. row'.conf = want[a] /\ row'.latest = row.latest /\ row'.low = row.low
    BY <1>4, RowLeads DEF Sets, KeepsSummary
  <2>2. torn' = (torn \/ want[a] # row.conf)
    BY <1>4 DEF SaveEdit
  <2> QED
    BY <1>1, <2>1, <2>2
<1>5. ASSUME NEW a \in Actors, KeepVersion(a)
      PROVE  WholeRow'
  <2>1. UNCHANGED torn /\ row'.conf = row.conf /\ row'.latest = row.latest /\ row'.low = row.low
    BY <1>0, <1>5 DEF KeepVersion, Row, told, history
  <2> QED
    BY <1>1, <2>1
<1>6. ASSUME NEW a \in Actors,
             \/ SetStatus(a) \/ Complete(a) \/ Park(a) \/ Schedule(a) \/ RecordNothing(a)
             \/ RecordFailure(a)
      PROVE  WholeRow'
  <2>1. row'.conf = row.conf /\ row'.latest = row.latest /\ row'.low = row.low
    BY <1>6, RowLeads DEF Sets, KeepsSummary
  <2>2. UNCHANGED torn
    BY <1>6 DEF SetStatus, Complete, Park, Schedule, RecordNothing, RecordFailure, told, history
  <2> QED
    BY <1>1, <2>1, <2>2
<1>7. ASSUME ComeDue
      PROVE  WholeRow'
  <2>1. row'.conf = row.conf /\ row'.latest = row.latest /\ row'.low = row.low /\ UNCHANGED torn
    BY <1>0, <1>7 DEF ComeDue, Row, told, history
  <2> QED
    BY <1>1, <2>1
<1>8. ASSUME UNCHANGED <<row, torn>>
      PROVE  WholeRow'
  BY <1>1, <1>8
<1>9. \/ UNCHANGED <<row, torn>> \/ ComeDue
      \/ \E a \in Actors :
           \/ RecordFare(a) \/ NewVersion(a) \/ SaveEdit(a) \/ KeepVersion(a) \/ SetStatus(a)
           \/ Complete(a) \/ Park(a) \/ Schedule(a) \/ RecordNothing(a) \/ RecordFailure(a)
  BY ZenonT(60)
     DEF Next, Step, Select, Ask, Acquire, Busy, Release, Reread, RefuseCompleted, ReadFresh,
         ReadLatest, VersionClash, SearchInVain, SearchFinds, Announce, Accident, Expire,
         DatesPass, tables, told, history, vars
<1> QED
  BY <1>2, <1>3, <1>4, <1>5, <1>6, <1>7, <1>8, <1>9

LEMMA WholeCopyStep ==
  ASSUME TypeOK, Sound, Whole, [Next]_vars, NEW b \in Actors
  PROVE  WholeCopy(b)'
<1>1. CASE Rests(b)
  BY <1>1 DEF Rests, WholeCopy
<1>2. CASE Learnt(b)
  <2>1. Known(row, seen) /\ (~torn => Own(row, seen))
    BY DEF Whole, WholeRow
  <2>2. Known(row, seen') /\ (~torn => Own(row, seen'))
    BY <2>1, NamesKept
  <2> QED
    BY <1>2, <2>2 DEF Learnt, WholeCopy
<1>3. CASE GoesOn(b)
  <2>1. Known(mem[b], seen) /\ (b \notin misled => Own(mem[b], seen))
    BY <1>3 DEF GoesOn, Whole, WholeCopy
  <2>2. Names(mem'[b]) = Names(mem[b]) /\ mem'[b].conf = mem[b].conf
    BY <1>3 DEF GoesOn, Kin, Names
  <2>3. Known(mem'[b], seen') /\ (b \notin misled => Own(mem'[b], seen'))
    BY <2>1, <2>2, NamesKept
  <2> QED
    BY <1>3, <2>3 DEF GoesOn, WholeCopy
<1> QED
  BY <1>1, <1>2, <1>3, CopyStep

\* A check makes its observation of the configuration it has read.
LEMMA WholeFindStep ==
  ASSUME TypeOK, Sound, Whole, [Next]_vars, NEW b \in Actors
  PROVE  WholeFind(b)'
<1> DEFINE Goal == WholeFind(b)'
<1>1. ASSUME pc'[b] = pc[b], found'[b] = found[b], best'[b] = best[b], mem'[b] = mem[b]
      PROVE  Goal
  <2>1. pc[b] = "finalize" /\ found[b] = "fare" =>
          best[b] \in 1..Len(seen) /\ seen[best[b]].conf = mem[b].conf
    BY DEF Whole, WholeFind, Sound, Held
  <2> QED
    BY <1>1, <2>1, LogsGrow DEF WholeFind
<1>2. ASSUME NEW a \in Actors, Aside(a), pc'[a] # "finalize" \/ found'[a] # "fare"
      PROVE  Goal
  BY <1>1, <1>2 DEF Aside, WholeFind
<1>3. ASSUME Elsewhere
      PROVE  Goal
  BY <1>1, <1>3, ElsewhereLeads DEF own
<1>4. ASSUME NEW a \in Actors, Learns(a) \/ Stops(a) \/ Accident(a) \/ ReadLatest(a)
                                 \/ RecordFailure(a)
      PROVE  Goal
  <2>1. Aside(a) /\ pc'[a] # "finalize"
    BY <1>4, SelectLeads, AskLeads, ReadsLeads, StopsLeads, AccidentLeads, ReadLatestLeads,
       RecordFailureLeads DEF Learns, Starts, Turns
  <2> QED
    BY <1>2, <2>1
<1>5. ASSUME NEW a \in Actors, KeepVersion(a) \/ NewVersion(a)
      PROVE  Goal
  <2>1. Aside(a) /\ pc'[a] # "finalize"
    BY <1>5, KeepVersionLeads, NewVersionLeads DEF Turns
  <2> QED
    BY <1>2, <2>1
<1>6. ASSUME NEW a \in Actors, Plain(a)
      PROVE  Goal
  <2>1. PICK p \in PCs : Go(a, p) /\ Turns(a, p)
    BY <1>6, PlainLeads
  <2>2. pc'[a] # "finalize"
    BY <1>6, Types
       DEF Plain, Acquire, SetStatus, RefuseCompleted, SaveEdit, VersionClash, Complete, RecordFare,
           Park, Announce, RecordNothing, Schedule, Entry, Go, OwnType
  <2> QED
    BY <1>2, <2>1, <2>2 DEF Turns
<1>7. ASSUME NEW a \in Actors, SearchInVain(a)
      PROVE  Goal
  <2>1. Aside(a) /\ found'[a] # "fare"
    BY <1>7, SearchInVainLeads DEF Turns
  <2> QED
    BY <1>2, <2>1
<1>8. ASSUME NEW a \in Actors, SearchFinds(a)
      PROVE  Goal
  <2>1. PICK o \in [cv : Nat, conf : Confs, fare : Fares] :
          o.conf = mem[a].conf /\ seen' = Append(seen, o)
    BY <1>8, SearchFindsLeads
  <2>2. seen'[Len(seen) + 1] = o
    BY <2>1, Types, Appended
  <2>3. Aside(a) /\ best'[a] = Len(seen) + 1 /\ mem'[a] = mem[a]
    BY <1>8, SearchFindsLeads DEF Turns
  <2>4. CASE b = a
    BY <2>1, <2>2, <2>3, <2>4 DEF WholeFind
  <2>5. CASE b # a
    BY <1>1, <2>3, <2>5 DEF Aside
  <2> QED
    BY <2>4, <2>5
<1> HIDE DEF Goal
<1>9. Goal
  BY <1>3, <1>4, <1>5, <1>6, <1>7, <1>8
     DEF Next, Step, Plain, Stops, Reads, Learns, Starts, Elsewhere, Actors
<1> QED
  BY <1>9 DEF Goal

LEMMA WholePairsStep ==
  ASSUME TypeOK, Sound, Whole, [Next]_vars
  PROVE  WholePairs'
<1>1. ASSUME NEW c \in compared
      PROVE  /\ c.fresh \in 1..Len(seen') /\ c.old \in 1..Len(seen')
             /\ ~c.misled => seen'[c.fresh].conf = seen'[c.old].conf
  <2>1. /\ c.fresh \in 1..Len(seen) /\ c.old \in 1..Len(seen)
        /\ ~c.misled => seen[c.fresh].conf = seen[c.old].conf
    BY DEF Whole, WholePairs, ComparedWithinSeries
  <2> QED
    BY <2>1, LogsGrow
<1>2. CASE UNCHANGED compared
  BY <1>1, <1>2 DEF WholePairs, ComparedWithinSeries
<1>3. ASSUME NEW a \in Actors, RecordFare(a)
      PROVE  WholePairs'
  <2>1. UNCHANGED seen /\ best[a] \in 1..Len(seen)
    BY <1>3, RecordFareLeads DEF RecordFare
  <2>2. /\ seen[best[a]].conf = mem[a].conf /\ Known(mem[a], seen)
        /\ a \notin misled => Own(mem[a], seen)
    BY <1>3 DEF RecordFare, Whole, WholeCopy, WholeFind
  <2>3. compared' = compared \cup
          {[fresh |-> best[a], old |-> old, misled |-> a \in misled] :
              old \in {mem[a].latest, mem[a].low} \ {0}}
    BY <1>3 DEF RecordFare
  <2>4. ASSUME NEW c \in compared'
        PROVE  /\ c.fresh \in 1..Len(seen') /\ c.old \in 1..Len(seen')
               /\ ~c.misled => seen'[c.fresh].conf = seen'[c.old].conf
    <3>1. CASE c \in compared
      BY <1>1, <3>1
    <3>2. CASE c \notin compared
      <4>1. PICK old \in Names(mem[a]) :
              c = [fresh |-> best[a], old |-> old, misled |-> a \in misled]
        BY <2>3, <2>4, <3>2 DEF Names
      <4>2. c.fresh = best[a] /\ c.old = old /\ (c.misled <=> a \in misled)
        BY <4>1
      <4>3. old \in 1..Len(seen) /\ (a \notin misled => seen[old].conf = mem[a].conf)
        BY <2>2, <4>1 DEF Known, Own
      <4> QED
        BY <2>1, <2>2, <4>2, <4>3
    <3> QED
      BY <3>1, <3>2
  <2> QED
    BY <2>4 DEF WholePairs, ComparedWithinSeries
<1> QED
  BY <1>2, <1>3, LogsStep

LEMMA WholeHolds == Spec => [](TypeOK /\ Sound /\ Whole)
<1>1. ASSUME Init
      PROVE  TypeOK /\ Sound /\ Whole
  <2>1. row.latest = 0 /\ row.low = 0
    BY <1>1 DEF Init, NewRow
  <2>2. compared = {} /\ \A a \in Actors : pc[a] = "idle"
    BY <1>1 DEF Init
  <2>3. Whole
    BY <2>1, <2>2 DEF Whole, WholeRow, WholeCopy, WholeFind, WholePairs, ComparedWithinSeries, Known,
       Own, Names
  <2> QED
    BY <1>1, <2>3, SoundInit
<1>2. TypeOK /\ Sound /\ Whole /\ [Next]_vars => (TypeOK /\ Sound /\ Whole)'
  BY SoundStep, WholeRowStep, WholeCopyStep, WholeFindStep, WholePairsStep DEF Whole
<1> QED
  BY <1>1, <1>2, PTL DEF Spec

\* Whatever checks and edits overlap, outlive their locks or die: a check compares its fare
\* with one of another configuration only if it read the row torn, after SaveEdit or a
\* check of another configuration and before transitionConfigVersion emptied it.  Its own
\* ids of a former series, which ensureConfigVersion leaves in memory (tracker.ts:157),
\* are such ids only then.
THEOREM ComparisonsAreFair == Spec => []ComparedWithinSeries
<1>1. TypeOK /\ Sound /\ Whole => ComparedWithinSeries
  BY DEF Whole, WholePairs
<1> QED
  BY <1>1, WholeHolds, PTL

-----------------------------------------------------------------------------
(* What the owner was told.  Until something overrules it, the status      *)
(* fits it, and so does every copy that was read since.                    *)

Fits(s, w) ==
    /\ w = "stop" => s \in {"paused", "completed"}
    /\ w = "run" => s \in {"active", "completed"}
Obedient ==
    /\ Fits(row.status, wish)
    /\ \A a \in Actors : pc[a] # "idle" /\ a \notin behind => Fits(mem[a].status, wish)

\* Who writes a status read since the owner was told writes one that fits.
LEMMA FitsKept ==
  ASSUME NEW s, NEW w, Fits(s, w)
  PROVE  Fits(Revived(s), w) /\ (s # "completed" => Fits(EditedStatus(s), w))
BY DEF Fits, Revived, EditedStatus

\* What the owner was told stays until he is told again or it is overruled; and the status
\* that a step leaves fits it.
Heard ==
    /\ Fits(row'.status, wish')
    /\ \/ wish' \in {wish, "overruled"}
       \/ \A b \in Actors : pc[b] # "idle" => b \in behind'

LEMMA HeardStep ==
  ASSUME TypeOK, Sound, Obedient, [Next]_vars
  PROVE  Heard
<1>0. row \in Row /\ Fits(row.status, wish)
  BY Types DEF Obedient
<1>1. ASSUME UNCHANGED wish, row'.status \in {row.status, "completed"}
      PROVE  Heard
  BY <1>0, <1>1 DEF Heard, Fits
\* A status written by one actor, whether it knows what the owner was told or not.
<1>2. ASSUME NEW a \in Actors, pc[a] # "idle", Overrule(a, row'.status),
             Fits(mem[a].status, wish) => Fits(row'.status, wish)
      PROVE  Heard
  <2>1. CASE a \in behind /\ row'.status # row.status
    BY <1>2, <2>1 DEF Overrule, Heard, Fits
  <2>2. CASE a \in behind /\ row'.status = row.status
    BY <1>0, <1>2, <2>2 DEF Overrule, Heard
  <2>3. CASE a \notin behind
    BY <1>2, <2>3 DEF Overrule, Heard, Obedient
  <2> QED
    BY <2>1, <2>2, <2>3
<1>3. ASSUME NEW a \in Actors, SetStatus(a)
      PROVE  Heard
  <2>1. Target(a) \in {"active", "paused"}
    BY <1>3 DEF SetStatus, Target
  <2>2. row'.status = Target(a) /\ Tell(IF Target(a) = "active" THEN "run" ELSE "stop")
    BY <1>3, RowLeads DEF SetStatus, Sets
  <2> QED
    BY <2>1, <2>2 DEF Tell, Heard, Fits
<1>4. ASSUME NEW a \in Actors, SaveEdit(a)
      PROVE  Heard
  <2>1. row'.status = EditedStatus(mem[a].status) /\ pc[a] # "idle"
    BY <1>4, RowLeads DEF SaveEdit, Sets
  <2>2. CASE mem[a].status = "completed"
    BY <1>4, <2>1, <2>2 DEF SaveEdit, EditedStatus, Tell, Heard, Fits
  <2>3. CASE mem[a].status # "completed"
    <3>1. Overrule(a, row'.status)
      BY <1>4, <2>1, <2>3 DEF SaveEdit
    <3> QED
      BY <1>2, <2>1, <2>3, <3>1, FitsKept
  <2> QED
    BY <2>2, <2>3
<1>5. ASSUME NEW a \in Actors, RecordFare(a)
      PROVE  Heard
  <2>1. row'.status = Revived(mem[a].status) /\ pc[a] # "idle"
    BY <1>5, RecordFareWrites DEF RecordFare
  <2>2. Overrule(a, row'.status)
    BY <1>5, <2>1 DEF RecordFare
  <2> QED
    BY <1>2, <2>1, <2>2, FitsKept
<1>6. ASSUME NEW a \in Actors, Park(a)
      PROVE  Heard
  BY <1>6 DEF Park, Heard, Fits
<1>7. ASSUME NEW a \in Actors,
             \/ Complete(a) \/ Schedule(a) \/ RecordNothing(a) \/ RecordFailure(a)
             \/ KeepVersion(a) \/ NewVersion(a)
      PROVE  Heard
  <2>1. row'.status \in {row.status, "completed"}
    BY <1>7, RowLeads, VersionKeepsStatus DEF Sets
  <2>2. UNCHANGED wish
    BY <1>7 DEF Complete, Schedule, RecordNothing, RecordFailure, KeepVersion, NewVersion, told,
       history
  <2> QED
    BY <1>1, <2>1, <2>2
<1>8. ASSUME ComeDue
      PROVE  Heard
  BY <1>0, <1>1, <1>8 DEF ComeDue, Row, told, history
<1>9. ASSUME UNCHANGED <<row, wish>>
      PROVE  Heard
  BY <1>1, <1>9
<1>10. \/ UNCHANGED <<row, wish>> \/ ComeDue
       \/ \E a \in Actors :
            \/ SetStatus(a) \/ SaveEdit(a) \/ RecordFare(a) \/ Park(a) \/ Complete(a) \/ Schedule(a)
            \/ RecordNothing(a) \/ RecordFailure(a) \/ KeepVersion(a) \/ NewVersion(a)
  BY ZenonT(60)
     DEF Next, Step, Select, Ask, Acquire, Busy, Release, Reread, RefuseCompleted, ReadFresh,
         ReadLatest, VersionClash, SearchInVain, SearchFinds, Announce, Accident, Expire,
         DatesPass, tables, told, history, vars
<1> QED
  BY <1>3, <1>4, <1>5, <1>6, <1>7, <1>8, <1>9, <1>10

LEMMA ObedientStep ==
  ASSUME TypeOK, Sound, Obedient, [Next]_vars
  PROVE  Obedient'
<1>1. Heard
  BY HeardStep
<1>2. ASSUME NEW b \in Actors, pc'[b] # "idle", b \notin behind'
      PROVE  Fits(mem'[b].status, wish')
  <2>1. CASE Learnt(b)
    BY <1>1, <2>1 DEF Learnt, Heard
  <2>2. CASE GoesOn(b)
    <3>1. /\ pc[b] # "idle" /\ b \notin behind /\ mem'[b].status = mem[b].status
          /\ wish' \in {wish, "overruled"}
      BY <1>1, <1>2, <2>2 DEF GoesOn, Kin, Heard
    <3>2. Fits(mem[b].status, wish)
      BY <3>1 DEF Obedient
    <3> QED
      BY <3>1, <3>2 DEF Fits
  <2> QED
    BY <1>2, <2>1, <2>2, CopyStep DEF Rests
<1> QED
  BY <1>1, <1>2 DEF Obedient, Heard

LEMMA ObedientHolds == Spec => [](TypeOK /\ Sound /\ Obedient)
<1>1. ASSUME Init
      PROVE  TypeOK /\ Sound /\ Obedient
  <2>1. row.status = "active"
    BY <1>1 DEF Init, NewRow
  <2>2. Obedient
    BY <1>1, <2>1 DEF Init, Obedient, Fits
  <2> QED
    BY <1>1, <2>2, SoundInit
<1>2. TypeOK /\ Sound /\ Obedient /\ [Next]_vars => (TypeOK /\ Sound /\ Obedient)'
  BY SoundStep, ObedientStep
<1> QED
  BY <1>1, <1>2, PTL DEF Spec

\* However many invocations overlap, outlive their locks or die: a tracker is not active
\* once its owner was told that it is paused, nor paused once he was told that it runs,
\* until failures park it or an invocation that had read the row before he was told writes
\* back another status (postRoute, TelegramBot, finalize).
THEOREM OwnerIsObeyed == Spec => []Obeyed
<1>1. TypeOK /\ Sound /\ Obedient => Obeyed
  BY DEF Obedient, Fits, Obeyed
<1> QED
  BY <1>1, ObedientHolds, PTL

-----------------------------------------------------------------------------
(* One invocation at a time.  While it is at work its copy of the row is   *)
(* that of the table, up to next_run_at, until it writes what it has       *)
(* computed; so what it computes is right for the row it writes.           *)

Alone == Overlap = FALSE /\ MaxCrashes = 0

Solo == \A a, b \in Actors : pc[a] # "idle" /\ pc[b] # "idle" => a = b

Same(m, w) ==
    /\ m.status = w.status /\ m.conf = w.conf /\ m.cv = w.cv /\ m.latest = w.latest
    /\ m.low = w.low /\ m.lowFare = w.lowFare /\ m.failures = w.failures
Holding == {"lock", "write", "latest", "version", "search", "finalize", "park"}
Copies ==
    \A a \in Actors :
        /\ pc[a] \in Holding => Same(mem[a], row)
        /\ pc[a] = "version" => latest[a] = Len(versions)

Editing(a) == op[a] = "edit" /\ pc[a] \in {"fresh", "latest", "version"}
Series ==
    /\ row.cv = Len(versions)
    /\ versions[row.cv] = row.conf \/ \E a \in Actors : Editing(a)

\* An observation that the row does not know yet: the last one.
Late(a) == pc[a] = "finalize" /\ found[a] = "fare"
Summary ==
    /\ row.latest \in 0..Len(seen) /\ row.low \in 0..Len(seen)
    /\ SummaryOfSeries
    /\ row.low # 0 => row.latest # 0
    /\ \A a \in Actors : Late(a) => best[a] = Len(seen)
LowKnown ==
    \A i \in 1..Len(seen) : seen[i].cv = row.cv =>
        \/ row.low # 0 /\ row.lowFare <= seen[i].fare
        \/ \E a \in Actors : Late(a) /\ best[a] = i

Told ==
    /\ \A a \in Actors : pc[a] = "announce" => parkings = notices + 1
    /\ (\A a \in Actors : pc[a] # "announce") => parkings = notices

\* Whatever happens is done by one actor while the others rest.
Others(a) == \A b \in Actors \ {a} : pc[b] = "idle" /\ pc'[b] = "idle"

LEMMA OneAtATime ==
  ASSUME TypeOK, Overlap = FALSE, Solo, [Next]_vars
  PROVE  Elsewhere \/ \E a \in Actors : Others(a) /\ (Starts(a) \/ Step(a) \/ Accident(a))
<1>1. ASSUME NEW a \in Actors, Starts(a)
      PROVE  Others(a)
  <2>1. Quiet /\ Aside(a)
    BY <1>1, SelectLeads, AskLeads DEF Starts, Select, Ask, MayBegin, Turns
  <2> QED
    BY <2>1 DEF Others, Quiet, Aside
<1>2. ASSUME NEW a \in Actors, Step(a)
      PROVE  Others(a)
  <2>1. Aside(a)
    BY <1>2, PlainLeads, StopsLeads, ReadsLeads, ReadLatestLeads, KeepVersionLeads, NewVersionLeads,
       SearchInVainLeads, SearchFindsLeads, RecordFailureLeads DEF Step, Plain, Stops, Reads, Turns
  <2>2. pc[a] # "idle"
    BY <1>2 DEF Step, Acquire, Busy, Release, Reread, SetStatus, RefuseCompleted, SaveEdit, ReadFresh,
       ReadLatest, KeepVersion, NewVersion, VersionClash, Complete, SearchInVain, SearchFinds,
       RecordFare, RecordFailure, Park, Announce, RecordNothing, Schedule
  <2> QED
    BY <2>1, <2>2 DEF Others, Solo, Aside
<1>3. ASSUME NEW a \in Actors, Accident(a)
      PROVE  Others(a)
  <2>1. Aside(a) /\ pc[a] # "idle"
    BY <1>3, AccidentLeads DEF Accident, Turns
  <2> QED
    BY <2>1 DEF Others, Solo, Aside
<1> QED
  BY <1>1, <1>2, <1>3 DEF Next, Elsewhere, Starts, Actors

LEMMA OneMoves ==
  ASSUME TypeOK, Alone, Solo, [Next]_vars
  PROVE  Elsewhere \/ \E a \in Actors : Others(a) /\ (Starts(a) \/ Step(a))
<1>1. ASSUME NEW a \in Actors, Accident(a)
      PROVE  FALSE
  BY <1>1 DEF Accident, Alone, TypeOK
<1> QED
  BY <1>1, OneAtATime DEF Alone

LEMMA SoloStep ==
  ASSUME TypeOK, Overlap = FALSE, Solo, [Next]_vars
  PROVE  Solo'
<1>1. CASE Elsewhere
  BY <1>1, ElsewhereLeads DEF own, Solo
<1>2. ASSUME NEW a \in Actors, Others(a)
      PROVE  Solo'
  BY <1>2 DEF Others, Solo
<1> QED
  BY <1>1, <1>2, OneAtATime

\* One invocation finds the version it has to, or appends it for the edit it is.
LEMMA VersionLeads ==
  ASSUME TypeOK, Sound, Alone, Solo, Copies, Series, NEW a \in Actors, Others(a)
  PROVE  /\ KeepVersion(a) => /\ UNCHANGED <<row, versions>> /\ versions[row.cv] = row.conf
                              /\ Same(mem'[a], row)
         /\ NewVersion(a) => /\ op[a] = "edit" /\ pc'[a] = "release"
                             /\ versions' = Append(versions, row.conf)
                             /\ row'.status = row.status /\ row'.conf = row.conf
                             /\ row'.cv = Len(versions) + 1 /\ row'.latest = 0 /\ row'.low = 0
                             /\ row'.lowFare = Null
         /\ ~VersionClash(a)
<1>1. row \in Row /\ mem[a] \in Row /\ Len(versions) \in Nat
  BY Types DEF OwnType
<1>2. ASSUME pc[a] = "version"
      PROVE  /\ Same(mem[a], row) /\ latest[a] = Len(versions) /\ row.cv = Len(versions)
             /\ versions[row.cv] = row.conf \/ op[a] = "edit"
  BY <1>2 DEF Copies, Series, Holding, Editing, Others
<1>3. ASSUME KeepVersion(a)
      PROVE  UNCHANGED <<row, versions>> /\ versions[row.cv] = row.conf /\ Same(mem'[a], row)
  <2>1. pc[a] = "version" /\ UNCHANGED versions
    BY <1>3 DEF KeepVersion
  <2>2. mem'[a] = [mem[a] EXCEPT !.cv = latest[a]]
    BY <1>3, KeepVersionLeads
  <2>3. UNCHANGED row
    BY <1>2, <1>3, <2>1 DEF KeepVersion, Same
  <2>4. versions[row.cv] = row.conf
    BY <1>2, <1>3, <2>1 DEF KeepVersion, SameSeries, Same
  <2>5. Same(mem'[a], row)
    BY <1>1, <1>2, <2>1, <2>2 DEF Same, Row
  <2> QED
    BY <2>1, <2>3, <2>4, <2>5
<1>4. ASSUME NewVersion(a)
      PROVE  /\ op[a] = "edit" /\ pc'[a] = "release"
             /\ versions' = Append(versions, row.conf)
             /\ row'.status = row.status /\ row'.conf = row.conf
             /\ row'.cv = Len(versions) + 1 /\ row'.latest = 0 /\ row'.low = 0
             /\ row'.lowFare = Null
  <2>1. pc[a] = "version" /\ versions[latest[a]] # mem[a].conf
    BY <1>4 DEF NewVersion, SameSeries
  <2>2. op[a] = "edit"
    BY <1>2, <2>1 DEF Same
  <2>3. pc'[a] = "release"
    BY <1>4, <2>2, NewVersionLeads DEF Turns
  <2>4. versions' = Append(versions, row.conf) /\ row.conf \in Confs
    BY <1>1, <1>2, <1>4, <2>1, RowFields DEF NewVersion, Same
  <2>5. Len(versions') = Len(versions) + 1
    BY <2>4, Types, Appended
  <2>6. row' = [NewSeries(row) EXCEPT !.cv = Len(versions) + 1]
    BY <1>4, <2>5 DEF NewVersion
  <2> QED
    BY <1>1, <2>2, <2>3, <2>4, <2>6 DEF NewSeries, Row
<1>5. ~VersionClash(a)
  BY <1>2 DEF VersionClash, VersionFree
<1> QED
  BY <1>3, <1>4, <1>5

\* Steps that leave the row alone.
Looks(a) ==
    Starts(a) \/ Acquire(a) \/ Stops(a) \/ Reads(a) \/ RefuseCompleted(a) \/ ReadLatest(a)
      \/ SearchInVain(a) \/ SearchFinds(a) \/ Announce(a)
LEMMA LooksLeads ==
  ASSUME NEW a \in Actors, Looks(a)
  PROVE  UNCHANGED <<row, versions>>
BY DEF Looks, Starts, Select, Ask, Acquire, Stops, Busy, Release, Reads, Reread, RefuseCompleted,
   ReadFresh, ReadLatest, SearchInVain, SearchFinds, Announce, tables

LEMMA CopiesStep ==
  ASSUME TypeOK, Sound, Alone, Solo, Copies, Series, [Next]_vars
  PROVE  Copies'
<1> DEFINE Goal == Copies'
<1>1. ASSUME Elsewhere
      PROVE  Goal
  <2>1. UNCHANGED <<pc, mem, latest, versions>>
    BY <1>1, ElsewhereLeads DEF own, Elsewhere, Expire, ComeDue, DatesPass, tables, vars
  <2>2. UNCHANGED row \/ ComeDue
    BY <1>1 DEF Elsewhere, Expire, DatesPass, tables, vars
  <2>3. \A a \in Actors : Same(mem[a], row) => Same(mem[a], row')
    BY <2>2, RowLeads DEF Same, Sets, KeepsSummary
  <2> QED
    BY <2>1, <2>3 DEF Copies
<1>2. ASSUME NEW a \in Actors, Others(a),
             pc'[a] \in Holding => Same(mem'[a], row'),
             pc'[a] = "version" => latest'[a] = Len(versions')
      PROVE  Goal
  BY <1>2 DEF Copies, Others, Holding
<1>3. ASSUME NEW a \in Actors, Others(a), Starts(a)
      PROVE  Goal
  <2>1. mem'[a] = row /\ UNCHANGED row /\ pc'[a] = "lock"
    BY <1>3, SelectLeads, AskLeads, LooksLeads DEF Starts, Looks, Turns
  <2> QED
    BY <1>2, <1>3, <2>1 DEF Same
<1>4. ASSUME NEW a \in Actors, Others(a), Acquire(a)
      PROVE  Goal
  <2>1. UNCHANGED <<mem, row>> /\ pc[a] = "lock"
    BY <1>4 DEF Acquire
  <2>2. pc'[a] \in {"latest", "write", "reread"}
    BY <1>4, Types DEF Acquire, Go, Entry, OwnType
  <2> QED
    BY <1>2, <1>4, <2>1, <2>2 DEF Copies, Holding
<1>5. ASSUME NEW a \in Actors, Others(a), Stops(a)
      PROVE  Goal
  BY <1>2, <1>5, StopsLeads DEF Turns, Holding
<1>6. ASSUME NEW a \in Actors, Others(a), Reads(a)
      PROVE  Goal
  <2>1. PICK p \in {"write", "latest"} : pc'[a] = p /\ mem'[a] = row
    BY <1>6, ReadsLeads DEF Turns
  <2> QED
    BY <1>2, <1>6, <2>1, LooksLeads DEF Looks, Same
<1>7. ASSUME NEW a \in Actors, Others(a),
             \/ SetStatus(a) \/ RefuseCompleted(a) \/ SaveEdit(a) \/ VersionClash(a) \/ Complete(a)
             \/ RecordFare(a) \/ Park(a) \/ Announce(a) \/ RecordNothing(a) \/ Schedule(a)
      PROVE  Goal
  <2>1. pc'[a] \in {"release", "fresh", "schedule", "announce"}
    BY <1>7, Types
       DEF SetStatus, RefuseCompleted, SaveEdit, VersionClash, Complete, RecordFare, Park, Announce,
           RecordNothing, Schedule, Go, OwnType
  <2> QED
    BY <1>2, <1>7, <2>1 DEF Holding
<1>8. ASSUME NEW a \in Actors, Others(a), ReadLatest(a)
      PROVE  Goal
  <2>1. Same(mem[a], row) /\ UNCHANGED <<row, versions>> /\ pc[a] = "latest"
    BY <1>8, LooksLeads DEF Looks, ReadLatest, Copies, Holding
  <2> QED
    BY <1>2, <1>8, <2>1, ReadLatestLeads
<1>9. ASSUME NEW a \in Actors, Others(a), KeepVersion(a)
      PROVE  Goal
  BY <1>2, <1>9, VersionLeads, KeepVersionLeads DEF Turns
<1>10. ASSUME NEW a \in Actors, Others(a), NewVersion(a)
       PROVE  Goal
  BY <1>2, <1>10, VersionLeads DEF Holding
<1>11. ASSUME NEW a \in Actors, Others(a), SearchInVain(a) \/ SearchFinds(a)
       PROVE  Goal
  <2>1. Same(mem[a], row) /\ UNCHANGED <<row, mem>> /\ pc'[a] # "version"
    BY <1>11, SearchInVainLeads, SearchFindsLeads, LooksLeads
       DEF Looks, SearchInVain, SearchFinds, Copies, Holding, Turns
  <2> QED
    BY <1>2, <1>11, <2>1
<1>12. ASSUME NEW a \in Actors, Others(a), RecordFailure(a)
       PROVE  Goal
  <2>1. PICK p \in {"park", "schedule"}, n \in 0..FailureLimit :
          /\ pc'[a] = p /\ mem'[a] = [mem[a] EXCEPT !.failures = n]
          /\ row' = [row EXCEPT !.failures = n]
    BY <1>12, RecordFailureLeads DEF Turns
  <2>2. Same(mem[a], row)
    BY <1>12 DEF RecordFailure, Copies, Holding
  <2>3. Same(mem'[a], row')
    BY <2>1, <2>2, Types DEF Same, Row, OwnType
  <2> QED
    BY <1>2, <1>12, <2>1, <2>3
<1> HIDE DEF Goal
<1>13. Goal
  BY <1>1, <1>3, <1>4, <1>5, <1>6, <1>7, <1>8, <1>9, <1>10, <1>11, <1>12, OneMoves
     DEF Step, Stops, Reads
<1> QED
  BY <1>13 DEF Goal

\* The row is that of its version but in the middle of an edit.
LEMMA SeriesStep ==
  ASSUME TypeOK, Sound, Alone, Solo, Copies, Series, [Next]_vars
  PROVE  Series'
<1> DEFINE Goal == Series'
<1>1. ASSUME UNCHANGED versions, row'.cv = row.cv, row'.conf = row.conf,
             \A b \in Actors : Editing(b) => Editing(b)'
      PROVE  Goal
  BY <1>1 DEF Series
<1>2. ASSUME NEW a \in Actors, Others(a), Editing(a) => Editing(a)'
      PROVE  \A b \in Actors : Editing(b) => Editing(b)'
  BY <1>2 DEF Others, Editing
<1>3. ASSUME Elsewhere
      PROVE  Goal
  <2>1. UNCHANGED <<versions, op, pc>> /\ row'.cv = row.cv /\ row'.conf = row.conf
    <3>1. UNCHANGED row \/ ComeDue
      BY <1>3 DEF Elsewhere, Expire, DatesPass, tables, vars
    <3>2. row'.cv = row.cv /\ row'.conf = row.conf
      BY <3>1, Types DEF ComeDue, Row
    <3> QED
      BY <1>3, <3>2, ElsewhereLeads DEF own, Elsewhere, Expire, ComeDue, DatesPass, tables, vars
  <2> QED
    BY <1>1, <2>1 DEF Editing
<1>4. ASSUME NEW a \in Actors, Others(a), Looks(a)
      PROVE  Goal
  <2>1. Editing(a) => Editing(a)'
    <3>1. ASSUME Editing(a)
          PROVE  Reads(a) \/ ReadLatest(a)
      BY <1>4, <3>1 DEF Looks, Starts, Select, Ask, Acquire, Stops, Busy, Release, RefuseCompleted,
         SearchInVain, SearchFinds, Announce, Editing
    <3>2. ASSUME Editing(a), Reads(a)
          PROVE  Editing(a)'
      BY <3>2, ReadsLeads, Types DEF Reads, Reread, ReadFresh, Go, Editing, OwnType
    <3>3. ASSUME Editing(a), ReadLatest(a)
          PROVE  Editing(a)'
      BY <3>3, ReadLatestLeads DEF Turns, Editing
    <3> QED
      BY <3>1, <3>2, <3>3
  <2> QED
    BY <1>1, <1>2, <1>4, <2>1, LooksLeads
<1>5. ASSUME NEW a \in Actors, Others(a),
             \/ SetStatus(a) \/ Complete(a) \/ Park(a) \/ Schedule(a) \/ RecordNothing(a)
             \/ RecordFailure(a)
      PROVE  Goal
  <2>1. row'.cv = row.cv /\ row'.conf = row.conf
    BY <1>5, RowLeads DEF Sets, KeepsSummary
  <2>2. UNCHANGED versions /\ ~Editing(a)
    BY <1>5 DEF SetStatus, Complete, Park, Schedule, RecordNothing, RecordFailure, Editing
  <2> QED
    BY <1>1, <1>2, <1>5, <2>1, <2>2
<1>6. ASSUME NEW a \in Actors, Others(a), RecordFare(a)
      PROVE  Goal
  <2>1. row'.cv = row.cv /\ row'.conf = row.conf
    BY <1>6, Types DEF RecordFare, Row
  <2>2. UNCHANGED versions /\ ~Editing(a)
    BY <1>6 DEF RecordFare, Editing
  <2> QED
    BY <1>1, <1>2, <1>6, <2>1, <2>2
<1>7. ASSUME NEW a \in Actors, Others(a), SaveEdit(a)
      PROVE  Goal
  <2>1. row'.cv = row.cv /\ UNCHANGED versions
    BY <1>7, RowLeads DEF SaveEdit, Sets, KeepsSummary
  <2>2. Editing(a)'
    BY <1>7, Types DEF SaveEdit, Go, Editing, OwnType
  <2> QED
    BY <2>1, <2>2 DEF Series
<1>8. ASSUME NEW a \in Actors, Others(a), KeepVersion(a)
      PROVE  Goal
  BY <1>8, VersionLeads DEF Series
<1>9. ASSUME NEW a \in Actors, Others(a), NewVersion(a)
      PROVE  Goal
  <2>1. versions' = Append(versions, row.conf) /\ row'.conf = row.conf /\ row'.cv = Len(versions) + 1
    BY <1>9, VersionLeads
  <2>2. row.conf \in Confs
    BY Types, RowFields
  <2> QED
    BY <2>1, <2>2, Types, Appended DEF Series
<1> HIDE DEF Goal
<1>10. Goal
  BY <1>3, <1>4, <1>5, <1>6, <1>7, <1>8, <1>9, VersionLeads, OneMoves
     DEF Step, Looks, Stops, Reads
<1> QED
  BY <1>10 DEF Goal

\* Most steps neither change what the row sums up nor make an observation.
SumsUpAsBefore ==
    /\ KeepsSummary /\ UNCHANGED seen
    /\ \A b \in Actors : (Late(b)' <=> Late(b)) /\ (Late(b) => best'[b] = best[b])

LEMMA OtherSteps ==
  ASSUME TypeOK, Sound, Alone, Solo, Copies, Series, [Next]_vars
  PROVE  \/ SumsUpAsBefore
         \/ \E a \in Actors : Others(a) /\ (SearchFinds(a) \/ RecordFare(a) \/ NewVersion(a))
<1> DEFINE Goal == \/ SumsUpAsBefore
                   \/ \E a \in Actors : Others(a) /\ (SearchFinds(a) \/ RecordFare(a) \/ NewVersion(a))
<1>1. ASSUME NEW a \in Actors, Others(a), KeepsSummary, UNCHANGED seen, ~Late(a), ~Late(a)'
      PROVE  Goal
  <2>1. ASSUME NEW b \in Actors \ {a}
        PROVE  ~Late(b) /\ ~Late(b)'
    BY <1>1 DEF Others, Late
  <2> QED
    BY <1>1, <2>1 DEF SumsUpAsBefore
<1>2. ASSUME Elsewhere
      PROVE  Goal
  <2>1. UNCHANGED <<pc, found, best, seen>>
    BY <1>2, ElsewhereLeads DEF own, Elsewhere, Expire, ComeDue, DatesPass, tables, vars
  <2>2. UNCHANGED row \/ ComeDue
    BY <1>2 DEF Elsewhere, Expire, DatesPass, tables, vars
  <2>3. KeepsSummary
    BY <2>2, Types DEF ComeDue, KeepsSummary, Row
  <2> QED
    BY <2>1, <2>3 DEF SumsUpAsBefore, Late
<1>3. ASSUME NEW a \in Actors, Others(a),
             Starts(a) \/ Acquire(a) \/ Stops(a) \/ Reads(a) \/ RefuseCompleted(a) \/ ReadLatest(a)
      PROVE  Goal
  <2>1. KeepsSummary /\ UNCHANGED seen
    BY <1>3, LooksLeads DEF Looks, KeepsSummary, Starts, Select, Ask, Acquire, Stops, Busy, Release,
       Reads, Reread, RefuseCompleted, ReadFresh, ReadLatest, tables
  <2>2. ~Late(a)
    BY <1>3 DEF Late, Starts, Select, Ask, Acquire, Stops, Busy, Release,
       Reads, Reread, RefuseCompleted, ReadFresh, ReadLatest
  <2>3. pc'[a] # "finalize"
    <3>1. CASE Starts(a)
      BY <3>1, SelectLeads, AskLeads DEF Starts, Turns
    <3>2. CASE Acquire(a) \/ RefuseCompleted(a)
      BY <3>2, Types DEF Acquire, RefuseCompleted, Entry, Go, OwnType
    <3>3. CASE Stops(a) \/ Reads(a) \/ ReadLatest(a)
      BY <3>3, StopsLeads, ReadsLeads, ReadLatestLeads DEF Turns
    <3> QED
      BY <1>3, <3>1, <3>2, <3>3
  <2> QED
    BY <1>1, <1>3, <2>1, <2>2, <2>3 DEF Late
<1>4. ASSUME NEW a \in Actors, Others(a), SearchInVain(a)
      PROVE  Goal
  <2>1. KeepsSummary /\ UNCHANGED seen /\ ~Late(a)
    BY <1>4 DEF SearchInVain, KeepsSummary, Late, tables
  <2>2. ~Late(a)'
    BY <1>4, SearchInVainLeads DEF Late
  <2> QED
    BY <1>1, <1>4, <2>1, <2>2
<1>5. ASSUME NEW a \in Actors, Others(a),
             \/ SetStatus(a) \/ SaveEdit(a) \/ Complete(a) \/ Park(a) \/ Announce(a) \/ Schedule(a)
             \/ RecordNothing(a) \/ RecordFailure(a)
      PROVE  Goal
  <2>1. KeepsSummary
    BY <1>5, RowLeads DEF Sets, Announce, KeepsSummary, tables
  <2>2. UNCHANGED seen /\ ~Late(a)
    BY <1>5 DEF SetStatus, SaveEdit, Complete, Park, Announce, Schedule, RecordNothing, RecordFailure,
       Late, tables
  <2>3. pc'[a] # "finalize"
    BY <1>5, Types
       DEF SetStatus, SaveEdit, Complete, Park, Announce, Schedule, RecordNothing, RecordFailure, Go,
           OwnType
  <2> QED
    BY <1>1, <1>5, <2>1, <2>2, <2>3 DEF Late
<1>6. ASSUME NEW a \in Actors, Others(a), KeepVersion(a)
      PROVE  Goal
  <2>1. KeepsSummary /\ UNCHANGED seen /\ ~Late(a)
    BY <1>6, VersionLeads DEF KeepVersion, KeepsSummary, Late
  <2>2. pc'[a] # "finalize"
    BY <1>6, KeepVersionLeads DEF Turns
  <2> QED
    BY <1>1, <1>6, <2>1, <2>2 DEF Late
<1>7. ASSUME NEW a \in Actors, Others(a), SearchFinds(a) \/ RecordFare(a) \/ NewVersion(a)
      PROVE  Goal
  BY <1>7
<1> HIDE DEF Goal
<1>8. Goal
  BY <1>2, <1>3, <1>4, <1>5, <1>6, <1>7, VersionLeads, OneMoves DEF Step, Stops, Reads
<1> QED
  BY <1>8 DEF Goal

\* What the row sums up is of its series, and its low the lowest, whatever the step.
LEMMA SummaryStep ==
  ASSUME TypeOK, Sound, Alone, Solo, Copies, Series, Summary, LowKnown, [Next]_vars
  PROVE  Summary' /\ LowKnown'
<1>0. Len(seen) \in Nat /\ row.latest \in Nat /\ row.low \in Nat /\ row.lowFare \in Nat \cup {Null}
      /\ Null \notin Nat /\ Len(versions) \in Nat
  BY Types, RowFields
<1>1. ASSUME SumsUpAsBefore
      PROVE  Summary' /\ LowKnown'
  <2>1. Summary'
    BY <1>1 DEF SumsUpAsBefore, KeepsSummary, Summary, SummaryOfSeries
  <2>2. LowKnown'
    BY <1>1 DEF SumsUpAsBefore, KeepsSummary, LowKnown
  <2> QED
    BY <2>1, <2>2
<1>2. ASSUME NEW a \in Actors, Others(a), SearchFinds(a)
      PROVE  Summary' /\ LowKnown'
  <2>1. PICK o \in [cv : Nat, conf : Confs, fare : Fares] : seen' = Append(seen, o)
    BY <1>2, SearchFindsLeads
  <2>2. Len(seen') = Len(seen) + 1 /\ \A i \in 1..Len(seen) : seen'[i] = seen[i]
    BY <2>1, Types, Appended
  <2>3. UNCHANGED row
    BY <1>2 DEF SearchFinds
  <2>4. Late(a)' /\ best'[a] = Len(seen')
    BY <1>2, <2>2, SearchFindsLeads DEF Turns, Late
  <2>5. \A b \in Actors : ~Late(b)
    BY <1>2 DEF Others, SearchFinds, Late
  <2>6. \A b \in Actors : Late(b)' => b = a
    BY <1>2 DEF Others, Late
  <2>7. row.latest \in 0..Len(seen) /\ row.low \in 0..Len(seen) /\ (row.low # 0 => row.latest # 0)
    BY DEF Summary
  <2>8. SummaryOfSeries'
    <3> DEFINE n == Len(seen)
    <3>1. n \in Nat /\ n + 1 = Len(seen') /\ UNCHANGED row
      BY <2>2, <2>3, Types
    <3> QED
      BY <1>0, <2>2, <2>7, <3>1, SMTT(30) DEF Summary, SummaryOfSeries
  <2>9. Summary'
    BY <1>0, <2>2, <2>3, <2>4, <2>6, <2>7, <2>8 DEF Summary
  <2>10. ASSUME NEW i \in 1..Len(seen'), seen'[i].cv = row'.cv
         PROVE  \/ row'.low # 0 /\ row'.lowFare <= seen'[i].fare
                \/ \E b \in Actors : Late(b)' /\ best'[b] = i
    <3>1. CASE i = Len(seen')
      BY <2>4, <3>1
    <3>2. CASE i \in 1..Len(seen)
      BY <2>2, <2>3, <2>5, <2>10, <3>2 DEF LowKnown
    <3> QED
      BY <1>0, <2>2, <3>1, <3>2
  <2> QED
    BY <2>9, <2>10 DEF LowKnown
<1>3. ASSUME NEW a \in Actors, Others(a), NewVersion(a)
      PROVE  Summary' /\ LowKnown'
  <2>1. row'.cv = Len(versions) + 1 /\ row'.latest = 0 /\ row'.low = 0 /\ row'.lowFare = Null
    BY <1>3, VersionLeads
  <2>2. UNCHANGED seen
    BY <1>3 DEF NewVersion
  <2>3. \A b \in Actors : ~Late(b)'
    BY <1>3, VersionLeads DEF Others, Late
  <2>4. Summary'
    BY <1>0, <2>1, <2>2, <2>3 DEF Summary, SummaryOfSeries
  <2>5. \A i \in 1..Len(seen) : seen[i].cv # Len(versions) + 1
    BY <1>0 DEF Sound, FiledUnderOwnSeries
  <2> QED
    BY <2>1, <2>2, <2>4, <2>5 DEF LowKnown
<1>4. ASSUME NEW a \in Actors, Others(a), RecordFare(a)
      PROVE  Summary' /\ LowKnown'
  <2> DEFINE fare == seen[best[a]].fare
  <2>1. best[a] \in 1..Len(seen) /\ fare \in Nat
    BY <1>4, RecordFareLeads
  <2>2. /\ Same(mem[a], row) /\ Late(a) /\ best[a] = Len(seen) /\ seen[best[a]].cv = row.cv
        /\ UNCHANGED seen
    <3>1. pc[a] = "finalize" /\ found[a] = "fare" /\ UNCHANGED seen
      BY <1>4 DEF RecordFare
    <3>2. Same(mem[a], row)
      BY <3>1 DEF Copies, Holding
    <3> QED
      BY <3>1, <3>2 DEF Late, Summary, Sound, Held, Same
  <2>3. row'.cv = row.cv /\ row'.latest = best[a]
    <3>1. PICK s \in Statuses :
            \/ row' = [row EXCEPT !.latest = best[a], !.low = best[a],
                         !.lowFare = seen[best[a]].fare, !.failures = 0, !.status = s]
            \/ row' = [row EXCEPT !.latest = best[a], !.low = mem[a].low,
                         !.lowFare = mem[a].lowFare, !.failures = 0, !.status = s]
      BY <1>4, RecordFareLeads
    <3>2. row \in Row
      BY Types
    <3> QED
      BY <3>1, <3>2 DEF Row
  <2>4. \/ Lower(fare, row.lowFare) /\ row'.low = best[a] /\ row'.lowFare = fare
        \/ ~Lower(fare, row.lowFare) /\ row'.low = row.low /\ row'.lowFare = row.lowFare
    <3>1. row \in Row /\ mem[a].low = row.low /\ mem[a].lowFare = row.lowFare
      BY <2>2, Types DEF Same
    <3>2. PICK s \in Statuses :
            \/ /\ Lower(seen[best[a]].fare, mem[a].lowFare)
               /\ row' = [row EXCEPT !.latest = best[a], !.low = best[a],
                            !.lowFare = seen[best[a]].fare, !.failures = 0, !.status = s]
            \/ /\ ~Lower(seen[best[a]].fare, mem[a].lowFare)
               /\ row' = [row EXCEPT !.latest = best[a], !.low = mem[a].low,
                            !.lowFare = mem[a].lowFare, !.failures = 0, !.status = s]
      BY <1>4, RecordFareLeads
    <3> QED
      BY <3>1, <3>2 DEF Row
  <2>5. \A b \in Actors : ~Late(b)'
    <3>1. pc'[a] = "schedule"
      BY <1>4, Types DEF RecordFare, Go, OwnType
    <3> QED
      BY <1>4, <3>1 DEF Others, Late
  <2>6. \A b \in Actors : Late(b) => b = a
    BY <1>4 DEF Others, Late
  <2> HIDE DEF fare
  <2>7. CASE Lower(fare, row.lowFare) /\ row'.low = best[a] /\ row'.lowFare = fare
    <3>1. SummaryOfSeries'
      BY <1>0, <2>1, <2>2, <2>3, <2>7 DEF SummaryOfSeries, fare
    <3>2. Summary'
      BY <1>0, <2>1, <2>2, <2>3, <2>5, <2>7, <3>1 DEF Summary
    <3>3. ASSUME NEW i \in 1..Len(seen), seen[i].cv = row.cv
          PROVE  fare <= seen[i].fare
      <4>1. CASE i = best[a]
        BY <2>1, <4>1 DEF fare
      <4>2. CASE i # best[a]
        <5>1. row.low # 0 /\ row.lowFare <= seen[i].fare
          BY <2>2, <2>6, <3>3, <4>2 DEF LowKnown
        <5>2. row.lowFare \in Nat /\ fare < row.lowFare
          BY <1>0, <2>7, <5>1 DEF Lower, Summary, SummaryOfSeries
        <5>3. seen[i].fare \in Nat
          <6>1. seen[i] \in [cv : Nat, conf : Confs, fare : Fares]
            BY Types, Elements
          <6> QED
            BY <6>1, Types
        <5> QED
          BY <2>1, <5>1, <5>2, <5>3
      <4> QED
        BY <4>1, <4>2
    <3> QED
      BY <2>1, <2>2, <2>3, <2>7, <3>2, <3>3 DEF LowKnown
  <2>8. CASE ~Lower(fare, row.lowFare) /\ row'.low = row.low /\ row'.lowFare = row.lowFare
    <3>1. row.low # 0 /\ row.lowFare \in Nat /\ row.lowFare <= fare
      BY <1>0, <2>1, <2>8 DEF Lower, Summary, SummaryOfSeries
    <3>2. SummaryOfSeries'
      BY <1>0, <2>1, <2>2, <2>3, <2>8, <3>1 DEF Summary, SummaryOfSeries, fare
    <3>3. Summary'
      BY <1>0, <2>1, <2>2, <2>3, <2>5, <2>8, <3>2 DEF Summary
    <3>4. ASSUME NEW i \in 1..Len(seen), seen[i].cv = row.cv
          PROVE  row.lowFare <= seen[i].fare
      <4>1. CASE i = best[a]
        BY <3>1, <4>1 DEF fare
      <4>2. CASE i # best[a]
        BY <2>2, <2>6, <3>4, <4>2 DEF LowKnown
      <4> QED
        BY <4>1, <4>2
    <3> QED
      BY <2>2, <2>3, <2>8, <3>1, <3>3, <3>4 DEF LowKnown
  <2> QED
    BY <2>4, <2>7, <2>8
<1> QED
  BY <1>1, <1>2, <1>3, <1>4, OtherSteps

\* The tracker is parked once for each announcement, but while its check is about to tell.
LEMMA ToldStep ==
  ASSUME TypeOK, Sound, Alone, Solo, Copies, Series, Told, [Next]_vars
  PROVE  Told'
<1> DEFINE Goal == Told'
<1>0. parkings \in Nat /\ notices \in Nat
  BY DEF TypeOK
<1>1. ASSUME Elsewhere
      PROVE  Goal
  BY <1>1, ElsewhereLeads DEF own, Told, Elsewhere, Expire, ComeDue, DatesPass, told, history, vars
<1>2. ASSUME NEW a \in Actors, Others(a), UNCHANGED <<parkings, notices>>, pc[a] # "announce",
             pc'[a] # "announce"
      PROVE  Goal
  BY <1>2 DEF Others, Told
<1>3. ASSUME NEW a \in Actors, Others(a), Announce(a)
      PROVE  Goal
  <2>1. pc[a] = "announce" /\ notices' = notices + 1 /\ UNCHANGED parkings
    BY <1>3 DEF Announce
  <2>2. pc'[a] = "schedule"
    BY <1>3, Types DEF Announce, Go, OwnType
  <2>3. \A b \in Actors : pc'[b] # "announce"
    BY <1>3, <2>2 DEF Others
  <2> QED
    BY <2>1, <2>3 DEF Told
<1>4. ASSUME NEW a \in Actors, Others(a), Park(a)
      PROVE  Goal
  <2>1. pc[a] = "park" /\ mem[a].status = row.status /\ UNCHANGED notices
    BY <1>4 DEF Park, Copies, Holding, Same
  <2>2. parkings = notices
    BY <1>4, <2>1 DEF Others, Told
  <2>3. CASE row.status = "error"
    <3>1. UNCHANGED parkings /\ Go(a, "schedule")
      BY <1>4, <2>1, <2>3 DEF Park, WasParked
    <3>2. pc'[a] = "schedule"
      BY <3>1, Types DEF Go, OwnType
    <3>3. \A b \in Actors : pc'[b] # "announce"
      BY <1>4, <3>2 DEF Others
    <3> QED
      BY <2>1, <2>2, <3>1, <3>3 DEF Told
  <2>4. CASE row.status # "error"
    <3>1. parkings' = parkings + 1 /\ Go(a, "announce")
      BY <1>4, <2>1, <2>4 DEF Park, WasParked
    <3>2. pc'[a] = "announce"
      BY <3>1, Types DEF Go, OwnType
    <3> QED
      BY <2>1, <2>2, <3>1, <3>2 DEF Told
  <2> QED
    BY <2>3, <2>4
<1>5. ASSUME NEW a \in Actors, Others(a), Starts(a) \/ Acquire(a) \/ Stops(a) \/ Reads(a)
      PROVE  Goal
  <2>1. UNCHANGED <<parkings, notices>> /\ pc[a] # "announce"
    BY <1>5 DEF Starts, Select, Ask, Acquire, Stops, Busy, Release, Reads, Reread, ReadFresh, told, history
  <2>2. pc'[a] # "announce"
    <3>1. CASE Starts(a)
      BY <3>1, SelectLeads, AskLeads DEF Starts, Turns
    <3>2. CASE Acquire(a)
      BY <3>2, Types DEF Acquire, Entry, Go, OwnType
    <3>3. CASE Stops(a) \/ Reads(a)
      BY <3>3, StopsLeads, ReadsLeads DEF Turns
    <3> QED
      BY <1>5, <3>1, <3>2, <3>3
  <2> QED
    BY <1>2, <1>5, <2>1, <2>2
<1>6. ASSUME NEW a \in Actors, Others(a),
             \/ SetStatus(a) \/ RefuseCompleted(a) \/ SaveEdit(a) \/ VersionClash(a) \/ Complete(a)
             \/ RecordFare(a) \/ RecordNothing(a) \/ Schedule(a)
      PROVE  Goal
  <2>1. UNCHANGED <<parkings, notices>> /\ pc[a] # "announce"
    BY <1>6 DEF SetStatus, RefuseCompleted, SaveEdit, VersionClash, Complete, RecordFare,
       RecordNothing, Schedule, told, history
  <2>2. pc'[a] # "announce"
    BY <1>6, Types DEF SetStatus, RefuseCompleted, SaveEdit, VersionClash, Complete, RecordFare,
       RecordNothing, Schedule, Go, OwnType
  <2> QED
    BY <1>2, <1>6, <2>1, <2>2
<1>7. ASSUME NEW a \in Actors, Others(a),
             \/ ReadLatest(a) \/ KeepVersion(a) \/ NewVersion(a) \/ SearchInVain(a) \/ SearchFinds(a)
             \/ RecordFailure(a)
      PROVE  Goal
  <2>1. UNCHANGED <<parkings, notices>> /\ pc[a] # "announce"
    BY <1>7 DEF ReadLatest, KeepVersion, NewVersion, SearchInVain, SearchFinds, RecordFailure, told, history
  <2>2. pc'[a] # "announce"
    BY <1>7, ReadLatestLeads, KeepVersionLeads, NewVersionLeads, SearchInVainLeads, SearchFindsLeads,
       RecordFailureLeads DEF Turns
  <2> QED
    BY <1>2, <1>7, <2>1, <2>2
<1> HIDE DEF Goal
<1>8. Goal
  BY <1>1, <1>3, <1>4, <1>5, <1>6, <1>7, OneMoves DEF Step, Stops, Reads
<1> QED
  BY <1>8 DEF Goal

-----------------------------------------------------------------------------
OneSeries ==
    Solo /\ Copies /\ Series /\ Summary /\ LowKnown /\ Told

LEMMA OneSeriesInit == Init => OneSeries
<1> SUFFICES ASSUME Init
             PROVE  OneSeries
  OBVIOUS
<1>1. PICK k \in Confs : row = NewRow(k) /\ versions = <<k>>
  BY DEF Init
<1>2. /\ row.cv = 1 /\ row.conf = k /\ row.latest = 0 /\ row.low = 0 /\ row.lowFare = Null
      /\ row.status = "active" /\ Len(versions) = 1 /\ versions[1] = k
  BY <1>1 DEF NewRow
<1>3. /\ seen = <<>> /\ parkings = 0 /\ notices = 0
      /\ \A a \in Actors : pc[a] = "idle"
  BY DEF Init
<1>4. Solo /\ Copies
  BY <1>3 DEF Solo, Copies, Holding
<1>5. Series
  BY <1>2 DEF Series
<1>6. Summary /\ LowKnown
  BY <1>2, <1>3 DEF Summary, SummaryOfSeries, LowKnown, Late
<1>7. Told
  BY <1>3 DEF Told
<1> QED
  BY <1>4, <1>5, <1>6, <1>7 DEF OneSeries

\* While one invocation runs at a time and none dies, OneSeries is inductive.
LEMMA OneSeriesHolds ==
  ASSUME Alone
  PROVE  Spec => [](TypeOK /\ Sound /\ OneSeries)
<1>1. Init => TypeOK /\ Sound /\ OneSeries
  BY SoundInit, OneSeriesInit
<1>2. ASSUME TypeOK, Sound, OneSeries, [Next]_vars
      PROVE  TypeOK' /\ Sound' /\ OneSeries'
  <2>1. Solo /\ Copies /\ Series /\ Summary /\ LowKnown /\ Told
    BY <1>2 DEF OneSeries
  <2>2. TypeOK' /\ Sound'
    BY <1>2, SoundStep
  <2>3. Solo' /\ Copies' /\ Series'
    BY <1>2, <2>1, SoloStep, CopiesStep, SeriesStep DEF Alone
  <2>4. Summary' /\ LowKnown'
    BY <1>2, <2>1, SummaryStep
  <2>5. Told'
    BY <1>2, <2>1, ToldStep
  <2> QED
    BY <2>2, <2>3, <2>4, <2>5 DEF OneSeries
<1> QED
  BY <1>1, <1>2, PTL DEF Spec

\* One invocation at a time: the summaries of the row are observations of its current
\* series and its low is one of them (finalize, transitionConfigVersion), and between
\* operations its configuration is that of its version (ensureConfigVersion).
THEOREM RowIsOneSeries ==
  ASSUME Alone
  PROVE  Spec => []SeriesInv
<1>1. TypeOK /\ Sound /\ OneSeries => SeriesInv
  BY DEF OneSeries, Summary, Series, SeriesInv, VersionOfConf, Quiet, Editing
<1> QED
  BY <1>1, OneSeriesHolds, PTL

\* One invocation at a time: once checks are over, the low of the row is the lowest fare its
\* series ever saw, for any number of checks, failures, pauses and edits (finalize).
THEOREM LowIsTheLowest ==
  ASSUME Alone
  PROVE  Spec => []LowIsLowest
<1>1. TypeOK /\ Sound /\ OneSeries => LowIsLowest
  BY DEF OneSeries, LowKnown, LowIsLowest, Quiet, Late
<1> QED
  BY <1>1, OneSeriesHolds, PTL

\* One invocation at a time: the owner is told of a parked tracker once for each time it
\* becomes one (finalize, announceParked).
THEOREM ParkingsAreAnnounced ==
  ASSUME Alone
  PROVE  Spec => []AnnouncedOnce
<1>1. TypeOK /\ Sound /\ OneSeries => AnnouncedOnce
  <2> SUFFICES ASSUME Told, Quiet
               PROVE  notices = parkings
    BY DEF OneSeries, AnnouncedOnce
  <2> QED
    BY DEF Told, Quiet
<1> QED
  BY <1>1, OneSeriesHolds, PTL

=============================================================================
