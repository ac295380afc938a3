------------------------- MODULE AlertDeliveryProofs -------------------------
(***************************************************************************)
(* Proofs about AlertDelivery, for any checks, sweeps, findings and        *)
(* limits.                                                                 *)
(***************************************************************************)
EXTENDS AlertDelivery, FiniteSetTheorems, TLAPS

-----------------------------------------------------------------------------
(* Types.                                                                  *)

\* The retry delay doubles: a power of two is the size of a set of subsets.
LEMMA PowerOfTwo == \A n \in Nat : 2^n \in Nat
<1> TAKE n \in Nat
<1>1. IsFiniteSet(1..n) /\ Cardinality(1..n) = n
  BY FS_Interval
<1>2. IsFiniteSet(SUBSET (1..n)) /\ Cardinality(SUBSET (1..n)) = 2^n
  BY <1>1, FS_SUBSET
<1> QED
  BY <1>2, FS_CardinalityType

LEMMA DelayType ==
  ASSUME NEW n \in Nat \ {0}, NEW after \in RetryAfters
  PROVE  Delay(n, after) \in Nat
<1> DEFINE p == 2^(n - 1)
<1>1. p \in Nat
  BY PowerOfTwo
<1> HIDE DEF p
<1>2. Base * p \in Nat
  BY <1>1, LimitsAssumption
<1>3. after \in Nat /\ MaxDelay \in Nat
  BY LimitsAssumption
<1>4. MinOf(MaxDelay, MaxOf(after, Base * p)) \in Nat
  BY <1>2, <1>3 DEF MinOf, MaxOf
<1> QED
  BY <1>4 DEF Delay, p

LEMMA BornType == \A f \in Findings :
    Cardinality({g \in Findings : state[g] # "absent"}) \in Nat
BY FS_Subset, FS_CardinalityType, ActorsAssumption

\* A row that exists has been claimed at least once.
Started == \A f \in Findings : state[f] # "absent" => attempts[f] >= 1

\* A busy worker is busy with a finding, and with one it no longer has to do.
JobsHeld ==
    \A w \in Workers :
        /\ phase[w] \in {"cooldown", "send", "record"} => job[w] \in Findings
        /\ phase[w] = "record" => answer[w] \in Answers
        /\ w \in Sweeps => phase[w] # "cooldown"
        /\ w \in Sweeps /\ phase[w] \in {"send", "record"} => job[w] \notin jobs[w]

Shape == TypeOK /\ Started /\ JobsHeld

LEMMA ShapeInit == Init => Shape
BY LimitsAssumption DEF Init, Shape, TypeOK, Started, JobsHeld, States, Phases, Answers

LEMMA ShapeRecord ==
  ASSUME Shape, NEW w \in Workers, Record(w)
  PROVE  TypeOK'
<1> DEFINE f == job[w]
           again == WorthRetrying(answer[w], attempts[f])
<1>1. f \in Findings /\ answer[w] \in Answers
  BY DEF Record, Shape, JobsHeld
<1>2. attempts[f] \in Nat \ {0}
  BY <1>1, LimitsAssumption DEF Record, StillOwned, Shape, Started, TypeOK
<1>3. again \in BOOLEAN
  BY DEF WorthRetrying
<1>4. Verdict(answer[w]) \in States
  BY <1>1 DEF Verdict, States, Answers, Replies
<1>5. wait' \in [Findings -> Nat]
  <2> PICK after \in RetryAfters :
        wait' = [wait EXCEPT ![f] = IF again THEN Delay(attempts[f], after) ELSE 0]
    BY DEF Record
  <2>1. Delay(attempts[f], after) \in Nat
    BY <1>2, DelayType
  <2> QED
    BY <2>1 DEF Shape, TypeOK
<1>6. CoolFor \in 0..Cooldown + 1
  BY LimitsAssumption DEF CoolFor
<1> HIDE DEF f, again
<1>7. /\ state' = [state EXCEPT ![f] = Verdict(answer[w])]
      /\ retryable' = [retryable EXCEPT ![f] = again]
      /\ cool' = [cool EXCEPT ![f] = IF answer[w] = "ok" THEN CoolFor ELSE 0]
      /\ owner' = [owner EXCEPT ![f] = Null]
      /\ lease' = [lease EXCEPT ![f] = 0]
      /\ phase' = [phase EXCEPT ![w] = "next"]
      /\ job' = [job EXCEPT ![w] = Null]
      /\ answer' = [answer EXCEPT ![w] = Null]
      /\ UNCHANGED <<attempts, born, seen, jobs, crashes, tries, accepted, by>>
  BY DEF Record, PutDown, Go, ghostVars, f, again
<1>8. /\ (IF answer[w] = "ok" THEN CoolFor ELSE 0) \in 0..Cooldown + 1
      /\ 0 \in 0..ClaimTTL
      /\ "next" \in Phases
  BY <1>6, LimitsAssumption DEF Phases
<1> USE DEF Shape, TypeOK
<1>9. /\ state' \in [Findings -> States]
      /\ retryable' \in [Findings -> BOOLEAN]
      /\ owner' \in [Findings -> Workers \cup {Null}]
      /\ lease' \in [Findings -> 0..ClaimTTL]
      /\ cool' \in [Findings -> 0..Cooldown + 1]
  BY <1>3, <1>4, <1>7, <1>8
<1>10. /\ phase' \in [Workers -> Phases]
       /\ job' \in [Workers -> Findings \cup {Null}]
       /\ answer' \in [Workers -> Answers \cup {Null}]
  BY <1>7, <1>8
<1> QED
  BY <1>5, <1>7, <1>9, <1>10

\* The type of every variable is kept by each step.
LEMMA TypeStep == Shape /\ [Next]_vars => TypeOK'
<1> SUFFICES ASSUME Shape, [Next]_vars PROVE TypeOK'
  OBVIOUS
<1> TypeOK /\ JobsHeld
  BY DEF Shape
<1> USE LimitsAssumption, ActorsAssumption DEF TypeOK, States, Phases, Answers, Replies, Workers,
        rowVars, workVars, ghostVars
<1>1. ASSUME NEW c \in Checks, Observe(c) PROVE TypeOK'
  BY <1>1, FindingsAssumption DEF Observe, Go
<1>2. ASSUME NEW c \in Checks, NEW f \in Findings, Insert(c, f) PROVE TypeOK'
  BY <1>2, BornType, SMTT(60) DEF Insert, Go, Answer
<1>3. ASSUME NEW c \in Checks, NEW f \in Findings, Duplicate(c, f) PROVE TypeOK'
  BY <1>3 DEF Duplicate
<1>4. ASSUME NEW c \in Checks, CheckCooldown(c) PROVE TypeOK'
  <2>1. /\ UNCHANGED <<rowVars, seen, jobs, job, crashes, ghostVars>>
        /\ \/ Answer(c, "cooldown")
           \/ Answer(c, "unconfigured")
           \/ Go(c, "send") /\ UNCHANGED answer
    BY <1>4 DEF CheckCooldown
  <2> QED
    BY <2>1 DEF Go, Answer
<1>5. ASSUME NEW w \in Workers, Transmit(w) PROVE TypeOK'
  BY <1>5 DEF Transmit, Go, Answer, JobsHeld
<1>6. ASSUME NEW w \in Workers, Record(w) PROVE TypeOK'
  BY <1>6, ShapeRecord
<1>7. ASSUME NEW w \in Workers, LoseClaim(w) PROVE TypeOK'
  BY <1>7 DEF LoseClaim, PutDown, Go
<1>8. ASSUME NEW w \in Workers, Finish(w) PROVE TypeOK'
  BY <1>8 DEF Finish, Go, Rest
<1>9. ASSUME NEW r \in Sweeps, MarkExpired(r) PROVE TypeOK'
  BY <1>9 DEF MarkExpired, Go
<1>10. ASSUME NEW r \in Sweeps, Claim(r) PROVE TypeOK'
  BY <1>10 DEF Claim, Go, NextAttempt, Eligible, Oldest
<1>11. ASSUME NEW r \in Sweeps, NEW f \in Findings, Take(r, f) PROVE TypeOK'
  BY <1>11 DEF Take, Go
<1>12. ASSUME NEW w \in Workers, Crash(w) PROVE TypeOK'
  BY <1>12 DEF Crash, Go, Rest
<1>13. CASE Tick
  BY <1>13 DEF Tick, Left
<1>14. CASE UNCHANGED vars
  BY <1>14 DEF vars
<1> QED
  BY <1>1, <1>2, <1>3, <1>4, <1>5, <1>6, <1>7, <1>8, <1>9, <1>10, <1>11, <1>12, <1>13, <1>14
  DEF Next, CheckStep, SweepStep, Deliver

\* So is what the workers are known to hold.
LEMMA ShapeStep == Shape /\ [Next]_vars => Shape'
<1> SUFFICES ASSUME Shape, [Next]_vars PROVE Started' /\ JobsHeld'
  BY TypeStep DEF Shape
<1> TypeOK /\ Started /\ JobsHeld
  BY DEF Shape
<1> USE LimitsAssumption, ActorsAssumption DEF TypeOK, Started, JobsHeld, Answers, Replies, Workers,
        rowVars, workVars, ghostVars
<1>1. ASSUME NEW c \in Checks, Observe(c) PROVE Started' /\ JobsHeld'
  BY <1>1 DEF Observe, Go
<1>2. ASSUME NEW c \in Checks, NEW f \in Findings, Insert(c, f) PROVE Started' /\ JobsHeld'
  BY <1>2 DEF Insert, Go, Answer
<1>3. ASSUME NEW c \in Checks, NEW f \in Findings, Duplicate(c, f) PROVE Started' /\ JobsHeld'
  BY <1>3 DEF Duplicate
<1>4. ASSUME NEW c \in Checks, CheckCooldown(c) PROVE Started' /\ JobsHeld'
  <2>1. /\ phase[c] = "cooldown"
        /\ UNCHANGED <<rowVars, seen, jobs, job, crashes, ghostVars>>
        /\ \/ Answer(c, "cooldown")
           \/ Answer(c, "unconfigured")
           \/ Go(c, "send") /\ UNCHANGED answer
    BY <1>4 DEF CheckCooldown
  <2> QED
    BY <2>1 DEF Go, Answer
<1>5. ASSUME NEW w \in Workers, Transmit(w) PROVE Started' /\ JobsHeld'
  BY <1>5 DEF Transmit, Go, Answer
<1>6. ASSUME NEW w \in Workers, Record(w) PROVE Started' /\ JobsHeld'
  BY <1>6 DEF Record, PutDown, Go, StillOwned
<1>7. ASSUME NEW w \in Workers, LoseClaim(w) PROVE Started' /\ JobsHeld'
  BY <1>7 DEF LoseClaim, PutDown, Go
<1>8. ASSUME NEW w \in Workers, Finish(w) PROVE Started' /\ JobsHeld'
  BY <1>8 DEF Finish, Go, Rest
<1>9. ASSUME NEW r \in Sweeps, MarkExpired(r) PROVE Started' /\ JobsHeld'
  BY <1>9 DEF MarkExpired, Go, Expired
<1>10. ASSUME NEW r \in Sweeps, Claim(r) PROVE Started' /\ JobsHeld'
  BY <1>10 DEF Claim, Go, NextAttempt, Eligible, Oldest
<1>11. ASSUME NEW r \in Sweeps, NEW f \in Findings, Take(r, f) PROVE Started' /\ JobsHeld'
  BY <1>11 DEF Take, Go
<1>12. ASSUME NEW w \in Workers, Crash(w) PROVE Started' /\ JobsHeld'
  BY <1>12 DEF Crash, Go, Rest
<1>13. CASE Tick
  BY <1>13 DEF Tick
<1>14. CASE UNCHANGED vars
  BY <1>14 DEF vars
<1> QED
  BY <1>1, <1>2, <1>3, <1>4, <1>5, <1>6, <1>7, <1>8, <1>9, <1>10, <1>11, <1>12, <1>13, <1>14
  DEF Next, CheckStep, SweepStep, Deliver

-----------------------------------------------------------------------------
(* Who holds a finding.                                                    *)

\* What a worker holds and has not sent yet.
Unsent(w) == (IF w \in Sweeps THEN jobs[w] ELSE {}) \cup
             (IF phase[w] \in {"cooldown", "send"} THEN {job[w]} ELSE {})

\* A step of these kinds gives no worker a finding it did not hold.
Handing(w) == \/ w \in Checks /\ (Observe(w) \/ (\E f \in Findings : Duplicate(w, f)) \/ CheckCooldown(w))
              \/ w \in Sweeps /\ (MarkExpired(w) \/ (\E f \in Findings : Take(w, f)))
              \/ Transmit(w) \/ Record(w) \/ LoseClaim(w) \/ Finish(w) \/ Crash(w)

LEMMA HeldIsFinding ==
  ASSUME Shape, NEW w \in Workers
  PROVE  ToSend(w) \subseteq Findings /\ Unsent(w) \subseteq ToSend(w)
BY DEF Shape, TypeOK, JobsHeld, ToSend, Unsent, Workers

LEMMA OthersKeep ==
  ASSUME Shape, NEW w \in Workers, Handing(w), NEW v \in Workers \ {w}
  PROVE  ToSend(v)' = ToSend(v) /\ Unsent(v)' = Unsent(v)
<1>1. phase'[v] = phase[v] /\ job'[v] = job[v] /\ jobs'[v] = jobs[v]
  BY DEF Handing, Observe, Duplicate, CheckCooldown, MarkExpired, Take, Transmit, Record, LoseClaim,
         Finish, Crash, PutDown, Go, Answer, Shape, TypeOK
<1> QED
  BY <1>1 DEF ToSend, Unsent

LEMMA HolderKeeps ==
  ASSUME Shape, NEW w \in Workers, Handing(w)
  PROVE  ToSend(w)' \subseteq ToSend(w) /\ Unsent(w)' \subseteq Unsent(w)
<1> USE DEF Shape, TypeOK, JobsHeld, ToSend, Unsent, Workers
<1> USE ActorsAssumption
<1>1. ASSUME w \in Checks, Observe(w) PROVE ToSend(w)' \subseteq ToSend(w) /\ Unsent(w)' \subseteq Unsent(w)
  BY <1>1 DEF Observe, Go
<1>2. ASSUME w \in Checks, NEW f \in Findings, Duplicate(w, f)
      PROVE  ToSend(w)' \subseteq ToSend(w) /\ Unsent(w)' \subseteq Unsent(w)
  BY <1>2 DEF Duplicate
<1>3. ASSUME w \in Checks, CheckCooldown(w) PROVE ToSend(w)' \subseteq ToSend(w) /\ Unsent(w)' \subseteq Unsent(w)
  <2>1. /\ phase[w] = "cooldown"
        /\ UNCHANGED <<jobs, job>>
        /\ phase'[w] \in {"record", "send"}
    BY <1>3 DEF CheckCooldown, Go, Answer
  <2> QED
    BY <2>1, <1>3
<1>4. ASSUME w \in Sweeps, MarkExpired(w) PROVE ToSend(w)' \subseteq ToSend(w) /\ Unsent(w)' \subseteq Unsent(w)
  BY <1>4 DEF MarkExpired, Go
<1>5. ASSUME w \in Sweeps, NEW f \in Findings, Take(w, f)
      PROVE  ToSend(w)' \subseteq ToSend(w) /\ Unsent(w)' \subseteq Unsent(w)
  BY <1>5 DEF Take, Go
<1>6. ASSUME Transmit(w) PROVE ToSend(w)' \subseteq ToSend(w) /\ Unsent(w)' \subseteq Unsent(w)
  BY <1>6 DEF Transmit, Go, Answer
<1>7. ASSUME Record(w) \/ LoseClaim(w) PROVE ToSend(w)' \subseteq ToSend(w) /\ Unsent(w)' \subseteq Unsent(w)
  BY <1>7 DEF Record, LoseClaim, PutDown, Go
<1>8. ASSUME Finish(w) PROVE ToSend(w)' \subseteq ToSend(w) /\ Unsent(w)' \subseteq Unsent(w)
  BY <1>8 DEF Finish, Go, Rest
<1>9. ASSUME Crash(w) PROVE ToSend(w)' \subseteq ToSend(w) /\ Unsent(w)' \subseteq Unsent(w)
  BY <1>9 DEF Crash, Go, Rest
<1> QED
  BY <1>1, <1>2, <1>3, <1>4, <1>5, <1>6, <1>7, <1>8, <1>9 DEF Handing

LEMMA AllKeep ==
  ASSUME Shape, NEW w \in Workers, Handing(w), NEW v \in Workers
  PROVE  ToSend(v)' \subseteq ToSend(v) /\ Unsent(v)' \subseteq Unsent(v)
BY OthersKeep, HolderKeeps

\* The request answers for the finding, which the worker then no longer owes.
LEMMA TransmitPays ==
  ASSUME Shape, NEW w \in Workers, Transmit(w)
  PROVE  job[w] \in Unsent(w) /\ job[w] \notin Unsent(w)'
BY ActorsAssumption DEF Transmit, Go, Answer, Unsent, Shape, TypeOK, JobsHeld

\* A recorded finding is put down.
LEMMA RecordPutsDown ==
  ASSUME Shape, NEW w \in Workers, Record(w) \/ LoseClaim(w)
  PROVE  job[w] \in ToSend(w) /\ job[w] \notin ToSend(w)'
BY ActorsAssumption DEF Record, LoseClaim, PutDown, Go, ToSend, Shape, TypeOK, JobsHeld

\* The two steps that hand out findings.
LEMMA InsertHands ==
  ASSUME Shape, NEW c \in Checks, NEW f \in Findings, Insert(c, f)
  PROVE  /\ ToSend(c)' = {f}
         /\ Unsent(c)' \subseteq {f}
         /\ \A v \in Workers \ {c} : ToSend(v)' = ToSend(v) /\ Unsent(v)' = Unsent(v)
<1>1. /\ jobs' = [jobs EXCEPT ![c] = @ \ {f}]
      /\ job' = [job EXCEPT ![c] = f]
      /\ phase' = [phase EXCEPT ![c] = "record"] \/ phase' = [phase EXCEPT ![c] = "cooldown"]
  BY DEF Insert, Go, Answer
<1> QED
  BY <1>1, ActorsAssumption DEF ToSend, Unsent, Shape, TypeOK, Workers

LEMMA ClaimHands ==
  ASSUME Shape, NEW r \in Sweeps, Claim(r)
  PROVE  /\ ToSend(r)' = Oldest(Eligible)
         /\ Unsent(r)' = Oldest(Eligible)
         /\ \A v \in Workers \ {r} : ToSend(v)' = ToSend(v) /\ Unsent(v)' = Unsent(v)
<1>1. /\ jobs' = [jobs EXCEPT ![r] = Oldest(Eligible)]
      /\ phase' = [phase EXCEPT ![r] = "next"]
      /\ UNCHANGED job
  BY DEF Claim, Go
<1> QED
  BY <1>1 DEF ToSend, Unsent, Shape, TypeOK, Workers

LEMMA TickKeeps ==
  ASSUME Tick \/ UNCHANGED vars, NEW v \in Workers
  PROVE  ToSend(v)' = ToSend(v) /\ Unsent(v)' = Unsent(v)
BY DEF Tick, vars, workVars, ToSend, Unsent

LEMMA Steps ==
  ASSUME [Next]_vars
  PROVE  \/ \E c \in Checks, f \in Findings : Insert(c, f)
         \/ \E r \in Sweeps : Claim(r)
         \/ \E w \in Workers : Handing(w)
         \/ Tick
         \/ UNCHANGED vars
BY DEF Next, CheckStep, SweepStep, Deliver, Handing, Workers

-----------------------------------------------------------------------------
(* A finding is held by one worker, whose requests its attempts cover.     *)

\* A held finding is claimed, or was given up, and a claim names its holder.
ClaimsHeld ==
    \A w \in Workers : \A f \in ToSend(w) :
        /\ state[f] \in {"sending", "uncertain"}
        /\ state[f] = "sending" => owner[f] = w

\* An attempt is counted before it is made, and none is made without a row.
Counted ==
    /\ \A w \in Workers : \A f \in Unsent(w) : tries[f] < attempts[f]
    /\ \A f \in Findings : state[f] = "absent" => tries[f] = 0 /\ accepted[f] = 0 /\ by[f] = Null

Holding == Shape /\ SoleSender /\ ClaimsHeld /\ Counted /\ AttemptsCovered

LEMMA HoldingInit == Init => Holding
BY ShapeInit, LimitsAssumption
DEF Init, Holding, SoleSender, ClaimsHeld, Counted, AttemptsCovered, ToSend, Unsent

LEMMA SoleSenderStep == Holding /\ [Next]_vars => SoleSender'
<1> SUFFICES ASSUME Holding, [Next]_vars PROVE SoleSender'
  OBVIOUS
<1> Shape /\ SoleSender /\ ClaimsHeld
  BY DEF Holding
<1> USE DEF SoleSender
<1>1. ASSUME NEW c \in Checks, NEW f \in Findings, Insert(c, f) PROVE SoleSender'
  <2>1. state[f] = "absent"
    BY <1>1 DEF Insert
  <2>2. \A v \in Workers : f \notin ToSend(v)
    BY <2>1 DEF ClaimsHeld
  <2> QED
    BY <1>1, <2>2, InsertHands
<1>2. ASSUME NEW r \in Sweeps, Claim(r) PROVE SoleSender'
  <2>1. \A f \in Oldest(Eligible) : state[f] = "failed"
    BY DEF Oldest, Eligible
  <2>2. \A v \in Workers : Oldest(Eligible) \cap ToSend(v) = {}
    BY <2>1 DEF ClaimsHeld
  <2> QED
    BY <1>2, <2>2, ClaimHands
<1>3. ASSUME NEW w \in Workers, Handing(w) PROVE SoleSender'
  BY <1>3, AllKeep
<1>4. CASE Tick \/ UNCHANGED vars
  BY <1>4, TickKeeps
<1> QED
  BY <1>1, <1>2, <1>3, <1>4, Steps

LEMMA ClaimsHeldStep == Holding /\ [Next]_vars => ClaimsHeld'
<1> SUFFICES ASSUME Holding, [Next]_vars PROVE ClaimsHeld'
  OBVIOUS
<1> Shape /\ SoleSender /\ ClaimsHeld
  BY DEF Holding
<1> USE DEF ClaimsHeld
<1>1. ASSUME NEW c \in Checks, NEW f \in Findings, Insert(c, f) PROVE ClaimsHeld'
  <2>1. /\ state[f] = "absent"
        /\ state' = [state EXCEPT ![f] = "sending"]
        /\ owner' = [owner EXCEPT ![f] = c]
    BY <1>1 DEF Insert
  <2>2. \A v \in Workers : f \notin ToSend(v)
    BY <2>1
  <2> QED
    BY <1>1, <2>1, <2>2, InsertHands DEF Shape, TypeOK
<1>2. ASSUME NEW r \in Sweeps, Claim(r) PROVE ClaimsHeld'
  <2> DEFINE batch == Oldest(Eligible)
  <2>1. /\ batch \subseteq Findings
        /\ \A f \in batch : state[f] = "failed"
    BY DEF Oldest, Eligible
  <2>2. /\ state' = [f \in Findings |-> IF f \in batch THEN "sending" ELSE state[f]]
        /\ owner' = [f \in Findings |-> IF f \in batch THEN r ELSE owner[f]]
    BY <1>2 DEF Claim
  <2>3. /\ ToSend(r)' = batch
        /\ \A v \in Workers \ {r} : ToSend(v)' = ToSend(v)
    BY <1>2, ClaimHands
  <2>4. \A v \in Workers : ToSend(v) \subseteq Findings
    BY HeldIsFinding
  <2> HIDE DEF batch
  <2> QED
    BY <2>1, <2>2, <2>3, <2>4
<1>3. ASSUME NEW w \in Workers, Record(w) PROVE ClaimsHeld'
  <2>1. job[w] \in ToSend(w) /\ job[w] \notin ToSend(w)'
    BY <1>3, RecordPutsDown
  <2>2. \A v \in Workers : ToSend(v)' \subseteq ToSend(v)
    BY <1>3, AllKeep DEF Handing
  <2>3. \A v \in Workers : job[w] \notin ToSend(v)'
    BY <2>1, <2>2 DEF SoleSender
  <2>4. \A f \in Findings \ {job[w]} : state'[f] = state[f] /\ owner'[f] = owner[f]
    BY <1>3 DEF Record, Shape, TypeOK
  <2> QED
    BY <2>2, <2>3, <2>4, HeldIsFinding
<1>4. ASSUME NEW r \in Sweeps, MarkExpired(r) PROVE ClaimsHeld'
  <2>1. \A v \in Workers : ToSend(v)' \subseteq ToSend(v)
    BY <1>4, AllKeep DEF Handing, Workers
  <2>2. \A f \in Findings : \/ state'[f] = "uncertain"
                            \/ state'[f] = state[f] /\ owner'[f] = owner[f]
    BY <1>4 DEF MarkExpired
  <2> QED
    BY <2>1, <2>2, HeldIsFinding
<1>5. ASSUME NEW w \in Workers, Handing(w), UNCHANGED <<state, owner>> PROVE ClaimsHeld'
  BY <1>5, AllKeep
<1>6. CASE Tick \/ UNCHANGED vars
  BY <1>6, TickKeeps DEF Tick, vars, rowVars
<1>7. ASSUME NEW w \in Workers, Handing(w), ~Record(w), ~(w \in Sweeps /\ MarkExpired(w))
      PROVE  UNCHANGED <<state, owner>>
  BY <1>7 DEF Handing, Observe, Duplicate, CheckCooldown, Take, Transmit, LoseClaim, Finish, Crash, rowVars
<1> QED
  BY <1>1, <1>2, <1>3, <1>4, <1>5, <1>6, <1>7, Steps

LEMMA CountedStep == Holding /\ [Next]_vars => Counted' /\ AttemptsCovered'
<1> SUFFICES ASSUME Holding, [Next]_vars PROVE Counted' /\ AttemptsCovered'
  OBVIOUS
<1> Shape /\ TypeOK /\ Started /\ SoleSender /\ ClaimsHeld /\ Counted /\ AttemptsCovered
  BY DEF Holding, Shape
<1> USE LimitsAssumption DEF Counted, AttemptsCovered, TypeOK
<1>1. ASSUME NEW c \in Checks, NEW f \in Findings, Insert(c, f) PROVE Counted' /\ AttemptsCovered'
  <2>1. /\ state[f] = "absent"
        /\ state' = [state EXCEPT ![f] = "sending"]
        /\ attempts' = [attempts EXCEPT ![f] = 1]
        /\ by' = [by EXCEPT ![f] = c]
        /\ UNCHANGED <<tries, accepted>>
    BY <1>1 DEF Insert
  <2>2. \A v \in Workers : f \notin ToSend(v)
    BY <2>1 DEF ClaimsHeld
  <2> QED
    BY <1>1, <2>1, <2>2, InsertHands, HeldIsFinding
<1>2. ASSUME NEW r \in Sweeps, Claim(r) PROVE Counted' /\ AttemptsCovered'
  <2> DEFINE batch == Oldest(Eligible)
  <2>1. /\ batch \subseteq Findings
        /\ \A f \in batch : attempts[f] < MaxAttempts
    BY DEF Oldest, Eligible
  <2>2. /\ state' = [f \in Findings |-> IF f \in batch THEN "sending" ELSE state[f]]
        /\ attempts' = [f \in Findings |-> IF f \in batch THEN attempts[f] + 1 ELSE attempts[f]]
        /\ UNCHANGED <<tries, accepted, by>>
    BY <1>2 DEF Claim, NextAttempt, ghostVars
  <2>3. /\ Unsent(r)' = batch
        /\ \A v \in Workers \ {r} : Unsent(v)' = Unsent(v)
    BY <1>2, ClaimHands
  <2>4. \A v \in Workers : Unsent(v) \subseteq Findings
    BY HeldIsFinding
  <2> HIDE DEF batch
  <2> QED
    BY <2>1, <2>2, <2>3, <2>4
<1>3. ASSUME NEW w \in Workers, Transmit(w) PROVE Counted' /\ AttemptsCovered'
  <2>1. job[w] \in Unsent(w) /\ job[w] \notin Unsent(w)'
    BY <1>3, TransmitPays
  <2>2. \A v \in Workers : Unsent(v)' \subseteq Unsent(v)
    BY <1>3, AllKeep DEF Handing
  <2>3. job[w] \in Findings /\ state[job[w]] # "absent"
    BY <2>1, HeldIsFinding DEF ClaimsHeld
  <2>4. \A v \in Workers : job[w] \notin Unsent(v)'
    BY <2>1, <2>2, HeldIsFinding DEF SoleSender
  <2>5. /\ tries' = [tries EXCEPT ![job[w]] = @ + 1]
        /\ \A f \in Findings \ {job[w]} : accepted'[f] = accepted[f]
        /\ UNCHANGED <<state, attempts, by>>
    BY <1>3 DEF Transmit, rowVars
  <2> QED
    BY <2>1, <2>2, <2>3, <2>4, <2>5, HeldIsFinding
<1>4. ASSUME NEW w \in Workers, Handing(w), UNCHANGED <<attempts, tries, accepted, by>>,
             \A f \in Findings : state'[f] = "absent" => state[f] = "absent"
      PROVE  Counted' /\ AttemptsCovered'
  BY <1>4, AllKeep
<1>5. CASE Tick \/ UNCHANGED vars
  BY <1>5, TickKeeps DEF Tick, vars, rowVars, ghostVars
<1>6. ASSUME NEW w \in Workers, Handing(w), ~Transmit(w)
      PROVE  /\ UNCHANGED <<attempts, tries, accepted, by>>
             /\ \A f \in Findings : state'[f] = "absent" => state[f] = "absent"
  <2>1. CASE Record(w)
    <3>1. answer[w] \in Answers
      BY <2>1 DEF Record, Shape, JobsHeld
    <3>2. Verdict(answer[w]) # "absent"
      BY <3>1 DEF Verdict, Answers, Replies
    <3> QED
      BY <2>1, <3>2 DEF Record, ghostVars
  <2>2. CASE w \in Sweeps /\ MarkExpired(w)
    BY <2>2 DEF MarkExpired, ghostVars
  <2> QED
    BY <1>6, <2>1, <2>2 DEF Handing, Observe, Duplicate, CheckCooldown, Take, LoseClaim, Finish, Crash,
       rowVars, ghostVars
<1> QED
  BY <1>1, <1>2, <1>3, <1>4, <1>5, <1>6, Steps

LEMMA HoldingStep == Holding /\ [Next]_vars => Holding'
BY ShapeStep, SoleSenderStep, ClaimsHeldStep, CountedStep DEF Holding

LEMMA HoldingAlways == Spec => []Holding
BY HoldingInit, HoldingStep, PTL DEF Spec

\* Every column keeps its type, no two invocations ever hold the same row to
\* send, and the attempts column covers the requests made.
THEOREM QueueIsSound == Spec => []AlertInv
<1>1. Holding => AlertInv
  BY DEF Holding, Shape, AlertInv
<1> QED
  BY <1>1, HoldingAlways, PTL

\* Nothing is accepted that was not requested.
Requested == \A f \in Findings : accepted[f] <= tries[f]

LEMMA RequestedStep == Holding /\ Requested /\ [Next]_vars => Requested'
<1> SUFFICES ASSUME Holding, Requested, [Next]_vars PROVE Requested'
  OBVIOUS
<1> TypeOK
  BY DEF Holding, Shape
<1> USE DEF Requested, TypeOK
<1>1. ASSUME NEW w \in Workers, Transmit(w) PROVE Requested'
  <2>1. PICK n \in {0, 1} : accepted' = [accepted EXCEPT ![job[w]] = @ + n]
    BY <1>1 DEF Transmit
  <2>2. tries' = [tries EXCEPT ![job[w]] = @ + 1]
    BY <1>1 DEF Transmit
  <2> QED
    BY <2>1, <2>2
<1>2. ASSUME NEW w \in Workers, Handing(w), ~Transmit(w) PROVE UNCHANGED <<accepted, tries>>
  BY <1>2 DEF Handing, Observe, Duplicate, CheckCooldown, MarkExpired, Take, Record, LoseClaim,
     Finish, Crash, ghostVars
<1> QED
  BY <1>1, <1>2, Steps DEF Insert, Claim, Tick, vars, ghostVars

\* Whatever the replies hide, a finding is told no more often than it may be
\* attempted.
THEOREM ToldAtMostMaxAttempts == Spec => [](\A f \in Findings : accepted[f] <= MaxAttempts)
<1>1. Init => Holding /\ Requested
  BY HoldingInit DEF Init, Requested
<1>2. (Holding /\ Requested) /\ [Next]_vars => (Holding /\ Requested)'
  BY HoldingStep, RequestedStep
<1>3. Holding /\ Requested => \A f \in Findings : accepted[f] <= MaxAttempts
  BY LimitsAssumption DEF Holding, Shape, TypeOK, AttemptsCovered, Requested
<1> QED
  BY <1>1, <1>2, <1>3, PTL DEF Spec

-----------------------------------------------------------------------------
(* What Telegram accepted and what the row says of it.  A reply that calls *)
(* the request wrong or limited means that nothing was sent.               *)

\* What a worker has not sent yet was never accepted.
Unheard == \A w \in Workers : \A f \in Unsent(w) : accepted[f] = 0

\* The answer a worker is about to record is the truth, unless it says nothing.
Heard ==
    \A w \in Workers :
        phase[w] = "record" =>
            /\ answer[w] = "ok" => accepted[job[w]] = 1
            /\ answer[w] \notin {"ok", "ambiguous"} => accepted[job[w]] = 0

Truth == Unheard /\ Heard /\ OncePerFinding /\ VerdictTruthful

LEMMA TruthInit == Init => Truth
BY DEF Init, Truth, Unheard, Heard, OncePerFinding, VerdictTruthful, Unsent

LEMMA HonestReply ==
  ASSUME Misleading = {}, Holding, NEW w \in Workers, Transmit(w)
  PROVE  \E reply \in Replies, arrived \in BOOLEAN :
            /\ arrived => reply \in {"ok", "ambiguous"}
            /\ reply = "ok" => arrived
            /\ accepted' = [accepted EXCEPT ![job[w]] = @ + (IF arrived THEN 1 ELSE 0)]
            /\ answer' = [answer EXCEPT ![w] = reply]
            /\ phase' = [phase EXCEPT ![w] = "record"]
            /\ UNCHANGED <<job, jobs, state>>
BY DEF Transmit, MayHide, Answer, Go, rowVars

LEMMA TruthTransmit ==
  ASSUME Misleading = {}, Holding, Truth, NEW w \in Workers, Transmit(w)
  PROVE  Truth'
<1> Shape /\ TypeOK /\ SoleSender /\ ClaimsHeld /\ Counted
  BY DEF Holding, Shape
<1> USE DEF Truth, TypeOK
<1> PICK reply \in Replies, arrived \in BOOLEAN :
            /\ arrived => reply \in {"ok", "ambiguous"}
            /\ reply = "ok" => arrived
            /\ accepted' = [accepted EXCEPT ![job[w]] = @ + (IF arrived THEN 1 ELSE 0)]
            /\ answer' = [answer EXCEPT ![w] = reply]
            /\ phase' = [phase EXCEPT ![w] = "record"]
            /\ UNCHANGED <<job, jobs, state>>
  BY HonestReply
<1>1. job[w] \in Unsent(w) /\ job[w] \notin Unsent(w)'
  BY TransmitPays
<1>2. /\ job[w] \in ToSend(w) /\ job[w] \in Findings
      /\ accepted[job[w]] = 0
  BY <1>1, HeldIsFinding DEF Unheard
<1>3. /\ state[job[w]] \in {"sending", "uncertain"}
      /\ \A v \in Workers \ {w} : job[w] \notin ToSend(v)
  BY <1>2 DEF ClaimsHeld, SoleSender
<1>4. \A v \in Workers : Unsent(v)' \subseteq Unsent(v) /\ job[w] \notin Unsent(v)'
  BY <1>1, <1>3, AllKeep, HeldIsFinding DEF Handing
<1>5. Unheard'
  BY <1>4, HeldIsFinding DEF Unheard
<1>6. Heard'
  <2> SUFFICES ASSUME NEW v \in Workers, phase'[v] = "record"
               PROVE  /\ answer'[v] = "ok" => accepted'[job'[v]] = 1
                      /\ answer'[v] \notin {"ok", "ambiguous"} => accepted'[job'[v]] = 0
    BY DEF Heard
  <2>1. CASE v = w
    BY <2>1, <1>2
  <2>2. CASE v # w
    <3>1. job[v] # job[w] /\ job[v] \in Findings
      BY <2>2, <1>3, HeldIsFinding DEF ToSend
    <3> QED
      BY <2>2, <3>1 DEF Heard
  <2> QED
    BY <2>1, <2>2
<1>7. OncePerFinding' /\ VerdictTruthful'
  BY <1>2, <1>3 DEF OncePerFinding, VerdictTruthful
<1> QED
  BY <1>5, <1>6, <1>7

LEMMA TruthRecord ==
  ASSUME Holding, Truth, NEW w \in Workers, Record(w)
  PROVE  Truth'
<1> Shape /\ TypeOK /\ JobsHeld
  BY DEF Holding, Shape
<1> USE DEF Truth, TypeOK
<1>1. /\ job[w] \in Findings /\ answer[w] \in Answers
      /\ answer[w] = "ok" => accepted[job[w]] = 1
      /\ answer[w] \notin {"ok", "ambiguous"} => accepted[job[w]] = 0
  BY DEF Record, JobsHeld, Heard
<1>2. /\ state' = [state EXCEPT ![job[w]] = Verdict(answer[w])]
      /\ UNCHANGED accepted
      /\ job' = [job EXCEPT ![w] = Null]
      /\ answer' = [answer EXCEPT ![w] = Null]
      /\ phase' = [phase EXCEPT ![w] = "next"]
  BY DEF Record, PutDown, Go, ghostVars
<1>3. /\ Verdict(answer[w]) = "sent" => answer[w] = "ok"
      /\ answer[w] = "ambiguous" => Verdict(answer[w]) = "uncertain"
      /\ answer[w] = "ok" => Verdict(answer[w]) = "sent"
  BY <1>1 DEF Verdict, Answers, Replies
<1>4. VerdictTruthful'
  BY <1>1, <1>2, <1>3 DEF VerdictTruthful
<1>5. Unheard' /\ OncePerFinding'
  BY <1>2, AllKeep DEF Unheard, OncePerFinding, Handing
<1>6. Heard'
  BY <1>2 DEF Heard
<1> QED
  BY <1>4, <1>5, <1>6

LEMMA TruthStep == Misleading = {} /\ Holding /\ Truth /\ [Next]_vars => Truth'
<1> SUFFICES ASSUME Misleading = {}, Holding, Truth, [Next]_vars PROVE Truth'
  OBVIOUS
<1> Shape /\ TypeOK /\ JobsHeld /\ SoleSender /\ ClaimsHeld /\ Counted
  BY DEF Holding, Shape
<1> USE DEF Truth, TypeOK
<1>1. ASSUME NEW c \in Checks, NEW f \in Findings, Insert(c, f) PROVE Truth'
  <2>1. /\ state[f] = "absent"
        /\ state' = [state EXCEPT ![f] = "sending"]
        /\ UNCHANGED accepted
        /\ job' = [job EXCEPT ![c] = f]
        /\ \/ phase' = [phase EXCEPT ![c] = "record"] /\ answer' = [answer EXCEPT ![c] = "consolidated"]
           \/ phase' = [phase EXCEPT ![c] = "cooldown"] /\ UNCHANGED answer
    BY <1>1 DEF Insert, Answer, Go
  <2>2. accepted[f] = 0
    BY <2>1 DEF Counted
  <2>3. Unheard'
    BY <1>1, <2>1, <2>2, InsertHands DEF Unheard
  <2>4. Heard'
    BY <2>1, <2>2 DEF Heard, Workers
  <2>5. OncePerFinding' /\ VerdictTruthful'
    BY <2>1 DEF OncePerFinding, VerdictTruthful
  <2> QED
    BY <2>3, <2>4, <2>5
<1>2. ASSUME NEW r \in Sweeps, Claim(r) PROVE Truth'
  <2> DEFINE batch == Oldest(Eligible)
  <2>1. /\ batch \subseteq Findings
        /\ \A f \in batch : state[f] = "failed"
    BY DEF Oldest, Eligible
  <2>2. /\ state' = [f \in Findings |-> IF f \in batch THEN "sending" ELSE state[f]]
        /\ phase' = [phase EXCEPT ![r] = "next"]
        /\ UNCHANGED <<accepted, job, answer>>
    BY <1>2 DEF Claim, ghostVars, Go
  <2>3. /\ Unsent(r)' = batch
        /\ \A v \in Workers \ {r} : Unsent(v)' = Unsent(v)
    BY <1>2, ClaimHands
  <2> HIDE DEF batch
  <2>4. Unheard'
    BY <2>1, <2>2, <2>3 DEF Unheard, VerdictTruthful
  <2>5. Heard' /\ OncePerFinding' /\ VerdictTruthful'
    BY <2>1, <2>2 DEF Heard, OncePerFinding, VerdictTruthful, Workers
  <2> QED
    BY <2>4, <2>5
<1>3. ASSUME NEW w \in Workers, Transmit(w) PROVE Truth'
  BY <1>3, TruthTransmit
<1>4. ASSUME NEW w \in Workers, Record(w) PROVE Truth'
  BY <1>4, TruthRecord
<1>5. ASSUME NEW c \in Checks, CheckCooldown(c) PROVE Truth'
  <2>1. /\ phase[c] = "cooldown"
        /\ UNCHANGED <<state, job, accepted>>
        /\ \/ phase' = [phase EXCEPT ![c] = "record"] /\ answer' = [answer EXCEPT ![c] = "cooldown"]
           \/ phase' = [phase EXCEPT ![c] = "record"] /\ answer' = [answer EXCEPT ![c] = "unconfigured"]
           \/ phase' = [phase EXCEPT ![c] = "send"] /\ UNCHANGED answer
    BY <1>5 DEF CheckCooldown, Answer, Go, rowVars, ghostVars
  <2>2. accepted[job[c]] = 0
    BY <2>1 DEF Unheard, Unsent, Workers
  <2>3. Unheard'
    BY <1>5, <2>1, AllKeep DEF Unheard, Handing, Workers
  <2>4. Heard'
    BY <2>1, <2>2 DEF Heard, Workers
  <2> QED
    BY <2>1, <2>3, <2>4 DEF OncePerFinding, VerdictTruthful
<1>6. ASSUME NEW w \in Workers, Handing(w), UNCHANGED accepted,
             \A v \in Workers : phase'[v] = "record" => phase[v] = "record" /\ answer'[v] = answer[v]
                                                        /\ job'[v] = job[v],
             \A f \in Findings : state'[f] \in {state[f], "uncertain"}
      PROVE  Truth'
  BY <1>6, AllKeep DEF Unheard, Heard, OncePerFinding, VerdictTruthful
<1>7. ASSUME NEW w \in Workers, Handing(w), ~Transmit(w), ~Record(w), ~(w \in Checks /\ CheckCooldown(w))
      PROVE  /\ UNCHANGED accepted
             /\ \A v \in Workers : phase'[v] = "record" => phase[v] = "record" /\ answer'[v] = answer[v]
                                                        /\ job'[v] = job[v]
             /\ \A f \in Findings : state'[f] \in {state[f], "uncertain"}
  BY <1>7 DEF Handing, Observe, Duplicate, MarkExpired, Take, LoseClaim, Finish, Crash, PutDown, Rest,
     Go, rowVars, ghostVars
<1>8. CASE Tick \/ UNCHANGED vars
  <2>1. UNCHANGED <<state, accepted, phase, job, answer>>
    BY <1>8 DEF Tick, vars, rowVars, workVars, ghostVars
  <2>2. Unheard'
    BY <1>8, <2>1, TickKeeps DEF Unheard
  <2> QED
    BY <2>1, <2>2 DEF Heard, OncePerFinding, VerdictTruthful
<1> QED
  BY <1>1, <1>2, <1>3, <1>4, <1>5, <1>6, <1>7, <1>8, Steps DEF Workers

LEMMA TruthAlways == ASSUME Misleading = {} PROVE Spec => [](Holding /\ Truth)
<1>1. Init => Holding /\ Truth
  BY HoldingInit, TruthInit
<1>2. Holding /\ Truth /\ [Next]_vars => (Holding /\ Truth)'
  BY HoldingStep, TruthStep
<1> QED
  BY <1>1, <1>2, PTL DEF Spec

\* If Telegram's error replies are honest, the owner is told of a finding at
\* most once, through overlapping checks, expired claims, retries and crashes.
THEOREM ToldAtMostOnce == ASSUME Misleading = {} PROVE Spec => []OncePerFinding
<1>1. Truth => OncePerFinding
  BY DEF Truth
<1> QED
  BY <1>1, TruthAlways, PTL

\* Then the dashboard is right too: what it calls sent was accepted, and what
\* it calls failed or suppressed was not.
THEOREM DashboardIsRight == ASSUME Misleading = {} PROVE Spec => []VerdictTruthful
<1>1. Truth => VerdictTruthful
  BY DEF Truth
<1> QED
  BY <1>1, TruthAlways, PTL

-----------------------------------------------------------------------------
(* One message per observation: the threshold row of a new low is never    *)
(* sent, whatever becomes of the check that consolidated it.               *)

Working(c) == phase[c] \notin {"idle", "done"}

\* A check records the findings of the one observation it made.
FromObservation ==
    /\ \A c \in Checks : Working(c) => seen[c] \in Observations /\ jobs[c] \subseteq seen[c]
    /\ \A c \in Checks, f \in Findings :
          by[f] = c => phase[c] # "idle" /\ (Working(c) => f \in seen[c])
    /\ \A c \in Checks, f, g \in Findings :
          by[f] = c /\ by[g] = c => \E o \in Observations : f \in o /\ g \in o

\* A finding that is not to be sent: no claim can pick it up again, and the
\* worker that holds it will record it as consolidated.
Muffled(f) ==
    /\ state[f] \in {"sending", "uncertain", "suppressed_duplicate"}
    /\ accepted[f] = 0
    /\ \A w \in Workers :
          f \in ToSend(w) => phase[w] = "record" /\ job[w] = f /\ answer[w] = "consolidated"

Consolidated ==
    /\ \A c \in Checks, f \in Findings : by[f] = c /\ Working(c) /\ Quiet(c, f) => Muffled(f)
    /\ \A c \in Checks, f, g \in Findings :
          by[f] = c /\ by[g] = c /\ TypeOf[f] = "threshold" /\ TypeOf[g] = "new_low" => Muffled(f)

LEMMA FromObservationInit == Init => FromObservation /\ Consolidated
BY ActorsAssumption DEF Init, FromObservation, Consolidated, Working, Workers

LEMMA FromObservationStep == Holding /\ FromObservation /\ [Next]_vars => FromObservation'
<1> SUFFICES ASSUME Holding, FromObservation, [Next]_vars PROVE FromObservation'
  OBVIOUS
<1> TypeOK /\ JobsHeld
  BY DEF Holding, Shape
<1> USE ActorsAssumption DEF FromObservation, Working, TypeOK, Workers
<1>1. ASSUME NEW c \in Checks, Observe(c) PROVE FromObservation'
  <2>1. /\ phase[c] = "idle" /\ phase' = [phase EXCEPT ![c] = "next"] /\ UNCHANGED by
        /\ \E o \in Observations : seen' = [seen EXCEPT ![c] = o] /\ jobs' = [jobs EXCEPT ![c] = o]
    BY <1>1 DEF Observe, Go, ghostVars
  <2> QED
    BY <2>1
<1>2. ASSUME NEW c \in Checks, NEW h \in Findings, Insert(c, h) PROVE FromObservation'
  <2>1. /\ phase[c] = "next"
        /\ h \in jobs[c]
        /\ by' = [by EXCEPT ![h] = c]
        /\ jobs' = [jobs EXCEPT ![c] = @ \ {h}]
        /\ phase' = [phase EXCEPT ![c] = "record"] \/ phase' = [phase EXCEPT ![c] = "cooldown"]
        /\ UNCHANGED seen
    BY <1>2 DEF Insert, NextOf, Go, Answer
  <2>2. h \in seen[c] /\ seen[c] \in Observations
    BY <2>1
  <2>3. /\ \A d \in Checks : Working(d)' => seen'[d] \in Observations /\ jobs'[d] \subseteq seen'[d]
        /\ \A d \in Checks, f \in Findings :
              by'[f] = d => phase'[d] # "idle" /\ (Working(d)' => f \in seen'[d])
    BY <2>1, <2>2
  <2>4. \A f \in Findings : by[f] = c => f \in seen[c]
    BY <2>1
  <2>5. ASSUME NEW d \in Checks, NEW f \in Findings, NEW g \in Findings, by'[f] = d, by'[g] = d
        PROVE  \E o \in Observations : f \in o /\ g \in o
    <3>1. CASE d = c
      BY <3>1, <2>1, <2>2, <2>4, <2>5
    <3>2. CASE d # c
      BY <3>2, <2>1, <2>5
    <3> QED
      BY <3>1, <3>2
  <2> QED
    BY <2>3, <2>5
<1>3. ASSUME NEW w \in Workers, Handing(w), ~(w \in Checks /\ Observe(w)) PROVE FromObservation'
  <2>1. UNCHANGED by
    BY <1>3 DEF Handing, Duplicate, CheckCooldown, MarkExpired, Take, Transmit, Record, LoseClaim,
       Finish, Crash, ghostVars
  <2>2. ASSUME NEW c \in Checks
        PROVE  /\ phase'[c] = "idle" => phase[c] = "idle"
               /\ Working(c)' => Working(c) /\ seen'[c] = seen[c] /\ jobs'[c] \subseteq jobs[c]
    <3>1. CASE c # w
      BY <1>3, <3>1, ZenonT(60)
         DEF Handing, Duplicate, CheckCooldown, MarkExpired, Take, Transmit, Record,
             LoseClaim, Finish, Crash, PutDown, Go, Answer
    <3>2. CASE c = w /\ (Finish(w) \/ Crash(w))
      BY <3>2 DEF Finish, Crash, Go, Rest
    <3>3. CASE c = w /\ (\E f \in Findings : Duplicate(w, f))
      BY <3>3 DEF Duplicate
    <3>4. CASE c = w /\ CheckCooldown(w)
      BY <3>4 DEF CheckCooldown, Go, Answer
    <3>5. CASE c = w /\ Transmit(w)
      BY <3>5 DEF Transmit, Go, Answer
    <3>6. CASE c = w /\ (Record(w) \/ LoseClaim(w))
      BY <3>6 DEF Record, LoseClaim, PutDown, Go
    <3> QED
      BY <1>3, <3>1, <3>2, <3>3, <3>4, <3>5, <3>6 DEF Handing
  <2> QED
    BY <2>1, <2>2
<1>4. ASSUME NEW r \in Sweeps, Claim(r) PROVE FromObservation'
  <2>1. UNCHANGED <<by, seen>> /\ \A c \in Checks : phase'[c] = phase[c] /\ jobs'[c] = jobs[c]
    BY <1>4 DEF Claim, Go, ghostVars
  <2> QED
    BY <2>1
<1>5. CASE Tick \/ UNCHANGED vars
  BY <1>5 DEF Tick, vars, workVars, ghostVars
<1> QED
  BY <1>1, <1>2, <1>3, <1>4, <1>5, Steps

\* No step brings a muffled finding back.
LEMMA MuffledStays ==
  ASSUME Holding, [Next]_vars, NEW f \in Findings, Muffled(f)
  PROVE  Muffled(f)'
<1> Shape /\ TypeOK /\ JobsHeld
  BY DEF Holding, Shape
<1> USE DEF TypeOK
<1>1. ASSUME NEW c \in Checks, NEW h \in Findings, Insert(c, h) PROVE Muffled(f)'
  <2>1. /\ state[h] = "absent"
        /\ state' = [state EXCEPT ![h] = "sending"]
        /\ UNCHANGED accepted
        /\ \A v \in Workers \ {c} : phase'[v] = phase[v] /\ job'[v] = job[v] /\ answer'[v] = answer[v]
    BY <1>1 DEF Insert, Answer, Go
  <2>2. f # h
    BY <2>1 DEF Muffled
  <2> QED
    BY <1>1, <2>1, <2>2, InsertHands DEF Muffled
<1>2. ASSUME NEW r \in Sweeps, Claim(r) PROVE Muffled(f)'
  <2> DEFINE batch == Oldest(Eligible)
  <2>1. f \notin batch
    BY DEF Oldest, Eligible, Muffled
  <2>2. /\ state' = [g \in Findings |-> IF g \in batch THEN "sending" ELSE state[g]]
        /\ UNCHANGED <<accepted, job, answer>>
        /\ \A v \in Workers \ {r} : phase'[v] = phase[v]
    BY <1>2 DEF Claim, ghostVars, Go
  <2>3. /\ ToSend(r)' = batch
        /\ \A v \in Workers \ {r} : ToSend(v)' = ToSend(v)
    BY <1>2, ClaimHands
  <2> HIDE DEF batch
  <2> QED
    BY <2>1, <2>2, <2>3 DEF Muffled
<1>3. ASSUME NEW w \in Workers, Handing(w) PROVE Muffled(f)'
  <2>1. \A v \in Workers : ToSend(v)' \subseteq ToSend(v)
    BY <1>3, AllKeep
  <2>2. ASSUME NEW v \in Workers, f \in ToSend(v)'
        PROVE  phase'[v] = "record" /\ job'[v] = f /\ answer'[v] = "consolidated"
    <3>1. phase[v] = "record" /\ job[v] = f /\ answer[v] = "consolidated"
      BY <2>1, <2>2 DEF Muffled
    <3>2. CASE v # w
      BY <1>3, <3>1, <3>2, ZenonT(60)
         DEF Handing, Observe, Duplicate, CheckCooldown, MarkExpired, Take, Transmit,
             Record, LoseClaim, Finish, Crash, PutDown, Go, Answer
    <3>3. CASE v = w
      <4>1. Record(w) \/ LoseClaim(w) \/ Crash(w)
        BY <1>3, <3>1, <3>3 DEF Handing, Observe, Duplicate, CheckCooldown, MarkExpired, Take, Transmit, Finish
      <4>2. ToSend(w)' = {}  \/ f \notin ToSend(w)'
        BY <4>1, <3>1, <3>3, RecordPutsDown, ActorsAssumption DEF Crash, Rest, Go, ToSend
      <4> QED
        BY <4>2, <2>2, <3>3
    <3> QED
      BY <3>2, <3>3
  <2>3. accepted'[f] = accepted[f]
    <3>1. CASE Transmit(w)
      <4>1. job[w] \in ToSend(w) /\ phase[w] = "send"
        BY <3>1, TransmitPays, HeldIsFinding DEF Transmit
      <4>2. job[w] # f
        BY <4>1 DEF Muffled
      <4> QED
        BY <3>1, <4>2 DEF Transmit
    <3>2. CASE ~Transmit(w)
      BY <1>3, <3>2 DEF Handing, Observe, Duplicate, CheckCooldown, MarkExpired, Take, Record, LoseClaim,
         Finish, Crash, ghostVars
    <3> QED
      BY <3>1, <3>2
  <2>4. state'[f] \in {state[f], "uncertain", "suppressed_duplicate"}
    <3>1. CASE Record(w)
      <4>1. job[w] \in ToSend(w)
        BY <3>1, RecordPutsDown
      <4>2. job[w] = f => answer[w] = "consolidated"
        BY <4>1 DEF Muffled
      <4>3. state' = [state EXCEPT ![job[w]] = Verdict(answer[w])]
        BY <3>1 DEF Record
      <4> QED
        BY <4>2, <4>3 DEF Verdict
    <3>2. CASE ~Record(w)
      BY <1>3, <3>2 DEF Handing, Observe, Duplicate, CheckCooldown, MarkExpired, Take, Transmit, LoseClaim,
         Finish, Crash, rowVars
    <3> QED
      BY <3>1, <3>2
  <2> QED
    BY <2>2, <2>3, <2>4 DEF Muffled
<1>4. CASE Tick \/ UNCHANGED vars
  <2>1. UNCHANGED <<state, accepted, phase, job, answer>>
    BY <1>4 DEF Tick, vars, rowVars, workVars, ghostVars
  <2> QED
    BY <1>4, <2>1, TickKeeps DEF Muffled
<1> QED
  BY <1>1, <1>2, <1>3, <1>4, Steps

\* The check that inserts a quiet finding muffles it.
LEMMA InsertMuffles ==
  ASSUME Holding, NEW c \in Checks, NEW f \in Findings, Insert(c, f), Quiet(c, f)
  PROVE  Muffled(f)'
<1> Shape /\ TypeOK /\ ClaimsHeld /\ Counted
  BY DEF Holding, Shape
<1>1. /\ state[f] = "absent"
      /\ state' = [state EXCEPT ![f] = "sending"]
      /\ job' = [job EXCEPT ![c] = f]
      /\ answer' = [answer EXCEPT ![c] = "consolidated"]
      /\ phase' = [phase EXCEPT ![c] = "record"]
      /\ UNCHANGED accepted
  BY DEF Insert, Answer, Go
<1>2. accepted[f] = 0 /\ \A v \in Workers : f \notin ToSend(v)
  BY <1>1 DEF Counted, ClaimsHeld
<1>3. \A v \in Workers \ {c} : f \notin ToSend(v)'
  BY <1>2, InsertHands
<1> QED
  BY <1>1, <1>2, <1>3 DEF Muffled, TypeOK, Workers

LEMMA ConsolidatedStep ==
  Holding /\ FromObservation /\ Consolidated /\ [Next]_vars => Consolidated'
<1> SUFFICES ASSUME Holding, FromObservation, Consolidated, [Next]_vars PROVE Consolidated'
  OBVIOUS
<1> TypeOK
  BY DEF Holding, Shape
<1> USE DEF TypeOK
<1>1. ASSUME NEW c \in Checks, NEW h \in Findings, Insert(c, h) PROVE Consolidated'
  <2>1. /\ phase[c] = "next"
        /\ h \in jobs[c]
        /\ by' = [by EXCEPT ![h] = c]
        /\ \A d \in Checks : Working(d)' => Working(d)
        /\ UNCHANGED seen
    BY <1>1 DEF Insert, NextOf, Go, Answer, Working, Workers
  <2>2. /\ h \in seen[c]
        /\ \A f \in Findings : by[f] = c => f \in seen[c]
    BY <2>1 DEF FromObservation, Working
  <2>3. \A d \in Checks, f \in Findings : Quiet(d, f)' = Quiet(d, f)
    BY <2>1 DEF Quiet
  <2>4. Quiet(c, h) => Muffled(h)'
    BY <1>1, InsertMuffles
  <2>5. ASSUME NEW d \in Checks, NEW f \in Findings, by'[f] = d, Working(d)', Quiet(d, f)' PROVE Muffled(f)'
    <3>1. CASE f = h
      BY <2>1, <2>3, <2>4, <2>5, <3>1
    <3>2. CASE f # h
      <4>1. Muffled(f)
        BY <2>1, <2>3, <2>5, <3>2 DEF Consolidated
      <4> QED
        BY <4>1, MuffledStays
    <3> QED
      BY <3>1, <3>2
  <2>6. ASSUME NEW d \in Checks, NEW f \in Findings, NEW g \in Findings, by'[f] = d, by'[g] = d,
               TypeOf[f] = "threshold", TypeOf[g] = "new_low"
        PROVE  Muffled(f)'
    <3>1. CASE f = h
      <4>1. d = c /\ g # h /\ by[g] = c
        BY <2>1, <2>6, <3>1
      <4>2. Quiet(c, h)
        BY <2>2, <2>6, <3>1, <4>1 DEF Quiet
      <4> QED
        BY <2>4, <3>1, <4>2
    <3>2. CASE f # h /\ g = h
      <4>1. d = c /\ by[f] = c
        BY <2>1, <2>6, <3>2
      <4>2. Quiet(c, f)
        BY <2>2, <2>6, <3>2 DEF Quiet
      <4>3. Muffled(f)
        BY <2>1, <4>1, <4>2 DEF Consolidated, Working
      <4> QED
        BY <4>3, MuffledStays
    <3>3. CASE f # h /\ g # h
      <4>1. Muffled(f)
        BY <2>1, <2>6, <3>3 DEF Consolidated
      <4> QED
        BY <4>1, MuffledStays
    <3> QED
      BY <3>1, <3>2, <3>3
  <2> QED
    BY <2>5, <2>6 DEF Consolidated
<1>2. ASSUME UNCHANGED by,
             \A c \in Checks, f \in Findings :
                 by[f] = c /\ Working(c)' => Working(c) /\ seen'[c] = seen[c]
      PROVE  Consolidated'
  <2>1. \A c \in Checks, f \in Findings : by[f] = c /\ Working(c)' /\ Quiet(c, f)' => Muffled(f)
    BY <1>2 DEF Consolidated, Quiet
  <2>2. \A c \in Checks, f, g \in Findings :
          by[f] = c /\ by[g] = c /\ TypeOf[f] = "threshold" /\ TypeOf[g] = "new_low" => Muffled(f)
    BY DEF Consolidated
  <2> QED
    BY <1>2, <2>1, <2>2, MuffledStays DEF Consolidated
<1>3. ASSUME NEW w \in Workers, Handing(w)
      PROVE  /\ UNCHANGED by
             /\ \A c \in Checks, f \in Findings :
                   by[f] = c /\ Working(c)' => Working(c) /\ seen'[c] = seen[c]
  <2>1. CASE w \in Checks /\ Observe(w)
    BY <2>1 DEF Observe, Go, ghostVars, FromObservation, Working, Workers
  <2>2. CASE ~(w \in Checks /\ Observe(w))
    BY <1>3, <2>2, ActorsAssumption, ZenonT(60)
       DEF Handing, Duplicate, CheckCooldown, MarkExpired, Take, Transmit, Record,
           LoseClaim, Finish, Crash, PutDown, Rest, Go, Answer, ghostVars, Working, Workers
  <2> QED
    BY <2>1, <2>2
<1>4. ASSUME NEW r \in Sweeps, Claim(r)
      PROVE  /\ UNCHANGED by
             /\ \A c \in Checks, f \in Findings :
                   by[f] = c /\ Working(c)' => Working(c) /\ seen'[c] = seen[c]
  BY <1>4, ActorsAssumption DEF Claim, Go, ghostVars, Working, Workers
<1>5. CASE Tick \/ UNCHANGED vars
  BY <1>2, <1>5 DEF Tick, vars, workVars, ghostVars, Working
<1> QED
  BY <1>1, <1>2, <1>3, <1>4, <1>5, Steps

\* The findings of an observation differ in type, and one that approaches the
\* threshold is alone: two that were told are a threshold and its new low.
LEMMA ConsolidatedIsOne ==
  Holding /\ FromObservation /\ Consolidated => OneMessagePerObservation
<1> SUFFICES ASSUME Holding, FromObservation, Consolidated,
                    NEW f \in Findings, NEW g \in Findings,
                    by[f] # Null, by[f] = by[g], accepted[f] > 0, accepted[g] > 0, f # g
             PROVE  FALSE
  BY DEF OneMessagePerObservation
<1>1. by[f] \in Checks
  BY DEF Holding, Shape, TypeOK
<1>2. PICK o \in Observations : f \in o /\ g \in o
  BY <1>1 DEF FromObservation
<1>3. /\ TypeOf[f] # TypeOf[g]
      /\ TypeOf[f] \in {"threshold", "new_low"}
      /\ TypeOf[g] \in {"threshold", "new_low"}
  BY <1>2, FindingsAssumption
<1>4. Muffled(f) \/ Muffled(g)
  BY <1>1, <1>3 DEF Consolidated
<1> QED
  BY <1>4 DEF Muffled

\* One observation produces at most one message, retries included, and even
\* if error replies hide accepted messages.
THEOREM OneMessage == Spec => []OneMessagePerObservation
<1>1. Init => Holding /\ FromObservation /\ Consolidated
  BY HoldingInit, FromObservationInit
<1>2. (Holding /\ FromObservation /\ Consolidated) /\ [Next]_vars
        => (Holding /\ FromObservation /\ Consolidated)'
  BY HoldingStep, FromObservationStep, ConsolidatedStep
<1> QED
  BY <1>1, <1>2, ConsolidatedIsOne, PTL DEF Spec

-----------------------------------------------------------------------------
(* The queue implements AlertPromise.                                      *)

LEMMA PromiseInit == Init => Promise!Init
BY DEF Init, Promise!Init, verdictOf, toldOf

\* A step that changes no state, no retryable and no accepted says nothing.
LEMMA PromiseStutters ==
  ASSUME UNCHANGED <<state, retryable, accepted>>
  PROVE  UNCHANGED <<verdictOf, toldOf>>
BY DEF verdictOf, toldOf

LEMMA PromiseInsert ==
  ASSUME Holding, NEW c \in Checks, NEW f \in Findings, Insert(c, f)
  PROVE  Promise!Open(f)
<1> TypeOK
  BY DEF Holding, Shape
<1>1. /\ state[f] = "absent"
      /\ state' = [state EXCEPT ![f] = "sending"]
      /\ UNCHANGED <<retryable, accepted>>
  BY DEF Insert
<1>2. verdictOf[f] = "none"
  BY <1>1 DEF verdictOf
<1>3. verdictOf' = [verdictOf EXCEPT ![f] = "open"]
  BY <1>1 DEF verdictOf, TypeOK
<1>4. UNCHANGED toldOf
  BY <1>1 DEF toldOf
<1> QED
  BY <1>2, <1>3, <1>4 DEF Promise!Open, Promise!Say

LEMMA PromiseTransmit ==
  ASSUME Misleading = {}, Holding, Truth, NEW w \in Workers, Transmit(w)
  PROVE  (\E f \in Findings : Promise!Tell(f)) \/ UNCHANGED <<verdictOf, toldOf>>
<1> DEFINE f == job[w]
<1> TypeOK
  BY DEF Holding, Shape
<1>1. f \in Unsent(w)
  BY TransmitPays DEF Holding
<1>2. f \in ToSend(w) /\ f \in Findings /\ accepted[f] = 0
  BY <1>1, HeldIsFinding DEF Holding, Truth, Unheard
<1>3. state[f] \in {"sending", "uncertain"}
  BY <1>2 DEF Holding, ClaimsHeld
<1>a. UNCHANGED <<state, retryable>>
  BY DEF Transmit, rowVars
<1>b. PICK n \in {0, 1} : accepted' = [accepted EXCEPT ![f] = @ + n]
  BY DEF Transmit
<1> HIDE DEF f
<1>c. accepted' = [accepted EXCEPT ![f] = n]
  BY <1>b, <1>2
<1>4. /\ accepted' = accepted \/ accepted' = [accepted EXCEPT ![f] = 1]
      /\ UNCHANGED <<state, retryable>>
  BY <1>a, <1>c, <1>2 DEF TypeOK
<1>5. CASE accepted' = accepted
  BY <1>4, <1>5, PromiseStutters
<1>6. CASE accepted' = [accepted EXCEPT ![f] = 1]
  <2>1. verdictOf[f] \in {"open", "unsure"} /\ f \notin toldOf
    BY <1>2, <1>3 DEF verdictOf, toldOf
  <2>2. toldOf' = toldOf \cup {f}
    BY <1>2, <1>6 DEF toldOf, TypeOK
  <2>3. UNCHANGED verdictOf
    BY <1>4 DEF verdictOf
  <2> QED
    BY <1>2, <2>1, <2>2, <2>3 DEF Promise!Tell
<1> QED
  BY <1>4, <1>5, <1>6

LEMMA PromiseRecord ==
  ASSUME Holding, Truth, NEW w \in Workers, Record(w)
  PROVE  Promise!Next \/ UNCHANGED <<verdictOf, toldOf>>
<1> DEFINE f == job[w]
           a == answer[w]
           again == WorthRetrying(a, attempts[f])
<1> Shape /\ TypeOK /\ JobsHeld
  BY DEF Holding, Shape
<1>1. /\ f \in Findings /\ a \in Answers
      /\ a = "ok" => accepted[f] = 1
      /\ a \notin {"ok", "ambiguous"} => accepted[f] = 0
  BY DEF Record, JobsHeld, Truth, Heard
<1>2. /\ state[f] = "sending"
      /\ state' = [state EXCEPT ![f] = Verdict(a)]
      /\ retryable' = [retryable EXCEPT ![f] = again]
      /\ UNCHANGED accepted
  BY DEF Record, StillOwned, ghostVars
<1>3. again => a \in {"rate_limit", "server_error"}
  BY DEF WorthRetrying
<1>4. /\ a = "ok" => Verdict(a) = "sent"
      /\ a = "ambiguous" => Verdict(a) = "uncertain"
      /\ a \in {"rate_limit", "server_error", "rejected"} => Verdict(a) = "failed"
      /\ a \in {"consolidated", "cooldown", "unconfigured"} =>
            Verdict(a) \in {"suppressed_duplicate", "suppressed_cooldown", "not_configured"}
  BY DEF Verdict
<1>5. again \in BOOLEAN
  BY DEF WorthRetrying
<1> HIDE DEF f, a, again
<1> USE DEF TypeOK
<1>6. /\ verdictOf[f] = "open"
      /\ f \in toldOf <=> accepted[f] > 0
      /\ UNCHANGED toldOf
      /\ \A g \in Findings \ {f} : verdictOf'[g] = verdictOf[g]
  BY <1>1, <1>2 DEF verdictOf, toldOf
<1>7. ASSUME NEW v, verdictOf'[f] = v PROVE verdictOf' = [verdictOf EXCEPT ![f] = v]
  <2>1. /\ verdictOf = [g \in Findings |-> verdictOf[g]]
        /\ verdictOf' = [g \in Findings |-> verdictOf'[g]]
    BY Zenon DEF verdictOf
  <2> QED
    BY <1>1, <1>6, <1>7, <2>1
<1>8. CASE a = "ok"
  <2>1. verdictOf'[f] = "sent" /\ f \in toldOf
    BY <1>1, <1>2, <1>4, <1>6, <1>8 DEF verdictOf
  <2>2. Promise!Confirm(f)
    BY <1>6, <1>7, <2>1 DEF Promise!Confirm, Promise!Say
  <2> QED
    BY <1>1, <2>2 DEF Promise!Next
<1>9. CASE a = "ambiguous"
  <2>1. verdictOf'[f] = "unsure"
    BY <1>1, <1>2, <1>4, <1>9 DEF verdictOf
  <2>2. verdictOf' = [g \in Findings |-> IF g \in {f} THEN "unsure" ELSE verdictOf[g]]
    BY <1>1, <1>6, <2>1 DEF verdictOf
  <2>3. Promise!GiveUp({f})
    BY <1>6, <2>2 DEF Promise!GiveUp
  <2> QED
    BY <1>1, <2>3 DEF Promise!Next
<1>10. CASE again
  <2>1. verdictOf'[f] = "open"
    BY <1>1, <1>2, <1>3, <1>4, <1>10 DEF verdictOf
  <2>2. UNCHANGED verdictOf
    BY <1>1, <1>6, <2>1 DEF verdictOf
  <2> QED
    BY <1>6, <2>2
<1>11. CASE a \notin {"ok", "ambiguous"} /\ ~again
  <2>1. verdictOf'[f] = "dropped"
    BY <1>1, <1>2, <1>4, <1>11 DEF verdictOf, Answers, Replies
  <2>2. f \notin toldOf
    BY <1>1, <1>6, <1>11
  <2>3. Promise!Drop(f)
    BY <1>6, <1>7, <2>1, <2>2 DEF Promise!Drop, Promise!Say
  <2> QED
    BY <1>1, <2>3 DEF Promise!Next
<1> QED
  BY <1>8, <1>9, <1>10, <1>11

LEMMA PromiseExpire ==
  ASSUME Holding, NEW r \in Sweeps, MarkExpired(r)
  PROVE  \E S \in SUBSET Findings : Promise!GiveUp(S)
<1> DEFINE S == {f \in Findings : Expired(f)}
<1>1. /\ state' = [f \in Findings |-> IF Expired(f) THEN "uncertain" ELSE state[f]]
      /\ \A f \in Findings : ~Expired(f) => (retryable'[f] <=> retryable[f])
      /\ UNCHANGED accepted
  BY DEF MarkExpired, ghostVars
<1>2. \A f \in S : verdictOf[f] = "open"
  BY DEF Expired, verdictOf
<1>3. verdictOf' = [f \in Findings |-> IF f \in S THEN "unsure" ELSE verdictOf[f]]
  BY <1>1 DEF verdictOf
<1>4. UNCHANGED toldOf
  BY <1>1 DEF toldOf
<1>5. Promise!GiveUp(S)
  BY <1>2, <1>3, <1>4 DEF Promise!GiveUp
<1> QED
  BY <1>5

\* A retried failure was open and stays so.
LEMMA PromiseClaim ==
  ASSUME Holding, NEW r \in Sweeps, Claim(r)
  PROVE  UNCHANGED <<verdictOf, toldOf>>
<1> DEFINE batch == Oldest(Eligible)
<1>1. \A f \in batch : state[f] = "failed" /\ retryable[f]
  BY DEF Oldest, Eligible
<1>2. /\ state' = [f \in Findings |-> IF f \in batch THEN "sending" ELSE state[f]]
      /\ retryable' = [f \in Findings |-> retryable[f] /\ f \notin batch]
      /\ UNCHANGED accepted
  BY DEF Claim, ghostVars
<1> HIDE DEF batch
<1>3. \A f \in Findings : verdictOf'[f] = verdictOf[f]
  BY <1>1, <1>2 DEF verdictOf
<1> QED
  BY <1>2, <1>3 DEF verdictOf, toldOf

LEMMA PromiseStep ==
  Misleading = {} /\ Holding /\ Truth /\ [Next]_vars => [Promise!Next]_<<verdictOf, toldOf>>
<1> SUFFICES ASSUME Misleading = {}, Holding, Truth, [Next]_vars
             PROVE  Promise!Next \/ UNCHANGED <<verdictOf, toldOf>>
  OBVIOUS
<1>1. ASSUME NEW c \in Checks, NEW f \in Findings, Insert(c, f) PROVE Promise!Next
  BY <1>1, PromiseInsert DEF Promise!Next
<1>2. ASSUME NEW r \in Sweeps, Claim(r) PROVE UNCHANGED <<verdictOf, toldOf>>
  BY <1>2, PromiseClaim
<1>3. ASSUME NEW w \in Workers, Transmit(w) PROVE Promise!Next \/ UNCHANGED <<verdictOf, toldOf>>
  BY <1>3, PromiseTransmit DEF Promise!Next
<1>4. ASSUME NEW w \in Workers, Record(w) PROVE Promise!Next \/ UNCHANGED <<verdictOf, toldOf>>
  BY <1>4, PromiseRecord
<1>5. ASSUME NEW r \in Sweeps, MarkExpired(r) PROVE Promise!Next
  BY <1>5, PromiseExpire DEF Promise!Next
<1>6. ASSUME NEW w \in Workers, Handing(w), ~Transmit(w), ~Record(w), ~(w \in Sweeps /\ MarkExpired(w))
      PROVE  UNCHANGED <<state, retryable, accepted>>
  BY <1>6 DEF Handing, Observe, Duplicate, CheckCooldown, Take, LoseClaim, Finish, Crash, rowVars, ghostVars
<1>7. CASE Tick \/ UNCHANGED vars
  BY <1>7, PromiseStutters DEF Tick, vars, rowVars, ghostVars
<1> QED
  BY <1>1, <1>2, <1>3, <1>4, <1>5, <1>6, <1>7, PromiseStutters, Steps

\* Every behaviour of the queue is one of the at-most-once promise: what is
\* said of a finding is true, and what was said last is never taken back.
THEOREM QueueKeepsPromise == ASSUME Misleading = {} PROVE Spec => ImplementsPromise
<1>1. Init => Promise!Init
  BY PromiseInit
<1>2. (Holding /\ Truth) /\ [Next]_vars => [Promise!Next]_<<verdictOf, toldOf>>
  BY PromiseStep
<1>3. Spec => [](Holding /\ Truth)
  BY TruthAlways
<1> QED
  BY <1>1, <1>2, <1>3, PTL DEF Spec, ImplementsPromise, Promise!Spec
=============================================================================
