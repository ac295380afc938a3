----------------------- MODULE TelegramWebhookProofs -----------------------
(***************************************************************************)
(* Proofs about TelegramWebhook, for any number of deliveries, attempts,   *)
(* deaths and stalls.                                                      *)
(***************************************************************************)
EXTENDS TelegramWebhook, TLAPS

-----------------------------------------------------------------------------
(* What each step does to the invocations.                                 *)

\* A step of one invocation leaves the others alone.
Aside(r) == \A s \in Requests \ {r} : req'[s] = req[s]

Fresh == \A r \in Requests : At(r, "idle") => req[r] = Idle

Shape == TypeOK /\ Fresh

LEMMA RequestType ==
  ASSUME Shape, NEW r \in Requests
  PROVE  /\ req \in [Requests -> Request] /\ req[r] \in Request
         /\ req[r].pc \in PCs /\ req[r].reply \in Replies \cup {None}
         /\ req[r].attempts \in 0..MaxAttempts /\ req[r].verdict \in Verdicts
BY DEF Shape, TypeOK, Request

LEMMA RowType ==
  ASSUME Shape
  PROVE  /\ row \in Row
         /\ row.state \in States /\ row.reply \in Replies \cup {None}
         /\ row.attempts \in 0..MaxAttempts /\ row.old \in BOOLEAN
BY DEF Shape, TypeOK, Row

LEMMA PlacesOfCode ==
  /\ "idle" \in PCs /\ "execute" \in PCs /\ "prepare" \in PCs /\ "abandon" \in PCs
  /\ "unprove" \in PCs /\ "deliver" \in PCs /\ "send" \in PCs /\ "record" \in PCs
BY DEF PCs

LEMMA IdleType == Idle \in Request
BY BotAssumption, PlacesOfCode DEF Idle, Request, Verdicts

LEMMA ShapeInit == Init => Shape
<1> SUFFICES ASSUME Init
             PROVE  Shape
  OBVIOUS
<1>1. row \in Row
  BY BotAssumption DEF Init, Row, States
<1>2. req \in [Requests -> Request] /\ Fresh
  BY IdleType DEF Init, Fresh, At
<1>3. ours \in BOOLEAN /\ acked \in BOOLEAN
  BY DEF Init
<1>4. ran \in Nat
  BY DEF Init
<1>5. deaths \in 0..MaxDeaths /\ stalls \in 0..MaxStalls
  <2>1. MaxDeaths \in Nat /\ MaxStalls \in Nat
    BY BotAssumption
  <2> QED
    BY <2>1 DEF Init
<1>6. told \in [Replies -> Nat]
  BY DEF Init
<1> QED
  BY <1>1, <1>2, <1>3, <1>4, <1>5, <1>6 DEF Shape, TypeOK

\* The edits of what an invocation holds.
LEMMA Edits ==
  ASSUME NEW q \in Request
  PROVE  /\ \A p \in PCs : [q EXCEPT !.pc = p] \in Request
         /\ \A p \in PCs, n \in 0..MaxAttempts : [q EXCEPT !.pc = p, !.attempts = n] \in Request
         /\ \A p \in PCs, t \in Replies : [q EXCEPT !.pc = p, !.reply = t] \in Request
         /\ \A p \in PCs, v \in Verdicts : [q EXCEPT !.pc = p, !.verdict = v] \in Request
         /\ \A p \in PCs, t \in Replies \cup {None}, n \in 0..MaxAttempts :
              [q EXCEPT !.pc = p, !.reply = t, !.attempts = n] \in Request
BY DEF Request

\* One invocation becomes q.
Becomes(r, q) == req' \in [Requests -> Request] /\ req'[r] = q /\ Aside(r)

LEMMA Become ==
  ASSUME Shape, NEW r \in Requests, NEW q \in Request, req' = [req EXCEPT ![r] = q]
  PROVE  Becomes(r, q)
BY RequestType DEF Becomes, Aside

LEMMA ClaimLeads ==
  ASSUME Shape, NEW r \in Requests, Claim(r)
  PROVE  Becomes(r, [req[r] EXCEPT !.pc = "execute"])
<1>1. req' = [req EXCEPT ![r] = [req[r] EXCEPT !.pc = "execute"]]
  BY RequestType DEF Claim
<1> QED
  BY <1>1, Become, RequestType, Edits, PlacesOfCode

LEMMA FindReadyLeads ==
  ASSUME Shape, NEW r \in Requests, FindReady(r)
  PROVE  Becomes(r, [req[r] EXCEPT !.pc = "deliver", !.reply = row.reply, !.attempts = row.attempts])
<1>1. req' = [req EXCEPT ![r] = [req[r] EXCEPT !.pc = "deliver", !.reply = row.reply,
                                               !.attempts = row.attempts]]
  BY RequestType DEF FindReady
<1> QED
  BY <1>1, Become, RequestType, RowType, Edits, PlacesOfCode

LEMMA FindAbandonedLeads ==
  ASSUME Shape, NEW r \in Requests, FindAbandoned(r)
  PROVE  Becomes(r, [req[r] EXCEPT !.pc = AbandonedAt, !.attempts = row.attempts])
<1>1. req' = [req EXCEPT ![r] = [req[r] EXCEPT !.pc = AbandonedAt, !.attempts = row.attempts]]
  BY RequestType DEF FindAbandoned
<1>2. AbandonedAt \in PCs
  BY PlacesOfCode DEF AbandonedAt
<1> QED
  BY <1>1, <1>2, Become, RequestType, RowType, Edits

LEMMA UnproveLeads ==
  ASSUME Shape, NEW r \in Requests, Unprove(r)
  PROVE  Becomes(r, [req[r] EXCEPT !.pc = "deliver", !.reply = "unproven"])
<1>1. req' = [req EXCEPT ![r] = [req[r] EXCEPT !.pc = "deliver", !.reply = "unproven"]]
  BY RequestType DEF Unprove
<1>2. "unproven" \in Replies
  BY DEF Replies
<1> QED
  BY <1>1, <1>2, Become, RequestType, Edits, PlacesOfCode

LEMMA DispatchLeads ==
  ASSUME Shape, NEW r \in Requests, Dispatch(r)
  PROVE  Becomes(r, [req[r] EXCEPT !.pc = "prepare", !.reply = "done"])
<1>1. req' = [req EXCEPT ![r] = [req[r] EXCEPT !.pc = "prepare", !.reply = "done"]]
  BY RequestType DEF Dispatch
<1>2. "done" \in Replies
  BY DEF Replies
<1> QED
  BY <1>1, <1>2, Become, RequestType, Edits, PlacesOfCode

LEMMA PrepareLeads ==
  ASSUME Shape, NEW r \in Requests, Prepare(r)
  PROVE  Becomes(r, [req[r] EXCEPT !.pc = "deliver"])
<1>1. req' = [req EXCEPT ![r] = [req[r] EXCEPT !.pc = "deliver"]]
  BY RequestType DEF Prepare
<1> QED
  BY <1>1, Become, RequestType, Edits, PlacesOfCode

LEMMA ClaimReplyLeads ==
  ASSUME Shape, NEW r \in Requests, ClaimReply(r)
  PROVE  Becomes(r, [req[r] EXCEPT !.pc = "send", !.attempts = @ + 1])
<1>1. req' = [req EXCEPT ![r] = [req[r] EXCEPT !.pc = "send", !.attempts = req[r].attempts + 1]]
  BY RequestType DEF ClaimReply
<1>2. req[r].attempts + 1 \in 0..MaxAttempts
  BY RequestType, BotAssumption DEF ClaimReply
<1> QED
  BY <1>1, <1>2, Become, RequestType, Edits, PlacesOfCode

LEMMA SendLeads ==
  ASSUME Shape, NEW r \in Requests, NEW v \in {"ok", "retryable", "final", "unclear"},
         req' = [req EXCEPT ![r].pc = "record", ![r].verdict = v]
  PROVE  Becomes(r, [req[r] EXCEPT !.pc = "record", !.verdict = v])
<1>1. req' = [req EXCEPT ![r] = [req[r] EXCEPT !.pc = "record", !.verdict = v]]
  BY RequestType
<1>2. v \in Verdicts
  BY DEF Verdicts
<1> QED
  BY <1>1, <1>2, Become, RequestType, Edits, PlacesOfCode

LEMMA AnswerLeads ==
  ASSUME Shape, NEW r \in Requests, req' = [req EXCEPT ![r] = Idle]
  PROVE  Becomes(r, Idle)
BY Become, IdleType

\* What an invocation holds after a step, field by field.
Holds(r, p, t, n) ==
    req'[r].pc = p /\ req'[r].reply = t /\ req'[r].attempts = n

LEMMA Leads ==
  ASSUME Shape, NEW r \in Requests
  PROVE  /\ Claim(r) => Aside(r) /\ Holds(r, "execute", req[r].reply, req[r].attempts)
         /\ FindReady(r) => Aside(r) /\ Holds(r, "deliver", row.reply, row.attempts)
         /\ FindAbandoned(r) => Aside(r) /\ Holds(r, AbandonedAt, req[r].reply, row.attempts)
         /\ Unprove(r) => Aside(r) /\ Holds(r, "deliver", "unproven", req[r].attempts)
         /\ Dispatch(r) => Aside(r) /\ Holds(r, "prepare", "done", req[r].attempts)
         /\ Prepare(r) => Aside(r) /\ Holds(r, "deliver", req[r].reply, req[r].attempts)
         /\ ClaimReply(r) => Aside(r) /\ Holds(r, "send", req[r].reply, req[r].attempts + 1)
<1> USE RequestType DEF Becomes, Holds, Request
<1>1. ASSUME Claim(r)
      PROVE  Aside(r) /\ Holds(r, "execute", req[r].reply, req[r].attempts)
  BY <1>1, ClaimLeads
<1>2. ASSUME FindReady(r)
      PROVE  Aside(r) /\ Holds(r, "deliver", row.reply, row.attempts)
  BY <1>2, FindReadyLeads
<1>3. ASSUME FindAbandoned(r)
      PROVE  Aside(r) /\ Holds(r, AbandonedAt, req[r].reply, row.attempts)
  BY <1>3, FindAbandonedLeads
<1>4. ASSUME Unprove(r)
      PROVE  Aside(r) /\ Holds(r, "deliver", "unproven", req[r].attempts)
  BY <1>4, UnproveLeads
<1>5. ASSUME Dispatch(r)
      PROVE  Aside(r) /\ Holds(r, "prepare", "done", req[r].attempts)
  BY <1>5, DispatchLeads
<1>6. ASSUME Prepare(r)
      PROVE  Aside(r) /\ Holds(r, "deliver", req[r].reply, req[r].attempts)
  BY <1>6, PrepareLeads
<1>7. ASSUME ClaimReply(r)
      PROVE  Aside(r) /\ Holds(r, "send", req[r].reply, req[r].attempts + 1)
  BY <1>7, ClaimReplyLeads
<1> QED
  BY <1>1, <1>2, <1>3, <1>4, <1>5, <1>6, <1>7

LEMMA SendingLeads ==
  ASSUME Shape, NEW r \in Requests, Accept(r) \/ Refuse(r)
  PROVE  \E v \in {"ok", "retryable", "final", "unclear"} :
           /\ Accept(r) \/ (Refuse(r) /\ UNCHANGED told)
           /\ v = "retryable" => UNCHANGED told
           /\ req' = [req EXCEPT ![r].pc = "record", ![r].verdict = v]
           /\ Aside(r) /\ Holds(r, "record", req[r].reply, req[r].attempts)
           /\ req'[r].verdict = v
<1>1. PICK v \in {"ok", "retryable", "final", "unclear"} :
        /\ Accept(r) \/ (Refuse(r) /\ UNCHANGED told)
        /\ v = "retryable" => UNCHANGED told
        /\ req' = [req EXCEPT ![r].pc = "record", ![r].verdict = v]
  BY DEF Accept, Refuse
<1>2. Becomes(r, [req[r] EXCEPT !.pc = "record", !.verdict = v])
  BY <1>1, SendLeads
<1> QED
  BY <1>1, <1>2, RequestType DEF Becomes, Holds, Request

-----------------------------------------------------------------------------
(* The type invariant.                                                     *)

LEMMA RowEdits ==
  ASSUME NEW w \in Row
  PROVE  /\ \A x \in States : [w EXCEPT !.state = x] \in Row
         /\ \A x \in States : [w EXCEPT !.state = x, !.old = FALSE] \in Row
         /\ \A x \in States, t \in Replies :
              [w EXCEPT !.state = x, !.reply = t, !.old = FALSE] \in Row
         /\ \A x \in States, n \in 0..MaxAttempts :
              [w EXCEPT !.state = x, !.attempts = n, !.old = FALSE] \in Row
         /\ [w EXCEPT !.old = TRUE] \in Row
BY DEF Row

\* The steps after which the invocation has answered, or is no more.
Leaves(r) ==
    FindFinal(r) \/ Abandon(r) \/ Ignore(r) \/ GiveUp(r) \/ ReplyTaken(r) \/ Record(r) \/ Die(r)

LEMMA LeavesLeads ==
  ASSUME Shape, NEW r \in Requests, Leaves(r)
  PROVE  Becomes(r, Idle)
<1>1. req' = [req EXCEPT ![r] = Idle]
  BY DEF Leaves, FindFinal, Abandon, Ignore, GiveUp, ReplyTaken, Record, Die, Answer
<1> QED
  BY <1>1, AnswerLeads

LEMMA FreshStep ==
  ASSUME Shape, [Next]_vars
  PROVE  Fresh'
<1>1. ASSUME UNCHANGED req
      PROVE  Fresh'
  BY <1>1 DEF Shape, Fresh, At
<1>2. ASSUME NEW r \in Requests, Becomes(r, Idle)
      PROVE  Fresh'
  BY <1>2 DEF Shape, Fresh, At, Becomes, Aside
<1>3. ASSUME NEW r \in Requests, Aside(r), req'[r].pc # "idle"
      PROVE  Fresh'
  BY <1>3 DEF Shape, Fresh, At, Aside
<1>4. ASSUME NEW r \in Requests, Claim(r) \/ FindReady(r) \/ FindAbandoned(r)
      PROVE  Fresh'
  BY <1>3, <1>4, Leads DEF Holds, AbandonedAt
<1>5. ASSUME NEW r \in Requests,
             Unprove(r) \/ Dispatch(r) \/ Prepare(r) \/ ClaimReply(r)
      PROVE  Fresh'
  BY <1>3, <1>5, Leads DEF Holds
<1>6. ASSUME NEW r \in Requests, Accept(r) \/ Refuse(r)
      PROVE  Fresh'
  BY <1>3, <1>6, SendingLeads DEF Holds
<1>7. ASSUME NEW r \in Requests, Leaves(r)
      PROVE  Fresh'
  BY <1>2, <1>7, LeavesLeads
<1> QED
  BY <1>1, <1>4, <1>5, <1>6, <1>7
     DEF Next, Receive, Handle, Leaves, FindBusy, GrowOld, vars

LEMMA ReqShape ==
  ASSUME Shape, [Next]_vars
  PROVE  req' \in [Requests -> Request]
<1>1. ASSUME NEW r \in Requests, Claim(r) \/ FindReady(r) \/ FindAbandoned(r)
      PROVE  req' \in [Requests -> Request]
  BY <1>1, ClaimLeads, FindReadyLeads, FindAbandonedLeads DEF Becomes
<1>2. ASSUME NEW r \in Requests, Unprove(r) \/ Dispatch(r) \/ Prepare(r) \/ ClaimReply(r)
      PROVE  req' \in [Requests -> Request]
  BY <1>2, UnproveLeads, DispatchLeads, PrepareLeads, ClaimReplyLeads DEF Becomes
<1>3. ASSUME NEW r \in Requests, Accept(r) \/ Refuse(r)
      PROVE  req' \in [Requests -> Request]
  BY <1>3, SendingLeads, SendLeads DEF Becomes
<1>4. ASSUME NEW r \in Requests, Leaves(r)
      PROVE  req' \in [Requests -> Request]
  BY <1>4, LeavesLeads DEF Becomes
<1>5. req \in [Requests -> Request]
  BY DEF Shape, TypeOK
<1> QED
  BY <1>1, <1>2, <1>3, <1>4, <1>5
     DEF Next, Receive, Handle, Leaves, FindBusy, GrowOld, vars

LEMMA RowShape ==
  ASSUME Shape, [Next]_vars
  PROVE  row' \in Row
<1>1. /\ "processing" \in States /\ "ready" \in States /\ "delivered" \in States
      /\ "ignored" \in States /\ "failed" \in States
  BY DEF States
<1>2. row \in Row
  BY RowType
<1>3. ASSUME NEW r \in Requests, Claim(r)
      PROVE  row' \in Row
  BY <1>1, <1>2, <1>3, RowEdits DEF Claim
<1>4. ASSUME NEW r \in Requests, Abandon(r) \/ Ignore(r) \/ GiveUp(r)
      PROVE  row' \in Row
  <2>1. PICK x \in States : row' = [row EXCEPT !.state = x, !.old = FALSE]
    BY <1>1, <1>4 DEF Abandon, Ignore, GiveUp, Write
  <2> QED
    BY <1>2, <2>1, RowEdits
<1>5. ASSUME NEW r \in Requests, Unprove(r)
      PROVE  row' \in Row
  <2>1. "unproven" \in Replies
    BY DEF Replies
  <2> QED
    BY <1>1, <1>2, <1>5, <2>1, RowEdits DEF Unprove, WriteReply
<1>6. ASSUME NEW r \in Requests, ClaimReply(r)
      PROVE  row' \in Row
  <2>1. row.attempts + 1 \in 0..MaxAttempts
    BY <1>6, RowType, RequestType, BotAssumption DEF ClaimReply, Claimable
  <2> QED
    BY <1>1, <1>2, <1>6, <2>1, RowEdits DEF ClaimReply
<1>7. ASSUME NEW r \in Requests, Record(r)
      PROVE  row' \in Row
  <2>1. req[r].attempts \in 0..MaxAttempts
    BY RequestType
  <2>2. PICK x \in States : row' = [row EXCEPT !.attempts = req[r].attempts, !.old = FALSE,
                                               !.state = x]
    BY <1>1, <1>7 DEF Record
  <2> QED
    BY <1>2, <2>1, <2>2 DEF Row
<1>8. ASSUME GrowOld
      PROVE  row' \in Row
  BY <1>2, <1>8, RowEdits DEF GrowOld
<1>9. ASSUME NEW r \in Requests, Prepare(r)
      PROVE  row' \in Row
  BY <1>9, RowType, RequestType DEF Prepare, WriteReply, Row, States
<1> QED
  BY <1>2, <1>3, <1>4, <1>5, <1>6, <1>7, <1>8, <1>9
     DEF Next, Receive, Handle, FindReady, FindFinal, FindAbandoned, FindBusy, Dispatch,
         ReplyTaken, Accept, Refuse, Die, vars

\* Stalls are counted and never forgotten.
LEMMA Stalling ==
  ASSUME Shape, NEW stall \in BOOLEAN, Stalled(stall)
  PROVE  stalls' \in 0..MaxStalls /\ stalls' >= stalls
<1>1. MaxStalls \in Nat /\ stalls \in 0..MaxStalls
  BY BotAssumption DEF Shape, TypeOK
<1> QED
  BY <1>1 DEF Stalled

LEMMA StallsStep ==
  ASSUME Shape, [Next]_vars
  PROVE  stalls' \in 0..MaxStalls /\ stalls' >= stalls
<1>1. MaxStalls \in Nat /\ stalls \in 0..MaxStalls
  BY BotAssumption DEF Shape, TypeOK
<1>2. ASSUME NEW r \in Requests, FindAbandoned(r)
      PROVE  stalls' \in 0..MaxStalls /\ stalls' >= stalls
  <2>1. PICK stall \in BOOLEAN : Stalled(stall)
    <3>1. \E stall \in BOOLEAN : stall = (\E q \in Requests : At(q, "abandon") \/ At(q, "unprove"))
      OBVIOUS
    <3> QED
      BY <1>2, <3>1 DEF FindAbandoned
  <2> QED
    BY <2>1, Stalling
<1>3. ASSUME GrowOld
      PROVE  stalls' \in 0..MaxStalls /\ stalls' >= stalls
  <2>1. PICK stall \in BOOLEAN : Stalled(stall)
    <3>1. \E stall \in BOOLEAN : stall = (\E r \in Requests : ~At(r, "idle"))
      OBVIOUS
    <3> QED
      BY <1>3, <3>1 DEF GrowOld
  <2> QED
    BY <2>1, Stalling
<1>4. ASSUME UNCHANGED stalls
      PROVE  stalls' \in 0..MaxStalls /\ stalls' >= stalls
  BY <1>1, <1>4
<1> QED
  BY <1>2, <1>3, <1>4
     DEF Next, Receive, Handle, Claim, FindReady, FindFinal, FindBusy, Abandon, Unprove, Ignore,
         Dispatch, Prepare, GiveUp, ClaimReply, ReplyTaken, Accept, Refuse, Record, Die, bounds, vars

LEMMA CountersShape ==
  ASSUME Shape, [Next]_vars
  PROVE  /\ ours' \in BOOLEAN /\ acked' \in BOOLEAN /\ ran' \in Nat
         /\ told' \in [Replies -> Nat] /\ deaths' \in 0..MaxDeaths
<1>1. MaxDeaths \in Nat /\ deaths \in 0..MaxDeaths
  BY BotAssumption DEF Shape, TypeOK
<1>2. ours' \in BOOLEAN
  BY ZenonT(60)
     DEF Shape, TypeOK, Next, Receive, Handle, Claim, FindReady, FindFinal, FindAbandoned, FindBusy,
         Abandon, Unprove, Ignore, Dispatch, Prepare, GiveUp, ClaimReply, ReplyTaken, Accept, Refuse,
         Record, Die, GrowOld, bounds, vars
<1>3. acked' \in BOOLEAN
  BY ZenonT(60)
     DEF Shape, TypeOK, Next, Receive, Handle, Claim, FindReady, FindFinal, FindAbandoned,
         FindBusy, Abandon, Unprove, Ignore, Dispatch, Prepare, GiveUp, ClaimReply,
         ReplyTaken, Accept, Refuse, Record, Die, GrowOld, Answer, bounds, vars
<1>4. ran' \in Nat
  <2>1. ran \in Nat
    BY DEF Shape, TypeOK
  <2>2. ran' \in {ran, ran + 1}
    BY DEF Next, Receive, Handle, Claim, FindReady, FindFinal, FindAbandoned, FindBusy,
         Abandon, Unprove, Ignore, Dispatch, Prepare, GiveUp, ClaimReply, ReplyTaken, Accept, Refuse,
         Record, Die, GrowOld, bounds, vars
  <2> QED
    BY <2>1, <2>2
<1>5. told' \in [Replies -> Nat]
  <2>1. told \in [Replies -> Nat]
    BY DEF Shape, TypeOK
  <2>2. ASSUME NEW r \in Requests, Accept(r)
        PROVE  told' \in [Replies -> Nat]
    <3>1. PICK x : x = req[r].reply /\ told' = [told EXCEPT ![x] = told[x] + 1]
      BY <2>2 DEF Accept
    <3>2. CASE x \in Replies
      BY <2>1, <3>1, <3>2
    <3>3. CASE x \notin Replies
      BY <2>1, <3>1, <3>3
    <3> QED
      BY <3>2, <3>3
  <2>3. ASSUME UNCHANGED told
        PROVE  told' \in [Replies -> Nat]
    BY <2>1, <2>3
  <2> QED
    BY <2>2, <2>3 DEF Next, Receive, Handle, Claim, FindReady, FindFinal, FindAbandoned, FindBusy,
         Abandon, Unprove, Ignore, Dispatch, Prepare, GiveUp, ClaimReply, ReplyTaken, Refuse,
         Record, Die, GrowOld, bounds, vars
<1>6. deaths' \in 0..MaxDeaths
  <2>1. deaths' = deaths \/ (deaths < MaxDeaths /\ deaths' = deaths + 1)
    BY ZenonT(60)
       DEF Next, Receive, Handle, Claim, FindReady, FindFinal, FindAbandoned, FindBusy,
           Abandon, Unprove, Ignore, Dispatch, Prepare, GiveUp, ClaimReply, ReplyTaken,
           Accept, Refuse, Record, Die, GrowOld, Answer, bounds, vars
  <2> QED
    BY <1>1, <2>1
<1> QED
  BY <1>2, <1>3, <1>4, <1>5, <1>6

LEMMA ShapeStep ==
  ASSUME Shape, [Next]_vars
  PROVE  Shape'
BY FreshStep, ReqShape, RowShape, StallsStep, CountersShape DEF Shape, TypeOK

-----------------------------------------------------------------------------
(* The command takes effect at most once: its row is claimed before it     *)
(* runs, nobody who finds the row runs it, and whoever claimed the row     *)
(* leaves "execute" with the step that runs it.                            *)

Once ==
    /\ row.state = "absent" => ran = 0 /\ \A r \in Requests : At(r, "idle")
    /\ \A r, s \in Requests : At(r, "execute") /\ At(s, "execute") => r = s
    /\ \A r \in Requests : At(r, "execute") => ran = 0
    /\ ran <= 1

\* Steps that leave the command alone: the row stays present, nobody begins to execute.
LEMMA OnceKept ==
  ASSUME Shape, Once, UNCHANGED ran, row'.state # "absent" \/ UNCHANGED <<row, req>>,
         \A r \in Requests : At(r, "execute")' => At(r, "execute")
  PROVE  Once'
BY DEF Once, At

LEMMA OnceStep ==
  ASSUME Shape, Once, [Next]_vars
  PROVE  Once'
<1> DEFINE Goal == Once'
<1>1. ASSUME NEW r \in Requests, Aside(r), ~At(r, "execute")'
      PROVE  \A s \in Requests : At(s, "execute")' => At(s, "execute")
  BY <1>1 DEF Aside, At
<1>2. ASSUME NEW r \in Requests, Claim(r)
      PROVE  Goal
  <2>1. row'.state = "processing" /\ UNCHANGED ran /\ ran = 0
    BY <1>2, RowType DEF Claim, Once, Row
  <2>2. \A s \in Requests : s # r => ~At(s, "execute")'
    BY <1>2, Leads DEF Claim, Once, At, Aside
  <2> QED
    BY <2>1, <2>2 DEF Once
<1>3. ASSUME NEW r \in Requests, FindReady(r) \/ FindAbandoned(r)
      PROVE  Goal
  <2>1. ~At(r, "execute")' /\ Aside(r)
    BY <1>3, Leads DEF Holds, AbandonedAt, At
  <2>2. UNCHANGED <<row, ran>> /\ row.state # "absent"
    BY <1>3 DEF FindReady, FindAbandoned, Redelivered
  <2> QED
    BY <1>1, <2>1, <2>2, OnceKept
<1>4. ASSUME NEW r \in Requests, Unprove(r) \/ Prepare(r) \/ ClaimReply(r)
      PROVE  Goal
  <2>1. ~At(r, "execute")' /\ Aside(r)
    BY <1>4, Leads DEF Holds, At
  <2>2. UNCHANGED ran /\ row'.state # "absent"
    BY <1>4, RowType DEF Unprove, Prepare, ClaimReply, WriteReply, Row
  <2> QED
    BY <1>1, <2>1, <2>2, OnceKept
<1>5. ASSUME NEW r \in Requests, Dispatch(r)
      PROVE  Goal
  <2>1. ~At(r, "execute")' /\ Aside(r)
    BY <1>5, Leads DEF Holds, At
  <2>2. UNCHANGED row /\ row.state # "absent" /\ At(r, "execute") /\ ran = 0
    BY <1>5 DEF Dispatch, Once, At
  <2>3. ran' \in {0, 1}
    BY <1>5, <2>2 DEF Dispatch
  <2>4. \A s \in Requests : ~At(s, "execute")'
    BY <1>1, <2>1, <2>2 DEF Once, At
  <2> QED
    BY <2>2, <2>3, <2>4 DEF Once
<1>6. ASSUME NEW r \in Requests, Accept(r) \/ Refuse(r)
      PROVE  Goal
  <2>1. ~At(r, "execute")' /\ Aside(r)
    BY <1>6, SendingLeads DEF Holds, At
  <2>2. UNCHANGED <<row, ran>> /\ row.state # "absent"
    BY <1>6 DEF Accept, Refuse, Once, At
  <2> QED
    BY <1>1, <2>1, <2>2, OnceKept
<1>7. ASSUME NEW r \in Requests, Leaves(r)
      PROVE  Goal
  <2>1. ~At(r, "execute")' /\ Aside(r)
    BY <1>7, LeavesLeads DEF Becomes, At, Idle
  <2>2. UNCHANGED ran /\ row.state # "absent"
    BY <1>7 DEF Leaves, FindFinal, Redelivered, Abandon, Ignore, GiveUp, ReplyTaken, Record, Die,
       Once, At
  <2>3. row'.state # "absent"
    <3>1. CASE UNCHANGED row
      BY <2>2, <3>1
    <3>2. CASE \E x \in {"failed", "ignored"} : Write(x)
      BY <3>2, RowType DEF Write, Row
    <3>3. CASE Record(r)
      BY <3>3, RowType DEF Record, Row
    <3> QED
      BY <1>7, <3>1, <3>2, <3>3 DEF Leaves, FindFinal, Abandon, Ignore, GiveUp, ReplyTaken, Die
  <2> QED
    BY <1>1, <2>1, <2>2, <2>3, OnceKept
<1>8. ASSUME GrowOld
      PROVE  Goal
  BY <1>8, RowType, OnceKept DEF GrowOld, At, Row
<1>9. ASSUME UNCHANGED vars
      PROVE  Goal
  BY <1>9, OnceKept DEF vars, At
<1> HIDE DEF Goal
<1>10. Goal
  BY <1>2, <1>3, <1>4, <1>5, <1>6, <1>7, <1>8, <1>9
     DEF Next, Receive, Handle, Leaves, FindBusy
<1> QED
  BY <1>10 DEF Goal

LEMMA OnceInit == Init => Once
BY DEF Init, Once, At, Idle

-----------------------------------------------------------------------------
(* Who does what while nobody has been taken for dead and gone on.  A      *)
(* command runs and a row is given up or taken over by one invocation      *)
(* alone; a reply is sent by one, whatever others have read of the row;    *)
(* and as long as the reply may still be sent nobody has been told it.     *)

Untold == \A t \in Replies : told[t] = 0
ToldOnce == \A t \in Replies : told[t] <= 1
Alone(r) == \A s \in Requests : s # r => At(s, "idle")
Running(r) == req[r].pc \in {"execute", "prepare"}
Sending(r) == req[r].pc \in {"send", "record"}
Burying(r) == req[r].pc \in {"abandon", "unprove"}

RowOrder ==
    /\ row.old => row.state = "processing" /\ \A r \in Requests : At(r, "idle") \/ Burying(r)
    /\ row.reply = None => Untold /\ row.attempts = 0
    /\ row.state = "absent" => row.reply = None
    /\ row.state = "ready" => Untold /\ row.attempts < MaxAttempts /\ row.reply # None
    /\ acked => row.state \in Final
    /\ ToldOnce

Placed(r) ==
    /\ Burying(r) => row.old /\ Alone(r)
    /\ At(r, "unprove") => row.reply = None /\ req[r].attempts = row.attempts
    /\ Running(r) => row.state = "processing" /\ row.reply = None /\ Alone(r) /\ req[r].attempts = 0
    /\ At(r, "deliver") =>
         /\ row.reply # None /\ req[r].reply = row.reply /\ req[r].attempts < MaxAttempts
         /\ \A s \in Requests : At(s, "idle") \/ At(s, "deliver") \/ Sending(s)
    /\ Sending(r) =>
         /\ row.state = "processing" /\ row.reply # None /\ req[r].reply = row.reply
         /\ \A s \in Requests : s # r => At(s, "idle") \/ At(s, "deliver")
    /\ At(r, "send") => Untold
    /\ At(r, "record") /\ req[r].verdict = "retryable" => Untold
    /\ At(r, "prepare") => req[r].reply = "done"

Orderly == RowOrder /\ \A r \in Requests : Placed(r)

LEMMA OrderlyInit == Init => Orderly
<1> SUFFICES ASSUME Init
             PROVE  Orderly
  OBVIOUS
<1>1. Untold /\ ToldOnce
  BY DEF Init, Untold, ToldOnce
<1>2. \A r \in Requests : At(r, "idle")
  BY DEF Init, At, Idle
<1>3. RowOrder
  BY <1>1, <1>2 DEF Init, RowOrder
<1> QED
  BY <1>2, <1>3 DEF Orderly, Placed, At, Burying, Running, Sending

\* What a step leaves in the row, field by field.
RowBecomes(x, t, n) == row'.state = x /\ row'.reply = t /\ row'.attempts = n

LEMMA RowLeads ==
  ASSUME Shape, NEW r \in Requests
  PROVE  /\ Claim(r) => RowBecomes("processing", row.reply, row.attempts) /\ (row'.old => row.old)
         /\ Abandon(r) => RowBecomes("failed", row.reply, row.attempts) /\ ~row'.old
         /\ Ignore(r) => RowBecomes("ignored", row.reply, row.attempts) /\ ~row'.old
         /\ Unprove(r) => RowBecomes("ready", "unproven", row.attempts) /\ ~row'.old
         /\ Prepare(r) => RowBecomes("ready", req[r].reply, row.attempts) /\ ~row'.old
         /\ ClaimReply(r) => RowBecomes("processing", row.reply, row.attempts + 1) /\ ~row'.old
         /\ GrowOld => RowBecomes(row.state, row.reply, row.attempts)
         /\ Record(r) => RowBecomes(row'.state, row.reply, req[r].attempts) /\ ~row'.old
<1> USE RowType DEF RowBecomes, Row
<1>1. ASSUME Claim(r)
      PROVE  RowBecomes("processing", row.reply, row.attempts) /\ (row'.old => row.old)
  BY <1>1 DEF Claim
<1>2. ASSUME Abandon(r)
      PROVE  RowBecomes("failed", row.reply, row.attempts) /\ ~row'.old
  BY <1>2 DEF Abandon, Write
<1>3. ASSUME Ignore(r)
      PROVE  RowBecomes("ignored", row.reply, row.attempts) /\ ~row'.old
  BY <1>3 DEF Ignore, Write
<1>4. ASSUME Unprove(r)
      PROVE  RowBecomes("ready", "unproven", row.attempts) /\ ~row'.old
  BY <1>4 DEF Unprove, WriteReply
<1>5. ASSUME Prepare(r)
      PROVE  RowBecomes("ready", req[r].reply, row.attempts) /\ ~row'.old
  BY <1>5 DEF Prepare, WriteReply
<1>6. ASSUME ClaimReply(r)
      PROVE  RowBecomes("processing", row.reply, row.attempts + 1) /\ ~row'.old
  BY <1>6 DEF ClaimReply
<1>7. ASSUME GrowOld
      PROVE  RowBecomes(row.state, row.reply, row.attempts)
  BY <1>7 DEF GrowOld
<1>8. ASSUME Record(r)
      PROVE  RowBecomes(row'.state, row.reply, req[r].attempts) /\ ~row'.old
  BY <1>8 DEF Record
<1> QED
  BY <1>1, <1>2, <1>3, <1>4, <1>5, <1>6, <1>7, <1>8

\* An invocation that only stops leaves everything in order.
LEMMA StopKeepsOrder ==
  ASSUME Shape, Orderly, NEW r \in Requests, Becomes(r, Idle), UNCHANGED <<row, told>>,
         acked' => acked \/ row.state \in Final
  PROVE  Orderly'
<1>1. \A s \in Requests : At(s, "idle")' \/ (s # r /\ req'[s] = req[s])
  BY DEF Becomes, Aside, At, Idle
<1>2. UNCHANGED <<Untold, ToldOnce>>
  BY DEF Untold, ToldOnce
<1>3. RowOrder'
  BY <1>1, <1>2 DEF Orderly, RowOrder, Burying, At
<1>4. ASSUME NEW s \in Requests
      PROVE  Placed(s)'
  <2>1. CASE At(s, "idle")'
    BY <2>1 DEF Placed, At, Burying, Running, Sending
  <2>2. CASE s # r /\ req'[s] = req[s]
    <3>1. Placed(s) /\ \A q \in Requests : At(q, "idle")' \/ req'[q] = req[q]
      BY <1>1 DEF Orderly
    <3> QED
      BY <2>2, <3>1, <1>2 DEF Placed, At, Burying, Running, Sending, Alone
  <2> QED
    BY <1>1, <2>1, <2>2
<1> QED
  BY <1>3, <1>4 DEF Orderly

\* With everyone at rest the row alone must be in order.
LEMMA AllIdleOrder ==
  ASSUME RowOrder', \A s \in Requests : At(s, "idle")'
  PROVE  Orderly'
BY DEF Orderly, Placed, At, Burying, Running, Sending

\* Who is at work on the row shuts out whoever would find it, take it over or let it
\* grow old.
LEMMA ReceiveOrder ==
  ASSUME Shape, Once, Orderly, NEW r \in Requests, Receive(r), InTime, InTime'
  PROVE  Orderly'
<1>1. ASSUME Claim(r)
      PROVE  Orderly'
  <2>1. row.state = "absent" /\ ~acked /\ \A s \in Requests : At(s, "idle")
    BY <1>1 DEF Claim, Once
  <2>2. row.reply = None /\ row.attempts = 0 /\ ~row.old /\ Untold
    BY <2>1 DEF Orderly, RowOrder
  <2>3. req[r].attempts = 0 /\ Aside(r) /\ Holds(r, "execute", req[r].reply, req[r].attempts)
    BY <1>1, <2>1, Leads DEF Shape, Fresh, Idle
  <2>4. RowBecomes("processing", row.reply, row.attempts) /\ (row'.old => row.old)
    BY <1>1, RowLeads
  <2>5. UNCHANGED <<Untold, ToldOnce, acked>>
    BY <1>1 DEF Claim, Untold, ToldOnce
  <2>6. RowOrder'
    BY <2>1, <2>2, <2>4, <2>5 DEF Orderly, RowOrder, RowBecomes
  <2>7. ASSUME NEW s \in Requests
        PROVE  Placed(s)'
    BY <2>1, <2>2, <2>3, <2>4 DEF Placed, At, Burying, Running, Sending, Alone, Aside, Holds, RowBecomes
  <2> QED
    BY <2>6, <2>7 DEF Orderly
<1>2. ASSUME FindReady(r)
      PROVE  Orderly'
  <2>1. row.state = "ready" /\ UNCHANGED <<row, acked, Untold, ToldOnce>>
    BY <1>2 DEF FindReady, Untold, ToldOnce
  <2>2. Aside(r) /\ Holds(r, "deliver", row.reply, row.attempts)
    BY <1>2, Leads
  <2>3. ~row.old /\ row.attempts < MaxAttempts /\ row.reply # None
    BY <2>1 DEF Orderly, RowOrder
  <2>4. \A s \in Requests : At(s, "idle") \/ At(s, "deliver")
    BY <2>1, <2>3, RequestType DEF Orderly, Placed, At, Burying, Running, Sending, PCs
  <2>5. RowOrder'
    BY <2>1, <2>3 DEF Orderly, RowOrder
  <2>6. \A s \in Requests : At(s, "idle")' \/ At(s, "deliver")'
    BY <2>2, <2>4 DEF At, Aside, Holds
  <2>7. ASSUME NEW s \in Requests, At(s, "deliver")'
        PROVE  req'[s].reply = row.reply /\ req'[s].attempts < MaxAttempts
    BY <2>2, <2>3, <2>7 DEF Orderly, Placed, At, Aside, Holds
  <2>8. ASSUME NEW s \in Requests
        PROVE  Placed(s)'
    BY <2>1, <2>3, <2>6, <2>7 DEF Placed, At, Burying, Running, Sending
  <2> QED
    BY <2>5, <2>8 DEF Orderly
<1>3. ASSUME FindFinal(r)
      PROVE  Orderly'
  <2>1. Becomes(r, Idle)
    BY <1>3, LeavesLeads DEF Leaves
  <2>2. UNCHANGED <<row, told>> /\ (acked' => acked \/ row.state \in Final)
    BY <1>3 DEF FindFinal, Answer
  <2> QED
    BY <2>1, <2>2, StopKeepsOrder
<1>4. ASSUME FindAbandoned(r)
      PROVE  Orderly'
  <2>1. row.state = "processing" /\ row.old /\ UNCHANGED <<row, acked, Untold, ToldOnce>>
    BY <1>4 DEF FindAbandoned, Abandoned, Untold, ToldOnce
  <2>2. ~\E q \in Requests : At(q, "abandon") \/ At(q, "unprove")
    <3>1. Stalled(\E q \in Requests : At(q, "abandon") \/ At(q, "unprove"))
      BY <1>4 DEF FindAbandoned
    <3> QED
      BY <3>1 DEF Stalled, InTime
  <2>3. \A s \in Requests : At(s, "idle")
    BY <2>1, <2>2 DEF Orderly, RowOrder, Burying, At
  <2>4. Aside(r) /\ Holds(r, AbandonedAt, req[r].reply, row.attempts)
    BY <1>4, Leads
  <2>5. AbandonedAt \in {"abandon", "unprove"} /\ (AbandonedAt = "unprove" => row.reply = None)
    BY DEF AbandonedAt
  <2>6. RowOrder'
    BY <2>1, <2>3, <2>4, <2>5 DEF Orderly, RowOrder, Aside, Holds, At, Burying
  <2>7. ASSUME NEW s \in Requests
        PROVE  Placed(s)'
    BY <2>1, <2>3, <2>4, <2>5 DEF Placed, At, Burying, Running, Sending, Alone, Aside, Holds
  <2> QED
    BY <2>6, <2>7 DEF Orderly
<1> QED
  BY <1>1, <1>2, <1>3, <1>4 DEF Receive

\* What one invocation alone does to the row: it gives it up, or makes it ready.
LEMMA AloneOrder ==
  ASSUME Shape, Orderly, NEW r \in Requests,
         Abandon(r) \/ Unprove(r) \/ Ignore(r) \/ Dispatch(r) \/ Prepare(r)
  PROVE  Orderly'
<1>1. Alone(r) /\ Placed(r) /\ RowOrder /\ UNCHANGED <<Untold, ToldOnce>>
  BY ZenonT(60)
     DEF Abandon, Unprove, Ignore, Dispatch, Prepare, Orderly, Placed, At, Burying, Running,
         Untold, ToldOnce
<1>2. ASSUME Abandon(r) \/ Ignore(r)
      PROVE  Orderly'
  <2>1. \A s \in Requests : At(s, "idle")'
    <3>1. Becomes(r, Idle)
      BY <1>2, LeavesLeads DEF Leaves
    <3> QED
      BY <1>1, <3>1 DEF Becomes, Aside, Alone, At, Idle
  <2>2. PICK x \in {"failed", "ignored"} : RowBecomes(x, row.reply, row.attempts) /\ ~row'.old
    BY <1>2, RowLeads
  <2>3. RowOrder'
    BY <1>1, <2>2 DEF RowOrder, RowBecomes, Final
  <2> QED
    BY <2>1, <2>3, AllIdleOrder
<1>3. ASSUME Unprove(r) \/ Prepare(r)
      PROVE  Orderly'
  <2>1. row.state = "processing" /\ row.reply = None /\ row.attempts = 0 /\ req[r].attempts = 0
    BY <1>1, <1>3 DEF Unprove, Prepare, Placed, RowOrder, At, Running, Burying
  <2>2. PICK t \in Replies :
          RowBecomes("ready", t, 0) /\ ~row'.old /\ Holds(r, "deliver", t, 0) /\ Aside(r)
    <3>1. ASSUME Unprove(r)
          PROVE  /\ RowBecomes("ready", "unproven", 0) /\ ~row'.old
                 /\ Holds(r, "deliver", "unproven", 0) /\ Aside(r)
      BY <2>1, <3>1, RowLeads, Leads
    <3>2. ASSUME Prepare(r)
          PROVE  /\ RowBecomes("ready", "done", 0) /\ ~row'.old
                 /\ Holds(r, "deliver", "done", 0) /\ Aside(r)
      <4>1. req[r].reply = "done"
        BY <1>1, <3>2 DEF Prepare, Placed
      <4> QED
        BY <2>1, <3>2, <4>1, RowLeads, Leads
    <3> QED
      BY <1>3, <3>1, <3>2 DEF Replies
  <2>3. t # None /\ 0 < MaxAttempts
    BY BotAssumption DEF Replies
  <2>4. UNCHANGED acked /\ ~acked
    BY <1>1, <1>3, <2>1 DEF Unprove, Prepare, RowOrder, Final
  <2>5. RowOrder'
    BY <1>1, <2>1, <2>2, <2>3, <2>4 DEF RowOrder, RowBecomes
  <2>6. ASSUME NEW s \in Requests
        PROVE  Placed(s)'
    BY <1>1, <2>2, <2>3 DEF Placed, RowBecomes, Holds, Aside, Alone, At, Burying, Running, Sending
  <2> QED
    BY <2>5, <2>6 DEF Orderly
<1>4. ASSUME Dispatch(r)
      PROVE  Orderly'
  <2>1. Aside(r) /\ Holds(r, "prepare", "done", req[r].attempts)
    BY <1>4, Leads
  <2>2. UNCHANGED <<row, acked>> /\ Running(r) /\ ~row.old
    BY <1>1, <1>4 DEF Dispatch, At, Running, RowOrder, Burying
  <2>3. RowOrder'
    BY <1>1, <2>2 DEF RowOrder
  <2>4. ASSUME NEW s \in Requests
        PROVE  Placed(s)'
    BY <1>1, <2>1, <2>2 DEF Placed, Holds, Aside, Alone, At, Burying, Running, Sending
  <2> QED
    BY <2>3, <2>4 DEF Orderly
<1> QED
  BY <1>2, <1>3, <1>4

\* A reply is claimed by one of those who read it, and is ready again only if it was
\* refused.
LEMMA ReplyOrder ==
  ASSUME Shape, Orderly, NEW r \in Requests,
         GiveUp(r) \/ ClaimReply(r) \/ ReplyTaken(r) \/ Accept(r) \/ Refuse(r) \/ Record(r)
  PROVE  Orderly'
<1>1. RowOrder /\ Placed(r)
  BY DEF Orderly
<1>2. MaxAttempts \in Nat \ {0} /\ req[r].attempts \in 0..MaxAttempts
  BY BotAssumption, RequestType
<1>3. ASSUME GiveUp(r)
      PROVE  Orderly'
  BY <1>1, <1>2, <1>3 DEF GiveUp, Placed
<1>4. ASSUME ClaimReply(r)
      PROVE  Orderly'
  <2>1. row.state = "ready" /\ At(r, "deliver") /\ UNCHANGED <<acked, Untold, ToldOnce>>
    BY <1>4 DEF ClaimReply, Claimable, Untold, ToldOnce
  <2>2. ~row.old /\ row.reply # None /\ Untold /\ ToldOnce /\ ~acked
    BY <1>1, <2>1 DEF RowOrder, Final
  <2>3. Aside(r) /\ Holds(r, "send", req[r].reply, req[r].attempts + 1)
    BY <1>4, Leads
  <2>4. RowBecomes("processing", row.reply, row.attempts + 1) /\ ~row'.old
    BY <1>4, RowLeads
  <2>5. \A s \in Requests : At(s, "idle") \/ At(s, "deliver")
    BY <1>1, <2>1 DEF Orderly, Placed, At, Sending
  <2>6. req[r].reply = row.reply
    BY <1>1, <2>1 DEF Placed
  <2>7. RowOrder'
    BY <2>1, <2>2, <2>4 DEF RowOrder, RowBecomes
  <2>8. ASSUME NEW s \in Requests
        PROVE  Placed(s)'
    <3>1. CASE s = r
      BY <2>1, <2>2, <2>3, <2>4, <2>5, <2>6, <3>1
         DEF Placed, RowBecomes, Holds, Aside, At, Burying, Running, Sending
    <3>2. CASE s # r /\ At(s, "idle")
      BY <2>3, <3>2 DEF Placed, Aside, At, Burying, Running, Sending
    <3>3. CASE s # r /\ At(s, "deliver")
      <4>1. req[s].reply = row.reply /\ req[s].attempts < MaxAttempts
        BY <3>3 DEF Orderly, Placed
      <4>2. \A q \in Requests : At(q, "idle")' \/ At(q, "deliver")' \/ Sending(q)'
        BY <2>3, <2>5 DEF Holds, Aside, At, Sending
      <4> QED
        BY <2>2, <2>3, <2>4, <3>3, <4>1, <4>2
           DEF Placed, RowBecomes, Aside, At, Burying, Running, Sending
    <3> QED
      BY <2>5, <3>1, <3>2, <3>3
  <2> QED
    BY <2>7, <2>8 DEF Orderly
<1>5. ASSUME ReplyTaken(r)
      PROVE  Orderly'
  <2>1. Becomes(r, Idle)
    BY <1>5, LeavesLeads DEF Leaves
  <2>2. UNCHANGED <<row, told>> /\ (acked' => acked \/ row.state \in Final)
    BY <1>5 DEF ReplyTaken, Answer
  <2> QED
    BY <2>1, <2>2, StopKeepsOrder
<1>6. ASSUME Accept(r) \/ Refuse(r)
      PROVE  Orderly'
  <2>1. PICK v \in {"ok", "retryable", "final", "unclear"} :
          /\ Accept(r) \/ (Refuse(r) /\ UNCHANGED told)
          /\ v = "retryable" => UNCHANGED told
          /\ Aside(r) /\ Holds(r, "record", req[r].reply, req[r].attempts)
          /\ req'[r].verdict = v
    BY <1>6, SendingLeads
  <2>2. /\ At(r, "send") /\ Sending(r) /\ Untold /\ UNCHANGED <<row, acked>>
        /\ row.state = "processing" /\ row.reply # None /\ req[r].reply = row.reply
        /\ \A s \in Requests : s # r => At(s, "idle") \/ At(s, "deliver")
    BY <1>1, <1>6 DEF Accept, Refuse, Placed, At, Sending
  <2>3. ~row.old
    BY <1>1, <2>2 DEF RowOrder, At, Burying
  <2>4. \A t \in Replies : told'[t] <= 1
    <3>1. \A t \in Replies : told[t] = 0
      BY <2>2 DEF Untold
    <3>2. told \in [Replies -> Nat]
      BY DEF Shape, TypeOK
    <3>3. CASE UNCHANGED told
      BY <3>1, <3>3
    <3>4. CASE Accept(r)
      <4>1. told' = [told EXCEPT ![row.reply] = told[row.reply] + 1]
        BY <2>2, <3>4 DEF Accept
      <4>2. row.reply \in Replies
        BY <2>2, RowType
      <4> QED
        BY <3>1, <3>2, <4>1, <4>2
    <3> QED
      BY <2>1, <3>3, <3>4
  <2>5. v = "retryable" => Untold'
    BY <2>1, <2>2 DEF Untold
  <2>6. RowOrder'
    BY <1>1, <2>2, <2>3, <2>4 DEF RowOrder, ToldOnce
  <2>7. Placed(r)'
    BY <2>1, <2>2, <2>5 DEF Placed, Holds, Aside, At, Burying, Running, Sending
  <2>8. ASSUME NEW s \in Requests, s # r
        PROVE  Placed(s)'
    <3>1. req'[s] = req[s]
      BY <2>1, <2>8 DEF Aside
    <3>2. CASE At(s, "idle")
      BY <3>1, <3>2 DEF Placed, At, Burying, Running, Sending
    <3>3. CASE At(s, "deliver")
      <4>1. req[s].reply = row.reply /\ req[s].attempts < MaxAttempts
        BY <3>3 DEF Orderly, Placed
      <4>2. \A q \in Requests : At(q, "idle")' \/ At(q, "deliver")' \/ Sending(q)'
        BY <2>1, <2>2 DEF Holds, Aside, At, Sending
      <4> QED
        BY <2>2, <3>1, <3>3, <4>1, <4>2 DEF Placed, At, Burying, Running, Sending
    <3> QED
      BY <2>2, <2>8, <3>2, <3>3
  <2> QED
    BY <2>6, <2>7, <2>8 DEF Orderly
<1>7. ASSUME Record(r)
      PROVE  Orderly'
  <2>1. /\ At(r, "record") /\ UNCHANGED <<told, Untold, ToldOnce>>
        /\ row.state = "processing" /\ row.reply # None
        /\ \A s \in Requests : s # r => At(s, "idle") \/ At(s, "deliver")
    BY <1>1, <1>7 DEF Record, Placed, At, Sending, Untold, ToldOnce
  <2>2. /\ row'.state \in {"delivered", "ready", "failed"}
        /\ row'.state = "ready" => Retryable(r)
        /\ Retryable(r) => Untold /\ req[r].attempts < MaxAttempts
    <3>1. row'.state = (CASE req[r].verdict = "ok" -> "delivered"
                          [] Retryable(r) -> "ready"
                          [] OTHER -> "failed")
      BY <1>7, RowType DEF Record, Row
    <3> QED
      BY <1>1, <2>1, <3>1 DEF Retryable, Placed
  <2>3. ~acked /\ (acked' => ~Retryable(r))
    <3>1. ~acked
      BY <1>1, <2>1 DEF RowOrder, Final
    <3> QED
      BY <1>7, <3>1 DEF Record, Answer
  <2>4. Becomes(r, Idle)
    BY <1>7, LeavesLeads DEF Leaves
  <2>5. RowBecomes(row'.state, row.reply, req[r].attempts) /\ ~row'.old
    BY <1>7, RowLeads
  <2>6. ~Retryable(r) => row'.state \in Final
    <3>1. row'.state = (CASE req[r].verdict = "ok" -> "delivered"
                          [] Retryable(r) -> "ready"
                          [] OTHER -> "failed")
      BY <1>7, RowType DEF Record, Row
    <3> QED
      BY <3>1 DEF Final
  <2>7. RowOrder'
    BY <1>1, <2>1, <2>2, <2>3, <2>5, <2>6 DEF RowOrder, RowBecomes
  <2>8. At(r, "idle")' /\ \A s \in Requests : s # r => req'[s] = req[s]
    BY <2>4 DEF Becomes, Aside, At, Idle
  <2>9. ASSUME NEW s \in Requests
        PROVE  Placed(s)'
    <3>1. CASE At(s, "idle")'
      BY <3>1 DEF Placed, At, Burying, Running, Sending
    <3>2. CASE s # r /\ At(s, "deliver")
      <4>1. req[s].reply = row.reply /\ req[s].attempts < MaxAttempts
        BY <3>2 DEF Orderly, Placed
      <4>2. \A q \in Requests : At(q, "idle")' \/ At(q, "deliver")'
        BY <2>1, <2>8 DEF At
      <4> QED
        BY <2>1, <2>5, <2>8, <3>2, <4>1, <4>2
           DEF Placed, RowBecomes, At, Burying, Running, Sending
    <3> QED
      BY <2>1, <2>8, <3>1, <3>2 DEF At
  <2> QED
    BY <2>7, <2>9 DEF Orderly
<1> QED
  BY <1>3, <1>4, <1>5, <1>6, <1>7

\* Who dies leaves the row to grow old, and it does so once nobody is at work.
LEMMA PassingOrder ==
  ASSUME Shape, Orderly, InTime, InTime',
         GrowOld \/ \E r \in Requests : Die(r)
  PROVE  Orderly'
<1>1. ASSUME NEW r \in Requests, Die(r)
      PROVE  Orderly'
  <2>1. Becomes(r, Idle)
    BY <1>1, LeavesLeads DEF Leaves
  <2>2. UNCHANGED <<row, told>> /\ UNCHANGED acked
    BY <1>1 DEF Die
  <2> QED
    BY <2>1, <2>2, StopKeepsOrder
<1>2. ASSUME GrowOld
      PROVE  Orderly'
  <2>1. \A r \in Requests : At(r, "idle")
    <3>1. Stalled(\E r \in Requests : ~At(r, "idle"))
      BY <1>2 DEF GrowOld
    <3> QED
      BY <3>1 DEF Stalled, InTime
  <2>2. row.state = "processing" /\ UNCHANGED <<req, acked, Untold, ToldOnce>>
    BY <1>2 DEF GrowOld, Untold, ToldOnce
  <2>3. row'.state = row.state /\ row'.reply = row.reply /\ row'.attempts = row.attempts
    BY <1>2, RowType DEF GrowOld, Row
  <2>4. RowOrder'
    BY <2>1, <2>2, <2>3 DEF Orderly, RowOrder, At
  <2> QED
    BY <2>1, <2>2, <2>4, AllIdleOrder DEF At
<1> QED
  BY <1>1, <1>2

LEMMA OrderlyStep ==
  ASSUME Shape, Once, InTime => Orderly, [Next]_vars
  PROVE  (InTime => Orderly)'
<1> SUFFICES ASSUME InTime'
             PROVE  Orderly'
  OBVIOUS
<1>1. InTime /\ Orderly
  BY StallsStep DEF InTime, Shape, TypeOK
<1>2. ASSUME UNCHANGED vars
      PROVE  Orderly'
  BY <1>1, <1>2 DEF vars, Orderly, RowOrder, Placed, Alone, Running, Sending, Burying, At, Untold,
     ToldOnce
<1> QED
  BY <1>1, <1>2, ReceiveOrder, AloneOrder, ReplyOrder, PassingOrder DEF Next, Handle, FindBusy

-----------------------------------------------------------------------------
BotInvariant == Shape /\ Once /\ (InTime => Orderly)

\* BotInvariant is inductive, for any number of deliveries, attempts, deaths and stalls.
LEMMA InvariantHolds == Spec => []BotInvariant
<1>1. Init => BotInvariant
  BY ShapeInit, OnceInit, OrderlyInit DEF BotInvariant
<1>2. BotInvariant /\ [Next]_vars => BotInvariant'
  BY ShapeStep, OnceStep, OrderlyStep DEF BotInvariant
<1> QED
  BY <1>1, <1>2, PTL DEF Spec

\* However often Telegram delivers the update, however many invocations handle it at a
\* time and wherever they fail or die (web/telegram-webhook.ts, claimTelegramUpdate), its
\* command takes effect at most once; and as long as no invocation outlives the time after
\* which it is taken for dead, no reply is accepted twice (claimTelegramReplyDelivery).
THEOREM RunsAtMostOnce == Spec => []SafeInv
<1>1. BotInvariant => SafeInv
  BY DEF BotInvariant, Shape, Once, Orderly, RowOrder, ToldOnce, SafeInv, RunsOnce, RepliesOnce
<1> QED
  BY <1>1, InvariantHolds, PTL

\* As long as no invocation outlives that time, a delivery is answered with a 200
\* (handleExisting, deliver) only when nothing is left to be done for the update: its row
\* is in a final state.
THEOREM AcknowledgedIsDone == Spec => []NothingForgotten
<1>1. BotInvariant => NothingForgotten
  BY DEF BotInvariant, Orderly, RowOrder, NothingForgotten
<1> QED
  BY <1>1, InvariantHolds, PTL
=============================================================================
