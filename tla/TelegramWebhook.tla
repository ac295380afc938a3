--------------------------- MODULE TelegramWebhook ---------------------------
(***************************************************************************)
(* How one Telegram update is handled (web/telegram-webhook.ts,            *)
(* services/bot.ts and the rows of telegram_updates in db/repo.ts).        *)
(* Telegram delivers the update again and again, even while an earlier     *)
(* delivery is still being handled, until one is answered with a 200.  The *)
(* row of the update is claimed before the command runs, its reply is      *)
(* saved before it is sent, and the invocations that handle the deliveries *)
(* may fail or die between any two statements.                             *)
(*                                                                         *)
(* Rows of different updates never meet, so one update is modelled; what   *)
(* /check, /pause and /resume do to the tracker is TrackerCheck's.         *)
(***************************************************************************)
EXTENDS Integers, FiniteSets

CONSTANTS
    Requests,      \* the webhook invocations that may handle the update at one time
    MaxAttempts,   \* MAX_COMMAND_REPLY_ATTEMPTS
    MaxDeaths,     \* how many invocations fail or die, or answer too late
    MaxStalls,     \* how often an invocation takes longer for a statement or two than
                   \* Telegram waits, or longer than PROCESSING_ABANDON_MS in all
    None

ASSUME BotAssumption ==
    /\ MaxAttempts \in Nat \ {0} /\ {MaxDeaths, MaxStalls} \subseteq Nat
    /\ None \notin {"done", "unproven"}

VARIABLES
    ours,      \* is the update a command from the configured private chat?
    row,       \* the row of telegram_updates: its state ("absent" before the first
               \* delivery), the saved reply, delivery_attempts, and whether its
               \* updated_at is older than PROCESSING_ABANDON_MS
    req,       \* what each invocation does, and the row and the reply it holds
    ran,       \* how often the command took effect
    told,      \* how often Telegram accepted each reply
    acked,     \* has a delivery been answered with a 200?
    deaths, stalls

bounds == <<deaths, stalls>>
vars == <<ours, row, req, ran, told, acked, bounds>>

-----------------------------------------------------------------------------
\* "done" stands for everything dispatch answers, an unexpected error included;
\* "unproven" says that the earlier attempt may or may not have finished.
Replies == {"done", "unproven"}
States == {"absent", "processing", "ready", "delivered", "ignored", "failed"}
Final == {"delivered", "ignored", "failed"}
Row == [state : States, reply : Replies \cup {None}, attempts : 0..MaxAttempts, old : BOOLEAN]
PCs == {"idle", "execute", "prepare", "abandon", "unprove", "deliver", "send", "record"}
Verdicts == {"ok", "retryable", "final", "unclear", None}
Request == [pc : PCs, reply : Replies \cup {None}, attempts : 0..MaxAttempts,
            verdict : Verdicts]

TypeOK ==
    /\ ours \in BOOLEAN
    /\ row \in Row
    /\ req \in [Requests -> Request]
    /\ ran \in Nat
    /\ told \in [Replies -> Nat]
    /\ acked \in BOOLEAN
    /\ deaths \in 0..MaxDeaths /\ stalls \in 0..MaxStalls

Idle == [pc |-> "idle", reply |-> None, attempts |-> 0, verdict |-> None]

Init ==
    /\ ours \in BOOLEAN
    /\ row = [state |-> "absent", reply |-> None, attempts |-> 0, old |-> FALSE]
    /\ req = [r \in Requests |-> Idle]
    /\ ran = 0 /\ told = [t \in Replies |-> 0]
    /\ acked = FALSE
    /\ deaths = 0 /\ stalls = 0

At(r, pc) == req[r].pc = pc
Stalled(stall) ==
    /\ stall => stalls < MaxStalls
    /\ stalls' = IF stall THEN stalls + 1 ELSE stalls

\* The webhook answers 200 (Telegram forgets the update, if it still listens) or 503
\* (it will retry).
Answer(r, retry) ==
    /\ req' = [req EXCEPT ![r] = Idle]
    /\ \/ acked' = (acked \/ ~retry) /\ UNCHANGED deaths
       \/ ~retry /\ deaths < MaxDeaths /\ deaths' = deaths + 1 /\ UNCHANGED acked

\* updateTelegramUpdate writes whatever the row has become meanwhile.
Write(state) == row' = [row EXCEPT !.state = state, !.old = FALSE]
WriteReply(reply) ==
    row' = [row EXCEPT !.state = "ready", !.reply = reply, !.old = FALSE]

-----------------------------------------------------------------------------
\* claimTelegramUpdate: INSERT OR IGNORE decides who runs the command.
Claim(r) ==
    /\ At(r, "idle") /\ ~acked
    /\ row.state = "absent"
    /\ row' = [row EXCEPT !.state = "processing"]
    /\ req' = [req EXCEPT ![r].pc = "execute"]
    /\ UNCHANGED <<ours, ran, told, acked, bounds>>

\* handleExisting, for a delivery that finds the row.
Redelivered(r) == At(r, "idle") /\ ~acked /\ row.state # "absent"

FindReady(r) ==
    /\ Redelivered(r) /\ row.state = "ready"
    /\ req' = [req EXCEPT ![r].pc = "deliver", ![r].reply = row.reply,
                          ![r].attempts = row.attempts]
    /\ UNCHANGED <<ours, row, ran, told, acked, bounds>>

FindFinal(r) ==
    /\ Redelivered(r) /\ row.state \in Final
    /\ Answer(r, FALSE)
    /\ UNCHANGED <<ours, row, ran, told, stalls>>

\* A claim counts until PROCESSING_ABANDON_MS after it, a command's and a send's alike.
AbandonedMutant == row.state = "processing" /\ row.old /\ row.reply = None
Abandoned == row.state = "processing" /\ row.old

\* Another invocation is at work, or was until it died: Telegram is put off.
FindBusy(r) ==
    /\ Redelivered(r) /\ row.state = "processing" /\ ~Abandoned
    /\ UNCHANGED vars

\* The row was claimed too long ago: by a send if there is a reply, by the command
\* if there is none.
AbandonedAt == IF row.reply # None THEN "abandon" ELSE "unprove"
FindAbandoned(r) ==
    /\ Redelivered(r) /\ Abandoned
    /\ req' = [req EXCEPT ![r].pc = AbandonedAt, ![r].attempts = row.attempts]
    /\ Stalled(\E q \in Requests : At(q, "abandon") \/ At(q, "unprove"))
    /\ UNCHANGED <<ours, row, ran, told, acked, deaths>>

Abandon(r) ==
    /\ At(r, "abandon")
    /\ Write("failed")
    /\ Answer(r, FALSE)
    /\ UNCHANGED <<ours, ran, told, stalls>>

\* The command is not run again; its place is taken by the reply that says so.
Unprove(r) ==
    /\ At(r, "unprove") /\ ours
    /\ WriteReply("unproven")
    /\ req' = [req EXCEPT ![r].pc = "deliver", ![r].reply = "unproven"]
    /\ UNCHANGED <<ours, ran, told, acked, bounds>>

\* commandFrom: not a text of the configured chat, or not a command.
Ignore(r) ==
    /\ At(r, "execute") \/ At(r, "unprove")
    /\ ~ours
    /\ Write("ignored")
    /\ Answer(r, FALSE)
    /\ UNCHANGED <<ours, ran, told, stalls>>

\* dispatch: the command takes effect, or is refused, misspelt, finds its tracker
\* busy or throws.
Dispatch(r) ==
    /\ At(r, "execute") /\ ours
    /\ ran' \in {ran, ran + 1}
    /\ req' = [req EXCEPT ![r].pc = "prepare", ![r].reply = "done"]
    /\ UNCHANGED <<ours, row, told, acked, bounds>>

Prepare(r) ==
    /\ At(r, "prepare")
    /\ WriteReply(req[r].reply)
    /\ req' = [req EXCEPT ![r].pc = "deliver"]
    /\ UNCHANGED <<ours, ran, told, acked, bounds>>

-----------------------------------------------------------------------------
\* deliver: the attempts are used up.
GiveUp(r) ==
    /\ At(r, "deliver") /\ req[r].attempts >= MaxAttempts
    /\ Write("failed")
    /\ Answer(r, FALSE)
    /\ UNCHANGED <<ours, ran, told, stalls>>

\* claimTelegramReplyDelivery: the attempts that were read must still be those.
ClaimableMutant(r) == row.state \in {"ready", "processing"}
Claimable(r) == row.state = "ready" /\ row.attempts = req[r].attempts

ClaimReply(r) ==
    /\ At(r, "deliver") /\ req[r].attempts < MaxAttempts
    /\ Claimable(r)
    /\ row' = [row EXCEPT !.state = "processing", !.attempts = @ + 1, !.old = FALSE]
    /\ req' = [req EXCEPT ![r].pc = "send", ![r].attempts = @ + 1]
    /\ UNCHANGED <<ours, ran, told, acked, bounds>>

ReplyTaken(r) ==
    /\ At(r, "deliver") /\ req[r].attempts < MaxAttempts
    /\ ~Claimable(r)
    /\ Answer(r, row.state \notin Final)
    /\ UNCHANGED <<ours, row, ran, told, stalls>>

\* sendMessage: accepted, refused for now or for good, or nobody knows (a timeout,
\* a network error, an unreadable answer, an exception).  A message can be accepted
\* and the answer taken for a refusal for good (it is not JSON); that a 5xx answer
\* means it was not accepted is assumed, as in the code.
Accept(r) ==
    /\ At(r, "send")
    /\ told' = [told EXCEPT ![req[r].reply] = @ + 1]
    /\ \E v \in {"ok", "final", "unclear"} : req' = [req EXCEPT ![r].pc = "record", ![r].verdict = v]
    /\ UNCHANGED <<ours, row, ran, acked, bounds>>

Refuse(r) ==
    /\ At(r, "send")
    /\ \E v \in {"retryable", "final", "unclear"} :
          req' = [req EXCEPT ![r].pc = "record", ![r].verdict = v]
    /\ UNCHANGED <<ours, row, ran, told, acked, bounds>>

RetryableMutant(r) == req[r].verdict \in {"retryable", "unclear"} /\ req[r].attempts < MaxAttempts
Retryable(r) == req[r].verdict = "retryable" /\ req[r].attempts < MaxAttempts

Record(r) ==
    /\ At(r, "record")
    /\ row' = [row EXCEPT !.attempts = req[r].attempts, !.old = FALSE,
                 !.state = CASE req[r].verdict = "ok" -> "delivered"
                             [] Retryable(r) -> "ready"
                             [] OTHER -> "failed"]
    /\ Answer(r, Retryable(r))
    /\ UNCHANGED <<ours, ran, told, stalls>>

-----------------------------------------------------------------------------
\* A statement fails (the webhook answers 503) or the invocation is killed.
Die(r) ==
    /\ ~At(r, "idle") /\ deaths < MaxDeaths
    /\ deaths' = deaths + 1
    /\ req' = [req EXCEPT ![r] = Idle]
    /\ UNCHANGED <<ours, row, ran, told, acked, stalls>>

\* PROCESSING_ABANDON_MS passes since the row was last written.
GrowOld ==
    /\ row.state = "processing" /\ ~row.old
    /\ row' = [row EXCEPT !.old = TRUE]
    /\ Stalled(\E r \in Requests : ~At(r, "idle"))
    /\ UNCHANGED <<ours, req, ran, told, acked, deaths>>

Receive(r) == Claim(r) \/ FindReady(r) \/ FindFinal(r) \/ FindAbandoned(r)
Handle(r) ==
    \/ Abandon(r) \/ Unprove(r) \/ Ignore(r) \/ Dispatch(r) \/ Prepare(r)
    \/ GiveUp(r) \/ ClaimReply(r) \/ ReplyTaken(r) \/ Accept(r) \/ Refuse(r) \/ Record(r)

Next ==
    \/ \E r \in Requests : Receive(r) \/ FindBusy(r) \/ Handle(r) \/ Die(r)
    \/ GrowOld

Spec == Init /\ [][Next]_vars

\* Telegram delivers until it is answered, what is alive goes on, and time passes.
FairSpec ==
    /\ Spec
    /\ WF_vars(\E r \in Requests : Receive(r)) /\ WF_vars(GrowOld)
    /\ \A r \in Requests : WF_vars(Handle(r))

-----------------------------------------------------------------------------
\* However often the update is delivered, and wherever its handling stopped, the
\* command takes effect at most once.
RunsOnce == ran <= 1

\* No invocation has been taken for dead and gone on: the code relies on it.
InTime == stalls = 0

\* No reply is accepted twice: it is sent again only if Telegram refused it.
RepliesOnce == \A t \in Replies : told[t] <= 1

\* While InTime, Telegram is told to forget the update only when nothing is left to be done for
\* it: no reply that is ready to be sent, no command that may not have run.
NothingForgotten == acked /\ InTime => row.state \in Final

SafeInv == TypeOK /\ RunsOnce /\ (InTime => RepliesOnce)

\* Every update is answered in the end: nothing is put off for ever.
Answered == <>acked
=============================================================================
