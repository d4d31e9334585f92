------------------------------- MODULE Outbox -------------------------------
(***************************************************************************)
(* The notification outbox: the notification_jobs table and its statements *)
(* (internal/db/db.go) and the worker loop that drains it                  *)
(* (internal/outbox/worker.go), with the two columns of subscriptions that *)
(* the auto-pause reads and writes.                                        *)
(*                                                                         *)
(* One SQL statement or transaction is one step; one send() with all its   *)
(* content fallbacks is one step, opened up by SendStages.  Time is        *)
(* abstracted: a row is "ripe" when the instant it waits for (retry_at of  *)
(* a pending row, locked_until of a processing one) has passed, which may  *)
(* be at any moment after it is written.                                   *)
(***************************************************************************)
EXTENDS Naturals, FiniteSets, SendStages

CONSTANTS
  Workers,      \* processes draining the table, one worker loop in each
  Jobs,         \* notification_jobs ids
  Subs,         \* subscription ids
  Chats,        \* Telegram chats
  None,         \* SQL NULL, the empty subscription id, "no job in hand"
  MaxAttempts,  \* NOTIFICATION_MAX_ATTEMPTS
  BatchSize,    \* OUTBOX_BATCH_SIZE
  Events        \* what the surroundings of the instance may do (EventKinds)

EventKinds == {"crash", "shutdown", "dbError", "ambiguous", "receipt", "block",
               "pause", "redestine", "delete"}

ASSUME OutboxAssumption ==
  /\ MaxAttempts \in Nat \ {0}
  /\ BatchSize \in Nat \ {0}
  /\ None \notin Jobs \cup Subs \cup Chats
  /\ Events \subseteq EventKinds

VARIABLES
  \* notification_jobs
  status, attempts, ripe,
  link,       \* subscription_id: NULL once the subscription is deleted
  chat,       \* destination_chat_id, copied when the job is created
  \* subscriptions
  subStatus,  \* status and pause_reason together
  subDest,    \* destination_chat_id
  \* the worker loop of each process
  pc, stopping,
  batch,      \* claimed jobs the loop has not finished
  snap,       \* what the claim read of each of them
  current, verdict,
  \* Telegram: chats that blocked the bot
  blocked,
  \* history, read by properties only
  holder,     \* the worker of the job's latest claim
  sends,      \* calls of send() for the job
  received,   \* messages the chat received for the job
  lost,       \* of these, messages whose success was never reported to the row
  rejected,   \* jobs that got a non-retryable answer
  refused     \* chats Telegram reported as unreachable

rowVars == <<status, attempts, ripe, link, chat>>
subVars == <<subStatus, subDest>>
workerVars == <<pc, stopping, batch, snap, current, verdict>>
historyVars == <<holder, sends, received, lost, rejected, refused>>
vars == <<rowVars, subVars, workerVars, blocked, historyVars>>

Statuses == {"absent", "pending", "processing", "sent", "failed"}
Live == {"pending", "processing"}
SubStatuses == {"active", "paused", "telegram_blocked", "deleted"}
Verdicts == {"none", "ok", "temporary", "permanent", "unreachable"}
Locations == {"poll", "send", "finish", "pause", "down"}

Snapshot == [attempts : Nat, sub : Subs \cup {None}]
NoSnapshot == [attempts |-> 0, sub |-> None]

TypeOK ==
  /\ status \in [Jobs -> Statuses]
  /\ attempts \in [Jobs -> 0..MaxAttempts]
  /\ ripe \in [Jobs -> BOOLEAN]
  /\ link \in [Jobs -> Subs \cup {None}]
  /\ chat \in [Jobs -> Chats \cup {None}]
  /\ subStatus \in [Subs -> SubStatuses]
  /\ subDest \in [Subs -> Chats]
  /\ pc \in [Workers -> Locations]
  /\ stopping \in [Workers -> BOOLEAN]
  /\ batch \in [Workers -> SUBSET Jobs]
  /\ snap \in [Workers -> [Jobs -> Snapshot]]
  /\ current \in [Workers -> Jobs \cup {None}]
  /\ verdict \in [Workers -> Verdicts]
  /\ blocked \subseteq Chats
  /\ holder \in [Jobs -> Workers \cup {None}]
  /\ sends \in [Jobs -> Nat]
  /\ received \in [Jobs -> Nat]
  /\ lost \in [Jobs -> Nat]
  /\ rejected \subseteq Jobs
  /\ refused \subseteq Chats

Init ==
  /\ status = [j \in Jobs |-> "absent"]
  /\ attempts = [j \in Jobs |-> 0]
  /\ ripe = [j \in Jobs |-> FALSE]
  /\ link = [j \in Jobs |-> None]
  /\ chat = [j \in Jobs |-> None]
  /\ subStatus = [s \in Subs |-> "active"]
  /\ subDest \in [Subs -> Chats]
  /\ pc = [w \in Workers |-> "poll"]
  /\ stopping = [w \in Workers |-> FALSE]
  /\ batch = [w \in Workers |-> {}]
  /\ snap = [w \in Workers |-> [j \in Jobs |-> NoSnapshot]]
  /\ current = [w \in Workers |-> None]
  /\ verdict = [w \in Workers |-> "none"]
  /\ blocked = {}
  /\ holder = [j \in Jobs |-> None]
  /\ sends = [j \in Jobs |-> 0]
  /\ received = [j \in Jobs |-> 0]
  /\ lost = [j \in Jobs |-> 0]
  /\ rejected = {}
  /\ refused = {}

-----------------------------------------------------------------------------
(* The table. *)

\* The row EnqueueNotificationJobs inserts: due at once, for the chat the
\* subscription pointed to when it was listed.  The listing and the insert
\* are separate statements, so the subscription may have been paused between.
Enqueue(j, s) ==
  /\ status[j] = "absent"
  /\ subStatus[s] # "deleted"
  /\ status' = [status EXCEPT ![j] = "pending"]
  /\ ripe' = [ripe EXCEPT ![j] = TRUE]
  /\ link' = [link EXCEPT ![j] = s]
  /\ chat' = [chat EXCEPT ![j] = subDest[s]]
  /\ UNCHANGED <<attempts, subVars, workerVars, blocked, historyVars>>

\* now() passes retry_at of a pending row or locked_until of a processing one.
Ripen(j) ==
  /\ status[j] \in Live /\ ~ripe[j]
  /\ ripe' = [ripe EXCEPT ![j] = TRUE]
  /\ UNCHANGED <<status, attempts, link, chat, subVars, workerVars, blocked, historyVars>>

\* Mutant: the claim forgets rows whose lease expired.
ClaimablePendingOnly == {j \in Jobs : status[j] = "pending" /\ ripe[j]}

Claimable == {j \in Jobs : status[j] \in Live /\ ripe[j]}

\* Rows whose lease expired; the claim charges an attempt for the lost one.
Expired(S) == {j \in S : status[j] = "processing"}

\* Mutant: the comparison with max_attempts is off by one.
ExhaustedLate(S) == {j \in Expired(S) : attempts[j] + 1 > MaxAttempts}

\* Expired rows that have no attempt left; the claim fails them on the spot.
Exhausted(S) == {j \in Expired(S) : attempts[j] + 1 >= MaxAttempts}

\* The rows the claim hands to the worker.
Leased(S) == S \ Exhausted(S)

ChargedAttempts(S, j) == IF j \in Expired(S) THEN attempts[j] + 1 ELSE attempts[j]

\* Mutant: the charge is written to the row and not to the returned job.
ReturnedUncharged(S, j) == attempts[j]

\* Mutant: attempts is missing from the columns the claim reads.
ReturnedZero(S, j) == 0

\* The attempts the worker gets to know.
ReturnedAttempts(S, j) == ChargedAttempts(S, j)

\* Any set of claimable rows up to the limit: rows another transaction has
\* locked are skipped, and the order of retry_at is abstracted with time.  A
\* poll that claims nothing changes nothing.
ClaimPendingNotificationJobs(w, S) ==
  /\ pc[w] = "poll" /\ ~stopping[w]
  /\ S # {} /\ S \subseteq Claimable /\ Cardinality(S) <= BatchSize
  /\ status' = [j \in Jobs |-> IF j \in Exhausted(S) THEN "failed"
                               ELSE IF j \in S THEN "processing" ELSE status[j]]
  /\ attempts' = [j \in Jobs |-> ChargedAttempts(S, j)]
  /\ ripe' = [j \in Jobs |-> ripe[j] /\ j \notin S]
  /\ holder' = [j \in Jobs |-> IF j \in Leased(S) THEN w ELSE holder[j]]
  /\ batch' = [batch EXCEPT ![w] = Leased(S)]
  /\ snap' = [snap EXCEPT ![w] =
                [j \in Jobs |-> IF j \in Leased(S)
                                THEN [attempts |-> ReturnedAttempts(S, j), sub |-> link[j]]
                                ELSE NoSnapshot]]
  /\ pc' = [pc EXCEPT ![w] = IF Leased(S) = {} THEN "poll" ELSE "send"]
  /\ UNCHANGED <<link, chat, subVars, stopping, current, verdict, blocked,
                 sends, received, lost, rejected, refused>>

-----------------------------------------------------------------------------
(* The worker loop. *)

\* What Telegram may answer: to a request that never leaves, for a chat that
\* blocked the bot, and for any other.
Unsent == send({"network"})
ToBlocked == send({"network", "limited", "content", "unreachable"})
ToChat == send({"ok", "network", "limited", "content", "other"}
               \cup (IF "ambiguous" \in Events THEN {"lost"} ELSE {})
               \cup (IF "receipt" \in Events THEN {"receipt"} ELSE {}))

\* What send() may return for a chat.  Once the loop's context is cancelled
\* every request fails before it leaves.
Outcomes(w, c) ==
  IF stopping[w] THEN Unsent ELSE IF c \in blocked THEN ToBlocked ELSE ToChat

Send(w, j) ==
  /\ pc[w] = "send" /\ j \in batch[w]
  /\ \E o \in Outcomes(w, chat[j]) :
       /\ verdict' = [verdict EXCEPT ![w] = o.verdict]
       /\ received' = [received EXCEPT ![j] = @ + o.messages]
       /\ lost' = [lost EXCEPT ![j] = IF o.messages > 0 /\ o.verdict # "ok" THEN @ + 1 ELSE @]
       /\ rejected' = IF o.answer \in Rejections THEN rejected \cup {j} ELSE rejected
       /\ refused' = IF o.answer = "unreachable" THEN refused \cup {chat[j]} ELSE refused
  /\ current' = [current EXCEPT ![w] = j]
  /\ sends' = [sends EXCEPT ![j] = @ + 1]
  /\ pc' = [pc EXCEPT ![w] = "finish"]
  /\ UNCHANGED <<rowVars, subVars, stopping, batch, snap, blocked, holder>>

\* The loop is done with the job in hand: it returns if shutdown was signalled,
\* leaving the rest of the batch 'processing', and otherwise takes the next one.
Advance(w) ==
  /\ batch' = [batch EXCEPT ![w] = IF stopping[w] THEN {} ELSE @ \ {current[w]}]
  /\ snap' = [snap EXCEPT ![w] =
                [j \in Jobs |-> IF j \in batch'[w] THEN @[j] ELSE NoSnapshot]]
  /\ pc' = [pc EXCEPT ![w] = IF stopping[w] THEN "down"
                             ELSE IF batch'[w] = {} THEN "poll" ELSE "send"]
  /\ current' = [current EXCEPT ![w] = None]
  /\ verdict' = [verdict EXCEPT ![w] = "none"]

\* Mutant: the UPDATE names the job's id only.
FencedNever(w) == TRUE

\* Mutant: the result is recorded under the loop's own, cancelled context.
FencedByLoop(w) == status[current[w]] = "processing" /\ ~stopping[w]

\* The fence of FinishNotificationJob: the UPDATE matches a 'processing' row.
Fenced(w) == status[current[w]] = "processing"

NextAttempts(w) == snap[w][current[w]].attempts + 1

\* Mutant: one attempt too many.
RetryableOnceMore(w) == verdict[w] = "temporary" /\ NextAttempts(w) <= MaxAttempts

\* Mutant: one attempt too few.
RetryableOnceLess(w) == verdict[w] = "temporary" /\ NextAttempts(w) + 1 < MaxAttempts

\* A temporary failure is retried while an attempt is left.
Retryable(w) == verdict[w] = "temporary" /\ NextAttempts(w) < MaxAttempts

RecordSent(w) ==
  /\ pc[w] = "finish" /\ verdict[w] = "ok"
  /\ status' = [status EXCEPT ![current[w]] = IF Fenced(w) THEN "sent" ELSE @]
  /\ ripe' = [ripe EXCEPT ![current[w]] = @ /\ ~Fenced(w)]
  /\ Advance(w)
  /\ UNCHANGED <<attempts, link, chat, subVars, stopping, blocked, historyVars>>

RecordRetry(w) ==
  /\ pc[w] = "finish" /\ Retryable(w)
  /\ status' = [status EXCEPT ![current[w]] = IF Fenced(w) THEN "pending" ELSE @]
  /\ attempts' = [attempts EXCEPT ![current[w]] = IF Fenced(w) THEN NextAttempts(w) ELSE @]
  /\ ripe' = [ripe EXCEPT ![current[w]] = @ /\ ~Fenced(w)]
  /\ Advance(w)
  /\ UNCHANGED <<link, chat, subVars, stopping, blocked, historyVars>>

\* failJob's first statement; the auto-pause is a second one, for a job that
\* was really finalized here and still knew its subscription when claimed.
failJob(w) ==
  /\ pc[w] = "finish" /\ verdict[w] # "ok" /\ ~Retryable(w)
  /\ status' = [status EXCEPT ![current[w]] = IF Fenced(w) THEN "failed" ELSE @]
  /\ attempts' = [attempts EXCEPT ![current[w]] = IF Fenced(w) THEN NextAttempts(w) ELSE @]
  /\ ripe' = [ripe EXCEPT ![current[w]] = @ /\ ~Fenced(w)]
  /\ IF Fenced(w) /\ verdict[w] = "unreachable" /\ snap[w][current[w]].sub # None
     THEN /\ pc' = [pc EXCEPT ![w] = "pause"]
          /\ UNCHANGED <<batch, snap, current, verdict>>
     ELSE Advance(w)
  /\ UNCHANGED <<link, chat, subVars, stopping, blocked, historyVars>>

\* Mutant: the pause is not scoped to an active subscription.
AutoPausedAlways(s) == "telegram_blocked"

\* failJob's second statement, UPDATE subscriptions ... AND status = 'active'.
AutoPaused(s) == IF subStatus[s] = "active" THEN "telegram_blocked" ELSE subStatus[s]

AutoPause(w) ==
  /\ pc[w] = "pause"
  /\ LET s == snap[w][current[w]].sub IN
       subStatus' = [subStatus EXCEPT ![s] = AutoPaused(s)]
  /\ Advance(w)
  /\ UNCHANGED <<rowVars, subDest, stopping, blocked, historyVars>>

FinishNotificationJob(w) == RecordSent(w) \/ RecordRetry(w) \/ failJob(w)

\* The success in hand, if there is one, goes with the loop's step unrecorded.
Lose(w) ==
  /\ lost' = [j \in Jobs |-> IF pc[w] = "finish" /\ verdict[w] = "ok" /\ j = current[w]
                            THEN lost[j] + 1 ELSE lost[j]]
  /\ UNCHANGED <<holder, sends, received, rejected, refused>>

\* A statement of FinishNotificationJob fails; the loop logs and goes on.
FinishError(w) ==
  /\ "dbError" \in Events
  /\ pc[w] \in {"finish", "pause"}
  /\ Advance(w)
  /\ Lose(w)
  /\ UNCHANGED <<rowVars, subVars, stopping, blocked>>

-----------------------------------------------------------------------------
(* The process around the loop. *)

Shutdown(w) ==
  /\ "shutdown" \in Events
  /\ pc[w] # "down" /\ ~stopping[w]
  /\ stopping' = [stopping EXCEPT ![w] = TRUE]
  /\ UNCHANGED <<rowVars, subVars, pc, batch, snap, current, verdict, blocked, historyVars>>

\* The loop sees the cancelled context before its next poll or while asleep.
Exit(w) ==
  /\ pc[w] = "poll" /\ stopping[w]
  /\ pc' = [pc EXCEPT ![w] = "down"]
  /\ UNCHANGED <<rowVars, subVars, stopping, batch, snap, current, verdict, blocked, historyVars>>

Crash(w) ==
  /\ "crash" \in Events
  /\ pc[w] # "down"
  /\ pc' = [pc EXCEPT ![w] = "down"]
  /\ batch' = [batch EXCEPT ![w] = {}]
  /\ snap' = [snap EXCEPT ![w] = [j \in Jobs |-> NoSnapshot]]
  /\ current' = [current EXCEPT ![w] = None]
  /\ verdict' = [verdict EXCEPT ![w] = "none"]
  /\ Lose(w)
  /\ UNCHANGED <<rowVars, subVars, stopping, blocked>>

Restart(w) ==
  /\ pc[w] = "down"
  /\ pc' = [pc EXCEPT ![w] = "poll"]
  /\ stopping' = [stopping EXCEPT ![w] = FALSE]
  /\ UNCHANGED <<rowVars, subVars, batch, snap, current, verdict, blocked, historyVars>>

-----------------------------------------------------------------------------
(* Users and Telegram. *)

ToggleBlock(c) ==
  /\ "block" \in Events
  /\ blocked' = IF c \in blocked THEN blocked \ {c} ELSE blocked \cup {c}
  /\ UNCHANGED <<rowVars, subVars, workerVars, historyVars>>

\* UpdateSubscriptionStatus: a manual pause or resume clears the pause reason.
SetStatus(s, st) ==
  /\ "pause" \in Events
  /\ subStatus[s] # "deleted" /\ st \in {"active", "paused"}
  /\ subStatus' = [subStatus EXCEPT ![s] = st]
  /\ UNCHANGED <<rowVars, subDest, workerVars, blocked, historyVars>>

\* UpdateSubscriptionDestination: queued jobs keep the old chat.
SetDestination(s, c) ==
  /\ "redestine" \in Events
  /\ subStatus[s] # "deleted"
  /\ subDest' = [subDest EXCEPT ![s] = c]
  /\ UNCHANGED <<rowVars, subStatus, workerVars, blocked, historyVars>>

\* DeleteSubscription: subscription_id is ON DELETE SET NULL.
Delete(s) ==
  /\ "delete" \in Events
  /\ subStatus[s] # "deleted"
  /\ subStatus' = [subStatus EXCEPT ![s] = "deleted"]
  /\ link' = [j \in Jobs |-> IF link[j] = s THEN None ELSE link[j]]
  /\ UNCHANGED <<status, attempts, ripe, chat, subDest, workerVars, blocked, historyVars>>

-----------------------------------------------------------------------------

WorkerStep(w) ==
  \/ \E S \in SUBSET Jobs : ClaimPendingNotificationJobs(w, S)
  \/ \E j \in Jobs : Send(w, j)
  \/ RecordSent(w)
  \/ RecordRetry(w)
  \/ failJob(w)
  \/ AutoPause(w)
  \/ FinishError(w)
  \/ Shutdown(w)
  \/ Exit(w)
  \/ Crash(w)
  \/ Restart(w)

Environment ==
  \/ \E j \in Jobs, s \in Subs : Enqueue(j, s)
  \/ \E j \in Jobs : Ripen(j)
  \/ \E c \in Chats : ToggleBlock(c)
  \/ \E s \in Subs, st \in {"active", "paused"} : SetStatus(s, st)
  \/ \E s \in Subs, c \in Chats : SetDestination(s, c)
  \/ \E s \in Subs : Delete(s)

Next == Environment \/ \E w \in Workers : WorkerStep(w)

Spec == Init /\ [][Next]_vars

\* Every loop that is up keeps going, a process that is down is restarted, and
\* time passes.  The claim is strongly fair: a process that comes up again and
\* again gets to run its first poll, however often it is stopped.
Fairness ==
  /\ \A j \in Jobs : WF_vars(Ripen(j))
  /\ \A w \in Workers :
       /\ SF_vars(\E S \in SUBSET Jobs : ClaimPendingNotificationJobs(w, S))
       /\ WF_vars(\E j \in Jobs : Send(w, j))
       /\ WF_vars(FinishNotificationJob(w))
       /\ WF_vars(AutoPause(w))
       /\ WF_vars(Exit(w))
       /\ WF_vars(Restart(w))

FairSpec == Spec /\ Fairness

-----------------------------------------------------------------------------
(* Properties that hold for any number of workers. *)

\* A row that can still be claimed has an attempt left: the two places that
\* charge an attempt (the lease-expiry arm of the claim and the result of a
\* send) both fail the job at max_attempts, so none is leased for ever.
LiveHasBudget == \A j \in Jobs : status[j] \in Live => attempts[j] < MaxAttempts

\* A job is 'sent' only if its message reached the chat, also when the result
\* that says so comes from a worker whose lease was taken over.
SentMeansDelivered == \A j \in Jobs : status[j] = "sent" => received[j] > 0

\* A job is given up only when its attempts are used up or Telegram answered
\* with a non-retryable error; a transport failure alone never ends it early.
GivenUpForReason ==
  \A j \in Jobs : status[j] = "failed" => attempts[j] = MaxAttempts \/ j \in rejected

\* 'sent' and 'failed' are final: no claim, late result, error path or restart
\* moves a job out of them (the status fence of every UPDATE).
SettledIsFinal ==
  [][\A j \in Jobs : status[j] \in {"sent", "failed"} => status'[j] = status[j]]_vars

\* The automatic pause hits an active subscription only, never one its user
\* paused or deleted, and only after a job of it failed on a chat Telegram
\* reported as unreachable (failJob).
AutoPauseJustified ==
  [][\A s \in Subs : subStatus'[s] = "telegram_blocked" /\ subStatus[s] # "telegram_blocked"
       => /\ subStatus[s] = "active"
          /\ \E j \in Jobs : status[j] = "failed" /\ chat[j] \in refused /\ link[j] = s]_vars

\* A call of send() puts at most one message into the chat: the next stage is
\* tried only when Telegram has refused the one before, so an answer that got
\* lost or could not be parsed is never followed by the same card in another form
\* (worker.go: fallback is for content failures, "instead of double-sending").
OneMessagePerSend == [][\A j \in Jobs : received'[j] <= received[j] + 1]_vars

\* Every accepted job is settled, whatever crashes, lost results, lease
\* expiries and restarts happen on the way.
JobsSettle == \A j \in Jobs : status[j] = "pending" ~> status[j] \in {"sent", "failed"}

-----------------------------------------------------------------------------
(* Properties of a single process, the deployment the repository documents, or  *)
(* of several whose leases outlast their work.                                  *)

SingleProcess == \A v, w \in Workers : v = w

\* No claim takes a job another loop still works on.  A single process cannot do
\* otherwise; for several this is what OUTBOX_LEASE is for, and it says that the
\* lease is longer than the work on a whole batch (BatchSize sends, each with
\* its fallbacks), since nothing renews it in between.
KeepsLeases ==
  \A v, w \in Workers, S \in SUBSET Jobs :
    ClaimPendingNotificationJobs(w, S) /\ v # w => S \cap batch[v] = {}

LeasesOutlast == [][KeepsLeases]_vars

\* send() is called at most max_attempts times for a job, counting the calls
\* whose result was lost with a crash or a failed UPDATE.
SendsWithinBudget == \A j \in Jobs : sends[j] <= MaxAttempts

\* attempts never goes back, so a lost or late result cannot refund one.
AttemptsNeverDrop == [][\A j \in Jobs : attempts'[j] >= attempts[j]]_vars

\* The chat gets the message once, and once more at most for every success the
\* row never heard of: an answer lost in transit (a request cut off by shutdown
\* among them), a crash or a failed UPDATE after the send.  A shutdown after the
\* answer (worker.go: a completed send is recorded under a context of its own),
\* a lease that runs out, a retry or a claim never causes a duplicate.
OnceUnlessLost == \A j \in Jobs : received[j] <= 1 + lost[j]

\* The outbox implements the promise of module Delivery.
Promise == INSTANCE Delivery WITH
  phase <- [j \in Jobs |-> IF status[j] \in Live THEN "open" ELSE status[j]],
  spent <- attempts, receipts <- received, declined <- rejected

ImplementsDelivery == Promise!Spec

-----------------------------------------------------------------------------
(* What the repository says and the code does not do. *)

\* db.go, finishOutcome: a result whose job was reclaimed and re-leased in the
\* meantime is a no-op.
StaleResultIsNoOp ==
  [][\A w \in Workers : FinishNotificationJob(w) /\ holder[current[w]] # w
       => UNCHANGED rowVars]_vars

\* failJob: the auto-pause stops a subscription that generates jobs "that can
\* only fail", so the chat it delivers to was reported as unreachable.
AutoPauseMatchesDestination ==
  [][\A s \in Subs : subStatus'[s] = "telegram_blocked" /\ subStatus[s] # "telegram_blocked"
       => subDest[s] \in refused]_vars
=============================================================================
