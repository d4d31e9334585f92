------------------------------ MODULE Delivery ------------------------------
(***************************************************************************)
(* What the notification outbox promises for each job, without workers,    *)
(* leases or batches: a job is accepted once, spends at most MaxAttempts   *)
(* attempts, puts at most one message into the chat per attempt, and is    *)
(* settled exactly once: as "sent" only if a message reached the chat, as  *)
(* "failed" only if the attempts are used up or Telegram declined it for   *)
(* good.  Several jobs may move in one step, because one transaction of    *)
(* the store claims a whole batch.                                         *)
(***************************************************************************)
EXTENDS Naturals

CONSTANTS Jobs, MaxAttempts

VARIABLES
  phase,     \* "absent", "open", "sent" or "failed"
  spent,     \* attempts charged to the job
  receipts,  \* messages that reached the chat
  declined   \* jobs Telegram answered with a non-retryable error

vars == <<phase, spent, receipts, declined>>

Init ==
  /\ phase = [j \in Jobs |-> "absent"]
  /\ spent = [j \in Jobs |-> 0]
  /\ receipts = [j \in Jobs |-> 0]
  /\ declined = {}

Same(j) ==
  /\ phase'[j] = phase[j]
  /\ spent'[j] = spent[j]
  /\ receipts'[j] = receipts[j]

Accept(j) ==
  /\ phase[j] = "absent" /\ phase'[j] = "open"
  /\ spent'[j] = spent[j] /\ receipts'[j] = receipts[j]

\* A message reaches the chat, the first one of the current attempt.
Reach(j) ==
  /\ phase[j] = "open" /\ phase'[j] = "open"
  /\ receipts[j] <= spent[j]
  /\ receipts'[j] = receipts[j] + 1 /\ spent'[j] = spent[j]

\* An attempt ends without a verdict and the job stays open for another.
Spend(j) ==
  /\ phase[j] = "open" /\ phase'[j] = "open"
  /\ spent'[j] = spent[j] + 1 /\ spent'[j] < MaxAttempts
  /\ receipts'[j] = receipts[j]

Settle(j) ==
  /\ phase[j] = "open" /\ phase'[j] = "sent"
  /\ receipts[j] > 0
  /\ spent'[j] = spent[j] /\ receipts'[j] = receipts[j]

GiveUp(j) ==
  /\ phase[j] = "open" /\ phase'[j] = "failed"
  /\ spent'[j] = spent[j] + 1
  /\ spent'[j] = MaxAttempts \/ j \in declined
  /\ receipts'[j] = receipts[j]

Next ==
  /\ declined \subseteq declined'
  /\ \A j \in Jobs :
       Same(j) \/ Accept(j) \/ Reach(j) \/ Spend(j) \/ Settle(j) \/ GiveUp(j)

Spec == Init /\ [][Next]_vars
=============================================================================
