---------------------------- MODULE OutboxProofs ----------------------------
(***************************************************************************)
(* Theorems about the outbox for every set of jobs, subscriptions, chats   *)
(* and workers, every MaxAttempts and every set of events.                 *)
(***************************************************************************)
EXTENDS Outbox, FiniteSetTheorems, TLAPS

-----------------------------------------------------------------------------
(* The inductive invariant for any number of workers. *)

\* A row that exists knows its chat, one that does not was never charged.
RowsWellFormed ==
  \A j \in Jobs : /\ status[j] # "absent" => chat[j] \in Chats
                  /\ status[j] = "absent" => attempts[j] = 0

\* What a loop holds are rows that exist, with an attempt left when claimed.
BatchesClaimed ==
  \A w \in Workers : \A j \in batch[w] :
    status[j] # "absent" /\ snap[w][j].attempts < MaxAttempts

\* The job in hand belongs to the batch.
InHand ==
  \A w \in Workers :
    /\ pc[w] \in {"finish", "pause"} => current[w] \in batch[w]
    /\ pc[w] = "pause" => snap[w][current[w]].sub \in Subs

\* A verdict not yet recorded is backed by what Telegram did.
VerdictsBacked ==
  \A w \in Workers : pc[w] = "finish" =>
    /\ verdict[w] # "none"
    /\ verdict[w] = "ok" => received[current[w]] > 0
    /\ verdict[w] \in {"permanent", "unreachable"} => current[w] \in rejected

IInv ==
  /\ TypeOK /\ RowsWellFormed /\ BatchesClaimed /\ InHand /\ VerdictsBacked
  /\ LiveHasBudget /\ SentMeansDelivered /\ GivenUpForReason

-----------------------------------------------------------------------------
(* One send(). *)

\* The stages before the last one were refused, so none of them was accepted.
LEMMA RefusedBefore ==
  ASSUME NEW P \in SUBSET Answers, NEW c \in Courses(P), Ends(c)
  PROVE  /\ c.last \in Stages /\ c.answers[c.last] \in P
         /\ c.last \in Tried(c)
         /\ \A s \in Stages \ {c.last} : Reached(c, s) = 0
<1>1. c.last \in Stages /\ c.answers \in [Stages -> P] /\ c.content \in Contents
  BY DEF Courses
<1>2. c.last \in Tried(c) /\ \A s \in Tried(c) : s <= c.last
  BY DEF Ends
<1>3. ASSUME NEW s \in Stages, s # c.last, s \in Tried(c)
      PROVE  c.answers[s] = "content"
  <2>1. s < c.last
    BY <1>1, <1>2, <1>3 DEF Stages, Rich, PlainText
  <2>2. s \in StagesOf(c.content)
    BY <1>3 DEF Tried
  <2> QED BY <1>2, <2>1, <2>2 DEF Tried, shouldFallbackContent
<1> QED BY <1>1, <1>2, <1>3 DEF Reached, Accepted

\* What a send() returns, whatever Telegram answers: a success is one message in
\* the chat, a failure at most one, and a failure for good means a refusal.
LEMMA SendResult ==
  ASSUME NEW P \in SUBSET Answers, NEW o \in send(P)
  PROVE  /\ o.verdict \in Verdicts \ {"none"} /\ o.messages \in {0, 1} /\ o.answer \in P
         /\ o.verdict = "ok" => o.messages = 1
         /\ o.verdict \in {"permanent", "unreachable"} => o.answer \in Rejections
         /\ o.verdict = "unreachable" => o.answer = "unreachable"
         /\ o.messages = 1 <=> o.answer \in Accepted
         /\ o.answer = "ok" => o.verdict = "ok"
<1>1. PICK c \in Courses(P) :
        /\ Ends(c)
        /\ o = [verdict |-> Result(c), answer |-> c.answers[c.last], messages |-> Messages(c)]
  BY DEF send
<1> DEFINE a == c.answers[c.last]
<1>2. a \in P /\ a \in Answers /\ c.last \in Stages
  BY <1>1, RefusedBefore
<1>3. Messages(c) = Reached(c, c.last)
  <2>1. \A s \in Stages : Reached(c, s) \in {0, 1}
    BY DEF Reached
  <2> HIDE DEF a
  <2> QED BY <1>1, <1>2, <2>1, RefusedBefore
          DEF Messages, Stages, Rich, MediaFree, ClassicHTML, PlainText
<1>4. Reached(c, c.last) = IF a \in Accepted THEN 1 ELSE 0
  BY <1>1, RefusedBefore DEF Reached
<1>5. Result(c) = IF delivered(c.last, a) THEN "ok" ELSE classifyError(a)
  BY DEF Result
<1>6. /\ delivered(c.last, a) => a \in Accepted
      /\ classifyError(a) \in {"temporary", "permanent", "unreachable"}
      /\ classifyError(a) \in {"permanent", "unreachable"} => a \in Rejections
      /\ classifyError(a) = "unreachable" => a = "unreachable"
      /\ a = "ok" => delivered(c.last, a)
  BY DEF delivered, Accepted, classifyError, Rejections
<1> HIDE DEF a
<1>7. o.verdict = Result(c) /\ o.answer = a /\ o.messages = Messages(c)
  BY <1>1 DEF a
<1> QED BY <1>2, <1>3, <1>4, <1>5, <1>6, <1>7 DEF Verdicts

\* The same of the sends an instance allows.
LEMMA OutcomeResult ==
  ASSUME NEW w \in Workers, NEW c, NEW o \in Outcomes(w, c)
  PROVE  /\ o.verdict \in Verdicts \ {"none"} /\ o.messages \in {0, 1}
         /\ o.verdict = "ok" => o.messages = 1
         /\ o.verdict \in {"permanent", "unreachable"} => o.answer \in Rejections
         /\ o.verdict = "unreachable" => o.answer = "unreachable"
<1>1. CASE stopping[w]
  <2>1. {"network"} \subseteq Answers /\ o \in send({"network"})
    BY <1>1 DEF Outcomes, Unsent, Answers
  <2> QED BY <2>1, SendResult
<1>2. CASE ~stopping[w] /\ c \in blocked
  <2>1. /\ {"network", "limited", "content", "unreachable"} \subseteq Answers
        /\ o \in send({"network", "limited", "content", "unreachable"})
    BY <1>2 DEF Outcomes, ToBlocked, Answers
  <2> QED BY <2>1, SendResult
<1>3. CASE ~stopping[w] /\ c \notin blocked
  <2> DEFINE P == {"ok", "network", "limited", "content", "other"}
                    \cup (IF "ambiguous" \in Events THEN {"lost"} ELSE {})
                    \cup (IF "receipt" \in Events THEN {"receipt"} ELSE {})
  <2>1. P \subseteq Answers /\ o \in send(P)
    BY <1>3 DEF Outcomes, ToChat, Answers
  <2> HIDE DEF P
  <2> QED BY <2>1, SendResult
<1> QED BY <1>1, <1>2, <1>3

-----------------------------------------------------------------------------
(* Type correctness. *)

\* What the end of a job does to the loop of its worker and to no other.
LEMMA AdvanceEffect ==
  ASSUME TypeOK, NEW w \in Workers, Advance(w)
  PROVE  /\ pc' \in [Workers -> Locations]
         /\ batch' \in [Workers -> SUBSET Jobs]
         /\ snap' \in [Workers -> [Jobs -> Snapshot]]
         /\ current' \in [Workers -> Jobs \cup {None}]
         /\ verdict' \in [Workers -> Verdicts]
         /\ pc'[w] \in {"poll", "send", "down"}
         /\ batch'[w] \subseteq batch[w]
         /\ \A j \in batch'[w] : snap'[w][j] = snap[w][j]
         /\ \A v \in Workers \ {w} :
              /\ pc'[v] = pc[v] /\ batch'[v] = batch[v] /\ snap'[v] = snap[v]
              /\ current'[v] = current[v] /\ verdict'[v] = verdict[v]
<1>1. NoSnapshot \in Snapshot
  BY DEF NoSnapshot, Snapshot
<1>2. /\ batch' \in [Workers -> SUBSET Jobs] /\ batch'[w] \subseteq batch[w]
      /\ \A v \in Workers \ {w} : batch'[v] = batch[v]
  BY DEF Advance, TypeOK
<1>3. /\ snap' \in [Workers -> [Jobs -> Snapshot]]
      /\ \A j \in batch'[w] : snap'[w][j] = snap[w][j]
      /\ \A v \in Workers \ {w} : snap'[v] = snap[v]
  BY <1>1, <1>2 DEF Advance, TypeOK
<1>4. /\ pc' \in [Workers -> Locations] /\ pc'[w] \in {"poll", "send", "down"}
      /\ \A v \in Workers \ {w} : pc'[v] = pc[v]
  BY DEF Advance, TypeOK, Locations
<1>5. /\ current' \in [Workers -> Jobs \cup {None}]
      /\ verdict' \in [Workers -> Verdicts]
      /\ \A v \in Workers \ {w} : current'[v] = current[v] /\ verdict'[v] = verdict[v]
  BY DEF Advance, TypeOK, Verdicts
<1> QED BY <1>2, <1>3, <1>4, <1>5

LEMMA InitIInv == Init => IInv
<1> SUFFICES ASSUME Init PROVE IInv
  OBVIOUS
<1>1. TypeOK
  BY OutboxAssumption DEF Init, TypeOK, Statuses, SubStatuses, Locations, Verdicts, NoSnapshot, Snapshot
<1>2. RowsWellFormed /\ BatchesClaimed /\ InHand /\ VerdictsBacked
  BY DEF Init, RowsWellFormed, BatchesClaimed, InHand, VerdictsBacked
<1>3. LiveHasBudget /\ SentMeansDelivered /\ GivenUpForReason
  BY DEF Init, LiveHasBudget, SentMeansDelivered, GivenUpForReason, Live
<1> QED BY <1>1, <1>2, <1>3 DEF IInv

-----------------------------------------------------------------------------
(* Each step preserves the invariant.  The claim: *)

LEMMA ClaimIInv ==
  ASSUME IInv, NEW w \in Workers, NEW S \in SUBSET Jobs,
         ClaimPendingNotificationJobs(w, S)
  PROVE  IInv'
<1>1. /\ Leased(S) \subseteq Jobs /\ Exhausted(S) \subseteq S
      /\ \A j \in S : status[j] \in Live
      /\ \A j \in Exhausted(S) : attempts[j] + 1 = MaxAttempts
      /\ \A j \in Jobs : ChargedAttempts(S, j) \in 0..MaxAttempts
      /\ \A j \in Leased(S) : ChargedAttempts(S, j) < MaxAttempts
  <2>1. \A j \in S : status[j] \in Live /\ attempts[j] \in Nat /\ attempts[j] < MaxAttempts
    BY DEF IInv, ClaimPendingNotificationJobs, Claimable, LiveHasBudget, TypeOK
  <2>2. MaxAttempts \in Nat /\ \A j \in Jobs : attempts[j] \in 0..MaxAttempts
    BY OutboxAssumption DEF IInv, TypeOK
  <2>3. /\ Leased(S) \subseteq Jobs /\ Exhausted(S) \subseteq S /\ Expired(S) \subseteq S
        /\ \A j \in Leased(S) : j \in S /\ (j \in Expired(S) => ~(attempts[j] + 1 >= MaxAttempts))
    BY DEF Leased, Exhausted, Expired
  <2>4. \A j \in Exhausted(S) : attempts[j] + 1 = MaxAttempts
    BY <2>1, <2>2 DEF Exhausted, Expired
  <2>5. \A j \in Jobs : ChargedAttempts(S, j) \in 0..MaxAttempts
    BY <2>1, <2>2, <2>3 DEF ChargedAttempts
  <2>6. \A j \in Leased(S) : ChargedAttempts(S, j) < MaxAttempts
    BY <2>1, <2>2, <2>3 DEF ChargedAttempts
  <2> QED BY <2>1, <2>3, <2>4, <2>5, <2>6
<1>2. \A j \in Jobs : NoSnapshot \in Snapshot
        /\ (j \in Leased(S) => [attempts |-> ReturnedAttempts(S, j), sub |-> link[j]] \in Snapshot)
  BY <1>1 DEF IInv, TypeOK, Snapshot, NoSnapshot, ReturnedAttempts
<1>3. TypeOK'
  <2>1. snap' \in [Workers -> [Jobs -> Snapshot]]
    BY <1>2 DEF IInv, TypeOK, ClaimPendingNotificationJobs
  <2>2. attempts' \in [Jobs -> 0..MaxAttempts]
    BY <1>1 DEF ClaimPendingNotificationJobs
  <2> QED
    BY <1>1, <2>1, <2>2 DEF IInv, TypeOK, ClaimPendingNotificationJobs, Statuses, Locations,
       subVars
<1>4. RowsWellFormed' /\ BatchesClaimed'
  <2>1. RowsWellFormed'
    BY <1>1 DEF IInv, TypeOK, RowsWellFormed, ClaimPendingNotificationJobs, ChargedAttempts,
       Expired, Live
  <2>2. ASSUME NEW v \in Workers, NEW j \in batch'[v]
        PROVE  status'[j] # "absent" /\ snap'[v][j].attempts < MaxAttempts
    <3>1. CASE v = w
      BY <1>1, <2>2, <3>1 DEF IInv, TypeOK, ClaimPendingNotificationJobs, ReturnedAttempts, Leased
    <3>2. CASE v # w
      BY <1>1, <2>2, <3>2 DEF IInv, TypeOK, BatchesClaimed, ClaimPendingNotificationJobs, Live
    <3> QED BY <3>1, <3>2
  <2> QED BY <2>1, <2>2 DEF BatchesClaimed
<1>5. InHand' /\ VerdictsBacked'
  BY DEF IInv, TypeOK, InHand, VerdictsBacked, ClaimPendingNotificationJobs
<1>6. LiveHasBudget'
  BY <1>1 DEF IInv, TypeOK, LiveHasBudget, ClaimPendingNotificationJobs, Leased, ChargedAttempts,
     Expired, Live
<1>7. SentMeansDelivered' /\ GivenUpForReason'
  BY <1>1 DEF IInv, TypeOK, SentMeansDelivered, GivenUpForReason, ClaimPendingNotificationJobs,
     Exhausted, Expired, ChargedAttempts, Live
<1> QED BY <1>3, <1>4, <1>5, <1>6, <1>7 DEF IInv

LEMMA SendIInv ==
  ASSUME IInv, NEW w \in Workers, NEW j \in Jobs, Send(w, j)
  PROVE  IInv'
<1>1. chat[j] \in Chats
  BY DEF IInv, Send, BatchesClaimed, RowsWellFormed, TypeOK
<1>2. PICK o \in Outcomes(w, chat[j]) :
        /\ verdict' = [verdict EXCEPT ![w] = o.verdict]
        /\ received' = [received EXCEPT ![j] = @ + o.messages]
        /\ lost' = [lost EXCEPT ![j] = IF o.messages > 0 /\ o.verdict # "ok" THEN @ + 1 ELSE @]
        /\ rejected' = IF o.answer \in Rejections THEN rejected \cup {j} ELSE rejected
        /\ refused' = IF o.answer = "unreachable" THEN refused \cup {chat[j]} ELSE refused
  BY DEF Send
<1>3. /\ o.verdict \in Verdicts /\ o.verdict # "none" /\ o.messages \in {0, 1}
      /\ o.verdict = "ok" => o.messages = 1
      /\ o.verdict \in {"permanent", "unreachable"} => o.answer \in Rejections
      /\ o.verdict = "unreachable" => o.answer = "unreachable"
  BY OutcomeResult
<1>4. TypeOK'
  <2>1. lost' \in [Jobs -> Nat]
    BY <1>2 DEF IInv, TypeOK
  <2>2. received' \in [Jobs -> Nat] /\ verdict' \in [Workers -> Verdicts]
    BY <1>2, <1>3 DEF IInv, TypeOK
  <2>3. rejected' \subseteq Jobs /\ refused' \subseteq Chats
    BY <1>1, <1>2 DEF IInv, TypeOK
  <2> QED BY <2>1, <2>2, <2>3 DEF IInv, TypeOK, Send, Locations, rowVars, subVars
<1>5. RowsWellFormed' /\ BatchesClaimed' /\ LiveHasBudget' /\ GivenUpForReason'
  BY <1>2 DEF IInv, TypeOK, Send, rowVars, RowsWellFormed, BatchesClaimed, LiveHasBudget, GivenUpForReason
<1>6. /\ \A k \in Jobs : received[k] > 0 => received'[k] > 0
      /\ o.verdict = "ok" => received'[j] > 0
  BY <1>2, <1>3 DEF IInv, TypeOK
<1>7. SentMeansDelivered'
  BY <1>6 DEF IInv, Send, rowVars, SentMeansDelivered
<1>8. InHand' /\ VerdictsBacked'
  BY <1>2, <1>3, <1>6 DEF IInv, TypeOK, Send, InHand, VerdictsBacked
<1> QED BY <1>4, <1>5, <1>7, <1>8 DEF IInv

\* What is known of the job in hand.
LEMMA JobInHand ==
  ASSUME IInv, NEW w \in Workers, pc[w] \in {"finish", "pause"}
  PROVE  /\ current[w] \in batch[w] /\ current[w] \in Jobs
         /\ status[current[w]] # "absent"
         /\ NextAttempts(w) \in 1..MaxAttempts
<1>1. current[w] \in batch[w]
  BY DEF IInv, InHand
<1>2. /\ current[w] \in Jobs /\ status[current[w]] # "absent"
      /\ snap[w][current[w]].attempts \in Nat /\ snap[w][current[w]].attempts < MaxAttempts
  BY <1>1 DEF IInv, TypeOK, BatchesClaimed, Snapshot
<1> QED BY <1>1, <1>2, OutboxAssumption DEF NextAttempts

\* Letting go of the job in hand keeps what is known of the loops.
LEMMA AdvanceKeepsLoops ==
  ASSUME IInv, NEW w \in Workers, Advance(w),
         \A j \in Jobs : status[j] # "absent" => status'[j] # "absent",
         UNCHANGED <<received, rejected>>
  PROVE  BatchesClaimed' /\ InHand' /\ VerdictsBacked'
<1>1. TypeOK
  BY DEF IInv
<1>2. ASSUME NEW v \in Workers, NEW j \in batch'[v]
      PROVE  /\ j \in batch[v] /\ j \in Jobs
             /\ snap'[v][j] = snap[v][j]
  <2>1. CASE v = w
    BY <1>1, <1>2, <2>1, AdvanceEffect DEF TypeOK
  <2>2. CASE v # w
    BY <1>1, <1>2, <2>2, AdvanceEffect DEF TypeOK
  <2> QED BY <2>1, <2>2
<1>3. BatchesClaimed'
  BY <1>2 DEF IInv, BatchesClaimed
<1>4. ASSUME NEW v \in Workers, pc'[v] \in {"finish", "pause"}
      PROVE  /\ v # w /\ pc[v] = pc'[v] /\ batch'[v] = batch[v] /\ snap'[v] = snap[v]
             /\ current'[v] = current[v] /\ verdict'[v] = verdict[v]
  BY <1>1, <1>4, AdvanceEffect
<1>5. InHand' /\ VerdictsBacked'
  BY <1>4 DEF IInv, InHand, VerdictsBacked
<1> QED BY <1>3, <1>5

LEMMA RecordSentIInv ==
  ASSUME IInv, NEW w \in Workers, RecordSent(w)
  PROVE  IInv'
<1>1. current[w] \in Jobs /\ Advance(w) /\ received[current[w]] > 0
  BY JobInHand DEF RecordSent, IInv, VerdictsBacked
<1>2. /\ status' = [status EXCEPT ![current[w]] = IF Fenced(w) THEN "sent" ELSE @]
      /\ UNCHANGED <<attempts, link, chat, subStatus, subDest, stopping, blocked,
                     holder, sends, received, lost, rejected, refused>>
      /\ ripe' = [ripe EXCEPT ![current[w]] = @ /\ ~Fenced(w)]
  BY DEF RecordSent, subVars, historyVars
<1>3. TypeOK'
  BY <1>1, <1>2, AdvanceEffect DEF IInv, TypeOK, Statuses
<1>4. BatchesClaimed' /\ InHand' /\ VerdictsBacked'
  BY <1>1, <1>2, AdvanceKeepsLoops DEF IInv, TypeOK
<1>5. RowsWellFormed' /\ LiveHasBudget' /\ SentMeansDelivered' /\ GivenUpForReason'
  BY <1>1, <1>2 DEF IInv, TypeOK, RowsWellFormed, LiveHasBudget, SentMeansDelivered,
     GivenUpForReason, Live, Fenced
<1> QED BY <1>3, <1>4, <1>5 DEF IInv

LEMMA RecordRetryIInv ==
  ASSUME IInv, NEW w \in Workers, RecordRetry(w)
  PROVE  IInv'
<1>1. /\ current[w] \in Jobs /\ Advance(w)
      /\ NextAttempts(w) \in 0..MaxAttempts /\ NextAttempts(w) < MaxAttempts
  BY JobInHand, OutboxAssumption DEF RecordRetry, Retryable
<1>2. /\ status' = [status EXCEPT ![current[w]] = IF Fenced(w) THEN "pending" ELSE @]
      /\ attempts' = [attempts EXCEPT ![current[w]] = IF Fenced(w) THEN NextAttempts(w) ELSE @]
      /\ ripe' = [ripe EXCEPT ![current[w]] = @ /\ ~Fenced(w)]
      /\ UNCHANGED <<link, chat, subStatus, subDest, stopping, blocked,
                     holder, sends, received, lost, rejected, refused>>
  BY DEF RecordRetry, subVars, historyVars
<1>3. TypeOK'
  BY <1>1, <1>2, AdvanceEffect DEF IInv, TypeOK, Statuses
<1>4. BatchesClaimed' /\ InHand' /\ VerdictsBacked'
  BY <1>1, <1>2, AdvanceKeepsLoops DEF IInv, TypeOK
<1>5. RowsWellFormed' /\ LiveHasBudget' /\ SentMeansDelivered' /\ GivenUpForReason'
  BY <1>1, <1>2 DEF IInv, TypeOK, RowsWellFormed, LiveHasBudget, SentMeansDelivered,
     GivenUpForReason, Live, Fenced
<1> QED BY <1>3, <1>4, <1>5 DEF IInv

LEMMA FailJobIInv ==
  ASSUME IInv, NEW w \in Workers, failJob(w)
  PROVE  IInv'
<1> DEFINE j == current[w]
<1>1. /\ pc[w] = "finish" /\ j \in batch[w] /\ j \in Jobs /\ status[j] # "absent"
      /\ NextAttempts(w) \in 0..MaxAttempts
      /\ NextAttempts(w) = MaxAttempts \/ j \in rejected
  <2>1. /\ pc[w] = "finish" /\ verdict[w] # "ok" /\ ~Retryable(w) /\ verdict[w] # "none"
    BY DEF failJob, IInv, VerdictsBacked
  <2>2. j \in batch[w] /\ j \in Jobs /\ status[j] # "absent" /\ NextAttempts(w) \in 1..MaxAttempts
    BY <2>1, JobInHand
  <2>3. CASE verdict[w] = "temporary"
    BY <2>1, <2>2, <2>3, OutboxAssumption DEF Retryable
  <2>4. CASE verdict[w] \in {"permanent", "unreachable"}
    BY <2>1, <2>2, <2>4 DEF IInv, VerdictsBacked
  <2>5. verdict[w] \in Verdicts
    BY DEF IInv, TypeOK
  <2> QED BY <2>1, <2>2, <2>3, <2>4, <2>5, OutboxAssumption DEF Verdicts
<1>2. /\ status' = [status EXCEPT ![j] = IF Fenced(w) THEN "failed" ELSE @]
      /\ attempts' = [attempts EXCEPT ![j] = IF Fenced(w) THEN NextAttempts(w) ELSE @]
      /\ ripe' = [ripe EXCEPT ![j] = @ /\ ~Fenced(w)]
      /\ UNCHANGED <<link, chat, subStatus, subDest, stopping, blocked,
                     holder, sends, received, lost, rejected, refused>>
  BY DEF failJob, subVars, historyVars
<1>3. RowsWellFormed' /\ LiveHasBudget' /\ SentMeansDelivered' /\ GivenUpForReason'
  BY <1>1, <1>2 DEF IInv, TypeOK, RowsWellFormed, LiveHasBudget, SentMeansDelivered,
     GivenUpForReason, Live, Fenced
<1>4. CASE Advance(w)
  <2>1. TypeOK'
    BY <1>1, <1>2, <1>4, AdvanceEffect DEF IInv, TypeOK, Statuses
  <2>2. BatchesClaimed' /\ InHand' /\ VerdictsBacked'
    BY <1>1, <1>2, <1>4, AdvanceKeepsLoops DEF IInv, TypeOK
  <2> QED BY <1>3, <2>1, <2>2 DEF IInv
<1>5. CASE /\ snap[w][j].sub # None
           /\ pc' = [pc EXCEPT ![w] = "pause"]
           /\ UNCHANGED <<batch, snap, current, verdict>>
  <2>1. TypeOK'
    BY <1>1, <1>2, <1>5 DEF IInv, TypeOK, Statuses, Locations
  <2>2. snap[w][j].sub \in Subs
    BY <1>1, <1>5 DEF IInv, TypeOK, Snapshot
  <2>3. BatchesClaimed' /\ InHand' /\ VerdictsBacked'
    BY <1>1, <1>2, <1>5, <2>2 DEF IInv, TypeOK, BatchesClaimed, InHand, VerdictsBacked
  <2> QED BY <1>3, <2>1, <2>3 DEF IInv
<1> QED BY <1>4, <1>5 DEF failJob

LEMMA AutoPauseIInv ==
  ASSUME IInv, NEW w \in Workers, AutoPause(w)
  PROVE  IInv'
<1>1. /\ Advance(w)
      /\ subStatus' = [subStatus EXCEPT ![snap[w][current[w]].sub] =
                         AutoPaused(snap[w][current[w]].sub)]
      /\ snap[w][current[w]].sub \in Subs
      /\ UNCHANGED <<status, attempts, ripe, link, chat, subDest, stopping, blocked,
                     holder, sends, received, lost, rejected, refused>>
  BY DEF AutoPause, IInv, InHand, rowVars, historyVars
<1>2. TypeOK'
  BY <1>1, AdvanceEffect DEF IInv, TypeOK, AutoPaused, SubStatuses
<1>3. BatchesClaimed' /\ InHand' /\ VerdictsBacked'
  BY <1>1, AdvanceKeepsLoops
<1>4. RowsWellFormed' /\ LiveHasBudget' /\ SentMeansDelivered' /\ GivenUpForReason'
  BY <1>1 DEF IInv, RowsWellFormed, LiveHasBudget, SentMeansDelivered, GivenUpForReason
<1> QED BY <1>2, <1>3, <1>4 DEF IInv

\* Losing the success in hand is all that happens to the counters.
LEMMA LoseEffect ==
  ASSUME TypeOK, NEW w \in Workers, Lose(w)
  PROVE  /\ lost' \in [Jobs -> Nat]
         /\ UNCHANGED <<holder, sends, received, rejected, refused>>
BY DEF Lose, TypeOK

LEMMA FinishErrorIInv ==
  ASSUME IInv, NEW w \in Workers, FinishError(w)
  PROVE  IInv'
<1>1. /\ Advance(w)
      /\ lost' \in [Jobs -> Nat]
      /\ UNCHANGED <<status, attempts, ripe, link, chat, subStatus, subDest, stopping, blocked,
                     holder, sends, received, rejected, refused>>
  BY LoseEffect DEF FinishError, IInv, rowVars, subVars
<1>2. TypeOK'
  BY <1>1, AdvanceEffect DEF IInv, TypeOK
<1>3. BatchesClaimed' /\ InHand' /\ VerdictsBacked'
  BY <1>1, AdvanceKeepsLoops
<1>4. RowsWellFormed' /\ LiveHasBudget' /\ SentMeansDelivered' /\ GivenUpForReason'
  BY <1>1 DEF IInv, RowsWellFormed, LiveHasBudget, SentMeansDelivered, GivenUpForReason
<1> QED BY <1>2, <1>3, <1>4 DEF IInv

\* The process around the loop: what it holds only ever gets smaller.
LEMMA ProcessIInv ==
  ASSUME IInv, NEW w \in Workers, Shutdown(w) \/ Exit(w) \/ Crash(w) \/ Restart(w)
  PROVE  IInv'
<1>1. /\ lost' \in [Jobs -> Nat]
      /\ UNCHANGED <<status, attempts, ripe, link, chat, subStatus, subDest, blocked,
                     holder, sends, received, rejected, refused>>
  BY LoseEffect DEF Shutdown, Exit, Crash, Restart, IInv, TypeOK, rowVars, subVars, historyVars
<1>2. NoSnapshot \in Snapshot
  BY DEF NoSnapshot, Snapshot
<1>3. TypeOK'
  <2>1. CASE Shutdown(w)
    BY <1>1, <2>1 DEF IInv, TypeOK, Shutdown
  <2>2. CASE Exit(w) \/ Restart(w)
    BY <1>1, <2>2 DEF IInv, TypeOK, Exit, Restart, Locations
  <2>3. CASE Crash(w)
    BY <1>1, <1>2, <2>3 DEF IInv, TypeOK, Crash, Locations, Verdicts
  <2> QED BY <2>1, <2>2, <2>3
<1>4. RowsWellFormed' /\ LiveHasBudget' /\ SentMeansDelivered' /\ GivenUpForReason'
  BY <1>1 DEF IInv, RowsWellFormed, LiveHasBudget, SentMeansDelivered, GivenUpForReason
<1>5. BatchesClaimed' /\ InHand' /\ VerdictsBacked'
  <2>1. CASE Shutdown(w)
    BY <1>1, <2>1 DEF IInv, BatchesClaimed, InHand, VerdictsBacked, Shutdown
  <2>2. CASE Exit(w) \/ Restart(w)
    BY <1>1, <2>2 DEF IInv, TypeOK, BatchesClaimed, InHand, VerdictsBacked, Exit, Restart
  <2>3. CASE Crash(w)
    BY <1>1, <2>3 DEF IInv, TypeOK, BatchesClaimed, InHand, VerdictsBacked, Crash
  <2> QED BY <2>1, <2>2, <2>3
<1> QED BY <1>3, <1>4, <1>5 DEF IInv

LEMMA EnvironmentIInv == ASSUME IInv, Environment PROVE IInv'
<1>1. UNCHANGED <<pc, stopping, batch, snap, current, verdict, holder, sends, received, lost,
                  rejected, refused, attempts>>
  BY DEF Environment, Enqueue, Ripen, ToggleBlock, SetStatus, SetDestination, Delete,
     rowVars, subVars, workerVars, historyVars
<1>2. \A j \in Jobs :
        /\ status'[j] = status[j] \/ (status[j] = "absent" /\ status'[j] = "pending"
                                      /\ chat'[j] \in Chats)
        /\ chat'[j] = chat[j] \/ chat'[j] \in Chats
  BY DEF IInv, TypeOK, Environment, Enqueue, Ripen, ToggleBlock, SetStatus, SetDestination,
     Delete, rowVars, subVars, workerVars, historyVars
<1>3. TypeOK'
  <2>1. CASE \E j \in Jobs, s \in Subs : Enqueue(j, s)
    BY <1>1, <2>1 DEF IInv, TypeOK, Enqueue, Statuses, subVars
  <2>2. CASE \E j \in Jobs : Ripen(j)
    BY <1>1, <2>2 DEF IInv, TypeOK, Ripen, subVars
  <2>3. CASE \E c \in Chats : ToggleBlock(c)
    BY <1>1, <2>3 DEF IInv, TypeOK, ToggleBlock, rowVars, subVars
  <2>4. CASE \/ \E s \in Subs, st \in {"active", "paused"} : SetStatus(s, st)
             \/ \E s \in Subs, c \in Chats : SetDestination(s, c)
    BY <1>1, <2>4 DEF IInv, TypeOK, SetStatus, SetDestination, rowVars, SubStatuses
  <2>5. CASE \E s \in Subs : Delete(s)
    BY <1>1, <2>5 DEF IInv, TypeOK, Delete, SubStatuses
  <2> QED BY <2>1, <2>2, <2>3, <2>4, <2>5 DEF Environment
<1>4. RowsWellFormed' /\ SentMeansDelivered' /\ GivenUpForReason'
  BY <1>1, <1>2 DEF IInv, RowsWellFormed, SentMeansDelivered, GivenUpForReason
<1>5. LiveHasBudget'
  <2>1. ASSUME NEW j \in Jobs, status[j] = "absent" PROVE attempts[j] < MaxAttempts
    BY <2>1, OutboxAssumption DEF IInv, RowsWellFormed
  <2> QED BY <1>1, <1>2, <2>1 DEF IInv, LiveHasBudget, Live
<1>6. BatchesClaimed' /\ InHand' /\ VerdictsBacked'
  BY <1>1, <1>2 DEF IInv, TypeOK, BatchesClaimed, InHand, VerdictsBacked
<1> QED BY <1>3, <1>4, <1>5, <1>6 DEF IInv

LEMMA NextIInv == IInv /\ [Next]_vars => IInv'
<1> SUFFICES ASSUME IInv, [Next]_vars PROVE IInv'
  OBVIOUS
<1>1. CASE Environment
  BY <1>1, EnvironmentIInv
<1>2. ASSUME NEW w \in Workers, WorkerStep(w) PROVE IInv'
  BY <1>2, ClaimIInv, SendIInv, RecordSentIInv, RecordRetryIInv, FailJobIInv, AutoPauseIInv,
     FinishErrorIInv, ProcessIInv DEF WorkerStep
<1>3. CASE UNCHANGED vars
  BY <1>3 DEF vars, rowVars, subVars, workerVars, historyVars, IInv, TypeOK, RowsWellFormed,
     BatchesClaimed, InHand, VerdictsBacked, LiveHasBudget, SentMeansDelivered, GivenUpForReason
<1> QED BY <1>1, <1>2, <1>3 DEF Next

LEMMA Inductive == Spec => []IInv
BY InitIInv, NextIInv, PTL DEF Spec

-----------------------------------------------------------------------------
(* The loops. *)

\* The loop has a job in hand only between its send() and the end of its
\* result, and holds a batch only while it works through it.
LoopShape ==
  \A w \in Workers :
    /\ pc[w] \in {"poll", "send", "down"} => current[w] = None
    /\ pc[w] \in {"poll", "down"} => batch[w] = {}

\* What a loop does to the others: nothing.
Untouched(v) ==
  /\ pc'[v] = pc[v] /\ batch'[v] = batch[v] /\ snap'[v] = snap[v]
  /\ current'[v] = current[v] /\ verdict'[v] = verdict[v]

LEMMA OthersUntouched ==
  ASSUME TypeOK, NEW w \in Workers, WorkerStep(w)
  PROVE  \A v \in Workers \ {w} : Untouched(v)
<1>1. ASSUME \/ \E S \in SUBSET Jobs : ClaimPendingNotificationJobs(w, S)
             \/ \E j \in Jobs : Send(w, j)
             \/ Shutdown(w) \/ Exit(w) \/ Crash(w) \/ Restart(w)
      PROVE  \A v \in Workers \ {w} : Untouched(v)
  BY <1>1 DEF TypeOK, ClaimPendingNotificationJobs, Send, Shutdown, Exit, Crash, Restart, Untouched
<1>2. CASE Advance(w)
  BY <1>2, AdvanceEffect DEF Untouched
<1>3. CASE failJob(w) /\ ~Advance(w)
  BY <1>3 DEF failJob, TypeOK, Untouched
<1> QED BY <1>1, <1>2, <1>3 DEF WorkerStep, RecordSent, RecordRetry, AutoPause, FinishError

-----------------------------------------------------------------------------
(* The theorems. *)

\* Every variable stays in its type; in particular no row is ever charged more
\* than max_attempts, whatever claims, late results and restarts interleave.
THEOREM TypeCorrect == Spec => []TypeOK
BY Inductive, PTL DEF IInv

\* A claimable row always has an attempt left, for any number of workers.
THEOREM LiveHasBudgetAlways == Spec => []LiveHasBudget
BY Inductive, PTL DEF IInv

\* A job is recorded as sent only after its message reached the chat.
THEOREM SentWasDelivered == Spec => []SentMeansDelivered
BY Inductive, PTL DEF IInv

\* A job fails only for want of attempts or on a non-retryable answer.
THEOREM GivenUpWithReason == Spec => []GivenUpForReason
BY Inductive, PTL DEF IInv

\* Settled jobs stay settled, although the fence names the status only and
\* late results of earlier lease holders get through it.
THEOREM SettledStaysSettled == Spec => SettledIsFinal
<1>1. ASSUME IInv, [Next]_vars, NEW j \in Jobs, status[j] \in {"sent", "failed"}
      PROVE  status'[j] = status[j]
  <2>1. CASE Environment
    BY <1>1, <2>1 DEF IInv, TypeOK, Environment, Enqueue, Ripen, ToggleBlock, SetStatus,
       SetDestination, Delete, rowVars
  <2>2. ASSUME NEW w \in Workers, NEW S \in SUBSET Jobs, ClaimPendingNotificationJobs(w, S)
        PROVE  status'[j] = status[j]
    BY <1>1, <2>2 DEF ClaimPendingNotificationJobs, Claimable, Live, Exhausted, Expired
  <2>3. ASSUME NEW w \in Workers, RecordSent(w) \/ RecordRetry(w) \/ failJob(w)
        PROVE  status'[j] = status[j]
    BY <1>1, <2>3 DEF IInv, TypeOK, RecordSent, RecordRetry, failJob, Fenced
  <2>4. ASSUME NEW w \in Workers,
               \/ \E k \in Jobs : Send(w, k)
               \/ AutoPause(w) \/ FinishError(w)
               \/ Shutdown(w) \/ Exit(w) \/ Crash(w) \/ Restart(w)
        PROVE  status'[j] = status[j]
    BY <2>4 DEF Send, AutoPause, FinishError, Shutdown, Exit, Crash, Restart, rowVars
  <2>5. CASE UNCHANGED vars
    BY <2>5 DEF vars, rowVars
  <2> QED BY <1>1, <2>1, <2>2, <2>3, <2>4, <2>5 DEF Next, WorkerStep
<1>2. IInv /\ [Next]_vars =>
        [\A j \in Jobs : status[j] \in {"sent", "failed"} => status'[j] = status[j]]_vars
  BY <1>1
<1> QED BY <1>2, Inductive, PTL DEF Spec, SettledIsFinal

\* A send() that fails has left a message in the chat only if Telegram accepted it
\* and its answer was lost or not understood: no other failure, and no number of
\* fallbacks, makes a retry a duplicate (worker.go, send).
THEOREM FailedSendsLeaveNothing ==
  ASSUME NEW P \in SUBSET Answers, NEW o \in send(P), o.verdict # "ok", o.messages # 0
  PROVE  o.messages = 1 /\ o.answer \in {"lost", "receipt"}
BY SendResult DEF Accepted

\* No send() ever puts two messages into the chat: the stages it goes through
\* before the last one were all refused (shouldFallbackContent).
THEOREM SendPutsOneMessage == Spec => OneMessagePerSend
<1>1. ASSUME IInv, [Next]_vars, NEW j \in Jobs
      PROVE  received'[j] <= received[j] + 1
  <2>1. received[j] \in Nat
    BY <1>1 DEF IInv, TypeOK
  <2>2. ASSUME NEW w \in Workers, NEW k \in Jobs, Send(w, k)
        PROVE  received'[j] <= received[j] + 1
    <3>1. PICK o \in Outcomes(w, chat[k]) : received' = [received EXCEPT ![k] = @ + o.messages]
      BY <2>2 DEF Send
    <3>2. o.messages \in {0, 1}
      BY OutcomeResult
    <3> QED BY <1>1, <2>1, <3>1, <3>2 DEF IInv, TypeOK
  <2>3. CASE Environment
    BY <2>1, <2>3 DEF Environment, Enqueue, Ripen, ToggleBlock, SetStatus, SetDestination, Delete,
       historyVars
  <2>4. ASSUME NEW w \in Workers,
               \/ \E S \in SUBSET Jobs : ClaimPendingNotificationJobs(w, S)
               \/ RecordSent(w) \/ RecordRetry(w) \/ failJob(w) \/ AutoPause(w) \/ FinishError(w)
               \/ Shutdown(w) \/ Exit(w) \/ Crash(w) \/ Restart(w)
        PROVE  received'[j] <= received[j] + 1
    BY <2>1, <2>4 DEF ClaimPendingNotificationJobs, RecordSent, RecordRetry, failJob, AutoPause,
       FinishError, Shutdown, Exit, Crash, Restart, Lose, historyVars
  <2>5. CASE UNCHANGED vars
    BY <2>1, <2>5 DEF vars, historyVars
  <2> QED BY <1>1, <2>2, <2>3, <2>4, <2>5 DEF Next, WorkerStep
<1>2. IInv /\ [Next]_vars => [\A j \in Jobs : received'[j] <= received[j] + 1]_vars
  BY <1>1
<1> QED BY <1>2, Inductive, PTL DEF Spec, OneMessagePerSend

-----------------------------------------------------------------------------
(* The automatic pause. *)

\* A claimed job still belongs to the subscription the claim read, unless that
\* was deleted since.
LinksKept ==
  \A w \in Workers : \A j \in batch[w] : snap[w][j].sub \in Subs =>
    link[j] = snap[w][j].sub \/ subStatus[snap[w][j].sub] = "deleted"

\* A pause that is about to happen has a failed job on a refused chat behind it.
PauseBacked ==
  \A w \in Workers :
    /\ pc[w] = "finish" /\ verdict[w] = "unreachable" => chat[current[w]] \in refused
    /\ pc[w] = "pause" => status[current[w]] = "failed" /\ chat[current[w]] \in refused

PInv == LinksKept /\ PauseBacked

LEMMA InitPInv == Init => PInv
BY DEF Init, PInv, LinksKept, PauseBacked

LEMMA ClaimPInv ==
  ASSUME IInv, PInv, NEW w \in Workers, NEW S \in SUBSET Jobs, ClaimPendingNotificationJobs(w, S)
  PROVE  PInv'
<1>1. /\ \A v \in Workers \ {w} : pc'[v] = pc[v] /\ batch'[v] = batch[v] /\ snap'[v] = snap[v]
      /\ pc'[w] \in {"poll", "send"} /\ batch'[w] \subseteq S
      /\ \A j \in batch'[w] : snap'[w][j].sub = link[j]
      /\ UNCHANGED <<link, chat, subStatus, current, verdict, refused>>
  BY DEF IInv, TypeOK, ClaimPendingNotificationJobs, Leased, subVars
<1>2. \A j \in Jobs : status[j] = "failed" => status'[j] = "failed"
  BY DEF ClaimPendingNotificationJobs, Claimable, Live, Exhausted, Expired
<1>3. LinksKept'
  BY <1>1 DEF PInv, LinksKept
<1>4. PauseBacked'
  <2>1. \A v \in Workers : pc[v] = "pause" => current[v] \in Jobs
    BY DEF IInv, InHand, TypeOK
  <2> QED BY <1>1, <1>2, <2>1 DEF PInv, PauseBacked
<1> QED BY <1>3, <1>4 DEF PInv

LEMMA SendPInv ==
  ASSUME IInv, PInv, NEW w \in Workers, NEW j \in Jobs, Send(w, j)
  PROVE  PInv'
<1>1. PICK o \in Outcomes(w, chat[j]) :
        /\ verdict' = [verdict EXCEPT ![w] = o.verdict]
        /\ refused' = IF o.answer = "unreachable" THEN refused \cup {chat[j]} ELSE refused
  BY DEF Send
<1>2. o.verdict = "unreachable" => o.answer = "unreachable"
  BY OutcomeResult
<1>3. /\ current' = [current EXCEPT ![w] = j] /\ pc' = [pc EXCEPT ![w] = "finish"]
      /\ UNCHANGED <<status, link, chat, subStatus, batch, snap>>
  BY DEF Send, rowVars, subVars
<1>4. LinksKept'
  BY <1>3 DEF PInv, LinksKept
<1>5. PauseBacked'
  <2>1. refused \subseteq refused'
    BY <1>1
  <2>2. pc'[w] = "finish" /\ current'[w] = j /\ verdict'[w] = o.verdict
    BY <1>1, <1>3 DEF IInv, TypeOK
  <2>3. verdict'[w] = "unreachable" => chat'[current'[w]] \in refused'
    BY <1>1, <1>2, <1>3, <2>2
  <2>4. \A v \in Workers \ {w} : pc'[v] = pc[v] /\ current'[v] = current[v] /\ verdict'[v] = verdict[v]
    BY <1>1, <1>3 DEF IInv, TypeOK
  <2> QED BY <1>3, <2>1, <2>2, <2>3, <2>4 DEF PInv, PauseBacked
<1> QED BY <1>4, <1>5 DEF PInv

\* The end of a job keeps what is known of the other loops, and the loop it ends for
\* has nothing to record.
LEMMA AdvancePInv ==
  ASSUME IInv, PInv, NEW w \in Workers, Advance(w),
         UNCHANGED <<link, chat, refused>>,
         \A j \in Jobs : status[j] = "failed" => status'[j] = "failed",
         \A s \in Subs : subStatus[s] = "deleted" => subStatus'[s] = "deleted"
  PROVE  PInv'
<1>1. /\ pc'[w] \in {"poll", "send", "down"}
      /\ batch'[w] \subseteq batch[w]
      /\ \A j \in batch'[w] : snap'[w][j] = snap[w][j]
      /\ \A v \in Workers \ {w} :
           /\ pc'[v] = pc[v] /\ batch'[v] = batch[v] /\ snap'[v] = snap[v]
           /\ current'[v] = current[v] /\ verdict'[v] = verdict[v]
  BY AdvanceEffect DEF IInv
<1>2. LinksKept'
  BY <1>1 DEF PInv, LinksKept
<1>3. PauseBacked'
  <2>1. \A v \in Workers : pc[v] = "pause" => current[v] \in Jobs
    BY DEF IInv, InHand, TypeOK
  <2> QED BY <1>1, <2>1 DEF PInv, PauseBacked
<1> QED BY <1>2, <1>3 DEF PInv

LEMMA FinishPInv ==
  ASSUME IInv, PInv, NEW w \in Workers,
         \/ RecordSent(w) \/ RecordRetry(w) \/ failJob(w) \/ AutoPause(w) \/ FinishError(w)
  PROVE  PInv'
<1>1. CASE RecordSent(w) \/ RecordRetry(w)
  <2>1. \A j \in Jobs : status[j] = "failed" => status'[j] = "failed"
    BY <1>1 DEF IInv, TypeOK, RecordSent, RecordRetry, Fenced
  <2>2. Advance(w) /\ UNCHANGED <<link, chat, refused, subStatus>>
    BY <1>1 DEF RecordSent, RecordRetry, subVars, historyVars
  <2> QED BY <2>1, <2>2, AdvancePInv
<1>2. CASE failJob(w)
  <2>1. \A j \in Jobs : status[j] = "failed" => status'[j] = "failed"
    BY <1>2 DEF IInv, TypeOK, failJob, Fenced
  <2>2. UNCHANGED <<link, chat, refused, subStatus>>
    BY <1>2 DEF failJob, subVars, historyVars
  <2>3. CASE Advance(w)
    BY <2>1, <2>2, <2>3, AdvancePInv
  <2>4. CASE /\ Fenced(w) /\ verdict[w] = "unreachable"
             /\ pc' = [pc EXCEPT ![w] = "pause"]
             /\ UNCHANGED <<batch, snap, current, verdict>>
    <3>1. pc[w] = "finish" /\ current[w] \in Jobs
      BY <1>2 DEF failJob, IInv, InHand, TypeOK
    <3>2. status'[current[w]] = "failed"
      BY <1>2, <2>4, <3>1 DEF failJob, IInv, TypeOK
    <3>3. \A v \in Workers : pc[v] = "pause" => current[v] \in Jobs
      BY DEF IInv, InHand, TypeOK
    <3>4. PauseBacked'
      BY <2>1, <2>2, <2>4, <3>1, <3>2, <3>3 DEF PInv, PauseBacked, IInv, TypeOK
    <3>5. LinksKept'
      BY <2>2, <2>4 DEF PInv, LinksKept
    <3> QED BY <3>4, <3>5 DEF PInv
  <2> QED BY <1>2, <2>3, <2>4 DEF failJob
<1>3. CASE AutoPause(w) \/ FinishError(w)
  <2>1. \A s \in Subs : subStatus[s] = "deleted" => subStatus'[s] = "deleted"
    BY <1>3 DEF IInv, TypeOK, AutoPause, AutoPaused, FinishError, subVars
  <2>2. Advance(w) /\ UNCHANGED <<link, chat, refused, status>>
    BY <1>3 DEF AutoPause, FinishError, Lose, rowVars, historyVars
  <2> QED BY <2>1, <2>2, AdvancePInv
<1> QED BY <1>1, <1>2, <1>3

LEMMA OtherPInv ==
  ASSUME IInv, PInv,
         \/ Environment
         \/ \E w \in Workers : Shutdown(w) \/ Exit(w) \/ Crash(w) \/ Restart(w)
         \/ UNCHANGED vars
  PROVE  PInv'
<1>0. \A v \in Workers : /\ pc[v] \in {"finish", "pause"} => current[v] \in Jobs
                         /\ \A j \in batch[v] : j \in Jobs /\ status[j] # "absent"
  BY DEF IInv, InHand, BatchesClaimed, TypeOK
<1>1. ASSUME NEW j \in Jobs, NEW s \in Subs, Enqueue(j, s)
      PROVE  PInv'
  <2>1. \A v \in Workers : pc[v] \in {"finish", "pause"} => current[v] # j
    BY <1>1 DEF Enqueue, IInv, InHand, BatchesClaimed
  <2> QED BY <1>0, <1>1, <2>1 DEF Enqueue, IInv, TypeOK, PInv, LinksKept, PauseBacked, workerVars,
          subVars, historyVars
<1>2. ASSUME NEW s \in Subs, Delete(s)
      PROVE  PInv'
  BY <1>0, <1>2 DEF Delete, IInv, TypeOK, PInv, LinksKept, PauseBacked, workerVars, historyVars
<1>3. ASSUME \/ \E j \in Jobs : Ripen(j)
             \/ \E c \in Chats : ToggleBlock(c)
             \/ \E s \in Subs, st \in {"active", "paused"} : SetStatus(s, st)
             \/ \E s \in Subs, c \in Chats : SetDestination(s, c)
             \/ UNCHANGED vars
      PROVE  PInv'
  <2>1. UNCHANGED <<link, chat, status, refused, batch, snap, current, verdict, pc>>
    BY <1>3 DEF Ripen, ToggleBlock, SetStatus, SetDestination, vars, rowVars, workerVars, historyVars
  <2>2. \A s \in Subs : subStatus[s] = "deleted" => subStatus'[s] = "deleted"
    BY <1>3 DEF Ripen, ToggleBlock, SetStatus, SetDestination, vars, subVars, IInv, TypeOK
  <2> QED BY <2>1, <2>2 DEF PInv, LinksKept, PauseBacked
<1>4. ASSUME NEW w \in Workers, Shutdown(w) \/ Exit(w) \/ Crash(w) \/ Restart(w)
      PROVE  PInv'
  <2>1. UNCHANGED <<link, chat, status, refused, subStatus>>
    BY <1>4 DEF Shutdown, Exit, Crash, Restart, Lose, rowVars, subVars, historyVars
  <2>2. \A v \in Workers \ {w} : /\ pc'[v] = pc[v] /\ batch'[v] = batch[v] /\ snap'[v] = snap[v]
                                 /\ current'[v] = current[v] /\ verdict'[v] = verdict[v]
    BY <1>4 DEF Shutdown, Exit, Crash, Restart, IInv, TypeOK
  <2>3. \/ /\ pc'[w] = pc[w] /\ batch'[w] = batch[w] /\ snap'[w] = snap[w]
           /\ current'[w] = current[w] /\ verdict'[w] = verdict[w]
        \/ pc'[w] \in {"down", "poll"} /\ batch'[w] = {}
        \/ pc'[w] \in {"down", "poll"} /\ batch'[w] = batch[w] /\ snap'[w] = snap[w]
    BY <1>4 DEF Shutdown, Exit, Crash, Restart, IInv, TypeOK
  <2>4. LinksKept'
    BY <2>1, <2>2, <2>3 DEF PInv, LinksKept
  <2>5. PauseBacked'
    BY <2>1, <2>2, <2>3 DEF PInv, PauseBacked
  <2> QED BY <2>4, <2>5 DEF PInv
<1> QED BY <1>1, <1>2, <1>3, <1>4 DEF Environment

LEMMA PauseInductive == Spec => []PInv
<1>1. IInv /\ PInv /\ [Next]_vars => PInv'
  BY ClaimPInv, SendPInv, FinishPInv, OtherPInv DEF Next, WorkerStep
<1> QED BY <1>1, InitPInv, Inductive, PTL DEF Spec

\* The step of an automatic pause: it hits an active subscription, for a job of it.
PauseHasReason ==
  \A s \in Subs : subStatus'[s] = "telegram_blocked" /\ subStatus[s] # "telegram_blocked"
    => /\ subStatus[s] = "active"
       /\ \E j \in Jobs : status[j] = "failed" /\ chat[j] \in refused /\ link[j] = s

LEMMA PauseStep ==
  ASSUME IInv, PInv, [Next]_vars
  PROVE  PauseHasReason
<1> USE DEF PauseHasReason
<1>1. ASSUME NEW w \in Workers, AutoPause(w) PROVE PauseHasReason
  <2>1. /\ current[w] \in batch[w] /\ current[w] \in Jobs
        /\ snap[w][current[w]].sub \in Subs
        /\ status[current[w]] = "failed" /\ chat[current[w]] \in refused
    BY <1>1 DEF AutoPause, IInv, TypeOK, InHand, PInv, PauseBacked
  <2> DEFINE t == snap[w][current[w]].sub
  <2>2. link[current[w]] = t \/ subStatus[t] = "deleted"
    BY <2>1 DEF PInv, LinksKept
  <2>3. subStatus' = [subStatus EXCEPT ![t] = AutoPaused(t)]
    BY <1>1 DEF AutoPause
  <2> HIDE DEF t
  <2>4. \A s \in Subs : subStatus'[s] = "telegram_blocked" /\ subStatus[s] # "telegram_blocked"
          => s = t /\ subStatus[s] = "active"
    BY <2>3 DEF IInv, TypeOK, AutoPaused
  <2> QED BY <2>1, <2>2, <2>4
<1>2. ASSUME NEW w \in Workers,
             \/ \E S \in SUBSET Jobs : ClaimPendingNotificationJobs(w, S)
             \/ \E k \in Jobs : Send(w, k)
             \/ RecordSent(w) \/ RecordRetry(w) \/ failJob(w) \/ FinishError(w)
             \/ Shutdown(w) \/ Exit(w) \/ Crash(w) \/ Restart(w)
      PROVE  PauseHasReason
  BY <1>2 DEF ClaimPendingNotificationJobs, Send, RecordSent, RecordRetry, failJob, FinishError,
     Shutdown, Exit, Crash, Restart, subVars
<1>3. CASE Environment
  BY <1>3 DEF Environment, Enqueue, Ripen, ToggleBlock, SetStatus, SetDestination, Delete,
     subVars, IInv, TypeOK
<1>4. CASE UNCHANGED vars
  BY <1>4 DEF vars, subVars
<1> QED BY <1>1, <1>2, <1>3, <1>4 DEF Next, WorkerStep

\* The automatic pause never overrides a decision of the user, although it is
\* a statement of its own after the one that settled the job (failJob).
THEOREM AutoPauseIsJustified == Spec => AutoPauseJustified
<1>1. IInv /\ PInv /\ [Next]_vars => [PauseHasReason]_vars
  BY PauseStep
<1> QED BY <1>1, Inductive, PauseInductive, PTL DEF Spec, AutoPauseJustified, PauseHasReason

-----------------------------------------------------------------------------
(* The automatic pause and the subscription's chat. *)

\* Nobody moves a subscription to another chat.
NoneMoved == [][subDest' = subDest]_vars

\* A queued job goes to the chat of the subscription it belongs to.
DestinationFollows == \A j \in Jobs : link[j] \in Subs => chat[j] = subDest[link[j]]

LEMMA NextDestination ==
  ASSUME IInv, DestinationFollows, [Next]_vars, subDest' = subDest
  PROVE  DestinationFollows'
<1>1. CASE UNCHANGED <<link, chat>>
  BY <1>1 DEF DestinationFollows
<1>2. ASSUME NEW j \in Jobs, NEW s \in Subs, Enqueue(j, s) PROVE DestinationFollows'
  BY <1>2 DEF Enqueue, IInv, TypeOK, DestinationFollows, subVars
<1>3. ASSUME NEW s \in Subs, Delete(s) PROVE DestinationFollows'
  BY <1>3, OutboxAssumption DEF Delete, DestinationFollows
<1>4. ASSUME NEW w \in Workers, WorkerStep(w) PROVE UNCHANGED <<link, chat>>
  BY <1>4 DEF WorkerStep, ClaimPendingNotificationJobs, Send, RecordSent, RecordRetry, failJob,
     AutoPause, FinishError, Shutdown, Exit, Crash, Restart, rowVars
<1>5. ASSUME \/ \E j \in Jobs : Ripen(j)
             \/ \E c \in Chats : ToggleBlock(c)
             \/ \E s \in Subs, st \in {"active", "paused"} : SetStatus(s, st)
             \/ \E s \in Subs, c \in Chats : SetDestination(s, c)
             \/ UNCHANGED vars
      PROVE  UNCHANGED <<link, chat>>
  BY <1>5 DEF Ripen, ToggleBlock, SetStatus, SetDestination, vars, rowVars
<1> QED BY <1>1, <1>2, <1>3, <1>4, <1>5 DEF Next, Environment

\* failJob's comment, that the pause stops jobs "that can only fail", is true
\* of subscriptions that kept their chat: the chat the pause is about is then
\* the one the subscription delivers to.  The run outbox_moved_destination
\* shows a subscription that did not.
THEOREM PauseMatchesUnmoved == Spec /\ NoneMoved => AutoPauseMatchesDestination
<1> DEFINE Matches ==
      \A s \in Subs : subStatus'[s] = "telegram_blocked" /\ subStatus[s] # "telegram_blocked"
        => subDest[s] \in refused
<1>1. ASSUME IInv, PInv, DestinationFollows, [Next]_vars PROVE Matches
  <2> SUFFICES ASSUME NEW s \in Subs, subStatus'[s] = "telegram_blocked",
                      subStatus[s] # "telegram_blocked"
               PROVE  subDest[s] \in refused
    OBVIOUS
  <2>1. \E j \in Jobs : chat[j] \in refused /\ link[j] = s
    BY <1>1, PauseStep DEF PauseHasReason
  <2> QED BY <1>1, <2>1 DEF DestinationFollows
<1>2. IInv /\ PInv /\ DestinationFollows /\ [Next]_vars => [Matches]_vars
  BY <1>1
<1>3. Init => DestinationFollows
  BY OutboxAssumption DEF Init, DestinationFollows
<1>4. IInv /\ DestinationFollows /\ [Next]_vars /\ [subDest' = subDest]_vars => DestinationFollows'
  <2> SUFFICES ASSUME IInv, DestinationFollows, [Next]_vars, [subDest' = subDest]_vars
               PROVE  DestinationFollows'
    OBVIOUS
  <2>1. subDest' = subDest
    BY DEF vars, subVars
  <2> QED BY <2>1, NextDestination
<1> QED BY <1>2, <1>3, <1>4, Inductive, PauseInductive, PTL
        DEF Spec, NoneMoved, AutoPauseMatchesDestination
-----------------------------------------------------------------------------
(* How often a job is sent when leases run out during the work.  A row with *)
(* a attempts charged may lead to B[a] more calls of send(): a claim costs  *)
(* one, its result brings the row back with one attempt more, and so does   *)
(* the end of its lease, each at its own time.  So B doubles with every     *)
(* attempt that is left.                                                    *)

Doubling(B) ==
  /\ B \in [0..MaxAttempts -> Nat]
  /\ B[MaxAttempts] = 0
  /\ \A a \in 0..MaxAttempts - 1 : B[a] = 1 + 2 * B[a + 1]

LEMMA Halves ==
  ASSUME NEW B, Doubling(B), NEW a \in Nat, a < MaxAttempts
  PROVE  B[a] = 1 + 2 * B[a + 1] /\ B[a + 1] \in Nat
<1>1. a \in 0..MaxAttempts - 1 /\ a + 1 \in 0..MaxAttempts
  BY OutboxAssumption
<1> QED BY <1>1 DEF Doubling

\* The sends a row may still lead to by itself,
RowWeight(B, j) ==
  CASE status[j] = "absent" -> B[0]
    [] status[j] = "pending" -> B[attempts[j]]
    [] status[j] = "processing" -> B[attempts[j] + 1]
    [] OTHER -> 0

\* and those the copy of a loop may lead to: its own, and what its result allows.
LoopWeight(B, w, j) ==
  IF j \notin batch[w] \/ (pc[w] = "pause" /\ j = current[w]) THEN 0
  ELSE IF j = current[w] THEN B[snap[w][j].attempts + 1]
  ELSE 1 + B[snap[w][j].attempts + 1]

Loops(B, j) == [w \in Workers |-> LoopWeight(B, w, j)]

\* A set as large as the sum of f over all workers.
Area(f) == {p \in Workers \X Nat : 1 <= p[2] /\ p[2] <= f[p[1]]}

Weighed(B) ==
  \A j \in Jobs :
    /\ IsFiniteSet(Area(Loops(B, j)))
    /\ sends[j] + RowWeight(B, j) + Cardinality(Area(Loops(B, j))) <= B[0]

\* The sum changes with its term.
LEMMA AreaChange ==
  ASSUME NEW f \in [Workers -> Nat], NEW g \in [Workers -> Nat], NEW w \in Workers,
         \A v \in Workers \ {w} : g[v] = f[v],
         IsFiniteSet(Area(f))
  PROVE  /\ IsFiniteSet(Area(g))
         /\ Cardinality(Area(f)) \in Nat /\ Cardinality(Area(g)) \in Nat
         /\ Cardinality(Area(g)) + f[w] = Cardinality(Area(f)) + g[w]
<1> DEFINE Rest == {p \in Area(f) : p[1] # w}
           F == {w} \X (1..f[w])
           G == {w} \X (1..g[w])
<1>1. Area(f) = Rest \cup F /\ Rest \cap F = {}
  BY DEF Area
<1>2. Area(g) = Rest \cup G /\ Rest \cap G = {}
  BY DEF Area
<1>3. IsFiniteSet(Rest)
  BY FS_Subset
<1>4. ASSUME NEW n \in Nat
      PROVE  IsFiniteSet({w} \X (1..n)) /\ Cardinality({w} \X (1..n)) = n
  <2>1. IsFiniteSet(1..n) /\ Cardinality(1..n) = n
    <3>1. 1 \in Int /\ n \in Int
      OBVIOUS
    <3>2. /\ IsFiniteSet(1..n)
          /\ Cardinality(1..n) = IF 1 > n THEN 0 ELSE n - 1 + 1
      BY <3>1, FS_Interval, Zenon
    <3> QED BY <3>2
  <2>2. IsFiniteSet({w}) /\ Cardinality({w}) = 1
    BY FS_Singleton
  <2>3. /\ IsFiniteSet({w} \X (1..n))
        /\ Cardinality({w} \X (1..n)) = Cardinality({w}) * Cardinality(1..n)
    BY <2>1, <2>2, FS_Product
  <2> QED BY <2>1, <2>2, <2>3
<1>5. f[w] \in Nat /\ g[w] \in Nat
  OBVIOUS
<1>6. IsFiniteSet(F) /\ Cardinality(F) = f[w] /\ IsFiniteSet(G) /\ Cardinality(G) = g[w]
  BY <1>4, <1>5
<1>7. Cardinality(Rest) \in Nat /\ Cardinality({}) = 0
  BY <1>3, FS_CardinalityType, FS_EmptySet
<1> HIDE DEF Rest, F, G
<1>8. Cardinality(Area(f)) = Cardinality(Rest) + f[w]
  <2>1. Cardinality(Rest \cup F) = Cardinality(Rest) + Cardinality(F) - Cardinality(Rest \cap F)
    BY <1>3, <1>6, FS_Union
  <2> QED BY <1>1, <1>5, <1>6, <1>7, <2>1
<1>9. IsFiniteSet(Area(g)) /\ Cardinality(Area(g)) = Cardinality(Rest) + g[w]
  <2>1. /\ IsFiniteSet(Rest \cup G)
        /\ Cardinality(Rest \cup G) = Cardinality(Rest) + Cardinality(G) - Cardinality(Rest \cap G)
    BY <1>3, <1>6, FS_Union
  <2>2. Cardinality(Rest \cap G) = 0
    BY <1>2, <1>7
  <2>3. Cardinality(Rest \cup G) = Cardinality(Rest) + g[w]
    BY <1>5, <1>6, <1>7, <2>1, <2>2
  <2> QED BY <1>2, <2>1, <2>3
<1> QED BY <1>5, <1>7, <1>8, <1>9

WeightsTyped ==
  \A B : Doubling(B) /\ IInv =>
    /\ B[0] \in Nat
    /\ \A j \in Jobs : RowWeight(B, j) \in Nat /\ Loops(B, j) \in [Workers -> Nat]

LEMMA WeightTypes == WeightsTyped
<1> SUFFICES ASSUME NEW B, Doubling(B), IInv, NEW j \in Jobs
             PROVE  /\ B[0] \in Nat
                    /\ RowWeight(B, j) \in Nat /\ Loops(B, j) \in [Workers -> Nat]
  <2>1. ASSUME NEW B, Doubling(B) PROVE B[0] \in Nat
    BY <2>1, OutboxAssumption DEF Doubling
  <2> QED BY <2>1 DEF WeightsTyped
<1>1. MaxAttempts \in Nat /\ MaxAttempts > 0 /\ attempts[j] \in 0..MaxAttempts
  BY OutboxAssumption DEF IInv, TypeOK
<1>2. RowWeight(B, j) \in Nat /\ B[0] \in Nat
  BY <1>1 DEF Doubling, RowWeight, IInv, LiveHasBudget, Live
<1>3. ASSUME NEW w \in Workers PROVE LoopWeight(B, w, j) \in Nat
  <2>1. j \in batch[w] => snap[w][j].attempts + 1 \in 0..MaxAttempts
    BY <1>1 DEF IInv, TypeOK, BatchesClaimed, Snapshot
  <2> QED BY <2>1 DEF LoopWeight, Doubling
<1> QED BY <1>2, <1>3 DEF Loops

LEMMA WeightTypesNext == WeightsTyped'
BY WeightTypes, PTL

\* It is enough that a step of one loop makes nothing of its own heavier.
LEMMA WeighedStep ==
  ASSUME NEW B, Doubling(B), IInv, IInv', Weighed(B), NEW w \in Workers,
         \A v \in Workers \ {w} : Untouched(v),
         \A j \in Jobs : sends'[j] + RowWeight(B, j)' + LoopWeight(B, w, j)'
                           <= sends[j] + RowWeight(B, j) + LoopWeight(B, w, j)
  PROVE  Weighed(B)'
<1> SUFFICES ASSUME NEW j \in Jobs
             PROVE  /\ IsFiniteSet(Area(Loops(B, j)'))
                    /\ sends'[j] + RowWeight(B, j)' + Cardinality(Area(Loops(B, j)')) <= B[0]
  BY DEF Weighed, Area
<1> DEFINE f == Loops(B, j)
           g == Loops(B, j)'
<1>1. f \in [Workers -> Nat] /\ RowWeight(B, j) \in Nat /\ sends[j] \in Nat /\ B[0] \in Nat
  BY WeightTypes DEF WeightsTyped, IInv, TypeOK
<1>2. g \in [Workers -> Nat] /\ RowWeight(B, j)' \in Nat /\ sends'[j] \in Nat
  <2>1. Loops(B, j)' \in [Workers -> Nat] /\ RowWeight(B, j)' \in Nat
    BY WeightTypesNext DEF WeightsTyped, Doubling
  <2> QED BY <2>1 DEF IInv, TypeOK
<1>3. \A v \in Workers \ {w} : g[v] = f[v]
  BY DEF Loops, LoopWeight, Untouched
<1>4. f[w] = LoopWeight(B, w, j) /\ g[w] = LoopWeight(B, w, j)'
  BY DEF Loops
<1>5. f[w] \in Nat /\ g[w] \in Nat
  BY <1>1, <1>2
<1>6. IsFiniteSet(Area(f)) /\ sends[j] + RowWeight(B, j) + Cardinality(Area(f)) <= B[0]
  BY DEF Weighed
<1> HIDE DEF f, g
<1>7. /\ IsFiniteSet(Area(g))
      /\ Cardinality(Area(f)) \in Nat /\ Cardinality(Area(g)) \in Nat
      /\ Cardinality(Area(g)) + f[w] = Cardinality(Area(f)) + g[w]
  BY <1>1, <1>2, <1>3, <1>6, AreaChange
<1>8. sends'[j] + RowWeight(B, j)' + g[w] <= sends[j] + RowWeight(B, j) + f[w]
  BY <1>4
<1>9. sends'[j] + RowWeight(B, j)' + Cardinality(Area(g)) <= B[0]
  BY <1>1, <1>2, <1>5, <1>6, <1>7, <1>8
<1> QED BY <1>7, <1>9 DEF g


LEMMA LoopShapeKept == IInv /\ LoopShape /\ [Next]_vars => LoopShape'
<1> SUFFICES ASSUME IInv, LoopShape, [Next]_vars PROVE LoopShape'
  OBVIOUS
<1>0. TypeOK
  BY DEF IInv
<1>1. ASSUME NEW w \in Workers, WorkerStep(w) PROVE LoopShape'
  <2>1. \A v \in Workers \ {w} : Untouched(v)
    BY <1>0, <1>1, OthersUntouched
  <2>2. /\ pc'[w] \in {"poll", "send", "down"} => current'[w] = None
        /\ pc'[w] \in {"poll", "down"} => batch'[w] = {}
    <3>1. ASSUME \/ \E S \in SUBSET Jobs : ClaimPendingNotificationJobs(w, S)
                 \/ \E j \in Jobs : Send(w, j)
                 \/ Shutdown(w) \/ Exit(w) \/ Crash(w) \/ Restart(w)
          PROVE  /\ pc'[w] \in {"poll", "send", "down"} => current'[w] = None
                 /\ pc'[w] \in {"poll", "down"} => batch'[w] = {}
      BY <1>0, <3>1 DEF LoopShape, TypeOK, ClaimPendingNotificationJobs, Send, Shutdown, Exit,
         Crash, Restart
    <3>2. CASE Advance(w)
      BY <1>0, <3>2 DEF Advance, TypeOK
    <3>3. CASE failJob(w) /\ ~Advance(w)
      BY <1>0, <3>3 DEF failJob, TypeOK
    <3> QED BY <1>1, <3>1, <3>2, <3>3 DEF WorkerStep, RecordSent, RecordRetry, AutoPause, FinishError
  <2> QED BY <2>1, <2>2 DEF LoopShape, Untouched
<1>2. CASE Environment \/ UNCHANGED vars
  BY <1>2 DEF Environment, Enqueue, Ripen, ToggleBlock, SetStatus, SetDestination, Delete, vars,
     workerVars, LoopShape
<1> QED BY <1>1, <1>2 DEF Next

\* A claim turns the weight of a row into that of the lease and of the copy.
LEMMA ClaimWeight ==
  ASSUME NEW B, Doubling(B), IInv, LoopShape, NEW w \in Workers, NEW S \in SUBSET Jobs,
         ClaimPendingNotificationJobs(w, S), NEW j \in Jobs
  PROVE  sends'[j] + RowWeight(B, j)' + LoopWeight(B, w, j)'
           <= sends[j] + RowWeight(B, j) + LoopWeight(B, w, j)
<1>1. /\ MaxAttempts \in Nat /\ attempts[j] \in 0..MaxAttempts /\ sends[j] \in Nat
      /\ status[j] \in Live => attempts[j] < MaxAttempts
  BY OutboxAssumption DEF IInv, TypeOK, LiveHasBudget
<1>2. /\ pc[w] = "poll" /\ batch[w] = {} /\ current'[w] = None /\ j # None
      /\ batch'[w] = Leased(S) /\ pc'[w] # "pause" /\ sends' = sends
      /\ \A i \in Leased(S) : snap'[w][i].attempts = ReturnedAttempts(S, i)
  BY OutboxAssumption DEF LoopShape, ClaimPendingNotificationJobs, IInv, TypeOK, Leased
<1>3. LoopWeight(B, w, j) = 0
  BY <1>2 DEF LoopWeight
<1>4. /\ status'[j] = IF j \in Exhausted(S) THEN "failed" ELSE IF j \in S THEN "processing" ELSE status[j]
      /\ attempts'[j] = ChargedAttempts(S, j)
  BY DEF ClaimPendingNotificationJobs
<1>5. CASE j \notin S
  <2>1. status'[j] = status[j] /\ attempts'[j] = attempts[j] /\ j \notin batch'[w]
    BY <1>2, <1>4, <1>5 DEF Exhausted, Expired, ChargedAttempts, Leased
  <2>2. RowWeight(B, j)' = RowWeight(B, j) /\ LoopWeight(B, w, j)' = 0
    BY <2>1 DEF RowWeight, LoopWeight
  <2> QED BY <1>1, <1>2, <1>3, <2>2, WeightTypes DEF WeightsTyped
<1>6. CASE j \in S /\ status[j] = "pending"
  <2>1. status'[j] = "processing" /\ attempts'[j] = attempts[j] /\ j \in Leased(S)
        /\ snap'[w][j].attempts = attempts[j]
    BY <1>2, <1>4, <1>6 DEF Exhausted, Expired, ChargedAttempts, Leased, ReturnedAttempts
  <2>2. /\ RowWeight(B, j) = B[attempts[j]] /\ RowWeight(B, j)' = B[attempts[j] + 1]
        /\ LoopWeight(B, w, j)' = 1 + B[attempts[j] + 1]
    BY <1>2, <1>6, <2>1 DEF RowWeight, LoopWeight
  <2>3. attempts[j] \in Nat /\ attempts[j] < MaxAttempts
    BY <1>1, <1>6 DEF Live
  <2>4. B[attempts[j]] = 1 + 2 * B[attempts[j] + 1] /\ B[attempts[j] + 1] \in Nat
    BY <2>3, Halves
  <2> QED BY <1>1, <1>2, <1>3, <2>2, <2>4
<1>7. CASE j \in S /\ status[j] = "processing" /\ attempts[j] + 1 >= MaxAttempts
  <2>1. status'[j] = "failed" /\ j \notin batch'[w]
    BY <1>2, <1>4, <1>7 DEF Exhausted, Expired, Leased
  <2>2. RowWeight(B, j)' = 0 /\ LoopWeight(B, w, j)' = 0
    BY <2>1 DEF RowWeight, LoopWeight
  <2>3. RowWeight(B, j) \in Nat
    BY WeightTypes DEF WeightsTyped
  <2> QED BY <1>1, <1>2, <1>3, <2>2, <2>3
<1>8. CASE j \in S /\ status[j] = "processing" /\ ~(attempts[j] + 1 >= MaxAttempts)
  <2>1. status'[j] = "processing" /\ attempts'[j] = attempts[j] + 1 /\ j \in Leased(S)
        /\ snap'[w][j].attempts = attempts[j] + 1
    BY <1>2, <1>4, <1>8 DEF Exhausted, Expired, ChargedAttempts, Leased, ReturnedAttempts
  <2>2. /\ RowWeight(B, j) = B[attempts[j] + 1] /\ RowWeight(B, j)' = B[attempts[j] + 1 + 1]
        /\ LoopWeight(B, w, j)' = 1 + B[attempts[j] + 1 + 1]
    BY <1>2, <1>8, <2>1 DEF RowWeight, LoopWeight
  <2>3. attempts[j] + 1 \in Nat /\ attempts[j] + 1 < MaxAttempts
    BY <1>1, <1>8
  <2>4. B[attempts[j] + 1] = 1 + 2 * B[attempts[j] + 1 + 1] /\ B[attempts[j] + 1 + 1] \in Nat
    BY <2>3, Halves
  <2> QED BY <1>1, <1>2, <1>3, <2>2, <2>4
<1> QED BY <1>5, <1>6, <1>7, <1>8 DEF ClaimPendingNotificationJobs, Claimable, Live

\* A send spends one unit of the copy.
LEMMA SendWeight ==
  ASSUME NEW B, Doubling(B), IInv, LoopShape, NEW w \in Workers, NEW k \in Jobs, Send(w, k),
         NEW j \in Jobs
  PROVE  sends'[j] + RowWeight(B, j)' + LoopWeight(B, w, j)'
           <= sends[j] + RowWeight(B, j) + LoopWeight(B, w, j)
<1>1. /\ UNCHANGED <<status, attempts, batch, snap>> /\ k \in batch[w]
      /\ pc[w] = "send" /\ pc'[w] = "finish" /\ current[w] = None /\ current'[w] = k
      /\ sends'[j] = IF j = k THEN sends[j] + 1 ELSE sends[j]
      /\ sends[j] \in Nat /\ j # None
  BY OutboxAssumption DEF Send, rowVars, LoopShape, IInv, TypeOK
<1>2. RowWeight(B, j)' = RowWeight(B, j) /\ RowWeight(B, j) \in Nat
  BY <1>1, WeightTypes DEF RowWeight, WeightsTyped
<1>3. LoopWeight(B, w, j) \in Nat
  BY WeightTypes DEF WeightsTyped, Loops
<1>4. CASE j = k
  <2>1. /\ LoopWeight(B, w, j) = 1 + B[snap[w][j].attempts + 1]
        /\ LoopWeight(B, w, j)' = B[snap[w][j].attempts + 1]
    BY <1>1, <1>4 DEF LoopWeight
  <2>2. B[snap[w][j].attempts + 1] \in Nat
    BY <1>1, <1>4, OutboxAssumption DEF Doubling, IInv, TypeOK, BatchesClaimed, Snapshot
  <2> QED BY <1>1, <1>2, <1>4, <2>1, <2>2
<1>5. CASE j # k
  <2>1. LoopWeight(B, w, j)' = LoopWeight(B, w, j)
    BY <1>1, <1>5 DEF LoopWeight
  <2> QED BY <1>1, <1>2, <1>3, <1>5, <2>1
<1> QED BY <1>4, <1>5

\* After Advance the copy in hand is gone and the others weigh what they did.
LEMMA AdvanceWeight ==
  ASSUME NEW B, Doubling(B), IInv, NEW w \in Workers, Advance(w), pc[w] \in {"finish", "pause"},
         NEW j \in Jobs
  PROVE  /\ LoopWeight(B, w, j)' \in Nat /\ LoopWeight(B, w, j)' <= LoopWeight(B, w, j)
         /\ j = current[w] => LoopWeight(B, w, j)' = 0
<1>1. /\ batch'[w] \subseteq batch[w] \ {current[w]}
      /\ current'[w] = None /\ pc'[w] # "pause" /\ j # None
      /\ j \in batch'[w] => snap'[w][j] = snap[w][j]
  BY OutboxAssumption DEF Advance, IInv, TypeOK
<1>2. LoopWeight(B, w, j) \in Nat
  BY WeightTypes DEF WeightsTyped, Loops
<1>3. CASE j \notin batch'[w]
  BY <1>2, <1>3 DEF LoopWeight
<1>4. CASE j \in batch'[w]
  <2>1. LoopWeight(B, w, j)' = LoopWeight(B, w, j)
    BY <1>1, <1>4 DEF LoopWeight
  <2> QED BY <1>1, <1>2, <1>4, <2>1
<1> QED BY <1>3, <1>4


\* A result moves the weight of the copy to the row, or drops it.
LEMMA FinishWeight ==
  ASSUME NEW B, Doubling(B), IInv, IInv', NEW w \in Workers,
         RecordSent(w) \/ RecordRetry(w) \/ failJob(w), NEW j \in Jobs
  PROVE  sends'[j] + RowWeight(B, j)' + LoopWeight(B, w, j)'
           <= sends[j] + RowWeight(B, j) + LoopWeight(B, w, j)
<1> DEFINE k == current[w]
<1>1. /\ pc[w] = "finish" /\ k \in batch[w] /\ k \in Jobs /\ sends' = sends /\ sends[j] \in Nat
      /\ status \in [Jobs -> Statuses] /\ attempts \in [Jobs -> 0..MaxAttempts]
  BY JobInHand DEF RecordSent, RecordRetry, failJob, historyVars, IInv, TypeOK
<1>2. /\ RowWeight(B, j) \in Nat /\ LoopWeight(B, w, j) \in Nat
      /\ RowWeight(B, j)' \in Nat
  BY WeightTypes, WeightTypesNext DEF WeightsTyped, Loops, Doubling
<1>3. CASE j # k
  <2>1. status'[j] = status[j] /\ attempts'[j] = attempts[j]
    BY <1>1, <1>3 DEF RecordSent, RecordRetry, failJob
  <2>2. RowWeight(B, j)' = RowWeight(B, j)
    BY <2>1 DEF RowWeight
  <2>3. LoopWeight(B, w, j)' \in Nat /\ LoopWeight(B, w, j)' <= LoopWeight(B, w, j)
    <3>1. CASE Advance(w)
      BY <1>1, <3>1, AdvanceWeight
    <3>2. CASE failJob(w) /\ ~Advance(w)
      <4>1. UNCHANGED <<batch, snap, current>>
        BY <3>2 DEF failJob
      <4>2. LoopWeight(B, w, j)' = LoopWeight(B, w, j)
        BY <1>3, <4>1 DEF LoopWeight
      <4> QED BY <1>2, <4>2
    <3> QED BY <3>1, <3>2 DEF RecordSent, RecordRetry
  <2> QED BY <1>1, <1>2, <2>2, <2>3
<1>4. CASE j = k
  <2>1. LoopWeight(B, w, j)' = 0
    <3>1. CASE Advance(w)
      BY <1>1, <1>4, <3>1, AdvanceWeight
    <3>2. CASE failJob(w) /\ ~Advance(w)
      <4>1. pc'[w] = "pause" /\ current'[w] = k
        BY <3>2 DEF failJob, IInv, TypeOK
      <4> QED BY <1>4, <4>1 DEF LoopWeight
    <3> QED BY <3>1, <3>2 DEF RecordSent, RecordRetry
  <2>2. RowWeight(B, j)' \in {RowWeight(B, j), LoopWeight(B, w, j), 0}
    <3>1. CASE ~Fenced(w)
      <4>1. status'[j] = status[j] /\ attempts'[j] = attempts[j]
        BY <1>1, <1>4, <3>1 DEF RecordSent, RecordRetry, failJob
      <4> QED BY <4>1 DEF RowWeight
    <3>2. CASE Fenced(w) /\ (RecordSent(w) \/ failJob(w))
      <4>1. status'[j] \in {"sent", "failed"}
        BY <1>1, <1>4, <3>2 DEF RecordSent, failJob
      <4> QED BY <4>1 DEF RowWeight
    <3>3. CASE Fenced(w) /\ RecordRetry(w)
      <4>1. status'[j] = "pending" /\ attempts'[j] = snap[w][j].attempts + 1
        BY <1>1, <1>4, <3>3 DEF RecordRetry, NextAttempts
      <4>2. LoopWeight(B, w, j) = B[snap[w][j].attempts + 1]
        BY <1>1, <1>4 DEF LoopWeight
      <4> QED BY <4>1, <4>2 DEF RowWeight
    <3> QED BY <3>1, <3>2, <3>3
  <2> QED BY <1>1, <1>2, <2>1, <2>2
<1> QED BY <1>3, <1>4

\* The other steps of a loop only drop copies.
LEMMA OtherWeight ==
  ASSUME NEW B, Doubling(B), IInv, NEW w \in Workers,
         AutoPause(w) \/ FinishError(w) \/ Shutdown(w) \/ Exit(w) \/ Crash(w) \/ Restart(w),
         NEW j \in Jobs
  PROVE  sends'[j] + RowWeight(B, j)' + LoopWeight(B, w, j)'
           <= sends[j] + RowWeight(B, j) + LoopWeight(B, w, j)
<1>1. UNCHANGED <<status, attempts, sends>> /\ sends[j] \in Nat
  BY DEF AutoPause, FinishError, Shutdown, Exit, Crash, Restart, Lose, rowVars, historyVars, IInv, TypeOK
<1>2. RowWeight(B, j)' = RowWeight(B, j)
  BY <1>1 DEF RowWeight
<1>3. RowWeight(B, j) \in Nat /\ LoopWeight(B, w, j) \in Nat
  BY WeightTypes DEF WeightsTyped, Loops
<1>4. LoopWeight(B, w, j)' \in Nat /\ LoopWeight(B, w, j)' <= LoopWeight(B, w, j)
  <2>1. CASE AutoPause(w) \/ FinishError(w)
    BY <2>1, AdvanceWeight DEF AutoPause, FinishError
  <2>2. CASE Crash(w)
    <3>1. batch'[w] = {}
      BY <2>2 DEF Crash, IInv, TypeOK
    <3> QED BY <1>3, <3>1 DEF LoopWeight
  <2>3. CASE Shutdown(w) \/ Exit(w) \/ Restart(w)
    <3>1. UNCHANGED <<batch, snap, current>> /\ (pc'[w] = "pause" <=> pc[w] = "pause")
      BY <2>3 DEF Shutdown, Exit, Restart, IInv, TypeOK
    <3>2. LoopWeight(B, w, j)' = LoopWeight(B, w, j)
      BY <3>1 DEF LoopWeight
    <3> QED BY <1>3, <3>2
  <2> QED BY <2>1, <2>2, <2>3
<1> QED BY <1>1, <1>2, <1>3, <1>4

\* Messages received are sends made.
ReceiptsAreSends == \A j \in Jobs : received[j] <= sends[j]

\* The inductive invariant of the bound.
SendInv(B) == LoopShape /\ Weighed(B) /\ ReceiptsAreSends

LEMMA InitSendInv ==
  ASSUME NEW B, Doubling(B)
  PROVE  Init => SendInv(B)
<1> SUFFICES ASSUME Init PROVE SendInv(B)
  OBVIOUS
<1> USE DEF SendInv
<1>1. LoopShape
  BY DEF Init, LoopShape
<1>2. ASSUME NEW j \in Jobs
      PROVE  /\ IsFiniteSet(Area(Loops(B, j)))
             /\ sends[j] + RowWeight(B, j) + Cardinality(Area(Loops(B, j))) <= B[0]
  <2>1. sends[j] = 0 /\ RowWeight(B, j) = B[0] /\ B[0] \in Nat
    BY OutboxAssumption DEF Init, RowWeight, Doubling
  <2>2. \A w \in Workers : Loops(B, j)[w] = 0
    BY DEF Init, Loops, LoopWeight
  <2>3. Area(Loops(B, j)) = {}
    BY <2>2 DEF Area
  <2> QED BY <2>1, <2>3, FS_EmptySet
<1>3. ReceiptsAreSends
  BY DEF Init, ReceiptsAreSends
<1> QED BY <1>1, <1>2, <1>3 DEF Weighed

LEMMA NextSendInv ==
  ASSUME NEW B, Doubling(B)
  PROVE  IInv /\ IInv' /\ SendInv(B) /\ [Next]_vars => SendInv(B)'
<1> SUFFICES ASSUME IInv, IInv', SendInv(B), [Next]_vars PROVE SendInv(B)'
  OBVIOUS
<1> USE DEF SendInv
<1>1. LoopShape'
  BY LoopShapeKept
<1>2. ASSUME NEW w \in Workers, WorkerStep(w) PROVE Weighed(B)'
  <2>1. \A v \in Workers \ {w} : Untouched(v)
    BY <1>2, OthersUntouched DEF IInv
  <2>2. ASSUME NEW j \in Jobs
        PROVE  sends'[j] + RowWeight(B, j)' + LoopWeight(B, w, j)'
                 <= sends[j] + RowWeight(B, j) + LoopWeight(B, w, j)
    BY <1>2, ClaimWeight, SendWeight, FinishWeight, OtherWeight DEF WorkerStep
  <2> QED BY <2>1, <2>2, WeighedStep
<1>3. ASSUME Environment \/ UNCHANGED vars PROVE Weighed(B)'
  <2>1. UNCHANGED <<attempts, pc, batch, snap, current, sends>>
    BY <1>3 DEF Environment, Enqueue, Ripen, ToggleBlock, SetStatus, SetDestination, Delete, vars,
       rowVars, workerVars, historyVars
  <2>2. ASSUME NEW j \in Jobs PROVE RowWeight(B, j)' = RowWeight(B, j)
    <3>1. CASE status'[j] = status[j]
      BY <2>1, <3>1 DEF RowWeight
    <3>2. CASE status'[j] # status[j]
      <4>1. status[j] = "absent" /\ status'[j] = "pending" /\ attempts[j] = 0
        BY <1>3, <3>2 DEF Environment, Enqueue, Ripen, ToggleBlock, SetStatus, SetDestination,
           Delete, vars, rowVars, IInv, TypeOK, RowsWellFormed
      <4> QED BY <2>1, <4>1 DEF RowWeight
    <3> QED BY <3>1, <3>2
  <2>3. \A j \in Jobs : Loops(B, j)' = Loops(B, j)
    BY <2>1 DEF Loops, LoopWeight
  <2> SUFFICES ASSUME NEW j \in Jobs
               PROVE  /\ IsFiniteSet(Area(Loops(B, j)'))
                      /\ sends'[j] + RowWeight(B, j)' + Cardinality(Area(Loops(B, j)')) <= B[0]
    BY DEF Weighed, Area
  <2> QED BY <2>1, <2>2, <2>3 DEF Weighed
<1>4. ReceiptsAreSends'
  <2>1. \A j \in Jobs : received[j] \in Nat /\ sends[j] \in Nat /\ received[j] <= sends[j]
    BY DEF IInv, TypeOK, ReceiptsAreSends
  <2>2. ASSUME NEW w \in Workers, NEW k \in Jobs, Send(w, k) PROVE ReceiptsAreSends'
    <3>1. PICK o \in Outcomes(w, chat[k]) : received' = [received EXCEPT ![k] = @ + o.messages]
      BY <2>2 DEF Send
    <3>2. o.messages \in {0, 1} /\ sends' = [sends EXCEPT ![k] = @ + 1]
      BY <2>2, OutcomeResult DEF Send
    <3>3. received \in [Jobs -> Nat] /\ sends \in [Jobs -> Nat]
      BY DEF IInv, TypeOK
    <3> QED BY <2>1, <3>1, <3>2, <3>3 DEF ReceiptsAreSends
  <2>3. CASE UNCHANGED <<received, sends>>
    BY <2>3 DEF ReceiptsAreSends
  <2>4. UNCHANGED <<received, sends>> \/ \E w \in Workers, k \in Jobs : Send(w, k)
    BY DEF Next, WorkerStep, ClaimPendingNotificationJobs, RecordSent, RecordRetry, failJob,
       AutoPause, FinishError, Shutdown, Exit, Crash, Restart, Lose, Environment, Enqueue, Ripen,
       ToggleBlock, SetStatus, SetDestination, Delete, vars, historyVars
  <2> QED BY <2>2, <2>3, <2>4
<1> QED BY <1>1, <1>2, <1>3, <1>4 DEF Next

LEMMA SendInvBounds ==
  ASSUME NEW B, Doubling(B)
  PROVE  IInv /\ SendInv(B) => \A j \in Jobs : received[j] <= sends[j] /\ sends[j] <= B[0]
<1> SUFFICES ASSUME IInv, SendInv(B), NEW j \in Jobs
             PROVE  received[j] <= sends[j] /\ sends[j] <= B[0]
  OBVIOUS
<1> USE DEF SendInv
<1>1. sends[j] \in Nat /\ RowWeight(B, j) \in Nat /\ B[0] \in Nat
  BY WeightTypes DEF WeightsTyped, IInv, TypeOK
<1>2. Cardinality(Area(Loops(B, j))) \in Nat
  BY FS_CardinalityType DEF Weighed
<1>3. sends[j] + RowWeight(B, j) + Cardinality(Area(Loops(B, j))) <= B[0]
  BY DEF Weighed
<1> QED BY <1>1, <1>2, <1>3 DEF ReceiptsAreSends

\* However many processes overlap and however early leases run out, the calls of
\* send() for a job, and the messages its chat gets, stay within a bound given by
\* max_attempts alone: late results take attempts back (see StaleResultIsNoOp),
\* but not for ever.  B[0] is 2^MaxAttempts - 1, which enough processes can reach
\* (two when max_attempts is two, three when it is three).
THEOREM SendsBoundedAnyway ==
  ASSUME NEW B, Doubling(B)
  PROVE  Spec => [](\A j \in Jobs : received[j] <= sends[j] /\ sends[j] <= B[0])
<1>1. Init => SendInv(B)
  BY InitSendInv
<1>2. IInv /\ IInv' /\ SendInv(B) /\ [Next]_vars => SendInv(B)'
  BY NextSendInv
<1>3. IInv /\ SendInv(B) => \A j \in Jobs : received[j] <= sends[j] /\ sends[j] <= B[0]
  BY SendInvBounds
<1> QED BY <1>1, <1>2, <1>3, Inductive, PTL DEF Spec

\* With the default of five attempts (config.go, NOTIFICATION_MAX_ATTEMPTS) a job
\* is never sent, and its chat never told, more than 31 times.
COROLLARY SendsBoundedByDefault ==
  ASSUME MaxAttempts = 5
  PROVE  Spec => [](\A j \in Jobs : received[j] <= sends[j] /\ sends[j] <= 31)
<1> DEFINE B == [a \in 0..MaxAttempts |-> IF a = 0 THEN 31 ELSE IF a = 1 THEN 15
                   ELSE IF a = 2 THEN 7 ELSE IF a = 3 THEN 3 ELSE IF a = 4 THEN 1 ELSE 0]
<1>0. Doubling(B) /\ B[0] = 31
  BY DEF Doubling
<1> HIDE DEF B
<1>1. Init => SendInv(B)
  BY <1>0, InitSendInv
<1>2. IInv /\ IInv' /\ SendInv(B) /\ [Next]_vars => SendInv(B)'
  BY <1>0, NextSendInv
<1>3. IInv /\ SendInv(B) => \A j \in Jobs : received[j] <= sends[j] /\ sends[j] <= 31
  BY <1>0, SendInvBounds
<1> QED BY <1>1, <1>2, <1>3, Inductive, PTL DEF Spec
=============================================================================
