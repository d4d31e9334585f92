-------------------------- MODULE OutboxLeaseProofs --------------------------
(***************************************************************************)
(* Theorems about the outbox while leases outlast the work: any number of  *)
(* processes may overlap, nobody claims what another still holds, so what  *)
(* a loop read at the claim is what the row says.  A single process is the *)
(* case where this needs no assumption.                                    *)
(***************************************************************************)
EXTENDS OutboxProofs

\* The attempts charged to a row account for every send() made for it, up to
\* the one whose result is not recorded yet or never will be.
Accounted ==
  \A j \in Jobs :
    /\ status[j] \in {"absent", "pending", "failed"} => sends[j] <= attempts[j]
    /\ status[j] \in {"processing", "sent"} => sends[j] <= attempts[j] + 1
    /\ status[j] = "sent" => attempts[j] < MaxAttempts

\* No job is in the batches of two loops.
Apart == \A v, w \in Workers : v # w => batch[v] \cap batch[w] = {}

\* What the loop read of a row at the claim still holds, and the latest claim of
\* it was its own; the job it is failing is the only one it may have finalized
\* already.
HeldExactly ==
  \A w \in Workers : \A j \in batch[w] :
    \/ /\ status[j] = "processing" /\ holder[j] = w
       /\ snap[w][j].attempts = attempts[j]
       /\ j # current[w] => sends[j] <= attempts[j]
    \/ pc[w] = "pause" /\ j = current[w]

\* A job is known to be received: by its row, or by the loop that has not
\* recorded it yet.
Known(j) ==
  \/ status[j] = "sent"
  \/ \E w \in Workers : pc[w] = "finish" /\ verdict[w] = "ok" /\ current[w] = j

\* Of the messages of a job at most the one that is known was not lost.
AtMostOneKnown ==
  \A j \in Jobs : /\ received[j] <= lost[j] + 1
                  /\ ~Known(j) => received[j] <= lost[j]

SInv ==
  Accounted /\ LoopShape /\ Apart /\ HeldExactly /\ ReceiptsAreSends /\ AtMostOneKnown

LEMMA InitSInv == Init => SInv
BY OutboxAssumption DEF Init, SInv, Accounted, LoopShape, Apart, HeldExactly, ReceiptsAreSends,
   AtMostOneKnown, Known

\* A loop nobody touched, whose rows nobody touched, keeps what it knows.
LEMMA OtherKeepsHeld ==
  ASSUME HeldExactly, NEW v \in Workers, Untouched(v),
         \A j \in batch[v] : /\ status'[j] = status[j] /\ attempts'[j] = attempts[j]
                            /\ sends'[j] = sends[j] /\ holder'[j] = holder[j]
  PROVE  \A j \in batch'[v] :
           \/ /\ status'[j] = "processing" /\ holder'[j] = v
              /\ snap'[v][j].attempts = attempts'[j]
              /\ j # current'[v] => sends'[j] <= attempts'[j]
           \/ pc'[v] = "pause" /\ j = current'[v]
BY DEF HeldExactly, Untouched

\* After Advance the loop holds nothing it has in hand.
LEMMA AdvanceKeepsHeld ==
  ASSUME IInv, SInv, NEW w \in Workers, Advance(w),
         pc[w] \in {"finish", "pause"},
         \A j \in Jobs \ {current[w]} : status'[j] = status[j] /\ attempts'[j] = attempts[j],
         UNCHANGED <<sends, holder>>
  PROVE  LoopShape' /\ Apart' /\ HeldExactly'
<1>1. TypeOK
  BY DEF IInv
<1>2. \A v \in Workers \ {w} : Untouched(v)
  BY <1>1, AdvanceEffect DEF Untouched
<1>3. /\ current'[w] = None /\ pc'[w] \in {"poll", "send", "down"}
      /\ pc'[w] \in {"poll", "down"} => batch'[w] = {}
      /\ batch'[w] \subseteq batch[w] \ {current[w]}
  BY <1>1 DEF Advance, TypeOK
<1>4. \A j \in batch'[w] : snap'[w][j] = snap[w][j] /\ j \in Jobs /\ j # current[w]
  BY <1>1, <1>3, AdvanceEffect DEF TypeOK
<1>5. LoopShape'
  BY <1>2, <1>3 DEF SInv, LoopShape, Untouched
<1>6. Apart'
  BY <1>2, <1>3 DEF SInv, Apart, Untouched
<1>7. ASSUME NEW v \in Workers \ {w}, NEW j \in batch[v]
      PROVE  j \in Jobs \ {current[w]}
  BY <1>1, JobInHand DEF SInv, Apart, TypeOK
<1>8. HeldExactly'
  <2>1. ASSUME NEW j \in batch'[w]
        PROVE  /\ status'[j] = "processing" /\ holder'[j] = w
               /\ snap'[w][j].attempts = attempts'[j] /\ sends'[j] <= attempts'[j]
    <3>1. j \in batch[w] /\ j # current[w] /\ j \in Jobs /\ snap'[w][j] = snap[w][j]
      BY <1>3, <1>4
    <3> QED BY <3>1 DEF SInv, HeldExactly
  <2>2. ASSUME NEW v \in Workers \ {w}
        PROVE  \A j \in batch'[v] :
                 \/ /\ status'[j] = "processing" /\ holder'[j] = v
                    /\ snap'[v][j].attempts = attempts'[j]
                    /\ j # current'[v] => sends'[j] <= attempts'[j]
                 \/ pc'[v] = "pause" /\ j = current'[v]
    BY <1>2, <1>7, OtherKeepsHeld DEF SInv
  <2> QED BY <2>1, <2>2 DEF HeldExactly
<1> QED BY <1>5, <1>6, <1>8

\* A step that lets go of the job in hand counts its success as lost, or had
\* none; the rows stay as they are.
LEMMA LoseKeepsKnown ==
  ASSUME TypeOK, AtMostOneKnown, NEW w \in Workers,
         \A v \in Workers \ {w} : Untouched(v),
         UNCHANGED <<status, received>>,
         Lose(w) \/ (pc[w] # "finish" /\ UNCHANGED lost)
  PROVE  AtMostOneKnown'
<1>1. ASSUME NEW j \in Jobs
      PROVE  /\ received'[j] <= lost'[j] + 1
             /\ ~Known(j)' => received'[j] <= lost'[j]
  <2>1. received[j] \in Nat /\ lost[j] \in Nat
    BY DEF TypeOK
  <2>2. CASE pc[w] = "finish" /\ verdict[w] = "ok" /\ j = current[w]
    BY <2>1, <2>2 DEF AtMostOneKnown, Lose
  <2>3. CASE ~(pc[w] = "finish" /\ verdict[w] = "ok" /\ j = current[w])
    <3>1. lost'[j] = lost[j]
      BY <2>3 DEF Lose
    <3>2. ~Known(j)' => ~Known(j)
      BY <2>3 DEF Known, Untouched
    <3> QED BY <3>1, <3>2 DEF AtMostOneKnown
  <2> QED BY <2>2, <2>3
<1> QED BY <1>1 DEF AtMostOneKnown

\* A claim: only rows no other loop holds change.
LEMMA ClaimSInv ==
  ASSUME KeepsLeases, IInv, SInv, NEW w \in Workers, NEW S \in SUBSET Jobs,
         ClaimPendingNotificationJobs(w, S), \A v \in Workers \ {w} : Untouched(v)
  PROVE  SInv'
<1>1. TypeOK /\ MaxAttempts \in Nat /\ LiveHasBudget
  BY OutboxAssumption DEF IInv
<1>2. batch[w] = {} /\ current[w] = None /\ UNCHANGED <<current, sends, received>>
  BY DEF SInv, LoopShape, ClaimPendingNotificationJobs
<1>3. /\ batch'[w] = Leased(S) /\ Leased(S) \subseteq S
      /\ \A v \in Workers \ {w} : S \cap batch[v] = {}
  BY <1>1 DEF KeepsLeases, ClaimPendingNotificationJobs, TypeOK, Leased
<1>4. \A j \in Jobs : attempts[j] \in Nat /\ sends[j] \in Nat /\ attempts'[j] = ChargedAttempts(S, j)
  BY <1>1 DEF ClaimPendingNotificationJobs, TypeOK
<1>5. Accounted'
  <2>1. ASSUME NEW j \in Jobs
        PROVE  /\ status'[j] \in {"absent", "pending", "failed"} => sends[j] <= attempts'[j]
               /\ status'[j] \in {"processing", "sent"} => sends[j] <= attempts'[j] + 1
               /\ status'[j] = "sent" => attempts'[j] < MaxAttempts
    BY <1>1, <1>4 DEF SInv, Accounted, ClaimPendingNotificationJobs, ChargedAttempts,
       Expired, Exhausted, Claimable, Live, TypeOK
  <2> QED BY <1>2, <2>1 DEF Accounted
<1>6. LoopShape'
  BY <1>1, <1>2 DEF SInv, LoopShape, ClaimPendingNotificationJobs, TypeOK
<1>7. Apart'
  BY <1>3 DEF SInv, Apart, Untouched
<1>8. HeldExactly'
  <2>1. ASSUME NEW j \in batch'[w]
        PROVE  /\ status'[j] = "processing" /\ snap'[w][j].attempts = attempts'[j]
               /\ sends[j] <= attempts'[j]
    BY <1>1, <1>4, <2>1 DEF SInv, Accounted, ClaimPendingNotificationJobs, ChargedAttempts,
       ReturnedAttempts, Leased, Expired, Exhausted, Claimable, Live, TypeOK
  <2>2. ASSUME NEW j \in batch'[w] PROVE holder'[j] = w
    BY <1>1, <1>3, <2>2 DEF ClaimPendingNotificationJobs, TypeOK
  <2>3. ASSUME NEW v \in Workers \ {w}
        PROVE  \A j \in batch'[v] :
                 \/ /\ status'[j] = "processing" /\ holder'[j] = v
                    /\ snap'[v][j].attempts = attempts'[j]
                    /\ j # current'[v] => sends'[j] <= attempts'[j]
                 \/ pc'[v] = "pause" /\ j = current'[v]
    <3>1. ASSUME NEW j \in batch[v]
          PROVE  /\ status'[j] = status[j] /\ attempts'[j] = attempts[j]
                 /\ sends'[j] = sends[j] /\ holder'[j] = holder[j]
      <4>1. j \in Jobs /\ j \notin S /\ j \notin Exhausted(S) /\ j \notin Expired(S) /\ j \notin Leased(S)
        BY <1>1, <1>3 DEF TypeOK, Exhausted, Expired, Leased
      <4> QED BY <1>2, <4>1 DEF ClaimPendingNotificationJobs, ChargedAttempts
    <3> QED BY <3>1, OtherKeepsHeld DEF SInv
  <2> QED BY <1>2, <2>1, <2>2, <2>3 DEF HeldExactly
<1>9. AtMostOneKnown'
  <2>1. UNCHANGED <<received, lost>> /\ \A j \in Jobs : status[j] = "sent" => status'[j] = "sent"
    BY DEF ClaimPendingNotificationJobs, Claimable, Exhausted, Expired, Live
  <2>2. \A j \in Jobs : Known(j) => Known(j)'
    <3>1. pc[w] = "poll"
      BY DEF ClaimPendingNotificationJobs
    <3> QED BY <2>1, <3>1 DEF Known, Untouched
  <2> QED BY <2>1, <2>2 DEF SInv, AtMostOneKnown
<1> QED BY <1>2, <1>5, <1>6, <1>7, <1>8, <1>9 DEF SInv, ReceiptsAreSends

\* A send: the job is in nobody else's batch, and its success was not known.
LEMMA SendSInv ==
  ASSUME IInv, SInv, NEW w \in Workers, NEW j \in Jobs, Send(w, j),
         \A v \in Workers \ {w} : Untouched(v)
  PROVE  SInv'
<1>0. TypeOK /\ InHand
  BY DEF IInv
<1>1. /\ UNCHANGED <<status, attempts, batch, snap, holder>>
      /\ sends' = [sends EXCEPT ![j] = @ + 1]
      /\ current' = [current EXCEPT ![w] = j] /\ pc' = [pc EXCEPT ![w] = "finish"]
      /\ pc[w] = "send" /\ j \in batch[w]
  BY DEF Send, rowVars
<1>2. status[j] = "processing" /\ sends[j] <= attempts[j]
  BY <1>0, <1>1, OutboxAssumption DEF SInv, HeldExactly, LoopShape, TypeOK
<1>3. \A k \in Jobs : received'[k] = received[k] \/ (k = j /\ received'[k] = received[k] + 1)
  BY <1>0, OutcomeResult DEF Send, TypeOK
<1>4. Accounted'
  BY <1>0, <1>1, <1>2 DEF SInv, Accounted, TypeOK
<1>5. LoopShape' /\ Apart'
  BY <1>0, <1>1 DEF SInv, LoopShape, Apart, TypeOK
<1>6. HeldExactly'
  <2>1. ASSUME NEW k \in batch[w], k # j
        PROVE  /\ status'[k] = "processing" /\ holder'[k] = w
               /\ snap'[w][k].attempts = attempts'[k] /\ sends'[k] <= attempts'[k]
    BY <1>0, <1>1, <2>1, OutboxAssumption DEF SInv, HeldExactly, LoopShape, TypeOK
  <2>2. /\ status'[j] = "processing" /\ holder'[j] = w /\ snap'[w][j].attempts = attempts'[j]
        /\ current'[w] = j
    BY <1>0, <1>1, <1>2 DEF SInv, HeldExactly, TypeOK
  <2>3. ASSUME NEW v \in Workers \ {w}
        PROVE  \A k \in batch'[v] :
                 \/ /\ status'[k] = "processing" /\ holder'[k] = v
                    /\ snap'[v][k].attempts = attempts'[k]
                    /\ k # current'[v] => sends'[k] <= attempts'[k]
                 \/ pc'[v] = "pause" /\ k = current'[v]
    <3>1. \A k \in batch[v] : k \in Jobs /\ k # j
      BY <1>0, <1>1 DEF SInv, Apart, TypeOK
    <3>2. \A k \in batch[v] : sends'[k] = sends[k]
      BY <1>0, <1>1, <3>1 DEF TypeOK
    <3> QED BY <1>1, <3>2, OtherKeepsHeld DEF SInv
  <2> QED BY <1>1, <2>1, <2>2, <2>3 DEF HeldExactly
<1>7. ReceiptsAreSends'
  <2>1. \A k \in Jobs : sends'[k] = IF k = j THEN sends[k] + 1 ELSE sends[k]
    BY <1>0, <1>1 DEF TypeOK
  <2>2. \A k \in Jobs : received[k] \in Nat /\ sends[k] \in Nat /\ received[k] <= sends[k]
    BY <1>0 DEF SInv, ReceiptsAreSends, TypeOK
  <2> QED BY <1>3, <2>1, <2>2 DEF ReceiptsAreSends
<1>8. AtMostOneKnown'
  <2>1. ~Known(j)
    BY <1>0, <1>1, <1>2 DEF Known, InHand, SInv, Apart
  <2>2. PICK o \in Outcomes(w, chat[j]) :
          /\ verdict' = [verdict EXCEPT ![w] = o.verdict]
          /\ received' = [received EXCEPT ![j] = @ + o.messages]
          /\ lost' = [lost EXCEPT ![j] = IF o.messages > 0 /\ o.verdict # "ok" THEN @ + 1 ELSE @]
    BY DEF Send
  <2>3. o.messages \in {0, 1}
    BY OutcomeResult
  <2>4. /\ received'[j] <= lost'[j] + 1
        /\ verdict'[w] # "ok" => received'[j] <= lost'[j]
    BY <1>0, <2>1, <2>2, <2>3 DEF SInv, AtMostOneKnown, TypeOK
  <2>5. ~Known(j)' => verdict'[w] # "ok"
    BY <1>0, <1>1 DEF Known, TypeOK
  <2>6. ASSUME NEW k \in Jobs, k # j
        PROVE  received'[k] = received[k] /\ lost'[k] = lost[k] /\ (Known(k) => Known(k)')
    BY <1>0, <1>1, <2>2, <2>6 DEF Known, TypeOK
  <2> QED BY <2>4, <2>5, <2>6 DEF SInv, AtMostOneKnown
<1> QED BY <1>4, <1>5, <1>6, <1>7, <1>8 DEF SInv

\* A result is recorded on the row its own claim leased: the fence holds and
\* the attempts read at the claim are those of the row.
LEMMA FinishOnLease ==
  ASSUME IInv, SInv, NEW w \in Workers, RecordSent(w) \/ RecordRetry(w) \/ failJob(w)
  PROVE  /\ pc[w] = "finish" /\ current[w] \in batch[w] /\ current[w] \in Jobs
         /\ status[current[w]] = "processing" /\ holder[current[w]] = w /\ Fenced(w)
         /\ snap[w][current[w]].attempts = attempts[current[w]]
         /\ attempts[current[w]] \in Nat /\ attempts[current[w]] < MaxAttempts
         /\ sends[current[w]] <= attempts[current[w]] + 1
         /\ UNCHANGED <<sends, received, lost, rejected, holder>>
<1>1. pc[w] = "finish" /\ UNCHANGED <<sends, received, lost, rejected, holder>>
  BY DEF RecordSent, RecordRetry, failJob, historyVars
<1>2. current[w] \in batch[w] /\ current[w] \in Jobs
  BY <1>1, JobInHand
<1>3. status[current[w]] = "processing" /\ holder[current[w]] = w
      /\ snap[w][current[w]].attempts = attempts[current[w]]
  BY <1>1, <1>2 DEF SInv, HeldExactly
<1> QED BY <1>1, <1>2, <1>3 DEF IInv, TypeOK, LiveHasBudget, Live, SInv, Accounted, Fenced

LEMMA FinishSInv ==
  ASSUME IInv, SInv, NEW w \in Workers, RecordSent(w) \/ RecordRetry(w) \/ failJob(w),
         \A v \in Workers \ {w} : Untouched(v)
  PROVE  SInv'
<1> DEFINE j == current[w]
<1>0. TypeOK /\ InHand
  BY DEF IInv
<1>1. /\ pc[w] = "finish" /\ j \in batch[w] /\ j \in Jobs /\ status[j] = "processing"
      /\ snap[w][j].attempts = attempts[j] /\ sends[j] <= attempts[j] + 1
      /\ attempts[j] < MaxAttempts /\ attempts[j] \in Nat /\ MaxAttempts \in Nat /\ Fenced(w)
      /\ UNCHANGED <<sends, received, lost, holder>>
  BY FinishOnLease, OutboxAssumption
<1>2. /\ \A k \in Jobs \ {j} : status'[k] = status[k] /\ attempts'[k] = attempts[k]
      /\ \/ status'[j] = "sent" /\ attempts'[j] = attempts[j]
         \/ status'[j] \in {"pending", "failed"} /\ attempts'[j] = attempts[j] + 1
  BY <1>0, <1>1 DEF RecordSent, RecordRetry, failJob, TypeOK, NextAttempts
<1>3. Accounted' /\ ReceiptsAreSends'
  BY <1>0, <1>1, <1>2 DEF SInv, Accounted, ReceiptsAreSends, TypeOK
<1>4. AtMostOneKnown'
  <2>1. ASSUME NEW k \in Jobs, Known(k) PROVE Known(k)'
    <3>1. CASE k = j
      <4>1. verdict[w] = "ok"
        BY <1>0, <1>1, <2>1, <3>1 DEF Known, InHand, SInv, Apart
      <4> QED BY <1>0, <1>1, <3>1, <4>1 DEF Known, RecordSent, RecordRetry, failJob,
              Retryable, TypeOK
    <3>2. CASE k # j
      BY <1>2, <2>1, <3>2 DEF Known, Untouched
    <3> QED BY <3>1, <3>2
  <2> QED BY <1>1, <2>1 DEF SInv, AtMostOneKnown
<1>5. CASE Advance(w)
  BY <1>1, <1>2, <1>3, <1>4, <1>5, AdvanceKeepsHeld DEF SInv
<1>6. CASE pc' = [pc EXCEPT ![w] = "pause"] /\ UNCHANGED <<batch, snap, current>>
  <2>1. LoopShape' /\ Apart'
    BY <1>0, <1>6 DEF SInv, LoopShape, Apart, TypeOK
  <2>2. HeldExactly'
    <3>1. ASSUME NEW k \in batch[w], k # j
          PROVE  /\ status'[k] = "processing" /\ holder'[k] = w
                 /\ snap'[w][k].attempts = attempts'[k] /\ sends'[k] <= attempts'[k]
      BY <1>0, <1>1, <1>2, <1>6, <3>1 DEF SInv, HeldExactly, TypeOK
    <3>2. pc'[w] = "pause" /\ current'[w] = j
      BY <1>0, <1>6 DEF TypeOK
    <3>3. ASSUME NEW v \in Workers \ {w}
          PROVE  \A k \in batch'[v] :
                   \/ /\ status'[k] = "processing" /\ holder'[k] = v
                      /\ snap'[v][k].attempts = attempts'[k]
                      /\ k # current'[v] => sends'[k] <= attempts'[k]
                   \/ pc'[v] = "pause" /\ k = current'[v]
      <4>1. \A k \in batch[v] : k \in Jobs \ {j}
        BY <1>0, <1>1 DEF SInv, Apart, TypeOK
      <4> QED BY <1>1, <1>2, <4>1, OtherKeepsHeld DEF SInv
    <3> QED BY <1>6, <3>1, <3>2, <3>3 DEF HeldExactly
  <2> QED BY <1>3, <1>4, <2>1, <2>2 DEF SInv
<1> QED BY <1>5, <1>6 DEF RecordSent, RecordRetry, failJob

\* Each step of a loop.
LEMMA WorkerSInv ==
  ASSUME KeepsLeases, IInv, SInv, NEW w \in Workers, WorkerStep(w)
  PROVE  SInv'
<1>0. TypeOK /\ \A v \in Workers \ {w} : Untouched(v)
  BY OthersUntouched DEF IInv
<1>1. ASSUME NEW S \in SUBSET Jobs, ClaimPendingNotificationJobs(w, S) PROVE SInv'
  BY <1>0, <1>1, ClaimSInv
<1>2. ASSUME NEW j \in Jobs, Send(w, j) PROVE SInv'
  BY <1>0, <1>2, SendSInv
<1>3. ASSUME RecordSent(w) \/ RecordRetry(w) \/ failJob(w) PROVE SInv'
  BY <1>0, <1>3, FinishSInv
<1>4. ASSUME AutoPause(w) \/ FinishError(w) PROVE SInv'
  <2>1. /\ Advance(w) /\ pc[w] \in {"finish", "pause"}
        /\ UNCHANGED <<status, attempts, sends, received, holder>>
    BY <1>4 DEF AutoPause, FinishError, Lose, rowVars, historyVars
  <2>2. AtMostOneKnown'
    BY <1>0, <1>4, <2>1, LoseKeepsKnown DEF AutoPause, FinishError, SInv, historyVars
  <2>3. Accounted' /\ ReceiptsAreSends'
    BY <2>1 DEF SInv, Accounted, ReceiptsAreSends
  <2> QED BY <2>1, <2>2, <2>3, AdvanceKeepsHeld DEF SInv
<1>5. ASSUME Shutdown(w) \/ Exit(w) \/ Crash(w) \/ Restart(w) PROVE SInv'
  <2>1. UNCHANGED <<status, attempts, sends, received, holder>>
    BY <1>5 DEF Shutdown, Exit, Crash, Restart, Lose, rowVars, historyVars
  <2>2. AtMostOneKnown'
    <3>1. CASE Crash(w)
      BY <1>0, <2>1, <3>1, LoseKeepsKnown DEF Crash, SInv
    <3>2. CASE Shutdown(w) \/ Exit(w) \/ Restart(w)
      BY <1>0, <2>1, <3>2 DEF Shutdown, Exit, Restart, SInv, AtMostOneKnown, Known, TypeOK,
         historyVars
    <3> QED BY <1>5, <3>1, <3>2
  <2>3. LoopShape' /\ Apart'
    <3>1. batch'[w] \subseteq batch[w]
      BY <1>0, <1>5 DEF Shutdown, Exit, Crash, Restart, TypeOK
    <3>2. Apart'
      BY <1>0, <3>1 DEF SInv, Apart, Untouched
    <3>3. LoopShape'
      BY <1>0, <1>5 DEF SInv, LoopShape, Shutdown, Exit, Crash, Restart, TypeOK
    <3> QED BY <3>2, <3>3
  <2>4. HeldExactly'
    BY <1>0, <1>5, <2>1 DEF SInv, HeldExactly, Shutdown, Exit, Crash, Restart, TypeOK
  <2> QED BY <2>1, <2>2, <2>3, <2>4 DEF SInv, Accounted, ReceiptsAreSends
<1> QED BY <1>1, <1>2, <1>3, <1>4, <1>5 DEF WorkerStep

LEMMA EnvironmentSInv ==
  ASSUME IInv, SInv, Environment
  PROVE  SInv'
<1>1. TypeOK
  BY DEF IInv
<1>2. /\ UNCHANGED <<attempts, workerVars, historyVars>>
      /\ \A j \in Jobs : status'[j] = status[j] \/ (status[j] = "absent" /\ status'[j] = "pending")
  BY <1>1 DEF Environment, Enqueue, Ripen, ToggleBlock, SetStatus, SetDestination, Delete,
     rowVars, TypeOK
<1>3. Accounted' /\ ReceiptsAreSends'
  BY <1>2 DEF SInv, Accounted, ReceiptsAreSends, historyVars
<1>4. LoopShape' /\ Apart' /\ HeldExactly'
  <2>1. UNCHANGED <<pc, current, batch, snap, attempts, sends, holder>>
    BY <1>2 DEF workerVars, historyVars
  <2>2. \A j \in Jobs : status[j] = "processing" => status'[j] = "processing"
    BY <1>2
  <2> QED BY <1>1, <2>1, <2>2 DEF SInv, LoopShape, Apart, HeldExactly, TypeOK
<1>5. AtMostOneKnown'
  BY <1>2 DEF SInv, AtMostOneKnown, Known, historyVars, workerVars
<1> QED BY <1>3, <1>4, <1>5 DEF SInv

LEMMA NextSInv ==
  ASSUME KeepsLeases, IInv, SInv, Next
  PROVE  SInv'
BY EnvironmentSInv, WorkerSInv DEF Next

LEMMA UnchangedSInv == SInv /\ UNCHANGED vars => SInv'
BY DEF SInv, Accounted, LoopShape, Apart, HeldExactly, ReceiptsAreSends, AtMostOneKnown, Known,
   vars, rowVars, workerVars, historyVars

LEMMA LeaseInductive == Spec /\ LeasesOutlast => [](IInv /\ SInv)
<1>1. Init => IInv /\ SInv
  BY InitIInv, InitSInv
<1>2. IInv /\ SInv /\ [Next]_vars /\ [KeepsLeases]_vars => IInv' /\ SInv'
  BY NextIInv, NextSInv, UnchangedSInv
<1> QED BY <1>1, <1>2, PTL DEF Spec, LeasesOutlast

\* While leases outlast the work, send() is called at most max_attempts times
\* for a job, however often processes crash, are stopped or lose a result
\* (worker.go, send).
THEOREM SendsBounded == Spec /\ LeasesOutlast => []SendsWithinBudget
<1>1. IInv /\ SInv => SendsWithinBudget
  <2> SUFFICES ASSUME IInv, SInv, NEW j \in Jobs PROVE sends[j] <= MaxAttempts
    BY DEF SendsWithinBudget
  <2>1. sends[j] \in Nat /\ attempts[j] \in 0..MaxAttempts /\ MaxAttempts \in Nat
        /\ status[j] \in Statuses
    BY OutboxAssumption DEF IInv, TypeOK
  <2>2. status[j] = "processing" => attempts[j] < MaxAttempts
    BY DEF IInv, LiveHasBudget, Live
  <2> QED BY <2>1, <2>2 DEF SInv, Accounted, Statuses
<1> QED BY <1>1, LeaseInductive, PTL

\* A chat gets a message once, plus once for every success that was lost before
\* it reached the row; shutdowns, retries and leases of crashed processes that
\* expire add none.
THEOREM DeliveredOnceUnlessLost == Spec /\ LeasesOutlast => []OnceUnlessLost
<1>1. IInv /\ SInv => OnceUnlessLost
  BY DEF IInv, TypeOK, SInv, AtMostOneKnown, OnceUnlessLost
<1> QED BY <1>1, LeaseInductive, PTL

\* finishOutcome's comment, "the stale write is a safe no-op", is true of every
\* behaviour in which no lease runs out under a loop at work: results come from
\* the holder of the lease only.  The fence by status adds nothing to that; the
\* run outbox_stale_result shows what happens without the premise.
THEOREM ResultsComeFromHolder == Spec /\ LeasesOutlast => StaleResultIsNoOp
<1>1. IInv /\ SInv /\ [Next]_vars =>
        [\A w \in Workers : FinishNotificationJob(w) /\ holder[current[w]] # w
           => UNCHANGED rowVars]_vars
  BY FinishOnLease DEF FinishNotificationJob
<1> QED BY <1>1, LeaseInductive, PTL DEF Spec, StaleResultIsNoOp

-----------------------------------------------------------------------------
(* The steps of the processes, job by job. *)

\* What a step may do to the row of a job and to its counters.
JobStep(j) ==
  \/ UNCHANGED <<status[j], attempts[j], sends[j], received[j]>>
  \/ /\ status[j] = "absent" /\ status'[j] = "pending"
     /\ UNCHANGED <<attempts[j], sends[j], received[j]>>
  \/ /\ status[j] \in Live /\ status'[j] = "processing"
     /\ attempts'[j] \in {attempts[j], attempts[j] + 1} /\ attempts'[j] < MaxAttempts
     /\ UNCHANGED <<sends[j], received[j]>>
  \/ /\ status[j] = "processing" /\ status'[j] = "processing"
     /\ sends[j] <= attempts[j] /\ sends'[j] = sends[j] + 1
     /\ received'[j] \in {received[j], received[j] + 1}
     /\ attempts'[j] = attempts[j]
  \/ /\ status[j] = "processing" /\ status'[j] = "sent" /\ received[j] > 0
     /\ UNCHANGED <<attempts[j], sends[j], received[j]>>
  \/ /\ status[j] = "processing" /\ status'[j] = "pending"
     /\ attempts'[j] = attempts[j] + 1 /\ attempts'[j] < MaxAttempts
     /\ UNCHANGED <<sends[j], received[j]>>
  \/ /\ status[j] = "processing" /\ status'[j] = "failed"
     /\ attempts'[j] = attempts[j] + 1
     /\ attempts'[j] = MaxAttempts \/ j \in rejected
     /\ UNCHANGED <<sends[j], received[j]>>

LEMMA WorkerJobStep ==
  ASSUME IInv, SInv, NEW w \in Workers, WorkerStep(w), NEW j \in Jobs
  PROVE  JobStep(j) /\ rejected \subseteq rejected'
<1>0. /\ TypeOK /\ LiveHasBudget /\ MaxAttempts \in Nat /\ VerdictsBacked
      /\ attempts[j] \in Nat /\ sends[j] \in Nat /\ received[j] \in Nat
  BY OutboxAssumption DEF IInv, TypeOK
<1>1. ASSUME NEW S \in SUBSET Jobs, ClaimPendingNotificationJobs(w, S) PROVE JobStep(j)
  <2>1. /\ UNCHANGED <<sends, received>> /\ attempts'[j] = ChargedAttempts(S, j)
        /\ status'[j] = IF j \in Exhausted(S) THEN "failed"
                        ELSE IF j \in S THEN "processing" ELSE status[j]
    BY <1>1 DEF ClaimPendingNotificationJobs
  <2>2. j \in S => status[j] \in Live /\ attempts[j] < MaxAttempts
    BY <1>0, <1>1 DEF ClaimPendingNotificationJobs, Claimable, LiveHasBudget
  <2>3. CASE j \in Exhausted(S)
    <3>1. j \in S /\ status[j] = "processing" /\ attempts'[j] = attempts[j] + 1
          /\ attempts[j] + 1 >= MaxAttempts
      BY <2>1, <2>3 DEF Exhausted, Expired, ChargedAttempts
    <3>2. attempts'[j] = MaxAttempts
      BY <1>0, <2>2, <3>1
    <3> QED BY <2>1, <2>3, <3>1, <3>2 DEF JobStep
  <2>4. CASE j \in S \ Exhausted(S)
    BY <1>0, <2>1, <2>2, <2>4 DEF JobStep, Exhausted, Expired, ChargedAttempts
  <2>5. CASE j \notin S
    BY <2>1, <2>5 DEF JobStep, Exhausted, Expired, ChargedAttempts
  <2> QED BY <2>3, <2>4, <2>5
<1>2. ASSUME NEW k \in Jobs, Send(w, k) PROVE JobStep(j) /\ rejected \subseteq rejected'
  <2>1. /\ UNCHANGED <<status, attempts>> /\ pc[w] = "send" /\ k \in batch[w]
        /\ sends' = [sends EXCEPT ![k] = @ + 1]
        /\ rejected \subseteq rejected'
    BY <1>2 DEF Send, rowVars
  <2>2. status[k] = "processing" /\ sends[k] <= attempts[k]
    BY <1>0, <2>1, OutboxAssumption DEF SInv, HeldExactly, LoopShape, TypeOK
  <2>3. received'[j] = received[j] \/ (k = j /\ received'[j] = received[j] + 1)
    BY <1>0, <1>2, OutcomeResult DEF Send, TypeOK
  <2> QED BY <1>0, <2>1, <2>2, <2>3 DEF JobStep, TypeOK
<1>3. ASSUME RecordSent(w) \/ RecordRetry(w) \/ failJob(w)
      PROVE JobStep(j) /\ rejected \subseteq rejected'
  <2> DEFINE c == current[w]
  <2>1. /\ pc[w] = "finish" /\ c \in batch[w] /\ c \in Jobs /\ status[c] = "processing"
        /\ snap[w][c].attempts = attempts[c]
        /\ attempts[c] < MaxAttempts /\ attempts[c] \in Nat /\ Fenced(w)
        /\ UNCHANGED <<sends, received, rejected>>
    BY <1>3, FinishOnLease
  <2>2. CASE j # c
    BY <1>0, <1>3, <2>1, <2>2 DEF RecordSent, RecordRetry, failJob, TypeOK, JobStep
  <2>3. CASE j = c /\ RecordSent(w)
    BY <1>0, <2>1, <2>3 DEF RecordSent, TypeOK, JobStep, VerdictsBacked
  <2>4. CASE j = c /\ RecordRetry(w)
    BY <1>0, <2>1, <2>4 DEF RecordRetry, Retryable, NextAttempts, TypeOK, JobStep
  <2>5. CASE j = c /\ failJob(w)
    BY <1>0, <2>1, <2>5 DEF failJob, Retryable, NextAttempts, TypeOK, JobStep, VerdictsBacked,
       Verdicts
  <2> QED BY <1>3, <2>1, <2>2, <2>3, <2>4, <2>5
<1>4. ASSUME \/ AutoPause(w) \/ FinishError(w) \/ Shutdown(w) \/ Exit(w) \/ Crash(w) \/ Restart(w)
      PROVE JobStep(j) /\ rejected \subseteq rejected'
  BY <1>4 DEF AutoPause, FinishError, Shutdown, Exit, Crash, Restart, Lose, rowVars,
     historyVars, JobStep
<1>5. ASSUME NEW S \in SUBSET Jobs, ClaimPendingNotificationJobs(w, S)
      PROVE  rejected \subseteq rejected'
  BY <1>5 DEF ClaimPendingNotificationJobs
<1> QED BY <1>1, <1>2, <1>3, <1>4, <1>5 DEF WorkerStep

LEMMA EveryJobStep ==
  ASSUME IInv, SInv, [Next]_vars, NEW j \in Jobs
  PROVE  JobStep(j) /\ rejected \subseteq rejected'
<1>1. CASE UNCHANGED vars
  BY <1>1 DEF vars, rowVars, historyVars, JobStep
<1>2. CASE Environment
  BY <1>2 DEF Environment, Enqueue, Ripen, ToggleBlock, SetStatus, SetDestination, Delete,
     rowVars, historyVars, IInv, TypeOK, JobStep
<1> QED BY <1>1, <1>2, WorkerJobStep DEF Next

\* A late or lost result never refunds an attempt, in any step (finishOutcome).
THEOREM AttemptsMonotone == Spec /\ LeasesOutlast => AttemptsNeverDrop
<1>1. IInv /\ SInv /\ [Next]_vars => [\A j \in Jobs : attempts'[j] >= attempts[j]]_vars
  <2> SUFFICES ASSUME IInv, SInv, [Next]_vars, NEW j \in Jobs
               PROVE  attempts'[j] >= attempts[j]
    OBVIOUS
  <2>1. attempts[j] \in Nat
    BY OutboxAssumption DEF IInv, TypeOK
  <2>2. attempts'[j] = attempts[j] \/ attempts'[j] = attempts[j] + 1
    BY EveryJobStep DEF JobStep
  <2> QED BY <2>1, <2>2
<1> QED BY <1>1, LeaseInductive, PTL DEF Spec, AttemptsNeverDrop

\* Everything the processes do is a step of the promise of Delivery: an attempt
\* is charged per message at most, and a job is settled only with a receipt, a
\* refusal or its attempts used up.
THEOREM OutboxImplementsDelivery == Spec /\ LeasesOutlast => ImplementsDelivery
<1>1. Init => Promise!Init
  BY DEF Init, Promise!Init, Live
<1>2. IInv /\ SInv /\ [Next]_vars => [Promise!Next]_(Promise!vars)
  <2> SUFFICES ASSUME IInv, SInv, [Next]_vars PROVE Promise!Next
    OBVIOUS
  <2>1. ASSUME NEW j \in Jobs
        PROVE  \/ Promise!Same(j) \/ Promise!Accept(j) \/ Promise!Reach(j)
               \/ Promise!Spend(j) \/ Promise!Settle(j) \/ Promise!GiveUp(j)
    <3>1. JobStep(j)
      BY EveryJobStep
    <3>2. /\ attempts[j] \in Nat /\ sends[j] \in Nat /\ received[j] \in Nat
          /\ received[j] <= sends[j]
      BY DEF IInv, TypeOK, SInv, ReceiptsAreSends
    <3> QED BY <3>1, <3>2 DEF JobStep, Live, Promise!Same, Promise!Accept, Promise!Reach,
               Promise!Spend, Promise!Settle, Promise!GiveUp
  <2>2. rejected \subseteq rejected'
    <3>1. CASE Jobs = {}
      BY <3>1 DEF IInv, TypeOK
    <3> QED BY <3>1, EveryJobStep
  <2> QED BY <2>1, <2>2 DEF Promise!Next
<1> QED BY <1>1, <1>2, LeaseInductive, PTL DEF Spec, ImplementsDelivery, Promise!Spec

-----------------------------------------------------------------------------
(* A single process. *)

\* Nobody is there to take a job away from a single process.
LEMMA SingleKeepsLeases ==
  ASSUME SingleProcess
  PROVE  Spec => LeasesOutlast
<1>1. KeepsLeases
  BY DEF SingleProcess, KeepsLeases
<1> QED BY <1>1, PTL DEF LeasesOutlast

\* The deployment the repository documents, one process: all of it holds with
\* no assumption on the lease.
THEOREM SingleProcessDelivers ==
  ASSUME SingleProcess
  PROVE  Spec => /\ []SendsWithinBudget /\ []OnceUnlessLost
                 /\ AttemptsNeverDrop /\ ImplementsDelivery
BY SingleKeepsLeases, SendsBounded, DeliveredOnceUnlessLost, AttemptsMonotone,
   OutboxImplementsDelivery, PTL
=============================================================================
