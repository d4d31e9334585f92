---------------------------- MODULE IntakeProofs ----------------------------
(***************************************************************************)
(* Theorems about the webhook intake, for every number of requests,        *)
(* deliveries and subscriptions.                                           *)
(***************************************************************************)
EXTENDS Intake, Filter, TLAPS

\* A request knows its delivery, whose event happened, until it is answered.
Serving ==
  \A h \in Handlers :
    pc[h] # "idle" => serving[h] \in Deliveries /\ payloadName[serving[h]] # None

\* One transaction at a time holds the uncommitted row of a delivery.
OneHolder ==
  \A g, h \in Handlers :
    pc[g] \in InTransaction =>
      /\ marker[serving[g]] = "held"
      /\ pc[h] \in InTransaction /\ serving[g] = serving[h] => g = h

\* Jobs are queued only together with the committed row, which only a purge
\* takes away again.
QueuedWithMarker ==
  \A d \in Deliveries, s \in Subs :
    made[<<d, s>>] <= (IF marker[d] = "stored" THEN 1 ELSE 0) + purged[d]

\* The committed row is the work of a transaction.
StoredWasProcessed == \A d \in Deliveries : marker[d] = "stored" => d \in processed

IInv ==
  /\ Types
  /\ ForeignKey
  /\ Serving
  /\ OneHolder
  /\ QueuedWithMarker
  /\ StoredWasProcessed
  /\ DuplicateWasProcessed

LEMMA InitIInv == Init => IInv
BY IntakeAssumption DEF Init, IInv, Types, ForeignKey, Locations, Answers, Serving, OneHolder,
   QueuedWithMarker, StoredWasProcessed, DuplicateWasProcessed, InTransaction

LEMMA EnvironmentIInv ==
  ASSUME IInv,
         \/ Rename
         \/ \E d \in Deliveries : Happen(d) \/ Age(d)
         \/ \E s \in Subs : Delete(s) \/ \E st \in {"active", "paused"} : SetStatus(s, st)
         \/ \E p \in Deliveries \X Subs : Settle(p) \/ AgeJob(p)
         \/ StartCleanup \/ DeleteExpiredTokens \/ DeleteOldJobs \/ CleanupError
  PROVE  IInv'
<1>1. Types'
  <2>1. Types
    BY DEF IInv
  <2>2. CASE Rename \/ \E d \in Deliveries : Happen(d)
    BY <2>1, <2>2, IntakeAssumption DEF Types, Rename, Happen, subVars, tableVars, handlerVars,
       historyVars
  <2>3. CASE \/ \E d \in Deliveries : Age(d)
             \/ \E p \in Deliveries \X Subs : Settle(p) \/ AgeJob(p)
    <3>1. CASE \E d \in Deliveries : Age(d)
      BY <2>1, <3>1 DEF Types, Age, githubVars, subVars, handlerVars, historyVars
    <3>2. CASE \E p \in Deliveries \X Subs : Settle(p)
      BY <2>1, <3>2 DEF Types, Settle, githubVars, subVars, handlerVars, historyVars
    <3>3. CASE \E p \in Deliveries \X Subs : AgeJob(p)
      BY <2>1, <3>3 DEF Types, AgeJob, githubVars, subVars, handlerVars, historyVars
    <3> QED BY <2>3, <3>1, <3>2, <3>3
  <2>4. ASSUME NEW s \in Subs, Delete(s) \/ \E st \in {"active", "paused"} : SetStatus(s, st)
        PROVE  Types'
    BY <2>1, <2>4 DEF Types, Delete, SetStatus, githubVars, tableVars, handlerVars
  <2>5. CASE StartCleanup \/ DeleteExpiredTokens \/ CleanupError
    BY <2>1, <2>5 DEF Types, StartCleanup, DeleteExpiredTokens, CleanupError, githubVars,
       subVars, tableVars, handlerVars, historyVars
  <2>6. CASE DeleteOldJobs
    BY <2>1, <2>6 DEF Types, DeleteOldJobs, githubVars, subVars, handlerVars, historyVars
  <2> QED BY <2>2, <2>3, <2>4, <2>5, <2>6
<1>2. /\ UNCHANGED <<marker, handlerVars, made, purged, processed>>
      /\ \A d \in Deliveries : payloadName[d] # None => payloadName'[d] = payloadName[d]
  BY DEF IInv, Types, githubVars, Rename, Happen, Age, Delete, SetStatus, Settle, AgeJob, StartCleanup,
     DeleteExpiredTokens, DeleteOldJobs, CleanupError, tableVars, historyVars
<1>3. \A p \in Deliveries \X Subs : job'[p] # "none" => job[p] # "none"
  BY DEF IInv, Types, Rename, Happen, Age, Delete, SetStatus, Settle, AgeJob, StartCleanup,
     DeleteExpiredTokens, DeleteOldJobs, CleanupError, tableVars
<1>4. ForeignKey'
  BY <1>2, <1>3 DEF IInv, ForeignKey
<1> QED BY <1>1, <1>2, <1>4 DEF IInv, Serving, OneHolder, QueuedWithMarker, StoredWasProcessed,
          DuplicateWasProcessed, handlerVars

LEMMA PurgeIInv ==
  ASSUME IInv, DeleteOldDeliveries
  PROVE  IInv'
<1>1. Types'
  BY DEF IInv, Types, DeleteOldDeliveries, githubVars, subVars, handlerVars
<1>2. /\ UNCHANGED <<handlerVars, made, processed, payloadName>>
      /\ \A d \in Deliveries :
           \/ marker'[d] = marker[d] /\ purged'[d] = purged[d]
           \/ marker[d] = "stored" /\ marker'[d] = "none" /\ purged'[d] = purged[d] + 1
  BY DEF IInv, Types, DeleteOldDeliveries, Purgeable, githubVars
<1>3. Serving' /\ StoredWasProcessed' /\ DuplicateWasProcessed'
  BY <1>2 DEF IInv, Serving, StoredWasProcessed, DuplicateWasProcessed, handlerVars
<1>4. OneHolder'
  BY <1>2 DEF IInv, Serving, OneHolder, handlerVars, InTransaction
<1>5. QueuedWithMarker'
  <2> SUFFICES ASSUME NEW d \in Deliveries, NEW s \in Subs
               PROVE  made'[<<d, s>>] <= (IF marker'[d] = "stored" THEN 1 ELSE 0) + purged'[d]
    BY DEF QueuedWithMarker
  <2>1. made[<<d, s>>] \in Nat /\ purged[d] \in Nat
    BY DEF IInv, Types
  <2> QED BY <1>2, <2>1 DEF IInv, QueuedWithMarker
<1>6. ForeignKey'
  BY DEF IInv, Types, ForeignKey, DeleteOldDeliveries
<1> QED BY <1>1, <1>3, <1>4, <1>5, <1>6 DEF IInv

\* The steps of a request that leave the tables alone.
LEMMA QuietIInv ==
  ASSUME IInv, NEW h \in Handlers,
         (\E d \in Deliveries : Post(h, d)) \/ Check(h) \/ List(h) \/ Reconcile(h) \/ Answer(h)
  PROVE  IInv'
<1>1. Types'
  <2>1. Types
    BY DEF IInv
  <2>2. ASSUME NEW d \in Deliveries, Post(h, d) PROVE Types'
    BY <2>1, <2>2 DEF Types, Post, Active, Locations, githubVars, subVars, tableVars
  <2>3. CASE Check(h)
    BY <2>1, <2>3 DEF Types, Check, Goto, Locations, Answers, githubVars, subVars, tableVars,
       historyVars
  <2>6. CASE Answer(h)
    BY <2>1, <2>6 DEF Types, Answer, Goto, Locations, githubVars, subVars, tableVars
  <2>4. CASE List(h)
    BY <2>1, <2>4 DEF Types, List, Goto, Locations, Matching, Active, githubVars, subVars,
       tableVars, historyVars
  <2>5. CASE Reconcile(h)
    <3>1. payloadName[serving[h]] \in 0..MaxRenames
      BY <2>1, <2>5 DEF IInv, Serving, Reconcile, Types
    <3> QED BY <2>1, <2>5, <3>1 DEF Types, Reconcile, Goto, Locations, githubVars,
               tableVars, historyVars
  <2> QED BY <2>2, <2>3, <2>4, <2>5, <2>6
<1>2. /\ UNCHANGED <<marker, job, made, purged, processed>>
      /\ pc'[h] \notin InTransaction \cup {"duplicate"}
      /\ pc'[h] # "idle" => serving'[h] \in Deliveries /\ payloadName[serving'[h]] # None
      /\ UNCHANGED payloadName
      /\ \A g \in Handlers \ {h} : pc'[g] = pc[g] /\ serving'[g] = serving[g]
  BY DEF IInv, Types, Serving, Post, Check, List, Reconcile, Answer, Goto, tableVars,
     githubVars, historyVars, InTransaction, Answers
<1>3. Serving' /\ OneHolder'
  BY <1>2 DEF IInv, Serving, OneHolder
<1> QED BY <1>1, <1>2, <1>3 DEF IInv, ForeignKey, QueuedWithMarker, StoredWasProcessed,
          DuplicateWasProcessed

LEMMA MarkIInv ==
  ASSUME IInv, NEW h \in Handlers, Mark(h)
  PROVE  IInv'
<1> DEFINE d == serving[h]
<1>1. Types' /\ d \in Deliveries
  BY DEF IInv, Types, Serving, Mark, Goto, Locations, Answers, githubVars, subVars, historyVars
<1>2. /\ UNCHANGED <<serving, made, purged, processed, payloadName>>
      /\ pc[h] = "mark" /\ marker[d] # "held"
      /\ \A g \in Handlers \ {h} : pc'[g] = pc[g]
      /\ \A e \in Deliveries \ {d} : marker'[e] = marker[e]
      /\ \/ marker[d] = "stored" /\ pc'[h] = "duplicate" /\ UNCHANGED marker
         \/ marker[d] # "stored" /\ pc'[h] = "jobs" /\ marker'[d] = "held"
  BY <1>1 DEF IInv, Types, Mark, Goto, Recorded, githubVars, historyVars
<1>3. Serving' /\ StoredWasProcessed' /\ QueuedWithMarker'
  BY <1>1, <1>2 DEF IInv, Serving, StoredWasProcessed, QueuedWithMarker
<1>4. OneHolder'
  BY <1>1, <1>2 DEF IInv, Serving, OneHolder, InTransaction
<1>5. DuplicateWasProcessed'
  BY <1>1, <1>2 DEF IInv, StoredWasProcessed, DuplicateWasProcessed
<1>6. ForeignKey'
  BY <1>1, <1>2 DEF IInv, ForeignKey, Mark
<1> QED BY <1>1, <1>3, <1>4, <1>5, <1>6 DEF IInv

\* The end of a transaction, and the errors before it.
LEMMA AbortIInv ==
  ASSUME IInv, NEW h \in Handlers, InsertJobs(h) \/ Fail(h)
  PROVE  IInv'
<1> DEFINE d == serving[h]
<1>1. Types' /\ d \in Deliveries
  <2>1. Types
    BY DEF IInv
  <2>2. d \in Deliveries
    BY DEF IInv, Serving, InsertJobs, Fail
  <2>3. CASE InsertJobs(h)
    BY <2>1, <2>2, <2>3 DEF Types, InsertJobs, Goto, RolledBack, Locations, Answers, githubVars,
       subVars, historyVars
  <2>4. CASE Fail(h)
    BY <2>1, <2>2, <2>4 DEF Types, Fail, Goto, RolledBack, Locations, Answers, githubVars,
       subVars, historyVars
  <2> QED BY <2>2, <2>3, <2>4
<1>2. /\ UNCHANGED <<serving, made, purged, processed, payloadName>>
      /\ \A g \in Handlers \ {h} : pc'[g] = pc[g]
      /\ \A e \in Deliveries \ {d} : marker'[e] = marker[e]
      /\ \/ pc[h] = "jobs" /\ pc'[h] = "commit" /\ UNCHANGED marker
         \/ pc[h] \in InTransaction /\ pc'[h] = "error" /\ marker'[d] = "none"
         \/ pc[h] \notin InTransaction /\ pc'[h] = "error" /\ UNCHANGED marker
  BY <1>1 DEF IInv, Types, InsertJobs, Fail, Goto, RolledBack, InTransaction, githubVars, historyVars
<1>3. pc[h] \in InTransaction => marker[d] = "held"
  BY DEF IInv, OneHolder
<1>4. Serving' /\ StoredWasProcessed' /\ DuplicateWasProcessed' /\ QueuedWithMarker'
  <2>1. Serving'
    <3>1. pc[h] # "idle"
      BY DEF InsertJobs, Fail
    <3> QED BY <1>2, <3>1 DEF IInv, Serving
  <2>2. StoredWasProcessed' /\ DuplicateWasProcessed'
    BY <1>1, <1>2 DEF IInv, StoredWasProcessed, DuplicateWasProcessed
  <2>3. QueuedWithMarker'
    BY <1>1, <1>2, <1>3 DEF IInv, QueuedWithMarker
  <2> QED BY <2>1, <2>2, <2>3
<1>5. OneHolder'
  <2> SUFFICES ASSUME NEW f \in Handlers, NEW g \in Handlers, pc'[f] \in InTransaction
               PROVE  /\ marker'[serving'[f]] = "held"
                      /\ pc'[g] \in InTransaction /\ serving'[f] = serving'[g] => f = g
    BY DEF OneHolder
  <2>1. pc[f] \in InTransaction
    BY <1>2 DEF InTransaction
  <2>2. pc'[g] \in InTransaction => pc[g] \in InTransaction
    BY <1>2 DEF InTransaction
  <2>3. f # h \/ UNCHANGED marker
    BY <1>2 DEF InTransaction
  <2>4. serving[f] \in Deliveries /\ marker[serving[f]] = "held"
    BY <2>1 DEF IInv, Serving, OneHolder, InTransaction
  <2>5. f # h => serving[f] # d \/ UNCHANGED marker
    BY <1>2, <2>1 DEF IInv, OneHolder
  <2> QED BY <1>2, <2>1, <2>2, <2>3, <2>4, <2>5 DEF IInv, OneHolder
<1>6. ForeignKey'
  <2>1. UNCHANGED job
    BY DEF InsertJobs, Fail
  <2> QED BY <1>1, <1>2, <1>3, <2>1 DEF IInv, ForeignKey
<1> QED BY <1>1, <1>4, <1>5, <1>6 DEF IInv

LEMMA CommitIInv ==
  ASSUME IInv, NEW h \in Handlers, Commit(h)
  PROVE  IInv'
<1> DEFINE d == serving[h]
<1>1. Types' /\ d \in Deliveries
  BY DEF IInv, Types, Serving, Commit, Goto, Locations, Answers, githubVars, subVars
<1>2. /\ UNCHANGED <<serving, purged, payloadName>> /\ processed' = processed \cup {d}
      /\ pc[h] \in InTransaction /\ marker[d] = "held" /\ pc'[h] \in {"ok", "error"}
      /\ marker' = [marker EXCEPT ![d] = "stored"]
      /\ \A g \in Handlers \ {h} : pc'[g] = pc[g]
  BY DEF IInv, Types, OneHolder, Commit, Goto, InTransaction, githubVars
<1>3. Serving' /\ StoredWasProcessed' /\ DuplicateWasProcessed'
  <2>1. Serving'
    BY <1>1, <1>2 DEF IInv, Serving, InTransaction
  <2> QED BY <1>1, <1>2, <2>1 DEF IInv, Types, StoredWasProcessed, DuplicateWasProcessed
<1>4. OneHolder'
  BY <1>1, <1>2 DEF IInv, Types, Serving, OneHolder, InTransaction
<1>5. QueuedWithMarker'
  <2> SUFFICES ASSUME NEW e \in Deliveries, NEW s \in Subs
               PROVE  made'[<<e, s>>] <= (IF marker'[e] = "stored" THEN 1 ELSE 0) + purged[e]
    BY <1>2 DEF QueuedWithMarker
  <2>1. made[<<e, s>>] \in Nat /\ purged[e] \in Nat
    BY DEF IInv, Types
  <2>2. made'[<<e, s>>] = made[<<e, s>>] \/ (e = d /\ made'[<<e, s>>] = made[<<e, s>>] + 1)
    BY DEF Commit, IInv, Types
  <2>3. made[<<e, s>>] <= (IF marker[e] = "stored" THEN 1 ELSE 0) + purged[e]
    BY DEF IInv, QueuedWithMarker
  <2> QED BY <1>1, <1>2, <2>1, <2>2, <2>3 DEF IInv, Types
<1>6. ForeignKey'
  <2> SUFFICES ASSUME NEW p \in Deliveries \X Subs, job'[p] # "none"
               PROVE  marker'[p[1]] = "stored"
    BY DEF ForeignKey
  <2>1. p[1] \in Deliveries
    OBVIOUS
  <2>2. p[1] = d \/ job[p] # "none"
    BY DEF Commit, IInv, Types
  <2> QED BY <1>1, <1>2, <2>1, <2>2 DEF IInv, Types, ForeignKey
<1> QED BY <1>1, <1>3, <1>4, <1>5, <1>6 DEF IInv

LEMMA NextIInv == IInv /\ [Next]_vars => IInv'
<1> SUFFICES ASSUME IInv, [Next]_vars PROVE IInv'
  OBVIOUS
<1>1. CASE UNCHANGED vars
  BY <1>1 DEF vars, githubVars, subVars, tableVars, handlerVars, historyVars, IInv, Types,
     ForeignKey, Serving, OneHolder, QueuedWithMarker, StoredWasProcessed, DuplicateWasProcessed
<1>2. ASSUME NEW h \in Handlers, Serve(h) PROVE IInv'
  BY <1>2, QuietIInv, MarkIInv, AbortIInv, CommitIInv DEF Serve, Proceed
<1>3. ASSUME NEW h \in Handlers, NEW d \in Deliveries, Post(h, d) PROVE IInv'
  BY <1>3, QuietIInv
<1>4. CASE Cleanup
  BY <1>4, EnvironmentIInv, PurgeIInv DEF Cleanup
<1>5. CASE \/ Rename
           \/ \E d \in Deliveries : Happen(d) \/ Age(d)
           \/ \E s \in Subs : Delete(s) \/ \E st \in {"active", "paused"} : SetStatus(s, st)
           \/ \E p \in Deliveries \X Subs : Settle(p) \/ AgeJob(p)
  BY <1>5, EnvironmentIInv
<1> QED BY <1>1, <1>2, <1>3, <1>4, <1>5 DEF Next

LEMMA Inductive == Spec => []IInv
BY InitIInv, NextIInv, PTL DEF Spec

\* All variables keep their type.
THEOREM TypeCorrect == Spec => []TypeOK
BY Inductive, PTL DEF IInv, TypeOK

\* However many requests post a delivery at once or again, and whatever fails,
\* it is queued once for a subscription until retention forgets it
\* (EnqueueNotificationJobs).
THEOREM DeliveriesQueuedOnce == Spec => []QueuedOnce
<1>1. IInv => QueuedOnce
  <2> SUFFICES ASSUME IInv, NEW d \in Deliveries, NEW s \in Subs
               PROVE  made[<<d, s>>] <= 1 + purged[d]
    BY DEF QueuedOnce
  <2>1. made[<<d, s>>] \in Nat /\ purged[d] \in Nat
    BY DEF IInv, Types
  <2> QED BY <2>1 DEF IInv, QueuedWithMarker
<1> QED BY <1>1, Inductive, PTL

\* An uncommitted row belongs to a transaction that is going on.
MarkerOwned ==
  \A d \in Deliveries : marker[d] = "held" =>
    \E h \in Handlers : pc[h] \in InTransaction /\ serving[h] = d

\* No insert waits for a row that nobody is going to commit or roll back: its
\* transaction belongs to a request that is past its own wait, whatever failed or
\* crashed before (the deferred Rollback of EnqueueNotificationJobs).
THEOREM MarkersHaveOwners == Spec => []MarkerOwned
<1>1. Init => MarkerOwned
  BY DEF Init, MarkerOwned
<1>2. IInv /\ MarkerOwned /\ [Next]_vars => MarkerOwned'
  <2> SUFFICES ASSUME IInv, MarkerOwned, [Next]_vars, NEW d \in Deliveries, marker'[d] = "held"
               PROVE  \E h \in Handlers : pc'[h] \in InTransaction /\ serving'[h] = d
    BY DEF MarkerOwned
  <2>0. Types
    BY DEF IInv
  <2>1. ASSUME NEW g \in Handlers, Mark(g)
        PROVE  \E h \in Handlers : pc'[h] \in InTransaction /\ serving'[h] = d
    <3>1. CASE serving[g] = d
      BY <2>0, <2>1, <3>1 DEF Mark, Goto, Recorded, Types, InTransaction
    <3>2. CASE serving[g] # d
      <4>1. marker[d] = "held"
        BY <2>0, <2>1, <3>2 DEF Mark, Types
      <4>2. PICK h \in Handlers : pc[h] \in InTransaction /\ serving[h] = d
        BY <4>1 DEF MarkerOwned
      <4> QED BY <2>0, <2>1, <4>2 DEF Mark, Goto, Types, InTransaction
    <3> QED BY <3>1, <3>2
  <2>2. ASSUME marker[d] = "held",
               \A h \in Handlers : pc[h] \in InTransaction /\ serving[h] = d
                 => pc'[h] \in InTransaction /\ serving'[h] = serving[h]
        PROVE  \E h \in Handlers : pc'[h] \in InTransaction /\ serving'[h] = d
    BY <2>2 DEF MarkerOwned
  <2>3. ASSUME NEW g \in Handlers, InsertJobs(g) \/ Commit(g) \/ Fail(g)
        PROVE  \E h \in Handlers : pc'[h] \in InTransaction /\ serving'[h] = d
    <3>1. serving[g] \in Deliveries /\ UNCHANGED serving
      BY <2>3 DEF IInv, Serving, InsertJobs, Commit, Fail
    <3>2. marker[d] = "held"
      BY <2>0, <2>3, <3>1 DEF InsertJobs, Commit, Fail, RolledBack, Types
    <3>3. ASSUME NEW h \in Handlers, pc[h] \in InTransaction, serving[h] = d
          PROVE  pc'[h] \in InTransaction
      <4>1. CASE h # g
        BY <2>0, <2>3, <3>3, <4>1 DEF InsertJobs, Commit, Fail, Goto, Types
      <4>2. CASE h = g
        BY <2>0, <2>3, <3>1, <3>3, <4>2 DEF InsertJobs, Commit, Fail, Goto, RolledBack, Types,
           InTransaction
      <4> QED BY <4>1, <4>2
    <3> QED BY <2>2, <3>1, <3>2, <3>3
  <2>4. ASSUME NEW g \in Handlers,
               \/ \E e \in Deliveries : Post(g, e)
               \/ Check(g) \/ List(g) \/ Reconcile(g) \/ Answer(g)
        PROVE  \E h \in Handlers : pc'[h] \in InTransaction /\ serving'[h] = d
    <3>1. /\ UNCHANGED marker /\ pc[g] \notin InTransaction
          /\ \A h \in Handlers \ {g} : pc'[h] = pc[h] /\ serving'[h] = serving[h]
      BY <2>0, <2>4 DEF Post, Check, List, Reconcile, Answer, Goto, tableVars, Types, InTransaction,
         Answers
    <3> QED BY <2>2, <3>1
  <2>5. CASE DeleteOldDeliveries
    BY <2>0, <2>2, <2>5 DEF DeleteOldDeliveries, handlerVars, Types
  <2>6. CASE \/ UNCHANGED vars
             \/ Rename
             \/ \E e \in Deliveries : Happen(e) \/ Age(e)
             \/ \E s \in Subs : Delete(s) \/ \E st \in {"active", "paused"} : SetStatus(s, st)
             \/ \E p \in Deliveries \X Subs : Settle(p) \/ AgeJob(p)
             \/ StartCleanup \/ DeleteExpiredTokens \/ DeleteOldJobs \/ CleanupError
    <3>1. UNCHANGED <<marker, handlerVars>>
      BY <2>6 DEF vars, Rename, Happen, Age, Delete, SetStatus, Settle, AgeJob, StartCleanup,
         DeleteExpiredTokens, DeleteOldJobs, CleanupError, tableVars
    <3> QED BY <2>2, <3>1 DEF handlerVars
  <2> QED BY <2>1, <2>3, <2>4, <2>5, <2>6 DEF Next, Serve, Proceed, Cleanup
<1> QED BY <1>1, <1>2, Inductive, PTL DEF Spec

\* A request is dismissed as a duplicate only of a processed delivery.
THEOREM DuplicatesWereProcessed == Spec => []DuplicateWasProcessed
BY Inductive, PTL DEF IInv

\* No cleanup drops a job that is not settled (CleanupExpired).
THEOREM CleanupKeepsUnsentJobs == Spec => UnsentJobsKept
<1>1. IInv /\ [Next]_vars
        => [\A p \in Deliveries \X Subs : job[p] = "live" => job'[p] # "none"]_vars
  <2> SUFFICES ASSUME IInv, Next, NEW p \in Deliveries \X Subs, job[p] = "live"
               PROVE  job'[p] # "none"
    OBVIOUS
  <2>1. ASSUME NEW h \in Handlers, Serve(h) PROVE job'[p] # "none"
    BY <2>1 DEF Serve, Proceed, Check, List, Reconcile, Mark, InsertJobs, Commit, Fail, Answer,
       tableVars, IInv, Types
  <2>2. CASE Cleanup
    <3>1. CASE DeleteOldDeliveries
      <4>1. p = <<p[1], p[2]>> /\ p[1] \in Deliveries /\ p[2] \in Subs
        OBVIOUS
      <4>2. p[1] \notin Purgeable
        BY <4>1 DEF Purgeable
      <4> QED BY <3>1, <4>2 DEF DeleteOldDeliveries, IInv, Types
    <3> QED BY <2>2, <3>1 DEF Cleanup, StartCleanup, DeleteExpiredTokens, DeleteOldJobs,
               CleanupError, tableVars, IInv, Types
  <2>3. ASSUME ~Cleanup, ~\E h \in Handlers : Serve(h) PROVE job'[p] # "none"
    BY <2>3 DEF Next, Rename, Happen, Age, Post, Delete, SetStatus, Settle, AgeJob, tableVars,
       IInv, Types
  <2> QED BY <2>1, <2>2, <2>3
<1> QED BY <1>1, Inductive, PTL DEF Spec, UnsentJobsKept

-----------------------------------------------------------------------------
(* What "ok" stands for. *)

\* A subscription that stays active is in the list from the query on.
SteadyIsListed ==
  \A h \in Handlers :
    /\ steady[h] \subseteq Active
    /\ pc[h] \in {"reconcile", "mark"} \cup InTransaction =>
         \A s \in steady[h] : <<s, serving[h]>> \in Selects => s \in listed[h]

RInv == SteadyIsListed /\ AcceptedIsQueued

LEMMA ServeRInv ==
  ASSUME IInv, IInv', RInv, NEW h \in Handlers, Serve(h)
  PROVE  RInv'
<1>1. /\ \A g \in Handlers \ {h} : /\ pc'[g] = pc[g] /\ serving'[g] = serving[g]
                                  /\ listed'[g] = listed[g] /\ steady'[g] = steady[g]
      /\ steady'[h] \subseteq steady[h]
      /\ UNCHANGED subStatus
      /\ \A p \in Deliveries \X Subs : made'[p] >= made[p]
  <2>1. /\ pc' = [pc EXCEPT ![h] = pc'[h]] /\ serving' = [serving EXCEPT ![h] = serving'[h]]
        /\ listed' = [listed EXCEPT ![h] = listed'[h]]
        /\ steady' = [steady EXCEPT ![h] = steady'[h]] /\ steady'[h] \subseteq steady[h]
    <3>1. CASE Check(h) \/ Reconcile(h) \/ Mark(h) \/ InsertJobs(h) \/ Fail(h)
      BY <3>1 DEF IInv, Types, Check, Reconcile, Mark, InsertJobs, Fail, Goto, historyVars
    <3>2. CASE List(h) \/ Commit(h) \/ Answer(h)
      BY <3>2 DEF IInv, Types, List, Commit, Answer, Goto, historyVars
    <3> QED BY <3>1, <3>2 DEF Serve, Proceed
  <2>2. UNCHANGED subStatus
    BY DEF Serve, Proceed, Check, List, Reconcile, Mark, InsertJobs, Commit, Fail, Answer, subVars
  <2>3. \A p \in Deliveries \X Subs : made'[p] >= made[p]
    <3>1. \A p \in Deliveries \X Subs : made'[p] = made[p] \/ made'[p] = made[p] + 1
      BY DEF IInv, Types, Serve, Proceed, Check, List, Reconcile, Mark, InsertJobs, Commit, Fail, Answer,
         historyVars
    <3>2. \A p \in Deliveries \X Subs : made[p] \in Nat
      BY DEF IInv, Types
    <3> QED BY <3>1, <3>2
  <2> QED BY <2>1, <2>2, <2>3 DEF IInv, Types
<1>2. \A g \in Handlers \ {h} : pc[g] = "ok" =>
        \A s \in steady[g] : <<s, serving[g]>> \in Selects => made'[<<serving[g], s>>] > 0
  <2> SUFFICES ASSUME NEW g \in Handlers, pc[g] = "ok", NEW s \in steady[g],
                      <<s, serving[g]>> \in Selects
               PROVE  made'[<<serving[g], s>>] > 0
    OBVIOUS
  <2>1. serving[g] \in Deliveries /\ s \in Subs /\ made[<<serving[g], s>>] > 0
    BY DEF IInv, Types, Serving, RInv, AcceptedIsQueued
  <2>2. <<serving[g], s>> \in Deliveries \X Subs
    BY <2>1
  <2>3. made[<<serving[g], s>>] \in Nat /\ made'[<<serving[g], s>>] \in Nat
    BY <2>2 DEF IInv, Types
  <2> QED BY <1>1, <2>1, <2>2, <2>3
<1>3. CASE List(h)
  <2>1. /\ pc'[h] = "reconcile" /\ serving'[h] = serving[h] /\ steady'[h] = steady[h]
        /\ listed'[h] = {s \in Active : <<s, serving[h]>> \in Selects}
    BY <1>3 DEF IInv, Types, List, Goto, Matching, historyVars
  <2>2. SteadyIsListed'
    BY <1>1, <2>1 DEF RInv, SteadyIsListed, Active
  <2>3. AcceptedIsQueued'
    BY <1>1, <1>2, <2>1 DEF AcceptedIsQueued
  <2> QED BY <2>2, <2>3 DEF RInv
<1>4. CASE Commit(h)
  <2>1. /\ pc[h] = "commit" /\ pc'[h] \in {"ok", "error"}
        /\ serving'[h] = serving[h] /\ steady'[h] = steady[h]
        /\ \A s \in listed[h] : made'[<<serving[h], s>>] > 0
    <3>1. ASSUME NEW s \in listed[h] PROVE made'[<<serving[h], s>>] > 0
      <4>1. serving[h] \in Deliveries /\ s \in Subs /\ DOMAIN job = Deliveries \X Subs
        BY <1>4 DEF IInv, Types, Serving, Commit
      <4>2. <<serving[h], s>> \in Deliveries \X Subs /\ <<serving[h], s>> \in {serving[h]} \X listed[h]
        BY <4>1
      <4>3. made'[<<serving[h], s>>] = made[<<serving[h], s>>] + 1
        BY <1>4, <4>1, <4>2 DEF Commit
      <4>4. made[<<serving[h], s>>] \in Nat
        BY <4>2 DEF IInv, Types
      <4> QED BY <4>3, <4>4
    <3> QED BY <1>4, <3>1 DEF IInv, Types, Commit, Goto
  <2>2. SteadyIsListed'
    BY <1>1, <2>1 DEF RInv, SteadyIsListed, Active, InTransaction
  <2>3. \A s \in steady[h] : <<s, serving[h]>> \in Selects => s \in listed[h]
    BY <2>1 DEF RInv, SteadyIsListed, InTransaction
  <2>4. AcceptedIsQueued'
    BY <1>1, <1>2, <2>1, <2>3 DEF AcceptedIsQueued
  <2> QED BY <2>2, <2>4 DEF RInv
<1>5. CASE Reconcile(h) \/ Mark(h) \/ InsertJobs(h)
  <2>1. /\ pc[h] \in {"reconcile", "mark"} \cup InTransaction /\ pc'[h] # "ok"
        /\ UNCHANGED <<serving, listed, steady>>
    BY <1>5 DEF IInv, Types, Reconcile, Mark, InsertJobs, Goto, InTransaction, historyVars
  <2> QED BY <1>1, <1>2, <2>1 DEF RInv, SteadyIsListed, AcceptedIsQueued, Active
<1>6. CASE Check(h) \/ Fail(h) \/ Answer(h)
  <2>1. pc'[h] \notin {"reconcile", "mark", "ok"} \cup InTransaction
    BY <1>6 DEF IInv, Types, Check, Fail, Answer, Goto, InTransaction
  <2> QED BY <1>1, <1>2, <2>1 DEF RInv, SteadyIsListed, AcceptedIsQueued, Active
<1> QED BY <1>3, <1>4, <1>5, <1>6 DEF Serve, Proceed

LEMMA NextRInv == IInv /\ IInv' /\ RInv /\ [Next]_vars => RInv'
<1> SUFFICES ASSUME IInv, IInv', RInv, [Next]_vars PROVE RInv'
  OBVIOUS
<1>1. ASSUME NEW h \in Handlers, NEW d \in Deliveries, Post(h, d) PROVE RInv'
  <2>1. /\ \A g \in Handlers \ {h} : pc'[g] = pc[g] /\ serving'[g] = serving[g] /\ steady'[g] = steady[g]
        /\ pc'[h] = "check" /\ steady'[h] = Active
        /\ UNCHANGED <<subStatus, listed, made>>
    BY <1>1 DEF IInv, Types, Post, subVars
  <2> QED BY <2>1 DEF RInv, SteadyIsListed, AcceptedIsQueued, Active, InTransaction
<1>2. ASSUME NEW s \in Subs, Delete(s) \/ \E st \in {"active", "paused"} : SetStatus(s, st)
      PROVE  RInv'
  <2>1. /\ UNCHANGED <<pc, serving, listed, made>>
        /\ \A t \in Subs \ {s} : subStatus'[t] = subStatus[t]
        /\ \A h \in Handlers : steady'[h] = steady[h] \ {s}
    BY <1>2 DEF IInv, Types, Delete, SetStatus, handlerVars
  <2> QED BY <2>1 DEF RInv, SteadyIsListed, AcceptedIsQueued, Active, IInv, Types
<1>3. CASE UNCHANGED <<pc, serving, listed, steady, made, subStatus>>
  BY <1>3 DEF RInv, SteadyIsListed, AcceptedIsQueued, Active
<1>4. CASE \/ Rename \/ Cleanup \/ UNCHANGED vars
           \/ \E d \in Deliveries : Happen(d) \/ Age(d)
           \/ \E p \in Deliveries \X Subs : Settle(p) \/ AgeJob(p)
  BY <1>3, <1>4 DEF Rename, Cleanup, StartCleanup, DeleteExpiredTokens, DeleteOldJobs,
     DeleteOldDeliveries, CleanupError, Happen, Age, Settle, AgeJob, vars, subVars, handlerVars,
     historyVars
<1> QED BY <1>1, <1>2, <1>4, ServeRInv DEF Next

\* "ok" is answered only when every subscription that was active throughout
\* and lets the event through has its job (ServeHTTP).
THEOREM AcceptedWasQueued == Spec => []AcceptedIsQueued
<1>1. Init => RInv
  BY DEF Init, RInv, SteadyIsListed, AcceptedIsQueued, InTransaction
<1> QED BY <1>1, NextRInv, Inductive, PTL DEF Spec, RInv

-----------------------------------------------------------------------------
(* The ledger. *)

\* What a request has listed lets the event through.
ListedIsSelected ==
  \A h \in Handlers : pc[h] \in {"reconcile", "mark"} \cup InTransaction =>
    \A s \in listed[h] : <<s, serving[h]>> \in Selects

LEMMA NextListed ==
  ASSUME IInv, ListedIsSelected, [Next]_vars
  PROVE  ListedIsSelected'
<1>1. CASE UNCHANGED <<pc, serving, listed>>
  BY <1>1 DEF ListedIsSelected
<1>2. ASSUME NEW h \in Handlers, List(h) PROVE ListedIsSelected'
  <2>1. /\ serving' = serving /\ listed'[h] = {s \in Active : <<s, serving[h]>> \in Selects}
        /\ \A g \in Handlers \ {h} : pc'[g] = pc[g] /\ listed'[g] = listed[g]
    BY <1>2 DEF IInv, Types, List, Goto, Matching
  <2> QED BY <2>1 DEF ListedIsSelected
<1>3. ASSUME NEW h \in Handlers, Reconcile(h) \/ Mark(h) \/ InsertJobs(h) PROVE ListedIsSelected'
  <2>1. /\ UNCHANGED <<serving, listed>> /\ \A g \in Handlers \ {h} : pc'[g] = pc[g]
        /\ pc[h] \in {"reconcile", "mark"} \cup InTransaction
    BY <1>3 DEF IInv, Types, Reconcile, Mark, InsertJobs, Goto, InTransaction
  <2> QED BY <2>1 DEF ListedIsSelected
<1>4. ASSUME NEW h \in Handlers,
             \/ Check(h) \/ Commit(h) \/ Fail(h) \/ Answer(h)
             \/ \E d \in Deliveries : Post(h, d)
      PROVE  ListedIsSelected'
  <2>1. /\ pc'[h] \notin {"reconcile", "mark"} \cup InTransaction
        /\ \A g \in Handlers \ {h} : /\ pc'[g] = pc[g] /\ listed'[g] = listed[g]
                                    /\ serving'[g] = serving[g]
    BY <1>4 DEF IInv, Types, Check, Commit, Fail, Answer, Post, Goto, InTransaction
  <2> QED BY <2>1 DEF ListedIsSelected
<1>5. ASSUME \/ Rename \/ Cleanup \/ UNCHANGED vars
             \/ \E d \in Deliveries : Happen(d) \/ Age(d)
             \/ \E s \in Subs : Delete(s) \/ \E st \in {"active", "paused"} : SetStatus(s, st)
             \/ \E p \in Deliveries \X Subs : Settle(p) \/ AgeJob(p)
      PROVE  UNCHANGED <<pc, serving, listed>>
  BY <1>5 DEF Rename, Cleanup, StartCleanup, DeleteExpiredTokens, DeleteOldJobs,
     DeleteOldDeliveries, CleanupError, Happen, Age, Delete, SetStatus, Settle, AgeJob, vars,
     handlerVars
<1> QED BY <1>1, <1>2, <1>3, <1>4, <1>5 DEF Next, Serve, Proceed

\* A step that changes nothing the ledger knows of.
LEMMA Stutters ==
  ASSUME UNCHANGED <<job, serving, steady>>,
         \A d \in Deliveries : marker'[d] = "stored" <=> marker[d] = "stored",
         \A h \in Handlers : ReplyOf(h)' = ReplyOf(h)
  PROVE  UNCHANGED Promise!vars
BY DEF Promise!vars

\* A step that ends a request without an effect.
LEMMA Declines ==
  ASSUME Types, NEW h \in Handlers, ReplyOf(h) = "open",
         NEW a \in {"error", "refused"}, pc' = [pc EXCEPT ![h] = a],
         UNCHANGED <<job, serving, steady>>,
         \A d \in Deliveries : marker'[d] = "stored" <=> marker[d] = "stored"
  PROVE  Promise!Decline(h)
<1>1. \A g \in Handlers : ReplyOf(g)' = IF g = h THEN a ELSE ReplyOf(g)
  BY DEF Types, ReplyOf, Answers
<1> QED BY <1>1 DEF Promise!Decline

\* The step of a request, but for the commit.
LEMMA ServeLedger ==
  ASSUME IInv, NEW h \in Handlers, Serve(h), ~Commit(h)
  PROVE  [Promise!Next]_(Promise!vars)
<1>1. Types
  BY DEF IInv
<1>2. ASSUME NEW l, pc' = [pc EXCEPT ![h] = l], pc[h] \notin Answers \cup {"idle"},
             l \notin Answers \cup {"idle"}
      PROVE  \A g \in Handlers : ReplyOf(g)' = ReplyOf(g)
  BY <1>1, <1>2 DEF Types, ReplyOf
<1>3. CASE Check(h)
  <2>1. UNCHANGED <<job, serving, steady, marker>> /\ pc[h] \notin Answers \cup {"idle"}
    BY <1>3 DEF Check, tableVars, historyVars, Answers
  <2>2. CASE pc' = [pc EXCEPT ![h] = "list"]
    BY <1>2, <2>1, <2>2, Stutters DEF Answers
  <2>3. CASE pc' = [pc EXCEPT ![h] = "refused"]
    BY <1>1, <2>1, <2>3, Declines DEF Promise!Next, ReplyOf
  <2> QED BY <1>3, <2>2, <2>3 DEF Check, Goto
<1>4. CASE List(h) \/ Reconcile(h)
  <2>1. /\ UNCHANGED <<job, serving, steady, marker>> /\ pc[h] \notin Answers \cup {"idle"}
        /\ \E l \in {"reconcile", "mark"} : pc' = [pc EXCEPT ![h] = l]
    BY <1>4 DEF List, Reconcile, Goto, tableVars, historyVars, Answers
  <2> QED BY <1>2, <2>1, Stutters DEF Answers
<1>5. CASE Mark(h)
  <2>1. /\ UNCHANGED <<job, serving, steady>> /\ pc[h] = "mark" /\ serving[h] \in Deliveries
    BY <1>5 DEF Mark, IInv, Serving, historyVars
  <2>2. CASE marker[serving[h]] = "stored"
    <3>1. pc' = [pc EXCEPT ![h] = "duplicate"] /\ UNCHANGED marker
      BY <1>5, <2>2 DEF Mark, Recorded, Goto
    <3>2. \A g \in Handlers : ReplyOf(g)' = IF g = h THEN "duplicate" ELSE ReplyOf(g)
      BY <1>1, <3>1 DEF Types, ReplyOf, Answers
    <3>3. ReplyOf(h) = "open"
      BY <2>1 DEF ReplyOf, Answers
    <3>4. Promise!Dismiss(h)
      BY <2>1, <2>2, <3>1, <3>2, <3>3 DEF Promise!Dismiss
    <3> QED BY <3>4 DEF Promise!Next
  <2>3. CASE marker[serving[h]] # "stored"
    <3>1. /\ pc' = [pc EXCEPT ![h] = "jobs"]
          /\ \A d \in Deliveries : marker'[d] = "stored" <=> marker[d] = "stored"
      BY <1>1, <1>5, <2>1, <2>3 DEF Mark, Recorded, Goto, Types
    <3> QED BY <1>2, <2>1, <3>1, Stutters DEF Answers
  <2> QED BY <2>2, <2>3
<1>6. CASE InsertJobs(h) \/ Fail(h)
  <2>1. /\ UNCHANGED <<job, serving, steady>> /\ serving[h] \in Deliveries
        /\ pc[h] \notin Answers \cup {"idle"}
    BY <1>6 DEF InsertJobs, Fail, IInv, Serving, historyVars, Answers
  <2>2. \A d \in Deliveries : marker'[d] = "stored" <=> marker[d] = "stored"
    <3>1. pc[h] \in InTransaction => marker[serving[h]] = "held"
      BY DEF IInv, OneHolder
    <3> QED BY <1>1, <1>6, <2>1, <3>1 DEF InsertJobs, Fail, RolledBack, InTransaction, Types
  <2>3. CASE pc' = [pc EXCEPT ![h] = "error"]
    BY <1>1, <2>1, <2>2, <2>3, Declines DEF Promise!Next, ReplyOf
  <2>4. CASE pc' = [pc EXCEPT ![h] = "commit"]
    BY <1>2, <2>1, <2>2, <2>4, Stutters DEF Answers
  <2> QED BY <1>6, <2>3, <2>4 DEF InsertJobs, Fail, Goto
<1>7. CASE Answer(h)
  <2>1. /\ pc[h] \in Answers /\ pc' = [pc EXCEPT ![h] = "idle"] /\ UNCHANGED <<job, marker>>
        /\ serving' = [serving EXCEPT ![h] = None] /\ steady' = [steady EXCEPT ![h] = {}]
    BY <1>7 DEF Answer, Goto, tableVars
  <2>2. \A g \in Handlers : ReplyOf(g)' = IF g = h THEN "none" ELSE ReplyOf(g)
    BY <1>1, <2>1 DEF Types, ReplyOf
  <2>3. ReplyOf(h) \notin {"none", "open"}
    BY <2>1 DEF ReplyOf, Answers
  <2>4. Promise!Close(h)
    BY <2>1, <2>2, <2>3 DEF Promise!Close
  <2> QED BY <2>4 DEF Promise!Next
<1> QED BY <1>3, <1>4, <1>5, <1>6, <1>7 DEF Serve, Proceed

\* The commit is where a delivery and its jobs appear, all at once.
LEMMA CommitLedger ==
  ASSUME IInv, RInv, ListedIsSelected, NEW h \in Handlers, Commit(h)
  PROVE  Promise!Next
<1> DEFINE d == serving[h]
<1>0. PICK S \in SUBSET Subs : S = listed[h] \cup steady[h]
  BY DEF IInv, Types
<1>1. Types /\ pc[h] = "commit" /\ d \in Deliveries /\ marker[d] = "held"
  BY DEF IInv, Types, Serving, OneHolder, Commit, InTransaction
<1>2. Promise!Selected(h, S) = listed[h]
  BY <1>0, <1>1 DEF Promise!Selected, ListedIsSelected, RInv, SteadyIsListed, InTransaction
<1>3. PICK a \in {"ok", "error"} : pc' = [pc EXCEPT ![h] = a]
  BY DEF Commit, Goto
<1>4. \A g \in Handlers : ReplyOf(g)' = IF g = h THEN a ELSE ReplyOf(g)
  BY <1>1, <1>3 DEF Types, ReplyOf, Answers
<1>5. ReplyOf(h) = "open"
  BY <1>1 DEF ReplyOf, Answers
<1>6. /\ job' = [p \in Deliveries \X Subs |-> IF p \in {d} \X listed[h] THEN "live" ELSE job[p]]
      /\ UNCHANGED <<serving, steady>>
      /\ marker' = [marker EXCEPT ![d] = "stored"]
  BY <1>1 DEF Commit, Types
<1>7. {e \in Deliveries : marker[e] = "stored"}' = {e \in Deliveries : marker[e] = "stored"} \cup {d}
  BY <1>1, <1>6 DEF Types
<1>8. [g \in Handlers |-> ReplyOf(g)]' = [[g \in Handlers |-> ReplyOf(g)] EXCEPT ![h] = a]
  BY <1>4
<1>9. Promise!Record(h, S)
  <2>1. steady[h] \subseteq S
    BY <1>0
  <2> QED BY <1>1, <1>2, <1>5, <1>6, <1>7, <1>8, <2>1 DEF Promise!Record
<1> QED BY <1>9 DEF Promise!Next

\* Everything else: requests that come in, subscriptions that change, jobs that
\* are settled, and the cleanup.
LEMMA AroundLedger ==
  ASSUME IInv, [Next]_vars, ~\E h \in Handlers : Serve(h)
  PROVE  [Promise!Next]_(Promise!vars)
<1>1. Types
  BY DEF IInv
<1>2. ASSUME NEW h \in Handlers, NEW d \in Deliveries, Post(h, d) PROVE Promise!Next
  <2>1. /\ pc[h] = "idle" /\ pc' = [pc EXCEPT ![h] = "check"] /\ UNCHANGED <<job, marker>>
        /\ serving' = [serving EXCEPT ![h] = d] /\ steady' = [steady EXCEPT ![h] = Active]
    BY <1>2 DEF Post, tableVars
  <2>2. \A g \in Handlers : ReplyOf(g)' = IF g = h THEN "open" ELSE ReplyOf(g)
    BY <1>1, <2>1 DEF Types, ReplyOf, Answers
  <2>3. ReplyOf(h) = "none" /\ Active \in SUBSET Subs
    BY <2>1 DEF ReplyOf, Active
  <2>4. Promise!Ask(h, d, Active)
    BY <2>1, <2>2, <2>3 DEF Promise!Ask
  <2> QED BY <2>3, <2>4 DEF Promise!Next
<1>3. ASSUME NEW s \in Subs, Delete(s) \/ \E st \in {"active", "paused"} : SetStatus(s, st)
      PROVE  Promise!Next
  <2>1. /\ UNCHANGED <<job, marker, serving, pc>>
        /\ steady' = [h \in Handlers |-> steady[h] \ {s}]
    BY <1>3 DEF Delete, SetStatus, tableVars, handlerVars
  <2>2. Promise!Leave(s)
    BY <2>1 DEF Promise!Leave, ReplyOf
  <2> QED BY <2>2 DEF Promise!Next
<1>4. ASSUME NEW p \in Deliveries \X Subs, Settle(p) PROVE Promise!Next
  <2>1. Promise!Settle(p)
    BY <1>4 DEF Settle, Promise!Settle, ReplyOf, handlerVars, historyVars
  <2> QED BY <2>1 DEF Promise!Next
<1>5. CASE DeleteOldJobs
  <2> DEFINE P == {p \in Deliveries \X Subs : job[p] = "done" /\ oldJob[p]}
  <2>1. Promise!Prune(P)
    BY <1>1, <1>5 DEF DeleteOldJobs, Promise!Prune, ReplyOf, handlerVars, historyVars, Types
  <2> QED BY <2>1 DEF Promise!Next
<1>6. CASE DeleteOldDeliveries
  <2>1. PICK D \in SUBSET Deliveries : D = Purgeable
    BY DEF Purgeable
  <2>2. D \subseteq {d \in Deliveries : marker[d] = "stored"}
        /\ \A d \in D, s \in Subs : job[<<d, s>>] # "live"
    BY <2>1 DEF Purgeable
  <2>3. {d \in Deliveries : marker[d] = "stored"}' = {d \in Deliveries : marker[d] = "stored"} \ D
    BY <1>6, <2>1 DEF DeleteOldDeliveries
  <2>4. /\ job' = [p \in Deliveries \X Subs |-> IF p[1] \in D THEN "none" ELSE job[p]]
        /\ UNCHANGED <<serving, steady, pc>>
    BY <1>1, <1>6, <2>1 DEF DeleteOldDeliveries, handlerVars, Types
  <2>5. Promise!Forget(D)
    BY <2>2, <2>3, <2>4 DEF Promise!Forget, ReplyOf
  <2> QED BY <2>5 DEF Promise!Next
<1>7. CASE \/ Rename \/ StartCleanup \/ DeleteExpiredTokens \/ CleanupError \/ UNCHANGED vars
           \/ \E d \in Deliveries : Happen(d) \/ Age(d)
           \/ \E p \in Deliveries \X Subs : AgeJob(p)
  <2>1. UNCHANGED <<job, marker, serving, steady, pc>>
    BY <1>7 DEF Rename, StartCleanup, DeleteExpiredTokens, CleanupError, Happen, Age, AgeJob, vars,
       tableVars, handlerVars, historyVars
  <2> QED BY <2>1, Stutters DEF ReplyOf
<1> QED BY <1>2, <1>3, <1>4, <1>5, <1>6, <1>7 DEF Next, Cleanup

\* The intake implements its ledger: a delivery appears with all its jobs in one
\* step, whatever transactions, rollbacks, crashes and cleanups go on.
THEOREM IntakeImplementsLedger == Spec => ImplementsLedger
<1>1. Init => Promise!Init /\ RInv /\ ListedIsSelected
  BY DEF Init, Promise!Init, ReplyOf, RInv, SteadyIsListed, AcceptedIsQueued, ListedIsSelected,
     InTransaction
<1>2. IInv /\ IInv' /\ RInv /\ ListedIsSelected /\ [Next]_vars => RInv' /\ ListedIsSelected'
  BY NextRInv, NextListed
<1>3. IInv /\ RInv /\ ListedIsSelected /\ [Next]_vars => [Promise!Next]_(Promise!vars)
  <2> SUFFICES ASSUME IInv, RInv, ListedIsSelected, [Next]_vars
               PROVE  [Promise!Next]_(Promise!vars)
    OBVIOUS
  <2>1. ASSUME NEW h \in Handlers, Serve(h) PROVE [Promise!Next]_(Promise!vars)
    BY <2>1, ServeLedger, CommitLedger
  <2>2. CASE ~\E h \in Handlers : Serve(h)
    BY <2>2, AroundLedger
  <2> QED BY <2>1, <2>2
<1> QED BY <1>1, <1>2, <1>3, Inductive, PTL DEF Spec, ImplementsLedger, Promise!Spec

-----------------------------------------------------------------------------
(* Settings. *)

\* For the settings the table admits the filter delivers what users are told, no
\* more and no less, up to the first news of a merge.
LEMMA FilterAsPromised ==
  ASSUME NEW Branches, NEW f, NEW event, NEW p \in Payloads(Branches), Stored(f), FirstNews(p)
  PROVE  Delivers(f, event, p) <=> Promised(f, event, p)
<1>1. NormalizePullRequestActions(f.actions) = f.actions
  BY DEF NormalizePullRequestActions, Stored
<1>2. CASE event = "push"
  <2>1. Promised(f, event, p) <=>
          p.refKind = "heads" /\ ~p.deleted /\ p.commits > 0 /\ ListensTo(f, p.branch, p.default)
    BY <1>2 DEF Promised
  <2>2. CASE p.deleted \/ p.refKind # "heads" \/ p.commits = 0
    BY <1>2, <2>1, <2>2 DEF Delivers, ParseEvent, ParsePush, Payloads
  <2>3. CASE ~(p.deleted \/ p.refKind # "heads" \/ p.commits = 0)
    <3> DEFINE e == Event("push", [p EXCEPT !.action = "", !.merged = FALSE, !.prerelease = FALSE])
    <3>1. /\ ParseEvent(event, p) = {e} /\ e.type = "push"
          /\ e.branch = p.branch /\ e.default = p.default
      BY <1>2, <2>3 DEF ParseEvent, ParsePush, Event, Payloads
    <3> HIDE DEF e
    <3>2. MatchesBranch(f, e) <=> ListensTo(f, p.branch, p.default)
      BY <3>1 DEF MatchesBranch, DefaultBranch, ListensTo, Stored
    <3>3. MatchesSubscription(f, e) <=> MatchesBranch(f, e)
      BY <3>1 DEF MatchesSubscription
    <3> QED BY <2>1, <2>3, <3>1, <3>2, <3>3 DEF Delivers, Payloads
  <2> QED BY <2>2, <2>3
<1>3. CASE event = "pull_request"
  <2> DEFINE e == Event("pull_request", [p EXCEPT !.prerelease = FALSE])
  <2>1. /\ ParseEvent(event, p) = {e} /\ e.type = "pull_request"
        /\ e.branch = p.branch /\ e.default = p.default
        /\ e.action = p.action /\ e.merged = p.merged
    BY <1>3 DEF ParseEvent, ParsePullRequest, Event, Payloads
  <2> HIDE DEF e
  <2>2. MatchesBranch(f, e) <=> ListensTo(f, p.branch, p.default)
    BY <2>1 DEF MatchesBranch, DefaultBranch, ListensTo, Stored
  <2>3. MatchesPullRequestAction(f.actions, e) <=> Happening(p) \in f.actions
    BY <1>1, <2>1 DEF MatchesPullRequestAction, Happening, FirstNews, Stored, AllActions, Payloads
  <2>4. MatchesSubscription(f, e) <=> MatchesBranch(f, e) /\ MatchesPullRequestAction(f.actions, e)
    BY <2>1 DEF MatchesSubscription
  <2> QED BY <1>3, <2>1, <2>2, <2>3, <2>4 DEF Delivers, Promised
<1>4. CASE event = "release"
  <2>1. CASE p.action # "published"
    BY <1>4, <2>1 DEF Delivers, Promised, ParseEvent, ParseRelease
  <2>2. CASE p.action = "published"
    <3> DEFINE e == Event("release", [p EXCEPT !.merged = FALSE])
    <3>1. /\ ParseEvent(event, p) = {e} /\ e.type = "release"
          /\ e.prerelease = p.prerelease
      BY <1>4, <2>2 DEF ParseEvent, ParseRelease, Event, Payloads
    <3> HIDE DEF e
    <3>2. MatchesReleaseMode(f.releaseMode, e) <=>
            f.releaseMode = "all" \/ p.prerelease = (f.releaseMode = "prereleases")
      BY <3>1 DEF MatchesReleaseMode, Stored, Payloads
    <3>3. MatchesSubscription(f, e) <=> MatchesReleaseMode(f.releaseMode, e)
      BY <3>1 DEF MatchesSubscription
    <3> QED BY <1>4, <2>2, <3>1, <3>2, <3>3 DEF Delivers, Promised
  <2> QED BY <2>1, <2>2
<1>5. CASE event \notin {"push", "pull_request", "release"}
  BY <1>5 DEF Delivers, Promised, ParseEvent
<1> QED BY <1>2, <1>3, <1>4, <1>5

\* A request answered with "ok" has queued a job for every subscription that was
\* active all the time and whose settings, as users are told, announce the event.
THEOREM PromisedWasQueued ==
  ASSUME NEW Branches, NEW settings, NEW event, NEW payload \in [Deliveries -> Payloads(Branches)],
         \A s \in Subs : Stored(settings[s]),
         \A d \in Deliveries : FirstNews(payload[d]),
         Selects = {p \in Subs \X Deliveries : Delivers(settings[p[1]], event[p[2]], payload[p[2]])}
  PROVE  Spec => [](\A h \in Handlers : pc[h] = "ok" =>
                      \A s \in steady[h] :
                        Promised(settings[s], event[serving[h]], payload[serving[h]]) =>
                          made[<<serving[h], s>>] > 0)
<1> DEFINE Queued ==
      \A h \in Handlers : pc[h] = "ok" =>
        \A s \in steady[h] :
          Promised(settings[s], event[serving[h]], payload[serving[h]]) =>
            made[<<serving[h], s>>] > 0
<1>1. IInv /\ AcceptedIsQueued => Queued
  <2> SUFFICES ASSUME IInv, AcceptedIsQueued, NEW h \in Handlers, pc[h] = "ok",
                      NEW s \in steady[h],
                      Promised(settings[s], event[serving[h]], payload[serving[h]])
               PROVE  made[<<serving[h], s>>] > 0
    OBVIOUS
  <2>1. s \in Subs /\ serving[h] \in Deliveries
    BY DEF IInv, Types, Serving
  <2>2. Delivers(settings[s], event[serving[h]], payload[serving[h]])
    BY <2>1, FilterAsPromised
  <2>3. <<s, serving[h]>> \in Selects
    BY <2>1, <2>2
  <2> QED BY <2>3 DEF AcceptedIsQueued
<1> QED BY <1>1, Inductive, AcceptedWasQueued, PTL
=============================================================================
