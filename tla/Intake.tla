------------------------------- MODULE Intake -------------------------------
(***************************************************************************)
(* The webhook intake: requests served by ServeHTTP                        *)
(* (internal/webhooks/handler.go), the transaction that records a delivery *)
(* and queues its jobs, and the hourly CleanupExpired (internal/db/db.go). *)
(* GitHub posts a delivery when its event happens and again, under the     *)
(* same id, whenever somebody asks for a redelivery.                       *)
(*                                                                         *)
(* All subscriptions are on one repository and list the events of all      *)
(* Deliveries; an edit of the listed events is, for a delivery, a pause or *)
(* a resume.  Names of the repository are numbered in the order GitHub     *)
(* gave them.  Rows are "old" when the retention window has passed.  A     *)
(* crash fails every request and the cleanup, each at its current step.    *)
(***************************************************************************)
EXTENDS Naturals, FiniteSets

CONSTANTS
  Handlers,    \* requests served at a time
  Deliveries,  \* delivery ids of supported events
  Subs,        \* subscriptions
  Selects,     \* pairs <<s, d>> the settings of s let through
  None,
  MaxRenames,  \* bound: renames of the repository
  MaxPurges    \* bound: no redelivery after a delivery was purged that often

ASSUME IntakeAssumption ==
  /\ Selects \subseteq Subs \X Deliveries
  /\ None \notin Deliveries \cup Nat
  /\ MaxRenames \in Nat /\ MaxPurges \in Nat

VARIABLES
  \* GitHub
  repoName,
  payloadName,  \* name in the payload of each delivery, None before the event
  \* subscriptions
  subStatus, name,
  \* webhook_deliveries and notification_jobs; "held" is the uncommitted row
  marker, old, job, oldJob,
  \* ServeHTTP
  pc, serving,
  listed,       \* subscriptions the query returned
  stale,        \* one of them had another repository name
  cleaning,     \* the table CleanupExpired gets to next
  \* history
  made,         \* jobs ever queued for a delivery and a subscription
  purged,       \* times a delivery was forgotten
  processed,    \* deliveries whose transaction committed
  steady        \* subscriptions active ever since a request came in

githubVars == <<repoName, payloadName>>
subVars == <<subStatus, name>>
tableVars == <<marker, old, job, oldJob>>
handlerVars == <<pc, serving, listed, stale>>
historyVars == <<made, purged, processed, steady>>
vars == <<githubVars, subVars, tableVars, handlerVars, cleaning, historyVars>>

Answers == {"ok", "duplicate", "error", "refused"}
Locations == {"idle", "check", "list", "reconcile", "mark", "jobs", "commit"} \cup Answers
InTransaction == {"jobs", "commit"}

Types ==
  /\ repoName \in 0..MaxRenames
  /\ payloadName \in [Deliveries -> 0..MaxRenames \cup {None}]
  /\ subStatus \in [Subs -> {"active", "paused", "deleted"}]
  /\ name \in [Subs -> 0..MaxRenames]
  /\ marker \in [Deliveries -> {"none", "held", "stored"}]
  /\ old \in [Deliveries -> BOOLEAN]
  /\ job \in [Deliveries \X Subs -> {"none", "live", "done"}]
  /\ oldJob \in [Deliveries \X Subs -> BOOLEAN]
  /\ pc \in [Handlers -> Locations]
  /\ serving \in [Handlers -> Deliveries \cup {None}]
  /\ listed \in [Handlers -> SUBSET Subs]
  /\ stale \in [Handlers -> BOOLEAN]
  /\ cleaning \in {"off", "tokens", "jobs", "deliveries"}
  /\ made \in [Deliveries \X Subs -> Nat]
  /\ purged \in [Deliveries -> Nat]
  /\ processed \subseteq Deliveries
  /\ steady \in [Handlers -> SUBSET Subs]

\* Every job has its delivery, committed before or with it.
ForeignKey == \A p \in Deliveries \X Subs : job[p] # "none" => marker[p[1]] = "stored"

TypeOK == Types /\ ForeignKey

Init ==
  /\ repoName = 0
  /\ payloadName = [d \in Deliveries |-> None]
  /\ subStatus = [s \in Subs |-> "active"]
  /\ name = [s \in Subs |-> 0]
  /\ marker = [d \in Deliveries |-> "none"]
  /\ old = [d \in Deliveries |-> FALSE]
  /\ job = [p \in Deliveries \X Subs |-> "none"]
  /\ oldJob = [p \in Deliveries \X Subs |-> FALSE]
  /\ pc = [h \in Handlers |-> "idle"]
  /\ serving = [h \in Handlers |-> None]
  /\ listed = [h \in Handlers |-> {}]
  /\ stale = [h \in Handlers |-> FALSE]
  /\ cleaning = "off"
  /\ made = [p \in Deliveries \X Subs |-> 0]
  /\ purged = [d \in Deliveries |-> 0]
  /\ processed = {}
  /\ steady = [h \in Handlers |-> {}]

-----------------------------------------------------------------------------
(* GitHub and users. *)

Rename ==
  /\ repoName < MaxRenames
  /\ repoName' = repoName + 1
  /\ UNCHANGED <<payloadName, subVars, tableVars, handlerVars, cleaning, historyVars>>

Happen(d) ==
  /\ payloadName[d] = None
  /\ payloadName' = [payloadName EXCEPT ![d] = repoName]
  /\ UNCHANGED <<repoName, subVars, tableVars, handlerVars, cleaning, historyVars>>

Active == {s \in Subs : subStatus[s] = "active"}

Post(h, d) ==
  /\ pc[h] = "idle" /\ payloadName[d] # None /\ purged[d] <= MaxPurges
  /\ pc' = [pc EXCEPT ![h] = "check"]
  /\ serving' = [serving EXCEPT ![h] = d]
  /\ steady' = [steady EXCEPT ![h] = Active]
  /\ UNCHANGED <<githubVars, subVars, tableVars, listed, stale, cleaning,
                 made, purged, processed>>

SetStatus(s, st) ==
  /\ subStatus[s] # "deleted" /\ st # subStatus[s]
  /\ subStatus' = [subStatus EXCEPT ![s] = st]
  /\ steady' = [h \in Handlers |-> steady[h] \ {s}]
  /\ UNCHANGED <<githubVars, name, tableVars, handlerVars, cleaning, made, purged, processed>>

\* Subscriptions the transaction of a request has inserted jobs for: the
\* foreign key locks them until it ends.
Locked == UNION {listed[h] : h \in {g \in Handlers : pc[g] = "commit"}}

Delete(s) ==
  /\ subStatus[s] # "deleted" /\ s \notin Locked
  /\ subStatus' = [subStatus EXCEPT ![s] = "deleted"]
  /\ steady' = [h \in Handlers |-> steady[h] \ {s}]
  /\ UNCHANGED <<githubVars, name, tableVars, handlerVars, cleaning, made, purged, processed>>

-----------------------------------------------------------------------------
(* ServeHTTP. *)

Goto(h, l) == pc' = [pc EXCEPT ![h] = l]

\* Method, size, signature, rate limit, delivery id and payload are checked
\* before the store is touched; any of them ends the request.
Check(h) ==
  /\ pc[h] = "check"
  /\ \E l \in {"list", "refused"} : Goto(h, l)
  /\ UNCHANGED <<githubVars, subVars, tableVars, serving, listed, stale, cleaning, historyVars>>

\* Mutant: the query matches the name in the payload, not the repository id.
MatchingByName(d) == {s \in Active : name[s] = payloadName[d]}

\* The rows ListActiveSubscriptionsForRepoEvent returns for a delivery.
Matching(d) == Active

List(h) ==
  /\ pc[h] = "list"
  /\ LET d == serving[h] IN
       /\ stale' = [stale EXCEPT ![h] = \E s \in Matching(d) : name[s] # payloadName[d]]
       /\ listed' = [listed EXCEPT ![h] = {s \in Matching(d) : <<s, d>> \in Selects}]
  /\ Goto(h, "reconcile")
  /\ UNCHANGED <<githubVars, subVars, tableVars, serving, cleaning, historyVars>>

\* ReconcileSubscriptionRepoName, or its error, which is only logged.
Reconcile(h) ==
  /\ pc[h] = "reconcile"
  /\ \/ /\ stale[h]
        /\ name' = [s \in Subs |-> IF subStatus[s] = "deleted" THEN name[s]
                                   ELSE payloadName[serving[h]]]
     \/ UNCHANGED name
  /\ Goto(h, "mark")
  /\ UNCHANGED <<githubVars, subStatus, tableVars, serving, listed, stale, cleaning, historyVars>>

\* Mutant: the insert overwrites the row of an earlier delivery.
RecordedNever(d) == FALSE

\* ON CONFLICT (delivery_id) DO NOTHING affects no row.
Recorded(d) == marker[d] = "stored"

\* The insert waits while another transaction holds the row.
Mark(h) ==
  /\ pc[h] = "mark"
  /\ LET d == serving[h] IN
       /\ marker[d] # "held"
       /\ IF Recorded(d) THEN Goto(h, "duplicate") /\ UNCHANGED marker
          ELSE Goto(h, "jobs") /\ marker' = [marker EXCEPT ![d] = "held"]
  /\ UNCHANGED <<githubVars, subVars, old, job, oldJob, serving, listed, stale, cleaning,
                 historyVars>>

\* Mutant: the marker is inserted outside the transaction and survives it.
RolledBackKeepsMarker == "stored"

\* Mutant: an error path forgets the deferred Rollback.
RolledBackNever == "held"

\* The marker's row after a rollback.
RolledBack == "none"

\* The jobs of deleted subscriptions violate the foreign key.
InsertJobs(h) ==
  /\ pc[h] = "jobs"
  /\ IF \E s \in listed[h] : subStatus[s] = "deleted"
     THEN Goto(h, "error") /\ marker' = [marker EXCEPT ![serving[h]] = RolledBack]
     ELSE Goto(h, "commit") /\ UNCHANGED marker
  /\ UNCHANGED <<githubVars, subVars, old, job, oldJob, serving, listed, stale, cleaning,
                 historyVars>>

\* The answer may still be an error: the commit's own reply can get lost.
Commit(h) ==
  /\ pc[h] = "commit"
  /\ LET d == serving[h]
         new == {d} \X listed[h]
     IN  /\ marker' = [marker EXCEPT ![d] = "stored"]
         /\ old' = [old EXCEPT ![d] = FALSE]
         /\ job' = [p \in DOMAIN job |-> IF p \in new THEN "live" ELSE job[p]]
         /\ oldJob' = [p \in DOMAIN job |-> oldJob[p] /\ p \notin new]
         /\ made' = [p \in DOMAIN job |-> IF p \in new THEN made[p] + 1 ELSE made[p]]
         /\ processed' = processed \cup {d}
  /\ \E l \in {"ok", "error"} : Goto(h, l)
  /\ UNCHANGED <<githubVars, subVars, serving, listed, stale, cleaning, purged, steady>>

\* A statement or the process fails; an open transaction is rolled back.  (The
\* error of the reconciliation alone is Reconcile without an effect.)
Fail(h) ==
  /\ pc[h] \in {"list", "reconcile", "mark", "jobs", "commit"}
  /\ marker' = [marker EXCEPT ![serving[h]] = IF pc[h] \in InTransaction THEN RolledBack ELSE @]
  /\ Goto(h, "error")
  /\ UNCHANGED <<githubVars, subVars, old, job, oldJob, serving, listed, stale, cleaning,
                 historyVars>>

Answer(h) ==
  /\ pc[h] \in Answers
  /\ Goto(h, "idle")
  /\ serving' = [serving EXCEPT ![h] = None]
  /\ listed' = [listed EXCEPT ![h] = {}]
  /\ stale' = [stale EXCEPT ![h] = FALSE]
  /\ steady' = [steady EXCEPT ![h] = {}]
  /\ UNCHANGED <<githubVars, subVars, tableVars, cleaning, made, purged, processed>>

-----------------------------------------------------------------------------
(* The outbox, the retention window and the cleanup. *)

\* The worker sends a job or gives it up (module Outbox).
Settle(p) ==
  /\ job[p] = "live"
  /\ job' = [job EXCEPT ![p] = "done"]
  /\ UNCHANGED <<githubVars, subVars, marker, old, oldJob, handlerVars, cleaning, historyVars>>

\* received_at, and later updated_at of a settled job, leave the window.
Age(d) ==
  /\ marker[d] = "stored" /\ ~old[d]
  /\ old' = [old EXCEPT ![d] = TRUE]
  /\ UNCHANGED <<githubVars, subVars, marker, job, oldJob, handlerVars, cleaning, historyVars>>

AgeJob(p) ==
  /\ job[p] = "done" /\ old[p[1]] /\ ~oldJob[p]
  /\ oldJob' = [oldJob EXCEPT ![p] = TRUE]
  /\ UNCHANGED <<githubVars, subVars, marker, old, job, handlerVars, cleaning, historyVars>>

StartCleanup ==
  /\ cleaning = "off"
  /\ cleaning' = "tokens"
  /\ UNCHANGED <<githubVars, subVars, tableVars, handlerVars, historyVars>>

\* OAuth states, then callback tokens: rows of other modules.
DeleteExpiredTokens ==
  /\ cleaning = "tokens"
  /\ cleaning' = "jobs"
  /\ UNCHANGED <<githubVars, subVars, tableVars, handlerVars, historyVars>>

DeleteOldJobs ==
  /\ cleaning = "jobs"
  /\ job' = [p \in DOMAIN job |-> IF job[p] = "done" /\ oldJob[p] THEN "none" ELSE job[p]]
  /\ oldJob' = [p \in DOMAIN job |-> oldJob[p] /\ job'[p] # "none"]
  /\ cleaning' = "deliveries"
  /\ UNCHANGED <<githubVars, subVars, marker, old, handlerVars, historyVars>>

\* Mutant: the NOT EXISTS is missing.
PurgeableByAge == {d \in Deliveries : marker[d] = "stored" /\ old[d]}

Purgeable == {d \in Deliveries :
  marker[d] = "stored" /\ old[d] /\ \A s \in Subs : job[<<d, s>>] # "live"}

\* The delete cascades to the jobs that are left.
DeleteOldDeliveries ==
  /\ cleaning = "deliveries"
  /\ marker' = [d \in Deliveries |-> IF d \in Purgeable THEN "none" ELSE marker[d]]
  /\ old' = [d \in Deliveries |-> old[d] /\ d \notin Purgeable]
  /\ job' = [p \in DOMAIN job |-> IF p[1] \in Purgeable THEN "none" ELSE job[p]]
  /\ oldJob' = [p \in DOMAIN job |-> oldJob[p] /\ p[1] \notin Purgeable]
  /\ purged' = [d \in Deliveries |-> IF d \in Purgeable THEN purged[d] + 1 ELSE purged[d]]
  /\ cleaning' = "off"
  /\ UNCHANGED <<githubVars, subVars, handlerVars, made, processed, steady>>

\* An error of one statement skips the rest until the next hour.
CleanupError ==
  /\ cleaning # "off"
  /\ cleaning' = "off"
  /\ UNCHANGED <<githubVars, subVars, tableVars, handlerVars, historyVars>>

-----------------------------------------------------------------------------

\* A step of ServeHTTP in which nothing fails.
Proceed(h) ==
  \/ Check(h) \/ List(h) \/ Reconcile(h) \/ Mark(h) \/ InsertJobs(h) \/ Commit(h) \/ Answer(h)

Serve(h) == Proceed(h) \/ Fail(h)

Cleanup ==
  StartCleanup \/ DeleteExpiredTokens \/ DeleteOldJobs \/ DeleteOldDeliveries \/ CleanupError

Next ==
  \/ Rename
  \/ \E d \in Deliveries : Happen(d) \/ Age(d)
  \/ \E h \in Handlers, d \in Deliveries : Post(h, d)
  \/ \E s \in Subs : Delete(s) \/ \E st \in {"active", "paused"} : SetStatus(s, st)
  \/ \E h \in Handlers : Serve(h)
  \/ \E p \in Deliveries \X Subs : Settle(p) \/ AgeJob(p)
  \/ Cleanup

Spec == Init /\ [][Next]_vars

\* The runtime serves every request, waiting inserts are woken in turn, and
\* nothing relies on a failure.
FairSpec == Spec /\ \A h \in Handlers : WF_vars(Proceed(h)) /\ SF_vars(Mark(h))

-----------------------------------------------------------------------------

\* A delivery is queued once for a subscription, however often and however
\* concurrently it is posted, until retention forgets it.
QueuedOnce == \A d \in Deliveries, s \in Subs : made[<<d, s>>] <= 1 + purged[d]

\* A request answered with "ok" has queued a job for every subscription that
\* was active all the time and whose settings let the event through, also when
\* the repository was renamed before or while it was served.
AcceptedIsQueued ==
  \A h \in Handlers : pc[h] = "ok" =>
    \A s \in steady[h] : <<s, serving[h]>> \in Selects => made[<<serving[h], s>>] > 0

\* A redelivery is dismissed as a duplicate only if an earlier request really
\* processed the delivery (handler.go: a crash leaves no idempotency marker).
DuplicateWasProcessed ==
  \A h \in Handlers : pc[h] = "duplicate" => serving[h] \in processed

\* The cleanup never drops a job that is not settled, not even through the
\* cascade from its delivery.
UnsentJobsKept ==
  [][\A p \in Deliveries \X Subs : job[p] = "live" => job'[p] # "none"]_vars

\* Every request is answered: none waits for ever for the marker of another.
EveryRequestAnswered == \A h \in Handlers : pc[h] = "check" ~> pc[h] \in Answers

\* What a request has been told.
ReplyOf(h) == IF pc[h] = "idle" THEN "none" ELSE IF pc[h] \in Answers THEN pc[h] ELSE "open"

\* The intake implements the promise of module Ledger: what a transaction in
\* progress, a rollback, a crash or the cleanup leave behind is never a part of
\* a delivery, and a delivery is never there without its jobs
\* (EnqueueNotificationJobs, CleanupExpired).
Promise == INSTANCE Ledger WITH
  Requests <- Handlers,
  recorded <- {d \in Deliveries : marker[d] = "stored"},
  jobs <- job,
  subject <- serving,
  due <- steady,
  reply <- [h \in Handlers |-> ReplyOf(h)]

ImplementsLedger == Promise!Spec
=============================================================================
