------------------------------- MODULE Ledger -------------------------------
(***************************************************************************)
(* What the webhook intake promises of deliveries, without transactions,   *)
(* names, failures or retention windows: a delivery enters the ledger in   *)
(* one step together with all the jobs it gives rise to, or not at all; a  *)
(* request for a delivery that is in the ledger changes nothing and is the *)
(* only one told "duplicate"; a job leaves only when it is settled, and a  *)
(* delivery only when all its jobs are.                                    *)
(***************************************************************************)
CONSTANTS Requests, Deliveries, Subs, Selects, None

VARIABLES
  recorded,  \* deliveries in the ledger
  jobs,      \* of each delivery and subscription: "none", "live" or "done"
  subject,   \* the delivery a request is about
  due,       \* subscriptions active ever since the request was made
  reply      \* "none", "open", or the answer of the request

vars == <<recorded, jobs, subject, due, reply>>

Init ==
  /\ recorded = {}
  /\ jobs = [p \in Deliveries \X Subs |-> "none"]
  /\ subject = [r \in Requests |-> None]
  /\ due = [r \in Requests |-> {}]
  /\ reply = [r \in Requests |-> "none"]

Ask(r, d, S) ==
  /\ reply[r] = "none"
  /\ reply' = [reply EXCEPT ![r] = "open"]
  /\ subject' = [subject EXCEPT ![r] = d]
  /\ due' = [due EXCEPT ![r] = S]
  /\ UNCHANGED <<recorded, jobs>>

\* A subscription is changed or deleted.
Leave(s) ==
  /\ due' = [r \in Requests |-> due[r] \ {s}]
  /\ UNCHANGED <<recorded, jobs, subject, reply>>

Selected(r, S) == {s \in S : <<s, subject[r]>> \in Selects}

\* The delivery and its jobs: for all subscriptions that were active throughout
\* and perhaps some others, as far as they let the event through.  The requester
\* may hear of an error all the same.
Record(r, S) ==
  /\ reply[r] = "open" /\ subject[r] \notin recorded
  /\ due[r] \subseteq S
  /\ recorded' = recorded \cup {subject[r]}
  /\ jobs' = [p \in Deliveries \X Subs |->
                IF p \in {subject[r]} \X Selected(r, S) THEN "live" ELSE jobs[p]]
  /\ \E a \in {"ok", "error"} : reply' = [reply EXCEPT ![r] = a]
  /\ UNCHANGED <<subject, due>>

Dismiss(r) ==
  /\ reply[r] = "open" /\ subject[r] \in recorded
  /\ reply' = [reply EXCEPT ![r] = "duplicate"]
  /\ UNCHANGED <<recorded, jobs, subject, due>>

Decline(r) ==
  /\ reply[r] = "open"
  /\ \E a \in {"error", "refused"} : reply' = [reply EXCEPT ![r] = a]
  /\ UNCHANGED <<recorded, jobs, subject, due>>

Close(r) ==
  /\ reply[r] \notin {"none", "open"}
  /\ reply' = [reply EXCEPT ![r] = "none"]
  /\ subject' = [subject EXCEPT ![r] = None]
  /\ due' = [due EXCEPT ![r] = {}]
  /\ UNCHANGED <<recorded, jobs>>

Settle(p) ==
  /\ jobs[p] = "live"
  /\ jobs' = [jobs EXCEPT ![p] = "done"]
  /\ UNCHANGED <<recorded, subject, due, reply>>

Prune(P) ==
  /\ \A p \in P : jobs[p] = "done"
  /\ jobs' = [p \in Deliveries \X Subs |-> IF p \in P THEN "none" ELSE jobs[p]]
  /\ UNCHANGED <<recorded, subject, due, reply>>

Forget(D) ==
  /\ D \subseteq recorded
  /\ \A d \in D, s \in Subs : jobs[<<d, s>>] # "live"
  /\ recorded' = recorded \ D
  /\ jobs' = [p \in Deliveries \X Subs |-> IF p[1] \in D THEN "none" ELSE jobs[p]]
  /\ UNCHANGED <<subject, due, reply>>

Next ==
  \/ \E r \in Requests, d \in Deliveries, S \in SUBSET Subs : Ask(r, d, S)
  \/ \E s \in Subs : Leave(s)
  \/ \E r \in Requests : Dismiss(r) \/ Decline(r) \/ Close(r) \/ \E S \in SUBSET Subs : Record(r, S)
  \/ \E p \in Deliveries \X Subs : Settle(p)
  \/ \E P \in SUBSET (Deliveries \X Subs) : Prune(P)
  \/ \E D \in SUBSET Deliveries : Forget(D)

Spec == Init /\ [][Next]_vars
=============================================================================
