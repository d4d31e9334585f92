------------------------------ MODULE HookSync ------------------------------
(***************************************************************************)
(* The subscriptions service (internal/subscriptions/service.go): edits of *)
(* the subscriptions of one repository and the webhook that GitHub keeps   *)
(* for it.  A call changes a row first, then pushes the union of the       *)
(* events of the active rows to GitHub under the repository's mutex; when  *)
(* that fails it puts the row back and pushes once more.                   *)
(*                                                                         *)
(* All rows belong to one user.  A row that exists is a record:            *)
(*   status  "blocked" is paused with the reason telegram_blocked          *)
(*   filter  the branches it asks for; the actions of pull requests and    *)
(*           the release mode are edited alike                             *)
(* A subscription that was never created or was deleted is None; a new one *)
(* takes a name that no call knows, as its fresh id does.                  *)
(***************************************************************************)
EXTENDS Naturals

CONSTANTS
  Callers,       \* calls of the service at a time; the bot makes one
  Subs,
  Events,
  Listings,      \* lists of events that users choose
  BranchEvents,  \* events a filter on branches applies to
  Filters,
  AllBranches,   \* the filter that lets everything through
  Chats,
  None

Ops == {"create", "status", "events", "delete"}

ASSUME HookSyncAssumption ==
  /\ Listings \subseteq SUBSET Events
  /\ AllBranches \in Filters
  /\ None \notin Subs \cup Callers \cup Ops

VARIABLES
  rows,       \* subscriptions
  hook,       \* events of the hook on GitHub, {} if there is none
  stored,     \* events of its row in repo_hooks, {} if there is none
  mutex,      \* the call that holds the mutex of the repository
  \* one call each
  pc, op,
  target,     \* subscription the call is about
  saved,      \* its row before the call
  wanted,     \* the row the call asks for
  created,    \* CreateSubscription inserted the row
  union,      \* events read under the mutex
  restoring,  \* the row was put back: the second synchronization
  \* history
  touched,    \* somebody else changed the row since the call read it
  drifted     \* an edit ended without its synchronization: before or since
              \* the last read of the union, or no

callVars == <<pc, op, target, saved, wanted, created, union, restoring>>
vars == <<rows, hook, stored, mutex, callVars, touched, drifted>>

Statuses == {"active", "paused", "blocked"}
Critical == {"read", "github", "record"}

Row == [status : Statuses, events : (SUBSET Events) \ {{}}, filter : Filters, chat : Chats]
NoRow == [status |-> "none"]

Exists(s) == rows[s] # NoRow
Key(r) == <<r.events, r.filter, r.chat>>
Holders(r) == {s \in Subs : Exists(s) /\ Key(rows[s]) = Key(r)}

\* Rows are well-formed and no two have one configuration.
TypeOK ==
  /\ rows \in [Subs -> Row \cup {NoRow}]
  /\ \A s \in Subs : Exists(s) => Holders(rows[s]) = {s}
  /\ hook \in SUBSET Events /\ stored \in SUBSET Events
  /\ mutex \in Callers \cup {None}
  /\ pc \in [Callers -> {"idle", "mutate", "lock", "rollback"} \cup Critical]
  /\ op \in [Callers -> Ops \cup {None}]
  /\ target \in [Callers -> Subs \cup {None}]
  /\ saved \in [Callers -> Row \cup {NoRow}]
  /\ wanted \in [Callers -> Row \cup {NoRow}]
  /\ created \in [Callers -> BOOLEAN]
  /\ union \in [Callers -> SUBSET Events]
  /\ restoring \in [Callers -> BOOLEAN]
  /\ touched \in [Callers -> BOOLEAN]
  /\ drifted \in {"no", "before", "since"}

Init ==
  /\ rows = [s \in Subs |-> NoRow]
  /\ hook = {} /\ stored = {}
  /\ mutex = None
  /\ pc = [c \in Callers |-> "idle"]
  /\ op = [c \in Callers |-> None]
  /\ target = [c \in Callers |-> None]
  /\ saved = [c \in Callers |-> NoRow]
  /\ wanted = [c \in Callers |-> NoRow]
  /\ created = [c \in Callers |-> FALSE]
  /\ union = [c \in Callers |-> {}]
  /\ restoring = [c \in Callers |-> FALSE]
  /\ touched = [c \in Callers |-> FALSE]
  /\ drifted = "no"

Active == {s \in Subs : rows[s].status = "active"}
Union == UNION {rows[s].events : s \in Active}

\* The mark left on the calls of others by a change of s.
Touch(c, s) ==
  touched' = [d \in Callers |->
    touched[d] \/ (d # c /\ op[d] # None /\ target[d] \in {s, None})]

Goto(c, l) == pc' = [pc EXCEPT ![c] = l]

\* What the calls in C kept for a compensation is of no use any more.
Forget(C) ==
  /\ op' = [c \in Callers |-> IF c \in C THEN None ELSE op[c]]
  /\ target' = [c \in Callers |-> IF c \in C THEN None ELSE target[c]]
  /\ saved' = [c \in Callers |-> IF c \in C THEN NoRow ELSE saved[c]]
  /\ wanted' = [c \in Callers |-> IF c \in C THEN NoRow ELSE wanted[c]]
  /\ created' = [c \in Callers |-> created[c] /\ c \notin C]

Return(C) ==
  /\ pc' = [c \in Callers |-> IF c \in C THEN "idle" ELSE pc[c]]
  /\ Forget(C)
  /\ union' = [c \in Callers |-> IF c \in C THEN {} ELSE union[c]]
  /\ restoring' = [c \in Callers |-> restoring[c] /\ c \notin C]
  /\ touched' = [c \in Callers |-> touched[c] /\ c \notin C]

-----------------------------------------------------------------------------
(* The first half of a call: the input is checked and the row is read. *)

Valid(E) == E # {}

\* Only events that happen on branches keep a filter on branches.
Normalized(E, f) == IF E \cap BranchEvents = {} THEN AllBranches ELSE f

Begin(c, o, s, old, new) ==
  /\ pc[c] = "idle"
  /\ Goto(c, "mutate")
  /\ op' = [op EXCEPT ![c] = o]
  /\ target' = [target EXCEPT ![c] = s]
  /\ saved' = [saved EXCEPT ![c] = old]
  /\ wanted' = [wanted EXCEPT ![c] = new]
  /\ UNCHANGED <<rows, hook, stored, mutex, created, union, restoring, touched, drifted>>

\* FindSubscriptionByConfig returns the row of the configuration, if any.
Create(c, E, f, ch) ==
  /\ Valid(E)
  /\ LET new == [status |-> "active", events |-> E, filter |-> Normalized(E, f), chat |-> ch]
     IN  \/ \E s \in Holders(new) : Begin(c, "create", None, rows[s], new)
         \/ Holders(new) = {} /\ Begin(c, "create", None, NoRow, new)

SetStatus(c, s, st) ==
  Exists(s) /\ Begin(c, "status", s, rows[s], [rows[s] EXCEPT !.status = st])

SetEvents(c, s, E) ==
  /\ Exists(s) /\ Valid(E)
  /\ Begin(c, "events", s, rows[s],
           [rows[s] EXCEPT !.events = E, !.filter = Normalized(E, @)])

Delete(c, s) == Exists(s) /\ Begin(c, "delete", s, rows[s], NoRow)

-----------------------------------------------------------------------------
(* The mutation. *)

\* One UPDATE, INSERT or DELETE of the row of s, by c or by somebody else.
Write(c, s, r) ==
  /\ rows' = [rows EXCEPT ![s] = r]
  /\ Touch(c, s)

Unclaimed(s) == ~Exists(s) /\ \A c \in Callers : target[c] # s

\* The row with its listed events and its filter replaced by those of r.
WithSettings(s, r) == [rows[s] EXCEPT !.events = r.events, !.filter = r.filter]

\* The unique index lets s have the configuration of r.
NoClash(s, r) == Holders(r) \subseteq {s}

\* ON CONFLICT DO UPDATE: an identical subscription is activated again.
CreateSubscription(c) ==
  /\ op[c] = "create"
  /\ IF Holders(wanted[c]) # {}
     THEN \E s \in Holders(wanted[c]) :
            /\ Write(c, s, [rows[s] EXCEPT !.status = "active"])
            /\ target' = [target EXCEPT ![c] = s]
            /\ UNCHANGED created
     ELSE \E s \in Subs :
            /\ Unclaimed(s)
            /\ Write(c, s, wanted[c])
            /\ target' = [target EXCEPT ![c] = s]
            /\ created' = [created EXCEPT ![c] = TRUE]

UpdateRow(c) ==
  LET s == target[c]
  IN  /\ op[c] # "create" /\ Exists(s)
      /\ \/ op[c] = "status" /\ Write(c, s, [rows[s] EXCEPT !.status = wanted[c].status])
         \/ /\ op[c] = "events" /\ NoClash(s, WithSettings(s, wanted[c]))
            /\ Write(c, s, WithSettings(s, wanted[c]))
         \/ op[c] = "delete" /\ Write(c, s, NoRow)
      /\ UNCHANGED <<target, created>>

Mutate(c) ==
  /\ pc[c] = "mutate"
  /\ CreateSubscription(c) \/ UpdateRow(c)
  /\ Goto(c, "lock")
  /\ wanted' = [wanted EXCEPT ![c] = NoRow]
  /\ UNCHANGED <<hook, stored, mutex, op, saved, union, restoring, drifted>>

\* The row is gone, the configuration is taken, or the statement fails.
MutateError(c) ==
  /\ pc[c] = "mutate"
  /\ Return({c})
  /\ UNCHANGED <<rows, hook, stored, mutex, drifted>>

\* The statement (or that of the rollback) took effect but its answer was
\* lost: the call returns an error and synchronizes nothing.
AnswerLost(c) ==
  /\ pc[c] = "lock"
  /\ Return({c})
  /\ drifted' = "since"
  /\ UNCHANGED <<rows, hook, stored, mutex>>

-----------------------------------------------------------------------------
(* EnsureWebhook. *)

\* Mutant: every call takes a mutex of its own.
MutexIgnored == TRUE

MutexFree == mutex = None

Lock(c) ==
  /\ pc[c] = "lock" /\ MutexFree
  /\ mutex' = c
  /\ Goto(c, "read")
  /\ UNCHANGED <<rows, hook, stored, op, target, saved, wanted, created, union, restoring,
                 touched, drifted>>

\* ListActiveEventsForRepo, then the user's token.
Read(c) ==
  /\ pc[c] = "read"
  /\ union' = [union EXCEPT ![c] = Union]
  /\ drifted' = IF drifted = "no" THEN "no" ELSE "before"
  /\ Goto(c, "github")
  /\ UNCHANGED <<rows, hook, stored, mutex, op, target, saved, wanted, created, restoring,
                 touched>>

\* The hook with the payload URL is updated, created or, without events, deleted.
GitHub(c) ==
  /\ pc[c] = "github"
  /\ hook' = union[c]
  /\ Goto(c, "record")
  /\ UNCHANGED <<rows, stored, mutex, op, target, saved, wanted, created, union, restoring,
                 touched, drifted>>

\* UpsertRepoHook or DeleteRepoHook.
Record(c) ==
  /\ pc[c] = "record"
  /\ stored' = union[c]
  /\ mutex' = None
  /\ drifted' = IF drifted = "before" THEN "no" ELSE drifted
  /\ Return({c})
  /\ UNCHANGED <<rows, hook>>

\* Mutant: an early return without Unlock.
KeptLocked == mutex

\* The deferred Unlock.
Unlocked == None

\* A step fails, perhaps with its effect.
SyncError(c) ==
  /\ pc[c] \in Critical
  /\ hook' \in IF pc[c] = "github" THEN {hook, union[c]} ELSE {hook}
  /\ stored' \in IF pc[c] = "record" THEN {stored, union[c]} ELSE {stored}
  /\ mutex' = Unlocked
  /\ IF restoring[c]
     THEN Return({c}) /\ drifted' = "since"
     ELSE /\ Goto(c, "rollback")
          /\ union' = [union EXCEPT ![c] = {}]
          /\ UNCHANGED <<op, target, saved, wanted, created, restoring, touched, drifted>>
  /\ UNCHANGED rows

-----------------------------------------------------------------------------
(* The compensation. *)

\* Mutant: the rollback uses UpdateSubscriptionStatus, which clears the reason.
StatusWithoutReason(c) == IF saved[c].status = "blocked" THEN "paused" ELSE saved[c].status

\* RestoreSubscriptionStatus writes the status with its reason.
SavedStatus(c) == saved[c].status

\* The row after the compensation, which may be that of another id than the
\* one that was looked up.
Undone(c) ==
  LET s == target[c]
  IN  CASE op[c] = "create" /\ created[c] -> NoRow
        [] op[c] = "create" /\ ~created[c] /\ saved[c] = NoRow -> rows[s]
        [] op[c] = "events" -> WithSettings(s, saved[c])
        [] op[c] = "delete" -> saved[c]
        [] OTHER -> [rows[s] EXCEPT !.status = SavedStatus(c)]

\* An UPDATE or DELETE needs the row, a new configuration the index.
CanUndo(c) ==
  \/ op[c] = "create" /\ ~created[c] /\ saved[c] = NoRow
  \/ op[c] \in {"create", "status"} /\ Exists(target[c])
  \/ op[c] = "events" /\ Exists(target[c]) /\ NoClash(target[c], Undone(c))
  \/ op[c] = "delete" /\ NoClash(target[c], Undone(c))

\* Mutant: the hook is left as the failed call made it.
HookNotRestored == "idle"

\* Where a call goes on once its row is put back.
AfterRollback == "lock"

Rollback(c) ==
  /\ pc[c] = "rollback" /\ CanUndo(c)
  /\ rows' = [rows EXCEPT ![target[c]] = Undone(c)]
  /\ Goto(c, AfterRollback)
  /\ Forget({c})
  /\ restoring' = [restoring EXCEPT ![c] = TRUE]
  /\ touched' = [d \in Callers |->
       d # c /\ (touched[d] \/ (op[d] # None /\ target[d] \in {target[c], None}))]
  /\ UNCHANGED <<hook, stored, mutex, union, drifted>>

RollbackError(c) ==
  /\ pc[c] = "rollback"
  /\ Return({c})
  /\ drifted' = "since"
  /\ UNCHANGED <<rows, hook, stored, mutex>>

-----------------------------------------------------------------------------
(* What else happens to rows. *)

\* SetBranch, SetPullRequestActions, SetReleaseMode: nothing to synchronize.
SetFilter(s, f) ==
  LET r == [rows[s] EXCEPT !.filter = f]
  IN  /\ Exists(s) /\ NoClash(s, r)
      /\ Write(None, s, r)
      /\ UNCHANGED <<hook, stored, mutex, callVars, drifted>>

SetDestination(s, ch) ==
  LET r == [rows[s] EXCEPT !.chat = ch]
  IN  /\ Exists(s) /\ NoClash(s, r)
      /\ Write(None, s, r)
      /\ UNCHANGED <<hook, stored, mutex, callVars, drifted>>

\* The outbox pauses a subscription whose chat refuses messages.
AutoPause(s) ==
  /\ s \in Active
  /\ Write(None, s, [rows[s] EXCEPT !.status = "blocked"])
  /\ UNCHANGED <<hook, stored, mutex, callVars, drifted>>

\* The process stops between any two steps and starts again.
Crash ==
  /\ Return(Callers)
  /\ mutex' = None
  /\ drifted' = IF \A c \in Callers : pc[c] \in {"idle", "mutate"} THEN drifted ELSE "since"
  /\ UNCHANGED <<rows, hook, stored>>

-----------------------------------------------------------------------------

Start(c) ==
  \/ \E E \in Listings, f \in Filters, ch \in Chats : Create(c, E, f, ch)
  \/ \E s \in Subs :
       \/ \E st \in {"active", "paused"} : SetStatus(c, s, st)
       \/ \E E \in Listings : SetEvents(c, s, E)
       \/ Delete(c, s)

Sync(c) == Lock(c) \/ Read(c) \/ GitHub(c) \/ Record(c)

Next ==
  \/ \E c \in Callers :
       \/ Start(c) \/ Mutate(c) \/ Sync(c) \/ Rollback(c)
       \/ MutateError(c) \/ AnswerLost(c) \/ SyncError(c) \/ RollbackError(c)
  \/ \E s \in Subs :
       \/ \E f \in Filters : SetFilter(s, f)
       \/ \E ch \in Chats : SetDestination(s, ch)
       \/ AutoPause(s)
  \/ Crash

Spec == Init /\ [][Next]_vars

\* A call goes on; sync.Mutex lets nobody starve.
FairSpec ==
  /\ Spec
  /\ \A c \in Callers :
       /\ WF_vars(Sync(c)) /\ SF_vars(Lock(c))
       /\ WF_vars(Rollback(c) \/ RollbackError(c))

-----------------------------------------------------------------------------

\* Events only rows with the automatic pause list.
BlockedEvents == UNION {rows[s].events : s \in {t \in Subs : rows[t].status = "blocked"}}

\* Whenever no call is under way, GitHub sends every event an active
\* subscription lists, nothing else but what automatic pauses left behind, and
\* repo_hooks agrees - also after failed calls, unless the compensation failed
\* too or the process crashed in between.
HookAligned ==
  (\A c \in Callers : pc[c] = "idle") /\ drifted = "no" =>
    /\ Union \subseteq hook
    /\ hook \subseteq Union \cup BlockedEvents
    /\ stored = hook

\* A call whose synchronization failed leaves its subscription exactly as it
\* found it, pause reason included, unless somebody else edited it meanwhile.
FailedEditUndone ==
  [][\A c \in Callers :
       restoring'[c] /\ ~restoring[c] /\ ~touched[c] => rows'[target[c]] = saved[c]]_vars

\* A call that has changed its row returns: an error never keeps the mutex.
CallsReturn == \A c \in Callers : pc[c] = "lock" ~> pc[c] = "idle"
=============================================================================
