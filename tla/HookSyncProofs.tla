--------------------------- MODULE HookSyncProofs ---------------------------
(***************************************************************************)
(* Theorems about the subscriptions service, for every number of calls,    *)
(* subscriptions, events, filters and chats.                               *)
(***************************************************************************)
EXTENDS HookSync, TLAPS

\* Calls that changed a row and have not returned.
Underway == {"lock", "rollback"} \cup Critical

\* What a call keeps at each stage.
CallShape ==
  \A c \in Callers :
    /\ pc[c] = "idle" => op[c] = None /\ ~created[c] /\ ~restoring[c]
    /\ pc[c] = "mutate" =>
         /\ op[c] \in Ops /\ ~created[c] /\ ~restoring[c]
         /\ op[c] = "create" => target[c] = None /\ wanted[c] \in Row
         /\ op[c] # "create" => target[c] \in Subs /\ saved[c] \in Row
         /\ op[c] \in {"status", "events"} => wanted[c] \in Row
    /\ pc[c] \in Underway /\ ~restoring[c] =>
         op[c] \in Ops /\ target[c] \in Subs /\ (op[c] # "create" => saved[c] \in Row)
    /\ restoring[c] => pc[c] # "rollback" /\ op[c] = None

\* Only the call that holds the mutex is in the critical section.
MutexHeld == \A c \in Callers : pc[c] \in Critical => mutex = c

TInv == TypeOK /\ CallShape /\ MutexHeld

-----------------------------------------------------------------------------
(* Rows. *)

LEMMA NoRowFacts == NoRow \notin Row /\ NoRow.status = "none"
BY DEF NoRow, Row, Statuses

LEMMA RowEdits ==
  ASSUME NEW r \in Row, NEW q \in Row, NEW st \in Statuses, NEW f \in Filters, NEW ch \in Chats
  PROVE  /\ [r EXCEPT !.status = st] \in Row
         /\ Key([r EXCEPT !.status = st]) = Key(r)
         /\ [r EXCEPT !.filter = f] \in Row
         /\ [r EXCEPT !.chat = ch] \in Row
         /\ [r EXCEPT !.events = q.events, !.filter = q.filter] \in Row
BY DEF Row, Key

\* The rows part of the type invariant.
RowsOK ==
  /\ rows \in [Subs -> Row \cup {NoRow}]
  /\ \A s \in Subs : Exists(s) => Holders(rows[s]) = {s}

\* Two rows that exist have different configurations.
LEMMA Unique ==
  ASSUME rows \in [Subs -> Row \cup {NoRow}]
  PROVE  (\A s \in Subs : Exists(s) => Holders(rows[s]) = {s}) <=>
         (\A s, t \in Subs :
            Exists(s) /\ Exists(t) /\ Key(rows[s]) = Key(rows[t]) => s = t)
BY DEF Holders

\* A row may be replaced by none and by one whose configuration is free.
LEMMA WriteRows ==
  ASSUME RowsOK, NEW s \in Subs, NEW r \in Row \cup {NoRow},
         r = NoRow \/ NoClash(s, r),
         rows' = [rows EXCEPT ![s] = r]
  PROVE  RowsOK'
<1>1. rows' \in [Subs -> Row \cup {NoRow}]
  BY DEF RowsOK
<1>2. ASSUME NEW x \in Subs, NEW y \in Subs, Exists(x)', Exists(y)',
             Key(rows'[x]) = Key(rows'[y])
      PROVE  x = y
  <2>1. \A t \in Subs \ {s} : rows'[t] = rows[t]
    BY DEF RowsOK
  <2>2. rows'[s] = r
    BY DEF RowsOK
  <2>3. CASE x # s /\ y # s
    BY <1>2, <2>1, <2>3, Unique DEF RowsOK, Exists
  <2>4. CASE x = s /\ y # s
    BY <1>2, <2>1, <2>2, <2>4 DEF Exists, NoClash, Holders
  <2>5. CASE x # s /\ y = s
    BY <1>2, <2>1, <2>2, <2>5 DEF Exists, NoClash, Holders
  <2> QED BY <2>3, <2>4, <2>5
<1>3. \A x \in Subs : Exists(x)' => Holders(rows[x])' = {x}
  BY <1>2 DEF Holders, Exists
<1> QED BY <1>1, <1>3 DEF RowsOK

\* A row that keeps its configuration clashes with none.
LEMMA SameKey ==
  ASSUME RowsOK, NEW s \in Subs, Exists(s), NEW r, Key(r) = Key(rows[s])
  PROVE  NoClash(s, r)
BY DEF RowsOK, NoClash, Holders

-----------------------------------------------------------------------------
(* Type correctness. *)

LEMMA InitTInv == Init => TInv
BY HookSyncAssumption DEF Init, TInv, TypeOK, CallShape, MutexHeld, Exists, Underway, Critical

\* Every beginning of a call.
LEMMA BeginTInv ==
  ASSUME TInv, NEW c \in Callers, NEW o \in Ops, NEW s \in Subs \cup {None},
         NEW old \in Row \cup {NoRow}, NEW new \in Row \cup {NoRow},
         Begin(c, o, s, old, new),
         o = "create" => s = None /\ new \in Row,
         o # "create" => s \in Subs /\ old \in Row,
         o \in {"status", "events"} => new \in Row
  PROVE  TInv'
<1>1. TypeOK'
  BY DEF TInv, TypeOK, Begin, Goto, Exists, Holders
<1>2. CallShape'
  BY DEF TInv, TypeOK, CallShape, Begin, Goto, Underway, Critical
<1>3. MutexHeld'
  BY DEF TInv, TypeOK, MutexHeld, Begin, Goto, Critical
<1> QED BY <1>1, <1>2, <1>3 DEF TInv

LEMMA InputsOK ==
  ASSUME NEW E \in Listings, Valid(E), NEW f \in Filters
  PROVE  E \in (SUBSET Events) \ {{}} /\ Normalized(E, f) \in Filters
<1>1. E \in SUBSET Events /\ E # {}
  BY HookSyncAssumption DEF Valid
<1>2. AllBranches \in Filters
  BY HookSyncAssumption
<1>3. Normalized(E, f) \in {AllBranches, f}
  BY DEF Normalized
<1> QED BY <1>1, <1>2, <1>3

LEMMA StartTInv ==
  ASSUME TInv, NEW c \in Callers, Start(c)
  PROVE  TInv'
<1>1. ASSUME NEW E \in Listings, NEW f \in Filters, NEW ch \in Chats, Create(c, E, f, ch)
      PROVE  TInv'
  <2> DEFINE new == [status |-> "active", events |-> E, filter |-> Normalized(E, f), chat |-> ch]
  <2>1. new \in Row
    <3>1. Valid(E)
      BY <1>1 DEF Create
    <3>2. E \in (SUBSET Events) \ {{}} /\ Normalized(E, f) \in Filters
      BY <3>1, InputsOK
    <3> QED BY <3>2 DEF Row, Statuses
  <2>2. PICK old \in Row \cup {NoRow} : Begin(c, "create", None, old, new)
    BY <1>1 DEF Create, Holders, TInv, TypeOK
  <2> HIDE DEF new
  <2> QED BY <2>1, <2>2, BeginTInv DEF Ops
<1>2. ASSUME NEW s \in Subs, NEW st \in {"active", "paused"}, SetStatus(c, s, st)
      PROVE  TInv'
  <2>1. rows[s] \in Row
    BY <1>2 DEF SetStatus, TInv, TypeOK, Exists
  <2>2. [rows[s] EXCEPT !.status = st] \in Row
    BY <2>1 DEF Row, Statuses
  <2> QED BY <1>2, <2>1, <2>2, BeginTInv DEF SetStatus, Ops
<1>3. ASSUME NEW s \in Subs, NEW E \in Listings, SetEvents(c, s, E)
      PROVE  TInv'
  <2>1. rows[s] \in Row
    BY <1>3 DEF SetEvents, TInv, TypeOK, Exists
  <2>2. [rows[s] EXCEPT !.events = E, !.filter = Normalized(E, @)] \in Row
    <3>1. Valid(E) /\ rows[s].filter \in Filters
      BY <1>3, <2>1 DEF SetEvents, Row
    <3>2. E \in (SUBSET Events) \ {{}} /\ Normalized(E, rows[s].filter) \in Filters
      BY <3>1, InputsOK
    <3> QED BY <2>1, <3>2 DEF Row
  <2> QED BY <1>3, <2>1, <2>2, BeginTInv DEF SetEvents, Ops
<1>4. ASSUME NEW s \in Subs, Delete(c, s) PROVE TInv'
  <2>1. rows[s] \in Row /\ Begin(c, "delete", s, rows[s], NoRow)
    BY <1>4 DEF Delete, TInv, TypeOK, Exists
  <2> QED BY <2>1, BeginTInv DEF Ops
<1> QED BY <1>1, <1>2, <1>3, <1>4 DEF Start

\* Ending calls disturbs no other call.
LEMMA ReturnTInv ==
  ASSUME TInv, NEW C \in SUBSET Callers, Return(C),
         UNCHANGED rows, hook' \in SUBSET Events, stored' \in SUBSET Events,
         mutex' \in Callers \cup {None},
         \A c \in Callers \ C : pc[c] \in Critical => mutex' = c,
         drifted' \in {"no", "before", "since"}
  PROVE  TInv'
<1>1. TypeOK'
  BY DEF TInv, TypeOK, Return, Forget, Exists, Holders
<1>2. CallShape'
  BY DEF TInv, TypeOK, CallShape, Return, Forget, Underway, Critical
<1>3. MutexHeld'
  BY DEF TInv, TypeOK, MutexHeld, Return, Critical
<1> QED BY <1>1, <1>2, <1>3 DEF TInv

\* The row a mutation writes is allowed.
LEMMA MutateRows ==
  ASSUME TInv, NEW c \in Callers, Mutate(c)
  PROVE  \E s \in Subs, r \in Row \cup {NoRow} :
           /\ Write(c, s, r)
           /\ r = NoRow \/ NoClash(s, r)
           /\ target' = [target EXCEPT ![c] = s]
           /\ created' \in [Callers -> BOOLEAN]
           /\ \A d \in Callers \ {c} : created'[d] = created[d]
           /\ op[c] \in Ops /\ (op[c] # "create" => saved[c] \in Row)
<1>1. RowsOK /\ pc[c] = "mutate" /\ op[c] \in Ops
  BY DEF TInv, TypeOK, RowsOK, Mutate, CallShape
<1>2. CASE op[c] = "create" /\ Holders(wanted[c]) # {}
  <2>1. PICK s \in Holders(wanted[c]) :
          /\ Write(c, s, [rows[s] EXCEPT !.status = "active"])
          /\ target' = [target EXCEPT ![c] = s]
          /\ UNCHANGED created
    BY <1>2 DEF Mutate, CreateSubscription, UpdateRow
  <2>2. s \in Subs /\ Exists(s) /\ rows[s] \in Row
    BY <1>1 DEF Holders, RowsOK, Exists
  <2>3. /\ [rows[s] EXCEPT !.status = "active"] \in Row
        /\ Key([rows[s] EXCEPT !.status = "active"]) = Key(rows[s])
    BY <2>2 DEF Row, Key, Statuses
  <2>4. NoClash(s, [rows[s] EXCEPT !.status = "active"])
    BY <1>1, <2>2, <2>3, SameKey
  <2> QED BY <1>1, <1>2, <2>1, <2>2, <2>3, <2>4 DEF TInv, TypeOK
<1>3. CASE op[c] = "create" /\ Holders(wanted[c]) = {}
  <2>1. PICK s \in Subs :
          /\ Write(c, s, wanted[c])
          /\ target' = [target EXCEPT ![c] = s]
          /\ created' = [created EXCEPT ![c] = TRUE]
    BY <1>3 DEF Mutate, CreateSubscription, UpdateRow
  <2>2. wanted[c] \in Row
    BY <1>1, <1>3 DEF TInv, CallShape
  <2> QED BY <1>1, <1>3, <2>1, <2>2 DEF TInv, TypeOK, NoClash
<1>4. CASE op[c] # "create"
  <2> DEFINE s == target[c]
  <2>1. /\ s \in Subs /\ saved[c] \in Row /\ Exists(s) /\ rows[s] \in Row
        /\ UNCHANGED <<target, created>>
    BY <1>1, <1>4 DEF TInv, TypeOK, CallShape, Mutate, CreateSubscription, UpdateRow, Exists
  <2>2. target' = [target EXCEPT ![c] = s]
    BY <2>1 DEF TInv, TypeOK
  <2>3. ASSUME op[c] = "status", Write(c, s, [rows[s] EXCEPT !.status = wanted[c].status])
        PROVE  /\ [rows[s] EXCEPT !.status = wanted[c].status] \in Row
               /\ NoClash(s, [rows[s] EXCEPT !.status = wanted[c].status])
    <3>1. wanted[c] \in Row
      BY <1>1, <2>3 DEF TInv, CallShape
    <3>2. /\ [rows[s] EXCEPT !.status = wanted[c].status] \in Row
          /\ Key([rows[s] EXCEPT !.status = wanted[c].status]) = Key(rows[s])
      BY <2>1, <3>1 DEF Row, Key
    <3> QED BY <1>1, <2>1, <3>2, SameKey
  <2>4. ASSUME op[c] = "events" PROVE WithSettings(s, wanted[c]) \in Row
    <3>1. wanted[c] \in Row
      BY <1>1, <2>4 DEF TInv, CallShape
    <3> QED BY <2>1, <3>1 DEF WithSettings, Row
  <2>5. \/ op[c] = "status" /\ Write(c, s, [rows[s] EXCEPT !.status = wanted[c].status])
        \/ /\ op[c] = "events" /\ NoClash(s, WithSettings(s, wanted[c]))
           /\ Write(c, s, WithSettings(s, wanted[c]))
        \/ op[c] = "delete" /\ Write(c, s, NoRow)
    BY <1>4 DEF Mutate, CreateSubscription, UpdateRow
  <2>6. created' \in [Callers -> BOOLEAN] /\ \A d \in Callers \ {c} : created'[d] = created[d]
    BY <2>1 DEF TInv, TypeOK
  <2> HIDE DEF s
  <2> QED BY <1>1, <2>1, <2>2, <2>3, <2>4, <2>5, <2>6
<1> QED BY <1>1, <1>2, <1>3, <1>4

LEMMA MutateTInv ==
  ASSUME TInv, NEW c \in Callers, Mutate(c)
  PROVE  TInv'
<1>1. PICK s \in Subs, r \in Row \cup {NoRow} :
        /\ Write(c, s, r)
        /\ r = NoRow \/ NoClash(s, r)
        /\ target' = [target EXCEPT ![c] = s]
        /\ created' \in [Callers -> BOOLEAN]
        /\ \A d \in Callers \ {c} : created'[d] = created[d]
        /\ op[c] \in Ops /\ (op[c] # "create" => saved[c] \in Row)
  BY MutateRows
<1>2. RowsOK'
  <2>1. RowsOK
    BY DEF TInv, TypeOK, RowsOK
  <2> QED BY <1>1, <2>1, WriteRows DEF Write
<1>3. TypeOK'
  BY <1>1, <1>2 DEF TInv, TypeOK, RowsOK, Mutate, Write, Touch, Goto
<1>4. CallShape'
  BY <1>1 DEF TInv, TypeOK, CallShape, Mutate, Goto, Underway, Critical
<1>5. MutexHeld'
  BY DEF TInv, TypeOK, MutexHeld, Mutate, Goto, Critical
<1> QED BY <1>3, <1>4, <1>5 DEF TInv

\* Only one call is in the critical section.
LEMMA SyncTInv ==
  ASSUME TInv, NEW c \in Callers, Sync(c)
  PROVE  TInv'
<1>1. CASE Record(c)
  <2>1. mutex = c
    BY <1>1 DEF Record, TInv, MutexHeld, Critical
  <2>2. \A d \in Callers \ {c} : pc[d] \notin Critical
    BY <2>1 DEF TInv, MutexHeld
  <2>3. /\ Return({c}) /\ UNCHANGED rows /\ mutex' = None
        /\ hook' \in SUBSET Events /\ stored' \in SUBSET Events
        /\ drifted' \in {"no", "before", "since"}
    BY <1>1 DEF Record, TInv, TypeOK
  <2> QED BY <2>2, <2>3, ReturnTInv
<1>2. CASE Lock(c)
  <2>1. TypeOK'
    BY <1>2 DEF Lock, MutexFree, Goto, TInv, TypeOK, Critical, Exists, Holders
  <2>2. CallShape'
    BY <1>2 DEF Lock, Goto, TInv, TypeOK, CallShape, Underway, Critical
  <2>3. \A d \in Callers : pc[d] \notin Critical
    BY <1>2, HookSyncAssumption DEF Lock, MutexFree, TInv, MutexHeld
  <2>4. MutexHeld'
    BY <1>2, <2>3 DEF Lock, Goto, TInv, TypeOK, MutexHeld
  <2> QED BY <2>1, <2>2, <2>4 DEF TInv
<1>3. CASE Read(c)
  <2>1. Union \in SUBSET Events
    BY DEF Union, Active, TInv, TypeOK, Row, NoRow
  <2> QED BY <1>3, <2>1 DEF Read, Goto, TInv, TypeOK, CallShape, MutexHeld, Underway, Critical,
     Exists, Holders
<1>4. CASE GitHub(c)
  BY <1>4 DEF GitHub, Goto, TInv, TypeOK, CallShape, MutexHeld, Underway, Critical,
     Exists, Holders
<1> QED BY <1>1, <1>2, <1>3, <1>4 DEF Sync

LEMMA SyncErrorTInv ==
  ASSUME TInv, NEW c \in Callers, SyncError(c)
  PROVE  TInv'
<1>1. /\ mutex = c /\ mutex' = None /\ UNCHANGED rows
      /\ hook' \in SUBSET Events /\ stored' \in SUBSET Events
  BY DEF SyncError, Unlocked, TInv, TypeOK, MutexHeld
<1>2. \A d \in Callers \ {c} : pc[d] \notin Critical
  BY <1>1 DEF TInv, MutexHeld
<1>3. CASE restoring[c]
  BY <1>1, <1>2, <1>3, ReturnTInv DEF SyncError
<1>4. CASE ~restoring[c]
  <2>1. /\ Goto(c, "rollback") /\ union' = [union EXCEPT ![c] = {}]
        /\ UNCHANGED <<op, target, saved, wanted, created, restoring, touched, drifted>>
        /\ pc[c] \in Critical
    BY <1>4 DEF SyncError
  <2>2. TypeOK'
    BY <1>1, <2>1 DEF TInv, TypeOK, Goto, Exists, Holders
  <2>3. CallShape'
    BY <1>4, <2>1 DEF TInv, TypeOK, CallShape, Goto, Underway, Critical
  <2>4. MutexHeld'
    BY <1>2, <2>1 DEF TInv, TypeOK, MutexHeld, Goto, Critical
  <2> QED BY <2>2, <2>3, <2>4 DEF TInv
<1> QED BY <1>3, <1>4

\* The row a compensation writes is allowed.
LEMMA UndoneRows ==
  ASSUME TInv, NEW c \in Callers, Rollback(c)
  PROVE  /\ target[c] \in Subs /\ op[c] \in Ops
         /\ Undone(c) \in Row \cup {NoRow}
         /\ Undone(c) = NoRow \/ NoClash(target[c], Undone(c))
<1> DEFINE s == target[c]
<1>1. /\ pc[c] = "rollback" /\ CanUndo(c) /\ RowsOK
      /\ op[c] \in Ops /\ s \in Subs /\ (op[c] # "create" => saved[c] \in Row)
      /\ saved[c] \in Row \cup {NoRow} /\ created[c] \in BOOLEAN
      /\ rows[s] \in Row \cup {NoRow}
  BY DEF Rollback, TInv, TypeOK, RowsOK, CallShape, Underway
<1>2. CASE op[c] = "create" /\ created[c]
  BY <1>1, <1>2 DEF Undone
<1>3. CASE op[c] = "create" /\ ~created[c] /\ saved[c] = NoRow
  BY <1>1, <1>3, SameKey DEF Undone, Exists
<1>4. CASE op[c] = "events"
  BY <1>1, <1>4 DEF Undone, CanUndo, WithSettings, Row, Exists
<1>5. CASE op[c] = "delete"
  BY <1>1, <1>5 DEF Undone, CanUndo
<1>6. CASE op[c] = "status" \/ (op[c] = "create" /\ ~created[c] /\ saved[c] # NoRow)
  <2>1. Exists(s) /\ saved[c] \in Row /\ rows[s] \in Row
    BY <1>1, <1>6 DEF CanUndo, Exists
  <2>2. Undone(c) = [rows[s] EXCEPT !.status = saved[c].status]
    BY <1>6 DEF Undone, SavedStatus
  <2>3. Undone(c) \in Row /\ Key(Undone(c)) = Key(rows[s])
    BY <2>1, <2>2 DEF Row, Key
  <2> QED BY <1>1, <2>1, <2>3, SameKey
<1> QED BY <1>1, <1>2, <1>3, <1>4, <1>5, <1>6 DEF Ops

LEMMA RollbackTInv ==
  ASSUME TInv, NEW c \in Callers, Rollback(c)
  PROVE  TInv'
<1>1. RowsOK'
  <2>1. RowsOK /\ rows' = [rows EXCEPT ![target[c]] = Undone(c)]
    BY DEF TInv, TypeOK, RowsOK, Rollback
  <2> QED BY <2>1, UndoneRows, WriteRows
<1>2. TypeOK'
  BY <1>1, NoRowFacts DEF TInv, TypeOK, RowsOK, Rollback, AfterRollback, Goto, Forget
<1>3. CallShape'
  BY DEF TInv, TypeOK, CallShape, Rollback, AfterRollback, Goto, Forget, Underway, Critical
<1>4. MutexHeld'
  BY DEF TInv, TypeOK, MutexHeld, Rollback, AfterRollback, Goto, Critical
<1> QED BY <1>2, <1>3, <1>4 DEF TInv

\* An allowed write by somebody who makes no call.
LEMMA OutsideTInv ==
  ASSUME TInv, NEW s \in Subs, NEW r \in Row, NoClash(s, r), Write(None, s, r),
         UNCHANGED <<hook, stored, mutex, callVars, drifted>>
  PROVE  TInv'
<1>1. RowsOK'
  <2>1. RowsOK
    BY DEF TInv, TypeOK, RowsOK
  <2> QED BY <2>1, WriteRows DEF Write
<1>2. TypeOK'
  BY <1>1 DEF TInv, TypeOK, RowsOK, Write, Touch, callVars
<1>3. CallShape' /\ MutexHeld'
  BY DEF TInv, CallShape, MutexHeld, callVars
<1> QED BY <1>2, <1>3 DEF TInv

\* Every step of a call and every change from outside.
LEMMA NextTInv ==
  ASSUME TInv, [Next]_vars
  PROVE  TInv'
<1>1. ASSUME NEW c \in Callers, MutateError(c) \/ AnswerLost(c) \/ RollbackError(c)
      PROVE  TInv'
  BY <1>1, ReturnTInv DEF MutateError, AnswerLost, RollbackError, TInv, TypeOK, MutexHeld
<1>2. ASSUME NEW s \in Subs, NEW f \in Filters, SetFilter(s, f) PROVE TInv'
  <2>1. rows[s] \in Row
    BY <1>2 DEF SetFilter, Exists, TInv, TypeOK
  <2>2. [rows[s] EXCEPT !.filter = f] \in Row
    BY <2>1 DEF Row
  <2> QED BY <1>2, <2>2, OutsideTInv DEF SetFilter
<1>3. ASSUME NEW s \in Subs, NEW ch \in Chats, SetDestination(s, ch) PROVE TInv'
  <2>1. rows[s] \in Row
    BY <1>3 DEF SetDestination, Exists, TInv, TypeOK
  <2>2. [rows[s] EXCEPT !.chat = ch] \in Row
    BY <2>1 DEF Row
  <2> QED BY <1>3, <2>2, OutsideTInv DEF SetDestination
<1>4. ASSUME NEW s \in Subs, AutoPause(s) PROVE TInv'
  <2>1. rows[s] \in Row /\ Exists(s) /\ RowsOK
    BY <1>4, NoRowFacts DEF AutoPause, Active, Exists, TInv, TypeOK, RowsOK
  <2>2. /\ [rows[s] EXCEPT !.status = "blocked"] \in Row
        /\ Key([rows[s] EXCEPT !.status = "blocked"]) = Key(rows[s])
    BY <2>1 DEF Row, Key, Statuses
  <2>3. NoClash(s, [rows[s] EXCEPT !.status = "blocked"])
    BY <2>1, <2>2, SameKey
  <2> QED BY <1>4, <2>2, <2>3, OutsideTInv DEF AutoPause
<1>5. CASE Crash
  BY <1>5, ReturnTInv DEF Crash, TInv, TypeOK
<1>6. CASE UNCHANGED vars
  <2>1. TypeOK'
    BY <1>6 DEF vars, callVars, TInv, TypeOK, Exists, Holders
  <2>2. CallShape' /\ MutexHeld'
    BY <1>6 DEF vars, callVars, TInv, CallShape, MutexHeld
  <2> QED BY <2>1, <2>2 DEF TInv
<1> QED
  BY <1>1, <1>2, <1>3, <1>4, <1>5, <1>6, StartTInv, MutateTInv, SyncTInv, SyncErrorTInv,
     RollbackTInv DEF Next

\* Rows stay well-formed and no two get one configuration, whatever edits,
\* compensations, failures and crashes happen (the unique index never breaks).
THEOREM TypeCorrect == Spec => []TypeOK
<1>1. TInv => TypeOK
  BY DEF TInv
<1> QED BY <1>1, InitTInv, NextTInv, PTL DEF Spec

-----------------------------------------------------------------------------
(* The hook follows the rows. *)

\* E has the events of all active rows and no others but those of rows that
\* were paused automatically.
Covers(E) == Union \subseteq E /\ E \subseteq Union \cup BlockedEvents

\* Nobody but c has changed a row and not returned.
Alone(c) == \A d \in Callers \ {c} : pc[d] \in {"idle", "mutate"}

\* Between calls the hook and its record cover the rows; at the end of a call
\* without others, so does what the call read.
AInv ==
  /\ (\A c \in Callers : pc[c] \in {"idle", "mutate"}) /\ drifted = "no" =>
       Covers(hook) /\ stored = hook
  /\ \A c \in Callers :
       /\ pc[c] \in {"github", "record"} /\ Alone(c) /\ drifted # "since" => Covers(union[c])
       /\ pc[c] = "record" => hook = union[c]

LEMMA InitAInv == Init => AInv
BY DEF Init, AInv, Covers, Union, BlockedEvents, Active, NoRow

\* Covering survives edits of filters and chats, and automatic pauses.
LEMMA CoversStable ==
  ASSUME NEW E, Covers(E),
         \A t \in Subs :
           /\ rows'[t].status = rows[t].status
                \/ (rows[t].status = "active" /\ rows'[t].status = "blocked")
           /\ rows'[t].status \in {"active", "blocked"} => rows'[t].events = rows[t].events
  PROVE  Covers(E)'
<1>1. Union' \subseteq Union
  BY DEF Union, Active
<1>2. Union \cup BlockedEvents \subseteq Union' \cup BlockedEvents'
  <2>1. ASSUME NEW t \in Subs, rows[t].status \in {"active", "blocked"}, NEW e \in rows[t].events
        PROVE  e \in Union' \cup BlockedEvents'
    <3>1. rows'[t].status \in {"active", "blocked"} /\ e \in rows'[t].events
      BY <2>1
    <3> QED BY <3>1 DEF Union, BlockedEvents, Active
  <2> QED BY <2>1 DEF Union, BlockedEvents, Active
<1> QED BY <1>1, <1>2 DEF Covers

\* A step that moves no call across the changes of rows and the mutex.
LEMMA OutsideAInv ==
  ASSUME TInv, AInv, NEW s \in Subs, NEW r \in Row, Exists(s), Write(None, s, r),
         r.events = rows[s].events,
         r.status = rows[s].status \/ (rows[s].status = "active" /\ r.status = "blocked"),
         UNCHANGED <<hook, stored, mutex, callVars, drifted>>
  PROVE  AInv'
<1>1. \A t \in Subs : rows'[t] = IF t = s THEN r ELSE rows[t]
  BY DEF Write, TInv, TypeOK
<1>2. \A E : Covers(E) => Covers(E)'
  <2> SUFFICES ASSUME NEW E, Covers(E) PROVE Covers(E)'
    OBVIOUS
  <2> QED BY <1>1, CoversStable
<1>3. /\ pc' = pc /\ hook' = hook /\ stored' = stored /\ drifted' = drifted /\ union' = union
  BY DEF callVars
<1> QED BY <1>2, <1>3 DEF AInv, Alone

\* A step after which only other calls than before are at their beginning or
\* idle, and that leaves rows and hook alone.
LEMMA QuietAInv ==
  ASSUME TInv, AInv, UNCHANGED <<rows, hook, stored>>,
         \A d \in Callers : pc[d] \in {"idle", "mutate"} <=> pc'[d] \in {"idle", "mutate"},
         \A d \in Callers : pc'[d] \in {"github", "record"} =>
           pc'[d] = pc[d] /\ union'[d] = union[d],
         drifted' = drifted
  PROVE  AInv'
<1>1. Union' = Union /\ BlockedEvents' = BlockedEvents
  BY DEF Union, BlockedEvents, Active
<1> QED BY <1>1 DEF AInv, Alone, Covers

\* A step that ends calls without their synchronization.
LEMMA DriftAInv ==
  ASSUME TInv, AInv, UNCHANGED rows, drifted' = "since",
         \A d \in Callers : pc'[d] = "record" =>
           pc[d] = "record" /\ union'[d] = union[d] /\ hook' = hook
  PROVE  AInv'
BY DEF AInv

LEMMA StartAInv ==
  ASSUME TInv, AInv, NEW c \in Callers, Start(c)
  PROVE  AInv'
<1>1. ASSUME NEW o, NEW s, NEW old, NEW new, Begin(c, o, s, old, new) PROVE AInv'
  BY <1>1, QuietAInv DEF Begin, Goto, TInv, TypeOK
<1> QED BY <1>1 DEF Start, Create, SetStatus, SetEvents, Delete

\* A call that changes a row is under way, and so is one that puts it back.
LEMMA MutateAInv ==
  ASSUME TInv, AInv, NEW c \in Callers, Mutate(c) \/ Rollback(c)
  PROVE  AInv'
<1>1. /\ pc'[c] = "lock" /\ \A d \in Callers \ {c} : pc'[d] = pc[d]
      /\ UNCHANGED <<hook, stored, union, drifted>>
  BY DEF Mutate, Rollback, AfterRollback, Goto, TInv, TypeOK
<1> QED BY <1>1 DEF AInv, Alone

LEMMA SyncAInv ==
  ASSUME TInv, AInv, NEW c \in Callers, Sync(c)
  PROVE  AInv'
<1>1. CASE Lock(c)
  BY <1>1, QuietAInv DEF Lock, Goto, TInv, TypeOK
<1>2. CASE Read(c)
  <2>1. /\ pc'[c] = "github" /\ union'[c] = Union
        /\ \A d \in Callers \ {c} : pc'[d] = pc[d] /\ pc[d] \notin Critical
        /\ UNCHANGED <<rows, hook, stored>>
    BY <1>2 DEF Read, Goto, TInv, TypeOK, MutexHeld, Critical
  <2>2. Union' = Union /\ BlockedEvents' = BlockedEvents
    BY <2>1 DEF Union, BlockedEvents, Active
  <2> QED BY <2>1, <2>2 DEF AInv, Covers, Critical
<1>3. CASE GitHub(c)
  <2>1. /\ pc[c] = "github" /\ pc'[c] = "record" /\ hook' = union[c]
        /\ \A d \in Callers \ {c} : pc'[d] = pc[d] /\ pc[d] \notin Critical
        /\ UNCHANGED <<rows, stored, union, drifted>>
    BY <1>3 DEF GitHub, Goto, TInv, TypeOK, MutexHeld, Critical
  <2>2. Union' = Union /\ BlockedEvents' = BlockedEvents
    BY <2>1 DEF Union, BlockedEvents, Active
  <2> QED BY <2>1, <2>2 DEF AInv, Alone, Covers, Critical
<1>4. CASE Record(c)
  <2>1. /\ pc[c] = "record" /\ pc'[c] = "idle" /\ hook' = hook /\ stored' = union[c]
        /\ \A d \in Callers \ {c} : pc'[d] = pc[d] /\ pc[d] \notin Critical
        /\ UNCHANGED rows
        /\ drifted' = "no" => drifted # "since"
    BY <1>4 DEF Record, Return, TInv, TypeOK, MutexHeld, Critical
  <2>2. Union' = Union /\ BlockedEvents' = BlockedEvents
    BY <2>1 DEF Union, BlockedEvents, Active
  <2>3. hook = union[c]
    BY <2>1 DEF AInv
  <2>4. ASSUME \A d \in Callers : pc'[d] \in {"idle", "mutate"}, drifted' = "no"
        PROVE  Covers(hook)' /\ stored' = hook'
    <3>1. Alone(c)
      BY <2>1, <2>4 DEF Alone
    <3>2. Covers(union[c])
      BY <2>1, <2>4, <3>1 DEF AInv
    <3> QED BY <2>1, <2>2, <2>3, <3>2 DEF Covers
  <2> QED BY <2>1, <2>4 DEF AInv, Critical
<1> QED BY <1>1, <1>2, <1>3, <1>4 DEF Sync

LEMMA SyncErrorAInv ==
  ASSUME TInv, AInv, NEW c \in Callers, SyncError(c)
  PROVE  AInv'
<1>1. \A d \in Callers \ {c} : pc[d] \notin Critical
  BY DEF SyncError, TInv, MutexHeld
<1>2. CASE restoring[c]
  <2>1. pc'[c] = "idle" /\ \A d \in Callers \ {c} : pc'[d] = pc[d]
    BY <1>2 DEF SyncError, Return, TInv, TypeOK
  <2> QED BY <1>1, <1>2, <2>1, DriftAInv DEF SyncError, Critical
<1>3. CASE ~restoring[c]
  <2>1. /\ pc'[c] = "rollback" /\ UNCHANGED <<rows, drifted>>
        /\ \A d \in Callers \ {c} : pc'[d] = pc[d]
    BY <1>3 DEF SyncError, Goto, TInv, TypeOK
  <2> QED BY <1>1, <2>1 DEF AInv, Critical
<1> QED BY <1>2, <1>3

LEMMA NextAInv ==
  ASSUME TInv, AInv, [Next]_vars
  PROVE  AInv'
<1>1. ASSUME NEW c \in Callers, MutateError(c) PROVE AInv'
  BY <1>1, QuietAInv DEF MutateError, Return, TInv, TypeOK
<1>2. ASSUME NEW c \in Callers, AnswerLost(c) \/ RollbackError(c) PROVE AInv'
  BY <1>2, DriftAInv DEF AnswerLost, RollbackError, Return, TInv, TypeOK
<1>3. ASSUME NEW s \in Subs, NEW f \in Filters, SetFilter(s, f) PROVE AInv'
  <2> DEFINE r == [rows[s] EXCEPT !.filter = f]
  <2>1. rows[s] \in Row
    BY <1>3 DEF SetFilter, Exists, TInv, TypeOK
  <2>2. r \in Row /\ r.events = rows[s].events /\ r.status = rows[s].status
    BY <2>1 DEF Row
  <2>3. /\ Exists(s) /\ Write(None, s, r)
        /\ UNCHANGED <<hook, stored, mutex, callVars, drifted>>
    BY <1>3 DEF SetFilter
  <2> HIDE DEF r
  <2> QED BY <2>2, <2>3, OutsideAInv
<1>4. ASSUME NEW s \in Subs, NEW ch \in Chats, SetDestination(s, ch) PROVE AInv'
  <2> DEFINE r == [rows[s] EXCEPT !.chat = ch]
  <2>1. rows[s] \in Row
    BY <1>4 DEF SetDestination, Exists, TInv, TypeOK
  <2>2. r \in Row /\ r.events = rows[s].events /\ r.status = rows[s].status
    BY <2>1 DEF Row
  <2>3. /\ Exists(s) /\ Write(None, s, r)
        /\ UNCHANGED <<hook, stored, mutex, callVars, drifted>>
    BY <1>4 DEF SetDestination
  <2> HIDE DEF r
  <2> QED BY <2>2, <2>3, OutsideAInv
<1>5. ASSUME NEW s \in Subs, AutoPause(s) PROVE AInv'
  <2> DEFINE r == [rows[s] EXCEPT !.status = "blocked"]
  <2>1. rows[s] \in Row /\ Exists(s)
    BY <1>5, NoRowFacts DEF AutoPause, Active, Exists, TInv, TypeOK
  <2>2. /\ r \in Row /\ r.events = rows[s].events
        /\ r.status = "blocked" /\ rows[s].status = "active"
    BY <1>5, <2>1 DEF AutoPause, Active, Row, Statuses
  <2>3. Write(None, s, r) /\ UNCHANGED <<hook, stored, mutex, callVars, drifted>>
    BY <1>5 DEF AutoPause
  <2> HIDE DEF r
  <2> QED BY <2>1, <2>2, <2>3, OutsideAInv
<1>6. CASE Crash
  <2>1. /\ UNCHANGED <<rows, hook, stored>> /\ \A c \in Callers : pc'[c] = "idle"
        /\ drifted' = IF \A c \in Callers : pc[c] \in {"idle", "mutate"}
                      THEN drifted ELSE "since"
    BY <1>6 DEF Crash, Return
  <2>2. CASE \A c \in Callers : pc[c] \in {"idle", "mutate"}
    BY <2>1, <2>2, QuietAInv
  <2>3. CASE ~\A c \in Callers : pc[c] \in {"idle", "mutate"}
    BY <2>1, <2>3, DriftAInv
  <2> QED BY <2>2, <2>3
<1>7. CASE UNCHANGED vars
  BY <1>7, QuietAInv DEF vars, callVars
<1> QED
  BY <1>1, <1>2, <1>3, <1>4, <1>5, <1>6, <1>7, StartAInv, MutateAInv, SyncAInv,
     SyncErrorAInv DEF Next

\* However many calls run at once and whatever fails, the hook and its record
\* agree with the active rows whenever no call is under way, unless an edit
\* ended without its synchronization and none has completed since.
THEOREM HookFollowsRows == Spec => []HookAligned
<1>1. AInv => HookAligned
  BY DEF AInv, HookAligned, Covers
<1>2. Init /\ TInv => AInv
  BY InitAInv
<1>3. TInv /\ AInv /\ [Next]_vars => TInv' /\ AInv'
  BY NextTInv, NextAInv
<1> QED BY <1>1, <1>2, <1>3, InitTInv, PTL DEF Spec

-----------------------------------------------------------------------------
(* The mutex. *)

\* Whoever holds the mutex is between Lock and Unlock, and nobody else is.
MutexOwned == \A c \in Callers : mutex = c <=> pc[c] \in Critical

\* The first step of a call changes nothing but the call.
LEMMA StartQuiet ==
  ASSUME NEW c \in Callers, Start(c)
  PROVE  UNCHANGED <<stored, mutex>> /\ pc[c] = "idle" /\ Goto(c, "mutate")
<1>1. \E o \in Ops : \E s, old, new : Begin(c, o, s, old, new)
  BY DEF Start, Create, SetStatus, SetEvents, Delete, Ops
<1> QED BY <1>1 DEF Begin

\* No error, return or crash leaves the mutex locked, and no two calls work on the
\* hook at once: whoever waits waits for a call that is going on (EnsureWebhook).
THEOREM MutexNeverAbandoned == Spec => []MutexOwned
<1>1. Init => MutexOwned
  BY HookSyncAssumption DEF Init, MutexOwned, Critical
<1>2. TInv /\ TInv' /\ MutexOwned /\ [Next]_vars => MutexOwned'
  <2> SUFFICES ASSUME TInv, TInv', MutexOwned, [Next]_vars, NEW c \in Callers, mutex' = c
               PROVE  pc'[c] \in Critical
    BY DEF TInv, MutexHeld, MutexOwned
  <2> USE HookSyncAssumption DEF TInv, TypeOK, MutexOwned, Critical
  <2>1. ASSUME NEW d \in Callers, Sync(d) PROVE pc'[c] \in Critical
    BY <2>1 DEF Sync, Lock, Read, GitHub, Record, Goto, Return
  <2>2. ASSUME NEW d \in Callers, SyncError(d) PROVE pc'[c] \in Critical
    BY <2>2 DEF SyncError, Unlocked
  <2>3. ASSUME NEW d \in Callers,
               Start(d) \/ Mutate(d) \/ Rollback(d) \/ MutateError(d) \/ AnswerLost(d) \/ RollbackError(d)
        PROVE  pc'[c] \in Critical
    <3>1. mutex' = mutex /\ pc[d] \notin Critical
      BY <2>3, StartQuiet DEF Mutate, Rollback, MutateError, AnswerLost, RollbackError
    <3>2. \/ \E l : Goto(d, l)
          \/ Return({d})
      BY <2>3, StartQuiet DEF Mutate, Rollback, MutateError, AnswerLost, RollbackError
    <3>3. \A e \in Callers \ {d} : pc'[e] = pc[e]
      BY <3>2 DEF Goto, Return
    <3> QED BY <3>1, <3>3
  <2>4. CASE Crash
    BY <2>4 DEF Crash
  <2>5. CASE UNCHANGED <<mutex, callVars>>
    BY <2>5 DEF callVars
  <2> QED BY <2>1, <2>2, <2>3, <2>4, <2>5 DEF Next, SetFilter, SetDestination, AutoPause, vars
<1> QED BY <1>1, <1>2, InitTInv, NextTInv, PTL DEF Spec

\* repo_hooks is written with what GitHub was given, under the mutex.
RecordFollowsHook == [][stored' # stored => stored' = hook' /\ mutex # None]_vars

\* The record of a hook never says what GitHub was not told last, however many
\* calls, errors and lost answers there are (UpsertRepoHook, DeleteRepoHook).
THEOREM RecordsFollowHook == Spec => RecordFollowsHook
<1>1. ASSUME TInv, AInv, [Next]_vars, stored' # stored
      PROVE  stored' = hook' /\ mutex # None
  <2>1. PICK c \in Callers : Record(c) \/ SyncError(c)
    <3>1. ASSUME NEW d \in Callers,
                 \/ Start(d) \/ Mutate(d) \/ Lock(d) \/ Read(d) \/ GitHub(d) \/ Rollback(d)
                 \/ MutateError(d) \/ AnswerLost(d) \/ RollbackError(d)
          PROVE  FALSE
      BY <1>1, <3>1, StartQuiet
         DEF Mutate, Lock, Read, GitHub, Rollback, MutateError, AnswerLost, RollbackError
    <3> QED BY <1>1, <3>1 DEF Next, Sync, SetFilter, SetDestination, AutoPause, Crash, vars
  <2>2. pc[c] = "record" /\ stored' = union[c] /\ hook' = hook
    BY <1>1, <2>1 DEF Record, SyncError
  <2> QED BY <1>1, <2>2, HookSyncAssumption DEF AInv, TInv, MutexHeld, Critical
<1>2. Init => TInv /\ AInv
  BY InitTInv, InitAInv
<1>3. TInv /\ AInv /\ [Next]_vars => TInv' /\ AInv'
  BY NextTInv, NextAInv
<1>4. TInv /\ AInv /\ [Next]_vars => [stored' # stored => stored' = hook' /\ mutex # None]_vars
  BY <1>1
<1> QED BY <1>2, <1>3, <1>4, PTL DEF Spec, RecordFollowsHook

-----------------------------------------------------------------------------
(* A failed edit is undone. *)

\* As long as nobody else changes the row, a call that has not changed it yet
\* knows it, and what the compensation would write is the row before the call.
Undoable(c) ==
  op[c] # None /\ ~touched[c] =>
    /\ pc[c] = "mutate" /\ op[c] # "create" => rows[target[c]] = saved[c]
    /\ pc[c] = "mutate" /\ op[c] = "create" =>
         \/ saved[c] = NoRow /\ Holders(wanted[c]) = {}
         \/ \E s \in Holders(wanted[c]) : saved[c] = rows[s]
    /\ pc[c] \in Underway => Undone(c) = saved[c]

UInv == \A c \in Callers : Undoable(c)

LEMMA InitUInv == Init => UInv
BY DEF Init, UInv, Undoable

\* A call does not notice a step that changes neither what it keeps nor,
\* unless the step marks it, the rows it is about.
LEMMA Unnoticed ==
  ASSUME NEW d \in Callers, Undoable(d),
         op'[d] = op[d], target'[d] = target[d], saved'[d] = saved[d],
         wanted'[d] = wanted[d], created'[d] = created[d],
         pc'[d] = pc[d] \/ (pc[d] \in Underway /\ pc'[d] \in Underway),
         op[d] # None /\ ~touched'[d] =>
           /\ ~touched[d]
           /\ rows'[target[d]] = rows[target[d]]
           /\ pc[d] = "mutate" /\ op[d] = "create" => rows' = rows
  PROVE  Undoable(d)'
<1>1. CASE op[d] = None \/ touched'[d]
  BY <1>1 DEF Undoable
<1>2. CASE op[d] # None /\ ~touched'[d]
  <2>1. ~touched[d] /\ rows'[target[d]] = rows[target[d]]
    BY <1>2
  <2>2. Undone(d)' = Undone(d)
    BY <2>1 DEF Undone, WithSettings, SavedStatus
  <2>3. ASSUME pc'[d] \in Underway PROVE Undone(d)' = saved'[d]
    BY <1>2, <2>1, <2>2, <2>3 DEF Undoable, Underway, Critical
  <2>4. ASSUME pc'[d] = "mutate", op[d] # "create" PROVE rows'[target[d]] = saved'[d]
    BY <1>2, <2>1, <2>4 DEF Undoable, Underway, Critical
  <2>5. ASSUME pc'[d] = "mutate", op[d] = "create"
        PROVE  \/ saved'[d] = NoRow /\ Holders(wanted[d])' = {}
               \/ \E s \in Holders(wanted[d])' : saved'[d] = rows'[s]
    <3>1. pc[d] = "mutate" /\ rows' = rows
      BY <1>2, <2>5 DEF Underway, Critical
    <3>2. Holders(wanted[d])' = Holders(wanted[d])
      BY <3>1 DEF Holders, Exists
    <3> QED BY <1>2, <2>1, <2>5, <3>1, <3>2 DEF Undoable
  <2> QED BY <2>3, <2>4, <2>5 DEF Undoable
<1> QED BY <1>1, <1>2

\* A write marks the calls that are about its row.
LEMMA WriteUnnoticed ==
  ASSUME TInv, UInv, NEW c, NEW s \in Subs, NEW r, NEW d \in Callers, d # c,
         Write(c, s, r),
         op'[d] = op[d], target'[d] = target[d], saved'[d] = saved[d],
         wanted'[d] = wanted[d], created'[d] = created[d], pc'[d] = pc[d]
  PROVE  Undoable(d)'
<1>1. /\ rows' = [rows EXCEPT ![s] = r]
      /\ touched'[d] = (touched[d] \/ (op[d] # None /\ target[d] \in {s, None}))
  BY DEF Write, Touch
<1>2. ASSUME op[d] # None, ~touched'[d]
      PROVE  /\ ~touched[d]
             /\ rows'[target[d]] = rows[target[d]]
             /\ pc[d] = "mutate" /\ op[d] = "create" => rows' = rows
  BY <1>1, <1>2 DEF TInv, TypeOK, CallShape
<1>3. Undoable(d)
  BY DEF UInv
<1> QED BY <1>2, <1>3, Unnoticed

\* What a call knows when it begins.
LEMMA StartUInv ==
  ASSUME TInv, UInv, NEW c \in Callers, Start(c)
  PROVE  UInv'
<1>1. PICK o, s, old, new :
        /\ Begin(c, o, s, old, new)
        /\ o # "create" => old = rows[s]
        /\ o = "create" =>
             \/ old = NoRow /\ Holders(new) = {}
             \/ \E t \in Holders(new) : old = rows[t]
  <2>1. CASE \E E \in Listings, f \in Filters, ch \in Chats : Create(c, E, f, ch)
    BY <2>1 DEF Create
  <2>2. CASE \E s \in Subs : \E st \in {"active", "paused"} : SetStatus(c, s, st)
    BY <2>2 DEF SetStatus
  <2>3. CASE \E s \in Subs : \E E \in Listings : SetEvents(c, s, E)
    BY <2>3 DEF SetEvents
  <2>4. CASE \E s \in Subs : Delete(c, s)
    BY <2>4 DEF Delete
  <2> QED BY <2>1, <2>2, <2>3, <2>4 DEF Start
<1>2. ASSUME NEW d \in Callers, d # c PROVE Undoable(d)'
  BY <1>1, <1>2, Unnoticed DEF Begin, Goto, TInv, TypeOK, UInv
<1>3. Undoable(c)'
  <2>1. /\ pc'[c] = "mutate" /\ op'[c] = o /\ target'[c] = s /\ saved'[c] = old
        /\ wanted'[c] = new /\ rows' = rows
    BY <1>1 DEF Begin, Goto, TInv, TypeOK
  <2>2. Holders(wanted[c])' = Holders(new)
    BY <2>1 DEF Holders, Exists
  <2> QED BY <1>1, <2>1, <2>2 DEF Undoable, Underway, Critical
<1> QED BY <1>2, <1>3 DEF UInv

\* After the mutation the compensation of an undisturbed call would write the
\* row that was there before.
LEMMA MutateUInv ==
  ASSUME TInv, UInv, NEW c \in Callers, Mutate(c)
  PROVE  UInv'
<1>1. PICK s \in Subs, r \in Row \cup {NoRow} :
        /\ Write(c, s, r)
        /\ target' = [target EXCEPT ![c] = s]
        /\ created' \in [Callers -> BOOLEAN]
        /\ \A d \in Callers \ {c} : created'[d] = created[d]
  BY MutateRows
<1>2. ASSUME NEW d \in Callers, d # c PROVE Undoable(d)'
  BY <1>1, <1>2, WriteUnnoticed DEF Mutate, Goto, TInv, TypeOK
<1>3. /\ pc[c] = "mutate" /\ pc'[c] = "lock" /\ op' = op /\ saved' = saved
      /\ op[c] \in Ops /\ ~created[c] /\ RowsOK
      /\ op[c] # "create" => saved[c] \in Row /\ target[c] \in Subs
  BY DEF Mutate, Goto, TInv, TypeOK, RowsOK, CallShape
<1>4. ASSUME ~touched[c] PROVE Undone(c)' = saved[c]
  <2>1. CASE op[c] = "create" /\ saved[c] = NoRow /\ Holders(wanted[c]) = {}
    <3>1. created'[c] = TRUE
      BY <1>3, <2>1 DEF Mutate, CreateSubscription, UpdateRow, TInv, TypeOK
    <3> QED BY <1>3, <2>1, <3>1 DEF Undone
  <2>2. CASE op[c] = "create" /\ \E t \in Holders(wanted[c]) : saved[c] = rows[t]
    <3>1. PICK t \in Holders(wanted[c]) : saved[c] = rows[t]
      BY <2>2
    <3>2. PICK u \in Holders(wanted[c]) :
            /\ Write(c, u, [rows[u] EXCEPT !.status = "active"])
            /\ target' = [target EXCEPT ![c] = u]
            /\ UNCHANGED created
      BY <2>2 DEF Mutate, CreateSubscription, UpdateRow
    <3>3. /\ t = u /\ u \in Subs /\ saved[c] \in Row /\ saved[c] # NoRow
      BY <1>3, <3>1, Unique, NoRowFacts DEF RowsOK, Holders, Exists
    <3>4. /\ rows'[u] = [saved[c] EXCEPT !.status = "active"]
          /\ target'[c] = u /\ ~created'[c]
      BY <1>3, <3>1, <3>2, <3>3 DEF Write, TInv, TypeOK
    <3>5. Undone(c)' = [rows'[u] EXCEPT !.status = saved[c].status]
      BY <1>3, <2>2, <3>3, <3>4 DEF Undone, SavedStatus
    <3> QED BY <3>3, <3>4, <3>5 DEF Row
  <2>3. CASE op[c] # "create"
    <3>1. /\ rows[target[c]] = saved[c] /\ target'[c] = target[c]
          /\ saved[c] \in Row /\ target[c] \in Subs
      <4>1. target' = target
        BY <2>3 DEF Mutate, CreateSubscription, UpdateRow
      <4>2. op[c] # None
        BY <1>3, HookSyncAssumption
      <4> QED BY <1>3, <1>4, <2>3, <4>1, <4>2 DEF UInv, Undoable
    <3>2. CASE op[c] = "status"
      <4>1. rows'[target[c]] = [saved[c] EXCEPT !.status = wanted[c].status]
        BY <1>3, <3>1, <3>2 DEF Mutate, CreateSubscription, UpdateRow, Write, TInv, TypeOK
      <4>2. Undone(c)' = [rows'[target[c]] EXCEPT !.status = saved[c].status]
        BY <1>3, <3>1, <3>2 DEF Undone, SavedStatus
      <4> QED BY <3>1, <4>1, <4>2 DEF Row
    <3>3. CASE op[c] = "events"
      <4>1. rows'[target[c]] = [saved[c] EXCEPT !.events = wanted[c].events,
                                                !.filter = wanted[c].filter]
        BY <1>3, <3>1, <3>3 DEF Mutate, CreateSubscription, UpdateRow, Write, WithSettings,
           TInv, TypeOK
      <4>2. Undone(c)' = [rows'[target[c]] EXCEPT !.events = saved[c].events,
                                                  !.filter = saved[c].filter]
        BY <1>3, <3>1, <3>3 DEF Undone, WithSettings
      <4> QED BY <3>1, <4>1, <4>2 DEF Row
    <3>4. CASE op[c] = "delete"
      BY <1>3, <3>4 DEF Undone
    <3> QED BY <1>3, <2>3, <3>2, <3>3, <3>4 DEF Ops
  <2>4. op[c] # None
    BY <1>3, HookSyncAssumption
  <2> QED BY <1>3, <1>4, <2>1, <2>2, <2>3, <2>4 DEF UInv, Undoable
<1>5. touched'[c] = touched[c]
  BY <1>1 DEF Write, Touch, TInv, TypeOK
<1>6. Undoable(c)'
  BY <1>3, <1>4, <1>5 DEF Undoable, Underway, Critical
<1> QED BY <1>2, <1>6 DEF UInv

\* A step that moves c on or ends it, and leaves the rows alone.
LEMMA OwnUInv ==
  ASSUME TInv, UInv, NEW C \in SUBSET Callers, UNCHANGED rows,
         \A d \in C : op'[d] = None,
         \A d \in Callers \ C :
           /\ op'[d] = op[d] /\ target'[d] = target[d] /\ saved'[d] = saved[d]
           /\ wanted'[d] = wanted[d] /\ created'[d] = created[d] /\ touched'[d] = touched[d]
           /\ pc'[d] = pc[d] \/ (pc[d] \in Underway /\ pc'[d] \in Underway)
  PROVE  UInv'
<1>1. ASSUME NEW d \in C PROVE Undoable(d)'
  BY DEF Undoable
<1>2. ASSUME NEW d \in Callers \ C PROVE Undoable(d)'
  BY Unnoticed DEF UInv
<1> QED BY <1>1, <1>2 DEF UInv

\* The same when no call ends.
LEMMA MoveUInv ==
  ASSUME TInv, UInv, UNCHANGED <<rows, op, target, saved, wanted, created, touched>>,
         \A d \in Callers : pc'[d] = pc[d] \/ (pc[d] \in Underway /\ pc'[d] \in Underway)
  PROVE  UInv'
<1>1. ASSUME NEW d \in Callers PROVE Undoable(d)'
  BY Unnoticed DEF UInv
<1> QED BY <1>1 DEF UInv

\* Calls that return.
LEMMA ReturnUInv ==
  ASSUME TInv, UInv, NEW C \in SUBSET Callers, Return(C), UNCHANGED rows
  PROVE  UInv'
<1>1. \A d \in C : op'[d] = None
  BY DEF Return, Forget
<1>2. \A d \in Callers \ C :
        /\ op'[d] = op[d] /\ target'[d] = target[d] /\ saved'[d] = saved[d]
        /\ wanted'[d] = wanted[d] /\ created'[d] = created[d] /\ touched'[d] = touched[d]
        /\ pc'[d] = pc[d]
  BY DEF Return, Forget, TInv, TypeOK
<1> QED BY <1>1, <1>2, OwnUInv

LEMMA RollbackUInv ==
  ASSUME TInv, UInv, NEW c \in Callers, Rollback(c)
  PROVE  UInv'
<1>1. ASSUME NEW d \in Callers, d # c PROVE Undoable(d)'
  <2>1. /\ op'[d] = op[d] /\ target'[d] = target[d] /\ saved'[d] = saved[d]
        /\ wanted'[d] = wanted[d] /\ created'[d] = created[d] /\ pc'[d] = pc[d]
        /\ touched'[d] = (touched[d] \/ (op[d] # None /\ target[d] \in {target[c], None}))
        /\ rows' = [rows EXCEPT ![target[c]] = Undone(c)]
        /\ target[c] \in Subs
    BY <1>1, UndoneRows DEF Rollback, Goto, Forget, TInv, TypeOK
  <2>2. ASSUME op[d] # None, ~touched'[d]
        PROVE  /\ ~touched[d]
               /\ rows'[target[d]] = rows[target[d]]
               /\ pc[d] = "mutate" /\ op[d] = "create" => rows' = rows
    BY <2>1, <2>2 DEF TInv, TypeOK, CallShape
  <2> QED BY <2>1, <2>2, Unnoticed DEF UInv
<1>2. Undoable(c)'
  BY DEF Undoable, Rollback, Forget, TInv, TypeOK
<1> QED BY <1>1, <1>2 DEF UInv

LEMMA NextUInv ==
  ASSUME TInv, UInv, [Next]_vars
  PROVE  UInv'
<1>1. ASSUME NEW c \in Callers,
             MutateError(c) \/ AnswerLost(c) \/ RollbackError(c) \/ Record(c)
      PROVE  UInv'
  BY <1>1, ReturnUInv DEF MutateError, AnswerLost, RollbackError, Record
<1>2. ASSUME NEW c \in Callers, Lock(c) \/ Read(c) \/ GitHub(c) PROVE UInv'
  <2>1. /\ UNCHANGED <<rows, op, target, saved, wanted, created, touched>>
        /\ pc[c] \in Underway /\ pc'[c] \in Underway
        /\ \A d \in Callers \ {c} : pc'[d] = pc[d]
    BY <1>2 DEF Lock, Read, GitHub, Goto, TInv, TypeOK, Underway, Critical
  <2> QED BY <2>1, MoveUInv
<1>3. ASSUME NEW c \in Callers, SyncError(c) PROVE UInv'
  <2>1. CASE restoring[c]
    BY <1>3, <2>1, ReturnUInv DEF SyncError
  <2>2. CASE ~restoring[c]
    <3>1. /\ UNCHANGED <<rows, op, target, saved, wanted, created, touched>>
          /\ pc[c] \in Underway /\ pc'[c] \in Underway
          /\ \A d \in Callers \ {c} : pc'[d] = pc[d]
      BY <1>3, <2>2 DEF SyncError, Goto, TInv, TypeOK, Underway, Critical
    <3> QED BY <3>1, MoveUInv
  <2> QED BY <2>1, <2>2
<1>4. ASSUME NEW s \in Subs, NEW r, Write(None, s, r), UNCHANGED callVars
      PROVE  UInv'
  BY <1>4, WriteUnnoticed, HookSyncAssumption DEF callVars, UInv
<1>5. CASE Crash
  BY <1>5, ReturnUInv DEF Crash
<1>6. CASE UNCHANGED vars
  BY <1>6, MoveUInv DEF vars, callVars
<1> QED
  BY <1>1, <1>2, <1>3, <1>4, <1>5, <1>6, StartUInv, MutateUInv, RollbackUInv
     DEF Next, Sync, SetFilter, SetDestination, AutoPause

\* A call whose synchronization failed leaves its subscription exactly as it
\* found it, pause reason and filter included, unless somebody else edited it
\* between the read and the compensation - for any number of calls at once.
THEOREM EditsUndone == Spec => FailedEditUndone
<1>1. ASSUME TInv, UInv, [Next]_vars, NEW c \in Callers, restoring'[c], ~restoring[c],
             ~touched[c]
      PROVE  rows'[target[c]] = saved[c]
  <2>1. Rollback(c)
    <3>1. ASSUME NEW C, Return(C) PROVE FALSE
      BY <1>1, <3>1 DEF Return
    <3>2. ASSUME restoring' = restoring PROVE FALSE
      BY <1>1, <3>2
    <3>3. ASSUME NEW d \in Callers, Rollback(d), d # c PROVE FALSE
      BY <1>1, <3>3 DEF Rollback, TInv, TypeOK
    <3>4. ASSUME NEW d \in Callers, Start(d) PROVE FALSE
      BY <3>2, <3>4 DEF Start, Create, SetStatus, SetEvents, Delete, Begin
    <3>5. ASSUME NEW d \in Callers, Mutate(d) \/ Lock(d) \/ Read(d) \/ GitHub(d) PROVE FALSE
      BY <3>2, <3>5 DEF Mutate, Lock, Read, GitHub
    <3>6. ASSUME NEW d \in Callers,
                 \/ MutateError(d) \/ AnswerLost(d) \/ SyncError(d) \/ RollbackError(d)
                 \/ Record(d)
          PROVE  FALSE
      BY <3>1, <3>2, <3>6 DEF MutateError, AnswerLost, SyncError, RollbackError, Record
    <3>7. ASSUME NEW s \in Subs,
                 \/ \E f \in Filters : SetFilter(s, f)
                 \/ \E ch \in Chats : SetDestination(s, ch)
                 \/ AutoPause(s)
          PROVE  FALSE
      BY <3>2, <3>7 DEF SetFilter, SetDestination, AutoPause, callVars
    <3>8. ASSUME Crash \/ UNCHANGED vars PROVE FALSE
      BY <3>1, <3>2, <3>8 DEF Crash, vars, callVars
    <3> QED BY <1>1, <3>3, <3>4, <3>5, <3>6, <3>7, <3>8 DEF Next, Sync
  <2>2. Undone(c) = saved[c]
    <3>1. op[c] # None
      BY <2>1, <1>1, UndoneRows, HookSyncAssumption
    <3> QED BY <1>1, <2>1, <3>1 DEF Rollback, UInv, Undoable, Underway
  <2>3. target[c] \in Subs /\ rows' = [rows EXCEPT ![target[c]] = Undone(c)]
    BY <1>1, <2>1, UndoneRows DEF Rollback
  <2> QED BY <2>2, <2>3, <1>1 DEF TInv, TypeOK
<1>2. TInv /\ UInv /\ [Next]_vars =>
        [\A c \in Callers :
           restoring'[c] /\ ~restoring[c] /\ ~touched[c] => rows'[target[c]] = saved[c]]_vars
  BY <1>1
<1>3. TInv /\ UInv /\ [Next]_vars => TInv' /\ UInv'
  BY NextTInv, NextUInv
<1>4. Init => UInv
  BY InitUInv
<1> QED BY <1>2, <1>3, <1>4, InitTInv, PTL DEF Spec, FailedEditUndone

=============================================================================
