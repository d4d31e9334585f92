----------------------------- MODULE Migrations ------------------------------
(***************************************************************************)
(* RunMigrations (internal/db/migrations.go): instances that start at the  *)
(* same time and bring one database up to date.                            *)
(*                                                                         *)
(* The advisory lock belongs to a session of its own; the statements and   *)
(* the transactions of the migrations take other connections of the pool.  *)
(* PostgreSQL drops the lock with its session, of which the instance takes *)
(* no notice.                                                              *)
(***************************************************************************)
EXTENDS Naturals, FiniteSets

CONSTANTS
  Instances,    \* processes of Branchy
  Last,         \* the last version in the migrations directory
  PoolMaxConns, \* pool_max_conns of DATABASE_URL
  None

ASSUME MigrationsAssumption ==
  /\ Last \in Nat /\ PoolMaxConns \in Nat
  /\ None \notin Instances

Versions == 1..Last

\* Mutant: the pool is as small as the URL asks.
AsConfigured == PoolMaxConns

\* Connect makes the pool large enough.
Connections == IF PoolMaxConns < 10 THEN 10 ELSE PoolMaxConns

VARIABLES
  lock,     \* the instance whose session holds the advisory lock
  applied,  \* the versions in schema_migrations
  step,     \* where RunMigrations of each instance is
  version,  \* the migration it is at
  beside,   \* history: instances that may migrate beside another, as a lock was lost
  repeated  \* history: migrations committed again without that excuse

migrationVars == <<lock, applied, step, version, beside, repeated>>

Steps == {"none", "lock", "check", "apply"}

MigrationsTypeOK ==
  /\ lock \in Instances \cup {None}
  /\ applied \in SUBSET Versions
  /\ step \in [Instances -> Steps]
  /\ version \in [Instances -> 1..(Last + 1)]
  /\ beside \in SUBSET Instances
  /\ repeated \in SUBSET Versions

\* The directory may hold migrations an earlier release has applied.
MigrationsInit ==
  /\ lock = None
  /\ applied \in {1..n : n \in 0..Last}
  /\ step = [i \in Instances |-> "none"]
  /\ version = [i \in Instances |-> 1]
  /\ beside = {}
  /\ repeated = {}

\* The lock's session keeps one connection, every other statement needs one more.
Spare == Connections > 1

\* The lock connection is acquired; pg_advisory_lock is yet to return.
BeginMigrations(i) ==
  /\ step' = [step EXCEPT ![i] = "lock"]
  /\ UNCHANGED <<lock, applied, version, beside, repeated>>

\* Mutant: the lock is the transaction's and gone with its statement.
NotExcluded(i) ==
  /\ step[i] = "lock"
  /\ step' = [step EXCEPT ![i] = "check"]
  /\ UNCHANGED <<lock, applied, version, beside, repeated>>

TakeLock(i) ==
  /\ step[i] = "lock" /\ lock = None
  /\ lock' = i
  /\ step' = [step EXCEPT ![i] = "check"]
  /\ beside' = IF beside = {} THEN {} ELSE beside \cup {i}
  /\ UNCHANGED <<applied, version, repeated>>

\* migrationApplied: go on with the next one, or apply this one.
Check(i) ==
  /\ step[i] = "check" /\ Spare /\ version[i] \in Versions
  /\ IF version[i] \in applied
     THEN /\ version' = [version EXCEPT ![i] = @ + 1]
          /\ UNCHANGED step
     ELSE /\ step' = [step EXCEPT ![i] = "apply"]
          /\ UNCHANGED version
  /\ UNCHANGED <<lock, applied, beside, repeated>>

\* The transaction commits the script together with its record.
Commit(i) ==
  /\ step[i] = "apply"
  /\ applied' = applied \cup {version[i]}
  /\ repeated' = IF beside = {} THEN repeated \cup (applied \cap {version[i]}) ELSE repeated

Apply(i) ==
  /\ Spare
  /\ Commit(i)
  /\ step' = [step EXCEPT ![i] = "check"]
  /\ version' = [version EXCEPT ![i] = @ + 1]
  /\ UNCHANGED <<lock, beside>>

\* The unlock is the last deferred call, on every way out.
Unlock(i) == lock' = IF lock = i THEN None ELSE lock

LeaveMigrations(i) ==
  /\ Unlock(i)
  /\ step' = [step EXCEPT ![i] = "none"]
  /\ version' = [version EXCEPT ![i] = 1]
  /\ beside' = beside \ {i}

FinishMigrations(i) ==
  /\ step[i] = "check" /\ version[i] = Last + 1
  /\ LeaveMigrations(i)
  /\ UNCHANGED <<applied, repeated>>

\* Whatever fails ends the run; a failed COMMIT may have taken effect.
AbortMigrations(i) ==
  /\ step[i] # "none"
  /\ LeaveMigrations(i)
  /\ Commit(i) \/ UNCHANGED <<applied, repeated>>

\* The server or the network ends the session that holds the lock.
LoseLock(i) ==
  /\ lock = i
  /\ lock' = None
  /\ beside' = beside \cup {i}
  /\ UNCHANGED <<applied, step, version, repeated>>
=============================================================================
