---------------------------- MODULE ProcessProofs -----------------------------
(***************************************************************************)
(* Theorems about starting, serving and stopping, for every number of      *)
(* instances, migrations, links and concurrent callbacks.                  *)
(***************************************************************************)
EXTENDS Process, TLAPS

\* While no lock was lost only its holder is past the lock, and what it is about
\* to apply is not applied; after a loss everyone past the lock is counted.
SchemaInv ==
  /\ repeated = {}
  /\ \A i \in Instances :
       /\ lock = i => step[i] \in {"check", "apply"}
       /\ step[i] \in {"check", "apply"} => i \in beside \/ (beside = {} /\ lock = i)
       /\ step[i] = "apply" => version[i] \in Versions /\ (beside = {} => version[i] \notin applied)
       /\ \A v \in Versions : v < version[i] => v \in applied

\* Only a migrating instance is inside RunMigrations, and what comes after it
\* finds every migration applied.
PhaseInv ==
  \A i \in Instances :
    /\ step[i] # "none" => phase[i] = "migrating"
    /\ i \in AutoMigrate /\ phase[i] \notin {"down", "migrating"} => applied = Versions

\* The server sends one error at most, with its end; one that main was still going
\* to look for is in the channel or was taken from it.
ErrorInv ==
  /\ \A i \in Instances :
       /\ errCh[i] # 0 => errCh[i] = 1 /\ result[i] = "clean" /\ "http" \notin running[i]
       /\ "http" \in running[i] => result[i] = "clean" /\ i \notin early
       /\ i \in early => errCh[i] = 1 \/ result[i] = "error"
       /\ phase[i] \in {"down", "migrating", "preflight"} =>
            errCh[i] = 0 /\ result[i] = "clean" /\ i \notin early /\ running[i] = {}
       /\ phase[i] = "closed" => running[i] = {}
  /\ FailureReported

\* Handlers run where the server does, and past a Shutdown only if it gave up.
HandlerInv ==
  \A c \in Calls :
    /\ stage[c] = "idle" <=> host[c] = None
    /\ stage[c] = "idle" <=> link[c] = None
    /\ \A i \in Instances : host[c] = i =>
         /\ phase[i] \in {"serving", "stopping", "leaving", "shutdown", "waiting", "closed"}
         /\ phase[i] \in {"waiting", "closed"} => forced[i]

\* A link is gone once a code may be exchanged for it, by a single call.
LinkInv ==
  /\ reused = {}
  /\ \A l \in exchanged : state[l] = "absent"
  /\ \A c \in Calls : stage[c] = "github" =>
       /\ state[link[c]] = "absent" /\ link[c] \notin exchanged
       /\ \A d \in Calls : stage[d] = "github" /\ link[d] = link[c] => d = c

IInv ==
  /\ TypeOK
  /\ SchemaInv /\ PhaseInv /\ ErrorInv
  /\ HandlerInv /\ LinkInv /\ SpentForReason

LEMMA InitIInv == Init => IInv
<1> SUFFICES ASSUME Init PROVE IInv
  OBVIOUS
<1> USE MigrationsAssumption, LifecycleAssumption, OAuthAssumption
<1>1. MigrationsTypeOK /\ SchemaInv
  BY DEF Init, MigrationsInit, MigrationsTypeOK, SchemaInv, Versions, Steps
<1>2. LifecycleTypeOK /\ ErrorInv
  BY DEF Init, LifecycleInit, LifecycleTypeOK, ErrorInv, Phases, FailureReported, Listens, ErrCapacity
<1>3. PhaseInv
  BY DEF Init, MigrationsInit, LifecycleInit, PhaseInv
<1>4. OAuthTypeOK /\ HandlerInv /\ LinkInv /\ SpentForReason
  BY DEF Init, OAuthInit, OAuthTypeOK, HandlerInv, LinkInv, SpentForReason, Stages
<1> QED BY <1>1, <1>2, <1>3, <1>4 DEF IInv, TypeOK

-----------------------------------------------------------------------------
(* Migrations. *)

\* What a step of RunMigrations leaves intact: the schema's part of the invariant,
\* the progress of the others, and what was applied.
Kept(i) ==
  /\ MigrationsTypeOK' /\ SchemaInv'
  /\ applied \subseteq applied'
  /\ \A j \in Instances \ {i} : step'[j] = step[j]

LEMMA BeginKept ==
  ASSUME MigrationsTypeOK, SchemaInv, NEW i \in Instances, step[i] = "none", BeginMigrations(i)
  PROVE  Kept(i)
BY DEF Kept, MigrationsTypeOK, SchemaInv, BeginMigrations, Steps

LEMMA TakeLockKept ==
  ASSUME MigrationsTypeOK, SchemaInv, NEW i \in Instances, TakeLock(i)
  PROVE  Kept(i)
<1>1. \A j \in Instances : step[j] \in {"check", "apply"} => j \in beside
  BY MigrationsAssumption DEF MigrationsTypeOK, SchemaInv, TakeLock
<1>2. MigrationsTypeOK' /\ applied \subseteq applied' /\ \A j \in Instances \ {i} : step'[j] = step[j]
  BY DEF MigrationsTypeOK, TakeLock, Steps
<1>3. SchemaInv'
  BY <1>1, MigrationsAssumption DEF MigrationsTypeOK, SchemaInv, TakeLock, Steps
<1> QED BY <1>2, <1>3 DEF Kept

LEMMA CheckKept ==
  ASSUME MigrationsTypeOK, SchemaInv, NEW i \in Instances, Check(i)
  PROVE  Kept(i)
<1>1. version[i] \in Versions /\ version[i] \in 1..Last /\ Last \in Nat
  BY MigrationsAssumption DEF Check, Versions
<1>2. MigrationsTypeOK' /\ applied \subseteq applied' /\ \A j \in Instances \ {i} : step'[j] = step[j]
  BY <1>1 DEF MigrationsTypeOK, Check, Steps, Versions
<1>3. SchemaInv'
  BY <1>1 DEF MigrationsTypeOK, SchemaInv, Check, Steps, Versions
<1> QED BY <1>2, <1>3 DEF Kept

\* A commit applies a migration that was not applied, unless a lock was lost.
LEMMA CommitKept ==
  ASSUME MigrationsTypeOK, SchemaInv, NEW i \in Instances, Commit(i)
  PROVE  /\ version[i] \in Versions /\ applied' \in SUBSET Versions /\ repeated' = {}
         /\ applied' = applied \cup {version[i]}
         /\ \A j \in Instances : step[j] = "apply" /\ j # i => beside # {} /\ j \in beside
<1>1. version[i] \in Versions /\ (beside = {} => version[i] \notin applied)
  BY DEF Commit, SchemaInv
<1>2. repeated' = {}
  BY <1>1 DEF Commit, SchemaInv
<1>3. ASSUME NEW j \in Instances, step[j] = "apply", j # i
      PROVE  beside # {} /\ j \in beside
  BY <1>3 DEF Commit, SchemaInv
<1> QED BY <1>1, <1>2, <1>3 DEF Commit, MigrationsTypeOK

LEMMA ApplyKept ==
  ASSUME MigrationsTypeOK, SchemaInv, NEW i \in Instances, Apply(i)
  PROVE  Kept(i)
<1>1. /\ version[i] \in Versions /\ applied' \in SUBSET Versions /\ repeated' = {}
      /\ applied' = applied \cup {version[i]}
      /\ \A j \in Instances : step[j] = "apply" /\ j # i => beside # {} /\ j \in beside
  BY CommitKept DEF Apply
<1>2. version[i] \in 1..Last /\ Last \in Nat
  BY <1>1, MigrationsAssumption DEF Versions
<1>3. MigrationsTypeOK' /\ applied \subseteq applied' /\ \A j \in Instances \ {i} : step'[j] = step[j]
  BY <1>1, <1>2 DEF MigrationsTypeOK, Apply, Steps
<1>4. step[i] = "apply"
  BY DEF Apply, Commit
<1>5. SchemaInv'
  BY <1>1, <1>2, <1>4 DEF MigrationsTypeOK, SchemaInv, Apply, Steps, Versions
<1> QED BY <1>3, <1>5 DEF Kept

\* Leaving, with or without a last commit.
LEMMA LeaveKept ==
  ASSUME MigrationsTypeOK, SchemaInv, NEW i \in Instances, LeaveMigrations(i),
         Commit(i) \/ UNCHANGED <<applied, repeated>>
  PROVE  Kept(i) /\ step'[i] = "none"
<1>1. /\ applied' \in SUBSET Versions /\ applied \subseteq applied' /\ repeated' = {}
      /\ \A j \in Instances : step[j] = "apply" /\ j # i /\ applied' # applied => j \in beside
  BY CommitKept DEF MigrationsTypeOK, SchemaInv
<1>2. /\ MigrationsTypeOK' /\ step'[i] = "none" /\ version'[i] = 1
      /\ \A j \in Instances \ {i} : step'[j] = step[j] /\ version'[j] = version[j]
  BY <1>1, MigrationsAssumption DEF MigrationsTypeOK, LeaveMigrations, Unlock, Steps
<1>3. \A v \in Versions : ~(v < 1)
  BY MigrationsAssumption DEF Versions
<1>4. ASSUME NEW j \in Instances
      PROVE  /\ lock' = j => step'[j] \in {"check", "apply"}
             /\ step'[j] \in {"check", "apply"} => j \in beside' \/ (beside' = {} /\ lock' = j)
             /\ step'[j] = "apply" =>
                  version'[j] \in Versions /\ (beside' = {} => version'[j] \notin applied')
             /\ \A v \in Versions : v < version'[j] => v \in applied'
  <2>1. CASE j = i
    BY <1>2, <1>3, <2>1, MigrationsAssumption DEF LeaveMigrations, Unlock
  <2>2. CASE j # i
    BY <1>1, <1>2, <2>2, MigrationsAssumption DEF SchemaInv, LeaveMigrations, Unlock
  <2> QED BY <2>1, <2>2
<1> QED BY <1>1, <1>2, <1>4 DEF Kept, SchemaInv

LEMMA LoseLockKept ==
  ASSUME MigrationsTypeOK, SchemaInv, NEW i \in Instances, LoseLock(i)
  PROVE  Kept(i)
BY MigrationsAssumption DEF Kept, MigrationsTypeOK, SchemaInv, LoseLock

-----------------------------------------------------------------------------
(* Life cycle. *)

\* The parts of the invariant that speak of the life of an instance.
LifeInv == LifecycleTypeOK /\ PhaseInv /\ ErrorInv /\ HandlerInv

\* A process that is gone: what it still had must not matter.
LEMMA VanishLife ==
  ASSUME LifeInv, LifecycleTypeOK, NEW i \in Instances, Vanish(i),
         step'[i] = "none", \A j \in Instances \ {i} : step'[j] = step[j],
         applied \subseteq applied', applied' \subseteq Versions,
         \A c \in Calls : host'[c] # i,
         \A c \in Calls : stage'[c] = "idle" <=> host'[c] = None,
         \A c \in Calls : stage'[c] = "idle" <=> link'[c] = None,
         \A c \in Calls : host'[c] = None \/ host'[c] = host[c]
  PROVE  LifeInv'
<1>1. LifecycleTypeOK'
  BY DEF Vanish, Enter, LifecycleTypeOK, Phases, ErrCapacity
<1>2. PhaseInv'
  BY DEF LifeInv, PhaseInv, Vanish, Enter, LifecycleTypeOK
<1>3. ErrorInv'
  BY DEF LifeInv, ErrorInv, Vanish, Enter, LifecycleTypeOK, FailureReported, Listens
<1>4. \A j \in Instances \ {i} : phase'[j] = phase[j] /\ forced'[j] = forced[j]
  BY DEF Vanish, Enter, LifecycleTypeOK
<1>5. ASSUME NEW c \in Calls, NEW j \in Instances, host'[c] = j
      PROVE  /\ phase'[j] \in {"serving", "stopping", "leaving", "shutdown", "waiting", "closed"}
             /\ phase'[j] \in {"waiting", "closed"} => forced'[j]
  <2>1. j # i /\ j # None
    BY <1>5, MigrationsAssumption
  <2>2. host[c] = j
    BY <1>5, <2>1
  <2> QED BY <1>4, <2>1, <2>2 DEF LifeInv, HandlerInv
<1>6. HandlerInv'
  BY <1>5 DEF HandlerInv
<1> QED BY <1>1, <1>2, <1>3, <1>6 DEF LifeInv

LEMMA BootLife ==
  ASSUME LifeInv, MigrationsTypeOK, NEW i \in Instances, Boot(i), UNCHANGED oauthVars
  PROVE  LifeInv'
<1>1. LifecycleTypeOK'
  BY DEF LifeInv, LifecycleTypeOK, Boot, Enter, Phases
<1>2. PhaseInv'
  <2>1. CASE i \in AutoMigrate
    BY <2>1 DEF LifeInv, LifecycleTypeOK, PhaseInv, Boot, Enter, BeginMigrations, MigrationsTypeOK
  <2>2. CASE i \notin AutoMigrate
    BY <2>2 DEF LifeInv, LifecycleTypeOK, PhaseInv, Boot, Enter, migrationVars
  <2> QED BY <2>1, <2>2
<1>3. ErrorInv'
  BY DEF LifeInv, LifecycleTypeOK, ErrorInv, Boot, Enter, FailureReported, Listens
<1>4. HandlerInv'
  BY DEF LifeInv, LifecycleTypeOK, HandlerInv, Boot, Enter, oauthVars
<1> QED BY <1>1, <1>2, <1>3, <1>4 DEF LifeInv

\* Steps inside RunMigrations.
LEMMA MigratingLife ==
  ASSUME LifeInv, NEW i \in Instances, phase[i] = "migrating", Kept(i),
         UNCHANGED lifecycleVars, UNCHANGED oauthVars
  PROVE  LifeInv'
<1>1. LifecycleTypeOK' /\ ErrorInv' /\ HandlerInv'
  BY DEF LifeInv, LifecycleTypeOK, ErrorInv, HandlerInv, FailureReported, Listens,
         lifecycleVars, oauthVars
<1>2. PhaseInv'
  BY DEF LifeInv, PhaseInv, Kept, MigrationsTypeOK, lifecycleVars
<1> QED BY <1>1, <1>2 DEF LifeInv

LEMMA MigratedLife ==
  ASSUME LifeInv, MigrationsTypeOK, SchemaInv, NEW i \in Instances, Migrated(i), UNCHANGED oauthVars
  PROVE  LifeInv'
<1>0. \A v \in Versions : v < Last + 1
  BY MigrationsAssumption DEF Versions
<1>1. applied = Versions /\ applied' = applied
  BY <1>0 DEF Migrated, FinishMigrations, MigrationsTypeOK, SchemaInv
<1>2. step' = [step EXCEPT ![i] = "none"]
  BY DEF Migrated, FinishMigrations, LeaveMigrations
<1>3. LifecycleTypeOK'
  BY DEF LifeInv, LifecycleTypeOK, Migrated, Enter, Phases
<1>4. PhaseInv'
  BY <1>1, <1>2 DEF LifeInv, LifecycleTypeOK, PhaseInv, Migrated, Enter, MigrationsTypeOK
<1>5. ErrorInv'
  BY DEF LifeInv, LifecycleTypeOK, ErrorInv, Migrated, Enter, FailureReported, Listens
<1>6. HandlerInv'
  BY DEF LifeInv, LifecycleTypeOK, HandlerInv, Migrated, Enter, oauthVars
<1> QED BY <1>3, <1>4, <1>5, <1>6 DEF LifeInv

\* The steps of run() that only move on or let a goroutine return.
LEMMA RunLife ==
  ASSUME LifeInv, NEW i \in Instances, UNCHANGED migrationVars, UNCHANGED oauthVars,
         \/ Signal(i)
         \/ ServerFails(i)
         \/ \E g \in Goroutines : LoopReturns(i, g)
         \/ \E ok \in SUBSET Scopes : Register(i, ok)
         \/ Select(i)
         \/ LookAgain(i)
         \/ Stop(i)
         \/ ServerReturns(i)
         \/ ShutdownReturns(i, Busy(i))
         \/ ClosePool(i)
  PROVE  LifeInv'
<1> USE DEF LifeInv
<1>0. PhaseInv' <=> \A j \in Instances :
        /\ step[j] # "none" => phase'[j] = "migrating"
        /\ j \in AutoMigrate /\ phase'[j] \notin {"down", "migrating"} => applied = Versions
  BY DEF PhaseInv, migrationVars
<1>1. CASE Signal(i)
  BY <1>0, <1>1 DEF Signal, LifecycleTypeOK, PhaseInv, ErrorInv, HandlerInv, FailureReported,
     Listens, oauthVars
<1>2. CASE ServerFails(i)
  <2>1. LifecycleTypeOK'
    BY <1>2 DEF ServerFails, Return, LifecycleTypeOK, ErrCapacity
  <2>2. PhaseInv'
    BY <1>0, <1>2 DEF ServerFails, PhaseInv
  <2>3. ErrorInv'
    BY <1>2 DEF ServerFails, Return, Serves, LifecycleTypeOK, ErrorInv, FailureReported, Listens
  <2>4. HandlerInv'
    BY <1>2 DEF ServerFails, HandlerInv, oauthVars
  <2> QED BY <2>1, <2>2, <2>3, <2>4
<1>3. CASE \E g \in Goroutines : LoopReturns(i, g)
  <2>1. LifecycleTypeOK'
    BY <1>3 DEF LoopReturns, Return, LifecycleTypeOK
  <2>2. PhaseInv'
    BY <1>0, <1>3 DEF LoopReturns, PhaseInv
  <2>3. ErrorInv'
    BY <1>3 DEF LoopReturns, Return, LifecycleTypeOK, ErrorInv, FailureReported, Listens
  <2>4. HandlerInv'
    BY <1>3 DEF LoopReturns, HandlerInv, oauthVars
  <2> QED BY <2>1, <2>2, <2>3, <2>4
<1>4. CASE \E ok \in SUBSET Scopes : Register(i, ok)
  <2> PICK ok \in SUBSET Scopes : Register(i, ok)
    BY <1>4
  <2>1. LifecycleTypeOK'
    BY DEF Register, Return, LifecycleTypeOK
  <2>2. PhaseInv'
    BY <1>0 DEF Register, PhaseInv
  <2>3. \A j \in Instances : running'[j] \subseteq running[j]
    BY DEF Register, Return, LifecycleTypeOK
  <2>4. ErrorInv'
    BY <2>3 DEF Register, ErrorInv, FailureReported, Listens
  <2>5. HandlerInv'
    BY DEF Register, HandlerInv, oauthVars
  <2> QED BY <2>1, <2>2, <2>4, <2>5
<1>5. CASE Select(i)
  <2>1. LifecycleTypeOK'
    BY <1>5 DEF Select, Receive, Enter, LifecycleTypeOK, Phases, ErrCapacity
  <2>2. PhaseInv'
    BY <1>0, <1>5 DEF Select, Enter, PhaseInv, LifecycleTypeOK
  <2>3. ErrorInv'
    BY <1>5 DEF Select, Receive, Enter, LifecycleTypeOK, ErrorInv, FailureReported, Listens
  <2>4. HandlerInv'
    BY <1>5 DEF Select, Enter, HandlerInv, LifecycleTypeOK, oauthVars
  <2> QED BY <2>1, <2>2, <2>3, <2>4
<1>6. CASE Stop(i)
  <2>1. LifecycleTypeOK'
    BY <1>6 DEF Stop, Enter, LifecycleTypeOK, Phases
  <2>2. PhaseInv'
    BY <1>0, <1>6 DEF Stop, Enter, PhaseInv, LifecycleTypeOK
  <2>3. ErrorInv'
    BY <1>6 DEF Stop, Enter, LifecycleTypeOK, ErrorInv, FailureReported, Listens
  <2>4. HandlerInv'
    BY <1>6 DEF Stop, Enter, HandlerInv, LifecycleTypeOK, oauthVars
  <2> QED BY <2>1, <2>2, <2>3, <2>4
<1>10. CASE LookAgain(i)
  <2>1. LifecycleTypeOK'
    BY <1>10 DEF LookAgain, SecondLook, Receive, Enter, LifecycleTypeOK, Phases, ErrCapacity
  <2>2. PhaseInv'
    BY <1>0, <1>10 DEF LookAgain, Enter, PhaseInv, LifecycleTypeOK
  <2>3. ErrorInv'
    BY <1>10 DEF LookAgain, SecondLook, Receive, Enter, LifecycleTypeOK, ErrorInv, FailureReported,
       Listens, ErrCapacity
  <2>4. HandlerInv'
    BY <1>10 DEF LookAgain, Enter, HandlerInv, LifecycleTypeOK, oauthVars
  <2> QED BY <2>1, <2>2, <2>3, <2>4
<1>7. CASE ServerReturns(i)
  <2>1. LifecycleTypeOK'
    BY <1>7 DEF ServerReturns, Return, LifecycleTypeOK
  <2>2. PhaseInv'
    BY <1>0, <1>7 DEF ServerReturns, PhaseInv
  <2>3. ErrorInv'
    BY <1>7 DEF ServerReturns, Return, LifecycleTypeOK, ErrorInv, FailureReported, Listens
  <2>4. HandlerInv'
    BY <1>7 DEF ServerReturns, HandlerInv, oauthVars
  <2> QED BY <2>1, <2>2, <2>3, <2>4
<1>8. CASE ShutdownReturns(i, Busy(i))
  <2>1. LifecycleTypeOK'
    BY <1>8 DEF ShutdownReturns, HandlersAwaited, Busy, Enter, LifecycleTypeOK, Phases
  <2>2. PhaseInv'
    BY <1>0, <1>8 DEF ShutdownReturns, Enter, PhaseInv, LifecycleTypeOK
  <2>3. ErrorInv'
    BY <1>8 DEF ShutdownReturns, Enter, LifecycleTypeOK, ErrorInv, FailureReported, Listens
  <2>4. /\ forced' = [forced EXCEPT ![i] = Busy(i)]
        /\ phase[i] = "shutdown" /\ phase' = [phase EXCEPT ![i] = "waiting"]
    BY <1>8 DEF ShutdownReturns, HandlersAwaited, Enter
  <2>5. ASSUME NEW c \in Calls, NEW j \in Instances, host[c] = j
        PROVE  /\ phase'[j] \in {"serving", "stopping", "leaving", "shutdown", "waiting", "closed"}
               /\ phase'[j] \in {"waiting", "closed"} => forced'[j]
    <3>1. CASE j = i
      <4>1. Busy(i)
        BY <2>5, <3>1 DEF Busy, At
      <4> QED BY <2>4, <3>1, <4>1 DEF LifecycleTypeOK
    <3>2. CASE j # i
      BY <2>4, <2>5, <3>2 DEF HandlerInv, LifecycleTypeOK
    <3> QED BY <3>1, <3>2
  <2>6. HandlerInv'
    BY <2>5 DEF HandlerInv, oauthVars
  <2> QED BY <2>1, <2>2, <2>3, <2>6
<1>9. CASE ClosePool(i)
  <2>1. LifecycleTypeOK'
    BY <1>9 DEF ClosePool, Enter, LifecycleTypeOK, Phases
  <2>2. PhaseInv'
    BY <1>0, <1>9 DEF ClosePool, Enter, PhaseInv, LifecycleTypeOK
  <2>3. ErrorInv'
    BY <1>9 DEF ClosePool, AllReturned, Enter, LifecycleTypeOK, ErrorInv, FailureReported, Listens
  <2>4. HandlerInv'
    BY <1>9 DEF ClosePool, Enter, HandlerInv, LifecycleTypeOK, oauthVars
  <2> QED BY <2>1, <2>2, <2>3, <2>4
<1> QED BY <1>1, <1>2, <1>3, <1>4, <1>5, <1>6, <1>7, <1>8, <1>9, <1>10

-----------------------------------------------------------------------------
(* The OAuth service. *)

\* A step of a handler or of the table of states keeps what is said of them.
OAuthKept ==
  OAuthTypeOK' /\ HandlerInv' /\ LinkInv' /\ SpentForReason'

LEMMA CreateAuthURLKept ==
  ASSUME IInv, NEW i \in Instances, NEW l \in Links, CreateAuthURL(i, l),
         UNCHANGED lifecycleVars
  PROVE  OAuthKept
BY DEF OAuthKept, IInv, TypeOK, OAuthTypeOK, HandlerInv, LinkInv, SpentForReason,
       CreateAuthURL, lifecycleVars

LEMMA ExpireKept ==
  ASSUME IInv, NEW l \in Links, Expire(l), UNCHANGED lifecycleVars
  PROVE  OAuthKept
BY DEF OAuthKept, IInv, TypeOK, OAuthTypeOK, HandlerInv, LinkInv, SpentForReason,
       Expire, lifecycleVars

LEMMA CleanStatesKept ==
  ASSUME IInv, NEW i \in Instances, CleanStates(i), UNCHANGED lifecycleVars
  PROVE  OAuthKept
BY DEF OAuthKept, IInv, TypeOK, OAuthTypeOK, HandlerInv, LinkInv, SpentForReason,
       CleanStates, lifecycleVars

LEMMA CallbackKept ==
  ASSUME IInv, NEW c \in Calls, NEW i \in Instances, NEW l \in Links, Callback(c, i, l),
         UNCHANGED lifecycleVars
  PROVE  OAuthKept
<1> USE MigrationsAssumption, OAuthAssumption DEF IInv, TypeOK, Callback
<1>1. OAuthTypeOK'
  BY DEF OAuthTypeOK, Stages
<1>2. HandlerInv'
  BY DEF OAuthTypeOK, HandlerInv, Serves, InService, lifecycleVars
<1>3. LinkInv'
  BY DEF OAuthTypeOK, LinkInv
<1>4. SpentForReason'
  BY DEF OAuthTypeOK, SpentForReason
<1> QED BY <1>1, <1>2, <1>3, <1>4 DEF OAuthKept

\* Handlers that end leave the others as they were.
LEMMA LeaveHandlers ==
  ASSUME OAuthTypeOK, HandlerInv, NEW C \in SUBSET Calls, Leave(C)
  PROVE  /\ stage' \in [Calls -> Stages]
         /\ link' \in [Calls -> {None} \cup Links]
         /\ host' \in [Calls -> {None} \cup Instances]
         /\ \A c \in C : stage'[c] = "idle" /\ link'[c] = None /\ host'[c] = None
         /\ \A c \in Calls \ C : stage'[c] = stage[c] /\ link'[c] = link[c] /\ host'[c] = host[c]
         /\ UNCHANGED lifecycleVars => HandlerInv'
<1>1. /\ stage' \in [Calls -> Stages]
      /\ link' \in [Calls -> {None} \cup Links]
      /\ host' \in [Calls -> {None} \cup Instances]
  BY DEF Leave, OAuthTypeOK, Stages
<1>2. /\ \A c \in C : stage'[c] = "idle" /\ link'[c] = None /\ host'[c] = None
      /\ \A c \in Calls \ C : stage'[c] = stage[c] /\ link'[c] = link[c] /\ host'[c] = host[c]
  BY DEF Leave
<1>3. UNCHANGED lifecycleVars => HandlerInv'
  BY <1>2, MigrationsAssumption DEF HandlerInv, lifecycleVars
<1> QED BY <1>1, <1>2, <1>3

LEMMA GoHandler ==
  ASSUME OAuthTypeOK, HandlerInv, NEW c \in Calls, NEW s \in Stages \ {"idle"},
         stage[c] # "idle", Go(c, s), UNCHANGED lifecycleVars
  PROVE  /\ stage' = [stage EXCEPT ![c] = s] /\ UNCHANGED <<link, host>>
         /\ link[c] \in Links
         /\ HandlerInv'
BY DEF Go, OAuthTypeOK, HandlerInv, Stages, lifecycleVars

LEMMA ConsumeKept ==
  ASSUME IInv, NEW c \in Calls, Consume(c), UNCHANGED lifecycleVars
  PROVE  OAuthKept
<1> USE DEF IInv, TypeOK
<1>1. stage[c] = "consume" /\ state[link[c]] = "live"
  BY DEF Consume
<1>2. /\ stage' = [stage EXCEPT ![c] = "github"] /\ UNCHANGED <<link, host>>
      /\ link[c] \in Links /\ HandlerInv'
  BY <1>1, GoHandler DEF Consume, Stages
<1>3. /\ state' = [state EXCEPT ![link[c]] = "absent"]
      /\ fate' = [fate EXCEPT ![link[c]] = "pending"]
      /\ UNCHANGED <<connection, exchanged, reused>>
  BY DEF Consume, DeletesState, Becomes
<1>4. OAuthTypeOK'
  BY <1>2, <1>3 DEF OAuthTypeOK, Stages
<1>5. LinkInv'
  BY <1>1, <1>2, <1>3 DEF OAuthTypeOK, LinkInv
<1>6. SpentForReason'
  BY <1>1, <1>2, <1>3 DEF OAuthTypeOK, SpentForReason
<1> QED BY <1>2, <1>4, <1>5, <1>6 DEF OAuthKept

LEMMA ExchangeKept ==
  ASSUME IInv, NEW c \in Calls, Exchange(c), UNCHANGED lifecycleVars
  PROVE  OAuthKept
<1> USE DEF IInv, TypeOK
<1>1. stage[c] = "github"
  BY DEF Exchange
<1>2. /\ stage' = [stage EXCEPT ![c] = "store"] /\ UNCHANGED <<link, host>>
      /\ link[c] \in Links /\ HandlerInv'
  BY <1>1, GoHandler DEF Exchange, Stages
<1>3. /\ exchanged' = exchanged \cup {link[c]}
      /\ reused' = reused \cup (exchanged \cap {link[c]})
      /\ UNCHANGED <<state, connection, fate>>
  BY DEF Exchange, SendCode
<1>4. OAuthTypeOK'
  BY <1>2, <1>3 DEF OAuthTypeOK, Stages
<1>5. LinkInv'
  BY <1>1, <1>2, <1>3 DEF OAuthTypeOK, LinkInv
<1>6. SpentForReason'
  BY <1>1, <1>2, <1>3 DEF OAuthTypeOK, SpentForReason
<1> QED BY <1>2, <1>4, <1>5, <1>6 DEF OAuthKept

LEMMA UpsertKept ==
  ASSUME IInv, NEW c \in Calls, UpsertGitHubConnection(c), UNCHANGED lifecycleVars
  PROVE  OAuthKept
<1> USE DEF IInv, TypeOK
<1>1. stage[c] = "store"
  BY DEF UpsertGitHubConnection
<1>2. /\ stage' = [stage EXCEPT ![c] = "answer"] /\ UNCHANGED <<link, host>>
      /\ link[c] \in Links /\ HandlerInv'
  BY <1>1, GoHandler DEF UpsertGitHubConnection, Stages
<1>3. /\ connection' = [connection EXCEPT ![Owner[link[c]]] = link[c]]
      /\ fate' = [fate EXCEPT ![link[c]] = "stored"]
      /\ UNCHANGED <<state, exchanged, reused>>
  BY DEF UpsertGitHubConnection, Upsert, Becomes
<1>4. OAuthTypeOK'
  BY <1>2, <1>3, OAuthAssumption DEF OAuthTypeOK, Stages
<1>5. LinkInv'
  BY <1>1, <1>2, <1>3 DEF OAuthTypeOK, LinkInv
<1>6. SpentForReason'
  BY <1>1, <1>2, <1>3 DEF OAuthTypeOK, SpentForReason
<1> QED BY <1>2, <1>4, <1>5, <1>6 DEF OAuthKept

\* A handler that ends without a trace in the database.
LEMMA QuietLeaveKept ==
  ASSUME IInv, NEW c \in Calls, Leave({c}), stage[c] \in {"consume", "answer"},
         UNCHANGED <<state, connection, exchanged, reused, fate>>, UNCHANGED lifecycleVars
  PROVE  OAuthKept
<1> USE DEF IInv, TypeOK
<1>1. /\ stage' \in [Calls -> Stages]
      /\ link' \in [Calls -> {None} \cup Links]
      /\ host' \in [Calls -> {None} \cup Instances]
      /\ stage'[c] = "idle"
      /\ \A d \in Calls \ {c} : stage'[d] = stage[d] /\ link'[d] = link[d]
      /\ HandlerInv'
  BY LeaveHandlers
<1>2. OAuthTypeOK'
  BY <1>1 DEF OAuthTypeOK
<1>3. LinkInv'
  BY <1>1 DEF LinkInv
<1>4. SpentForReason'
  BY <1>1 DEF SpentForReason
<1> QED BY <1>1, <1>2, <1>3, <1>4 DEF OAuthKept

\* A call that fails: what it did before may have taken effect.
LEMMA ConsumeFailsKept ==
  ASSUME IInv, NEW c \in Calls, ConsumeFails(c), UNCHANGED lifecycleVars
  PROVE  OAuthKept
<1>1. CASE UNCHANGED <<state, fate>>
  BY <1>1, QuietLeaveKept DEF ConsumeFails
<1>2. CASE ~UNCHANGED <<state, fate>>
  <2> USE DEF IInv, TypeOK
  <2>1. /\ stage' \in [Calls -> Stages]
        /\ link' \in [Calls -> {None} \cup Links]
        /\ host' \in [Calls -> {None} \cup Instances]
        /\ stage'[c] = "idle"
        /\ \A d \in Calls \ {c} : stage'[d] = stage[d] /\ link'[d] = link[d]
        /\ HandlerInv'
    BY LeaveHandlers DEF ConsumeFails
  <2>2. /\ stage[c] = "consume" /\ link[c] \in Links
        /\ state' = [state EXCEPT ![link[c]] = "absent"]
        /\ fate' = [fate EXCEPT ![link[c]] = "excused"]
        /\ UNCHANGED <<connection, exchanged, reused>>
    BY <1>2 DEF ConsumeFails, DeletesState, Becomes, HandlerInv, OAuthTypeOK
  <2>3. OAuthTypeOK'
    BY <2>1, <2>2 DEF OAuthTypeOK
  <2>4. LinkInv'
    BY <2>1, <2>2 DEF LinkInv, OAuthTypeOK
  <2>5. SpentForReason'
    BY <2>1, <2>2 DEF SpentForReason, OAuthTypeOK
  <2> QED BY <2>1, <2>3, <2>4, <2>5 DEF OAuthKept
<1> QED BY <1>1, <1>2

LEMMA GitHubFailsKept ==
  ASSUME IInv, NEW c \in Calls, GitHubFails(c), UNCHANGED lifecycleVars
  PROVE  OAuthKept
<1> USE DEF IInv, TypeOK
<1>1. /\ stage' \in [Calls -> Stages]
      /\ link' \in [Calls -> {None} \cup Links]
      /\ host' \in [Calls -> {None} \cup Instances]
      /\ stage'[c] = "idle"
      /\ \A d \in Calls \ {c} : stage'[d] = stage[d] /\ link'[d] = link[d]
      /\ HandlerInv'
  BY LeaveHandlers DEF GitHubFails
<1>2. /\ stage[c] = "github" /\ link[c] \in Links
      /\ fate' = [fate EXCEPT ![link[c]] = "excused"]
      /\ UNCHANGED <<state, connection>>
  BY DEF GitHubFails, Becomes, HandlerInv, OAuthTypeOK
<1>3. \/ UNCHANGED <<exchanged, reused>>
      \/ /\ exchanged' = exchanged \cup {link[c]}
         /\ reused' = reused \cup (exchanged \cap {link[c]})
  BY DEF GitHubFails, SendCode
<1>4. OAuthTypeOK'
  BY <1>1, <1>2, <1>3 DEF OAuthTypeOK
<1>5. LinkInv'
  BY <1>1, <1>2, <1>3 DEF LinkInv, OAuthTypeOK
<1>6. SpentForReason'
  BY <1>1, <1>2 DEF SpentForReason, OAuthTypeOK
<1> QED BY <1>1, <1>4, <1>5, <1>6 DEF OAuthKept

LEMMA StoreFailsKept ==
  ASSUME IInv, NEW c \in Calls, StoreFails(c), UNCHANGED lifecycleVars
  PROVE  OAuthKept
<1> USE DEF IInv, TypeOK
<1>1. /\ stage' \in [Calls -> Stages]
      /\ link' \in [Calls -> {None} \cup Links]
      /\ host' \in [Calls -> {None} \cup Instances]
      /\ stage'[c] = "idle"
      /\ \A d \in Calls \ {c} : stage'[d] = stage[d] /\ link'[d] = link[d]
      /\ HandlerInv'
  BY LeaveHandlers DEF StoreFails
<1>2. /\ stage[c] = "store" /\ link[c] \in Links
      /\ \E f \in {"stored", "excused"} : fate' = [fate EXCEPT ![link[c]] = f]
      /\ connection' \in [Users -> {None} \cup Links]
      /\ UNCHANGED <<state, exchanged, reused>>
  BY OAuthAssumption DEF StoreFails, Upsert, Becomes, HandlerInv, OAuthTypeOK
<1>3. OAuthTypeOK'
  BY <1>1, <1>2 DEF OAuthTypeOK
<1>4. LinkInv'
  BY <1>1, <1>2 DEF LinkInv
<1>5. SpentForReason'
  BY <1>1, <1>2 DEF SpentForReason, OAuthTypeOK
<1> QED BY <1>1, <1>3, <1>4, <1>5 DEF OAuthKept

LEMMA HandleKept ==
  ASSUME IInv, NEW c \in Calls, Handle(c), UNCHANGED lifecycleVars
  PROVE  OAuthKept
<1>1. CASE Refused(c) \/ Answer(c)
  BY <1>1, QuietLeaveKept DEF Refused, Answer
<1>2. CASE ~(Refused(c) \/ Answer(c))
  BY <1>2, ConsumeKept, ExchangeKept, UpsertKept, ConsumeFailsKept, GitHubFailsKept, StoreFailsKept
     DEF Handle
<1> QED BY <1>1, <1>2

\* A process that ends takes its handlers along: one that had consumed its link
\* is excused, unless there was no such handler.
LEMMA CutOffKept ==
  ASSUME IInv, NEW i \in Instances, NEW excused \in BOOLEAN, CutOff(i, excused),
         Busy(i) => excused
  PROVE  /\ OAuthTypeOK' /\ LinkInv' /\ SpentForReason'
         /\ \A c \in Calls : host'[c] # i
         /\ \A c \in Calls : stage'[c] = "idle" <=> host'[c] = None
         /\ \A c \in Calls : stage'[c] = "idle" <=> link'[c] = None
         /\ \A c \in Calls : host'[c] = None \/ host'[c] = host[c]
<1> USE DEF IInv, TypeOK
<1>1. /\ stage' \in [Calls -> Stages]
      /\ link' \in [Calls -> {None} \cup Links]
      /\ host' \in [Calls -> {None} \cup Instances]
      /\ \A c \in At(i) : stage'[c] = "idle" /\ link'[c] = None /\ host'[c] = None
      /\ \A c \in Calls \ At(i) : stage'[c] = stage[c] /\ link'[c] = link[c] /\ host'[c] = host[c]
  <2>1. At(i) \in SUBSET Calls
    BY DEF At
  <2> QED BY <2>1, LeaveHandlers DEF CutOff
<1>2. /\ \A c \in Calls : host'[c] # i
      /\ \A c \in Calls : stage'[c] = "idle" <=> host'[c] = None
      /\ \A c \in Calls : stage'[c] = "idle" <=> link'[c] = None
      /\ \A c \in Calls : host'[c] = None \/ host'[c] = host[c]
  BY <1>1, MigrationsAssumption DEF HandlerInv, At
<1>3. UNCHANGED <<state, connection, exchanged, reused>>
  BY DEF CutOff
<1>4. \A l \in Links : fate'[l] = IF \E c \in At(i) : link[c] = l /\ stage[c] \in {"github", "store"}
                                  THEN "excused" ELSE fate[l]
  BY DEF CutOff, Busy
<1>5. fate' \in [Links -> {"none", "pending", "stored", "excused"}]
  BY DEF CutOff, OAuthTypeOK
<1>6. OAuthTypeOK'
  BY <1>1, <1>3, <1>5 DEF OAuthTypeOK
<1>7. LinkInv'
  BY <1>1, <1>3 DEF LinkInv
<1>8. SpentForReason'
  BY <1>1, <1>4 DEF SpentForReason
<1> QED BY <1>2, <1>6, <1>7, <1>8

-----------------------------------------------------------------------------
(* The invariant. *)

LEMMA MigratingStep ==
  ASSUME IInv, NEW i \in Instances, Migrate(i) \/ SessionLost(i), UNCHANGED oauthVars
  PROVE  IInv'
<1> USE DEF IInv, TypeOK
<1>1. Kept(i) /\ UNCHANGED lifecycleVars
  BY TakeLockKept, CheckKept, ApplyKept, LoseLockKept DEF Migrate, SessionLost
<1>2. phase[i] = "migrating"
  BY DEF Migrate, SessionLost, LoseLock, SchemaInv, PhaseInv
<1>3. LifeInv'
  BY <1>1, <1>2, MigratingLife DEF LifeInv
<1>4. OAuthTypeOK' /\ LinkInv' /\ SpentForReason'
  BY DEF OAuthTypeOK, LinkInv, SpentForReason, oauthVars
<1> QED BY <1>1, <1>3, <1>4 DEF Kept, LifeInv

LEMMA BootStep ==
  ASSUME IInv, NEW i \in Instances, Boot(i), UNCHANGED oauthVars
  PROVE  IInv'
<1> USE DEF IInv, TypeOK
<1>1. LifeInv'
  BY BootLife DEF LifeInv
<1>2. step[i] = "none"
  BY DEF Boot, PhaseInv, MigrationsTypeOK, Steps
<1>3. MigrationsTypeOK' /\ SchemaInv'
  <2>1. CASE BeginMigrations(i)
    BY <1>2, <2>1, BeginKept DEF Kept
  <2>2. CASE UNCHANGED migrationVars
    BY <2>2 DEF MigrationsTypeOK, SchemaInv, migrationVars
  <2> QED BY <2>1, <2>2 DEF Boot
<1>4. OAuthTypeOK' /\ LinkInv' /\ SpentForReason'
  BY DEF OAuthTypeOK, LinkInv, SpentForReason, oauthVars
<1> QED BY <1>1, <1>3, <1>4 DEF LifeInv

LEMMA MigratedStep ==
  ASSUME IInv, NEW i \in Instances, Migrated(i), UNCHANGED oauthVars
  PROVE  IInv'
<1> USE DEF IInv, TypeOK
<1>1. LifeInv'
  BY MigratedLife DEF LifeInv
<1>2. MigrationsTypeOK' /\ SchemaInv'
  BY LeaveKept DEF Migrated, FinishMigrations, Kept
<1>3. OAuthTypeOK' /\ LinkInv' /\ SpentForReason'
  BY DEF OAuthTypeOK, LinkInv, SpentForReason, oauthVars
<1> QED BY <1>1, <1>2, <1>3 DEF LifeInv

LEMMA RunStep ==
  ASSUME IInv, NEW i \in Instances, UNCHANGED migrationVars, UNCHANGED oauthVars,
         \/ Signal(i)
         \/ ServerFails(i)
         \/ \E g \in Goroutines : LoopReturns(i, g)
         \/ \E ok \in SUBSET Scopes : Register(i, ok)
         \/ Select(i)
         \/ LookAgain(i)
         \/ Stop(i)
         \/ ServerReturns(i)
         \/ ShutdownReturns(i, Busy(i))
         \/ ClosePool(i)
  PROVE  IInv'
<1> USE DEF IInv, TypeOK
<1>1. LifeInv'
  BY RunLife DEF LifeInv
<1>2. MigrationsTypeOK' /\ SchemaInv'
  BY DEF MigrationsTypeOK, SchemaInv, migrationVars
<1>3. OAuthTypeOK' /\ LinkInv' /\ SpentForReason'
  BY DEF OAuthTypeOK, LinkInv, SpentForReason, oauthVars
<1> QED BY <1>1, <1>2, <1>3 DEF LifeInv

\* Telegram is there and the goroutines start.
LEMMA PreflightStep ==
  ASSUME IInv, NEW i \in Instances, Preflight(i), ~Vanish(i), UNCHANGED oauthVars
  PROVE  IInv'
<1> USE DEF IInv, TypeOK
<1>1. /\ phase[i] = "preflight"
      /\ phase' = [phase EXCEPT ![i] = "serving"]
      /\ running' = [running EXCEPT ![i] = Goroutines]
      /\ UNCHANGED <<cancelled, errCh, result, registered, forced, early>>
      /\ UNCHANGED migrationVars
  BY DEF Preflight, Enter
<1>2. LifecycleTypeOK'
  BY <1>1 DEF LifecycleTypeOK, Phases
<1>3. MigrationsTypeOK' /\ SchemaInv'
  BY <1>1 DEF MigrationsTypeOK, SchemaInv, migrationVars
<1>4. PhaseInv'
  BY <1>1 DEF PhaseInv, LifecycleTypeOK, migrationVars
<1>5. ErrorInv'
  BY <1>1 DEF ErrorInv, LifecycleTypeOK, FailureReported, Listens
<1>6. HandlerInv'
  BY <1>1 DEF HandlerInv, LifecycleTypeOK, oauthVars
<1>7. OAuthTypeOK' /\ LinkInv' /\ SpentForReason'
  BY DEF OAuthTypeOK, LinkInv, SpentForReason, oauthVars
<1> QED BY <1>2, <1>3, <1>4, <1>5, <1>6, <1>7

\* The process is gone before it served: no handler runs in it.
LEMMA EarlyEndStep ==
  ASSUME IInv, NEW i \in Instances, Vanish(i), phase[i] \in {"migrating", "preflight"},
         Kept(i), step'[i] = "none", UNCHANGED oauthVars
  PROVE  IInv'
<1> USE DEF IInv, TypeOK
<1>1. \A c \in Calls : host[c] # i
  BY DEF HandlerInv
<1>2. /\ \A c \in Calls : host'[c] # i
      /\ \A c \in Calls : stage'[c] = "idle" <=> host'[c] = None
      /\ \A c \in Calls : stage'[c] = "idle" <=> link'[c] = None
      /\ \A c \in Calls : host'[c] = None \/ host'[c] = host[c]
  BY <1>1 DEF HandlerInv, oauthVars
<1>3. LifeInv'
  BY <1>2, VanishLife DEF LifeInv, Kept, MigrationsTypeOK
<1>4. OAuthTypeOK' /\ LinkInv' /\ SpentForReason'
  BY DEF OAuthTypeOK, LinkInv, SpentForReason, oauthVars
<1> QED BY <1>3, <1>4 DEF Kept, LifeInv

\* The process is gone with the handlers that run in it.
LEMMA EndStep ==
  ASSUME IInv, NEW i \in Instances, Vanish(i), NEW excused \in BOOLEAN, CutOff(i, excused),
         Busy(i) => excused, Kept(i), step'[i] = "none"
  PROVE  IInv'
<1> USE DEF IInv, TypeOK
<1>1. /\ OAuthTypeOK' /\ LinkInv' /\ SpentForReason'
      /\ \A c \in Calls : host'[c] # i
      /\ \A c \in Calls : stage'[c] = "idle" <=> host'[c] = None
      /\ \A c \in Calls : stage'[c] = "idle" <=> link'[c] = None
      /\ \A c \in Calls : host'[c] = None \/ host'[c] = host[c]
  BY CutOffKept
<1>2. LifeInv'
  BY <1>1, VanishLife DEF LifeInv, Kept, MigrationsTypeOK
<1> QED BY <1>1, <1>2 DEF Kept, LifeInv

LEMMA OAuthStep ==
  ASSUME IInv, UNCHANGED <<migrationVars, lifecycleVars>>,
         \/ \E i \in Instances : CleanStates(i) \/ \E l \in Links : CreateAuthURL(i, l)
         \/ \E l \in Links : Expire(l)
         \/ \E c \in Calls : Handle(c) \/ \E i \in Instances, l \in Links : Callback(c, i, l)
  PROVE  IInv'
<1>1. OAuthKept
  BY CleanStatesKept, CreateAuthURLKept, ExpireKept, HandleKept, CallbackKept
<1>2. MigrationsTypeOK' /\ SchemaInv' /\ LifecycleTypeOK' /\ PhaseInv' /\ ErrorInv'
  BY DEF IInv, TypeOK, MigrationsTypeOK, SchemaInv, LifecycleTypeOK, PhaseInv, ErrorInv,
         FailureReported, Listens, migrationVars, lifecycleVars
<1> QED BY <1>1, <1>2 DEF IInv, TypeOK, OAuthKept

LEMMA StepIInv == IInv /\ [Next]_vars => IInv'
<1> SUFFICES ASSUME IInv, [Next]_vars PROVE IInv'
  OBVIOUS
<1> USE DEF IInv, TypeOK
<1>1. CASE UNCHANGED vars
  BY <1>1 DEF vars, migrationVars, lifecycleVars, oauthVars, MigrationsTypeOK, LifecycleTypeOK,
     OAuthTypeOK, SchemaInv, PhaseInv, ErrorInv, HandlerInv, LinkInv, SpentForReason,
     FailureReported, Listens
<1>2. ASSUME NEW i \in Instances, Proceed(i) PROVE IInv'
  <2>1. CASE Migrate(i) /\ UNCHANGED oauthVars
    BY <2>1, MigratingStep
  <2>2. CASE Migrated(i) /\ UNCHANGED oauthVars
    BY <2>2, MigratedStep
  <2>3. CASE MigrationsFail(i) /\ UNCHANGED oauthVars
    BY <2>3, LeaveKept, EarlyEndStep DEF MigrationsFail, AbortMigrations
  <2>4. CASE Preflight(i) /\ UNCHANGED oauthVars
    <3>1. CASE Vanish(i)
      <4>1. step'[i] = "none" /\ Kept(i)
        BY <2>4, <3>1 DEF Preflight, PhaseInv, Kept, MigrationsTypeOK, SchemaInv, Steps, migrationVars
      <4> QED BY <2>4, <3>1, <4>1, EarlyEndStep DEF Preflight
    <3>2. CASE ~Vanish(i)
      BY <2>4, <3>2, PreflightStep
    <3> QED BY <3>1, <3>2
  <2>5. CASE /\ UNCHANGED oauthVars
             /\ \/ Select(i)
                \/ LookAgain(i)
                \/ Stop(i)
                \/ \E g \in Goroutines : LoopReturns(i, g)
                \/ ServerReturns(i)
                \/ ShutdownReturns(i, Busy(i))
                \/ ClosePool(i)
    <3>1. UNCHANGED migrationVars
      BY <2>5 DEF Select, LookAgain, Stop, LoopReturns, ServerReturns, ShutdownReturns, ClosePool
    <3> QED BY <2>5, <3>1, RunStep
  <2>6. CASE Exit(i) /\ CutOff(i, forced[i])
    <3>1. step'[i] = "none" /\ Kept(i)
      BY <2>6 DEF Exit, PhaseInv, Kept, MigrationsTypeOK, SchemaInv, Steps, migrationVars
    <3>2. Busy(i) => forced[i]
      BY <2>6 DEF Exit, HandlerInv, Busy, At
    <3> QED BY <2>6, <3>1, <3>2, EndStep DEF Exit, LifecycleTypeOK
  <2> QED BY <1>2, <2>1, <2>2, <2>3, <2>4, <2>5, <2>6 DEF Proceed
<1>3. ASSUME NEW i \in Instances, Disturb(i) PROVE IInv'
  <2>1. CASE Boot(i) /\ UNCHANGED oauthVars
    BY <2>1, BootStep
  <2>2. CASE MigrationsFail(i) /\ UNCHANGED oauthVars
    BY <2>2, LeaveKept, EarlyEndStep DEF MigrationsFail, AbortMigrations
  <2>3. CASE SessionLost(i) /\ UNCHANGED oauthVars
    BY <2>3, MigratingStep
  <2>4. CASE (Signal(i) \/ ServerFails(i)) /\ UNCHANGED oauthVars
    <3>1. UNCHANGED migrationVars
      BY <2>4 DEF Signal, ServerFails
    <3> QED BY <2>4, <3>1, RunStep
  <2>5. CASE Crash(i) /\ CutOff(i, TRUE)
    BY <2>5, LeaveKept, EndStep DEF Crash
  <2> QED BY <1>3, <2>1, <2>2, <2>3, <2>4, <2>5 DEF Disturb
<1>4. ASSUME NEW i \in Instances, NEW ok \in SUBSET Scopes, Registers(i, ok) PROVE IInv'
  BY <1>4, RunStep DEF Registers, Register
<1> QED BY <1>1, <1>2, <1>3, <1>4, OAuthStep DEF Next

LEMMA Invariance == Spec => []IInv
BY InitIInv, StepIInv, PTL DEF Spec

\* Every variable of instances, migrations and links keeps its type.
THEOREM TypeCorrect == Spec => []TypeOK
<1>1. IInv => TypeOK
  BY DEF IInv
<1> QED BY <1>1, Invariance, PTL

\* However many instances start together, no migration is committed twice while
\* the advisory lock's sessions last, and none serves an older schema.
THEOREM MigrationsOnce == Spec => []SchemaIntact
<1>1. IInv => SchemaIntact
  BY LifecycleAssumption DEF IInv, SchemaInv, PhaseInv, SchemaIntact
<1> QED BY <1>1, Invariance, PTL

\* No link is good for two exchanges of a code.
THEOREM LinksUsedOnce == Spec => []LinkUsedOnce
<1>1. IInv => LinkUsedOnce
  BY DEF IInv, LinkInv, LinkUsedOnce
<1> QED BY <1>1, Invariance, PTL

\* A consumed link made its connection, is being worked on, or has an excuse.
THEOREM LinksSpentForReason == Spec => []SpentForReason
<1>1. IInv => SpentForReason
  BY DEF IInv
<1> QED BY <1>1, Invariance, PTL

\* Whoever uses the pool after it was closed outlived a Shutdown that gave up.
THEOREM PoolClosedLast == Spec => []PoolOutlivesUsers
<1>1. IInv => PoolOutlivesUsers
  BY DEF IInv, ErrorInv, HandlerInv, PoolOutlivesUsers, Busy, At
<1> QED BY <1>1, Invariance, PTL

\* A server that failed before main's last look at the channel is reported by run().
THEOREM FailuresReported == Spec => []FailureReported
<1>1. IInv => FailureReported
  BY DEF IInv, ErrorInv
<1> QED BY <1>1, Invariance, PTL

-----------------------------------------------------------------------------
(* What else the invariant gives. *)

\* No migration is ahead of an earlier one, not even if the lock was lost.
InOrder == \A v \in applied, u \in Versions : u < v => u \in applied

\* Migrations are applied in their order, without a gap, whatever instances start
\* together, fail, crash or lose the lock (RunMigrations).
THEOREM SchemaInOrder == Spec => []InOrder
<1>1. Init => InOrder
  <2> SUFFICES ASSUME Init, NEW v \in applied, NEW u \in Versions, u < v PROVE u \in applied
    BY DEF InOrder
  <2>1. PICK n \in 0..Last : applied = 1..n
    BY DEF Init, MigrationsInit
  <2> QED BY <2>1, MigrationsAssumption DEF Versions
<1>2. IInv /\ InOrder /\ [Next]_vars => InOrder'
  <2> SUFFICES ASSUME IInv, InOrder, [Next]_vars PROVE InOrder'
    OBVIOUS
  <2>1. CASE applied' = applied
    BY <2>1 DEF InOrder
  <2>2. CASE \E i \in Instances : Commit(i)
    <3> PICK i \in Instances : Commit(i)
      BY <2>2
    <3>1. version[i] \in Versions /\ applied' = applied \cup {version[i]}
      BY CommitKept DEF IInv, TypeOK
    <3>2. \A u \in Versions : u < version[i] => u \in applied
      BY DEF IInv, SchemaInv
    <3> QED BY <3>1, <3>2 DEF InOrder
  <2>3. CASE ~\E i \in Instances : Commit(i)
    <3>1. CASE UNCHANGED vars
      BY <3>1 DEF vars, migrationVars, InOrder
    <3>2. ASSUME NEW i \in Instances, Proceed(i) PROVE applied' = applied
      BY <2>3, <3>2 DEF Proceed, Migrate, TakeLock, Check, Apply, Migrated, FinishMigrations,
         MigrationsFail, AbortMigrations, Preflight, Select, LookAgain, Stop, LoopReturns, ServerReturns,
         ShutdownReturns, ClosePool, Exit, migrationVars
    <3>3. ASSUME NEW i \in Instances, Disturb(i) PROVE applied' = applied
      BY <2>3, <3>3 DEF Disturb, Boot, BeginMigrations, MigrationsFail, AbortMigrations, SessionLost,
         LoseLock, Signal, ServerFails, Crash, migrationVars
    <3>4. ASSUME NEW i \in Instances, NEW ok \in SUBSET Scopes, Registers(i, ok)
          PROVE  applied' = applied
      BY <3>4 DEF Registers, Register, migrationVars
    <3>5. applied' = applied \/ UNCHANGED vars
      BY <3>2, <3>3, <3>4 DEF Next, migrationVars
    <3> QED BY <2>1, <3>1, <3>5
  <2> QED BY <2>2, <2>3
<1> QED BY <1>1, <1>2, Invariance, PTL DEF Spec

\* Whoever holds the advisory lock is migrating and past the wait for it, and the
\* connection its next statement needs beside the lock's own exists.
LockHasOwner ==
  \A i \in Instances : lock = i =>
    phase[i] = "migrating" /\ step[i] \in {"check", "apply"} /\ Spare

\* No instance waits for a lock that nobody is going to release: its holder runs,
\* is inside RunMigrations and waits for neither a lock nor a connection, whatever
\* pool size the URL asks for (db.go:33).
THEOREM LocksHaveOwners == Spec => []LockHasOwner
<1>1. IInv => LockHasOwner
  BY MigrationsAssumption DEF IInv, SchemaInv, PhaseInv, LockHasOwner, Spare, Connections
<1> QED BY <1>1, Invariance, PTL

\* A server that fails finds room in the channel.
ErrorsFit == \A i \in Instances : errCh[i] < ErrCapacity

\* The goroutine of a failed server never waits for main to read its error
\* (errCh in main.go).
THEOREM ErrorsNeverWait == Spec => []ErrorsFit
<1>1. IInv => ErrorsFit
  BY DEF IInv, TypeOK, LifecycleTypeOK, ErrorInv, ErrorsFit, ErrCapacity
<1> QED BY <1>1, Invariance, PTL

-----------------------------------------------------------------------------
(* The refinement of Consent. *)

Working(c) == stage[c] \in {"github", "store"}

\* A link that is worked on was spent for this call alone, and comes to the table
\* of connections only behind its code.
WorkInv ==
  /\ \A l \in Links : fate[l] # "none" => state[l] = "absent"
  /\ \A c \in Calls : Working(c) =>
       /\ fate[link[c]] = "pending"
       /\ stage[c] = "store" => link[c] \in exchanged
       /\ \A d \in Calls : Working(d) /\ link[d] = link[c] => d = c

Consents == [Promise!Next]_(Promise!vars)

LEMMA CodesCounted ==
  ASSUME IInv
  PROVE  [l \in Links |-> IF l \in reused THEN 2 ELSE IF l \in exchanged THEN 1 ELSE 0]
           = [l \in Links |-> IF l \in exchanged THEN 1 ELSE 0]
BY DEF IInv, LinkInv

\* Steps that neither change a link nor begin or end work on one.
LEMMA IdleConsent ==
  ASSUME WorkInv, OAuthTypeOK, UNCHANGED <<connection, exchanged, reused, fate>>,
         \A l \in Links : state'[l] = state[l] \/ (state[l] = "expired" /\ state'[l] = "absent"),
         \A c \in Calls : Working(c)' => Working(c) /\ stage'[c] = stage[c] /\ link'[c] = link[c]
  PROVE  WorkInv' /\ Consents
<1>1. WorkInv'
  BY DEF WorkInv, Working
<1>2. \A l \in Links : StatusOf(l)' = StatusOf(l)
  BY DEF StatusOf
<1>3. [l \in Links |-> StatusOf(l)]' = [l \in Links |-> StatusOf(l)]
  BY <1>2
<1> QED BY <1>1, <1>3 DEF Consents, Promise!vars

LEMMA OfferConsent ==
  ASSUME IInv, WorkInv, NEW i \in Instances, NEW l \in Links, CreateAuthURL(i, l)
  PROVE  WorkInv' /\ Consents
<1> USE DEF IInv, TypeOK
<1>1. /\ state[l] = "none" /\ state' = [state EXCEPT ![l] = "live"]
      /\ UNCHANGED <<connection, stage, link, exchanged, reused, fate>>
  BY DEF CreateAuthURL
<1>2. fate[l] = "none"
  BY <1>1 DEF WorkInv
<1>3. WorkInv'
  BY <1>1, <1>2 DEF WorkInv, Working, OAuthTypeOK
<1>4. StatusOf(l) = "none" /\ \A k \in Links : StatusOf(k)' = IF k = l THEN "open" ELSE StatusOf(k)
  BY <1>1, <1>2 DEF StatusOf, OAuthTypeOK
<1>5. Promise!Offer(l)
  BY <1>1, <1>4 DEF Promise!Offer, Promise!Becomes
<1> QED BY <1>3, <1>5 DEF Consents, Promise!Next

LEMMA ExpireConsent ==
  ASSUME IInv, WorkInv, NEW l \in Links, Expire(l)
  PROVE  WorkInv' /\ Consents
<1> USE DEF IInv, TypeOK
<1>1. /\ state[l] = "live" /\ state' = [state EXCEPT ![l] = "expired"]
      /\ UNCHANGED <<connection, stage, link, exchanged, reused, fate>>
  BY DEF Expire
<1>2. fate[l] = "none"
  BY <1>1 DEF WorkInv
<1>3. WorkInv'
  BY <1>1, <1>2 DEF WorkInv, Working, OAuthTypeOK
<1>4. StatusOf(l) = "open" /\ \A k \in Links : StatusOf(k)' = IF k = l THEN "lapsed" ELSE StatusOf(k)
  BY <1>1, <1>2 DEF StatusOf, OAuthTypeOK
<1>5. Promise!Close(l)
  BY <1>1, <1>4 DEF Promise!Close, Promise!Becomes
<1> QED BY <1>3, <1>5 DEF Consents, Promise!Next

\* The link in a handler that is not idle.
LEMMA HandledLink ==
  ASSUME IInv, NEW c \in Calls, stage[c] # "idle"
  PROVE  link[c] \in Links
BY DEF IInv, TypeOK, OAuthTypeOK, HandlerInv

\* A handler that ends begins nothing.
LEMMA LeaveWork ==
  ASSUME NEW C \in SUBSET Calls, Leave(C)
  PROVE  /\ \A c \in C : ~Working(c)'
         /\ \A c \in Calls \ C : stage'[c] = stage[c] /\ link'[c] = link[c]
BY DEF Leave, Working

LEMMA ConsumeConsent ==
  ASSUME IInv, WorkInv, NEW c \in Calls, Consume(c)
  PROVE  WorkInv' /\ Consents
<1> USE DEF IInv, TypeOK
<1>1. /\ stage[c] = "consume" /\ state[link[c]] = "live" /\ link[c] \in Links
      /\ stage' = [stage EXCEPT ![c] = "github"] /\ link' = link
      /\ state' = [state EXCEPT ![link[c]] = "absent"]
      /\ fate' = [fate EXCEPT ![link[c]] = "pending"]
      /\ UNCHANGED <<connection, exchanged, reused>>
  BY HandledLink DEF Consume, Go, DeletesState, Becomes
<1>2. fate[link[c]] = "none" /\ \A d \in Calls : Working(d) => link[d] # link[c]
  BY <1>1 DEF WorkInv
<1>3. WorkInv'
  BY <1>1, <1>2 DEF WorkInv, Working, OAuthTypeOK
<1>4. /\ StatusOf(link[c]) = "open"
      /\ \A k \in Links : StatusOf(k)' = IF k = link[c] THEN "spent" ELSE StatusOf(k)
  BY <1>1, <1>2 DEF StatusOf, OAuthTypeOK
<1>5. Promise!Close(link[c])
  BY <1>1, <1>4 DEF Promise!Close, Promise!Becomes
<1> QED BY <1>1, <1>3, <1>5 DEF Consents, Promise!Next

\* A code is sent, whatever becomes of the link.
LEMMA CodeSent ==
  ASSUME IInv, IInv', WorkInv, NEW c \in Calls, stage[c] = "github", SendCode(c),
         UNCHANGED <<state, connection>>,
         fate' = fate \/ fate' = [fate EXCEPT ![link[c]] = "excused"]
  PROVE  Consents
<1> USE DEF IInv, TypeOK
<1>1. link[c] \in Links /\ fate[link[c]] = "pending" /\ link[c] \notin exchanged
  BY HandledLink DEF WorkInv, Working, LinkInv
<1>2. exchanged' = exchanged \cup {link[c]}
  BY DEF SendCode
<1>3. [l \in Links |-> IF l \in exchanged THEN 1 ELSE 0]'
        = [[l \in Links |-> IF l \in exchanged THEN 1 ELSE 0] EXCEPT ![link[c]] = 1]
  BY <1>1, <1>2
<1>4. [l \in Links |-> IF l \in reused THEN 2 ELSE IF l \in exchanged THEN 1 ELSE 0]'
        = [l \in Links |-> IF l \in exchanged THEN 1 ELSE 0]'
  BY DEF LinkInv
<1>5. StatusOf(link[c]) = "spent"
  BY <1>1 DEF StatusOf
<1>6. \E s \in {"spent", "failed"} :
         \A k \in Links : StatusOf(k)' = IF k = link[c] THEN s ELSE StatusOf(k)
  BY <1>1 DEF StatusOf, OAuthTypeOK
<1>7. PICK l \in Links : l = link[c]
  BY <1>1
<1>8. Promise!SendCode(l)
  BY <1>1, <1>3, <1>4, <1>5, <1>6, <1>7, CodesCounted DEF Promise!SendCode, Promise!Becomes
<1> QED BY <1>8 DEF Consents, Promise!Next

LEMMA ExchangeConsent ==
  ASSUME IInv, IInv', WorkInv, NEW c \in Calls, Exchange(c)
  PROVE  WorkInv' /\ Consents
<1> USE DEF IInv, TypeOK
<1>1. /\ stage[c] = "github" /\ link[c] \in Links
      /\ stage' = [stage EXCEPT ![c] = "store"] /\ link' = link
      /\ SendCode(c) /\ exchanged' = exchanged \cup {link[c]}
      /\ UNCHANGED <<state, connection, fate>>
  BY HandledLink DEF Exchange, Go, SendCode
<1>2. WorkInv'
  BY <1>1 DEF WorkInv, Working, OAuthTypeOK
<1>3. Consents
  BY <1>1, CodeSent
<1> QED BY <1>2, <1>3

\* The connection is made, whatever the handler hears of it.
LEMMA Connected ==
  ASSUME IInv, WorkInv, NEW c \in Calls, stage[c] = "store", Upsert(c),
         UNCHANGED <<state, exchanged, reused>>
  PROVE  Consents
<1> USE DEF IInv, TypeOK
<1>1. link[c] \in Links /\ fate[link[c]] = "pending" /\ link[c] \in exchanged
  BY HandledLink DEF WorkInv, Working
<1>2. /\ connection' = [connection EXCEPT ![Owner[link[c]]] = link[c]]
      /\ fate' = [fate EXCEPT ![link[c]] = "stored"]
  BY DEF Upsert, Becomes
<1>3. /\ StatusOf(link[c]) = "spent"
      /\ \A k \in Links : StatusOf(k)' = IF k = link[c] THEN "connected" ELSE StatusOf(k)
  BY <1>1, <1>2 DEF StatusOf, OAuthTypeOK
<1>4. Promise!Connect(link[c])
  BY <1>1, <1>2, <1>3, CodesCounted DEF Promise!Connect, Promise!Becomes
<1> QED BY <1>1, <1>4 DEF Consents, Promise!Next

LEMMA UpsertConsent ==
  ASSUME IInv, WorkInv, NEW c \in Calls, UpsertGitHubConnection(c)
  PROVE  WorkInv' /\ Consents
<1> USE DEF IInv, TypeOK
<1>1. /\ stage[c] = "store" /\ link[c] \in Links /\ Upsert(c)
      /\ stage' = [stage EXCEPT ![c] = "answer"] /\ link' = link
      /\ fate' = [fate EXCEPT ![link[c]] = "stored"]
      /\ UNCHANGED <<state, exchanged, reused>>
  BY HandledLink DEF UpsertGitHubConnection, Upsert, Becomes, Go
<1>2. WorkInv'
  BY <1>1 DEF WorkInv, Working, OAuthTypeOK
<1> QED BY <1>1, <1>2, Connected

\* Links that fail: none of them is worked on afterwards.
LEMMA FailConsent ==
  ASSUME IInv, NEW L \in SUBSET Links,
         \A l \in L : StatusOf(l) \in {"open", "spent"},
         \A l \in Links : StatusOf(l)' = IF l \in L THEN "failed" ELSE StatusOf(l),
         UNCHANGED <<connection, exchanged, reused>>
  PROVE  Consents
<1>1. Promise!Fail(L)
  BY DEF Promise!Fail
<1> QED BY <1>1 DEF Consents, Promise!Next

LEMMA FailuresConsent ==
  ASSUME IInv, IInv', WorkInv, NEW c \in Calls, ConsumeFails(c) \/ GitHubFails(c) \/ StoreFails(c)
  PROVE  WorkInv' /\ Consents
<1> USE DEF IInv, TypeOK
<1>1. /\ link[c] \in Links /\ ~Working(c)'
      /\ \A d \in Calls \ {c} : stage'[d] = stage[d] /\ link'[d] = link[d]
  BY HandledLink, LeaveWork DEF ConsumeFails, GitHubFails, StoreFails
<1>2. CASE ConsumeFails(c) /\ UNCHANGED <<state, fate>>
  <2>1. \A d \in Calls : Working(d)' => Working(d) /\ stage'[d] = stage[d] /\ link'[d] = link[d]
    BY <1>1 DEF Working
  <2> QED BY <1>2, <2>1, IdleConsent DEF ConsumeFails
<1>3. CASE ConsumeFails(c) /\ ~UNCHANGED <<state, fate>>
  <2>1. /\ state[link[c]] = "live" /\ state' = [state EXCEPT ![link[c]] = "absent"]
        /\ fate' = [fate EXCEPT ![link[c]] = "excused"]
        /\ UNCHANGED <<connection, exchanged, reused>>
    BY <1>3 DEF ConsumeFails, DeletesState, Becomes
  <2>2. fate[link[c]] = "none" /\ \A d \in Calls : Working(d) => link[d] # link[c]
    BY <1>1, <2>1 DEF WorkInv
  <2>3. WorkInv'
    BY <1>1, <2>1, <2>2 DEF WorkInv, Working, OAuthTypeOK
  <2>4. /\ StatusOf(link[c]) = "open"
        /\ \A k \in Links : StatusOf(k)' = IF k \in {link[c]} THEN "failed" ELSE StatusOf(k)
    BY <1>1, <2>1, <2>2 DEF StatusOf, OAuthTypeOK
  <2> QED BY <1>1, <2>1, <2>3, <2>4, FailConsent
<1>4. CASE Working(c)
  <2>1. fate[link[c]] = "pending" /\ \A d \in Calls \ {c} : Working(d) => link[d] # link[c]
    BY <1>4 DEF WorkInv
  <2>2. /\ \E f \in {"stored", "excused"} : fate' = [fate EXCEPT ![link[c]] = f]
        /\ state' = state /\ exchanged \subseteq exchanged'
    BY <1>4 DEF Working, ConsumeFails, GitHubFails, StoreFails, SendCode, Upsert, Becomes
  <2>3. state[link[c]] = "absent"
    BY <1>1, <2>1 DEF WorkInv
  <2>4. WorkInv'
    BY <1>1, <2>1, <2>2, <2>3 DEF WorkInv, Working, OAuthTypeOK
  <2>5. CASE GitHubFails(c) /\ SendCode(c)
    <3>1. /\ stage[c] = "github" /\ UNCHANGED <<state, connection>>
          /\ fate' = [fate EXCEPT ![link[c]] = "excused"]
      BY <2>5 DEF GitHubFails, Becomes
    <3> HIDE DEF IInv, TypeOK
    <3> QED BY <2>4, <2>5, <3>1, CodeSent
  <2>6. CASE StoreFails(c) /\ Upsert(c)
    <3>1. stage[c] = "store" /\ UNCHANGED <<state, exchanged, reused>>
      BY <2>6 DEF StoreFails
    <3> HIDE DEF IInv, TypeOK
    <3> QED BY <2>4, <2>6, <3>1, Connected
  <2>7. CASE fate' = [fate EXCEPT ![link[c]] = "excused"] /\ UNCHANGED <<connection, exchanged, reused>>
    <3>1. /\ StatusOf(link[c]) = "spent"
          /\ \A k \in Links : StatusOf(k)' = IF k \in {link[c]} THEN "failed" ELSE StatusOf(k)
      BY <1>1, <2>1, <2>2, <2>7 DEF StatusOf, OAuthTypeOK
    <3>2. {link[c]} \in SUBSET Links /\ \A l \in {link[c]} : StatusOf(l) \in {"open", "spent"}
      BY <1>1, <3>1
    <3> HIDE DEF IInv, TypeOK
    <3> QED BY <2>4, <2>7, <3>1, <3>2, FailConsent
  <2> QED BY <1>4, <2>4, <2>5, <2>6, <2>7 DEF Working, ConsumeFails, GitHubFails, StoreFails, Becomes
<1> QED BY <1>2, <1>3, <1>4 DEF Working, ConsumeFails, GitHubFails, StoreFails

LEMMA CutOffConsent ==
  ASSUME IInv, WorkInv, NEW i \in Instances, NEW excused \in BOOLEAN, CutOff(i, excused),
         Busy(i) => excused
  PROVE  WorkInv' /\ Consents
<1> USE DEF IInv, TypeOK
<1> DEFINE L == {l \in Links : \E c \in At(i) : link[c] = l /\ Working(c)}
<1>1. /\ \A c \in At(i) : ~Working(c)'
      /\ \A c \in Calls \ At(i) : stage'[c] = stage[c] /\ link'[c] = link[c]
  <2>1. At(i) \in SUBSET Calls
    BY DEF At
  <2> QED BY <2>1, LeaveWork DEF CutOff
<1>2. /\ \A l \in Links : fate'[l] = IF l \in L THEN "excused" ELSE fate[l]
      /\ UNCHANGED <<state, connection, exchanged, reused>>
  BY DEF CutOff, Busy, Working
<1>3. \A l \in L : fate[l] = "pending" /\ state[l] = "absent"
                   /\ \A c \in Calls : Working(c) /\ link[c] = l => c \in At(i)
  BY DEF WorkInv, At
<1> HIDE DEF L
<1>4. WorkInv'
  <2>1. ASSUME NEW c \in Calls, Working(c)'
        PROVE  c \notin At(i) /\ Working(c) /\ stage'[c] = stage[c] /\ link'[c] = link[c]
    BY <1>1, <2>1 DEF Working
  <2>2. ASSUME NEW c \in Calls, Working(c)' PROVE link'[c] \in Links /\ link'[c] \notin L
    BY <1>3, <2>1, <2>2, HandledLink DEF Working
  <2> QED BY <1>2, <1>3, <2>1, <2>2 DEF WorkInv
<1>5. /\ \A l \in L : StatusOf(l) = "spent"
      /\ \A l \in Links : StatusOf(l)' = IF l \in L THEN "failed" ELSE StatusOf(l)
  BY <1>2, <1>3 DEF StatusOf
<1>6. L \in SUBSET Links
  BY DEF L
<1> QED BY <1>2, <1>4, <1>5, <1>6, FailConsent

\* Whatever happens to an instance that goes on leaves the links alone.
LEMMA StepConsent ==
  ASSUME IInv, IInv', WorkInv, [Next]_vars
  PROVE  WorkInv' /\ Consents
<1> USE DEF IInv, TypeOK
<1>1. CASE UNCHANGED oauthVars
  BY <1>1, IdleConsent DEF oauthVars, Working
<1>2. ASSUME NEW i \in Instances, Exit(i), CutOff(i, forced[i])
      PROVE  WorkInv' /\ Consents
  <2>1. Busy(i) => forced[i]
    BY <1>2 DEF Exit, HandlerInv, Busy, At
  <2> QED BY <1>2, <2>1, CutOffConsent DEF LifecycleTypeOK
<1>3. ASSUME NEW i \in Instances, CleanStates(i) PROVE WorkInv' /\ Consents
  <2>1. \A l \in Links : state'[l] = state[l] \/ (state[l] = "expired" /\ state'[l] = "absent")
    BY <1>3 DEF CleanStates
  <2> QED BY <1>3, <2>1, IdleConsent DEF CleanStates, Working
<1>4. ASSUME NEW c \in Calls, NEW i \in Instances, NEW l \in Links, Callback(c, i, l)
      PROVE  WorkInv' /\ Consents
  <2>1. \A d \in Calls : Working(d)' => Working(d) /\ stage'[d] = stage[d] /\ link'[d] = link[d]
    BY <1>4 DEF Callback, Working, OAuthTypeOK
  <2> QED BY <1>4, <2>1, IdleConsent DEF Callback
<1>5. ASSUME NEW c \in Calls, Refused(c) \/ Answer(c) PROVE WorkInv' /\ Consents
  <2>1. \A d \in Calls : Working(d)' => Working(d) /\ stage'[d] = stage[d] /\ link'[d] = link[d]
    BY <1>5, LeaveWork DEF Refused, Answer, Working
  <2> QED BY <1>5, <2>1, IdleConsent DEF Refused, Answer
<1>6. ASSUME NEW c \in Calls, Handle(c) PROVE WorkInv' /\ Consents
  BY <1>5, <1>6, ConsumeConsent, ExchangeConsent, UpsertConsent, FailuresConsent DEF Handle
<1>7. ASSUME NEW i \in Instances, NEW l \in Links, CreateAuthURL(i, l) PROVE WorkInv' /\ Consents
  BY <1>7, OfferConsent
<1>8. ASSUME NEW l \in Links, Expire(l) PROVE WorkInv' /\ Consents
  BY <1>8, ExpireConsent
<1>9. CASE \E i \in Instances : Proceed(i) \/ Disturb(i) \/ \E ok \in SUBSET Scopes : Registers(i, ok)
  <2>1. PICK i \in Instances : Proceed(i) \/ Disturb(i) \/ \E ok \in SUBSET Scopes : Registers(i, ok)
    BY <1>9
  <2>2. \/ UNCHANGED oauthVars
        \/ Exit(i) /\ CutOff(i, forced[i])
        \/ Crash(i) /\ CutOff(i, TRUE)
    BY <2>1 DEF Proceed, Disturb, Registers
  <2>3. CASE UNCHANGED oauthVars
    BY <1>1, <2>3
  <2>4. CASE Exit(i) /\ CutOff(i, forced[i])
    BY <1>2, <2>4, Zenon
  <2>5. CASE Crash(i) /\ CutOff(i, TRUE)
    BY <2>5, CutOffConsent
  <2> QED BY <2>2, <2>3, <2>4, <2>5
<1>10. CASE UNCHANGED vars
  BY <1>1, <1>10 DEF vars
<1> QED BY <1>3, <1>4, <1>6, <1>7, <1>8, <1>9, <1>10 DEF Next

\* The OAuth service implements its promise, for any number of instances and
\* callbacks, however they are interleaved, fail and crash.
THEOREM OAuthImplementsConsent == Spec => ImplementsConsent
<1>1. Init => WorkInv /\ Promise!Init
  BY DEF Init, OAuthInit, WorkInv, Working, Promise!Init, StatusOf
<1>2. IInv /\ IInv' /\ WorkInv /\ [Next]_vars => WorkInv' /\ [Promise!Next]_(Promise!vars)
  BY StepConsent DEF Consents
<1> QED BY <1>1, <1>2, Invariance, PTL DEF Spec, ImplementsConsent, Promise!Spec
=============================================================================
