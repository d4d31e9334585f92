------------------------------- MODULE Process --------------------------------
(***************************************************************************)
(* Instances of Branchy on one database, from their start over serving to  *)
(* their end: Migrations, Lifecycle and OAuth composed.                    *)
(***************************************************************************)
EXTENDS OAuth

vars == <<migrationVars, lifecycleVars, oauthVars>>

TypeOK == MigrationsTypeOK /\ LifecycleTypeOK /\ OAuthTypeOK

Init == MigrationsInit /\ LifecycleInit /\ OAuthInit

\* What run() does next of its own.
Proceed(i) ==
  \/ /\ \/ Migrate(i)
        \/ Migrated(i)
        \/ cancelled[i] /\ MigrationsFail(i)
        \/ Preflight(i)
        \/ Select(i)
        \/ LookAgain(i)
        \/ Stop(i)
        \/ \E g \in Goroutines : LoopReturns(i, g)
        \/ ServerReturns(i)
        \/ ShutdownReturns(i, Busy(i))
        \/ ClosePool(i)
     /\ UNCHANGED oauthVars
  \/ Exit(i) /\ CutOff(i, forced[i])

\* What happens to it.
Disturb(i) ==
  \/ /\ Boot(i) \/ MigrationsFail(i) \/ SessionLost(i) \/ Signal(i) \/ ServerFails(i)
     /\ UNCHANGED oauthVars
  \/ Crash(i) /\ CutOff(i, TRUE)

TakesLock(i) ==
  /\ phase[i] = "migrating" /\ ~cancelled[i]
  /\ TakeLock(i)
  /\ UNCHANGED <<lifecycleVars, oauthVars>>

Registers(i, ok) == Register(i, ok) /\ UNCHANGED oauthVars

Handle(c) ==
  \/ Consume(c) \/ Refused(c) \/ Exchange(c) \/ UpsertGitHubConnection(c) \/ Answer(c)
  \/ ConsumeFails(c) \/ GitHubFails(c) \/ StoreFails(c)

Next ==
  \/ \E i \in Instances : Proceed(i) \/ Disturb(i) \/ \E ok \in SUBSET Scopes : Registers(i, ok)
  \/ /\ \/ \E i \in Instances : CleanStates(i) \/ \E l \in Links : CreateAuthURL(i, l)
        \/ \E l \in Links : Expire(l)
        \/ \E c \in Calls : Handle(c) \/ \E i \in Instances, l \in Links : Callback(c, i, l)
     /\ UNCHANGED <<migrationVars, lifecycleVars>>

\* Every statement and every wait of run() comes to an end; PostgreSQL grants a
\* lock in turn; Telegram does not refuse the commands for ever.
Fairness ==
  \A i \in Instances :
    /\ WF_vars(Proceed(i)) /\ SF_vars(TakesLock(i))
    /\ WF_vars(Registers(i, Scopes \ registered[i]))

Spec == Init /\ [][Next]_vars /\ Fairness

-----------------------------------------------------------------------------

\* No migration is committed twice, however many instances start together, unless
\* the session that holds the advisory lock is lost; and none serves a database
\* that lacks one (migrations.go, RunMigrations).
SchemaIntact ==
  /\ repeated = {}
  /\ \A i \in AutoMigrate :
       phase[i] \notin {"down", "migrating"} => applied = Versions

\* A link is good for one exchange of a code, also if the browser is reloaded,
\* several instances serve callbacks, or the state expires on the way
\* (oauth/service.go, handleCallback).
LinkUsedOnce == reused = {}

\* What a user's link has come to.
StatusOf(l) ==
  CASE fate[l] = "pending" -> "spent"
    [] fate[l] = "stored" -> "connected"
    [] fate[l] = "excused" -> "failed"
    [] OTHER -> IF state[l] = "none" THEN "none" ELSE IF state[l] = "live" THEN "open" ELSE "lapsed"

\* The OAuth service implements the promise of module Consent: reloads, lost
\* answers, several instances and crashes make no connection but that of a link's
\* owner, after its one code (handleCallback, ConsumeOAuthState).
Promise == INSTANCE Consent WITH
  status <- [l \in Links |-> StatusOf(l)],
  codes <- [l \in Links |-> IF l \in reused THEN 2 ELSE IF l \in exchanged THEN 1 ELSE 0]

ImplementsConsent == Promise!Spec

\* A link that was consumed has made its connection or is about to, or its
\* callback failed or crashed, or was still running when Shutdown gave up: a stop
\* in time costs no user a link (service.go:112, main.go:192-199).
SpentForReason ==
  \A l \in Links : fate[l] = "pending" =>
    \E c \in Calls : link[c] = l /\ stage[c] \in {"github", "store"}

\* When the pool is closed no goroutine of the wait group is left, and handlers
\* are left only if Shutdown gave up waiting for them (main.go:189-200).
PoolOutlivesUsers ==
  \A i \in Instances : phase[i] = "closed" => running[i] = {} /\ (Busy(i) => forced[i])

\* A server that failed before main looked at the channel for the last time makes
\* run() report it, also if a signal arrived at the same time and the select took
\* the signal (main.go:181-187).  What fails later is not reported.
FailureReported ==
  \A i \in early : Listens(i) \/ result[i] = "error"

\* An instance that starts comes to serve or ends, whoever holds the lock and
\* however few connections were configured; one that is told to stop, or whose
\* server failed, ends.
NeverStuck ==
  \A i \in Instances :
    LET settled == phase[i] = "serving" /\ ~cancelled[i] /\ errCh[i] = 0
    IN  Up(i) /\ ~settled ~> ~Up(i) \/ settled

\* A refused registration of the bot's commands is made up for: an instance that
\* goes on serving gets both scopes registered (main.go, ensureTelegramCommands).
CommandsRegistered ==
  \A i \in Reachable :
    phase[i] = "serving" ~> registered[i] = Scopes \/ cancelled[i] \/ phase[i] = "down"
=============================================================================
