------------------------------ MODULE Lifecycle ------------------------------
(***************************************************************************)
(* run() of cmd/branchy/main.go: an instance starts, serves, and stops.    *)
(*                                                                         *)
(* It serves with the goroutines of its wait group: the HTTP server, the   *)
(* loops, and the registration of the bot's commands.  The handlers of the *)
(* HTTP server are goroutines of their own that only Shutdown waits for,   *)
(* ten seconds at most.  Operations take whether one is busy as an         *)
(* argument; the handlers are the matter of a module that extends this one. *)
(***************************************************************************)
EXTENDS Migrations

CONSTANTS
  Loops,       \* the poll loop, the outbox worker and the cleaner, alike here
  AutoMigrate, \* the instances that run with AUTO_MIGRATE
  Reachable    \* bound: the instances whose Preflight may find Telegram

ASSUME LifecycleAssumption ==
  /\ Loops \cap {"http", "commands"} = {}
  /\ AutoMigrate \subseteq Instances /\ Reachable \subseteq Instances

Goroutines == Loops \cup {"http", "commands"}
Scopes == {"private", "group"}

\* The buffer of errCh.
ErrCapacity == 4

VARIABLES
  phase,      \* where run() of each instance is
  cancelled,  \* its signal context
  running,    \* the goroutines its wait group counts
  errCh,      \* how many errors the channel holds
  result,     \* what run() is going to return
  registered, \* the scopes whose commands are registered
  forced,     \* history: Shutdown gave up waiting for handlers
  early       \* history: instances whose server failed before main's last look

lifecycleVars ==
  <<phase, cancelled, running, errCh, result, registered, forced, early>>

Phases == {"down", "migrating", "preflight", "serving", "stopping",
           "leaving", "shutdown", "waiting", "closed"}

LifecycleTypeOK ==
  /\ phase \in [Instances -> Phases]
  /\ cancelled \in [Instances -> BOOLEAN]
  /\ running \in [Instances -> SUBSET Goroutines]
  /\ errCh \in [Instances -> 0..ErrCapacity]
  /\ result \in [Instances -> {"clean", "error"}]
  /\ registered \in [Instances -> SUBSET Scopes]
  /\ forced \in [Instances -> BOOLEAN]
  /\ early \subseteq Instances

LifecycleInit ==
  /\ phase = [i \in Instances |-> "down"]
  /\ cancelled = [i \in Instances |-> FALSE]
  /\ running = [i \in Instances |-> {}]
  /\ errCh = [i \in Instances |-> 0]
  /\ result = [i \in Instances |-> "clean"]
  /\ registered = [i \in Instances |-> {}]
  /\ forced = [i \in Instances |-> FALSE]
  /\ early = {}

Up(i) == phase[i] # "down"
HasPool(i) == phase[i] \notin {"down", "closed"}
InService(i) == phase[i] \in {"serving", "stopping", "leaving"}

\* main is going to look at errCh once more.
Listens(i) == phase[i] \in {"serving", "stopping"}

\* The HTTP server takes requests; the loops work.
Serves(i) == InService(i) /\ "http" \in running[i]
Works(i) == InService(i) /\ ~cancelled[i]

Enter(i, p) == phase' = [phase EXCEPT ![i] = p]

\* The process is gone with all it had in memory; the container may start again.
Vanish(i) ==
  /\ Enter(i, "down")
  /\ cancelled' = [cancelled EXCEPT ![i] = FALSE]
  /\ running' = [running EXCEPT ![i] = {}]
  /\ errCh' = [errCh EXCEPT ![i] = 0]
  /\ result' = [result EXCEPT ![i] = "clean"]
  /\ registered' = [registered EXCEPT ![i] = {}]
  /\ forced' = [forced EXCEPT ![i] = FALSE]
  /\ early' = early \ {i}

\* The configuration is read and the database answers.
Boot(i) ==
  /\ phase[i] = "down"
  /\ \/ /\ i \in AutoMigrate
        /\ Enter(i, "migrating")
        /\ BeginMigrations(i)
        /\ UNCHANGED <<cancelled, running, errCh, result, registered, forced, early>>
     \/ /\ i \notin AutoMigrate
        /\ Enter(i, "preflight")
        /\ UNCHANGED <<cancelled, running, errCh, result, registered, forced, early>>
        /\ UNCHANGED migrationVars

\* The statements of a cancelled context fail.
Migrate(i) ==
  /\ phase[i] = "migrating" /\ ~cancelled[i]
  /\ TakeLock(i) \/ Check(i) \/ Apply(i)
  /\ UNCHANGED lifecycleVars

Migrated(i) ==
  /\ phase[i] = "migrating"
  /\ FinishMigrations(i)
  /\ Enter(i, "preflight")
  /\ UNCHANGED <<cancelled, running, errCh, result, registered, forced, early>>

MigrationsFail(i) ==
  /\ phase[i] = "migrating"
  /\ AbortMigrations(i)
  /\ Vanish(i)

SessionLost(i) == LoseLock(i) /\ UNCHANGED lifecycleVars

\* Preflight waits for Telegram, but not for long.
Preflight(i) ==
  /\ phase[i] = "preflight"
  /\ \/ /\ ~cancelled[i] /\ i \in Reachable
        /\ Enter(i, "serving")
        /\ running' = [running EXCEPT ![i] = Goroutines]
        /\ UNCHANGED <<cancelled, errCh, result, registered, forced, early>>
     \/ Vanish(i)
  /\ UNCHANGED migrationVars

Signal(i) ==
  /\ Up(i) /\ ~cancelled[i]
  /\ cancelled' = [cancelled EXCEPT ![i] = TRUE]
  /\ UNCHANGED <<phase, running, errCh, result, registered, forced, early>>
  /\ UNCHANGED migrationVars

Return(i, g) == running' = [running EXCEPT ![i] = @ \ {g}]

\* ListenAndServe fails, at the bind or later, and its goroutine sends the error.
\* That may take the goroutine until after the listeners were closed.
ServerFails(i) ==
  /\ "http" \in running[i] /\ errCh[i] < ErrCapacity
  /\ errCh' = [errCh EXCEPT ![i] = @ + 1]
  /\ early' = IF Listens(i) THEN early \cup {i} ELSE early
  /\ Return(i, "http")
  /\ UNCHANGED <<phase, cancelled, result, registered, forced>>
  /\ UNCHANGED migrationVars

\* The loops look at the context between two pieces of work, each of which has
\* a timeout.
LoopReturns(i, g) ==
  /\ cancelled[i] /\ g \in running[i] \ {"http"}
  /\ Return(i, g)
  /\ UNCHANGED <<phase, cancelled, errCh, result, registered, forced, early>>
  /\ UNCHANGED migrationVars

\* Mutant: the loop goes on only while neither scope is ready.
SomeScope(r) == r # {}

AllScopes(r) == Scopes \subseteq r

\* One round of ensureTelegramCommands: of the missing scopes some are refused,
\* which are tried again after a pause.
Register(i, ok) ==
  /\ "commands" \in running[i] /\ ~cancelled[i]
  /\ ok \subseteq Scopes \ registered[i]
  /\ registered' = [registered EXCEPT ![i] = @ \cup ok]
  /\ IF AllScopes(registered[i] \cup ok)
     THEN Return(i, "commands")
     ELSE UNCHANGED running
  /\ UNCHANGED <<phase, cancelled, errCh, result, forced, early>>
  /\ UNCHANGED migrationVars

\* errCh hands over an error: it becomes the result of run().
Receive(i) ==
  /\ errCh[i] > 0
  /\ errCh' = [errCh EXCEPT ![i] = @ - 1]
  /\ result' = [result EXCEPT ![i] = "error"]

\* The select takes either of two ready cases.
Select(i) ==
  /\ phase[i] = "serving"
  /\ \/ cancelled[i] /\ UNCHANGED <<errCh, result>>
     \/ Receive(i)
  /\ Enter(i, "stopping")
  /\ UNCHANGED <<cancelled, running, registered, forced, early>>
  /\ UNCHANGED migrationVars

\* Mutant: the second look at the channel is left out.
NoSecondLook(i) == UNCHANGED <<errCh, result>>

SecondLook(i) ==
  IF result[i] = "clean" /\ errCh[i] > 0
  THEN Receive(i)
  ELSE UNCHANGED <<errCh, result>>

\* What has come to errCh by now is reported, the server's later errors are not.
LookAgain(i) ==
  /\ phase[i] = "stopping"
  /\ SecondLook(i)
  /\ Enter(i, "leaving")
  /\ UNCHANGED <<cancelled, running, registered, forced, early>>
  /\ UNCHANGED migrationVars

\* stop() cancels the context and Shutdown closes the listeners.  In between, an
\* instance is as after a signal: cancelled, and still taking requests (Signal).
Stop(i) ==
  /\ phase[i] = "leaving"
  /\ cancelled' = [cancelled EXCEPT ![i] = TRUE]
  /\ Enter(i, "shutdown")
  /\ UNCHANGED <<running, errCh, result, registered, forced, early>>
  /\ UNCHANGED migrationVars

ServerReturns(i) ==
  /\ phase[i] \in {"shutdown", "waiting"} /\ "http" \in running[i]
  /\ Return(i, "http")
  /\ UNCHANGED <<phase, cancelled, errCh, result, registered, forced, early>>
  /\ UNCHANGED migrationVars

\* Mutant: Close instead of Shutdown.
HandlersLeft(i, busy) == UNCHANGED forced

\* Shutdown waits for the handlers, or gives up after ten seconds.
HandlersAwaited(i, busy) == forced' = [forced EXCEPT ![i] = busy]

ShutdownReturns(i, busy) ==
  /\ phase[i] = "shutdown"
  /\ HandlersAwaited(i, busy)
  /\ Enter(i, "waiting")
  /\ UNCHANGED <<cancelled, running, errCh, result, registered, early>>
  /\ UNCHANGED migrationVars

\* Mutant: the wait group does not count the registration of commands.
UncountedReturned(i) == running[i] \subseteq {"commands"}

AllReturned(i) == running[i] = {}

\* wg.Wait returns and the pool is closed: it refuses new connections and waits
\* for those in use.
ClosePool(i) ==
  /\ phase[i] = "waiting" /\ AllReturned(i)
  /\ Enter(i, "closed")
  /\ UNCHANGED <<cancelled, running, errCh, result, registered, forced, early>>
  /\ UNCHANGED migrationVars

\* The process ends, with every goroutine that is left.
Exit(i) ==
  /\ phase[i] = "closed"
  /\ Vanish(i)
  /\ UNCHANGED migrationVars

\* A crash takes the sessions of the instance with it, and so the lock.
Crash(i) ==
  /\ Up(i)
  /\ Vanish(i)
  /\ LeaveMigrations(i)
  /\ UNCHANGED <<applied, repeated>>
=============================================================================
