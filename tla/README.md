# Branchy, specified

Branchy receives GitHub webhooks and turns them into Telegram messages. Users
configure subscriptions in a bot; the program keeps everything in PostgreSQL and
runs as one Go process: an HTTP server, a polling loop for the bot, a worker that
drains a table of notification jobs, and an hourly cleaner. This directory specifies
that program in TLA+: modules that follow the code, TLC instances that check them,
and theorems checked by TLAPS. Paths below are relative to the repository.

## 1. Inventory

| Component | Code | State | Operations | What makes it correct |
|---|---|---|---|---|
| Notification outbox | `internal/db/db.go` 621-848, `internal/outbox/worker.go` | rows of `notification_jobs` (status, attempts, retry_at, locked_until, chat, subscription), the batch a loop holds | claim, send, record sent / retry / failed, auto-pause | every accepted job ends; attempts are bounded and never refunded; a result reaches only a row that is open; no duplicate unless a result was really lost |
| Send fallback | `worker.go` 134-252, `internal/telegram/client.go` | none | rich, media-free, classic HTML, plain text | no later stage after an ambiguous error: one send, one message at most |
| Webhook intake | `internal/webhooks/handler.go`, `db.go` 551-619 | `webhook_deliveries`, new jobs | check, list, reconcile name, record delivery with its jobs | one delivery is queued once; a duplicate was processed; "ok" means queued |
| Rate limiter | `internal/webhooks/ratelimit.go` | tokens, last | allow | no more than burst + rate * time; no early refusal |
| Retention cleanup | `db.go` 914-946, `cmd/branchy/main.go` 275-292 | the tables above, OAuth states, callback tokens | delete expired, settled and forgotten rows | nothing in use is deleted |
| Event parsing, subscription filter | `internal/webhooks/events.go` | none | parse, match branch / action / release mode | a subscription gets what the docs promise for its settings |
| Subscriptions service | `internal/subscriptions/service.go`, `db.go` 250-549 | `subscriptions`, `repo_hooks`, the hook on GitHub, a mutex per repository | create, pause, resume, edit, move, delete, each with hook synchronisation and compensation | the hook is the union of active subscriptions once things are quiet; a failed edit leaves nothing half done |
| OAuth service | `internal/oauth/service.go`, `db.go` 185-204 | `oauth_states`, connections | create link, callback | a link is used once, and not spent without a reason |
| Bot polling | `internal/bot/bot.go` 77-164 | update offset in `runtime_state`, retry counter in memory | poll, handle, retry, skip, store offset | updates are handled in order, none is skipped before three retries, a poison update does not stall the loop |
| Callback tokens | `db.go` 850-890, `bot.go` 442-455 | `callback_tokens` | create, read, consume | an action that changes something runs at most once per button |
| Wizard, panels, group flows | `internal/bot/bot.go` 559-2574 | drafts in the payloads of buttons, known groups | toggles, normalisation, administrator check, create, save | what a button offers to save is accepted, however old its panel; a subscription is created as shown; groups are chosen by their administrators |
| Migration runner | `internal/db/migrations.go` | `schema_migrations`, an advisory lock held by one session | apply each migration once | no migration runs twice, also with two instances starting; none serves an old schema |
| Process lifecycle | `cmd/branchy/main.go` 48-273 | contexts, the wait group, the error channel, the pool | start, preflight, serve, register commands, fail, stop | nothing uses the pool after it is closed; a failure is reported; no start or stop hangs |
| Configuration, metrics, health, translations, rendering, identifiers, token sealer, signature check | the remaining packages | none that changes | pure functions and adapters | left out, see section 8 |

How they interact. GitHub posts to the intake, which reads subscriptions and writes
a delivery and its jobs in one transaction. The worker claims jobs under a lease,
calls Telegram and writes the result back; a chat that is gone for good makes it
pause the subscription. The bot's handlers change subscriptions through the service,
which synchronises the repository's hook on GitHub and compensates the row when that
fails. The cleaner deletes what the retention window has passed. Apart from a mutex
per repository and one in the limiter, all shared state is in PostgreSQL, so the
interleavings that matter are those of SQL statements, transactions and calls to
GitHub and Telegram.

What is hard: the worker and its row disagree after a lease ran out; a process dies
between a side effect and its record; the same delivery arrives twice at once; a
subscription changes between being read and being used; one of several statements
fails. PROJECT.json lists the hazards at their lines.

## 2. Modules

| Module | Models | Run / proof |
|---|---|---|
| `Delivery` | what the outbox promises for each job, without workers or leases | refined by `Outbox` |
| `Ledger` | what the intake promises of deliveries, without transactions, names or windows | refined by `Intake` |
| `Inbox` | what the polling loop promises of updates, without processes, offsets or retries | refined by `PollLoop` |
| `Consent` | what the OAuth service promises of links, without instances, handlers or rows | refined by `Process` |
| `SendStages` | one `send()`: its stages, the client's view of an answer, the class of an error | extended by `Outbox` |
| `Outbox` | the job table, the worker loop, the auto-pause, crash, shutdown, restart | `MCOutbox`, `OutboxProofs`, `OutboxLeaseProofs` |
| `RateLimiter` | the token bucket and the clock read outside its mutex | `MCRateLimiter`, `RateLimiterProofs` |
| `Filter` | which payload is an event and which settings let it through | `MCIntake`, `IntakeProofs` |
| `Intake` | `ServeHTTP`, the enqueue transaction, the cleanup | `MCIntake`, `IntakeProofs` |
| `HookSync` | the subscriptions service, the hook on GitHub, the compensation | `MCHookSync`, `HookSyncProofs` |
| `PollLoop` | the polling loop, offsets, retries, callback tokens, group membership | `MCPollLoop`, `PollLoopProofs` |
| `Panels` | the wizard and the editing screens, what they save | `MCPanels`, `PanelsProofs` |
| `Migrations` | `RunMigrations` of several instances, the lock, the pool's connections | extended by `Lifecycle` |
| `Lifecycle` | `run()` of main.go: start, service, shutdown | extended by `OAuth` |
| `OAuth` | links, callbacks, connections | extended by `Process` |
| `Process` | the three together: instances from their start to their end | `MCProcess`, `ProcessProofs` |

### Outbox

One SQL statement or transaction is one action, because that is where PostgreSQL
lets others in. `ClaimPendingNotificationJobs(w, S)` is the whole claim transaction:
it picks any set `S` of ripe rows up to the batch limit (the rows of others are
skipped with `SKIP LOCKED`, and the order by `retry_at` is abstracted with time),
charges an attempt to each row whose lease had expired, fails those for which that
was the last, leases the rest, and hands the loop a copy (`snap`). A claim whose
commit succeeded but whose answer was lost leaves leased rows nobody works on; for
the rows that is the claim followed by `Crash`, and it is covered as such. `Send` is
one call of `send()`, with all its fallbacks; what it may return, and how many
messages the chat has by then, is read off `SendStages`. `RecordSent`, `RecordRetry`
and `failJob` are the three arms of `FinishNotificationJob`, fenced by `status =
'processing'` and computed from the copy. `AutoPause` is the second statement of
`failJob` and therefore a step of its own. `Advance` is what the loop does next.
`Shutdown` cancels its context, `Crash` drops what is in memory, `Restart` brings it
back. `FinishError` is a failing statement: the loop logs it and goes on.

`SendStages` has no state. A course of a send is the content of the job, the answer
each request gets or would get, and the stage it ends with: a stage is tried if
every one before it was rejected for its content (`shouldFallbackContent`), and the
last one's answer is the result, unless the client takes it for delivered
(`delivered`). `Outbox` lets Telegram give any answer its faults allow, to every
stage.

Time is one flag per row: `ripe` means that `retry_at` (pending) or `locked_until`
(processing) has passed. `Ripen` may set it at any moment, which covers leases that
expire early, late and during a send. A subscription that was created again under a
new id is another element of `Subs`.

History variables (`holder`, `sends`, `received`, `lost`, `rejected`, `refused`)
record what properties speak of; no action reads them.

### RateLimiter

`allow` runs under a mutex and is one step (`Admit` or `Refuse`); `h.now()` is read
before it (`ReadClock`), so requests can overtake each other. A second has `Ticks`
ticks and a token `Ticks` units, which makes the refill exact; the rounding of
`float64` is left out. `ordered` is history.

### Intake

A request goes through `Check` (everything before the store), `List`, `Reconcile`,
`Mark`, `InsertJobs`, `Commit` and `Answer`. The transaction spans `Mark` to
`Commit`: the marker is "held" while uncommitted, and a second insert of the same
delivery waits for it, as the unique index makes it. `Fail` is an error or a crash
at any step, with the deferred rollback. Jobs appear at the commit. The cleanup's
statements are separate steps with their early returns (`CleanupError`). GitHub's
side is external: events happen, are posted at any time and any number of times, and
the repository may be renamed. Which delivery concerns which subscription is the
parameter `Selects`; in `MCIntake` and in `IntakeProofs` it is what `Filter`
computes. `ImplementsLedger` maps a request to the answer it was given (`ReplyOf`,
"open" until then) and a delivery to the ledger when its marker is committed.

### Filter

The parsers, the three matchers and the normalization of actions, as operators on a
payload reduced to the fields the verdict depends on. `Delivers` is what `ServeHTTP`
makes of them; `Promised` is the same question answered from `docs/telegram.md` and
`docs/github.md`. They agree (section 5) where `FirstNews` holds; section 6 has the
case where they do not.

### HookSync

One repository, the rows of one user, the hook on GitHub and its row in
`repo_hooks`. A call starts by reading the row it is about (`Create`, `SetStatus`,
`SetEvents`, `Delete`), writes it in a second step (`Mutate`), and then goes through
`EnsureWebhook`: `Lock`, `Read`, `GitHub`, `Record`. An error unlocks the mutex and
leads to `Rollback`, which puts the row back and synchronises once more. Every step
can fail; a call to GitHub or a statement can also take effect and lose its answer
(`SyncError`, `AnswerLost`). `SetFilter` and `SetDestination` stand for the edits
that need no synchronisation, `AutoPause` for the outbox. Listing the hooks and
changing one is a single step, since only the holder of the mutex does either. The
bot makes one call at a time; the mutex is there for more, so the number of callers
is a constant. `touched` and `drifted` are history.

### PollLoop

`Run` of `bot.go` with the statements of its handlers that outlive them: `Touch`
(`upsertUser`), `Lookup` and `Consume` (the callback token), `Act` (what the token
stands for, counted and not modelled), `Membership` (`UpsertChatState`), `Reply`.
Each may fail, also after it took effect, and a stop may come between any two.
`Succeed`, `Retry` and `Drop` are the three ways the loop goes on; `Advance` is what
`Succeed` and `Drop` share. Telegram's side is two numbers: what was sent, and the
first update not yet confirmed by the offset of a fetch. `Start` is `loadOffset`,
whose error the loop ignores. `misread`, `taken`, `outcome`, `handledHere` and
`failedHere` are history. `ImplementsInbox` forgets processes, batches and the three
offsets and keeps what was sent, what Telegram still keeps, and what became of each.

### Panels

The bot keeps no draft: it is in the tokens of the buttons, so a message is a screen
with the draft (or the part of a subscription) its buttons carry. One action is one
group of buttons of a screen, guarded by the condition under which the render
function draws them enabled; its next state is the screen the handler renders.
Toggles, `withDraftDefaults` and `normalizeDraftForEvents` are translated as they
are, `Valid` and `Settings` are `normalizeSettings`, `Storable` the CHECK
constraints of the table, `SameConfig` its unique index, for one user and one
repository. `Save` is the common part of the Set methods. Since panels stay in the
chat, any number of them can be open on the same subscription, and each shows what
was true when it was drawn. Handlers are not interleaved: the loop runs one at a
time. The failures and the repetition of a handler are the subject of `PollLoop`,
and those of the hook of `HookSync`; here they are the way home without a change.
`checked` and `refused` are history.

### Process

Three modules that share the instances. `Migrations`: the advisory lock is held by a
session of its own (`TakeLock`, `Unlock`), while each check and each transaction
takes another connection (`Spare`); a migration is checked (`Check`) and committed
with its record (`Apply`) in two steps; any step may fail, and a failed COMMIT may
have taken effect (`AbortMigrations`); the session of the lock may end without the
instance noticing (`LoseLock`). `Lifecycle`: `phase` is where `run()` is. Starting
ends with `Preflight`; then the goroutines of the wait group run until they return
(`LoopReturns`, `ServerFails`, `ServerReturns`, the last round of `Register`),
errors queue in `errCh`, and `Select`, `LookAgain`, `Stop`, `ShutdownReturns`,
`ClosePool` and `Exit` are the statements at the end of `run()`, each a step since
signals, errors and handlers move between them: the server may fail, or its goroutine
get to send the error, after main looked at `errCh` for the last time, and even after
the listeners were closed. `Stop` is `stop()` with the first part of `Shutdown`;
between the two an instance is as it is after a `Signal` before `Stop`: cancelled and
still taking requests. `early` holds the instances whose error came in time. `OAuth`: a link is made by the bot
(`CreateAuthURL`), and a callback goes through `Consume`, `Exchange` and
`UpsertGitHubConnection`, in any instance whose server runs. Its handlers live under
the context of their request, so a signal does not stop them; `Shutdown` waits for
them or gives up (`forced`), and what is left when the process ends is cut off
(`CutOff`). Each step can fail with or without effect. `beside`, `repeated`,
`exchanged`, `reused`, `fate`, `forced` and `early` are history. `ImplementsConsent` maps
a link to its state in the table, or to its `fate` once it is consumed (`StatusOf`).

The loops are alike here: what they do is the matter of the other modules, whose own
stops and restarts follow from the ones shown here.

## 3. What the runs check

| Run | Instance | Shows |
|---|---|---|
| `outbox_single` | 1 process, 2 jobs, batch 2, 3 attempts, every fault, no user operation | `SendsWithinBudget`, `OnceUnlessLost`, `AttemptsNeverDrop`, `ImplementsDelivery` (the outbox refines `Delivery`), and `JobsSettle` under fairness |
| `outbox_pair` | 2 processes, 1 job, 2 chats, 2 attempts, every fault and user operation | what survives overlapping leases: `LiveHasBudget`, `SentMeansDelivered`, `GivenUpForReason`, `SettledIsFinal`, `AutoPauseJustified`, and `OneMessagePerSend` |
| `outbox_stale_result` | 2 processes, 1 job, no fault at all | finding: a late result changes a row another worker holds |
| `outbox_moved_destination` | 1 process, 1 job, 2 chats | finding: a moved subscription is paused for its old chat |
| `limiter` | 3 requests, burst 2, 6 ticks | `WindowBound`, `RefusedOnlyOverBudget` |
| `intake` | 2 requests, 1 delivery of a merge, 1 subscription to merges, 1 rename | `QueuedOnce`, `DuplicateWasProcessed`, `UnsentJobsKept`, `AcceptedIsQueued`, `ImplementsLedger` (the intake refines `Ledger`), and `EveryRequestAnswered` under fairness; before it starts, `FilterChecked`: `Filter` against the docs for all settings, 2 branches and every kind of payload |
| `hook_edits` | 1 caller, 2 subscriptions, 2 events, 2 filters, 2 chats, every fault | `HookAligned`, `FailedEditUndone` |
| `hook_pair` | 2 callers, 1 subscription, 1 event, every fault | `HookAligned` with concurrent calls, `CallsReturn` under fairness |
| `poll_loop` | a tap, joining a group, its panel, leaving; 1 retry, 2 stops, every fault | `ImplementsInbox` (the loop refines `Inbox`, so an action is taken once and updates end in order), `NothingSkipped`, `NeverTwiceHere`, `PresenceSettled`, `DropsAfterRetries`, and `UpdatesSettle` under fairness |
| `panels` | 2 messages, 1 of them creating, 1 subscription, 1 group, 1 branch, 2 actions, 2 release modes | `NoEmptySelection`, `EditsAccepted`, `CreatedAsShown`, `GroupVerified` |
| `panels_create` | 1 message, no group, every action and mode | finding: a Create button on offer that is always refused |
| `process` | 2 instances, 1 migration, a pool configured with 1 connection, 1 loop, 1 link, 2 callbacks, every fault | `SchemaIntact`, `ImplementsConsent` (the OAuth service refines `Consent`, so a link is used once), `SpentForReason`, `PoolOutlivesUsers`, `FailureReported`, and under fairness `NeverStuck`, `CommandsRegistered` |

The type invariants are proved and not run: a theorem says more, and the runs stay
free for the rest. `RunOnce` and `LinkUsedOnce` are proved as well and left to the
runs of the refinements, which imply them.

Bounds. Two jobs suffice to have one in hand and one waiting in the batch, and to
have one fail while the other is sent; three attempts are the fewest with which a
refunded one can be seen (a result writes at least 1, and a row at the limit is
settled). Pausing and deleting are left to the instance with two processes. Two
processes with one job are the smallest overlap; a third could only repeat what the
second does to the first, since the row does not know its holder. Two requests for
one delivery are the race of the intake; a redelivery is the same request slot used
again, so any number of redeliveries is covered until retention has forgotten the
delivery; those that come later (`MaxPurges` above 0) are left to the proofs. One
subscription is enough to be paused, edited or deleted under a request; the proofs
are for any number. `MaxRenames` and `MaxPurges` bound the counters that would make
the state space infinite; `MaxClock` bounds the limiter's clock. Two subscriptions
with overlapping lists are what a union needs to be wrong, and two filters and chats
what the unique index needs to refuse an edit; the race for the mutex needs one row
that changes between two reads. Four updates of all kinds, two of them about the
membership, let a batch break off at the first, in the middle and at the end; one
retry separates a first failure from the last, and two stops let a replay be
interrupted by another. Two panels are one that is old and one that makes it so; the
second does not create (`Creators`), since one subscription (`Subs`, ids are not
used twice) leaves nothing to create after the first. Two instances race for one
migration, which may also be applied already; `PoolMaxConns` = 1 is the
configuration in which the lock and the statements would wait for each other but for
the minimum of `Connect`; `Loops` has one member for the three that behave alike;
`Reachable` lets one instance serve, since two that serve share nothing but the
links, and two callbacks in one race for a link just as well. Two actions and two
release modes have a set that is partly, fully and not at all ticked, and a default
that differs from the choice. The proofs of section 5 have none of these bounds
except those of the intake, the loop and the clock, and `Reachable`, which are
arbitrary there.

`CHECK_DEADLOCK FALSE` stands in the configurations of `Outbox` only: once all jobs
are settled and nobody blocks, pauses or restarts anything, the system is idle, and
a poll that claims nothing is not a step.

## 4. Fairness

`Outbox`: the loop has no exit but shutdown and every call it makes has a timeout,
so its actions are weakly fair; a process that is down is restarted
(`docker-compose.yml`, `restart: unless-stopped`); time passes (`Ripen`). The claim
is strongly fair: a process may be stopped before its poll again and again, and the
first thing it does when it is back is to poll. Nothing is assumed of users,
Telegram, crashes and failing statements.

`HookSync`: a call that has changed its row goes on, and `sync.Mutex` lets no
waiting goroutine starve (strong fairness of `Lock`). Nothing is assumed of GitHub,
which may refuse every call.

`Intake`: each request is served (weak fairness of `Proceed`, the steps in which
nothing fails, so that no answer relies on a failure), and an insert that waits for
another transaction is woken when that ends; PostgreSQL wakes waiters in turn, hence
strong fairness of `Mark`. Nothing is assumed of the cleaner, users or GitHub.

`PollLoop`: the container is restarted (weak fairness of `Start`) and the loop goes
on (weak fairness of `Run`). `Run` is fair as a whole, so no statement and no answer
to a user ever has to succeed: `UpdatesSettle` holds if each of them fails. Only a
fetch has to be answered in the end; without that nothing can be confirmed.

`Process`: what `run()` does next happens (weak fairness of `Proceed`), since every
statement and every wait in it ends: requests have timeouts, the loops look at their
context between two of them, and `Shutdown` gives up after ten seconds. PostgreSQL
grants a lock in turn (strong fairness of `TakesLock`). Telegram does not refuse the
commands for ever (weak fairness of `Registers` for the scopes that are missing),
which is all that a loop of retries can hope for. Nothing is assumed of signals,
crashes, handlers, GitHub, or that an instance is started at all.

## 5. What is proved

For every set of jobs, chats, subscriptions and processes, every `MaxAttempts` and
batch size and every set of faults (`OutboxProofs`): `TypeOK`, `LiveHasBudget`,
`SentMeansDelivered`, `GivenUpForReason`, `SettledIsFinal`, `AutoPauseJustified`,
`OneMessagePerSend` and a bound on sends (below). Most are not inductive alone. The invariant adds that rows that
exist have a chat and others were never charged (`RowsWellFormed`), that what a loop
holds exists and had an attempt left when it was claimed (`BatchesClaimed`), that
the job in hand is one of them (`InHand`), and that an unrecorded verdict is backed
by what Telegram did (`VerdictsBacked`). The last is what lets a stale worker mark a
row "sent" without making `SentMeansDelivered` false. For the auto-pause, a second
invariant says that a loop about to pause has failed the job in hand for a chat that
was refused (`PauseBacked`), and that the subscription in its copy is still the
row's, or gone from it (`LinksKept`). `OneMessagePerSend` rests on a lemma about
`SendStages`: of the stages that are tried only the last can have reached the chat,
since each one before it was rejected; the same lemma gives
`FailedSendsLeaveNothing`, a failed send left a message only if its last answer was
lost or not understood, so no other failure makes its retry a duplicate.

Overlapping processes break `SendsWithinBudget` (section 6), because a late result
writes the attempts of an old copy. They do not break every bound:
`SendsBoundedAnyway` has at most 2^max_attempts - 1 calls of `send()` for a job and
no more messages than calls, with any number of processes and no assumption about
leases; with the default of five attempts (`internal/config/config.go` 101) that is
31 (`SendsBoundedByDefault`). The argument is a weight. `B` is the number of sends
that a row with `a` attempts can still lead to: one for the claim, then as many
again for each of the two futures in which the attempt is charged, that of the loop
that holds the copy and that of the row once its lease has run out, so `B[a] = 1 +
2 * B[a + 1]` (`Doubling`). `Weighed` says that the sends made, the weight of the row
and the weights of the copies in all loops stay within `B[0]`; the sum over the
loops is the cardinality of a set (`Area`), and each step either moves weight from
the row to a copy or gives some up. The bound is reached, by two processes when
`MaxAttempts` is 2 and by three when it is 3. `B` is a parameter of the theorem
because a power of two would be a recursive definition; the corollary writes it out.

While leases outlast the work, for any number of processes (`OutboxLeaseProofs`):
`SendsWithinBudget`, `OnceUnlessLost`, `AttemptsNeverDrop` and `ImplementsDelivery`,
as consequences of `Spec /\ LeasesOutlast`. `LeasesOutlast` says of a step that no
process claims a job another still has in its batch. For one process, the deployment
the repository documents, it holds by itself (`SingleProcessDelivers` needs no
hypothesis). For several it is what `OUTBOX_LEASE` is meant to ensure, two minutes
by default (`internal/config/config.go` 93), but the code does not: a lease is taken
for a whole batch of up to 20 jobs, nothing renews it, and each job may take up to
four requests of 20 seconds. So the theorems say what the deployment has to provide,
and `ResultsComeFromHolder` that nothing else is needed: with the hypothesis the
property of the finding, `StaleResultIsNoOp`, is true. Likewise
`PauseMatchesUnmoved` (`OutboxProofs`): in behaviours in which no subscription is
moved, `AutoPauseMatchesDestination` holds, so a move is the only way to the other
finding.
The invariant: no job is in two batches (`Apart`), and what a loop read at the claim
still holds when it writes (`HeldExactly`); without the hypothesis it does not.
`Accounted` ties the sends of a job to its attempts, `AtMostOneKnown` ties the
messages it delivered to those that were lost. The refinement is shown job by job:
`JobStep` lists what any step may do to one job, and each case is an action of
`Delivery` or a stutter.

For every rate, burst and number of requests (`RateLimiterProofs`): `TypeOK`,
`WindowBound` and `RefusedOnlyOverBudget`. `Balanced` is the bound with the tokens
left in the bucket counted in; it survives a clock that appears to run backwards,
because what such a reading takes away the next one gives back. `Tight` says that,
in order, the balance is an equality for some run.

For every number of requests, deliveries and subscriptions (`IntakeProofs`):
`TypeOK`, `QueuedOnce`, `DuplicateWasProcessed`, `UnsentJobsKept` and
`AcceptedIsQueued`, from: an open transaction holds its marker and only one can
(`OneHolder`), a job has its delivery (`ForeignKey`), what was made has a marker or
was purged (`QueuedWithMarker`), and subscriptions that stayed active were listed
(`SteadyIsListed`). `FilterAsPromised` shows `Delivers` and `Promised` equal for
every stored setting and every payload with `FirstNews`, and `PromisedWasQueued`
puts the two together: "ok" means a job for every subscription that stayed active
and whose settings promise the event. `IntakeImplementsLedger`: the commit is the
step in which a delivery and its jobs appear, all others stutter or change one
request; what was listed and is still active is among the jobs (`SteadyIsListed`,
`ListedIsSelected`). `MarkersHaveOwners`: a held marker belongs to a request inside
its transaction.

For every number of calls, subscriptions, events, filters and chats
(`HookSyncProofs`): `TypeOK` with the uniqueness of configurations, `HookAligned`
and `FailedEditUndone`. `HookAligned` speaks of quiet moments only; the invariant
adds what a call that is alone knows while it holds the mutex: what it read still
covers the rows, because any other change of a row is under way until it has
synchronised or has been counted as drift. `FailedEditUndone` needs `Undoable`: as
long as nobody else wrote the row, what the compensation would write is the row that
was read before the call. The instance of two callers is small; this is where the
theorem for any number of them counts. `MutexNeverAbandoned`: the mutex is held by
exactly the call between `Lock` and its unlock, on every path. `RecordsFollowHook`:
`repo_hooks` is only written with what GitHub has, by the holder.

For every sequence of updates, every number of retries and stops (`PollLoopProofs`):
`TypeOK`, `RunOnce`, `NothingSkipped`, `NeverTwiceHere`, `DropsAfterRetries` and
`PresenceSettled`. The update in hand is the first one behind neither offset
(`InHand`); everything before the three offsets was settled (`OffsetsSettled`); an
action is under way only between its token's consumption and its first count
(`TakenWhenConsumed`); and the retry counter is the number of failures of the update
a fetch starts with, in this process (`CountsHead`). The last is what makes a single
pair of variables enough for all updates. `PresenceSettled` has an invariant of its
own (`LastKnown`): as long as no start misread the offset, the stored one is not
ahead of the one in memory, so a replay begins behind nothing that was not handled,
and ends with the last change again. `LoopImplementsInbox` follows from the same
invariant: an update in hand has every earlier one settled behind it and is not yet
confirmed, which is what `Inbox` asks of all that is done to it.

For every number of panels, subscriptions, groups, branches, actions and release
modes (`PanelsProofs`): all five properties of the run. Rows of living subscriptions
are complete and satisfy the constraints (`RowOK`), which every edit preserves
whatever panel it comes from, because each writes one part of the row and the parts
that must agree are written together; that is `EditsAccepted`. A panel with a draft
past the choice of the destination carries a complete draft (`PanelOK`), and the
settings panel a normalized one, on which both the bot's and the service's
normalization are the identity (`SettingsAsShown`, the heart of `CreatedAsShown`).
`DraftsChecked` ties the group of such a draft to the check made on its panel.
`CreatesFailWithoutActions` gives the extent of the third finding: as long as no
panel offers a draft without pull request actions (`ActionsTicked`), every Create on
offer passes the service and the constraints.

For every number of instances, migrations, links and callbacks, every size of the
configured pool and every set of loops (`ProcessProofs`): `TypeOK` and the five
invariants of the run. Whoever is inside `RunMigrations` holds the lock, unless one
was lost (`SchemaInv`), so what it found missing stays missing until it commits;
only an instance that is migrating is inside (`PhaseInv`); the server sends one error
at most, and one that main was still going to look for is in the channel or was taken
by one of the two looks (`ErrorInv`); a handler lives where
the server did, and past `Shutdown` only if that gave up (`HandlerInv`); between
`Consume` and `Exchange` a link belongs to one call (`LinkInv`). For
`OAuthImplementsConsent` the invariant adds that the link a callback works on is
pending, is worked on by no other, and had its code sent before the upsert
(`WorkInv`), so that a crash fails exactly the links of its instance.
Three more theorems go beyond the properties of the run: migrations are applied without a gap,
even when the lock was lost (`SchemaInOrder`); the holder of the lock is inside
`RunMigrations`, waits for nobody and has the connection its statements need, for
every pool size (`LocksHaveOwners`); a failing server finds room in `errCh`
(`ErrorsNeverWait`).

`MarkersHaveOwners`, `MutexNeverAbandoned`, `LocksHaveOwners` and `ErrorsNeverWait`
are the safety halves of liveness: nobody waits for something that has no owner. That
the owner goes on is fairness, and checked by TLC.

Assumptions are those named in the modules: positive attempts and batch sizes,
`None` outside the other sets, integer rate and burst. They follow from
`internal/config/config.go` and the constructors' defaults, and TLC evaluates them
on every run.

Only model-checked: `JobsSettle`, `EveryRequestAnswered`, `CallsReturn`,
`UpdatesSettle`, `NeverStuck` and `CommandsRegistered` (liveness under fairness and
ENABLED are out of the prover's reach). Induction over data and RECURSIVE operators
are out of its reach as well; no module uses them.

## 6. Findings

* `StaleResultIsNoOp`: the comment on the fence says a result whose job was
  re-leased is a no-op; it is not, the fence compares the status and not the lease.
  What still holds with any number of processes is proved (section 5), with
  2^max_attempts - 1 in place of max_attempts as the bound on sends; what is lost are
  `AttemptsNeverDrop`, `SendsWithinBudget` and `OnceUnlessLost`, which hold while
  leases outlast the work, and so for a single process.
* `AutoPauseMatchesDestination`: a subscription moved to another chat is paused when
  a job queued for the old chat is refused.
* `CreatesAccepted`: a draft whose pull request actions were all un-ticked before
  "Pull requests" itself was un-ticked shows an enabled Create button. The bot and
  the service ask for an action only when the event is selected, the table for every
  row, so the INSERT fails each time; the user has to start over, or tick an action
  of an event that is not wanted.

Observed while modelling and not made a run of their own.

* Outbox. `SendHTML` passes on the error of an accepted message whose answer does
  not parse, so the job is sent again, where the rich stages and plain text call it
  delivered (`internal/telegram/client.go` 16-20 and `CHANGELOG.md` 213-216 make no
  exception; `receipt` in `SendStages`). A shutdown leaves the rest of the batch
  leased, and the next claim charges these jobs an attempt nobody made. The counter
  of automatic pauses also counts those that found nothing to pause.
* Intake. A later action on a merged pull request (a label, an edit) is announced as
  a merge once more, because the payload still says "merged" (`docs/telegram.md`
  171, `docs/github.md` 45-47); hence `FirstNews` in the comparison. The default
  branch cached with the subscription wins over the payload's, so a changed default
  branch is not noticed. A request overtaken before the limiter's mutex can be
  refused with a burst that is not used up. The cached repository name follows the
  order of requests, not of renames, and its UNIQUE constraint is not the one the
  upsert names (`ON CONFLICT (github_repo_id)`). The delivery's cascade removes
  settled jobs younger than the window.
* Subscriptions. A compensation writes back the status it read, over an automatic
  pause made meanwhile, and it runs under the context of the failed call, so a
  shutdown in the middle of an edit fails the rollback too. An automatic pause
  leaves its events in the hook until the next edit.
* Bot. A start that cannot read the offset replays old updates, and a second one
  that reads it jumps over the rest of the replay, which can leave an old membership
  in `chat_state` (`PresenceSettled` excuses it). A tap delivered again after its
  token was consumed is told that it already ran, though the action may never have
  been taken; a token that cannot be read for a database error is called expired and
  its update confirmed; on the branch list of an existing subscription un-ticking
  the last branch brings back the ticks of the row; a Save of an old branch panel
  writes a filter to a subscription that meanwhile has releases only, where no
  screen shows it; no button leads to `sub.branch` and `sub.branch.selected` any
  more.
* Process. A handler that outlives the ten seconds of `Shutdown` meets a closed
  pool, which the comment at main.go 189-192 speaks of avoiding (`PoolOutlivesUsers`
  and `SpentForReason` excuse it, by `forced`). `ServerFails`
  may come after the second look at the channel; nobody reads that error any more, so
  `run()` may end clean, and `FailureReported` is about the earlier ones (`early`).
  The comment at migrations.go 52 has it
  that releasing the connection drops the lock: `pgxpool` keeps the session, so a
  server that refused the unlock and kept the connection would keep the lock until
  that is recycled; the model has an unlock fail with its session only. Two
  callbacks of one user may overlap; the last upsert wins, whichever link is the
  newer one.

## 7. Plan

1. `Outbox`, `Delivery` and their proofs: done.
2. `RateLimiter` and its proofs: done.
3. `Intake` with the cleanup, and its proofs: done.
4. `HookSync` and its proofs: done.
5. `PollLoop` with the callback tokens, and its proofs: done.
6. `Panels`, and its proofs: done.
7. `SendStages` under `Outbox`, with its proofs; `Filter` under `Intake`, checked
   and proved against the documentation: done.
8. `Migrations`, `Lifecycle` and `OAuth`, composed in `Process`, and its proofs:
   done.
9. `PresenceSettled` and `AutoPauseJustified` proved: done.
10. `Ledger`, `Inbox` and `Consent`, refined by the intake, the loop and the OAuth
    service, proved; the outbox theorems for any number of processes whose leases
    outlast their work, and the bound on sends without that: done.
11. `Pipeline`: `Intake`, `Outbox` and `HookSync` composed on shared tables. Open: a
    delivery answered "ok" ends as a message or a recorded failure, which today
    follows by hand from `AcceptedIsQueued` and `JobsSettle`; and the jobs of a
    subscription whose deletion failed (hazard at db.go 515).

## 8. Not modelled

Text and HTML rendering, translations, metrics, configuration, identifiers, the
sealer and the signature check keep no state and decide nothing the properties speak
of: the signature check is one way for `Check` to refuse. Of the clients, the calls
that only read are pure I/O; what a migration's script does to the schema is its
SQL. In the bot, lists and their pages, the language and the texts are left out.
Order by `retry_at` and back-off durations are abstracted with time, so nothing is
claimed about latency or fairness between jobs. SQL is taken at its word: each
statement is atomic and durable once committed.
