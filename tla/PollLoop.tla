------------------------------ MODULE PollLoop ------------------------------
(***************************************************************************)
(* The polling loop of the bot (Run in internal/bot/bot.go): updates are   *)
(* fetched from an offset, handled one after the other, retried when their *)
(* handler fails, given up after maxUpdateRetries retries, and confirmed   *)
(* to Telegram by the offset of the next fetch.  The offset is stored      *)
(* after every update and read when the process starts.                    *)
(*                                                                         *)
(* Handlers are modelled by the statements that outlive them: a button     *)
(* with a callback token (dispatchCallback), the membership of the bot in  *)
(* a group (handleMyChatMember), /start and its ephemeral form in groups.  *)
(* Every statement may fail, and a statement reported as failed may have   *)
(* been executed.  What a token's action does is the subject of HookSync;  *)
(* here an action counts how often it was taken.  There is one process at  *)
(* a time: Telegram serves one poller per bot.                             *)
(***************************************************************************)
EXTENDS Naturals, Sequences

CONSTANTS
  Content,     \* what the users send, in the order Telegram numbers it
  Tokens,      \* callback tokens of the buttons on screen
  Consumed,    \* those whose action isConsumedAction reports as run once
  MaxRetries,  \* maxUpdateRetries
  MaxStops     \* bound: times the process stops

Statuses == {"member", "left"}
Updates == DOMAIN Content
N == Len(Content)

ASSUME PollLoopAssumption ==
  /\ Content \in Seq([kind : {"press"}, token : Tokens]
                     \cup [kind : {"membership"}, status : Statuses]
                     \cup [kind : {"start", "ephemeral"}])
  /\ Consumed \subseteq Tokens
  /\ MaxRetries \in Nat /\ MaxStops \in Nat

VARIABLES
  \* Telegram
  sent,        \* updates sent so far
  confirmed,   \* the first update Telegram still keeps
  \* runtime_state, callback_tokens and chat_state
  saved,       \* telegram_update_offset, 0 without a row
  row,
  presence,    \* bot_status of the group
  \* Run
  pc,
  offset,
  cur, last,   \* the update in hand and the last one of its batch
  lastFailedUpdate, failedRetries,
  \* history
  stops,
  misread,     \* loadOffset once missed the stored offset
  taken,       \* times the action of a token was taken
  outcome,     \* how an update ended the last time it was handled to the end
  handledHere, \* updates this process handled to the end
  failedHere   \* failures of an update in this process

telegramVars == <<sent, confirmed>>
tableVars == <<saved, row, presence>>
batchVars == <<offset, cur, last>>
retryVars == <<lastFailedUpdate, failedRetries>>
historyVars == <<stops, misread, taken, outcome, handledHere, failedHere>>
vars == <<telegramVars, tableVars, pc, batchVars, retryVars, historyVars>>

\* Where Run is with the update in hand.
Handling == {"touch", "lookup", "consume", "act", "membership", "reply", "done", "failed"}

TypeOK ==
  /\ sent \in 0..N
  /\ confirmed \in 1..N + 1
  /\ saved \in 0..N + 1
  /\ row \in [Tokens -> {"fresh", "consumed", "expired"}]
  /\ presence \in Statuses \cup {"unknown"}
  /\ pc \in {"down", "poll"} \cup Handling
  /\ offset \in 0..N + 1
  /\ cur \in 0..N /\ last \in 0..N
  /\ lastFailedUpdate \in 0..N
  /\ failedRetries \in 0..MaxRetries
  /\ stops \in 0..MaxStops
  /\ misread \in BOOLEAN
  /\ taken \in [Tokens -> Nat]
  /\ outcome \in [Updates -> {"none", "handled", "dropped"}]
  /\ handledHere \subseteq Updates
  /\ failedHere \in [Updates -> 0..MaxRetries + 1]

Init ==
  /\ sent = 0 /\ confirmed = 1
  /\ saved = 0
  /\ row = [t \in Tokens |-> "fresh"]
  /\ presence = "unknown"
  /\ pc = "down"
  /\ offset = 0 /\ cur = 0 /\ last = 0
  /\ lastFailedUpdate = 0 /\ failedRetries = 0
  /\ stops = 0 /\ misread = FALSE
  /\ taken = [t \in Tokens |-> 0]
  /\ outcome = [u \in Updates |-> "none"]
  /\ handledHere = {}
  /\ failedHere = [u \in Updates |-> 0]

----------------------------------------------------------------------------
\* Users, Telegram and time

Send ==
  /\ sent < N
  /\ sent' = sent + 1
  /\ UNCHANGED <<confirmed, tableVars, pc, batchVars, retryVars, historyVars>>

\* expires_at passes.
Expire(t) ==
  /\ row[t] = "fresh"
  /\ row' = [row EXCEPT ![t] = "expired"]
  /\ UNCHANGED <<telegramVars, saved, presence, pc, batchVars, retryVars, historyVars>>

\* A crash, or a shutdown: the handler in hand fails and Run returns.
Stop ==
  /\ pc # "down" /\ stops < MaxStops
  /\ pc' = "down"
  /\ offset' = 0 /\ cur' = 0 /\ last' = 0
  /\ lastFailedUpdate' = 0 /\ failedRetries' = 0
  /\ stops' = stops + 1
  /\ handledHere' = {}
  /\ failedHere' = [u \in Updates |-> 0]
  /\ UNCHANGED <<telegramVars, tableVars, misread, taken, outcome>>

----------------------------------------------------------------------------
\* Polling

\* loadOffset; Run goes on with 0 when it fails.
Start ==
  /\ pc = "down"
  /\ offset' \in {saved, 0}
  /\ pc' = "poll"
  /\ misread' = (misread \/ offset' # saved)
  /\ UNCHANGED <<telegramVars, tableVars, cur, last, retryVars, stops, taken, outcome,
                 handledHere, failedHere>>

\* An ephemeral /start is answered before the user is recorded.
Begin(u) ==
  /\ cur' = u
  /\ pc' = IF Content[u].kind = "ephemeral" THEN "reply" ELSE "touch"

\* A fetch confirms all updates below its offset, also when its answer is lost.
GetUpdates ==
  /\ pc = "poll"
  /\ confirmed' = IF offset > confirmed THEN offset ELSE confirmed
  /\ \/ /\ confirmed' <= sent
        /\ Begin(confirmed')
        /\ last' = sent
     \/ UNCHANGED <<pc, cur, last>>
  /\ UNCHANGED <<sent, tableVars, offset, retryVars, historyVars>>

----------------------------------------------------------------------------
\* Handling the update in hand

Goto(location) ==
  /\ pc' = location
  /\ UNCHANGED <<telegramVars, batchVars, retryVars, historyVars>>

AfterTouch == [press |-> "lookup", membership |-> "membership", start |-> "reply"]

\* upsertUser, the first statement of handleMessage, handleMyChatMember and
\* handleCallback.
Touch ==
  /\ pc = "touch"
  /\ Goto(AfterTouch[Content[cur].kind]) \/ Goto("failed")
  /\ UNCHANGED tableVars

\* GetCallbackToken; a token that cannot be read is called expired.
Lookup ==
  /\ pc = "lookup"
  /\ \/ /\ row[Content[cur].token] = "fresh"
        /\ Content[cur].token \in Consumed
        /\ Goto("consume")
     \/ Goto("reply")
  /\ UNCHANGED tableVars

\* Mutant: the token is read a second time and not marked.
MarkedNever(t) == row[t]

\* The row of a token after SET consumed_at.
Marked(t) == "consumed"

\* ConsumeCallbackToken; an error is told as "already ran".
Consume ==
  /\ pc = "consume"
  /\ \/ /\ row[Content[cur].token] = "fresh"
        /\ row' = [row EXCEPT ![Content[cur].token] = Marked(Content[cur].token)]
        /\ Goto("act") \/ Goto("reply")
     \/ UNCHANGED row /\ Goto("reply")
  /\ UNCHANGED <<saved, presence>>

\* handleToken of a consumed action, whatever comes of it: a failure is
\* reported to the user like a success.
Act ==
  /\ pc = "act"
  /\ taken' = [taken EXCEPT ![Content[cur].token] = @ + 1]
  /\ pc' = "reply"
  /\ UNCHANGED <<telegramVars, tableVars, batchVars, retryVars, stops, misread, outcome,
                 handledHere, failedHere>>

\* Mutant: ON CONFLICT (chat_id) DO NOTHING.
StatusAfterFirst(u) == IF presence = "unknown" THEN Content[u].status ELSE presence

\* The row of the group after the upsert.
StatusAfter(u) == Content[u].status

\* UpsertChatState
Membership ==
  /\ pc = "membership"
  /\ \/ /\ presence' = StatusAfter(cur)
        /\ Goto("done") \/ Goto("failed")
     \/ UNCHANGED presence /\ Goto("failed")
  /\ UNCHANGED <<saved, row>>

\* Showing the screen the update asks for.
Reply ==
  /\ pc = "reply"
  /\ Goto("done") \/ Goto("failed")
  /\ UNCHANGED tableVars

----------------------------------------------------------------------------
\* Going on

ToPoll == pc' = "poll" /\ cur' = 0 /\ last' = 0

\* Mutant: the offset moves on only once it is stored.
OffsetStored == saved'

\* The offset after the update in hand.
OffsetAfter == cur + 1

\* The update is behind us: the offset moves on and is stored, if it can be.
\* (Telegram sends nothing below the offset, so it never moves back.)
Advance ==
  /\ saved' \in {cur + 1, saved}
  /\ offset' = OffsetAfter
  /\ \/ cur < last /\ Begin(cur + 1) /\ UNCHANGED last
     \/ cur = last /\ ToPoll

Succeed ==
  /\ pc = "done"
  /\ IF cur = lastFailedUpdate
     THEN lastFailedUpdate' = 0 /\ failedRetries' = 0
     ELSE UNCHANGED retryVars
  /\ Advance
  /\ outcome' = [outcome EXCEPT ![cur] = "handled"]
  /\ handledHere' = handledHere \cup {cur}
  /\ UNCHANGED <<telegramVars, row, presence, stops, misread, taken, failedHere>>

\* Mutant: the count starts with the first retry.
FailuresFromZero == IF cur = lastFailedUpdate THEN failedRetries + 1 ELSE 0

\* Mutant: a fetch forgets the count.
FailuresForgotten == 1

\* The failures of the update in a row, counting this one.
Failures == IF cur = lastFailedUpdate THEN failedRetries + 1 ELSE 1

\* Mutant: the loop goes on with the rest of the batch.
RestOfBatch ==
  \/ cur < last /\ Begin(cur + 1) /\ UNCHANGED last
  \/ cur = last /\ ToPoll

\* History; no count beyond one too many.
CountFailure ==
  failedHere' = [failedHere EXCEPT ![cur] = IF @ <= MaxRetries + 1 THEN @ + 1 ELSE @]

\* break
AfterFailure == ToPoll

\* Leave the update unconfirmed and the rest of the batch alone.
Retry ==
  /\ pc = "failed"
  /\ Failures <= MaxRetries
  /\ lastFailedUpdate' = cur /\ failedRetries' = Failures
  /\ AfterFailure
  /\ CountFailure
  /\ UNCHANGED <<telegramVars, tableVars, offset, stops, misread, taken, outcome, handledHere>>

Drop ==
  /\ pc = "failed"
  /\ Failures > MaxRetries
  /\ lastFailedUpdate' = 0 /\ failedRetries' = 0
  /\ Advance
  /\ outcome' = [outcome EXCEPT ![cur] = "dropped"]
  /\ handledHere' = handledHere \cup {cur}
  /\ CountFailure
  /\ UNCHANGED <<telegramVars, row, presence, stops, misread, taken>>

\* The steps of a running process.
Run ==
  \/ GetUpdates
  \/ Touch \/ Lookup \/ Consume \/ Act \/ Membership \/ Reply
  \/ Succeed \/ Retry \/ Drop

Next ==
  \/ Send \/ Stop \/ Start \/ Run
  \/ \E t \in Tokens : Expire(t)

Spec == Init /\ [][Next]_vars

\* The container is restarted, and the loop goes on whatever fails: no
\* statement and no answer to a user has to succeed, but a fetch does.
FairSpec == Spec /\ WF_vars(Start) /\ WF_vars(Run)

----------------------------------------------------------------------------
\* Properties

\* The action of a consumed token is taken at most once, however often its
\* button is tapped and however often Telegram sends a tap again because the
\* handler failed or the process stopped (ConsumeCallbackToken).
RunOnce == \A t \in Consumed : taken[t] <= 1

\* No update is skipped: whatever Telegram has forgotten, the stored offset and
\* the offset in memory have passed, or a handler begins after, was handled or
\* dropped before (Run stores the offset after the handler returns, and leaves
\* the batch at the first failure).
NothingSkipped ==
  \A u \in Updates :
    u < confirmed \/ u < saved \/ u < offset \/ u < cur => outcome[u] # "none"

\* A process never handles an update again that it has brought to an end, not
\* even when the offset could not be stored.
NeverTwiceHere == pc \in Handling => cur \notin handledHere

\* An update is given up only after one attempt and MaxRetries retries of it
\* failed in the same process; failures of other updates do not count.
DropsAfterRetries ==
  [][\A u \in Updates :
       outcome'[u] = "dropped" /\ u \notin handledHere /\ u \in handledHere'
         => failedHere'[u] = MaxRetries + 1]_vars

\* No later update than u is about the membership.
LastMembership(u) ==
  /\ Content[u].kind = "membership"
  /\ \A v \in u + 1..sent : Content[v].kind # "membership"

\* Once all updates are behind it, the bot knows whether it is in the group,
\* although updates are replayed after a restart (handleMyChatMember).  Excused
\* are a last change that was dropped, and a start that could not read the
\* offset: it replays from the first update Telegram still keeps, and the next
\* start, finding the old offset, may jump over the rest of the replay.
PresenceSettled ==
  pc = "poll" /\ offset = sent + 1 /\ ~misread =>
    \A u \in 1..sent :
      LastMembership(u) /\ outcome[u] = "handled" => presence = Content[u].status

\* The loop implements the promise of module Inbox: whatever fails, stops or is
\* sent again, updates end in their order, have their effects while Telegram keeps
\* them, and are confirmed after their end (Run, dispatchCallback).
Promise == INSTANCE Inbox WITH arrived <- sent, kept <- confirmed

ImplementsInbox == Promise!Spec

\* A poison update cannot stall the loop: every update is confirmed in the end,
\* although each attempt to handle it may fail and the process may be restarted
\* in between (comment at bot.go 119-124).
UpdatesSettle == \A u \in Updates : (u <= sent) ~> (u < confirmed)

=============================================================================
