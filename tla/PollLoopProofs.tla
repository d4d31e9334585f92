--------------------------- MODULE PollLoopProofs ---------------------------
(***************************************************************************)
(* Theorems about the polling loop, for everything the users can send, any *)
(* number of retries and any number of stops.                              *)
(***************************************************************************)
EXTENDS PollLoop, TLAPS

\* The update a fetch starts with.
FirstOpen == IF offset > confirmed THEN offset ELSE confirmed

\* The update in hand is the first one not behind the loop, and its handler is
\* one for its kind.
InHand ==
  IF pc \in Handling
  THEN /\ cur = FirstOpen /\ cur <= last /\ last <= sent
       /\ pc = "touch" => Content[cur].kind # "ephemeral"
       /\ pc \in {"lookup", "consume", "act"} => Content[cur].kind = "press"
       /\ pc = "membership" => Content[cur].kind = "membership"
  ELSE cur = 0 /\ last = 0

\* An action is taken only after its token was consumed, once.
TakenWhenConsumed ==
  /\ \A t \in Tokens : taken[t] <= 1 /\ (row[t] # "consumed" => taken[t] = 0)
  /\ pc = "act" => row[Content[cur].token] = "consumed" /\ taken[Content[cur].token] = 0

\* All updates before k have been brought to an end.
SettledBefore(k) == \A u \in Updates : u < k => outcome[u] # "none"

OffsetsSettled == SettledBefore(confirmed) /\ SettledBefore(saved) /\ SettledBefore(offset)

\* What the process has brought to an end is behind its offset.
BehindOffset == \A u \in handledHere : u < offset

\* The retry counter belongs to the update a fetch starts with, and to the
\* running process.
CountsHead ==
  /\ pc = "down" => lastFailedUpdate = 0 /\ handledHere = {}
  /\ lastFailedUpdate # 0 => lastFailedUpdate = FirstOpen
  /\ lastFailedUpdate = 0 => failedRetries = 0
  /\ \A u \in Updates :
       u \notin handledHere
         => failedHere[u] = IF u = lastFailedUpdate THEN failedRetries ELSE 0

IInv ==
  /\ TypeOK
  /\ InHand
  /\ TakenWhenConsumed
  /\ OffsetsSettled
  /\ BehindOffset
  /\ CountsHead

----------------------------------------------------------------------------

LEMMA UpdateNumbers ==
  N \in Nat /\ Updates = 1..N /\ MaxRetries \in Nat /\ MaxStops \in Nat /\ Consumed \subseteq Tokens
BY PollLoopAssumption DEF N, Updates

LEMMA Kinds ==
  ASSUME NEW u \in Updates
  PROVE  /\ Content[u].kind \in {"press", "membership", "start", "ephemeral"}
         /\ Content[u].kind = "press" => Content[u].token \in Tokens
         /\ Content[u].kind = "membership" => Content[u].status \in Statuses
<1>1. Content[u] \in [kind : {"press"}, token : Tokens]
                      \cup [kind : {"membership"}, status : Statuses]
                      \cup [kind : {"start", "ephemeral"}]
  BY PollLoopAssumption, UpdateNumbers DEF Updates, N
<1>2. CASE Content[u] \in [kind : {"press"}, token : Tokens]
  BY <1>2
<1>3. CASE Content[u] \in [kind : {"membership"}, status : Statuses]
  BY <1>3
<1>4. CASE Content[u] \in [kind : {"start", "ephemeral"}]
  BY <1>4
<1> QED
  BY <1>1, <1>2, <1>3, <1>4

LEMMA InHandIsUpdate ==
  ASSUME TypeOK, InHand, pc \in Handling
  PROVE  cur \in Updates /\ cur >= offset /\ cur >= confirmed /\ cur \in Nat
BY UpdateNumbers DEF TypeOK, InHand, FirstOpen

LEMMA InitIInv == Init => IInv
<1> SUFFICES ASSUME Init
             PROVE  IInv
  OBVIOUS
<1>1. TypeOK
  <2>1. N \in Nat /\ MaxRetries \in Nat /\ MaxStops \in Nat
    BY UpdateNumbers
  <2>2. taken \in [Tokens -> Nat] /\ failedHere \in [Updates -> 0..MaxRetries + 1]
    BY <2>1 DEF Init
  <2>3. /\ row \in [Tokens -> {"fresh", "consumed", "expired"}]
        /\ outcome \in [Updates -> {"none", "handled", "dropped"}]
    BY DEF Init
  <2>4. /\ sent \in 0..N /\ confirmed \in 1..N + 1 /\ saved \in 0..N + 1 /\ offset \in 0..N + 1
        /\ cur \in 0..N /\ last \in 0..N /\ lastFailedUpdate \in 0..N
        /\ failedRetries \in 0..MaxRetries /\ stops \in 0..MaxStops
    BY <2>1 DEF Init
  <2> QED
    BY <2>2, <2>3, <2>4 DEF Init, TypeOK
<1>2. InHand /\ TakenWhenConsumed /\ BehindOffset
  BY DEF Init, InHand, Handling, TakenWhenConsumed, BehindOffset
<1>3. OffsetsSettled /\ CountsHead
  BY UpdateNumbers DEF Init, OffsetsSettled, SettledBefore, CountsHead
<1> QED
  BY <1>1, <1>2, <1>3 DEF IInv

----------------------------------------------------------------------------
\* Steps outside the handlers.

LEMMA OutsideIInv ==
  ASSUME IInv, Send \/ Stop \/ Start \/ \E t \in Tokens : Expire(t)
  PROVE  IInv'
<1> USE UpdateNumbers DEF IInv
<1>1. CASE Send
  <2>1. sent' = sent + 1 /\ sent' \in 0..N
        /\ UNCHANGED <<confirmed, tableVars, pc, batchVars, retryVars, historyVars>>
    BY <1>1 DEF Send, TypeOK
  <2>2. TypeOK'
    BY <2>1 DEF TypeOK, Handling, tableVars, batchVars, retryVars, historyVars
  <2>3. InHand'
    BY <2>1 DEF TypeOK, InHand, FirstOpen, Handling, batchVars
  <2>4. TakenWhenConsumed' /\ OffsetsSettled' /\ BehindOffset' /\ CountsHead'
    BY <2>1 DEF TakenWhenConsumed, OffsetsSettled, SettledBefore, BehindOffset, CountsHead, FirstOpen,
       tableVars, batchVars, retryVars, historyVars
  <2> QED
    BY <2>2, <2>3, <2>4
<1>2. CASE Stop
  BY <1>2 DEF Stop, TypeOK, InHand, FirstOpen, Handling, TakenWhenConsumed, OffsetsSettled,
     SettledBefore, BehindOffset, CountsHead, telegramVars, tableVars
<1>3. CASE Start
  BY <1>3 DEF Start, TypeOK, InHand, FirstOpen, Handling, TakenWhenConsumed, OffsetsSettled,
     SettledBefore, BehindOffset, CountsHead, telegramVars, tableVars, retryVars
<1>4. CASE \E t \in Tokens : Expire(t)
  <2> PICK t \in Tokens : Expire(t)
    BY <1>4
  <2>1. TypeOK' /\ InHand' /\ OffsetsSettled' /\ BehindOffset' /\ CountsHead'
    BY DEF Expire, TypeOK, InHand, FirstOpen, Handling, OffsetsSettled, SettledBefore, BehindOffset,
       CountsHead, telegramVars, batchVars, retryVars, historyVars
  <2>2. TakenWhenConsumed'
    BY DEF Expire, TypeOK, TakenWhenConsumed, batchVars, historyVars
  <2> QED
    BY <2>1, <2>2
<1> QED
  BY <1>1, <1>2, <1>3, <1>4

LEMMA GetUpdatesIInv ==
  ASSUME IInv, GetUpdates
  PROVE  IInv'
<1> USE UpdateNumbers DEF IInv
<1>1. /\ confirmed' = FirstOpen /\ FirstOpen' = FirstOpen /\ FirstOpen \in 1..N + 1
      /\ UNCHANGED <<sent, saved, row, presence, offset, retryVars, historyVars>>
  BY DEF GetUpdates, FirstOpen, TypeOK, tableVars
<1>2. CASE confirmed' <= sent /\ Begin(confirmed') /\ last' = sent
  <2>1. pc' \in {"touch", "reply"} /\ cur' = FirstOpen /\ cur' \in Updates
    BY <1>1, <1>2 DEF Begin, TypeOK
  <2>2. TypeOK'
    BY <1>1, <1>2, <2>1 DEF TypeOK, Handling, retryVars, historyVars
  <2>3. InHand'
    BY <1>1, <1>2, <2>1 DEF InHand, Begin, Handling, TypeOK
  <2>4. TakenWhenConsumed'
    BY <1>1, <2>1 DEF TakenWhenConsumed, historyVars
  <2>5. OffsetsSettled' /\ BehindOffset' /\ CountsHead'
    BY <1>1, <2>1 DEF OffsetsSettled, SettledBefore, BehindOffset, CountsHead, FirstOpen, historyVars,
       retryVars, TypeOK
  <2> QED
    BY <2>2, <2>3, <2>4, <2>5
<1>3. CASE UNCHANGED <<pc, cur, last>>
  <2>1. TypeOK' /\ InHand' /\ TakenWhenConsumed'
    BY <1>1, <1>3 DEF GetUpdates, TypeOK, InHand, Handling, TakenWhenConsumed, retryVars,
       historyVars
  <2>2. OffsetsSettled' /\ BehindOffset' /\ CountsHead'
    BY <1>1, <1>3 DEF OffsetsSettled, SettledBefore, BehindOffset, CountsHead, FirstOpen, historyVars,
       retryVars, TypeOK
  <2> QED
    BY <2>1, <2>2
<1> QED
  BY <1>2, <1>3 DEF GetUpdates

----------------------------------------------------------------------------
\* Steps of a handler.

LEMMA HandlerIInv ==
  ASSUME IInv, Touch \/ Lookup \/ Consume \/ Act \/ Membership \/ Reply
  PROVE  IInv'
<1> USE UpdateNumbers DEF IInv
<1>1. pc \in Handling
  BY DEF Touch, Lookup, Consume, Act, Membership, Reply, Handling
<1>2. cur \in Updates
  BY <1>1, InHandIsUpdate
<1>3. /\ Content[cur].kind \in {"press", "membership", "start", "ephemeral"}
      /\ Content[cur].kind = "press" => Content[cur].token \in Tokens
      /\ Content[cur].kind = "membership" => Content[cur].status \in Statuses
  BY <1>2, Kinds
<1>4. UNCHANGED <<sent, confirmed, saved, offset, cur, last, lastFailedUpdate, failedRetries,
                  stops, misread, outcome, handledHere, failedHere>>
  BY DEF Touch, Lookup, Consume, Act, Membership, Reply, Goto, telegramVars, tableVars, batchVars,
     retryVars, historyVars
<1>5. pc' \in Handling
  <2>1. CASE Touch
    BY <1>1, <1>3, <2>1 DEF Touch, Goto, AfterTouch, InHand, Handling
  <2> QED
    BY <2>1 DEF Lookup, Consume, Act, Membership, Reply, Goto, Handling
<1>6. TypeOK'
  <2>1. row' \in [Tokens -> {"fresh", "consumed", "expired"}]
    BY DEF Touch, Lookup, Consume, Marked, Act, Membership, Reply, tableVars, TypeOK
  <2>2. presence' \in Statuses \cup {"unknown"}
    BY <1>1, <1>3 DEF Touch, Lookup, Consume, Act, Membership, StatusAfter, Reply, tableVars,
       TypeOK, InHand
  <2>3. taken' \in [Tokens -> Nat]
    BY DEF Touch, Lookup, Consume, Act, Membership, Reply, Goto, historyVars, TypeOK
  <2> QED
    BY <1>4, <1>5, <2>1, <2>2, <2>3 DEF TypeOK
<1>7. InHand'
  <2>1. CASE Touch
    BY <1>1, <1>3, <1>4, <1>5, <2>1 DEF Touch, Goto, AfterTouch, InHand, FirstOpen
  <2>2. CASE Lookup
    BY <1>1, <1>4, <1>5, <2>2 DEF Lookup, Goto, InHand, FirstOpen
  <2>3. CASE Consume
    BY <1>1, <1>4, <1>5, <2>3 DEF Consume, Goto, InHand, FirstOpen
  <2>4. CASE Act \/ Membership \/ Reply
    BY <1>1, <1>4, <1>5, <2>4 DEF Act, Membership, Reply, Goto, InHand, FirstOpen
  <2> QED
    BY <2>1, <2>2, <2>3, <2>4
<1>8. TakenWhenConsumed'
  <2>1. CASE Touch \/ Lookup \/ Membership \/ Reply
    <3>1. UNCHANGED <<row, taken>> /\ pc' # "act"
      BY <1>3, <1>1, <2>1 DEF Touch, AfterTouch, Lookup, Membership, Reply, Goto, tableVars,
         historyVars, InHand
    <3> QED
      BY <3>1 DEF TakenWhenConsumed
  <2>2. CASE Consume
    <3>1. Content[cur].token \in Tokens /\ taken' = taken
      BY <1>1, <1>3, <2>2 DEF Consume, Goto, historyVars, InHand
    <3>2. CASE /\ row[Content[cur].token] = "fresh"
               /\ row' = [row EXCEPT ![Content[cur].token] = Marked(Content[cur].token)]
      BY <1>4, <3>1, <3>2 DEF Marked, TakenWhenConsumed, TypeOK
    <3>3. CASE UNCHANGED row /\ Goto("reply")
      BY <3>1, <3>3 DEF Goto, TakenWhenConsumed
    <3> QED
      BY <2>2, <3>2, <3>3 DEF Consume
  <2>3. CASE Act
    BY <1>1, <1>3, <2>3 DEF Act, tableVars, TakenWhenConsumed, TypeOK, InHand
  <2> QED
    BY <2>1, <2>2, <2>3
<1>9. OffsetsSettled' /\ BehindOffset' /\ CountsHead'
  BY <1>4, <1>5 DEF OffsetsSettled, SettledBefore, BehindOffset, CountsHead, FirstOpen, Handling
<1> QED
  BY <1>6, <1>7, <1>8, <1>9

----------------------------------------------------------------------------
\* Steps that end the handling of an update.

LEMMA RetryIInv ==
  ASSUME IInv, Retry
  PROVE  IInv'
<1> USE UpdateNumbers DEF IInv
<1>1. pc \in Handling /\ cur \in Updates /\ cur = FirstOpen /\ cur \in Nat
  BY InHandIsUpdate DEF Retry, Handling, InHand
<1>2. cur \notin handledHere
  BY <1>1, InHandIsUpdate DEF BehindOffset, TypeOK
<1>3. failedHere[cur] = IF cur = lastFailedUpdate THEN failedRetries ELSE 0
  BY <1>1, <1>2 DEF CountsHead
<1>4. failedHere' = [failedHere EXCEPT ![cur] = Failures] /\ Failures \in 0..MaxRetries
  <2>1. failedHere[cur] <= MaxRetries /\ failedHere[cur] \in Nat /\ Failures = failedHere[cur] + 1
    BY <1>3 DEF Failures, TypeOK
  <2>2. failedHere[cur] <= MaxRetries + 1 /\ Failures \in 0..MaxRetries
    BY <2>1 DEF Retry
  <2> QED
    BY <2>1, <2>2 DEF Retry, CountFailure
<1>5. TypeOK'
  BY <1>1, <1>4 DEF Retry, AfterFailure, ToPoll, TypeOK, telegramVars, tableVars
<1>6. InHand' /\ TakenWhenConsumed' /\ OffsetsSettled' /\ BehindOffset'
  BY <1>1 DEF Retry, AfterFailure, ToPoll, InHand, Handling, TakenWhenConsumed, OffsetsSettled,
     SettledBefore, BehindOffset, telegramVars, tableVars
<1>7. CountsHead'
  <2>1. /\ lastFailedUpdate' = cur /\ failedRetries' = Failures /\ pc' = "poll"
        /\ FirstOpen' = FirstOpen /\ handledHere' = handledHere
    BY DEF Retry, AfterFailure, ToPoll, telegramVars, FirstOpen
  <2>2. ASSUME NEW u \in Updates, u \notin handledHere, u # cur
        PROVE  failedHere'[u] = 0
    BY <1>1, <1>4, <2>2 DEF CountsHead, TypeOK
  <2>3. cur # 0 /\ failedHere'[cur] = Failures
    BY <1>1, <1>4 DEF TypeOK
  <2> QED
    BY <1>1, <2>1, <2>2, <2>3 DEF CountsHead
<1> QED
  BY <1>5, <1>6, <1>7

\* What Succeed and Drop have in common.
LEMMA AdvanceIInv ==
  ASSUME IInv, pc \in Handling, Advance,
         lastFailedUpdate' = 0, failedRetries' = 0,
         outcome' \in {[outcome EXCEPT ![cur] = o] : o \in {"handled", "dropped"}},
         handledHere' = handledHere \cup {cur},
         \A u \in Updates \ {cur} : failedHere'[u] = failedHere[u],
         failedHere' \in [Updates -> 0..MaxRetries + 1],
         UNCHANGED <<telegramVars, row, presence, stops, misread, taken>>
  PROVE  IInv'
<1> USE UpdateNumbers DEF IInv
<1>1. cur \in Updates /\ cur = FirstOpen /\ cur \in Nat /\ cur >= offset /\ cur >= confirmed
  BY InHandIsUpdate DEF InHand
<1>2. /\ offset' = cur + 1 /\ saved' \in {cur + 1, saved} /\ FirstOpen' = cur + 1
      /\ sent' = sent /\ confirmed' = confirmed
  BY <1>1 DEF Advance, OffsetAfter, FirstOpen, telegramVars, TypeOK
<1>3. \/ /\ cur < last /\ cur' = cur + 1 /\ last' = last /\ pc' \in {"touch", "reply"}
         /\ pc' = "touch" => Content[cur'].kind # "ephemeral"
      \/ cur = last /\ pc' = "poll" /\ cur' = 0 /\ last' = 0
  BY DEF Advance, Begin, ToPoll
<1>4. last \in Nat /\ last <= sent /\ cur <= last /\ sent \in Nat /\ sent <= N
  BY DEF InHand, TypeOK
<1>5. outcome' \in [Updates -> {"none", "handled", "dropped"}]
  BY <1>1 DEF TypeOK
<1>6. TypeOK'
  <2>1. saved' \in 0..N + 1 /\ offset' \in 0..N + 1 /\ cur' \in 0..N /\ last' \in 0..N
    <3>1. cur + 1 \in 0..N + 1 /\ N \in Nat /\ cur \in 0..N /\ last \in 0..N
      BY <1>1, <1>4
    <3>2. saved' \in 0..N + 1 /\ offset' \in 0..N + 1
      BY <1>2, <3>1 DEF TypeOK
    <3>3. CASE cur < last /\ cur' = cur + 1 /\ last' = last
      BY <3>1, <3>2, <3>3
    <3>4. CASE cur' = 0 /\ last' = 0
      BY <3>1, <3>2, <3>4
    <3> QED
      BY <1>3, <3>2, <3>3, <3>4
  <2>2. pc' \in {"poll"} \cup Handling
    BY <1>3 DEF Handling
  <2>3. /\ sent' \in 0..N /\ confirmed' \in 1..N + 1 /\ handledHere' \subseteq Updates
        /\ lastFailedUpdate' \in 0..N /\ failedRetries' \in 0..MaxRetries
    BY <1>1, <1>2 DEF TypeOK
  <2>4. /\ row' \in [Tokens -> {"fresh", "consumed", "expired"}]
        /\ presence' \in Statuses \cup {"unknown"} /\ stops' \in 0..MaxStops
        /\ misread' \in BOOLEAN /\ taken' \in [Tokens -> Nat]
    BY DEF TypeOK
  <2> QED
    BY <1>5, <2>1, <2>2, <2>3, <2>4 DEF TypeOK
<1>7. InHand'
  BY <1>1, <1>2, <1>3, <1>4 DEF InHand, Handling
<1>8. TakenWhenConsumed'
  BY <1>3 DEF TakenWhenConsumed
<1>9. OffsetsSettled'
  <2>1. SettledBefore(cur)
    BY <1>1 DEF OffsetsSettled, FirstOpen
  <2>2. \A u \in Updates : outcome'[u] # outcome[u] => outcome'[u] # "none"
    BY <1>1 DEF TypeOK
  <2>3. outcome'[cur] # "none"
    BY <1>1 DEF TypeOK
  <2>4. ASSUME NEW u \in Updates, u < cur + 1
        PROVE  outcome'[u] # "none"
    <3>1. CASE u = cur
      BY <2>3, <3>1
    <3>2. CASE u < cur
      BY <2>1, <2>2, <3>2 DEF SettledBefore
    <3> QED
      BY <1>1, <2>4, <3>1, <3>2
  <2>5. ASSUME NEW u \in Updates, u < saved \/ u < confirmed
        PROVE  outcome'[u] # "none"
    BY <2>2, <2>5 DEF OffsetsSettled, SettledBefore
  <2> QED
    BY <1>2, <2>4, <2>5 DEF OffsetsSettled, SettledBefore
<1>10. BehindOffset'
  BY <1>1, <1>2 DEF BehindOffset, TypeOK
<1>11. CountsHead'
  <2>1. ASSUME NEW u \in Updates, u \notin handledHere'
        PROVE  failedHere'[u] = 0
    <3>1. u \notin handledHere /\ u # cur /\ failedHere'[u] = failedHere[u]
      BY <2>1
    <3>2. u # lastFailedUpdate
      BY <1>1, <3>1 DEF CountsHead, TypeOK
    <3> QED
      BY <3>1, <3>2 DEF CountsHead
  <2> QED
    BY <1>3, <2>1 DEF CountsHead
<1> QED
  BY <1>6, <1>7, <1>8, <1>9, <1>10, <1>11

LEMMA EndIInv ==
  ASSUME IInv, Succeed \/ Drop
  PROVE  IInv'
<1> USE UpdateNumbers
<1>1. pc \in Handling
  BY DEF Succeed, Drop, Handling
<1>2. cur \in Updates /\ cur = FirstOpen
  BY <1>1, InHandIsUpdate DEF IInv, InHand
<1>3. Advance /\ handledHere' = handledHere \cup {cur}
      /\ UNCHANGED <<telegramVars, row, presence, stops, misread, taken>>
  BY DEF Succeed, Drop
<1>4. lastFailedUpdate' = 0 /\ failedRetries' = 0
  BY <1>2 DEF Succeed, Drop, IInv, CountsHead, retryVars
<1>5. outcome' \in {[outcome EXCEPT ![cur] = o] : o \in {"handled", "dropped"}}
  BY DEF Succeed, Drop
<1>6. /\ \A u \in Updates \ {cur} : failedHere'[u] = failedHere[u]
      /\ failedHere' \in [Updates -> 0..MaxRetries + 1]
  <2>1. CASE Succeed
    BY <2>1 DEF Succeed, IInv, TypeOK
  <2>2. CASE Drop
    <3>1. cur \notin handledHere
      BY <1>1, InHandIsUpdate DEF IInv, BehindOffset, TypeOK
    <3>2. failedHere[cur] \in 0..MaxRetries
      BY <1>2, <3>1 DEF IInv, CountsHead, TypeOK
    <3> QED
      BY <1>2, <2>2, <3>2 DEF Drop, CountFailure, IInv, TypeOK
  <2> QED
    BY <2>1, <2>2
<1> QED
  BY <1>1, <1>3, <1>4, <1>5, <1>6, AdvanceIInv

LEMMA NextIInv == IInv /\ [Next]_vars => IInv'
<1> SUFFICES ASSUME IInv, [Next]_vars
             PROVE  IInv'
  OBVIOUS
<1>1. CASE Send \/ Stop \/ Start \/ \E t \in Tokens : Expire(t)
  BY <1>1, OutsideIInv
<1>2. CASE GetUpdates
  BY <1>2, GetUpdatesIInv
<1>3. CASE Touch \/ Lookup \/ Consume \/ Act \/ Membership \/ Reply
  BY <1>3, HandlerIInv
<1>4. CASE Retry
  BY <1>4, RetryIInv
<1>5. CASE Succeed \/ Drop
  BY <1>5, EndIInv
<1>6. CASE UNCHANGED vars
  BY <1>6 DEF vars, telegramVars, tableVars, batchVars, retryVars, historyVars, IInv, TypeOK,
     InHand, FirstOpen, Handling, TakenWhenConsumed, OffsetsSettled, SettledBefore, BehindOffset,
     CountsHead
<1> QED
  BY <1>1, <1>2, <1>3, <1>4, <1>5, <1>6 DEF Next, Run

LEMMA Invariance == Spec => []IInv
BY InitIInv, NextIInv, PTL DEF Spec

----------------------------------------------------------------------------

\* All variables keep their type: the retry counter never exceeds
\* maxUpdateRetries (Run).
THEOREM TypeCorrect == Spec => []TypeOK
BY Invariance, PTL DEF IInv

\* The action behind a button is taken at most once, however often the tap is
\* delivered (dispatchCallback, ConsumeCallbackToken).
THEOREM ActionsRunOnce == Spec => []RunOnce
<1>1. IInv => RunOnce
  BY PollLoopAssumption DEF IInv, TakenWhenConsumed, RunOnce
<1> QED
  BY <1>1, Invariance, PTL

\* No update is skipped, whatever fails and whenever the process stops (Run).
THEOREM NoneSkipped == Spec => []NothingSkipped
<1>1. IInv => NothingSkipped
  <2> SUFFICES ASSUME IInv, NEW u \in Updates,
                      u < confirmed \/ u < saved \/ u < offset \/ u < cur
               PROVE  outcome[u] # "none"
    BY DEF NothingSkipped
  <2>1. CASE u < cur
    <3>1. cur = FirstOpen
      BY <2>1, UpdateNumbers DEF IInv, TypeOK, InHand
    <3> QED
      BY <2>1, <3>1 DEF FirstOpen, IInv, OffsetsSettled, SettledBefore
  <2> QED
    BY <2>1 DEF IInv, OffsetsSettled, SettledBefore
<1> QED
  BY <1>1, Invariance, PTL

\* A process handles an update to the end at most once (Run).
THEOREM OncePerProcess == Spec => []NeverTwiceHere
<1>1. IInv => NeverTwiceHere
  BY InHandIsUpdate DEF IInv, NeverTwiceHere, BehindOffset, TypeOK
<1> QED
  BY <1>1, Invariance, PTL

\* Updates are given up after exactly MaxRetries + 1 failures in one process (Run).
THEOREM DropsJustified == Spec => DropsAfterRetries
<1>1. ASSUME IInv, [Next]_vars, NEW u \in Updates,
             outcome'[u] = "dropped", u \notin handledHere, u \in handledHere'
      PROVE  failedHere'[u] = MaxRetries + 1
  <2>1. Succeed \/ Drop
    BY <1>1 DEF Next, Run, Send, Stop, Start, Expire, GetUpdates, Touch, Lookup, Consume, Act,
       Membership, Reply, Retry, Goto, vars, historyVars
  <2>2. u = cur
    BY <1>1, <2>1 DEF Succeed, Drop
  <2>3. Drop
    BY <1>1, <2>1, <2>2 DEF Succeed, IInv, TypeOK
  <2>4. failedHere[cur] = IF cur = lastFailedUpdate THEN failedRetries ELSE 0
    BY <1>1, <2>2 DEF IInv, CountsHead
  <2> QED
    BY <1>1, <2>2, <2>3, <2>4, PollLoopAssumption DEF Drop, Failures, CountFailure, IInv, TypeOK
<1>2. IInv /\ [Next]_vars =>
        [\A u \in Updates :
           outcome'[u] = "dropped" /\ u \notin handledHere /\ u \in handledHere'
             => failedHere'[u] = MaxRetries + 1]_vars
  BY <1>1
<1> QED
  BY <1>2, Invariance, PTL DEF Spec, DropsAfterRetries

----------------------------------------------------------------------------
\* What the bot knows of the group.

\* The update is behind the loop, or will be when it starts.
Passed(u) == u < confirmed \/ u < (IF pc = "down" THEN saved ELSE offset)

\* What has an outcome was sent.
OutcomesSent == \A u \in Updates : outcome[u] # "none" => u <= sent

\* A membership handler that is through has left its status.
Recorded ==
  /\ pc = "reply" => Content[cur].kind # "membership"
  /\ pc = "done" /\ Content[cur].kind = "membership" => presence = Content[cur].status

\* The stored offset is not ahead, and a last change that was handled is known as
\* soon as it is behind the loop, also while earlier ones are replayed.
LastKnown ==
  ~misread =>
    /\ pc # "down" => saved <= offset
    /\ \A u \in 1..sent :
         LastMembership(u) /\ outcome[u] = "handled" /\ Passed(u) => presence = Content[u].status

PInv == OutcomesSent /\ Recorded /\ LastKnown

LEMMA InitPInv == Init => PInv
BY UpdateNumbers DEF Init, PInv, OutcomesSent, Recorded, LastKnown, Passed

\* Steps that leave the tables and the outcomes alone.
LEMMA QuietPInv ==
  ASSUME IInv, PInv, Send \/ Stop \/ Start \/ GetUpdates \/ Retry \/ \E t \in Tokens : Expire(t)
  PROVE  PInv'
<1> USE UpdateNumbers DEF IInv
<1>1. UNCHANGED <<presence, outcome, saved>> /\ presence \in Statuses \cup {"unknown"}
  BY DEF Send, Stop, Start, GetUpdates, Retry, Expire, tableVars, historyVars, TypeOK
<1>2. OutcomesSent'
  BY <1>1 DEF PInv, OutcomesSent, Send, Stop, Start, GetUpdates, Retry, Expire, telegramVars, TypeOK
<1>3. Recorded'
  <2>1. CASE GetUpdates
    <3>1. CASE confirmed' <= sent /\ Begin(confirmed')
      BY <3>1 DEF Begin, Recorded
    <3> QED
      BY <1>1, <2>1, <3>1 DEF GetUpdates, PInv, Recorded
  <2> QED
    BY <1>1, <2>1 DEF PInv, Recorded, Send, Stop, Start, Retry, Expire, AfterFailure, ToPoll,
       batchVars
<1>4. (pc' # "down" /\ ~misread') => saved' <= offset'
  <2>1. CASE Start
    <3>1. ~misread' => offset' = saved
      BY <2>1 DEF Start
    <3>2. saved <= saved
      BY DEF TypeOK
    <3> QED
      BY <1>1, <3>1, <3>2
  <2>2. CASE Stop
    BY <2>2 DEF Stop
  <2>3. CASE Send \/ GetUpdates \/ Retry \/ \E t \in Tokens : Expire(t)
    <3>1. pc' # "down" => pc # "down"
      BY <2>3 DEF Send, GetUpdates, Retry, Expire
    <3>2. offset' = offset /\ misread' = misread
      BY <2>3 DEF Send, GetUpdates, Retry, Expire, AfterFailure, ToPoll, batchVars, historyVars
    <3> QED
      BY <1>1, <3>1, <3>2 DEF PInv, LastKnown
  <2> QED
    BY <2>1, <2>2, <2>3
<1>5. ASSUME ~misread', NEW u \in 1..sent', LastMembership(u)', outcome'[u] = "handled", Passed(u)'
      PROVE  presence' = Content[u].status
  <2>1. u \in Updates /\ u <= sent /\ sent \in Nat /\ sent' \in Nat /\ sent <= sent'
    BY <1>1, <1>5 DEF PInv, OutcomesSent, TypeOK, Send, Stop, Start, GetUpdates, Retry, Expire,
       telegramVars
  <2>2. LastMembership(u)
    BY <1>5, <2>1 DEF LastMembership
  <2>3. ~misread
    BY <1>5 DEF Send, Stop, Start, GetUpdates, Retry, Expire, historyVars
  <2>4. Passed(u)
    <3>1. CASE Send \/ Retry \/ \E t \in Tokens : Expire(t)
      BY <1>1, <1>5, <3>1 DEF Send, Retry, Expire, AfterFailure, ToPoll, Passed, telegramVars,
         batchVars
    <3>2. CASE Stop
      BY <1>1, <1>5, <2>1, <2>3, <3>2 DEF Stop, Passed, PInv, LastKnown, telegramVars, TypeOK
    <3>3. CASE Start
      BY <1>1, <1>5, <3>3 DEF Start, Passed, telegramVars
    <3>4. CASE GetUpdates
      <4>1. pc # "down" /\ pc' # "down" /\ offset' = offset
        BY <3>4 DEF GetUpdates, Begin
      <4> QED
        BY <1>5, <3>4, <4>1 DEF GetUpdates, Passed
    <3> QED
      BY <3>1, <3>2, <3>3, <3>4
  <2> QED
    BY <1>1, <1>5, <2>1, <2>2, <2>3, <2>4 DEF PInv, LastKnown
<1> QED
  BY <1>2, <1>3, <1>4, <1>5 DEF PInv, LastKnown

LEMMA HandlerPInv ==
  ASSUME IInv, PInv, Touch \/ Lookup \/ Consume \/ Act \/ Membership \/ Reply
  PROVE  PInv'
<1> USE UpdateNumbers DEF IInv
<1>1. pc \in Handling
  BY DEF Touch, Lookup, Consume, Act, Membership, Reply, Handling
<1>2. cur \in Updates /\ cur >= offset /\ cur >= confirmed /\ cur \in Nat /\ cur <= sent
  BY <1>1, InHandIsUpdate DEF InHand, TypeOK
<1>3. UNCHANGED <<sent, confirmed, saved, offset, cur, misread, outcome>>
  BY DEF Touch, Lookup, Consume, Act, Membership, Reply, Goto, telegramVars, tableVars, batchVars,
     historyVars
<1>4. pc # "down" /\ pc' # "down"
  <2>1. CASE Touch
    BY <1>1, <1>2, Kinds, <2>1 DEF Touch, Goto, AfterTouch, InHand, Handling
  <2> QED
    BY <1>1, <2>1 DEF Handling, Lookup, Consume, Act, Membership, Reply, Goto
<1>5. Recorded'
  <2>1. CASE Touch
    BY <1>1, <1>2, <1>3, Kinds, <2>1 DEF Touch, Goto, AfterTouch, InHand, Recorded
  <2>2. CASE Lookup \/ Consume \/ Act
    BY <1>1, <1>3, <2>2 DEF Lookup, Consume, Act, Goto, InHand, Recorded
  <2>3. CASE Membership
    BY <1>3, <2>3 DEF Membership, StatusAfter, Goto, Recorded
  <2>4. CASE Reply
    BY <1>3, <2>4 DEF Reply, Goto, PInv, Recorded
  <2> QED
    BY <2>1, <2>2, <2>3, <2>4
<1>6. ASSUME ~misread', NEW u \in 1..sent', LastMembership(u)', outcome'[u] = "handled", Passed(u)'
      PROVE  presence' = Content[u].status
  <2>1. u \in Nat /\ sent \in Nat /\ LastMembership(u) /\ Passed(u)
    BY <1>3, <1>4, <1>6 DEF LastMembership, Passed, TypeOK
  <2>2. presence = Content[u].status
    BY <1>3, <1>6, <2>1 DEF PInv, LastKnown
  <2>3. u < cur
    BY <1>2, <1>4, <2>1 DEF Passed, TypeOK
  <2>4. ~Membership
    BY <1>1, <1>2, <2>1, <2>3 DEF Membership, InHand, LastMembership
  <2> QED
    BY <2>2, <2>4 DEF Touch, Lookup, Consume, Act, Reply, tableVars
<1> QED
  BY <1>3, <1>4, <1>5, <1>6 DEF PInv, OutcomesSent, LastKnown

LEMMA EndPInv ==
  ASSUME IInv, PInv, Succeed \/ Drop
  PROVE  PInv'
<1> USE UpdateNumbers DEF IInv
<1>1. pc \in Handling /\ pc # "down"
  BY DEF Succeed, Drop, Handling
<1>2. /\ cur \in Updates /\ cur >= offset /\ cur >= confirmed /\ cur \in Nat /\ cur <= sent
      /\ cur = FirstOpen
  BY <1>1, InHandIsUpdate DEF InHand, TypeOK
<1>3. /\ UNCHANGED <<sent, confirmed, presence, misread>>
      /\ offset' = cur + 1 /\ saved' \in {cur + 1, saved}
      /\ \A u \in Updates \ {cur} : outcome'[u] = outcome[u]
      /\ outcome'[cur] = "handled" => pc = "done"
  BY <1>2 DEF Succeed, Drop, Advance, OffsetAfter, telegramVars, TypeOK
<1>4. pc' # "down" /\ pc' # "done" /\ (pc' = "reply" => Content[cur'].kind = "ephemeral")
  BY DEF Succeed, Drop, Advance, Begin, ToPoll
<1>5. OutcomesSent'
  BY <1>2, <1>3 DEF PInv, OutcomesSent
<1>6. ~misread' => saved' <= offset'
  BY <1>1, <1>2, <1>3 DEF PInv, LastKnown, TypeOK
<1>7. ASSUME ~misread', NEW u \in 1..sent', LastMembership(u)', outcome'[u] = "handled", Passed(u)'
      PROVE  presence' = Content[u].status
  <2>1. u \in Updates /\ u \in Nat /\ LastMembership(u)
    BY <1>3, <1>7 DEF LastMembership, TypeOK
  <2>2. CASE u = cur
    BY <1>3, <1>7, <2>1, <2>2 DEF LastMembership, PInv, Recorded
  <2>3. CASE u # cur
    <3>1. u < cur
      BY <1>2, <1>3, <1>4, <1>7, <2>1, <2>3 DEF Passed, TypeOK
    <3>2. Passed(u)
      BY <1>1, <1>2, <2>1, <3>1 DEF FirstOpen, Passed, TypeOK
    <3> QED
      BY <1>3, <1>7, <2>1, <2>3, <3>2 DEF PInv, LastKnown
  <2> QED
    BY <2>2, <2>3
<1> QED
  BY <1>4, <1>5, <1>6, <1>7 DEF PInv, Recorded, LastKnown

\* After every replay the bot knows whether it is in the group, unless the offset
\* could not be read (handleMyChatMember, loadOffset).
THEOREM PresenceKnown == Spec => []PresenceSettled
<1>1. IInv /\ PInv /\ [Next]_vars => PInv'
  <2> SUFFICES ASSUME IInv, PInv, [Next]_vars
               PROVE  PInv'
    OBVIOUS
  <2>1. CASE Send \/ Stop \/ Start \/ GetUpdates \/ Retry \/ \E t \in Tokens : Expire(t)
    BY <2>1, QuietPInv
  <2>2. CASE Touch \/ Lookup \/ Consume \/ Act \/ Membership \/ Reply
    BY <2>2, HandlerPInv
  <2>3. CASE Succeed \/ Drop
    BY <2>3, EndPInv
  <2>4. CASE UNCHANGED vars
    BY <2>4 DEF vars, telegramVars, tableVars, batchVars, historyVars, PInv, OutcomesSent, Recorded,
       LastKnown, LastMembership, Passed
  <2> QED
    BY <2>1, <2>2, <2>3, <2>4 DEF Next, Run
<1>2. IInv /\ PInv => PresenceSettled
  <2> SUFFICES ASSUME IInv, PInv, pc = "poll", offset = sent + 1, ~misread, NEW u \in 1..sent,
                      LastMembership(u), outcome[u] = "handled"
               PROVE  presence = Content[u].status
    BY DEF PresenceSettled
  <2>1. Passed(u)
    BY UpdateNumbers DEF IInv, TypeOK, Passed
  <2> QED
    BY <2>1 DEF PInv, LastKnown
<1> QED
  BY <1>1, <1>2, InitPInv, Invariance, PTL DEF Spec

----------------------------------------------------------------------------
\* The refinement of Inbox.

\* What the loop works on may be worked on: it is kept, and everything before it
\* has ended.
LEMMA HandlingIsOpen ==
  ASSUME IInv, pc \in Handling
  PROVE  cur \in Updates /\ Promise!Open(cur)
<1>1. cur \in Updates /\ cur \in Nat /\ confirmed <= cur /\ cur <= sent /\ cur = FirstOpen
  BY InHandIsUpdate, UpdateNumbers DEF IInv, TypeOK, InHand
<1>2. SettledBefore(cur)
  BY <1>1 DEF IInv, OffsetsSettled, FirstOpen
<1>3. ASSUME NEW v \in 1..cur - 1 PROVE outcome[v] # "none"
  <2>1. v \in Updates /\ v < cur
    BY <1>1, UpdateNumbers DEF IInv, TypeOK
  <2> QED BY <1>2, <2>1 DEF SettledBefore
<1> QED BY <1>1, <1>3 DEF Promise!Open, Promise!EndedBefore

LEMMA StepPromise ==
  ASSUME IInv, [Next]_vars
  PROVE  [Promise!Next]_(Promise!vars)
<1> USE UpdateNumbers
<1>1. CASE Send
  <2>1. Promise!Arrive
    BY <1>1 DEF Send, Promise!Arrive, N, tableVars, historyVars
  <2> QED BY <2>1 DEF Promise!Next
<1>2. CASE GetUpdates
  <2>1. UNCHANGED <<sent, outcome, taken, presence>>
    BY <1>2 DEF GetUpdates, tableVars, historyVars
  <2>2. CASE confirmed' = confirmed
    BY <2>1, <2>2 DEF Promise!vars
  <2>3. CASE confirmed' # confirmed
    <3>1. confirmed' = offset /\ confirmed < offset
      BY <1>2, <2>3 DEF GetUpdates
    <3>2. offset \in 1..N + 1
      BY <3>1 DEF IInv, TypeOK
    <3>3. ASSUME NEW v \in 1..offset - 1 PROVE outcome[v] # "none"
      <4>1. v \in Updates /\ v < offset
        BY <3>2
      <4> QED BY <4>1 DEF IInv, OffsetsSettled, SettledBefore
    <3>4. Promise!Forget(offset)
      BY <2>1, <3>1, <3>3 DEF Promise!Forget, Promise!EndedBefore
    <3> QED BY <3>2, <3>4 DEF Promise!Next, N
  <2> QED BY <2>2, <2>3
<1>3. CASE Act
  <2>1. cur \in Updates /\ Promise!Open(cur)
    BY <1>3, HandlingIsOpen DEF Act, Handling
  <2>2. Content[cur].kind = "press" /\ taken[Content[cur].token] = 0
    BY <1>3 DEF Act, IInv, InHand, Handling, TakenWhenConsumed
  <2>3. Content[cur].token \in Tokens
    BY <2>1, <2>2, Kinds
  <2>4. taken' = [taken EXCEPT ![Content[cur].token] = 1]
    BY <1>3, <2>2, <2>3 DEF Act, IInv, TypeOK
  <2>5. Promise!Take(cur)
    BY <1>3, <2>1, <2>2, <2>4 DEF Act, Promise!Take, telegramVars, tableVars
  <2> QED BY <2>1, <2>5 DEF Promise!Next, Updates
<1>4. CASE Membership
  <2>1. UNCHANGED <<sent, confirmed, outcome, taken>>
    BY <1>4 DEF Membership, Goto, telegramVars, historyVars
  <2>2. CASE presence' = presence
    BY <2>1, <2>2 DEF Promise!vars
  <2>3. CASE presence' # presence
    <3>1. presence' = Content[cur].status
      BY <1>4, <2>3 DEF Membership, StatusAfter
    <3>2. cur \in Updates /\ Promise!Open(cur)
      BY <1>4, HandlingIsOpen DEF Membership, Handling
    <3>3. Content[cur].kind = "membership"
      BY <1>4 DEF Membership, IInv, InHand, Handling
    <3>4. Promise!Notice(cur)
      BY <2>1, <3>1, <3>2, <3>3 DEF Promise!Notice
    <3> QED BY <3>2, <3>4 DEF Promise!Next, Updates
  <2> QED BY <2>2, <2>3
<1>5. CASE Succeed \/ Drop
  <2>1. cur \in Updates /\ Promise!Open(cur)
    BY <1>5, HandlingIsOpen DEF Succeed, Drop, Handling
  <2>2. /\ \E o \in {"handled", "dropped"} : outcome' = [outcome EXCEPT ![cur] = o]
        /\ UNCHANGED <<sent, confirmed, taken, presence>>
    BY <1>5 DEF Succeed, Drop, telegramVars
  <2>3. Promise!End(cur)
    BY <2>1, <2>2 DEF Promise!End
  <2> QED BY <2>1, <2>3 DEF Promise!Next, Updates
<1>6. CASE \/ Stop \/ Start \/ Touch \/ Lookup \/ Consume \/ Reply \/ Retry \/ UNCHANGED vars
           \/ \E t \in Tokens : Expire(t)
  BY <1>6 DEF Stop, Start, Touch, Lookup, Consume, Reply, Retry, Expire, Goto, vars, telegramVars,
     tableVars, historyVars, Promise!vars
<1> QED BY <1>1, <1>2, <1>3, <1>4, <1>5, <1>6 DEF Next, Run

\* The loop implements its inbox: replays, retries, lost offsets and stops never
\* end an update before its turn, touch one that Telegram has forgotten, or take
\* an action twice (Run, dispatchCallback).
THEOREM LoopImplementsInbox == Spec => ImplementsInbox
<1>1. Init => Promise!Init
  BY DEF Init, Promise!Init, Updates
<1>2. IInv /\ [Next]_vars => [Promise!Next]_(Promise!vars)
  BY StepPromise
<1> QED BY <1>1, <1>2, Invariance, PTL DEF Spec, ImplementsInbox, Promise!Spec

=============================================================================
