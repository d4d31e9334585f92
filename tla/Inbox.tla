-------------------------------- MODULE Inbox --------------------------------
(***************************************************************************)
(* What the polling loop promises of updates, without processes, offsets,  *)
(* batches and retries: an update is brought to an end only after every    *)
(* one before it, leaves its effects only while it is kept, takes the      *)
(* action of a token at most once, and is forgotten only after its end.    *)
(***************************************************************************)
EXTENDS Naturals, Sequences

CONSTANTS Content, Tokens

VARIABLES
  arrived,   \* updates that were sent
  kept,      \* the first update that is not forgotten
  outcome,   \* of each update: "none", "handled" or "dropped"
  taken,     \* times the action of a token was taken
  presence   \* what is known of the bot's membership

vars == <<arrived, kept, outcome, taken, presence>>

Init ==
  /\ arrived = 0 /\ kept = 1
  /\ outcome = [u \in DOMAIN Content |-> "none"]
  /\ taken = [t \in Tokens |-> 0]
  /\ presence = "unknown"

EndedBefore(u) == \A v \in 1..u - 1 : outcome[v] # "none"

\* The update may be handled, for the first time or again.
Open(u) == kept <= u /\ u <= arrived /\ EndedBefore(u)

Arrive ==
  /\ arrived < Len(Content)
  /\ arrived' = arrived + 1
  /\ UNCHANGED <<kept, outcome, taken, presence>>

Take(u) ==
  /\ Open(u) /\ Content[u].kind = "press" /\ taken[Content[u].token] = 0
  /\ taken' = [taken EXCEPT ![Content[u].token] = 1]
  /\ UNCHANGED <<arrived, kept, outcome, presence>>

Notice(u) ==
  /\ Open(u) /\ Content[u].kind = "membership"
  /\ presence' = Content[u].status
  /\ UNCHANGED <<arrived, kept, outcome, taken>>

End(u) ==
  /\ Open(u)
  /\ \E o \in {"handled", "dropped"} : outcome' = [outcome EXCEPT ![u] = o]
  /\ UNCHANGED <<arrived, kept, taken, presence>>

Forget(k) ==
  /\ kept < k /\ EndedBefore(k)
  /\ kept' = k
  /\ UNCHANGED <<arrived, outcome, taken, presence>>

Next ==
  \/ Arrive
  \/ \E u \in DOMAIN Content : Take(u) \/ Notice(u) \/ End(u)
  \/ \E k \in 1..Len(Content) + 1 : Forget(k)

Spec == Init /\ [][Next]_vars
=============================================================================
