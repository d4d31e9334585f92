-------------------------------- MODULE OAuth ---------------------------------
(***************************************************************************)
(* The OAuth service (internal/oauth/service.go): the links the bot hands  *)
(* out, each with a state in the database, and the callbacks that GitHub   *)
(* sends the browser to, served by any instance, any number of times.      *)
(*                                                                         *)
(* Handlers run under the context of their request: a signal does not      *)
(* cancel them, a closed connection may.  Calls are the goroutines serving *)
(* callbacks.                                                              *)
(***************************************************************************)
EXTENDS Lifecycle

CONSTANTS
  Links,  \* random state values
  Users,
  Owner,  \* the user a link is made for
  Calls   \* goroutines serving callbacks

ASSUME OAuthAssumption ==
  /\ Owner \in [Links -> Users]
  /\ None \notin Links

VARIABLES
  state,      \* rows of oauth_states, as to their presence and age
  connection, \* rows of github_connections: the link that made them
  stage,      \* where each handler is
  link,       \* the state in its request
  host,       \* the instance it runs in
  exchanged,  \* history: links for which a code was sent to GitHub
  reused,     \* history: the same, more than once
  fate        \* history: what became of the link once it was consumed

oauthVars ==
  <<state, connection, stage, link, host, exchanged, reused, fate>>

Stages == {"idle", "consume", "github", "store", "answer"}

OAuthTypeOK ==
  /\ state \in [Links -> {"none", "live", "expired", "absent"}]
  /\ connection \in [Users -> {None} \cup Links]
  /\ stage \in [Calls -> Stages]
  /\ link \in [Calls -> {None} \cup Links]
  /\ host \in [Calls -> {None} \cup Instances]
  /\ exchanged \in SUBSET Links
  /\ reused \in SUBSET Links
  /\ fate \in [Links -> {"none", "pending", "stored", "excused"}]

OAuthInit ==
  /\ state = [l \in Links |-> "none"]
  /\ connection = [u \in Users |-> None]
  /\ stage = [c \in Calls |-> "idle"]
  /\ link = [c \in Calls |-> None]
  /\ host = [c \in Calls |-> None]
  /\ exchanged = {}
  /\ reused = {}
  /\ fate = [l \in Links |-> "none"]

At(i) == {c \in Calls : host[c] = i}
Busy(i) == At(i) # {}

\* Handlers are over: their slots are free.
Leave(C) ==
  /\ stage' = [c \in Calls |-> IF c \in C THEN "idle" ELSE stage[c]]
  /\ link' = [c \in Calls |-> IF c \in C THEN None ELSE link[c]]
  /\ host' = [c \in Calls |-> IF c \in C THEN None ELSE host[c]]

Go(c, s) ==
  /\ stage' = [stage EXCEPT ![c] = s]
  /\ UNCHANGED <<link, host>>

\* The bot draws a button with a fresh link.
CreateAuthURL(i, l) ==
  /\ Works(i)
  /\ state[l] = "none"
  /\ state' = [state EXCEPT ![l] = "live"]
  /\ UNCHANGED <<connection, stage, link, host, exchanged, reused, fate>>

\* Fifteen minutes pass.
Expire(l) ==
  /\ state[l] = "live"
  /\ state' = [state EXCEPT ![l] = "expired"]
  /\ UNCHANGED <<connection, stage, link, host, exchanged, reused, fate>>

\* The first statement of CleanupExpired.
CleanStates(i) ==
  /\ Works(i)
  /\ state' = [l \in Links |-> IF state[l] = "expired" THEN "absent" ELSE state[l]]
  /\ UNCHANGED <<connection, stage, link, host, exchanged, reused, fate>>

\* The browser comes back with a code, or is reloaded.
Callback(c, i, l) ==
  /\ Serves(i)
  /\ stage[c] = "idle" /\ state[l] # "none"
  /\ stage' = [stage EXCEPT ![c] = "consume"]
  /\ link' = [link EXCEPT ![c] = l]
  /\ host' = [host EXCEPT ![c] = i]
  /\ UNCHANGED <<state, connection, exchanged, reused, fate>>

\* Mutant: the state is read and left in the table.
ReadsState(l) == UNCHANGED state

\* The row is deleted and returned in one statement.
DeletesState(l) == state' = [state EXCEPT ![l] = "absent"]

Becomes(l, f) == fate' = [fate EXCEPT ![l] = f]

Consume(c) ==
  /\ stage[c] = "consume" /\ HasPool(host[c]) /\ state[link[c]] = "live"
  /\ DeletesState(link[c])
  /\ Becomes(link[c], "pending")
  /\ Go(c, "github")
  /\ UNCHANGED <<connection, exchanged, reused>>

\* "expired or invalid OAuth state"
Refused(c) ==
  /\ stage[c] = "consume" /\ HasPool(host[c]) /\ state[link[c]] # "live"
  /\ Leave({c})
  /\ UNCHANGED <<state, connection, exchanged, reused, fate>>

SendCode(c) ==
  /\ exchanged' = exchanged \cup {link[c]}
  /\ reused' = reused \cup (exchanged \cap {link[c]})

\* The code becomes a token, the token a user, and the token is encrypted.
Exchange(c) ==
  /\ stage[c] = "github"
  /\ SendCode(c)
  /\ Go(c, "store")
  /\ UNCHANGED <<state, connection, fate>>

Upsert(c) ==
  /\ connection' = [connection EXCEPT ![Owner[link[c]]] = link[c]]
  /\ Becomes(link[c], "stored")

UpsertGitHubConnection(c) ==
  /\ stage[c] = "store" /\ HasPool(host[c])
  /\ Upsert(c)
  /\ Go(c, "answer")
  /\ UNCHANGED <<state, exchanged, reused>>

\* The greeting in Telegram, which may fail unnoticed, and the page.
Answer(c) ==
  /\ stage[c] = "answer"
  /\ Leave({c})
  /\ UNCHANGED <<state, connection, exchanged, reused, fate>>

\* An error at any step: the page says so, and the link is not given back.  A
\* statement or a call may have taken effect before it failed.
ConsumeFails(c) ==
  /\ stage[c] = "consume"
  /\ Leave({c})
  /\ \/ UNCHANGED <<state, fate>>
     \/ /\ HasPool(host[c]) /\ state[link[c]] = "live"
        /\ DeletesState(link[c])
        /\ Becomes(link[c], "excused")
  /\ UNCHANGED <<connection, exchanged, reused>>

GitHubFails(c) ==
  /\ stage[c] = "github"
  /\ Leave({c})
  /\ SendCode(c) \/ UNCHANGED <<exchanged, reused>>
  /\ Becomes(link[c], "excused")
  /\ UNCHANGED <<state, connection>>

StoreFails(c) ==
  /\ stage[c] = "store"
  /\ Leave({c})
  /\ \/ HasPool(host[c]) /\ Upsert(c)
     \/ Becomes(link[c], "excused") /\ UNCHANGED connection
  /\ UNCHANGED <<state, exchanged, reused>>

\* The process ends and takes its handlers with it, with an excuse or without.
CutOff(i, excused) ==
  /\ Leave(At(i))
  /\ fate' = [l \in Links |->
       IF excused /\ \E c \in At(i) : link[c] = l /\ stage[c] \in {"github", "store"}
       THEN "excused" ELSE fate[l]]
  /\ UNCHANGED <<state, connection, exchanged, reused>>
=============================================================================
