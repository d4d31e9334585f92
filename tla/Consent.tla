------------------------------- MODULE Consent --------------------------------
(***************************************************************************)
(* What the OAuth service promises of the links it hands out, without      *)
(* instances, handlers and rows: a link lapses unused or is spent, by one  *)
(* callback; for a spent link at most one code is sent to GitHub; and only *)
(* then it may make a connection, of the user it was made for, once.       *)
(***************************************************************************)
EXTENDS Naturals

CONSTANTS Links, Users, Owner, None

VARIABLES
  status,     \* "none", "open", "lapsed", "spent", "connected" or "failed"
  codes,      \* how many codes were sent to GitHub for a link
  connection  \* of each user: the link that made it

vars == <<status, codes, connection>>

Init ==
  /\ status = [l \in Links |-> "none"]
  /\ codes = [l \in Links |-> 0]
  /\ connection = [u \in Users |-> None]

Becomes(l, s) == status' = [status EXCEPT ![l] = s]

Offer(l) ==
  /\ status[l] = "none" /\ Becomes(l, "open")
  /\ UNCHANGED <<codes, connection>>

Close(l) ==
  /\ status[l] = "open"
  /\ Becomes(l, "lapsed") \/ Becomes(l, "spent")
  /\ UNCHANGED <<codes, connection>>

\* The answer may be an error, or lost.
SendCode(l) ==
  /\ status[l] = "spent" /\ codes[l] = 0
  /\ codes' = [codes EXCEPT ![l] = 1]
  /\ Becomes(l, "spent") \/ Becomes(l, "failed")
  /\ UNCHANGED connection

Connect(l) ==
  /\ status[l] = "spent" /\ codes[l] = 1
  /\ Becomes(l, "connected")
  /\ connection' = [connection EXCEPT ![Owner[l]] = l]
  /\ UNCHANGED codes

\* Links fail one by one, or together with the process that worked on them.
Fail(L) ==
  /\ \A l \in L : status[l] \in {"open", "spent"}
  /\ status' = [l \in Links |-> IF l \in L THEN "failed" ELSE status[l]]
  /\ UNCHANGED <<codes, connection>>

Next ==
  \/ \E l \in Links : Offer(l) \/ Close(l) \/ SendCode(l) \/ Connect(l)
  \/ \E L \in SUBSET Links : Fail(L)

Spec == Init /\ [][Next]_vars
=============================================================================
