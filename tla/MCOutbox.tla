------------------------------ MODULE MCOutbox ------------------------------
(* Instances of Outbox for TLC; jobs and chats are interchangeable. *)
EXTENDS Outbox, TLC

Interchangeable == Permutations(Jobs) \cup Permutations(Chats)
=============================================================================
