------------------------------ MODULE MCProcess -------------------------------
EXTENDS Process, TLC

\* All links are those of one user.
OneOwner == [l \in Links |-> CHOOSE u \in Users : TRUE]
=============================================================================
