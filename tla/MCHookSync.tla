----------------------------- MODULE MCHookSync -----------------------------
EXTENDS HookSync, TLC

\* Lists that overlap, one of them without events on branches, and none.
Overlapping == {{}, {"release"}, {"release", "push"}}
OnlyPush == {{"push"}}
Push == {"push"}

\* Subscriptions, and chats, differ in nothing but their name.
Interchangeable == Permutations(Subs) \cup Permutations(Chats)
=============================================================================
