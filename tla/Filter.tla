------------------------------- MODULE Filter --------------------------------
(***************************************************************************)
(* What internal/webhooks/events.go makes of a payload and of the settings *)
(* of a subscription: pure functions.                                      *)
(*                                                                         *)
(* A payload keeps the fields the verdict depends on; a branch is any      *)
(* value but NoName, the empty string of a field GitHub left out.          *)
(***************************************************************************)
EXTENDS Naturals

CONSTANT NoName

AllActions == {"opened", "merged", "closed"}

Event(type, p) ==
  [type |-> type, branch |-> p.branch, default |-> p.default, action |-> p.action,
   merged |-> p.merged, prerelease |-> p.prerelease]

\* A parser returns the one event of a payload, or none.

\* A push of a tag, a deletion, and a push without commits are none.
ParsePush(p) ==
  IF p.deleted \/ p.refKind # "heads" \/ p.commits = 0
  THEN {}
  ELSE {Event("push", [p EXCEPT !.action = "", !.merged = FALSE, !.prerelease = FALSE])}

\* The branch is the one the pull request goes into; every action is an event.
ParsePullRequest(p) == {Event("pull_request", [p EXCEPT !.prerelease = FALSE])}

\* Of a release only its publication counts.
ParseRelease(p) ==
  IF p.action # "published" THEN {} ELSE {Event("release", [p EXCEPT !.merged = FALSE])}

ParseEvent(name, p) ==
  CASE name = "push" -> ParsePush(p)
    [] name = "pull_request" -> ParsePullRequest(p)
    [] name = "release" -> ParseRelease(p)
    [] OTHER -> {}

DefaultBranch(f, e) == IF f.default = NoName THEN e.default ELSE f.default

MatchesBranch(f, e) ==
  \/ f.branchMode \in {"all", ""}
  \/ f.branchMode = "default" /\ e.branch = DefaultBranch(f, e)
  \/ f.branchMode = "selected" /\ e.branch \in f.branches

\* No action means every action; of the others the known ones count.
NormalizePullRequestActions(actions) ==
  IF actions = {} THEN AllActions ELSE actions \cap AllActions

MatchesPullRequestAction(actions, e) ==
  LET allowed == NormalizePullRequestActions(actions)
  IN  \/ "opened" \in allowed /\ e.action \in {"opened", "reopened"}
      \/ "merged" \in allowed /\ e.merged
      \/ "closed" \in allowed /\ e.action = "closed" /\ ~e.merged

MatchesReleaseMode(mode, e) ==
  \/ mode \in {"", "all"}
  \/ mode = "releases" /\ ~e.prerelease
  \/ mode = "prereleases" /\ e.prerelease

MatchesSubscription(f, e) ==
  \/ e.type = "push" /\ MatchesBranch(f, e)
  \/ e.type = "pull_request" /\ MatchesBranch(f, e) /\ MatchesPullRequestAction(f.actions, e)
  \/ e.type = "release" /\ MatchesReleaseMode(f.releaseMode, e)

\* ServeHTTP queues a job: the payload is an event and the settings let it through.
Delivers(f, name, p) == \E e \in ParseEvent(name, p) : MatchesSubscription(f, e)

-----------------------------------------------------------------------------
(* What users are told (docs/telegram.md, docs/github.md). *)

\* The settings the panels store, and the constraints of the table allow.
Stored(f) ==
  /\ f.branchMode \in {"all", "default", "selected"}
  /\ f.actions \in (SUBSET AllActions) \ {{}}
  /\ f.releaseMode \in {"all", "releases", "prereleases"}

\* What happened to a pull request, as the settings call it.
Happening(p) ==
  CASE p.action \in {"opened", "reopened"} -> "opened"
    [] p.action = "closed" -> IF p.merged THEN "merged" ELSE "closed"
    [] OTHER -> "else"

ListensTo(f, branch, default) ==
  CASE f.branchMode = "all" -> TRUE
    [] f.branchMode = "default" -> branch = IF f.default = NoName THEN default ELSE f.default
    [] f.branchMode = "selected" -> branch \in f.branches

\* A card is promised for commits on a branch, for what happens to a pull request
\* into a branch, and for a published release of either kind.
Promised(f, name, p) ==
  \/ /\ name = "push" /\ p.refKind = "heads" /\ ~p.deleted /\ p.commits > 0
     /\ ListensTo(f, p.branch, p.default)
  \/ /\ name = "pull_request" /\ Happening(p) \in f.actions
     /\ ListensTo(f, p.branch, p.default)
  \/ /\ name = "release" /\ p.action = "published"
     /\ f.releaseMode = "all" \/ p.prerelease = (f.releaseMode = "prereleases")

\* The first news of a merge is the closing.  Whatever is done to a pull request
\* after it still says that it is merged.
FirstNews(p) == p.merged => p.action = "closed"

Payloads(Branches) ==
  [refKind : {"heads", "tags"}, deleted : BOOLEAN, commits : Nat, branch : Branches,
   default : Branches, action : STRING, merged : BOOLEAN, prerelease : BOOLEAN]
=============================================================================
