------------------------------ MODULE MCIntake ------------------------------
EXTENDS Intake, Filter

\* A subscription that announces merges into the default branch, and a merge.
Merges ==
  [branchMode |-> "default", branches |-> {}, default |-> "main",
   actions |-> {"merged"}, releaseMode |-> "all"]

Merge ==
  [refKind |-> "heads", deleted |-> FALSE, commits |-> 0, branch |-> "main", default |-> "main",
   action |-> "closed", merged |-> TRUE, prerelease |-> FALSE]

Merged == {p \in Subs \X Deliveries : Delivers(Merges, "pull_request", Merge)}

SomeFilters ==
  {f \in [branchMode : {"all", "default", "selected"}, branches : {{}, {"dev"}},
          default : {NoName, "dev"}, actions : SUBSET AllActions,
          releaseMode : {"all", "releases", "prereleases"}] : Stored(f)}

SomePayloads ==
  {p \in [refKind : {"heads", "tags"}, deleted : BOOLEAN, commits : 0..1,
          branch : {"main", "dev"}, default : {"main"},
          action : {"", "opened", "reopened", "closed", "labeled", "published"},
          merged : BOOLEAN, prerelease : BOOLEAN] : FirstNews(p)}

\* The filter against what users are told, for every kind of settings and payload.
ASSUME FilterChecked ==
  \A f \in SomeFilters, p \in SomePayloads, event \in {"push", "pull_request", "release", "issues"} :
    Delivers(f, event, p) <=> Promised(f, event, p)
=============================================================================
