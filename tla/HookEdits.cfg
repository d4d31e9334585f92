CONSTANTS
  Callers = {c1}
  Subs = {s1, s2}
  Events = {"push", "release"}
  Listings <- Overlapping
  BranchEvents <- Push
  Filters = {"all", "main"}
  AllBranches = "all"
  Chats = {dm, group}
  None = None
SPECIFICATION Spec
SYMMETRY Interchangeable
INVARIANT HookAligned
PROPERTY FailedEditUndone
