CONSTANTS
  Callers = {c1, c2}
  Subs = {s1}
  Events = {"push"}
  Listings <- OnlyPush
  BranchEvents <- Push
  Filters = {"all"}
  AllBranches = "all"
  Chats = {dm}
  None = None
SPECIFICATION FairSpec
INVARIANT HookAligned
PROPERTY CallsReturn
