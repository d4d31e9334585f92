CONSTANTS
  Messages = {m1}
  Creators = {m1}
  Subs = {s1}
  Groups = {}
  Branches = {b1}
  Actions = {"opened", "merged", "closed"}
  ReleaseModes = {"all", "releases", "prereleases"}
  None = None
SPECIFICATION Spec
INVARIANT CreatesAccepted
