CONSTANTS
  Messages = {m1, m2}
  Creators = {m1}
  Subs = {s1}
  Groups = {g1}
  Branches = {b1}
  Actions = {"opened", "merged"}
  ReleaseModes = {"all", "releases"}
  None = None
SPECIFICATION Spec
INVARIANTS
  NoEmptySelection
  EditsAccepted
PROPERTIES
  CreatedAsShown
  GroupVerified
