CONSTANTS
  Workers = {w1, w2}
  Jobs = {j1}
  Subs = {s1}
  Chats = {c1, c2}
  None = None
  MaxAttempts = 2
  BatchSize = 1
  Events = {"crash", "shutdown", "dbError", "ambiguous", "receipt", "block", "pause", "redestine", "delete"}
SPECIFICATION Spec
SYMMETRY Interchangeable
INVARIANTS
  LiveHasBudget
  SentMeansDelivered
  GivenUpForReason
PROPERTIES
  SettledIsFinal
  OneMessagePerSend
  AutoPauseJustified
CHECK_DEADLOCK FALSE
