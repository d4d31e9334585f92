CONSTANTS
  Workers = {w1}
  Jobs = {j1, j2}
  Subs = {s1}
  Chats = {c1}
  None = None
  MaxAttempts = 3
  BatchSize = 2
  Events = {"crash", "shutdown", "dbError", "ambiguous", "receipt", "block"}
SPECIFICATION FairSpec
INVARIANTS
  SendsWithinBudget
  OnceUnlessLost
PROPERTIES
  AttemptsNeverDrop
  ImplementsDelivery
  JobsSettle
CHECK_DEADLOCK FALSE
