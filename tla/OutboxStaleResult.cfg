CONSTANTS
  Workers = {w1, w2}
  Jobs = {j1}
  Subs = {s1}
  Chats = {c1}
  None = None
  MaxAttempts = 3
  BatchSize = 1
  Events = {}
SPECIFICATION Spec
PROPERTY StaleResultIsNoOp
CHECK_DEADLOCK FALSE
