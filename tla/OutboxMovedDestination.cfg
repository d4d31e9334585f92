CONSTANTS
  Workers = {w1}
  Jobs = {j1}
  Subs = {s1}
  Chats = {c1, c2}
  None = None
  MaxAttempts = 2
  BatchSize = 1
  Events = {"block", "redestine"}
SPECIFICATION Spec
PROPERTY AutoPauseMatchesDestination
CHECK_DEADLOCK FALSE
