CONSTANTS
  Handlers = {h1, h2}
  Deliveries = {d1}
  Subs = {s1}
  Selects <- Merged
  None = None
  NoName = NoName
  MaxRenames = 1
  MaxPurges = 0
SPECIFICATION FairSpec
INVARIANTS
  QueuedOnce
  DuplicateWasProcessed
  AcceptedIsQueued
PROPERTIES
  UnsentJobsKept
  ImplementsLedger
  EveryRequestAnswered
