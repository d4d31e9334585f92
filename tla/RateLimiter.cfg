CONSTANTS
  PerSecond = 1
  Burst = 0
  Ticks = 2
  MaxClock = 6
  Requests = {r1, r2, r3}
  Unset = Unset
SPECIFICATION Spec
SYMMETRY Interchangeable
INVARIANTS
  WindowBound
PROPERTY RefusedOnlyOverBudget
