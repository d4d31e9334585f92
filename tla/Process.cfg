CONSTANTS
  Instances = {i1, i2}
  Last = 1
  PoolMaxConns = 1
  None = None
  Loops = {"loop"}
  AutoMigrate = {i1, i2}
  Reachable = {i1}
  Links = {l1}
  Users = {u1}
  Owner <- OneOwner
  Calls = {c1, c2}
SPECIFICATION Spec
INVARIANTS
  SchemaIntact
  SpentForReason
  PoolOutlivesUsers
  FailureReported
PROPERTIES
  ImplementsConsent
  NeverStuck
  CommandsRegistered
