\* Scripts in any order on two databases, and the smoke test among them.
SPECIFICATION SmokeSpec
CONSTANTS
  local = local
  remote = remote
  Databases = {local, remote}
  Local = {local}
  Container <- ContainerDef
  Served = local
  Environments <- EnvironmentsDef
  Stops = {1, 6}
  MaxOps = 4
INVARIANTS
  SmokeTypeOK
  AuditProtected
  LeastPrivilege
  CleanOrderIsUsable
  StatusIsAGate
  PassMeansWired
  WiredPasses
PROPERTIES
  BoundaryLostByRestoreOnly
CHECK_DEADLOCK FALSE
