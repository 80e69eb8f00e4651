\* One database, and a restore that is broken off while it drops the tables.
SPECIFICATION SmokeSpec
CONSTANTS
  local = local
  remote = local
  Databases = {local}
  Local = {local}
  Container <- ContainerDef
  Served = local
  Environments <- EnvironmentsDef
  Stops = {1, 6}
  MaxOps = 4
INVARIANTS
  UpToDateIsThere
CHECK_DEADLOCK FALSE
