\* Health requests only: what the interceptor logs and what is sent.
SPECIFICATION Spec
CONSTANTS
  r1 = r1
  r2 = r2
  c1 = c1
  None = None
  ClientId = ClientId
  Unknown = Unknown
  Requests = {r1, r2}
  Clients = {c1}
  Kinds <- HealthKinds
INVARIANTS LoggedStatusIsSent
CHECK_DEADLOCK FALSE
