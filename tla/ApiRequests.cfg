\* Two requests of any kind on a pool of one client, with shutdown.
SPECIFICATION FairSpec
CONSTANTS
  r1 = r1
  r2 = r2
  c1 = c1
  None = None
  ClientId = ClientId
  Unknown = Unknown
  Requests = {r1, r2}
  Clients = {c1}
  Kinds <- EveryKind
INVARIANTS TypeOK ErrorIdMatchesHeader ReadyMeansPinged PoolOutlivesRequests
PROPERTIES LiveAnswers EverythingAnswered
CHECK_DEADLOCK FALSE
