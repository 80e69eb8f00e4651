\* Two transactions that each await a query on a pool of two clients, so that
\* the pool can be exhausted by its own waiters.
SPECIFICATION FairSpec
CONSTANTS
  t1 = t1
  t2 = t2
  q1 = q1
  q2 = q2
  c1 = c1
  c2 = c2
  None = None
  Txs = {t1, t2}
  Queries = {q1, q2}
  Inner <- BothQueriesInside
  Clients = {c1, c2}
  Swallows = FALSE
INVARIANTS TypeOK ClientsAccountedFor IdleClientsAreClean CommitsOnReturn
PROPERTIES CommittedOnlyByOwner ThrowAfterCommitOnlyInDoubt EveryCallSettles ShutdownCompletes
CHECK_DEADLOCK FALSE
