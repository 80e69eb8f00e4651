\* The same pool when an fn may catch the error of a failed statement.
SPECIFICATION Spec
CONSTANTS
  t1 = t1
  t2 = t2
  q1 = q1
  q2 = q2
  c1 = c1
  c2 = c2
  None = None
  Txs = {t1, t2}
  Queries = {q1, q2}
  Inner <- BothQueriesInside
  Clients = {c1, c2}
  Swallows = TRUE
INVARIANTS CommitsOnReturn
CHECK_DEADLOCK FALSE
