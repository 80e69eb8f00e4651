\* The queue as it is built: no retry count reaches the handler, and the
\* environments disagree about JOB_RETRY_LIMIT.
SPECIFICATION Spec
CONSTANTS
  w1 = w1
  w2 = w2
  j1 = j1
  i1 = i1
  j2 = j2
  Workers = {w1, w2}
  Enqueuers = {j1}
  Installers = {i1}
  RetryLimits <- TwoLimits
  FailUntil <- ArgvOneTwo
  MetadataDelivered = FALSE
  NoJob = NoJob
  MaxStops = 2
  MaxLost = 1
SYMMETRY Symmetry
INVARIANTS TypeOK DeadLetterQueueFirst DeadLetterExact NoSilentAbandon
CHECK_DEADLOCK FALSE
