\* What the handler expects of pg-boss: the retry count is delivered and every
\* environment has the same JOB_RETRY_LIMIT.
SPECIFICATION FairSpec
CONSTANTS
  w1 = w1
  w2 = w2
  j1 = j1
  i1 = i1
  j2 = j2
  Workers = {w1, w2}
  Enqueuers = {j1}
  Installers = {i1}
  RetryLimits <- OneLimit
  FailUntil <- ArgvOneTwoThree
  MetadataDelivered = TRUE
  NoJob = NoJob
  MaxStops = 2
  MaxLost = 1
INVARIANTS CompletedHonestly DeadLogIsFinal
PROPERTIES EveryJobSettles ImplementsReliableWork
CHECK_DEADLOCK FALSE
