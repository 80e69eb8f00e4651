\* The queue as it is built: the handler is not given the retry count.
SPECIFICATION Spec
CONSTANTS
  w1 = w1
  w2 = w2
  j1 = j1
  i1 = i1
  j2 = j2
  Workers = {w1, w2}
  Enqueuers = {j1}
  Installers = {i1}
  RetryLimits <- OneLimit
  FailUntil <- ArgvOneTwoThree
  MetadataDelivered = FALSE
  NoJob = NoJob
  MaxStops = 0
  MaxLost = 0
PROPERTIES AttemptCountsFetches
CHECK_DEADLOCK FALSE
