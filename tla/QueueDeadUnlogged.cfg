\* Even with the retry count delivered and one JOB_RETRY_LIMIT, a job can die
\* without a job_dead line.
SPECIFICATION Spec
CONSTANTS
  w1 = w1
  w2 = w2
  j1 = j1
  i1 = i1
  j2 = j2
  Workers = {w1, w2}
  Enqueuers = {j1}
  Installers = {i1}
  RetryLimits <- OneLimit
  FailUntil <- ArgvOneTwoThree
  MetadataDelivered = TRUE
  NoJob = NoJob
  MaxStops = 1
  MaxLost = 0
INVARIANTS ExhaustedIsLogged
CHECK_DEADLOCK FALSE
