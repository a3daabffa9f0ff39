SPECIFICATION MCSpec
CONSTANTS
  t1 = t1  t2 = t2
  Tasks <- MCTasks
  Hosts = {"a", "b"}
  Url <- MCUrl
  Capacity = 1
  TTL = 3
  Retries = 2
  MaxLate = 2
  c1 = c1  c2 = c2
  Callers <- MCCallers
  PerWindow = 1
  Window = 2
  Delay = 2
  Jitter = 1
  MaxBlock = 2
  MaxStall = 1
  MaxRetries = 1
INVARIANTS
  SingleFetch MarkerAccounted RobotsBeforePage WindowBound
  SendBudget SingleProcessing ResponseKept OnionUntouched
PROPERTIES
  WaitEnds AdmissionsGoOn DelayKeptUpToStall EveryRequestReturns
