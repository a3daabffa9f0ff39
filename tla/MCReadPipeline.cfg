SPECIFICATION FairSpec
CONSTANTS
  r1 = r1
  r2 = r2
  Reads <- MCReads
  Cohorts <- MCCohorts
  MaxFailures = 2
  Cooldown = 1
  Window = 1
  TTL = 1
  Deadline = 1
PROPERTIES
  RefusalIsEarned EveryReadEnds
