SPECIFICATION MCSpec
CONSTANTS
  t1 = t1  t2 = t2
  Tasks <- MCTasks
  Domains = {"a", "b"}
  Keys <- MCKeys
  MaxSize = 1
  TTL = 1
  MaxFailures = 2
  Cooldown = 2
  Window = 1
INVARIANTS
  CooldownIsEarned
PROPERTIES
  FresherSolutionSurvives EvictionInvisible CooldownEnds
