SPECIFICATION GateSpec
CONSTANTS
  t1 = t1  t2 = t2
  Tasks <- MCTasks
  Hosts = {"a", "b"}
  Url <- MCUrl
  Capacity = 1
  TTL = 3
  Retries = 2
  MaxLate = 1
PROPERTIES
  RobotsRespected
