SPECIFICATION LimitSpec
CONSTANTS
  c1 = c1  c2 = c2
  Callers <- MCCallers
  PerWindow = 2
  Window = 2
  Delay = 1
  Jitter = 1
  MaxBlock = 2
  MaxStall = 1
PROPERTIES
  MinDelayKept
