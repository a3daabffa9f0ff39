SPECIFICATION MCSpec
CONSTANTS
  MaxRedirectsBound = 2
  Files = {"a", "b", "c", "d", "e"}
  Sites <- MCSites
  FileLimits = {2, 9}
  DepthLimits = {0, 1}
  PoolSize = 2
  PoolCallers = {"c1", "c2"}
  PoolCooldown = 2
  MinRequests = 2
  MaxCount = 2
  Engines = {"e1", "e2", "e3"}
  Answers <- MCAnswers
  FusionLimits = {1, 2, 4}
  Scale = 113460
  d1 = d1  d2 = d2  r1 = r1  r2 = r2
  Downloads <- MCDownloads
  Paths = {"p1", "p2"}
  Inodes = {1, 2, 3, 4, 5, 6}
  Chunks = 2
  Cap = 2
  Ips = {"i1", "i2"}
  UserAgents = {"ua1", "ua2"}
  RouteClasses = {"rest"}
  GateConfigs <- MCGateConfigs
  MaxSightings = 3
  MaxUasPerIp = 1
  MaxEntriesPerIp = 2
  Calls <- MCCalls
  Timeouts = {0, 200}
  Works = {1, 12, 65, 500}
  Words <- MCWords
  Width <- MCWidth
  Kind <- MCKind
  Href <- MCHref
  PrefixWords = 2
  Pieces <- MCPieces
  MaxPieces = 3
  Chars <- MCChars
  Fragments <- MCFragments
  MaxFragments = 3
INVARIANTS
  BoundaryKept DirectOnlyWhenProxyDead DialsBounded
  CollectsTheReachable NothingLostWithoutPanic
  WholeUnlessRaced QuotaOvershoot
  NoSilentCaller RightBoundAnswers GaugeSettles
  KeptButForHeadings CodeStaysCode
  NothingTwice HeadingOverOwnText
PROPERTIES
  FallbackOnlyIfAllCool
CHECK_DEADLOCK FALSE
SYMMETRY MCSymmetry
