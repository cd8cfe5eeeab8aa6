SPECIFICATION MCSpec
CONSTANTS
  Bodies <- MCBodies
  MaxBytes = 12
  MaxJson = 11
  MaxDepth = 2
  MaxNodes = 3
  Processes = {"p1", "p2"}
  Requests = {"r1", "r2"}
  Home <- MCHome
  Limit = 1
  Window = 2
  Ttl = 1
  Settings = {{"cache", "limiter"}, {}}
  MaxTime = 2
  MaxCount = 2
  MaxFaults = 1
INVARIANTS
  WorkGuarded
  RepliesExact
  BodiesJudged
  SharedQuota
PROPERTIES
  WindowNeverMoves
  ServedFresh
  RedisHoldsNobody
CHECK_DEADLOCK FALSE
