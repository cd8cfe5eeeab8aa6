SPECIFICATION SpecH
CONSTANTS
  Policies = {"general", "off"}
  Clients = {c1, c2, c3}
  PolicyLimit <- MCPolicyLimit
  Window = 2
  TicksPerSecond = 2
  MaxKeys = 2
  CleanupPeriod = 2
  MaxTime = 6
SYMMETRY Symmetric
INVARIANTS
  StateBounded
  BurstBound
PROPERTIES
  ImplementsQuota
  RetryHonoured
