SPECIFICATION MCSpec
CONSTANTS
  Fetches = {f1, f2}
  Urls <- MCUrls
  Starts <- MCStarts
  Sites <- MCSites
  Addresses <- MCAddresses
  Public = {"a public", "b public", "i public"}
  International = {"i"}
  MaxRedirects = 2
  MaxConnections = 1
  Invalid = Invalid
  NoLocation = NoLocation
  None = None
  Ports = {p1, p2}
  TlsChecks = {t1}
  Hosts <- MCHosts
  MaxTries = 2
  Timeout = 2
  TlsTimeout = 1
  MaxTime = 8
INVARIANTS
  PeerChecked
  AnswerExact
  PortsTruthful
PROPERTIES
  EveryAnswerComes
CHECK_DEADLOCK FALSE
