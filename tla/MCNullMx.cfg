SPECIFICATION ToolsSpec
CONSTANTS
  Callers = {r1}
  FillKeys = {"ip"}
  PlainKeys = {"dns"}
  Ttl <- MCTtl
  MaxEntries = 1
  MaxTime = 1
  JsonKeys <- MCKeys
  Documents <- MCDocuments
  Low <- MCLow
  High <- MCHigh
  Calendar <- MCCalendar
  MaxLoopDays = 9
  Expressions <- MCExpressions
  Phrases <- MCPhrases
  Dates = {0, 5, 12}
  Minutes = {2}
  LastDate = 16
  Counts = {1, 4}
  NoStep = NoStep
  Operations = {o1, o2, o3}
  Lookups = {w1}
  MaxConcurrent = 2
  Threads = 3
  NoVersion = NoVersion
  AnyVersion = AnyVersion
  NoNumber = NoNumber
  None = None
  Bits = 3
  Urls <- MCUrls
  Requests <- MCRequests
  Outcomes <- MCOutcomes
  HeaderLists <- MCHeaderLists
  Versions <- MCVersions
  Ranges <- MCRanges
  Changelogs <- MCChangelogs
  Scripts <- MCScripts
  RecordQueries <- MCRecordQueries
  Signatures <- MCSignatures
  MailDomains <- MCMailDomains
  MailChecks <- MCMailChecks
  Chains <- MCChains
  RobotsTexts <- MCRobotsTexts
  Sites <- MCSites
  MarkersOf <- MCMarkersOf
  Typings <- MCTypings
  Canonicals <- MCCanonicals
  Inquiries <- MCInquiries
  RowOf <- MCRowOf
  ProviderOf <- MCProviderOf
  Servers <- MCServers
  Languages <- MCLanguages
  MaxHeaders = 2
  MaxValue = 18
  PreviewLimit = 2
  Resizings <- MCResizings
  Targets <- MCTargets
  Conversions <- MCConversions
  Scans <- MCScans
  Cutouts <- MCCutouts
  MaxPixels = 30
  MaxWidth = 8
  MaxCanvas = 8
  MaxPages = 4
  MaxOutput = 3
  MaxRaster = 5
  MinTarget = 1
  MaxTarget = 3
  Kilobyte = 2
  LowQuality = 1
  HighQuality = 5
  MaxProbes = 3
  Characters = {"a", "A", "u", "x", "o", "-", ".", "_", "(", "@", " ", "#"}
  Names <- MCNames
  Mails <- MCMails
  HostLists <- MCHostLists
  Listings <- MCListings
  PublicSuffixes <- MCPublicSuffixes
  BadALabels <- MCBadALabels
  MaxLabel = 5
  MaxName = 7
  MaxLocal = 3
INVARIANTS
  NullMxNoMail
CHECK_DEADLOCK FALSE
