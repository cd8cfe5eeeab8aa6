SPECIFICATION MCSpec
CONSTANTS
  Domains = {"taken.com", "free.io"}
  Tlds = {"com", "io"}
  TldOf <- MCTldOf
  Registered = {"taken.com"}
  BootstrapTtl = 2
  MaxTime = 5
  Callers = {c1, c2}
  NullMX = NullMX
  None = None
  Names = {"shop", "alias"}
  Addresses = {"first", "second", "private"}
  Public = {"first", "second"}
  Zones <- MCZones
  Requests <- MCRequests
  MaxEntries = 2
  ProviderOf <- MCProviderOf
  Parking = {"parking"}
  Disposable = {}
  Free = {"alias"}
INVARIANTS
  PrivateNeverSent
