SPECIFICATION MCSpec
CONSTANTS
  Resources = {i1, i2, m1, u1}
  Images = {i1, i2}
  Unwanted = {m1, u1}
  Unlisted = {u1}
  Viewports = 2
  MaxRequests = 3
  MaxImages = 1
  MaxBytes = 2
  MaxTotal = 4
  MaxRedirects = 1
  Requests = {p1, p2, s1}
  Shots = {s1}
  Ids = {c1, c2}
  MaxPages = 2
  MaxShots = 1
  None = None
INVARIANTS
  OneBrowser
CHECK_DEADLOCK FALSE
