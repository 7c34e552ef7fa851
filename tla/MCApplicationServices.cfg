SPECIFICATION MCSpec
CONSTANTS
  Browsers = {b1, b2}
  Requests = {r1, r2}
  MaxTabs = 2
  MaxOpens = 7
  MaxTabId = 3
  MaxOpenTabs = 2
  Commands = {c1}
  Tabs = {t1}
  Popups = {p1}
  Origins = {o1}
  MaxNavigations = 2
  Controllers = {m1, m2}
  Sessions = {s1, s2}
  Items = {i1, i2}
  Reads = {r1, r2}
  Weeks = {w1, w2}
  Keys = {k1, k2}
  MaxEpoch = 4
  MaxRequestId = 4
  MaxSubmits = 3
  MaxResends = 2
  MaxSteps = 3
  MaxGatewayRequests = 4
  Profiles = {p, q}
  FileKinds = {a, b}
  MaxFaults = 3
  Gateways = {g, h}
  Leaves = {l1, l2}
  MaxProbes = 3
  MaxEdits = 3
  MaxFailures = 3
  MaxIntents = 4
INVARIANTS
  WindowSafety  LoginSafety DownloadSafety
   ConnectingSafety
  ProfilesSafety  
CHECK_DEADLOCK FALSE
