SPECIFICATION PartsSpec
CONSTANTS
  Profiles = {school, other}
  Options = {o1, o2}
  Absent = Absent
  Torn = Torn
  MaxEpoch = 3
  MaxRevision = 2
  MaxImages = 5
  MaxFrames = 3
  Lookups = {c1, c2, c3}
  Clients = {c1, c2}
  Peers = {p1, p2}
  Hosts = {h1, h2}
  CampusHosts = {h1}
  Servers = {s1}
  MaxEntries = 1
  MaxAliases = 1
  MaxActive = 1
  MaxAcceptFailures = 2
  MaxBody = 2
  MaxChunks = 1
INVARIANTS
  
  ServedIsStored
  ActiveEpochIsLatest
  OldEngineRetired
  EngineSafety
  LocalSafety
CHECK_DEADLOCK FALSE
