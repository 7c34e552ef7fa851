SPECIFICATION MCSpec
CONSTANTS
  Users = {u1, u2}
  NoUser = NoUser
  Absent = Absent
  Torn = Torn
  Marker = Marker
  MaxImages = 3
  TrustOrigins = {o1, o2}
  Fingerprints = {f1, f2}
  CertificateRequests = {q1, q2}
  Boxes = {b1, b2}
  MaxPins = 2
SYMMETRY UserSymmetry
INVARIANTS
  MatchingPair
  CrashImagesRecover
  CommittedSaveSurvives
  CertificateSafety
