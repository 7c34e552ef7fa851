SPECIFICATION MCSpec
CONSTANTS
  Profiles = {school, other}
  Options = {o1, o2}
  Absent = Absent
  Torn = Torn
  MaxEpoch = 3
  MaxRevision = 2
  MaxImages = 3
INVARIANT RecoveryLeavesNoEngine
CHECK_DEADLOCK FALSE
