SPECIFICATION MigrationSpec
CONSTANTS
  MaxEdits = 3
  MaxFailures = 3
INVARIANT PreparedResumes
CHECK_DEADLOCK FALSE
