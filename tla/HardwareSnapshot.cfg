SPECIFICATION Spec
CONSTANTS
  Settings <- Required
INVARIANTS
  SnapshotIsTrue
CHECK_DEADLOCK FALSE
