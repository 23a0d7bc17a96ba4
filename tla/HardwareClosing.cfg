SPECIFICATION Spec
CONSTANTS
  Settings <- Closing
INVARIANTS
  BuildsOnAnOpenSource
CHECK_DEADLOCK FALSE
