SPECIFICATION Spec
CONSTANTS
  Settings <- Midway
INVARIANTS
  FirstFrameIsFirst
CHECK_DEADLOCK FALSE
