SPECIFICATION Spec
CONSTANTS
  Settings <- Raw
  RequestTimes <- OnAndPastTheFrames
  KeyFrames <- FirstAndLast
  MaxLength = 3
  MaxSeekFailures = 3
  None <- NoValue
INVARIANTS
  AnswersShowTheirTime
