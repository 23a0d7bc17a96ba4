SPECIFICATION Spec
CONSTANTS
  Settings <- Forgetful
  RequestTimes <- OnAndPastTheFrames
  KeyFrames <- FirstAndLast
  MaxLength = 3
  MaxSeekFailures = 3
  None <- NoValue
PROPERTIES
  AssetAlwaysStandsStill
