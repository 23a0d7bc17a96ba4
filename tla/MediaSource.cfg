SPECIFICATION FairSpec
CONSTANTS
  Settings <- SettledSources
  RequestTimes <- OnAndPastTheFrames
  KeyFrames <- FirstAndLast
  MaxLength = 3
  MaxSeekFailures = 2
  None <- NoValue
INVARIANTS
  TypeOK
  FaultsStayWithTheirRequest
  SeekingIsGivenUpForCause
PROPERTIES
  AssetStandsStill
  EveryRequestEnds
