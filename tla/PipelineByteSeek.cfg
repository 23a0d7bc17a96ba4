SPECIFICATION Spec
CONSTANTS
  Settings <- GivenUp
  NoPts <- Min1000
  Forever = 1000
  MaxKeyEntries = 3
  FrameDuration = 2
  OneSecond = 2
  MaxErrors = 1
  MaxBackoffs = 3
  MaxRounds = 2
  MaxHoles = 3
  MaxGopPackets = 2
  MaxSeekFailures = 2
INVARIANTS
  FailedSeekReopens
