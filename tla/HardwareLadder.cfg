SPECIFICATION Spec
CONSTANTS
  Settings <- Sound
INVARIANTS
  TypeOK
  FirstFrameAtOpen
  FaultsAreAbsorbed
  OneRebuildPerRun
  PublishedPathIsInUse
PROPERTIES
  SoftwareIsFinal
CHECK_DEADLOCK FALSE
