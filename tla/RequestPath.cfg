SPECIFICATION Spec
CONSTANTS
  Settings <- AllSettings
  MaxValue = 127
  MaxScale = 15
  None = none
  NoBox = noBox
  Unset = unset
  Slots = 4
  SdHeight = 6
INVARIANTS
  TimesAreExact
  WindowIsTight
  PictureFitsUpright
  ScaledWithItsOwnColours
  SteadyStreamBuildsNothing
  AdmittedStreamIsUsable
