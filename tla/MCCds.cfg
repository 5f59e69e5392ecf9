CONSTANTS
  a1 = a1
  a2 = a2
  Main = Main
  Nobody = Nobody
  Controllers <- TwoControllers
  Readings <- EdgeReadings
  Threshold = 180
  I2cResults <- I2cMayFail

SPECIFICATION FairSpec

INVARIANTS
  TypeOK
  EnabledHasController

PROPERTIES
  FollowsLight
  ControllersLeave
  CommandsReturn
  ReleasedLedIsLeft
