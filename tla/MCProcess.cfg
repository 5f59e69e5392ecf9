CONSTANTS
  Countdowns <- TwoCountdowns
  Levels = {2, 3}
  Signals <- TwoSignals
  MaxSignals = 2
  MaxCommands = 2
  Struck = {"older"}
  Missing <- SomeMissing

SPECIFICATION FairSpec

INVARIANTS
  TypeOK
  ExitIsClean
  KilledOnlyWhenCaught
  FaultsOnlyUnderWorkers

PROPERTIES
  SignalEnds
  OnlyMissingDevicesHang
