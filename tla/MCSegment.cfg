CONSTANTS
  c1 = c1
  c2 = c2
  NoThread = NoThread
  Stray = Stray
  Blank = Blank
  Countdowns <- TwoCountdowns
  MaxDigit = 2
  PollsPerDigit = 2
  PollsPerRing = 2
  StopTicks = 2
  CleanupTicks = 2
  Punctual = FALSE
  GpioResults <- GpioMayFail
  BuzzerLoads <- LoadsOrNot

SPECIFICATION FairSpec

INVARIANTS
  TypeOK
  TidIsLive
  CountingHasThread
  NoStaleStopRequest

PROPERTY CountdownEnds
