CONSTANTS
  c1 = c1
  c2 = c2
  NoThread = NoThread
  Stray = Stray
  Blank = Blank
  Countdowns <- TwoCountdowns
  MaxDigit = 2
  PollsPerDigit = 2
  PollsPerRing = 3
  StopTicks = 2
  CleanupTicks = 3
  Punctual = TRUE
  GpioResults <- GpioMayFail
  BuzzerLoads <- LoadsOrNot

SPECIFICATION Spec

INVARIANT OffEndsCountdown
