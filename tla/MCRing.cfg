CONSTANTS
  c1 = c1
  m1 = m1
  m2 = m2
  Main = Main
  Nobody = Nobody
  NoThread = NoThread
  Stray = Stray
  Blank = Blank
  Countdowns <- OneCountdown
  Melodies <- TwoMelodies
  MaxDigit = 1
  PollsPerDigit = 1
  PollsPerRing = 3
  StopTicks = 3
  CleanupTicks = 5
  TotalNotes = 3
  Rests <- NoRests
  NoteTicks = 1
  BuzzerWorks <- WorksOrNot
  MaxCommands = 4

SPECIFICATION Spec

SYMMETRY Symmetry

INVARIANTS
  TypeOK
  StopEndsRing
  CleanupLeavesNoCaller
  NobodyIsLeftWaiting
