CONSTANTS
  main = main
  countdown = countdown
  m1 = m1
  m2 = m2
  NoThread = NoThread
  Stray = Stray
  Nobody = Nobody
  Main = main
  Callers <- MainAlone
  Melodies <- TwoMelodies
  TotalNotes = 3
  Rests <- OneRest
  GpioResults <- GpioWorks

SPECIFICATION Spec

INVARIANT PlayWaitsForPrevious
