CONSTANTS
  main = main
  countdown = countdown
  m1 = m1
  m2 = m2
  NoThread = NoThread
  Stray = Stray
  Nobody = Nobody
  Main = main
  Callers <- BothCallers
  Melodies <- TwoMelodies
  TotalNotes = 2
  Rests <- OneRest
  GpioResults <- GpioWorks

SPECIFICATION FairSpec

INVARIANTS
  TypeOK
  PlayingHasPlayer

PROPERTIES
  KeepsPromise
  SoundEnds
  CallsReturn
