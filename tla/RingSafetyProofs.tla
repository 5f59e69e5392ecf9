--------------------------- MODULE RingSafetyProofs ---------------------------
(***************************************************************************)
(* The invariants of Ring, for any number of countdowns, melodies and      *)
(* commands and any lengths of the sleeps that are in the order of the     *)
(* code's.                                                                 *)
(*                                                                         *)
(* Because Ring implements its components (RingProofs), what is proved of  *)
(* them in SegmentProofs and BuzzerProofs holds here, with Ring's          *)
(* variables for theirs; what is left to prove is what the two owe to each *)
(* other and to the clock.                                                 *)
(***************************************************************************)
EXTENDS RingProofs

fndP == INSTANCE SegmentProofs WITH
  is_initialized <- fnd_ready, running <- fnd_running, at <- fnd_at,
  crashed <- fnd_crashed,
  Punctual <- FALSE, GpioResults <- {TRUE}, BuzzerLoads <- {TRUE}

buzzerP == INSTANCE BuzzerProofs WITH
  is_initialized <- buzzer_ready, running <- buzzer_running, at <- buzzer_at,
  crashed <- buzzer_crashed, GpioResults <- BuzzerWorks

LEMMA ComponentAssumptions == fndP!SegmentAssumption /\ buzzerP!BuzzerAssumption
  BY RingAssumption
  DEF RingAssumption, Callers, fndP!SegmentAssumption, buzzerP!BuzzerAssumption

-----------------------------------------------------------------------------
(* SegmentProofs speaks of the same Segment as Ring does.                  *)

LEMMA SameFndInit == fnd!Init => fndP!Init
  BY DEF fnd!Init, fndP!Init, fnd!NoRequest, fndP!NoRequest

LEMMA SameFndCommand ==
  ASSUME NEW n \in fnd!Digits,
         fnd!DisplayEnter(n) \/ fnd!CountdownEnter(n) \/ fnd!OffEnter \/
         fnd!StopEnter \/ fnd!CleanupEnter
  PROVE  fndP!DisplayEnter(n) \/ fndP!CountdownEnter(n) \/ fndP!OffEnter \/
         fndP!StopEnter \/ fndP!CleanupEnter
<1> USE DEF fnd!flags, fndP!flags, fnd!threads, fndP!threads, fnd!Live, fndP!Live,
      fnd!Alone, fndP!Alone, fnd!Interruptible, fndP!Interruptible, fnd!Known,
      fndP!Known, fnd!NoRequest, fndP!NoRequest, fnd!Takes, fndP!Takes,
      fnd!LocksTwice, fndP!LocksTwice, fnd!Interrupts, fndP!Interrupts
<1>1. fnd!DisplayEnter(n) => fndP!DisplayEnter(n)
  BY DEF fnd!DisplayEnter, fndP!DisplayEnter
<1>2. fnd!CountdownEnter(n) => fndP!CountdownEnter(n)
  BY DEF fnd!CountdownEnter, fndP!CountdownEnter, fnd!Creates, fndP!Creates
<1>3. fnd!OffEnter => fndP!OffEnter
  BY DEF fnd!OffEnter, fndP!OffEnter, fnd!ShowsIfReady, fndP!ShowsIfReady
<1>4. fnd!StopEnter => fndP!StopEnter
  BY DEF fnd!StopEnter, fndP!StopEnter
<1>5. fnd!CleanupEnter => fndP!CleanupEnter
  BY DEF fnd!CleanupEnter, fndP!CleanupEnter
<1> QED
  BY <1>1, <1>2, <1>3, <1>4, <1>5

LEMMA SameFndMain ==
  fnd!FndInit \/ fnd!MainInside \/ fnd!Elapse \/ fnd!Ended =>
    fndP!FndInit \/ fndP!MainInside \/ fndP!Elapse \/ fndP!Ended
<1> USE DEF fnd!flags, fndP!flags, fnd!threads, fndP!threads, fnd!main, fndP!main,
      fnd!Known, fndP!Known, fnd!ForgetCountdown, fndP!ForgetCountdown,
      fnd!ShowsIfReady, fndP!ShowsIfReady, fnd!vars, fndP!vars
<1>1. fnd!FndInit => fndP!FndInit
  BY DEF fnd!FndInit, fndP!FndInit
<1>2. fnd!Join => fndP!Join
  BY DEF fnd!Join, fndP!Join
<1>3. fnd!Relock => fndP!Relock
  BY DEF fnd!Relock, fndP!Relock, fnd!Creates, fndP!Creates
<1>4. fnd!StopWake => fndP!StopWake
  BY DEF fnd!StopWake, fndP!StopWake
<1>5. fnd!CleanupPeek => fndP!CleanupPeek
  BY DEF fnd!CleanupPeek, fndP!CleanupPeek
<1>6. fnd!CleanupRelease => fndP!CleanupRelease
  BY DEF fnd!CleanupRelease, fndP!CleanupRelease
<1>7. fnd!Elapse => fndP!Elapse
  BY DEF fnd!Elapse, fndP!Elapse, fnd!Napping, fndP!Napping, fnd!MainRunnable,
     fndP!MainRunnable, fnd!CountdownRunnable, fndP!CountdownRunnable, fnd!Live,
     fndP!Live
<1>8. fnd!Ended => fndP!Ended
  BY DEF fnd!Ended, fndP!Ended
<1> QED
  BY <1>1, <1>2, <1>3, <1>4, <1>5, <1>6, <1>7, <1>8
  DEF fnd!MainInside, fndP!MainInside

LEMMA SameFndCountdown ==
  ASSUME NEW t \in Countdowns, fnd!CountdownStep(t)
  PROVE  fndP!CountdownStep(t)
<1> USE DEF fnd!flags, fndP!flags, fnd!threads, fndP!threads, fnd!main, fndP!main,
      fnd!Goes, fndP!Goes, fnd!Unlocked, fndP!Unlocked, fnd!ShouldStop,
      fndP!ShouldStop, fnd!ShowsIfReady, fndP!ShowsIfReady,
      fnd!ForgetCountdown, fndP!ForgetCountdown
<1>1. fnd!Start(t) => fndP!Start(t)
  BY DEF fnd!Start, fndP!Start
<1>2. fnd!Top(t) => fndP!Top(t)
  BY DEF fnd!Top, fndP!Top
<1>3. fnd!Show(t) => fndP!Show(t)
  BY DEF fnd!Show, fndP!Show
<1>4. fnd!Poll(t) => fndP!Poll(t)
  BY DEF fnd!Poll, fndP!Poll
<1>5. fnd!Zero(t) => fndP!Zero(t)
  BY DEF fnd!Zero, fndP!Zero
<1>6. fnd!CallPlay(t) => fndP!CallPlay(t)
  BY DEF fnd!CallPlay, fndP!CallPlay
<1>7. fnd!Ring(t) => fndP!Ring(t)
  BY DEF fnd!Ring, fndP!Ring
<1>8. fnd!Hush(t) => fndP!Hush(t)
  BY DEF fnd!Hush, fndP!Hush
<1>9. fnd!BlankOut(t) => fndP!BlankOut(t)
  BY DEF fnd!BlankOut, fndP!BlankOut
<1>10. fnd!Finish(t) => fndP!Finish(t)
  BY DEF fnd!Finish, fndP!Finish
<1> QED
  BY <1>1, <1>2, <1>3, <1>4, <1>5, <1>6, <1>7, <1>8, <1>9, <1>10
  DEF fnd!CountdownStep, fndP!CountdownStep

LEMMA SameFndNext == [fnd!Next]_(fnd!vars) => [fndP!Next]_(fndP!vars)
<1>1. fnd!Digits = fndP!Digits /\ 0 \in fnd!Digits
  BY RingAssumption DEF RingAssumption, fnd!Digits, fndP!Digits
<1>2. UNCHANGED fnd!vars => UNCHANGED fndP!vars
  BY DEF fnd!vars, fndP!vars, fnd!flags, fndP!flags, fnd!threads, fndP!threads,
     fnd!main, fndP!main
<1>3. ASSUME NEW n \in fnd!Digits,
             fnd!DisplayEnter(n) \/ fnd!CountdownEnter(n) \/ fnd!OffEnter \/
             fnd!StopEnter \/ fnd!CleanupEnter
      PROVE  fndP!Next
  BY <1>1, <1>3, SameFndCommand DEF fndP!Next
<1>4. fnd!FndInit \/ fnd!MainInside \/ fnd!Elapse \/ fnd!Ended => fndP!Next
  BY SameFndMain DEF fndP!Next
<1>5. ASSUME NEW t \in Countdowns, fnd!CountdownStep(t)
      PROVE  fndP!Next
  BY <1>5, SameFndCountdown DEF fndP!Next
<1> QED
  BY <1>1, <1>2, <1>3, <1>4, <1>5 DEF fnd!Next

LEMMA RingIsFndP == Spec => fndP!Spec
  BY RingIsSegment, SameFndInit, SameFndNext, PTL DEF fnd!Spec, fndP!Spec

-----------------------------------------------------------------------------
(* BuzzerProofs speaks of the same Buzzer as Ring does.                    *)

LEMMA SameBuzzerInit == buzzer!Init => buzzerP!Init
  BY DEF buzzer!Init, buzzerP!Init

LEMMA SameBuzzerCaller ==
  ASSUME NEW c \in Callers,
         buzzer!PlayEnter(c) \/ buzzer!StopEnter(c) \/ buzzer!CallerInside(c)
  PROVE  buzzerP!PlayEnter(c) \/ buzzerP!StopEnter(c) \/ buzzerP!CallerInside(c)
<1> USE DEF buzzer!Arrives, buzzerP!Arrives, buzzer!Returns, buzzerP!Returns,
      buzzer!Calls, buzzerP!Calls, buzzer!Interruptible, buzzerP!Interruptible,
      buzzer!Release, buzzerP!Release, buzzer!Joinable, buzzerP!Joinable
<1>1. buzzer!PlayEnter(c) => buzzerP!PlayEnter(c)
  BY DEF buzzer!PlayEnter, buzzerP!PlayEnter
<1>2. buzzer!StopEnter(c) => buzzerP!StopEnter(c)
  BY DEF buzzer!StopEnter, buzzerP!StopEnter
<1>3. buzzer!Join(c) => buzzerP!Join(c)
  BY DEF buzzer!Join, buzzerP!Join
<1>4. buzzer!Joined(c) => buzzerP!Joined(c)
  BY DEF buzzer!Joined, buzzerP!Joined
<1>5. buzzer!Relock(c) => buzzerP!Relock(c)
  BY DEF buzzer!Relock, buzzerP!Relock
<1>6. buzzer!Create(c) => buzzerP!Create(c)
  BY DEF buzzer!Create, buzzerP!Create
<1>7. buzzer!Detach(c) => buzzerP!Detach(c)
  BY DEF buzzer!Detach, buzzerP!Detach
<1> QED
  BY <1>1, <1>2, <1>3, <1>4, <1>5, <1>6, <1>7
  DEF buzzer!CallerInside, buzzerP!CallerInside

LEMMA SameBuzzerRest ==
  buzzer!BuzzerInit \/ buzzer!CleanupEnter \/ buzzer!Ended =>
    buzzerP!BuzzerInit \/ buzzerP!CleanupEnter \/ buzzerP!Ended
<1>1. buzzer!BuzzerInit => buzzerP!BuzzerInit
  BY DEF buzzer!BuzzerInit, buzzerP!BuzzerInit, buzzer!Arrives, buzzerP!Arrives
<1>2. buzzer!CleanupEnter => buzzerP!CleanupEnter
  BY DEF buzzer!CleanupEnter, buzzerP!CleanupEnter, buzzer!Calls, buzzerP!Calls,
     buzzer!Interruptible, buzzerP!Interruptible, buzzer!Arrives, buzzerP!Arrives,
     buzzer!Release, buzzerP!Release
<1>3. buzzer!Ended => buzzerP!Ended
  BY DEF buzzer!Ended, buzzerP!Ended, buzzer!vars, buzzerP!vars
<1> QED
  BY <1>1, <1>2, <1>3

LEMMA SameBuzzerMelody ==
  ASSUME NEW m \in Melodies, buzzer!MelodyStep(m)
  PROVE  buzzerP!MelodyStep(m)
<1>1. buzzer!MelodyStart(m) => buzzerP!MelodyStart(m)
  BY DEF buzzer!MelodyStart, buzzerP!MelodyStart
<1>2. buzzer!MelodyCheck(m) => buzzerP!MelodyCheck(m)
  BY DEF buzzer!MelodyCheck, buzzerP!MelodyCheck
<1>3. buzzer!MelodyWrite(m) => buzzerP!MelodyWrite(m)
  BY DEF buzzer!MelodyWrite, buzzerP!MelodyWrite
<1>4. buzzer!MelodySilence(m) => buzzerP!MelodySilence(m)
  BY DEF buzzer!MelodySilence, buzzerP!MelodySilence
<1>5. buzzer!MelodyFinish(m) => buzzerP!MelodyFinish(m)
  BY DEF buzzer!MelodyFinish, buzzerP!MelodyFinish
<1> QED
  BY <1>1, <1>2, <1>3, <1>4, <1>5 DEF buzzer!MelodyStep, buzzerP!MelodyStep

LEMMA SameBuzzerNext == [buzzer!Next]_(buzzer!vars) => [buzzerP!Next]_(buzzerP!vars)
<1>1. UNCHANGED buzzer!vars => UNCHANGED buzzerP!vars
  BY DEF buzzer!vars, buzzerP!vars
<1>2. ASSUME NEW c \in Callers,
             buzzer!PlayEnter(c) \/ buzzer!StopEnter(c) \/ buzzer!CallerInside(c)
      PROVE  buzzerP!Next
  BY <1>2, SameBuzzerCaller DEF buzzerP!Next
<1>3. buzzer!BuzzerInit \/ buzzer!CleanupEnter \/ buzzer!Ended => buzzerP!Next
  BY SameBuzzerRest DEF buzzerP!Next
<1>4. ASSUME NEW m \in Melodies, buzzer!MelodyStep(m)
      PROVE  buzzerP!Next
  BY <1>4, SameBuzzerMelody DEF buzzerP!Next
<1> QED
  BY <1>1, <1>2, <1>3, <1>4 DEF buzzer!Next

LEMMA RingIsBuzzerP == Spec => buzzerP!Spec
  BY RingIsBuzzer, SameBuzzerInit, SameBuzzerNext, PTL DEF buzzer!Spec, buzzerP!Spec

-----------------------------------------------------------------------------
(* What the components promise alone, they promise together.               *)

FndFacts ==
  fndP!TypeOK /\ fndP!CountingHasThread /\ fndP!Places /\ fndP!Lonely

BuzzerFacts == buzzerP!TypeOK /\ buzzerP!SoundHasPlayer /\ buzzerP!CallInv

LEMMA SpecFacts == Spec => [](FndFacts /\ BuzzerFacts)
<1>1. fndP!Spec => [](fndP!TypeOK /\ fndP!WaitsAboveZero)
  BY ComponentAssumptions, fndP!TypeCorrect, PTL
<1>2. fndP!Spec => []fndP!CountingHasThread
  BY ComponentAssumptions, fndP!CountingIsBacked, PTL
<1>3. fndP!Spec => []fndP!SleepInv
  BY ComponentAssumptions, fndP!SpecSleepInv, PTL
<1>4. fndP!SleepInv => fndP!Places /\ fndP!Lonely
  BY DEF fndP!SleepInv
<1>5. buzzerP!Spec => [](buzzerP!TypeOK /\ buzzerP!WritesRealNotes)
  BY ComponentAssumptions, buzzerP!TypeCorrect, PTL
<1>6. buzzerP!Spec => []buzzerP!SoundHasPlayer
  BY ComponentAssumptions, buzzerP!SoundIsBacked, PTL
<1>7. buzzerP!Spec => []buzzerP!CallInv
  BY ComponentAssumptions, buzzerP!CallsAreOrdered, PTL
<1> QED
  BY <1>1, <1>2, <1>3, <1>4, <1>5, <1>6, <1>7, RingIsFndP, RingIsBuzzerP, PTL
  DEF FndFacts, BuzzerFacts

-----------------------------------------------------------------------------
(* The inductive invariant of Ring, on top of the components' own.         *)

MarksTyped ==
  /\ note_nap \in [Melodies -> 0 .. NoteTicks]
  /\ player \in [Melodies -> Callers \cup {Nobody}]
  /\ waited \subseteq Countdowns /\ lost \subseteq Countdowns
  /\ commands \in 0 .. MaxCommands

(* Between fnd_init and the end of fnd_cleanup the display is ready and
   libbuzzer open.                                                         *)
OpenBetween ==
  /\ fnd_at # "self"
  /\ fnd_at \notin {"boot", "gone"} => fnd_ready /\ buzzer_lib

(* Main is inside at most one of the libraries, and leaves them in order.  *)
OneLibrary ==
  /\ fnd_at = "boot" => buzzer_at[Main] = "boot"
  /\ fnd_at \in {"join", "relock", "sleep", "peek", "release"} =>
       buzzer_at[Main] = "idle"
  /\ op[Main] = "cleanup" \/ buzzer_at[Main] = "gone" => fnd_at = "gone"

(* Where a countdown is in libsegment while it is inside libbuzzer.        *)
InsideFits ==
  \A t \in Countdowns :
    Inside(t) => \/ op[t] = "play" /\ countdown[t] = "ring" /\ nap[t] = 1
                 \/ op[t] = "stop" /\ countdown[t] = "blank"

(* The history variables say what they are meant to, and a melody is in
   delay() only after a note.                                              *)
MarksFit ==
  /\ \A t \in Countdowns : buzzer_at[t] = "wait" => t \in waited
  /\ \A m \in Melodies : player[m] # Nobody => melody[m] # "none"
  /\ \A m \in Melodies : note_nap[m] > 0 => melody[m] = "check"

(* m rings for a countdown that has not lost it.                           *)
Rung(m) == player[m] \in Countdowns \ lost /\ fnd_at # "gone"

Hushed(m) == countdown[player[m]] \notin {"ring", "hush"}

(* Its countdown has called buzzer_stop, and nothing has held that up.     *)
ToEnd(m) == Rung(m) /\ player[m] \notin waited /\ Hushed(m)

(* While a melody plays that can still be stopped, there is a handle, so that
   buzzer_stop believes in it.                                             *)
HandleIsKept ==
  \A m \in Melodies : Rung(m) => music_thread_id # NoThread \/ ~Going

LoneSleep == request.lone /\ fnd_at = "sleep"
LoneStop == LoneSleep /\ request.op = "stop"
Awaited == IF request.op = "stop" THEN StopTicks ELSE CleanupTicks
Free(t) == fnd!Live(t) /\ ~HeldUp(t)

(* At most one tick passes while main waits for a countdown that is free.  *)
CountdownInTime ==
  LoneSleep =>
    \A t \in Countdowns : Free(t) =>
      /\ sleeping \in {Awaited - 1, Awaited}
      /\ nap[t] > 0 \/ countdown[t] \in {"show", "zero", "call"} => sleeping = Awaited

(* The ticks that a melody which is to end has left.                       *)
Remaining(m) == IF melody[m] = "write" THEN NoteTicks ELSE note_nap[m]

MelodyInTime ==
  LoneStop => \A m \in Melodies : ToEnd(m) => sleeping > Remaining(m)

(* While fnd_stop sleeps, what rings is the countdown's it has met ...     *)
RingIsLone ==
  LoneStop => \A m \in Melodies, t \in Countdowns :
    Rung(m) /\ fnd!Live(t) => player[m] = t

(* ... and what is to end sees is_playing cleared for good, or cleared by a
   buzzer_stop that is on its way through its join.                        *)
RingsAreHeard ==
  LoneStop => \A m \in Melodies : ToEnd(m) =>
    ~Going \/ buzzer_at[player[m]] \in {"join", "relock"}

(* What main finds when it goes on.                                        *)
OverThen ==
  request.lone =>
    /\ \/ fnd_at \in {"release", "gone"}
       \/ fnd_at = "idle" /\ request.op = "stop"
       => \A t \in Countdowns : ~Free(t)
    /\ fnd_at = "idle" /\ request.op = "stop" =>
         \A m \in Melodies : Rung(m) => player[m] \in waited

Fitting == MarksTyped /\ OpenBetween /\ OneLibrary /\ InsideFits /\ MarksFit
InTime ==
  /\ HandleIsKept /\ RingIsLone /\ RingsAreHeard
  /\ CountdownInTime /\ MelodyInTime /\ OverThen

LEMMA Typing ==
  ASSUME FndFacts, BuzzerFacts
  PROVE  /\ countdown \in [Countdowns -> fndP!CountdownPlaces]
         /\ nap \in [Countdowns -> 0 .. 1]
         /\ sleeping \in Nat
         /\ request \in fndP!Requests
         /\ is_playing \in BOOLEAN
         /\ mutex \in Callers \cup {Nobody}
         /\ music_thread_id \in Melodies \cup {NoThread, Stray}
         /\ melody \in [Melodies -> buzzerP!MelodyPlaces]
         /\ op \in [Callers -> buzzerP!Ops]
         /\ buzzer_at \in [Callers -> buzzerP!CallerPlaces]
         /\ joinee \in [Callers -> Melodies \cup {NoThread}]
         /\ Main \in Callers /\ Countdowns \subseteq Callers
         /\ Main \notin Countdowns /\ Nobody \notin Callers
  BY RingAssumption
  DEF RingAssumption, Callers, FndFacts, BuzzerFacts, fndP!TypeOK, buzzerP!TypeOK

-----------------------------------------------------------------------------
(* Nobody is left waiting.                                                 *)

(* While nobody can run, and nobody waits for itself, the lock is free and no
   caller is on its way through a buzzer function.                         *)
LEMMA LockIsFree ==
  ASSUME FndFacts, BuzzerFacts, NobodyRuns,
         \A c \in Callers : buzzer_at[c] # "self"
  PROVE  /\ mutex = Nobody
         /\ \A c \in Callers :
              buzzer_at[c] \notin {"join", "relock", "create", "detach"}
<1> USE Typing
<1>1. \A c \in Callers : ~CallerRuns(c)
  BY DEF NobodyRuns
<1>2. \A c \in Callers : buzzer_at[c] \notin {"join", "create", "detach"}
  BY <1>1 DEF CallerRuns
<1>3. mutex = Nobody
  BY <1>2 DEF BuzzerFacts, buzzerP!CallInv, buzzerP!LockHolders, buzzerP!Holding
<1> QED
  BY <1>1, <1>2, <1>3 DEF CallerRuns

(* Then every melody that is not over is in delay().                       *)
LEMMA MelodiesDoze ==
  ASSUME FndFacts, BuzzerFacts, Fitting, NobodyRuns,
         \A c \in Callers : buzzer_at[c] # "self",
         NEW m \in Melodies
  PROVE  melody[m] = "none" \/ note_nap[m] > 0
<1> USE Typing
<1>1. mutex = Nobody
  BY LockIsFree
<1>2. note_nap[m] \in 0 .. NoteTicks /\ NoteTicks \in Nat
  BY RingAssumption DEF RingAssumption, Fitting, MarksTyped
<1>3. melody[m] # "zombie"
  <2> SUFFICES ASSUME melody[m] = "zombie"
               PROVE  FALSE
    OBVIOUS
  <2>1. PICK c \in Callers : joinee[c] = m
    BY DEF BuzzerFacts, buzzerP!CallInv, buzzerP!Joins
  <2>2. buzzer_at[c] = "wait"
    BY <2>1, RingAssumption
    DEF RingAssumption, BuzzerFacts, buzzerP!CallInv, buzzerP!Joins
  <2> QED
    BY <2>1, <2>2 DEF NobodyRuns, CallerRuns
<1> QED
  BY <1>1, <1>2, <1>3 DEF NobodyRuns, MelodyRuns

LEMMA NobodyWaits ==
  ASSUME FndFacts, BuzzerFacts, Fitting
  PROVE  NobodyIsLeftWaiting
<1> USE Typing
<1> SUFFICES ASSUME Over, Alive, \A c \in Callers : buzzer_at[c] # "self"
             PROVE  /\ fnd_at \in {"idle", "gone"}
                    /\ buzzer_at[Main] \in {"idle", "gone"}
                    /\ \A t \in Countdowns : ~fnd!Live(t) /\ ~Inside(t)
                    /\ \A m \in Melodies : melody[m] = "none"
                    /\ ~tone
  BY DEF NobodyIsLeftWaiting
<1>0. NobodyRuns /\ Nothing
  BY DEF Over
<1>1. mutex = Nobody
  BY <1>0, LockIsFree
<1>2. \A m \in Melodies : melody[m] = "none"
  BY <1>0, MelodiesDoze DEF Nothing
<1>3. ~tone
  BY <1>2 DEF BuzzerFacts, buzzerP!SoundHasPlayer
<1>4. \A c \in Callers : buzzer_at[c] \in {"boot", "idle", "gone"}
  <2>1. \A c \in Callers : buzzer_at[c] # "wait"
    BY <1>2 DEF BuzzerFacts, buzzerP!CallInv, buzzerP!Joins
  <2> QED
    BY <1>0, <2>1, LockIsFree DEF buzzerP!CallerPlaces
<1>5. \A t \in Countdowns : ~Inside(t)
  BY <1>4 DEF BuzzerFacts, buzzerP!CallInv, buzzerP!CallsFit, Inside
<1>6. \A t \in Countdowns : ~fnd!Live(t)
  <2> SUFFICES ASSUME NEW t \in Countdowns, fnd!Live(t)
               PROVE  FALSE
    OBVIOUS
  <2>1. nap[t] = 0
    BY <1>0, <1>5 DEF Nothing, Dozing
  <2>2. CountdownRuns(t)
    BY <1>1, <1>5, <2>1 DEF CountdownRuns, fnd!CountdownRunnable
  <2> QED
    BY <1>0, <2>2 DEF NobodyRuns
<1>7. fnd_at \in {"idle", "gone"}
  BY <1>0 DEF NobodyRuns, MainRuns, fnd!MainRunnable, Nothing, FndFacts,
     fndP!TypeOK, fndP!MainPlaces, Fitting, OpenBetween
<1>8. buzzer_at[Main] \in {"idle", "gone"}
  BY <1>0, <1>4 DEF NobodyRuns, MainRuns
<1> QED
  BY <1>2, <1>3, <1>5, <1>6, <1>7, <1>8

-----------------------------------------------------------------------------
(* Steps of libsegment's main.                                             *)

LEMMA InitFitting == Init => Fitting
  BY RingAssumption
  DEF RingAssumption, Init, fnd!Init, buzzer!Init, Callers, Fitting, MarksTyped,
      OpenBetween, OneLibrary, InsideFits, Inside, MarksFit

(* A command of libsegment forgets marks, but none that are needed.        *)
LEMMA RenewsFitting ==
  ASSUME FndFacts, BuzzerFacts, Fitting, FndCommandAlone,
         commands' \in 0 .. MaxCommands
  PROVE  MarksTyped' /\ MarksFit'
<1> USE Typing DEF FndCommandAlone, RenewsMarks, buzzerVars
<1>1. MarksTyped'
  BY DEF Fitting, MarksTyped
<1>2. MarksFit'
  BY DEF Fitting, MarksFit
<1> QED
  BY <1>1, <1>2

LEMMA SegmentFitting ==
  ASSUME FndFacts, BuzzerFacts, Fitting, SegmentCommand
  PROVE  Fitting'
<1> USE Typing, RingAssumption
    DEF Command, FndCommandAlone, buzzerVars, fnd!flags, fnd!threads
<1>0. MarksTyped' /\ MarksFit'
  <2>1. commands' \in 0 .. MaxCommands
    BY DEF RingAssumption, SegmentCommand, Fitting, MarksTyped
  <2>2. FndCommandAlone
    BY DEF SegmentCommand
  <2> HIDE DEF FndCommandAlone
  <2> QED
    BY <2>1, <2>2, RenewsFitting
<1>2. fnd_ready /\ buzzer_lib
  BY DEF SegmentCommand, Fitting, OpenBetween
<1>3. OpenBetween'
  BY <1>2
  DEF SegmentCommand, fnd!CountdownEnter, fnd!OffEnter, fnd!StopEnter,
      fnd!Interrupts, Fitting, OpenBetween
<1>4. OneLibrary'
  BY <1>2
  DEF SegmentCommand, fnd!CountdownEnter, fnd!OffEnter, fnd!StopEnter,
      fnd!Interrupts, Inside, Fitting, OneLibrary
<1>5. InsideFits'
  <2>1. nap' = nap /\ \A t \in Countdowns : countdown[t] # "none" => countdown'[t] = countdown[t]
    BY <1>2
    DEF SegmentCommand, fnd!CountdownEnter, fnd!OffEnter, fnd!StopEnter,
        fnd!Interrupts, fnd!Creates
  <2> QED
    BY <2>1 DEF SegmentCommand, Fitting, InsideFits, Inside
<1> QED
  BY <1>0, <1>3, <1>4, <1>5 DEF Fitting

LEMMA FndMainFitting ==
  ASSUME FndFacts, BuzzerFacts, Fitting, UNCHANGED commands,
         \/ FndAlone /\ (fnd!FndInit \/ fnd!MainInside)
         \/ FndCommandAlone /\ ~Inside(Main) /\ fnd!CleanupEnter
  PROVE  Fitting'
<1> USE Typing DEF fnd!flags, fnd!threads, fnd!main
<1>0. UNCHANGED <<buzzerVars, note_nap>>
  BY DEF FndAlone, FndCommandAlone
<1>1. MarksTyped' /\ MarksFit'
  <2>1. CASE FndAlone
    BY <2>1 DEF FndAlone, buzzerVars, marks, Fitting, MarksTyped, MarksFit
  <2>2. CASE FndCommandAlone
    <3>1. commands' \in 0 .. MaxCommands
      BY DEF Fitting, MarksTyped
    <3> QED
      BY <2>2, <3>1, RenewsFitting
  <2> QED
    BY <2>1, <2>2
<1>2. OpenBetween' /\ OneLibrary'
  <2> USE <1>0 DEF buzzerVars, Fitting, OpenBetween, OneLibrary, Inside
  <2>1. CASE fnd!FndInit
    BY <2>1 DEF fnd!FndInit
  <2>2. CASE fnd!Join
    BY <2>2 DEF fnd!Join
  <2>3. CASE fnd!Relock
    BY <2>3 DEF fnd!Relock
  <2>4. CASE fnd!StopWake
    BY <2>4 DEF fnd!StopWake
  <2>5. CASE fnd!CleanupPeek
    BY <2>5 DEF fnd!CleanupPeek
  <2>6. CASE fnd!CleanupRelease
    BY <2>6 DEF fnd!CleanupRelease
  <2>7. CASE ~Inside(Main) /\ fnd!CleanupEnter
    BY <2>7 DEF fnd!CleanupEnter
  <2> QED
    BY <2>1, <2>2, <2>3, <2>4, <2>5, <2>6, <2>7 DEF fnd!MainInside
<1>3. InsideFits'
  <2>1. /\ nap' = nap
        /\ \A t \in Countdowns : countdown[t] # "none" => countdown'[t] = countdown[t]
    BY DEF fnd!FndInit, fnd!MainInside, fnd!Join, fnd!Relock, fnd!StopWake,
       fnd!CleanupPeek, fnd!CleanupRelease, fnd!CleanupEnter, fnd!Creates
  <2> QED
    BY <1>0, <2>1 DEF buzzerVars, Fitting, InsideFits, Inside
<1> QED
  BY <1>1, <1>2, <1>3 DEF Fitting

-----------------------------------------------------------------------------
(* Main's steps in libbuzzer.                                              *)

LEMMA BuzzerMainFitting ==
  ASSUME FndFacts, BuzzerFacts, Fitting, BuzzerAlone, UNCHANGED marks,
         commands' \in 0 .. MaxCommands,
         \/ fnd_at = "idle" /\ (buzzer!PlayEnter(Main) \/ Stops(Main))
         \/ fnd_at # "boot" /\ buzzer!BuzzerInit
         \/ fnd_at = "gone" /\ buzzer!CleanupEnter
  PROVE  Fitting'
<1> USE Typing DEF BuzzerAlone, fndVars, marks
<1>1. /\ melody' = melody
      /\ \A c \in Callers : c # Main => buzzer_at'[c] = buzzer_at[c] /\ op'[c] = op[c]
  BY DEF Stops, buzzer!PlayEnter, buzzer!StopEnter, buzzer!BuzzerInit,
     buzzer!CleanupEnter, buzzer!Calls, buzzer!Arrives, buzzerVars
<1>2. MarksTyped' /\ OpenBetween' /\ InsideFits' /\ MarksFit'
  BY <1>1 DEF Fitting, MarksTyped, OpenBetween, InsideFits, Inside, MarksFit
<1>3. OneLibrary'
  BY RingAssumption
  DEF Fitting, OneLibrary, Stops, buzzer!PlayEnter, buzzer!StopEnter,
      buzzer!BuzzerInit, buzzer!CleanupEnter, buzzer!Calls, buzzer!Arrives, buzzerVars
<1> QED
  BY <1>2, <1>3 DEF Fitting

-----------------------------------------------------------------------------
(* Countdowns.                                                             *)

LEMMA CountdownFitting ==
  ASSUME FndFacts, BuzzerFacts, Fitting, NEW t \in Countdowns,
         UNCHANGED commands, CountdownAlone(t)
  PROVE  Fitting'
<1> USE Typing DEF FndAlone, buzzerVars, marks, fnd!flags, fnd!main
<1>0. ~Inside(t) /\ FndAlone
  BY DEF CountdownAlone
<1>1. MarksTyped' /\ MarksFit'
  BY <1>0 DEF Fitting, MarksTyped, MarksFit
<1>2. fnd_at' = fnd_at /\ fnd_ready' = fnd_ready /\ (buzzer_lib => buzzer_lib')
  <2>1. fnd_at' = fnd_at /\ fnd_ready' = fnd_ready
    BY DEF CountdownAlone, fnd!Start, fnd!Top, fnd!Show, fnd!Poll, fnd!Zero,
       fnd!Ring, fnd!BlankOut, fnd!Finish
  <2>2. ASSUME fnd!Zero(t), buzzer_lib
        PROVE  buzzer_lib'
    BY <2>2, Zenon DEF fnd!Zero
  <2>3. ASSUME ~fnd!Zero(t)
        PROVE  buzzer_lib' = buzzer_lib
    BY <2>3 DEF CountdownAlone, fnd!Start, fnd!Top, fnd!Show, fnd!Poll, fnd!Ring,
       fnd!BlankOut, fnd!Finish
  <2> QED
    BY <2>1, <2>2, <2>3
<1>3. OpenBetween' /\ OneLibrary'
  BY <1>0, <1>2 DEF Fitting, OpenBetween, OneLibrary
<1>4. \A u \in Countdowns : u # t => countdown'[u] = countdown[u]
  BY DEF CountdownAlone, fnd!Start, fnd!Top, fnd!Show, fnd!Poll, fnd!Zero, fnd!Ring,
     fnd!BlankOut, fnd!Finish, fnd!Goes
<1>5. \A u \in Countdowns : u # t => nap'[u] = nap[u]
  BY DEF CountdownAlone, fnd!Start, fnd!Top, fnd!Show, fnd!Poll, fnd!Zero, fnd!Ring,
     fnd!BlankOut, fnd!Finish
<1>6. InsideFits'
  BY <1>0, <1>4, <1>5 DEF Fitting, InsideFits, Inside
<1> QED
  BY <1>1, <1>3, <1>6 DEF Fitting

LEMMA RingsFitting ==
  ASSUME FndFacts, BuzzerFacts, Fitting, NEW t \in Countdowns,
         UNCHANGED commands, Rings(t)
  PROVE  Fitting'
<1> USE Typing DEF Rings, fnd!CallPlay, fnd!Goes, fnd!flags, fnd!main, fnd!threads,
      buzzerVars, marks
<1>1. CASE buzzer_lib
  <2>1. /\ countdown' = [countdown EXCEPT ![t] = "ring"]
        /\ nap' = [nap EXCEPT ![t] = 1]
        /\ melody' = melody
        /\ op' = [op EXCEPT ![t] = "play"]
        /\ \A c \in Callers : c # t => buzzer_at'[c] = buzzer_at[c]
        /\ buzzer_at'[t] \in {"self", "join", "create"}
    BY <1>1 DEF buzzer!PlayEnter, buzzer!Calls, buzzer!Arrives
  <2>2. MarksTyped' /\ MarksFit' /\ OpenBetween' /\ OneLibrary'
    BY <2>1 DEF Fitting, MarksTyped, MarksFit, OpenBetween, OneLibrary
  <2>3. InsideFits'
    BY <2>1 DEF Fitting, InsideFits, Inside
  <2> QED
    BY <2>2, <2>3 DEF Fitting
<1>2. CASE ~buzzer_lib
  BY <1>2
  DEF Fitting, MarksTyped, MarksFit, OpenBetween, OneLibrary, InsideFits, Inside
<1> QED
  BY <1>1, <1>2

LEMMA HushesFitting ==
  ASSUME FndFacts, BuzzerFacts, Fitting, NEW t \in Countdowns,
         UNCHANGED commands, Hushes(t)
  PROVE  Fitting'
<1> USE Typing DEF Hushes, fnd!Hush, fnd!Goes, fnd!flags, fnd!main, buzzerVars
<1>1. /\ countdown' = [countdown EXCEPT ![t] = "blank"]
      /\ melody' = melody
      /\ \A c \in Callers : c # t => buzzer_at'[c] = buzzer_at[c] /\ op'[c] = op[c]
      /\ buzzer_at'[t] = "idle" \/ (buzzer_at'[t] = "join" /\ op'[t] = "stop")
  BY DEF Stops, buzzer!StopEnter, buzzer!Arrives, Inside
<1>2. MarksTyped' /\ MarksFit' /\ OpenBetween' /\ OneLibrary'
  BY <1>1 DEF Fitting, MarksTyped, MarksFit, OpenBetween, OneLibrary
<1>3. InsideFits'
  BY <1>1 DEF Fitting, InsideFits, Inside
<1> QED
  BY <1>2, <1>3 DEF Fitting

-----------------------------------------------------------------------------
(* Inside libbuzzer, and time.                                             *)

LEMMA CreditsTyped ==
  ASSUME MarksTyped, NEW c \in Callers \cup {Nobody}, Credits(c)
  PROVE  /\ player' \in [Melodies -> Callers \cup {Nobody}]
         /\ waited' \subseteq Countdowns
  BY DEF MarksTyped, Credits

LEMMA CallerFitting ==
  ASSUME FndFacts, BuzzerFacts, Fitting, NEW c \in Callers,
         UNCHANGED commands, InBuzzer(c)
  PROVE  Fitting'
<1> USE Typing DEF InBuzzer, BuzzerAlone, fndVars
<1>1. MarksTyped'
  BY CreditsTyped DEF Fitting, MarksTyped, Loses
<1>2. /\ \A d \in Callers : d # c => buzzer_at'[d] = buzzer_at[d] /\ op'[d] = op[d]
      /\ buzzer_at[c] # "idle"
      /\ buzzer_at'[c] = "idle" \/ op'[c] = op[c]
      /\ op'[c] = "cleanup" => op[c] = "cleanup"
      /\ buzzer_at'[c] = "gone" => op[c] = "cleanup"
  BY DEF buzzer!CallerInside, buzzer!Join, buzzer!Joined, buzzer!Relock,
     buzzer!Create, buzzer!Detach, buzzer!Arrives, buzzer!Returns
<1>3. OpenBetween'
  BY DEF Fitting, OpenBetween
<1>4. OneLibrary'
  <2>1. c = Main => fnd_at # "boot"
    BY DEF Fitting, OneLibrary, buzzer!CallerInside, buzzer!Join, buzzer!Joined,
       buzzer!Relock, buzzer!Create, buzzer!Detach
  <2> QED
    BY <1>2, <2>1 DEF Fitting, OneLibrary, BuzzerFacts, buzzerP!CallInv, buzzerP!CallsFit
<1>5. InsideFits'
  BY <1>2 DEF Fitting, InsideFits, Inside
<1>6. MarksFit'
  <2>1. \A t \in Countdowns : buzzer_at'[t] = "wait" => t \in waited'
    BY DEF Credits
  <2>2. \A m \in Melodies : player'[m] # Nobody => melody'[m] # "none"
    BY DEF Credits, Fitting, MarksFit
  <2>3. \A m \in Melodies : melody[m] = "check" => melody'[m] = "check"
    BY DEF buzzer!CallerInside, buzzer!Join, buzzer!Joined, buzzer!Relock,
       buzzer!Create, buzzer!Detach
  <2> QED
    BY <2>1, <2>2, <2>3 DEF Fitting, MarksFit
<1> QED
  BY <1>1, <1>3, <1>4, <1>5, <1>6 DEF Fitting

LEMMA MelodyFitting ==
  ASSUME FndFacts, BuzzerFacts, Fitting, NEW m \in Melodies,
         UNCHANGED commands, MelodyStep(m)
  PROVE  Fitting'
<1> USE Typing DEF MelodyStep, fndVars
<1>1. MarksTyped'
  BY CreditsTyped, RingAssumption DEF RingAssumption, Fitting, MarksTyped
<1>2. /\ buzzer_at' = buzzer_at /\ op' = op
      /\ \A n \in Melodies : n # m => melody'[n] = melody[n]
      /\ melody[m] # "none"
      /\ melody[m] = "write" => melody'[m] = "check"
  BY DEF buzzer!MelodyStep, buzzer!MelodyStart, buzzer!MelodyCheck,
     buzzer!MelodyWrite, buzzer!MelodySilence, buzzer!MelodyFinish
<1>3. OpenBetween' /\ OneLibrary' /\ InsideFits'
  BY <1>2 DEF Fitting, OpenBetween, OneLibrary, InsideFits, Inside
<1>4. MarksFit'
  <2>1. \A t \in Countdowns : buzzer_at'[t] = "wait" => t \in waited'
    BY DEF Credits
  <2>2. \A n \in Melodies : player'[n] # Nobody => melody'[n] # "none"
    BY <1>2 DEF Credits, Fitting, MarksFit
  <2>3. \A n \in Melodies : note_nap'[n] > 0 => melody'[n] = "check"
    BY <1>2 DEF Fitting, MarksFit, MarksTyped
  <2> QED
    BY <2>1, <2>2, <2>3 DEF MarksFit
<1> QED
  BY <1>1, <1>3, <1>4 DEF Fitting

LEMMA TickFitting ==
  ASSUME FndFacts, BuzzerFacts, Fitting, UNCHANGED commands, Tick
  PROVE  Fitting'
<1> USE Typing DEF Tick, buzzerVars, marks
<1>1. /\ \A m \in Melodies : note_nap[m] \in 0 .. NoteTicks
      /\ NoteTicks \in Nat
  BY RingAssumption DEF RingAssumption, Fitting, MarksTyped
<1>2. MarksTyped'
  BY <1>1 DEF Fitting, MarksTyped
<1>3. MarksFit'
  BY <1>1 DEF Fitting, MarksFit
<1>4. OpenBetween' /\ OneLibrary'
  BY DEF Fitting, OpenBetween, OneLibrary
<1>5. InsideFits'
  BY DEF Fitting, InsideFits, Inside, Dozing
<1> QED
  BY <1>2, <1>3, <1>4, <1>5 DEF Fitting

LEMMA NextFitting ==
  ASSUME FndFacts, BuzzerFacts, Fitting, [Next]_vars
  PROVE  Fitting'
<1> USE Typing
<1>1. CASE SegmentCommand
  BY <1>1, SegmentFitting
<1>2. CASE BuzzerCommand
  <2>1. commands' \in 0 .. MaxCommands
    BY <1>2, RingAssumption
    DEF RingAssumption, BuzzerCommand, Command, Fitting, MarksTyped
  <2> QED
    BY <1>2, <2>1, BuzzerMainFitting DEF BuzzerCommand, Command
<1>3. CASE (Boot \/ Leave) /\ UNCHANGED commands
  <2>1. commands' \in 0 .. MaxCommands
    BY <1>3 DEF Fitting, MarksTyped
  <2> QED
    BY <1>3, <2>1, BuzzerMainFitting, FndMainFitting DEF Boot, Leave
<1>4. CASE MainInside /\ UNCHANGED commands
  BY <1>4, FndMainFitting DEF MainInside
<1>5. ASSUME NEW t \in Countdowns, UNCHANGED commands,
             CountdownAlone(t) \/ Rings(t) \/ Hushes(t)
      PROVE  Fitting'
  BY <1>5, CountdownFitting, RingsFitting, HushesFitting
<1>6. ASSUME NEW c \in Callers, UNCHANGED commands, InBuzzer(c)
      PROVE  Fitting'
  BY <1>6, CallerFitting
<1>7. ASSUME NEW m \in Melodies, UNCHANGED commands, MelodyStep(m)
      PROVE  Fitting'
  BY <1>7, MelodyFitting
<1>8. CASE Tick /\ UNCHANGED commands
  BY <1>8, TickFitting
<1>9. CASE UNCHANGED vars
  BY <1>9
  DEF vars, fndVars, buzzerVars, marks, Fitting, MarksTyped, OpenBetween,
      OneLibrary, InsideFits, Inside, MarksFit
<1> QED
  BY <1>1, <1>2, <1>3, <1>4, <1>5, <1>6, <1>7, <1>8, <1>9 DEF Next, Runs

LEMMA SpecFitting == Spec => []Fitting
<1>1. FndFacts /\ BuzzerFacts /\ Fitting /\ [Next]_vars => Fitting'
  BY NextFitting
<1> QED
  BY <1>1, InitFitting, SpecFacts, PTL DEF Spec

(* In every reachable state of the composition the variables of both libraries
   and of their clock have their types.                                    *)
THEOREM RingTypeCorrect == Spec => []TypeOK
<1>1. fndP!TypeOK => fnd!TypeOK
  BY DEF fnd!TypeOK, fndP!TypeOK, fnd!Digits, fndP!Digits, fnd!CountdownPlaces,
     fndP!CountdownPlaces, fnd!MaxPolls, fndP!MaxPolls, fnd!Requests,
     fndP!Requests, fnd!MainPlaces, fndP!MainPlaces, fnd!Commands, fndP!Commands
<1>2. buzzerP!TypeOK => buzzer!TypeOK
  BY DEF buzzer!TypeOK, buzzerP!TypeOK, buzzer!MelodyPlaces, buzzerP!MelodyPlaces,
     buzzer!Ops, buzzerP!Ops, buzzer!CallerPlaces, buzzerP!CallerPlaces
<1>3. FndFacts /\ BuzzerFacts /\ Fitting => TypeOK
  BY <1>1, <1>2 DEF FndFacts, BuzzerFacts, Fitting, MarksTyped, TypeOK
<1> QED
  BY <1>3, SpecFacts, SpecFitting, PTL

(* Whatever the commands and however they meet the countdowns and the melodies,
   the two locks and the joins keep nobody waiting for ever, unless the buzzer
   is missing: when nothing more can happen everything is over and silent.   *)
THEOREM RingsComeToAnEnd == Spec => []NobodyIsLeftWaiting
<1>1. FndFacts /\ BuzzerFacts /\ Fitting => NobodyIsLeftWaiting
  BY NobodyWaits
<1> QED
  BY <1>1, SpecFacts, SpecFitting, PTL

-----------------------------------------------------------------------------
(* The end of a ring and of the sleeps.                                    *)

(* A melody that rings for a countdown was begun on a device that works, so
   that nobody waits for itself.                                           *)
LEMMA RungIsReady ==
  ASSUME FndFacts, BuzzerFacts, Fitting, NEW m \in Melodies, Rung(m)
  PROVE  /\ melody[m] # "none" /\ player[m] \in Countdowns
         /\ buzzer_ready
         /\ \A c \in Callers : buzzer_at[c] # "self"
<1> USE Typing
<1>1. melody[m] # "none"
  BY DEF Rung, Fitting, MarksFit
<1>2. buzzer_at[Main] # "gone"
  BY DEF Rung, Fitting, OneLibrary
<1>3. buzzer_ready
  BY <1>1, <1>2 DEF BuzzerFacts, buzzerP!CallInv, buzzerP!DeviceFits
<1> QED
  BY <1>1, <1>3 DEF Rung, BuzzerFacts, buzzerP!CallInv, buzzerP!DeviceFits

LEMMA TickLengths ==
  /\ NoteTicks \in Nat /\ StopTicks \in Nat /\ CleanupTicks \in Nat
  /\ StopTicks > NoteTicks + 1 /\ CleanupTicks > 1
  BY RingAssumption DEF RingAssumption

LEMMA InitInTime == Init => InTime
  BY DEF Init, fnd!Init, buzzer!Init, fnd!NoRequest, InTime, HandleIsKept,
     RingIsLone, RingsAreHeard, CountdownInTime, MelodyInTime, OverThen, LoneSleep,
     LoneStop, Rung, Going

(* Main's steps in libbuzzer change nothing of this.                       *)
LEMMA BuzzerMainInTime ==
  ASSUME FndFacts, BuzzerFacts, Fitting, InTime, BuzzerAlone, UNCHANGED marks,
         buzzer!PlayEnter(Main) \/ Stops(Main) \/ buzzer!BuzzerInit \/
         buzzer!CleanupEnter
  PROVE  InTime'
<1> USE Typing DEF BuzzerAlone, fndVars, marks
<1>1. /\ melody' = melody /\ music_thread_id' = music_thread_id
      /\ \A t \in Countdowns : buzzer_at'[t] = buzzer_at[t]
      /\ Going' => Going
  BY DEF Stops, buzzer!PlayEnter, buzzer!StopEnter, buzzer!BuzzerInit,
     buzzer!CleanupEnter, buzzer!Calls, buzzer!Arrives, buzzerVars, Going
<1>2. \A m \in Melodies : Rung(m)' <=> Rung(m)
  BY <1>1 DEF Rung
<1>3. \A t \in Countdowns : Free(t)' <=> Free(t)
  BY <1>1 DEF Free, HeldUp, fnd!Live
<1>4. \A m \in Melodies : ToEnd(m)' <=> ToEnd(m)
  BY <1>2 DEF ToEnd, Hushed
<1>5. HandleIsKept' /\ RingIsLone'
  BY <1>1, <1>2 DEF InTime, HandleIsKept, RingIsLone, LoneStop, LoneSleep, fnd!Live
<1>6. RingsAreHeard'
  BY <1>1, <1>4 DEF InTime, RingsAreHeard, LoneStop, LoneSleep, ToEnd, Rung
<1>7. CountdownInTime'
  BY <1>3 DEF InTime, CountdownInTime, LoneSleep, Awaited
<1>8. MelodyInTime'
  BY <1>1, <1>4 DEF InTime, MelodyInTime, LoneStop, LoneSleep, Remaining
<1>9. OverThen'
  BY <1>2, <1>3 DEF InTime, OverThen
<1> QED
  BY <1>5, <1>6, <1>7, <1>8, <1>9 DEF InTime

(* A command of libsegment takes over only rings of countdowns that are still
   ringing: fnd_stop finds them before buzzer_stop, or in its join.        *)
LEMMA SegmentInTime ==
  ASSUME FndFacts, BuzzerFacts, Fitting, InTime, SegmentCommand
  PROVE  InTime'
<1> USE Typing, TickLengths
    DEF SegmentCommand, Command, FndCommandAlone, RenewsMarks, buzzerVars, fnd!flags,
        fnd!threads
<1>0. fnd_ready
  BY DEF Fitting, OpenBetween
<1>1. /\ fnd_at' \in {"idle", "join", "sleep"}
      /\ fnd_at' = "sleep" => fnd!StopEnter /\ request'.op = "stop" /\ sleeping' = StopTicks
      /\ fnd_at' = "idle" /\ request'.op = "stop" => ~request'.lone
  <2> USE DEF fnd!Interrupts, fnd!Takes, fnd!NoRequest
  <2>1. ASSUME NEW n \in fnd!Digits, fnd!CountdownEnter(n)
        PROVE  fnd_at' \in {"idle", "join"} /\ request'.op # "stop"
    BY <1>0, <2>1 DEF fnd!CountdownEnter
  <2>2. CASE fnd!OffEnter
    BY <2>2 DEF fnd!OffEnter
  <2>3. CASE fnd!StopEnter
    BY <2>3 DEF fnd!StopEnter
  <2> QED
    BY <2>1, <2>2, <2>3
<1>2. \A m \in Melodies : Rung(m)' =>
        Rung(m) /\ player'[m] = player[m] /\ Ringing(player[m])
  BY RingAssumption DEF Rung, RingAssumption
<1>3. HandleIsKept'
  BY <1>2 DEF InTime, HandleIsKept, Going
<1>4. ASSUME LoneStop'
      PROVE  RingIsLone' /\ RingsAreHeard'
  <2>1. countdown' = countdown /\ \A t, u \in Countdowns : fnd!Live(t) /\ fnd!Live(u) => t = u
    <3>1. fnd!StopEnter /\ request'.lone /\ fnd_at' = "sleep"
      BY <1>1, <1>4 DEF LoneStop, LoneSleep
    <3>2. countdown' = countdown
      BY <3>1 DEF fnd!StopEnter, fnd!Interrupts
    <3>3. fnd!Alone
      BY <3>1 DEF fnd!StopEnter, fnd!Takes, fnd!NoRequest
    <3> QED
      BY <3>2, <3>3 DEF fnd!Alone
  <2>2. \A t \in Countdowns : Ringing(t) => fnd!Live(t)
    BY DEF Ringing, fnd!Live, Fitting, InsideFits
  <2>3. RingIsLone'
    BY <1>2, <2>1, <2>2 DEF RingIsLone, fnd!Live, Rung
  <2>4. ASSUME NEW m \in Melodies, ToEnd(m)'
        PROVE  buzzer_at[player'[m]] \in {"join", "relock"}
    <3>1. Rung(m) /\ Inside(player[m]) /\ player'[m] = player[m]
      BY <1>2, <2>1, <2>4 DEF ToEnd, Hushed, Ringing
    <3>2. op[player[m]] = "stop"
      BY <2>1, <2>4, <3>1 DEF ToEnd, Hushed, Rung, Fitting, InsideFits
    <3>3. buzzer_at[player[m]] \notin {"idle", "self", "create", "detach", "boot", "gone"}
      BY <3>1, <3>2, RungIsReady
      DEF Inside, Rung, BuzzerFacts, buzzerP!CallInv, buzzerP!CallsFit
    <3>4. buzzer_at[player[m]] # "wait"
      BY <2>4, <3>1 DEF ToEnd, Rung, Fitting, MarksFit
    <3> QED
      BY <3>1, <3>3, <3>4 DEF Rung, buzzerP!CallerPlaces
  <2> QED
    BY <2>3, <2>4 DEF RingsAreHeard
<1>5. CountdownInTime'
  BY <1>1 DEF CountdownInTime, LoneSleep, Awaited
<1>6. MelodyInTime'
  BY <1>1 DEF MelodyInTime, LoneStop, LoneSleep, Remaining, Fitting, MarksTyped
<1>7. OverThen'
  BY <1>1 DEF OverThen
<1> QED
  BY <1>3, <1>4, <1>5, <1>6, <1>7 DEF InTime, RingIsLone, RingsAreHeard

LEMMA FndMainInTime ==
  ASSUME FndFacts, BuzzerFacts, Fitting, InTime,
         \/ FndAlone /\ (fnd!FndInit \/ fnd!MainInside)
         \/ FndCommandAlone /\ fnd!CleanupEnter
  PROVE  InTime'
<1> USE Typing, TickLengths DEF buzzerVars, fnd!flags, fnd!threads, fnd!main
<1>1. /\ UNCHANGED <<buzzerVars, note_nap, lost>>
      /\ \A m \in Melodies : player'[m] \in {player[m], Nobody}
      /\ ~fnd!CleanupEnter => UNCHANGED <<player, waited>>
  BY DEF FndAlone, FndCommandAlone, RenewsMarks, marks, Fitting, MarksTyped
<1>2. /\ fnd_at # "gone"
      /\ fnd_at' = "sleep" => request'.op = "cleanup" /\ sleeping' = CleanupTicks
  BY DEF fnd!FndInit, fnd!MainInside, fnd!Join, fnd!Relock, fnd!StopWake,
     fnd!CleanupPeek, fnd!CleanupRelease, fnd!CleanupEnter, FndFacts,
     fndP!Places, fndP!WaitsForCommand
<1>3. \A m \in Melodies : Rung(m)' => Rung(m)
  BY <1>1, <1>2 DEF Rung
<1>4. HandleIsKept'
  BY <1>1, <1>3 DEF InTime, HandleIsKept, Going
<1>5. CountdownInTime'
  BY <1>2 DEF CountdownInTime, LoneSleep, Awaited
<1>6. RingIsLone' /\ RingsAreHeard' /\ MelodyInTime'
  BY <1>2 DEF RingIsLone, RingsAreHeard, MelodyInTime, LoneStop, LoneSleep
<1>7. OverThen'
  <2>1. CASE fnd!FndInit
    BY <2>1 DEF fnd!FndInit, OverThen, FndFacts, fndP!Places, fndP!WaitsForCommand
  <2>2. CASE fnd!Join
    BY <2>2 DEF fnd!Join, OverThen
  <2>3. CASE fnd!Relock
    <3>1. request'.op = request.op /\ request.op # "stop"
      BY <2>3 DEF fnd!Relock, fndP!Requests
    <3> QED
      BY <2>3, <3>1 DEF fnd!Relock, OverThen
  <2>4. CASE fnd!StopWake
    <3>1. ASSUME request.lone, NEW t \in Countdowns
          PROVE  ~Free(t)
      BY <2>4, <3>1 DEF fnd!StopWake, InTime, CountdownInTime, LoneSleep, Awaited
    <3>2. ASSUME request.lone, NEW m \in Melodies, Rung(m), player[m] \notin waited
          PROVE  FALSE
      <4>1. ~Hushed(m)
        BY <2>4, <3>2
        DEF fnd!StopWake, InTime, MelodyInTime, LoneStop, LoneSleep, ToEnd, Remaining,
            Fitting, MarksTyped
      <4>2. Free(player[m])
        BY <3>2, <4>1, RungIsReady DEF Hushed, Free, fnd!Live, HeldUp, Rung
      <4> QED
        BY <3>1, <3>2, <4>2, RungIsReady
    <3> QED
      <4>1. ~fnd!CleanupEnter
        BY <2>4 DEF fnd!StopWake, fnd!CleanupEnter
      <4> QED
        BY <1>1, <2>4, <3>1, <3>2, <4>1
        DEF fnd!StopWake, OverThen, Free, fnd!Live, HeldUp, Rung
  <2>5. CASE fnd!CleanupPeek
    <3>1. ASSUME request.lone, ~fnd!Known, NEW t \in Countdowns
          PROVE  ~fnd!Live(t)
      BY <2>5, <3>1
      DEF fnd!CleanupPeek, fnd!Live, fndP!Live, fnd!Known, fndP!Known, FndFacts,
          fndP!Lonely, fndP!StaysKnown, fndP!LoneWait
    <3> QED
      BY <2>5, <3>1 DEF fnd!CleanupPeek, OverThen, Free, fnd!Live
  <2>6. CASE fnd!CleanupRelease
    <3>1. ASSUME request.lone, NEW t \in Countdowns
          PROVE  ~Free(t)
      BY <2>6, <3>1
      DEF fnd!CleanupRelease, InTime, CountdownInTime, OverThen, LoneSleep, Awaited
    <3> QED
      <4>1. ~fnd!CleanupEnter
        BY <2>6 DEF fnd!CleanupRelease, fnd!CleanupEnter
      <4> QED
        BY <1>1, <2>6, <3>1, <4>1
        DEF fnd!CleanupRelease, OverThen, Free, fnd!Live, HeldUp
  <2>7. CASE fnd!CleanupEnter
    BY <2>7 DEF fnd!CleanupEnter, OverThen
  <2> QED
    BY <2>1, <2>2, <2>3, <2>4, <2>5, <2>6, <2>7 DEF fnd!MainInside
<1> QED
  BY <1>4, <1>5, <1>6, <1>7 DEF InTime

(* A countdown outside of libbuzzer: once told, it does not doze again.    *)
LEMMA CountdownInTimeKept ==
  ASSUME FndFacts, BuzzerFacts, Fitting, InTime, NEW t \in Countdowns,
         CountdownAlone(t)
  PROVE  InTime'
<1> USE Typing DEF FndAlone, buzzerVars, marks, fnd!flags, fnd!main
<1>0. ~Inside(t) /\ FndAlone
  BY DEF CountdownAlone
<1>1. /\ request' = request /\ fnd_at' = fnd_at /\ sleeping' = sleeping
      /\ fnd!Live(t)
  BY DEF CountdownAlone, fnd!Start, fnd!Top, fnd!Show, fnd!Poll, fnd!Zero, fnd!Ring,
     fnd!BlankOut, fnd!Finish, fnd!Goes, fnd!Live
<1>2. \A u \in Countdowns : u # t => countdown'[u] = countdown[u]
  BY DEF CountdownAlone, fnd!Start, fnd!Top, fnd!Show, fnd!Poll, fnd!Zero, fnd!Ring,
     fnd!BlankOut, fnd!Finish, fnd!Goes
<1>3. \A u \in Countdowns : u # t => nap'[u] = nap[u]
  BY DEF CountdownAlone, fnd!Start, fnd!Top, fnd!Show, fnd!Poll, fnd!Zero, fnd!Ring,
     fnd!BlankOut, fnd!Finish
<1>4. countdown'[t] \in {"ring", "hush"} <=> countdown[t] \in {"ring", "hush"}
  BY DEF CountdownAlone, fnd!Start, fnd!Top, fnd!Show, fnd!Poll, fnd!Zero, fnd!Ring,
     fnd!BlankOut, fnd!Finish, fnd!Goes
<1>5. \A m \in Melodies : Rung(m)' <=> Rung(m)
  BY <1>0, <1>1 DEF Rung
<1>6. \A m \in Melodies : ToEnd(m)' <=> ToEnd(m)
  BY <1>0, <1>2, <1>4, <1>5 DEF ToEnd, Rung, Hushed
<1>7. \A u \in Countdowns : (fnd!Live(u)' => fnd!Live(u)) /\ (Free(u)' => Free(u))
  BY <1>0, <1>1, <1>2 DEF Free, HeldUp, fnd!Live
<1>8. HandleIsKept' /\ RingIsLone' /\ RingsAreHeard'
  BY <1>0, <1>1, <1>5, <1>6, <1>7
  DEF InTime, HandleIsKept, Going, RingIsLone, RingsAreHeard, LoneStop, LoneSleep
<1>9. CountdownInTime'
  <2> SUFFICES ASSUME LoneSleep, NEW u \in Countdowns, Free(u), u = t
               PROVE  nap'[u] > 0 \/ countdown'[u] \in {"show", "zero", "call"}
                        => nap[u] > 0 \/ countdown[u] \in {"show", "zero", "call"}
    BY <1>1, <1>2, <1>3, <1>7 DEF InTime, CountdownInTime, LoneSleep, Awaited
  <2>1. fnd!ShouldStop
    BY DEF LoneSleep, Free, fnd!Live, fnd!ShouldStop, FndFacts, fndP!Lonely,
       fndP!StaysTold, fndP!LoneWait, fndP!Live, fndP!ShouldStop
  <2> QED
    BY <2>1
    DEF CountdownAlone, fnd!Start, fnd!Top, fnd!Show, fnd!Poll, fnd!Zero, fnd!Ring,
        fnd!BlankOut, fnd!Finish, fnd!Goes
<1>10. MelodyInTime'
  BY <1>0, <1>1, <1>6 DEF InTime, MelodyInTime, LoneStop, LoneSleep, Remaining
<1>11. OverThen'
  BY <1>0, <1>1, <1>5, <1>7 DEF InTime, OverThen
<1> QED
  BY <1>8, <1>9, <1>10, <1>11 DEF InTime

LEMMA RingsInTime ==
  ASSUME FndFacts, BuzzerFacts, Fitting, InTime, NEW t \in Countdowns, Rings(t)
  PROVE  InTime'
<1> USE Typing, TickLengths
    DEF Rings, fnd!CallPlay, fnd!Goes, fnd!flags, fnd!main, fnd!threads
<1>1. /\ \A u \in Countdowns : u # t => countdown'[u] = countdown[u] /\ buzzer_at'[u] = buzzer_at[u]
      /\ melody' = melody /\ music_thread_id' = music_thread_id /\ note_nap' = note_nap
      /\ request' = request /\ fnd_at' = fnd_at /\ sleeping' = sleeping
      /\ Going' => Going
  <2>1. CASE buzzer_lib
    BY <2>1 DEF buzzer!PlayEnter, buzzer!Calls, buzzer!Arrives, Going
  <2>2. CASE ~buzzer_lib
    BY <2>2 DEF buzzerVars, Going
  <2> QED
    BY <2>1, <2>2
<1>2. countdown[t] = "call" /\ fnd!Live(t)
  BY DEF fnd!Live
<1>3. \A m \in Melodies : Rung(m)' => Rung(m) /\ player'[m] = player[m] /\ player[m] # t
  BY <1>1, RingAssumption DEF Rung, Fitting, MarksTyped, RingAssumption, Callers
<1>4. \A m \in Melodies : ToEnd(m)' => ToEnd(m)
  BY <1>1, <1>3 DEF ToEnd, Hushed, Rung
<1>5. \A u \in Countdowns : (fnd!Live(u)' => fnd!Live(u)) /\ (Free(u)' => Free(u))
  <2>1. waited' = waited
    OBVIOUS
  <2>2. \A u \in Countdowns : fnd!Live(u)' => fnd!Live(u)
    BY <1>1, <1>2 DEF fnd!Live
  <2>3. buzzer_at[t] # "self"
    <3>1. CASE buzzer_lib
      BY <3>1 DEF buzzer!PlayEnter, buzzer!Calls
    <3>2. CASE ~buzzer_lib
      BY <1>2, <3>2 DEF Fitting, InsideFits, Inside
    <3> QED
      BY <3>1, <3>2
  <2> QED
    BY <1>1, <2>1, <2>2, <2>3 DEF Free, HeldUp
<1>6. HandleIsKept' /\ RingIsLone'
  BY <1>1, <1>3, <1>5 DEF InTime, HandleIsKept, RingIsLone, LoneStop, LoneSleep
<1>7. RingsAreHeard'
  BY <1>1, <1>3, <1>4 DEF InTime, RingsAreHeard, LoneStop, LoneSleep, ToEnd, Rung
<1>8. CountdownInTime'
  <2>1. LoneSleep /\ Free(t) => sleeping = Awaited
    BY <1>2 DEF InTime, CountdownInTime
  <2>2. \A u \in Countdowns : u # t => nap'[u] = nap[u]
    OBVIOUS
  <2> QED
    BY <1>1, <1>5, <2>1, <2>2 DEF InTime, CountdownInTime, LoneSleep, Awaited
<1>9. MelodyInTime'
  BY <1>1, <1>4 DEF InTime, MelodyInTime, LoneStop, LoneSleep, Remaining
<1>10. OverThen'
  BY <1>1, <1>3, <1>5 DEF InTime, OverThen
<1> QED
  BY <1>6, <1>7, <1>8, <1>9, <1>10 DEF InTime

(* buzzer_stop meets its melody: it has a handle, so either is_playing is set
   and gets cleared, or it is clear and will not be set, unless the melody is
   lost; and what the note has left is less than what main still sleeps.   *)
LEMMA HushesInTime ==
  ASSUME FndFacts, BuzzerFacts, Fitting, InTime, NEW t \in Countdowns, Hushes(t)
  PROVE  InTime'
<1> USE Typing, TickLengths
    DEF Hushes, fnd!Hush, fnd!Goes, fnd!flags, fnd!main, buzzerVars
<1>1. /\ countdown[t] = "hush"
      /\ countdown' = [countdown EXCEPT ![t] = "blank"]
      /\ melody' = melody /\ music_thread_id' = music_thread_id
      /\ buzzer_at[t] = "idle" /\ buzzer_at'[t] # "self"
      /\ \A c \in Callers : c # t => buzzer_at'[c] = buzzer_at[c]
  BY DEF Stops, buzzer!StopEnter, buzzer!Arrives, Inside
<1>2. Going' => Going
  BY DEF Stops, buzzer!StopEnter, Going
<1>3. \A m \in Melodies : Rung(m)' => Rung(m)
  BY DEF Rung
<1>4. \A u \in Countdowns : (fnd!Live(u)' => fnd!Live(u)) /\ (Free(u)' => Free(u))
  BY <1>1 DEF Free, HeldUp, fnd!Live
<1>5. \A m \in Melodies : ToEnd(m)' => ToEnd(m) \/ player[m] = t
  BY <1>1, <1>3 DEF ToEnd, Hushed, Rung
<1>6. HandleIsKept' /\ RingIsLone'
  BY <1>1, <1>2, <1>3, <1>4 DEF InTime, HandleIsKept, RingIsLone, LoneStop, LoneSleep
<1>7. ASSUME NEW m \in Melodies, Rung(m)', player[m] = t
      PROVE  ~Going' \/ buzzer_at'[t] \in {"join", "relock"}
  <2>1. Rung(m) /\ (is_playing \/ ~Going)
    BY <1>3, <1>7 DEF Rung
  <2>2. buzzer_lib
    BY <1>1, <2>1
    DEF Rung, Fitting, OpenBetween, FndFacts, fndP!Places, fndP!BuzzerStaysOpen,
        fndP!Live
  <2>3. buzzer!StopEnter(t)
    BY <2>1, <2>2, RungIsReady DEF Stops
  <2>4. CASE is_playing
    <3>1. music_thread_id # NoThread
      BY <2>1, <2>4 DEF InTime, HandleIsKept, Going
    <3> QED
      BY <2>3, <2>4, <3>1 DEF buzzer!StopEnter, buzzer!Interruptible, buzzer!Arrives
  <2>5. CASE ~Going
    BY <1>2, <2>5
  <2> QED
    BY <2>1, <2>4, <2>5
<1>8. RingsAreHeard'
  <2> SUFFICES ASSUME LoneStop, NEW m \in Melodies, ToEnd(m)'
               PROVE  ~Going' \/ buzzer_at'[player[m]] \in {"join", "relock"}
    BY DEF RingsAreHeard, LoneStop, LoneSleep
  <2>1. CASE player[m] = t
    BY <1>7, <2>1 DEF ToEnd
  <2>2. CASE player[m] # t
    BY <1>1, <1>2, <1>3, <1>5, <2>2 DEF InTime, RingsAreHeard, ToEnd, Rung
  <2> QED
    BY <2>1, <2>2
<1>9. CountdownInTime'
  BY <1>1, <1>4 DEF InTime, CountdownInTime, LoneSleep, Awaited
<1>10. MelodyInTime'
  <2> SUFFICES ASSUME LoneStop, NEW m \in Melodies, ToEnd(m)'
               PROVE  sleeping > Remaining(m)
    BY <1>1 DEF MelodyInTime, LoneStop, LoneSleep, Remaining
  <2>1. CASE player[m] # t
    BY <1>5, <2>1 DEF InTime, MelodyInTime
  <2>2. CASE player[m] = t
    <3>1. Free(t)
      BY <1>1, <2>2 DEF ToEnd, Free, HeldUp, fnd!Live
    <3>2. sleeping \in {StopTicks - 1, StopTicks}
      BY <3>1 DEF InTime, CountdownInTime, Awaited, LoneStop
    <3> QED
      BY <3>2 DEF Remaining, Fitting, MarksTyped
  <2> QED
    BY <2>1, <2>2
<1>11. OverThen'
  BY <1>3, <1>4 DEF InTime, OverThen
<1> QED
  BY <1>6, <1>8, <1>9, <1>10, <1>11 DEF InTime

(* A caller inside libbuzzer.  Only pthread_create adds a ring, and only to the
   countdown that is in its ring; only the end of a join takes the handle away,
   and then every melody that still plays is lost.                         *)
LEMMA CallerInTime ==
  ASSUME FndFacts, BuzzerFacts, Fitting, InTime, NEW c \in Callers, InBuzzer(c)
  PROVE  InTime'
<1> USE Typing DEF InBuzzer, BuzzerAlone, fndVars
<1>1. /\ is_playing' = is_playing
      /\ \A d \in Callers : buzzer_at'[d] = "self" <=> buzzer_at[d] = "self"
      /\ \A d \in Callers : d # c => buzzer_at'[d] = buzzer_at[d]
      /\ waited \subseteq waited' /\ lost \subseteq lost'
  BY DEF buzzer!CallerInside, buzzer!Join, buzzer!Joined, buzzer!Relock,
     buzzer!Create, buzzer!Detach, buzzer!Arrives, buzzer!Returns, Credits, Loses
<1>2. \A m \in Melodies :
        \/ melody'[m] = "none"
        \/ melody'[m] = melody[m]
        \/ /\ melody[m] = "none" /\ melody'[m] = "start"
           /\ buzzer_at[c] = "create" /\ music_thread_id' = m
  BY DEF buzzer!CallerInside, buzzer!Join, buzzer!Joined, buzzer!Relock,
     buzzer!Create, buzzer!Detach
<1>3. Going' => Going \/ (buzzer_at[c] = "create" /\ music_thread_id' \in Melodies)
  BY <1>1, <1>2 DEF Going
<1>4. music_thread_id' = NoThread => music_thread_id = NoThread \/ buzzer_at[c] = "relock"
  BY RingAssumption
  DEF RingAssumption, buzzer!CallerInside, buzzer!Join, buzzer!Joined, buzzer!Relock,
      buzzer!Create, buzzer!Detach
<1>5. \A u \in Countdowns : Free(u)' => Free(u)
  BY <1>1 DEF Free, HeldUp, fnd!Live
<1> DEFINE New(m) ==
      /\ buzzer_at[c] = "create" /\ music_thread_id' = m
      /\ c \in Countdowns /\ fnd!Live(c) /\ countdown[c] = "ring"
      /\ player'[m] = c
<1>6. ASSUME NEW m \in Melodies, Rung(m)'
      PROVE  \/ Rung(m) /\ player'[m] = player[m] /\ melody'[m] = melody[m]
             \/ New(m)
  <2>1. melody'[m] # "none"
    BY <1>6, RingAssumption DEF Rung, Credits, RingAssumption, Callers
  <2>2. CASE melody'[m] = melody[m]
    BY <1>1, <1>6, <2>1, <2>2 DEF Rung, Credits
  <2>3. CASE /\ melody[m] = "none" /\ melody'[m] = "start"
             /\ buzzer_at[c] = "create" /\ music_thread_id' = m
    <3>1. player'[m] = c /\ c \in Countdowns
      BY <1>6, <2>3 DEF Rung, Credits
    <3>2. countdown[c] = "ring" /\ fnd!Live(c)
      BY <2>3, <3>1
      DEF BuzzerFacts, buzzerP!CallInv, buzzerP!CallsFit, Fitting, InsideFits, Inside,
          fnd!Live
    <3> QED
      BY <2>3, <3>1, <3>2
  <2> QED
    BY <1>2, <2>1, <2>2, <2>3
<1>7. HandleIsKept'
  <2> SUFFICES ASSUME NEW m \in Melodies, Rung(m)', music_thread_id' = NoThread, Going'
               PROVE  FALSE
    BY DEF HandleIsKept
  <2>1. NoThread \notin Melodies
    BY RingAssumption DEF RingAssumption
  <2>2. Rung(m) /\ player'[m] = player[m]
    BY <1>6, <2>1
  <2>3. Going
    BY <1>3, <2>1
  <2>4. buzzer_at[c] = "relock"
    BY <1>4, <2>2, <2>3 DEF InTime, HandleIsKept
  <2>5. player[m] \in lost'
    BY <2>2, <2>3, <2>4 DEF Loses, Rung
  <2> QED
    BY <2>2, <2>5 DEF Rung
<1>8. RingIsLone'
  <2> SUFFICES ASSUME LoneStop, NEW m \in Melodies, NEW t \in Countdowns,
                      Rung(m)', fnd!Live(t)
               PROVE  player'[m] = t
    BY DEF RingIsLone, LoneStop, LoneSleep, fnd!Live
  <2>1. CASE Rung(m) /\ player'[m] = player[m]
    BY <2>1 DEF InTime, RingIsLone
  <2>2. CASE New(m)
    <3>1. fndP!Live(c) /\ fndP!Live(t)
      BY <2>2 DEF fndP!Live, fnd!Live
    <3> QED
      BY <2>2, <3>1
      DEF LoneStop, LoneSleep, FndFacts, fndP!Lonely, fndP!StaysAlone, fndP!LoneWait
  <2> QED
    BY <1>6, <2>1, <2>2
<1>9. ASSUME NEW m \in Melodies, ToEnd(m)'
      PROVE  ToEnd(m) /\ player'[m] = player[m] /\ melody'[m] = melody[m]
  <2>1. ~New(m)
    BY <1>9 DEF ToEnd, Hushed
  <2> QED
    BY <1>1, <1>6, <1>9, <2>1 DEF ToEnd, Hushed
<1>10. RingsAreHeard'
  <2> SUFFICES ASSUME LoneStop, NEW m \in Melodies, ToEnd(m)', Going'
               PROVE  buzzer_at'[player[m]] \in {"join", "relock"}
    BY <1>9 DEF RingsAreHeard, LoneStop, LoneSleep
  <2>0. /\ ToEnd(m) /\ player'[m] = player[m] /\ player[m] \in Countdowns
        /\ player[m] \notin waited' /\ player[m] \notin lost'
    BY <1>9 DEF ToEnd, Rung
  <2>1. buzzer_at[c] # "create"
    <3> SUFFICES ASSUME buzzer_at[c] = "create"
                 PROVE  FALSE
      OBVIOUS
    <3>1. c \in Countdowns
      BY DEF LoneStop, LoneSleep, Fitting, OneLibrary, Callers
    <3>2. countdown[c] = "ring" /\ fnd!Live(c)
      BY <3>1
      DEF BuzzerFacts, buzzerP!CallInv, buzzerP!CallsFit, Fitting, InsideFits, Inside,
          fnd!Live
    <3>3. player[m] = c
      BY <2>0, <3>1, <3>2 DEF InTime, RingIsLone, ToEnd
    <3> QED
      BY <2>0, <3>2, <3>3 DEF ToEnd, Hushed
  <2>2. Going /\ buzzer_at[player[m]] \in {"join", "relock"}
    BY <1>3, <2>0, <2>1 DEF InTime, RingsAreHeard
  <2>3. CASE player[m] # c
    BY <1>1, <2>0, <2>2, <2>3
  <2>4. CASE player[m] = c
    <3>1. buzzer_at[c] # "relock"
      BY <2>0, <2>2, <2>4 DEF Loses
    <3>2. buzzer!Join(c)
      BY <2>2, <2>4, <3>1
      DEF buzzer!CallerInside, buzzer!Joined, buzzer!Relock, buzzer!Create, buzzer!Detach
    <3>3. buzzer_at'[c] # "wait"
      BY <2>0, <2>4 DEF Credits
    <3> QED
      BY <2>2, <2>4, <3>2, <3>3 DEF buzzer!Join, buzzer!Arrives
  <2> QED
    BY <2>3, <2>4
<1>11. CountdownInTime'
  BY <1>5 DEF InTime, CountdownInTime, LoneSleep, Awaited
<1>12. MelodyInTime'
  BY <1>9 DEF InTime, MelodyInTime, LoneStop, LoneSleep, Remaining
<1>13. OverThen'
  <2>1. ASSUME request.lone, fnd_at = "idle", request.op = "stop",
               NEW m \in Melodies, Rung(m)', player'[m] \notin waited'
        PROVE  FALSE
    <3>1. \A t \in Countdowns : ~Free(t)
      BY <2>1 DEF InTime, OverThen
    <3>2. CASE Rung(m) /\ player'[m] = player[m]
      BY <1>1, <2>1, <3>2 DEF InTime, OverThen
    <3>3. CASE New(m)
      BY <1>1, <2>1, <3>1, <3>3 DEF Free, HeldUp
    <3> QED
      BY <1>6, <2>1, <3>2, <3>3
  <2> QED
    BY <1>5, <2>1 DEF InTime, OverThen
<1> QED
  BY <1>7, <1>8, <1>10, <1>11, <1>12, <1>13 DEF InTime

(* A melody: one that is to end sees is_playing cleared, or plays at most the
   note that its countdown's join leaves it the time for.                  *)
LEMMA MelodyInTimeKept ==
  ASSUME FndFacts, BuzzerFacts, Fitting, InTime, NEW n \in Melodies, MelodyStep(n)
  PROVE  InTime'
<1> USE Typing, TickLengths DEF MelodyStep, fndVars
<1>1. /\ buzzer_at' = buzzer_at /\ music_thread_id' = music_thread_id
      /\ waited' = waited
      /\ melody[n] # "none"
      /\ \A m \in Melodies : m # n => melody'[m] = melody[m]
      /\ melody'[n] # "start"
      /\ note_nap[n] = 0
  <2>1. waited' = waited
    BY DEF Credits, Fitting, MarksFit, MarksTyped, buzzer!MelodyStep,
       buzzer!MelodyStart, buzzer!MelodyCheck, buzzer!MelodyWrite,
       buzzer!MelodySilence, buzzer!MelodyFinish
  <2> QED
    BY <2>1 DEF buzzer!MelodyStep, buzzer!MelodyStart, buzzer!MelodyCheck,
       buzzer!MelodyWrite, buzzer!MelodySilence, buzzer!MelodyFinish
<1>2. Going' => Going
  BY <1>1 DEF Going, buzzer!MelodyStep, buzzer!MelodyStart, buzzer!MelodyCheck,
     buzzer!MelodyWrite, buzzer!MelodySilence, buzzer!MelodyFinish
<1>3. melody'[n] = "write" => melody[n] = "check" /\ is_playing
  BY DEF buzzer!MelodyStep, buzzer!MelodyStart, buzzer!MelodyCheck,
     buzzer!MelodyWrite, buzzer!MelodySilence, buzzer!MelodyFinish
<1>4. \A m \in Melodies : Rung(m)' => Rung(m) /\ player'[m] = player[m]
  BY <1>1, RingAssumption
  DEF RingAssumption, Callers, Rung, Credits, Fitting, MarksFit, MarksTyped
<1>5. \A u \in Countdowns : Free(u)' => Free(u)
  BY <1>1 DEF Free, HeldUp, fnd!Live
<1>6. \A m \in Melodies : ToEnd(m)' => ToEnd(m) /\ player'[m] = player[m]
  BY <1>1, <1>4 DEF ToEnd, Hushed
<1>7. HandleIsKept' /\ RingIsLone'
  BY <1>1, <1>2, <1>4
  DEF InTime, HandleIsKept, RingIsLone, LoneStop, LoneSleep, fnd!Live
<1>8. RingsAreHeard'
  BY <1>1, <1>2, <1>6 DEF InTime, RingsAreHeard, LoneStop, LoneSleep
<1>9. CountdownInTime'
  BY <1>5 DEF InTime, CountdownInTime, LoneSleep, Awaited
<1>10. MelodyInTime'
  <2> SUFFICES ASSUME LoneStop, NEW m \in Melodies, ToEnd(m)
               PROVE  sleeping > Remaining(m)'
    BY <1>6 DEF MelodyInTime, LoneStop, LoneSleep
  <2>1. sleeping > Remaining(m)
    BY DEF InTime, MelodyInTime
  <2>2. CASE m # n
    BY <1>1, <2>1, <2>2 DEF Remaining, Fitting, MarksTyped
  <2>3. CASE m = n /\ ~Going
    BY <1>1, <1>3, <2>1, <2>3 DEF Going, Remaining, Fitting, MarksTyped
  <2>4. CASE m = n /\ buzzer_at[player[m]] \in {"join", "relock"}
    <3>1. Free(player[m])
      BY <2>4 DEF ToEnd, Rung, Free, HeldUp, Fitting, InsideFits, Inside, fnd!Live
    <3>2. sleeping \in {StopTicks - 1, StopTicks}
      BY <3>1 DEF InTime, CountdownInTime, Awaited, LoneStop, ToEnd, Rung
    <3>3. note_nap'[m] \in 0 .. NoteTicks
      BY DEF Fitting, MarksTyped
    <3> QED
      BY <3>2, <3>3 DEF Remaining
  <2> QED
    BY <2>2, <2>3, <2>4 DEF InTime, RingsAreHeard
<1>11. OverThen'
  BY <1>1, <1>4, <1>5 DEF InTime, OverThen
<1> QED
  BY <1>7, <1>8, <1>9, <1>10, <1>11 DEF InTime

(* A tick: whoever main waits for dozes, too, and dozes no longer.         *)
LEMMA TickInTime ==
  ASSUME FndFacts, BuzzerFacts, Fitting, InTime, Tick
  PROVE  InTime'
<1> USE Typing, TickLengths DEF Tick, buzzerVars, marks
<1>1. \A m \in Melodies : Rung(m)' <=> Rung(m)
  BY DEF Rung
<1>2. \A u \in Countdowns : Free(u)' <=> Free(u)
  BY DEF Free, HeldUp, fnd!Live
<1>3. \A m, n \in Melodies : Rung(m) => melody[n] = "none" \/ note_nap[n] > 0
  BY RungIsReady, MelodiesDoze
<1>4. \A m, n \in Melodies : Rung(m) => melody[n] \in {"none", "check"}
  BY <1>3 DEF Fitting, MarksFit
<1>5. HandleIsKept' /\ RingIsLone' /\ RingsAreHeard'
  BY <1>1
  DEF InTime, HandleIsKept, RingIsLone, RingsAreHeard, LoneStop, LoneSleep, ToEnd,
      Hushed, Going, fnd!Live
<1>6. CountdownInTime'
  <2> SUFFICES ASSUME LoneSleep, NEW t \in Countdowns, Free(t)
               PROVE  /\ sleeping' \in {Awaited - 1, Awaited}
                      /\ ~(nap'[t] > 0)
                      /\ countdown[t] \notin {"show", "zero", "call"}
    BY <1>2 DEF CountdownInTime, LoneSleep, Awaited
  <2>1. ASSUME NEW c \in Callers
        PROVE  buzzer_at[c] # "self"
    <3>1. CASE c = Main
      BY <3>1 DEF LoneSleep, Fitting, OneLibrary
    <3>2. ASSUME c \in Countdowns, buzzer_at[c] = "self"
          PROVE  FALSE
      <4>1. fndP!Live(c) /\ fndP!Live(t)
        BY <3>2 DEF Free, Fitting, InsideFits, Inside, fndP!Live, fnd!Live
      <4>2. c = t
        BY <3>2, <4>1
        DEF LoneSleep, FndFacts, fndP!Lonely, fndP!StaysAlone, fndP!LoneWait
      <4> QED
        BY <3>2, <4>2 DEF Free, HeldUp
    <3> QED
      BY <3>1, <3>2 DEF Callers
  <2>2. mutex = Nobody /\ buzzer_at[t] \notin {"join", "relock", "create", "detach"}
    BY <2>1, LockIsFree
  <2>3. ~Inside(t)
    <3>1. buzzer_at[t] \notin {"wait", "self"}
      BY DEF Free, HeldUp, Fitting, MarksFit
    <3>2. buzzer_at[t] \notin {"boot", "gone"}
      BY DEF BuzzerFacts, buzzerP!CallInv, buzzerP!CallsFit
    <3> QED
      BY <2>2, <3>1, <3>2 DEF Inside, buzzerP!CallerPlaces
  <2>4. nap[t] = 1
    BY <2>2, <2>3 DEF NobodyRuns, CountdownRuns, fnd!CountdownRunnable, Free
  <2>5. countdown[t] \in {"poll", "ring"}
    BY <2>4 DEF FndFacts, fndP!Places, fndP!NapsInLoops
  <2>6. sleeping = Awaited
    BY <2>4 DEF InTime, CountdownInTime
  <2>7. sleeping' = Awaited - 1 /\ nap'[t] = 0
    BY <2>3, <2>4, <2>6 DEF Awaited, Dozing
  <2> QED
    BY <2>5, <2>7
<1>7. MelodyInTime'
  <2> SUFFICES ASSUME LoneStop, NEW m \in Melodies, ToEnd(m)
               PROVE  sleeping' > Remaining(m)'
    BY <1>1 DEF MelodyInTime, LoneStop, LoneSleep, ToEnd, Hushed
  <2>1. sleeping > Remaining(m)
    BY DEF InTime, MelodyInTime
  <2>2. melody[m] = "check" /\ note_nap[m] > 0
    BY <1>3, <1>4, RungIsReady DEF ToEnd
  <2> QED
    BY <2>1, <2>2 DEF Remaining, Fitting, MarksTyped
<1>8. OverThen'
  BY <1>1, <1>2 DEF InTime, OverThen
<1> QED
  BY <1>5, <1>6, <1>7, <1>8 DEF InTime

LEMMA NextInTime ==
  ASSUME FndFacts, BuzzerFacts, Fitting, InTime, [Next]_vars
  PROVE  InTime'
<1>1. CASE SegmentCommand
  BY <1>1, SegmentInTime
<1>2. CASE BuzzerCommand
  BY <1>2, BuzzerMainInTime DEF BuzzerCommand
<1>3. CASE Boot \/ Leave \/ MainInside
  BY <1>3, BuzzerMainInTime, FndMainInTime DEF Boot, Leave, MainInside
<1>4. ASSUME NEW t \in Countdowns, CountdownAlone(t) \/ Rings(t) \/ Hushes(t)
      PROVE  InTime'
  BY <1>4, CountdownInTimeKept, RingsInTime, HushesInTime
<1>5. ASSUME NEW c \in Callers, InBuzzer(c)
      PROVE  InTime'
  BY <1>5, CallerInTime
<1>6. ASSUME NEW m \in Melodies, MelodyStep(m)
      PROVE  InTime'
  BY <1>6, MelodyInTimeKept
<1>7. CASE Tick
  BY <1>7, TickInTime
<1>8. CASE UNCHANGED vars
  BY <1>8
  DEF vars, fndVars, buzzerVars, marks, InTime, HandleIsKept, RingIsLone,
      RingsAreHeard, CountdownInTime, MelodyInTime, OverThen, Rung, ToEnd, Hushed,
      Going, LoneSleep, LoneStop, Awaited, Remaining, Free, HeldUp, fnd!Live
<1> QED
  BY <1>1, <1>2, <1>3, <1>4, <1>5, <1>6, <1>7, <1>8 DEF Next, Runs

LEMMA SpecInTime == Spec => []InTime
<1>1. FndFacts /\ BuzzerFacts /\ Fitting /\ InTime /\ [Next]_vars => InTime'
  BY NextInTime
<1> QED
  BY <1>1, InitInTime, SpecFacts, SpecFitting, PTL DEF Spec

(* The second that fnd_stop sleeps ends a ring as well, wherever SEGMENT_STOP
   meets it, while buzzer_play or buzzer_stop is under way too: no melody plays
   on that the countdown started, whatever the handle holds by then, and no
   countdown is left, save one that buzzer_play holds up and a melody that is
   lost.  What it needs is that a note is over before the sleep.           *)
THEOREM StopOutlastsRing == Spec => []StopEndsRing
<1>1. FndFacts /\ BuzzerFacts /\ Fitting /\ InTime => StopEndsRing
  BY Typing DEF InTime, OverThen, StopEndsRing, Free, Rung
<1> QED
  BY <1>1, SpecFacts, SpecFitting, SpecInTime, PTL

(* When buzzer_cleanup, which follows fnd_cleanup, ends, a countdown that was
   alone and known can call libbuzzer no more, unless it was held up inside it:
   two seconds are less than what is left of a melody that it joins.       *)
THEOREM CleanupOutlastsCallers == Spec => []CleanupLeavesNoCaller
<1>1. Fitting /\ InTime => CleanupLeavesNoCaller
  BY DEF Fitting, OneLibrary, InTime, OverThen, CleanupLeavesNoCaller, Free
<1> QED
  BY <1>1, SpecFitting, SpecInTime, PTL
===============================================================================
