----------------------------- MODULE RingProofs -----------------------------
(***************************************************************************)
(* Ring implements both of its components, for any number of countdowns,   *)
(* melodies and commands and any lengths of the sleeps: whatever is true of *)
(* Segment and of Buzzer alone remains true when a countdown is a caller of *)
(* the buzzer and one clock counts the delays of both.                     *)
(***************************************************************************)
EXTENDS Ring, TLAPS

(* What a step of one library leaves of the other.                         *)
LEMMA FndRests == UNCHANGED fndVars => UNCHANGED fnd!vars
  BY DEF fndVars, fnd!vars, fnd!flags, fnd!threads, fnd!main

LEMMA BuzzerRests == UNCHANGED buzzerVars => UNCHANGED buzzer!vars
  BY DEF buzzerVars, buzzer!vars

-----------------------------------------------------------------------------
(* libsegment.                                                             *)

LEMMA MainFndStep ==
  SegmentCommand \/ BuzzerCommand \/ Boot \/ Leave \/ MainInside => [fnd!Next]_(fnd!vars)
<1>1. SegmentCommand => fnd!Next
  BY DEF SegmentCommand, fnd!Next
<1>2. BuzzerCommand => UNCHANGED fnd!vars
  BY FndRests DEF BuzzerCommand, BuzzerAlone
<1>3. Boot => fnd!Next \/ UNCHANGED fnd!vars
  BY FndRests DEF Boot, BuzzerAlone, fnd!Next
<1>4. Leave => fnd!Next \/ UNCHANGED fnd!vars
  BY FndRests DEF Leave, BuzzerAlone, fnd!Next
<1>5. MainInside => fnd!Next
  BY DEF MainInside, fnd!Next
<1> QED
  BY <1>1, <1>2, <1>3, <1>4, <1>5

LEMMA CountdownFndStep ==
  ASSUME NEW t \in Countdowns, CountdownAlone(t) \/ Rings(t) \/ Hushes(t)
  PROVE  fnd!Next
<1>1. fnd!CountdownStep(t)
  BY DEF CountdownAlone, Rings, Hushes, fnd!CountdownStep
<1> QED
  BY <1>1 DEF fnd!Next

(* The sleeps are counted in ticks.                                         *)
SleepsTyped == sleeping \in Nat /\ nap \in [Countdowns -> Int]

LEMMA InitSleepsTyped == Init => SleepsTyped
  BY DEF Init, fnd!Init, SleepsTyped

LEMMA MainSleepsTyped ==
  ASSUME SleepsTyped,
         SegmentCommand \/ BuzzerCommand \/ Boot \/ Leave \/ MainInside
  PROVE  SleepsTyped'
<1>1. CASE SegmentCommand
  BY <1>1, RingAssumption
  DEF SegmentCommand, SleepsTyped, fnd!CountdownEnter, fnd!OffEnter, fnd!StopEnter
<1>2. CASE BuzzerCommand
  BY <1>2 DEF BuzzerCommand, BuzzerAlone, SleepsTyped, fndVars
<1>3. CASE Boot
  BY <1>3
  DEF Boot, BuzzerAlone, SleepsTyped, fndVars, fnd!FndInit, fnd!threads
<1>4. CASE Leave
  BY <1>4
  DEF Leave, BuzzerAlone, SleepsTyped, fndVars, fnd!CleanupEnter, fnd!threads
<1>5. CASE MainInside
  <2>1. CASE fnd!Join
    BY <2>1 DEF SleepsTyped, fnd!Join, fnd!threads
  <2>2. CASE fnd!Relock
    BY <2>2 DEF SleepsTyped, fnd!Relock
  <2>3. CASE fnd!StopWake
    BY <2>3 DEF SleepsTyped, fnd!StopWake, fnd!threads
  <2>4. CASE fnd!CleanupPeek
    BY <2>4, RingAssumption DEF SleepsTyped, fnd!CleanupPeek, fnd!threads
  <2>5. CASE fnd!CleanupRelease
    BY <2>5 DEF SleepsTyped, fnd!CleanupRelease, fnd!threads
  <2> QED
    BY <1>5, <2>1, <2>2, <2>3, <2>4, <2>5 DEF MainInside, fnd!MainInside
<1> QED
  BY <1>1, <1>2, <1>3, <1>4, <1>5

LEMMA CountdownSleepsTyped ==
  ASSUME SleepsTyped, NEW t \in Countdowns, fnd!CountdownStep(t)
  PROVE  SleepsTyped'
<1> USE DEF SleepsTyped, fnd!threads, fnd!main
<1>1. CASE fnd!Start(t)
  BY <1>1 DEF fnd!Start
<1>2. CASE fnd!Top(t)
  BY <1>2 DEF fnd!Top
<1>3. CASE fnd!Show(t)
  BY <1>3 DEF fnd!Show
<1>4. CASE fnd!Poll(t)
  BY <1>4 DEF fnd!Poll
<1>5. CASE fnd!Zero(t)
  BY <1>5 DEF fnd!Zero
<1>6. CASE fnd!CallPlay(t)
  BY <1>6 DEF fnd!CallPlay
<1>7. CASE fnd!Ring(t)
  BY <1>7 DEF fnd!Ring
<1>8. CASE fnd!Hush(t)
  BY <1>8 DEF fnd!Hush
<1>9. CASE fnd!BlankOut(t)
  BY <1>9 DEF fnd!BlankOut
<1>10. CASE fnd!Finish(t)
  BY <1>10 DEF fnd!Finish
<1> QED
  BY <1>1, <1>2, <1>3, <1>4, <1>5, <1>6, <1>7, <1>8, <1>9, <1>10
  DEF fnd!CountdownStep

LEMMA NextSleepsTyped == SleepsTyped /\ [Next]_vars => SleepsTyped'
<1> SUFFICES ASSUME SleepsTyped, [Next]_vars
             PROVE  SleepsTyped'
  OBVIOUS
<1>1. CASE SegmentCommand \/ BuzzerCommand \/ Boot \/ Leave \/ MainInside
  BY <1>1, MainSleepsTyped
<1>2. ASSUME NEW t \in Countdowns, CountdownAlone(t) \/ Rings(t) \/ Hushes(t)
      PROVE  SleepsTyped'
  <2>1. fnd!CountdownStep(t)
    BY <1>2 DEF CountdownAlone, Rings, Hushes, fnd!CountdownStep
  <2> QED
    BY <2>1, CountdownSleepsTyped
<1>3. CASE (\E c \in Callers : InBuzzer(c)) \/ (\E m \in Melodies : MelodyStep(m))
  BY <1>3 DEF InBuzzer, BuzzerAlone, MelodyStep, fndVars, SleepsTyped
<1>4. CASE Tick
  BY <1>4 DEF Tick, SleepsTyped
<1>5. CASE UNCHANGED vars
  BY <1>5 DEF vars, fndVars, SleepsTyped
<1> QED
  BY <1>1, <1>2, <1>3, <1>4, <1>5 DEF Next, Runs

(* A tick is a step of Segment's time, or, if only melodies wait, none.     *)
LEMMA TickFndStep ==
  ASSUME SleepsTyped, Alive, Tick
  PROVE  [fnd!Next]_(fnd!vars)
<1>1. CASE sleeping = 0 /\ Dozing = {}
  <2>1. nap' = nap /\ sleeping' = sleeping
    BY <1>1 DEF Tick, SleepsTyped
  <2> QED
    BY <2>1 DEF Tick, fnd!vars, fnd!flags, fnd!threads, fnd!main
<1>2. CASE sleeping > 0 \/ Dozing # {}
  <2> DEFINE tick == IF sleeping > 0 THEN 1 ELSE 0
  <2>1. Dozing \in SUBSET fnd!Napping
    BY DEF Dozing, fnd!Napping
  <2>2. /\ tick \in 0 .. (IF sleeping > 0 THEN 1 ELSE 0)
        /\ sleeping' = sleeping - tick
    BY DEF Tick, SleepsTyped
  <2>3. Dozing # {} \/ tick = 1
    BY <1>2
  <2>4. fnd!Elapse
    BY <2>1, <2>2, <2>3 DEF Tick, Alive, fnd!Elapse, fnd!flags
  <2> QED
    BY <2>4 DEF fnd!Next
<1> QED
  BY <1>1, <1>2 DEF SleepsTyped

LEMMA FndStep == SleepsTyped /\ [Next]_vars => [fnd!Next]_(fnd!vars)
<1> SUFFICES ASSUME SleepsTyped, [Next]_vars
             PROVE  [fnd!Next]_(fnd!vars)
  OBVIOUS
<1>1. CASE SegmentCommand \/ BuzzerCommand \/ Boot \/ Leave \/ MainInside
  BY <1>1, MainFndStep
<1>2. ASSUME NEW t \in Countdowns, CountdownAlone(t) \/ Rings(t) \/ Hushes(t)
      PROVE  fnd!Next
  BY <1>2, CountdownFndStep
<1>3. CASE (\E c \in Callers : InBuzzer(c)) \/ (\E m \in Melodies : MelodyStep(m))
  BY <1>3, FndRests DEF InBuzzer, BuzzerAlone, MelodyStep
<1>4. CASE Alive /\ Tick
  BY <1>4, TickFndStep
<1>5. CASE UNCHANGED vars
  BY <1>5, FndRests DEF vars
<1> QED
  BY <1>1, <1>2, <1>3, <1>4, <1>5 DEF Next, Runs

(* The display and its countdowns, in the composition, behave as Segment says:
   buzzer_play and buzzer_stop hold a countdown up, but they change none of its
   steps, and no tick of the common clock is one that Segment forbids.      *)
THEOREM RingIsSegment == Spec => fnd!Spec
<1>1. Init => fnd!Init
  BY DEF Init
<1> QED
  BY <1>1, InitSleepsTyped, NextSleepsTyped, FndStep, PTL DEF Spec, fnd!Spec

-----------------------------------------------------------------------------
(* libbuzzer.                                                              *)

LEMMA StopsIsBuzzerStep ==
  ASSUME NEW c \in Callers, Stops(c)
  PROVE  [buzzer!Next]_(buzzer!vars)
  BY BuzzerRests DEF Stops, buzzer!Next

LEMMA BuzzerStep == [Next]_vars => [buzzer!Next]_(buzzer!vars)
<1> SUFFICES ASSUME [Next]_vars
             PROVE  [buzzer!Next]_(buzzer!vars)
  OBVIOUS
<1>0. Main \in Callers /\ Countdowns \subseteq Callers
  BY DEF Callers
<1>1. CASE SegmentCommand \/ MainInside
  BY <1>1, BuzzerRests DEF SegmentCommand, MainInside, FndAlone, FndCommandAlone
<1>2. CASE BuzzerCommand
  BY <1>0, <1>2, StopsIsBuzzerStep DEF BuzzerCommand, buzzer!Next
<1>3. CASE Boot \/ Leave
  BY <1>3, BuzzerRests DEF Boot, Leave, FndAlone, FndCommandAlone, buzzer!Next
<1>4. ASSUME NEW t \in Countdowns, CountdownAlone(t)
      PROVE  [buzzer!Next]_(buzzer!vars)
  BY <1>4, BuzzerRests DEF CountdownAlone, FndAlone
<1>5. ASSUME NEW t \in Countdowns, Rings(t)
      PROVE  [buzzer!Next]_(buzzer!vars)
  BY <1>0, <1>5, BuzzerRests DEF Rings, buzzer!Next
<1>6. ASSUME NEW t \in Countdowns, Hushes(t)
      PROVE  [buzzer!Next]_(buzzer!vars)
  BY <1>0, <1>6, BuzzerRests, StopsIsBuzzerStep DEF Hushes
<1>7. CASE \E c \in Callers : InBuzzer(c)
  BY <1>7 DEF InBuzzer, buzzer!Next
<1>8. CASE \E m \in Melodies : MelodyStep(m)
  BY <1>8 DEF MelodyStep, buzzer!Next
<1>9. CASE Tick
  BY <1>9, BuzzerRests DEF Tick
<1>10. CASE UNCHANGED vars
  BY <1>10, BuzzerRests DEF vars
<1> QED
  BY <1>1, <1>2, <1>3, <1>4, <1>5, <1>6, <1>7, <1>8, <1>9, <1>10 DEF Next, Runs

(* The buzzer, in the composition, behaves as Buzzer says, with the countdowns
   as callers beside main: so it keeps the promise of Speaker there, too.   *)
THEOREM RingIsBuzzer == Spec => buzzer!Spec
<1>1. Init => buzzer!Init
  BY DEF Init
<1> QED
  BY <1>1, BuzzerStep, PTL DEF Spec, buzzer!Spec
=============================================================================
