----------------------------- MODULE CdsProofs -----------------------------
(***************************************************************************)
(* Theorems about Cds, for any number of controllers, any readings and any *)
(* threshold.                                                              *)
(***************************************************************************)
EXTENDS Cds, TLAPS

LEMMA InitTypeOK == Init => TypeOK
<1> SUFFICES ASSUME Init
             PROVE  TypeOK
  OBVIOUS
<1> USE CdsAssumption DEF CdsAssumption, Init, Unread, NoReply, Brightness, Values
<1>1. reply \in [value : Values, bright : Brightness]
  OBVIOUS
<1>2. controller \in [Controllers -> ControllerPlaces]
  BY DEF ControllerPlaces
<1>3. bright \in [Controllers -> Brightness]
  OBVIOUS
<1> QED
  BY <1>1, <1>2, <1>3 DEF TypeOK, MainPlaces, Commands

(* What main does between two steps of the controllers.                    *)
MainStep ==
  \/ CdsInit \/ ReadEnter \/ AutoStart \/ CleanupEnter
  \/ \E o \in {"auto_stop", "all_off"} : AutoStop(o)
  \/ MainInside

LEMMA ReadSensorTypes ==
  ASSUME TypeOK, ReadSensor
  PROVE  current_light_value' \in Values /\ is_bright' \in Brightness
  BY DEF ReadSensor, TypeOK, Values, Brightness

LEMMA LedOffTypes ==
  ASSUME TypeOK, NEW next \in MainPlaces, LedOff(next)
  PROVE  /\ led_initialized' \in BOOLEAN
         /\ led_mutex' \in Controllers \cup {Main, Nobody}
         /\ led' \in BOOLEAN
         /\ at' \in MainPlaces
  BY DEF LedOff, TypeOK, MainPlaces

LEMMA MainTypeOK ==
  ASSUME TypeOK, MainStep
  PROVE  TypeOK'
<1> USE DEF TypeOK, sensor, autoLed, threads, main, MainPlaces, Commands
<1>1. CASE CdsInit
  BY <1>1, CdsAssumption DEF CdsInit, CdsAssumption
<1>2. CASE ReadEnter
  BY <1>2, ReadSensorTypes DEF ReadEnter
<1>3. CASE GetValue
  BY <1>3 DEF GetValue
<1>4. CASE IsBright
  BY <1>4 DEF IsBright
<1>5. CASE Reply
  BY <1>5 DEF Reply, NoReply, Values, Brightness
<1>6. CASE AutoStart
  BY <1>6 DEF AutoStart, ControllerPlaces
<1>7. ASSUME NEW o \in {"auto_stop", "all_off"}, AutoStop(o)
      PROVE  TypeOK'
  BY <1>7 DEF AutoStop
<1>8. CASE AutoOff
  BY <1>8, LedOffTypes DEF AutoOff
<1>9. CASE ManualOff
  BY <1>9, LedOffTypes DEF ManualOff
<1>10. CASE CleanupEnter
  BY <1>10 DEF CleanupEnter, Release
<1>11. CASE CleanupRelease
  BY <1>11 DEF CleanupRelease, Release
<1> QED
  BY <1>1, <1>2, <1>3, <1>4, <1>5, <1>6, <1>7, <1>8, <1>9, <1>10, <1>11
  DEF MainStep, MainInside

LEMMA ControllerTypeOK ==
  ASSUME TypeOK, NEW t \in Controllers, ControllerStep(t)
  PROVE  TypeOK'
<1> USE DEF TypeOK, sensor, autoLed, threads, main, Goes, ControllerPlaces
<1>1. CASE Loop(t)
  BY <1>1 DEF Loop
<1>2. CASE Read(t)
  BY <1>2, ReadSensorTypes DEF Read
<1>3. CASE Copy(t)
  BY <1>3 DEF Copy
<1>4. CASE Drive(t)
  BY <1>4 DEF Drive
<1>5. CASE Write(t)
  BY <1>5 DEF Write, Brightness
<1> QED
  BY <1>1, <1>2, <1>3, <1>4, <1>5 DEF ControllerStep

LEMMA NextTypeOK == TypeOK /\ [Next]_vars => TypeOK'
<1> SUFFICES ASSUME TypeOK, [Next]_vars
             PROVE  TypeOK'
  OBVIOUS
<1>1. CASE LightChanges
  BY <1>1 DEF LightChanges, TypeOK, sensor, autoLed, threads, main
<1>2. CASE UNCHANGED vars
  BY <1>2 DEF vars, TypeOK, sensor, autoLed, threads, main
<1> QED
  BY <1>1, <1>2, MainTypeOK, ControllerTypeOK DEF Next, MainStep, Ended

(* In every reachable state the variables have their types.                *)
THEOREM TypeCorrect == Spec => []TypeOK
  BY InitTypeOK, NextTypeOK, PTL DEF Spec

-----------------------------------------------------------------------------
(* Why a controller never gives up or gets stuck while it is wanted: the
   cleanup, and it alone, takes away both devices, after it has cleared both
   flags; and nobody switches control on without them.                     *)
EnabledIsServed ==
  /\ running <=> at \notin {"release", "gone"}
  /\ at = "boot" => ~cds_initialized
  /\ cds_initialized <=> led_initialized
  /\ auto_led_enabled => running /\ cds_initialized

LEMMA NextEnabledIsServed ==
  TypeOK /\ EnabledIsServed /\ [Next]_vars => EnabledIsServed'
<1> SUFFICES ASSUME TypeOK, EnabledIsServed, [Next]_vars
             PROVE  EnabledIsServed'
  OBVIOUS
<1> USE DEF EnabledIsServed, TypeOK, sensor, autoLed, threads, main
<1>1. CASE CdsInit \/ ReadEnter \/ AutoStart
  <2>1. CASE CdsInit
    BY <2>1, CdsAssumption DEF CdsInit, CdsAssumption
  <2>2. CASE ReadEnter
    BY <2>2 DEF ReadEnter
  <2>3. CASE AutoStart
    BY <2>3 DEF AutoStart
  <2> QED
    BY <1>1, <2>1, <2>2, <2>3
<1>2. CASE CleanupEnter \/ CleanupRelease
  <2>1. CASE CleanupEnter
    BY <2>1 DEF CleanupEnter, Release
  <2>2. CASE CleanupRelease
    BY <2>2 DEF CleanupRelease, Release
  <2> QED
    BY <1>2, <2>1, <2>2
<1>3. ASSUME NEW o \in {"auto_stop", "all_off"}, AutoStop(o)
      PROVE  EnabledIsServed'
  BY <1>3 DEF AutoStop
<1>4. CASE GetValue \/ IsBright \/ Reply
  BY <1>4 DEF GetValue, IsBright, Reply
<1>5. CASE AutoOff \/ ManualOff
  BY <1>5 DEF AutoOff, ManualOff, LedOff
<1>6. ASSUME NEW t \in Controllers, ControllerStep(t)
      PROVE  EnabledIsServed'
  BY <1>6 DEF ControllerStep, Loop, Read, Copy, Drive, Write
<1>7. CASE LightChanges \/ UNCHANGED vars
  BY <1>7 DEF LightChanges, vars
<1> QED
  BY <1>1, <1>2, <1>3, <1>4, <1>5, <1>6, <1>7 DEF Next, MainInside, Ended

-----------------------------------------------------------------------------
Serving == {t \in Controllers :
              controller[t] \in {"loop", "read", "copy", "drive", "write"}}

LEMMA ControllerStaysServing ==
  ASSUME TypeOK, EnabledIsServed, auto_led_enabled,
         NEW t \in Controllers, ControllerStep(t)
  PROVE  Serving \subseteq Serving' /\ auto_led_enabled' = auto_led_enabled
<1> USE DEF EnabledIsServed, TypeOK, Serving, Goes
<1>1. CASE Loop(t)
  BY <1>1 DEF Loop
<1>2. CASE Read(t)
  BY <1>2 DEF Read
<1>3. CASE Copy(t)
  BY <1>3 DEF Copy
<1>4. CASE Drive(t)
  BY <1>4 DEF Drive
<1>5. CASE Write(t)
  BY <1>5 DEF Write
<1> QED
  BY <1>1, <1>2, <1>3, <1>4, <1>5 DEF ControllerStep

LEMMA MainKeepsController ==
  ASSUME TypeOK, EnabledHasController,
         MainStep \/ LightChanges \/ UNCHANGED vars
  PROVE  EnabledHasController'
<1> USE DEF TypeOK, EnabledHasController, threads, vars
<1>1. CASE AutoStart
  BY <1>1 DEF AutoStart
<1>2. CASE ~AutoStart
  <2>1. UNCHANGED controller /\ (auto_led_enabled' => auto_led_enabled)
    BY <1>2 DEF MainStep, MainInside, CdsInit, ReadEnter, GetValue, IsBright,
       Reply, AutoStop, AutoOff, ManualOff, CleanupEnter, CleanupRelease,
       LightChanges
  <2> QED
    BY <2>1
<1> QED
  BY <1>1, <1>2

(* "AUTO_LED_ON" is never a stale answer, and "already running" never a
   wrong reason to refuse, however often control is stopped and restarted. *)
THEOREM EnabledIsBacked == Spec => []EnabledHasController
<1>1. Init => EnabledIsServed /\ EnabledHasController
  BY DEF Init, EnabledIsServed, EnabledHasController
<1>2. TypeOK /\ EnabledIsServed /\ EnabledHasController /\ [Next]_vars
        => EnabledHasController'
  <2> SUFFICES ASSUME TypeOK, EnabledIsServed, EnabledHasController, [Next]_vars
               PROVE  EnabledHasController'
    OBVIOUS
  <2>1. ASSUME NEW t \in Controllers, ControllerStep(t)
        PROVE  EnabledHasController'
    <3>1. CASE auto_led_enabled
      BY <2>1, <3>1, ControllerStaysServing DEF Serving, EnabledHasController
    <3>2. CASE ~auto_led_enabled
      BY <2>1, <3>2 DEF ControllerStep, Loop, Read, Copy, Drive, Write,
         EnabledHasController
    <3> QED
      BY <3>1, <3>2
  <2> QED
    BY <2>1, MainKeepsController DEF Next, MainStep, Ended
<1> QED
  BY <1>1, <1>2, InitTypeOK, NextTypeOK, NextEnabledIsServed, PTL DEF Spec

-----------------------------------------------------------------------------
(* The LED's mutex is held by whoever is inside its functions: about to write
   the pin and unlock, or blocked on itself for ever.                      *)
LedHolders ==
  /\ \A t \in Controllers :
       controller[t] \in {"write", "led_self"} <=> led_mutex = t
  /\ led_mutex = Main => at = "self"

(* There are no threads before the init and no devices after the cleanup, and
   nobody is blocked on itself but on a device that is not initialised.    *)
StuckOnlyUnready ==
  /\ at = "boot" => \A t \in Controllers : controller[t] = "none"
  /\ at = "gone" => ~cds_initialized
  /\ at = "self" \/ (\E t \in Controllers : controller[t] \in {"cds_self", "led_self"})
       => ~cds_initialized

LEMMA MainLocks ==
  ASSUME TypeOK, EnabledIsServed, LedHolders, StuckOnlyUnready, MainStep
  PROVE  LedHolders' /\ StuckOnlyUnready'
<1> USE CdsAssumption
    DEF CdsAssumption, TypeOK, EnabledIsServed, LedHolders, StuckOnlyUnready,
        autoLed, threads
<1>1. CASE CdsInit
  BY <1>1 DEF CdsInit
<1>2. CASE ReadEnter
  BY <1>2 DEF ReadEnter
<1>3. CASE GetValue \/ IsBright \/ Reply
  BY <1>3 DEF GetValue, IsBright, Reply
<1>4. CASE AutoStart
  BY <1>4 DEF AutoStart
<1>5. ASSUME NEW o \in {"auto_stop", "all_off"}, AutoStop(o)
      PROVE  LedHolders' /\ StuckOnlyUnready'
  BY <1>5 DEF AutoStop
<1>6. CASE AutoOff \/ ManualOff
  BY <1>6 DEF AutoOff, ManualOff, LedOff
<1>7. CASE CleanupEnter
  BY <1>7 DEF CleanupEnter, Release
<1>8. CASE CleanupRelease
  BY <1>8 DEF CleanupRelease, Release
<1> QED
  BY <1>1, <1>2, <1>3, <1>4, <1>5, <1>6, <1>7, <1>8 DEF MainStep, MainInside

LEMMA ControllerLocks ==
  ASSUME TypeOK, EnabledIsServed, LedHolders, StuckOnlyUnready,
         NEW t \in Controllers, ControllerStep(t)
  PROVE  LedHolders' /\ StuckOnlyUnready'
<1> USE CdsAssumption
    DEF CdsAssumption, TypeOK, EnabledIsServed, LedHolders, StuckOnlyUnready,
        autoLed, main, Goes
<1>1. CASE Loop(t)
  BY <1>1 DEF Loop
<1>2. CASE Read(t)
  BY <1>2 DEF Read
<1>3. CASE Copy(t)
  BY <1>3 DEF Copy
<1>4. CASE Drive(t)
  BY <1>4 DEF Drive
<1>5. CASE Write(t)
  BY <1>5 DEF Write
<1> QED
  BY <1>1, <1>2, <1>3, <1>4, <1>5 DEF ControllerStep

(* Nobody blocks another for good through the two mutexes: the one of the sensor
   is never kept, the one of the LED only by a controller that will write and
   unlock, as long as the sensor has been initialised and is not released.  *)
THEOREM LocksAreHandedBack == Spec => [](LedHolders /\ StuckOnlyUnready)
<1>1. Init => LedHolders /\ StuckOnlyUnready
  BY CdsAssumption DEF CdsAssumption, Init, LedHolders, StuckOnlyUnready
<1>2. TypeOK /\ EnabledIsServed /\ LedHolders /\ StuckOnlyUnready /\ [Next]_vars
        => LedHolders' /\ StuckOnlyUnready'
  <2>1. LightChanges \/ UNCHANGED vars =>
          UNCHANGED <<led_mutex, cds_initialized, controller, at>>
    BY DEF LightChanges, vars, autoLed, threads, main
  <2> QED
    BY <2>1, MainLocks, ControllerLocks
    DEF Next, MainStep, Ended, LedHolders, StuckOnlyUnready
<1>3. Init => EnabledIsServed
  BY DEF Init, EnabledIsServed
<1> QED
  BY <1>1, <1>2, <1>3, InitTypeOK, NextTypeOK, NextEnabledIsServed, PTL DEF Spec

(* cds_cleanup clears auto_led_state beside its mutex, but no controller sets
   about a released LED: what one of them was about to write is the last.  *)
THEOREM ReleasedLedRests == Spec => ReleasedLedIsLeft
<1>1. TypeOK /\ EnabledIsServed /\ LedHolders /\ StuckOnlyUnready /\ [Next]_vars =>
        [at = "gone" => /\ Writers' \subseteq Writers
                        /\ led' # led => Writers' = {}]_vars
  <2> SUFFICES ASSUME TypeOK, EnabledIsServed, LedHolders, StuckOnlyUnready, Next,
                      at = "gone"
               PROVE  Writers' \subseteq Writers /\ (led' # led => Writers' = {})
    OBVIOUS
  <2> USE DEF TypeOK, EnabledIsServed, Writers, threads, main, autoLed
  <2>1. ~MainStep
    BY DEF MainStep, MainInside, CdsInit, ReadEnter, GetValue, IsBright, Reply,
       AutoStart, AutoStop, AutoOff, ManualOff, CleanupEnter, CleanupRelease
  <2>2. CASE LightChanges \/ Ended
    BY <2>2 DEF LightChanges, Ended, vars
  <2>3. ASSUME NEW t \in Controllers, ControllerStep(t)
        PROVE  Writers' \subseteq Writers /\ (led' # led => Writers' = {})
    <3> USE DEF Goes
    <3>1. CASE Loop(t)
      BY <3>1 DEF Loop
    <3>2. CASE Read(t)
      BY <3>2 DEF Read
    <3>3. CASE Copy(t)
      BY <3>3 DEF Copy
    <3>4. CASE Drive(t)
      BY <3>4 DEF Drive, StuckOnlyUnready
    <3>5. CASE Write(t)
      BY <3>5 DEF Write, LedHolders
    <3> QED
      BY <2>3, <3>1, <3>2, <3>3, <3>4, <3>5 DEF ControllerStep
  <2> QED
    BY <2>1, <2>2, <2>3 DEF Next, MainStep
<1>2. Init => EnabledIsServed
  BY DEF Init, EnabledIsServed
<1> QED
  BY <1>1, <1>2, InitTypeOK, NextTypeOK, NextEnabledIsServed, LocksAreHandedBack, PTL
  DEF Spec, ReleasedLedIsLeft
=============================================================================
