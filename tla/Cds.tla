-------------------------------- MODULE Cds --------------------------------
(***************************************************************************)
(* libcds.c: the light sensor and the LED on GPIO 17 that follows it.      *)
(*                                                                         *)
(* Main executes the CDS_ commands and the sensor's part of ALL_OFF one at *)
(* a time.  CDS_AUTO_START creates a detached controller thread that reads *)
(* the sensor every second and drives the LED until auto_led_enabled falls.*)
(* Nothing waits for it: the pthread_join of a detached thread returns at  *)
(* once.                                                                   *)
(*                                                                         *)
(* A section under cds_state.mutex makes no blocking call and is one       *)
(* action.  auto_led_state.mutex is a variable, because the cleanup writes *)
(* that state and its pin without it, between any two steps of a holder.   *)
(* A function that finds its device not initialised calls the init function*)
(* with the mutex held, which locks it again: it never returns ("self").   *)
(***************************************************************************)
EXTENDS Integers

CONSTANTS
  Controllers,   \* handles of auto_led_thread: bounds how many live at once
  Main,
  Nobody,        \* no holder of a mutex
  Readings,      \* what wiringPiI2CRead may return: -1 is an error
  Threshold,     \* CDS_THRESHOLD: dark from here on
  I2cResults     \* what wiringPiI2CSetupInterface may answer: TRUE is success

ASSUME CdsAssumption ==
  /\ Main \notin Controllers
  /\ Nobody \notin Controllers \cup {Main}
  /\ Readings \subseteq Int /\ Readings # {}
  /\ Threshold \in Nat
  /\ I2cResults \subseteq BOOLEAN

VARIABLES
  light,                \* what the sensor would return now
  cds_initialized,      \* cds_state.is_initialized
  led_initialized,      \* auto_led_state.is_initialized
  led_mutex,            \* the holder of auto_led_state.mutex
  current_light_value,
  is_bright,            \* 1, 0, or -1 while nothing has been read
  auto_led_enabled,
  running,
  led,                  \* TRUE while GPIO 17 is HIGH
  controller,           \* where each controller thread is
  bright,               \* its copy of is_bright
  op,                   \* main's command, the current or else the last one
  at,                   \* where in it main is
  reply                 \* what CDS_READ has collected for its answer

sensor == <<current_light_value, is_bright>>
autoLed == <<led_initialized, led_mutex, led>>
threads == <<controller, bright>>
main == <<op, at, reply>>
vars == <<light, cds_initialized, autoLed, sensor, auto_led_enabled, running,
          threads, main>>

Unread == -1
NoReply == [value |-> Unread, bright |-> Unread]
Brightness == {Unread, 0, 1}
Values == Readings \cup {Unread}

(* "cds_self", "led_self": blocked on a mutex the thread itself holds.     *)
ControllerPlaces == {"none", "loop", "read", "copy", "drive", "write",
                     "cds_self", "led_self"}

MainPlaces == {"boot", "idle", "get_value", "is_bright", "reply", "off",
               "manual_off", "release", "self", "gone"}

Commands == {"none", "read", "auto_start", "auto_stop", "all_off", "cleanup"}

TypeOK ==
  /\ light \in Readings
  /\ cds_initialized \in BOOLEAN
  /\ led_initialized \in BOOLEAN
  /\ led_mutex \in Controllers \cup {Main, Nobody}
  /\ current_light_value \in Values
  /\ is_bright \in Brightness
  /\ auto_led_enabled \in BOOLEAN
  /\ running \in BOOLEAN
  /\ led \in BOOLEAN
  /\ controller \in [Controllers -> ControllerPlaces]
  /\ bright \in [Controllers -> Brightness]
  /\ op \in Commands
  /\ at \in MainPlaces
  /\ reply \in [value : Values, bright : Brightness]

Init ==
  /\ light \in Readings
  /\ cds_initialized = FALSE
  /\ led_initialized = FALSE
  /\ led_mutex = Nobody
  /\ current_light_value = Unread
  /\ is_bright = Unread
  /\ auto_led_enabled = FALSE
  /\ running = TRUE
  /\ led = FALSE
  /\ controller = [t \in Controllers |-> "none"]
  /\ bright = [t \in Controllers |-> Unread]
  /\ op = "none"
  /\ at = "boot"
  /\ reply = NoReply

-----------------------------------------------------------------------------
(* Helpers.                                                                *)

(* cds_state.mutex is free: outside its sections only a caller that locked it
   twice holds it.                                                         *)
CdsFree == at # "self" /\ \A t \in Controllers : controller[t] # "cds_self"

Dark(v) == v >= Threshold

ReadSensorSwapped ==
  /\ is_bright' = light
  /\ current_light_value' = IF light < Threshold THEN 1 ELSE 0

ReadSensorOffByOne ==
  /\ current_light_value' = light
  /\ is_bright' = IF light <= Threshold THEN 1 ELSE 0

(* The body of cds_read: a failed read, -1, is stored like any value.      *)
ReadSensor ==
  /\ current_light_value' = light
  /\ is_bright' = IF light < Threshold THEN 1 ELSE 0

(* auto_led_off, called by main, which then goes on at `next'.             *)
LedOff(next) ==
  /\ led_mutex = Nobody
  /\ \/ /\ led_initialized
        /\ led' = FALSE
        /\ at' = next
        /\ UNCHANGED led_mutex
     \/ /\ ~led_initialized
        /\ led_mutex' = Main
        /\ at' = "self"
        /\ UNCHANGED led
  /\ UNCHANGED led_initialized

-----------------------------------------------------------------------------
(* Main.                                                                   *)

CdsInit ==
  /\ at = "boot"
  /\ \E ok \in I2cResults :
       /\ cds_initialized' = ok
       /\ led_initialized' = ok
  /\ at' = "idle"
  /\ UNCHANGED <<light, led_mutex, led, sensor, auto_led_enabled, running,
                 threads, op, reply>>

(* handle_cds_read: three critical sections, one after the other.          *)
ReadEnter ==
  /\ at = "idle" /\ CdsFree
  /\ op' = "read"
  /\ \/ ~cds_initialized /\ at' = "self" /\ UNCHANGED sensor
     \/ cds_initialized /\ at' = "get_value" /\ ReadSensor
  /\ UNCHANGED <<light, cds_initialized, autoLed, auto_led_enabled, running,
                 threads, reply>>

GetValue ==
  /\ at = "get_value" /\ CdsFree
  /\ reply' = [reply EXCEPT !.value = current_light_value]
  /\ at' = "is_bright"
  /\ UNCHANGED <<light, cds_initialized, autoLed, sensor, auto_led_enabled,
                 running, threads, op>>

IsBright ==
  /\ at = "is_bright" /\ CdsFree
  /\ reply' = [reply EXCEPT !.bright = is_bright]
  /\ at' = "reply"
  /\ UNCHANGED <<light, cds_initialized, autoLed, sensor, auto_led_enabled,
                 running, threads, op>>

Reply ==
  /\ at = "reply"
  /\ reply' = NoReply
  /\ at' = "idle"
  /\ UNCHANGED <<light, cds_initialized, autoLed, sensor, auto_led_enabled,
                 running, threads, op>>

AutoStartKeepsFlag ==
  /\ at = "idle" /\ CdsFree
  /\ op' = "auto_start"
  /\ \/ /\ ~cds_initialized
        /\ at' = "self"
        /\ UNCHANGED <<auto_led_enabled, controller>>
     \/ /\ cds_initialized
        /\ auto_led_enabled' = TRUE
        /\ \/ UNCHANGED controller
           \/ \E t \in Controllers :
                /\ ~auto_led_enabled
                /\ controller[t] = "none"
                /\ controller' = [controller EXCEPT ![t] = "loop"]
        /\ UNCHANGED at
  /\ UNCHANGED <<light, cds_initialized, autoLed, sensor, running, bright, reply>>

(* cds_auto_led_start: when the thread cannot be created the flag falls
   again, under the same lock.                                             *)
AutoStart ==
  /\ at = "idle" /\ CdsFree
  /\ op' = "auto_start"
  /\ \/ /\ ~cds_initialized
        /\ at' = "self"
        /\ UNCHANGED <<auto_led_enabled, controller>>
     \/ /\ cds_initialized
        /\ \/ UNCHANGED <<auto_led_enabled, controller>>
           \/ \E t \in Controllers :
                /\ ~auto_led_enabled
                /\ controller[t] = "none"
                /\ auto_led_enabled' = TRUE
                /\ controller' = [controller EXCEPT ![t] = "loop"]
        /\ UNCHANGED at
  /\ UNCHANGED <<light, cds_initialized, autoLed, sensor, running, bright, reply>>

(* cds_auto_led_stop, called for CDS_AUTO_STOP and by ALL_OFF, which calls
   auto_led_manual_off after it.                                           *)
AutoStop(o) ==
  /\ at = "idle" /\ CdsFree
  /\ op' = o
  /\ auto_led_enabled' = FALSE
  /\ at' = IF auto_led_enabled THEN "off"
           ELSE IF o = "all_off" THEN "manual_off" ELSE "idle"
  /\ UNCHANGED <<light, cds_initialized, autoLed, sensor, running, threads, reply>>

(* After the unlock: a pthread_join that waits for nobody, then the LED.   *)
AutoOff ==
  /\ at = "off"
  /\ LedOff(IF op = "all_off" THEN "manual_off" ELSE "idle")
  /\ UNCHANGED <<light, cds_initialized, sensor, auto_led_enabled, running,
                 threads, op, reply>>

ManualOff ==
  /\ at = "manual_off"
  /\ LedOff("idle")
  /\ UNCHANGED <<light, cds_initialized, sensor, auto_led_enabled, running,
                 threads, op, reply>>

ReleaseKeepsLed ==
  /\ led' = (led /\ ~led_initialized)
  /\ UNCHANGED led_initialized
  /\ cds_initialized' = FALSE
  /\ at' = "gone"

(* The tail of cds_cleanup, under cds_state.mutex only.                    *)
Release ==
  /\ led' = (led /\ ~led_initialized)
  /\ led_initialized' = FALSE
  /\ cds_initialized' = FALSE
  /\ at' = "gone"

CleanupEnter ==
  /\ at = "idle" /\ CdsFree
  /\ op' = "cleanup"
  /\ running' = FALSE
  /\ auto_led_enabled' = FALSE
  /\ \/ /\ auto_led_enabled
        /\ at' = "release"
        /\ UNCHANGED <<cds_initialized, led_initialized, led>>
     \/ ~auto_led_enabled /\ Release
  /\ UNCHANGED <<light, led_mutex, sensor, threads, reply>>

CleanupRelease ==
  /\ at = "release" /\ CdsFree
  /\ Release
  /\ UNCHANGED <<light, led_mutex, sensor, auto_led_enabled, running, threads,
                 op, reply>>

-----------------------------------------------------------------------------
(* auto_led_thread.                                                        *)

Goes(t, from, to) ==
  /\ controller[t] = from
  /\ controller' = [controller EXCEPT ![t] = to]

LoopIgnoresStop(t) ==
  /\ Goes(t, "loop", IF running THEN "read" ELSE "none")
  /\ UNCHANGED <<light, cds_initialized, autoLed, sensor, auto_led_enabled,
                 running, bright, main>>

(* The loop condition, read without a lock, after a delay(1000) in every
   round but the first.                                                    *)
Loop(t) ==
  /\ Goes(t, "loop", IF running /\ auto_led_enabled THEN "read" ELSE "none")
  /\ UNCHANGED <<light, cds_initialized, autoLed, sensor, auto_led_enabled,
                 running, bright, main>>

Read(t) ==
  /\ CdsFree
  /\ \/ cds_initialized /\ Goes(t, "read", "copy") /\ ReadSensor
     \/ ~cds_initialized /\ Goes(t, "read", "cds_self") /\ UNCHANGED sensor
  /\ UNCHANGED <<light, cds_initialized, autoLed, auto_led_enabled, running,
                 bright, main>>

(* A critical section of its own: another cds_read may come between.       *)
Copy(t) ==
  /\ CdsFree
  /\ Goes(t, "copy", "drive")
  /\ bright' = [bright EXCEPT ![t] = is_bright]
  /\ UNCHANGED <<light, cds_initialized, autoLed, sensor, auto_led_enabled,
                 running, main>>

(* auto_led_on or auto_led_off: lock and check, ...                        *)
Drive(t) ==
  /\ led_mutex = Nobody
  /\ led_mutex' = t
  /\ Goes(t, "drive", IF led_initialized THEN "write" ELSE "led_self")
  /\ UNCHANGED <<light, cds_initialized, led_initialized, led, sensor,
                 auto_led_enabled, running, bright, main>>

WriteKeepsMutex(t) ==
  /\ Goes(t, "write", "loop")
  /\ led' = (bright[t] = 0)
  /\ bright' = [bright EXCEPT ![t] = Unread]
  /\ UNCHANGED <<light, cds_initialized, led_initialized, led_mutex, sensor,
                 auto_led_enabled, running, main>>

(* ... write the pin and unlock.                                           *)
Write(t) ==
  /\ Goes(t, "write", "loop")
  /\ led' = (bright[t] = 0)
  /\ led_mutex' = Nobody
  /\ bright' = [bright EXCEPT ![t] = Unread]
  /\ UNCHANGED <<light, cds_initialized, led_initialized, sensor,
                 auto_led_enabled, running, main>>

-----------------------------------------------------------------------------
(* The world, and the end.                                                 *)

LightChanges ==
  /\ light' \in Readings \ {light}
  /\ UNCHANGED <<cds_initialized, autoLed, sensor, auto_led_enabled, running,
                 threads, main>>

Ended ==
  /\ at \in {"gone", "self"}
  /\ UNCHANGED vars

MainInside ==
  \/ GetValue \/ IsBright \/ Reply
  \/ AutoOff \/ ManualOff \/ CleanupRelease

ControllerStep(t) == Loop(t) \/ Read(t) \/ Copy(t) \/ Drive(t) \/ Write(t)

Next ==
  \/ CdsInit
  \/ ReadEnter \/ AutoStart \/ CleanupEnter
  \/ \E o \in {"auto_stop", "all_off"} : AutoStop(o)
  \/ MainInside
  \/ \E t \in Controllers : ControllerStep(t)
  \/ LightChanges
  \/ Ended

Spec == Init /\ [][Next]_vars

(* Nobody has to send a command and the light need not change; what runs goes
   on running.  Strong fairness for those that contend for a mutex.        *)
Fairness ==
  /\ SF_vars(MainInside)
  /\ \A t \in Controllers : SF_vars(ControllerStep(t))

FairSpec == Spec /\ Fairness

-----------------------------------------------------------------------------
(* Properties.                                                             *)

(* "AUTO_LED_ON" (cds_get_status) is never a stale answer, and a refused
   CDS_AUTO_START ("already running") is never wrong: while the flag is set
   some controller will go on reading the sensor and driving the LED.      *)
EnabledHasController ==
  auto_led_enabled =>
    \E t \in Controllers : controller[t] \in {"loop", "read", "copy", "drive", "write"}

(* README.md:59 "on when dark, off when bright": while automatic control stays
   on and the light stays on one side of the threshold, the LED ends up on
   that side's setting for good, whatever other controllers and CDS_READs
   do to the shared reading.                                               *)
FollowsLight ==
  /\ <>[](auto_led_enabled /\ Dark(light)) => <>[]led
  /\ <>[](auto_led_enabled /\ ~Dark(light)) => <>[]~led

(* Controllers that nobody waits for do leave: after automatic control is
   switched off for good no thread goes on driving the LED, unless the
   process is on its way out.                                              *)
ControllersLeave ==
  <>[](~auto_led_enabled /\ at # "gone") =>
    <>[](\A t \in Controllers : controller[t] = "none")

(* Who is inside auto_led_on or auto_led_off, about to write the pin.      *)
Writers == {t \in Controllers : controller[t] = "write"}

(* cds_cleanup takes the LED away without its mutex, so a controller may be
   about to write it: nobody else sets about it afterwards, and that write is
   the last that the released pin sees.                                    *)
ReleasedLedIsLeft ==
  [][at = "gone" => /\ Writers' \subseteq Writers
                    /\ led' # led => Writers' = {}]_vars

(* Every command returns, except on a sensor that was never initialised.   *)
CommandsReturn ==
  at \notin {"boot", "idle"} ~> at \in {"idle", "gone", "self"}

(* libcds.c:255 "wait for the thread to end", libcds.c:261 "switch the
   automatic LED off", README.md:145 and :155: when CDS_AUTO_STOP or ALL_OFF
   has returned, the LED is off.                                           *)
StopLeavesLedOff ==
  (at = "idle" /\ op \in {"auto_stop", "all_off"}) => ~led

(* main.c:252 answers CDS_READ with one value and one judgement of it; the
   judgement is libcds.c:184's of that value.                              *)
ReplyAgrees ==
  at = "reply" => (reply.bright = 1 <=> reply.value < Threshold)
=============================================================================
