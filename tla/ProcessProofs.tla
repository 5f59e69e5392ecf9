--------------------------- MODULE ProcessProofs ---------------------------
(***************************************************************************)
(* Theorems about Process, for any countdowns, signals, brightness levels, *)
(* bounds and sets of missing devices.                                     *)
(***************************************************************************)
EXTENDS Process, SequenceTheorems, TLAPS

-----------------------------------------------------------------------------
(* Constants and helpers.                                                  *)

LEMMA MainIsActive == Main \in Activities /\ Main \in Codes /\ Main \notin Handlers
  BY ProcessAssumption DEF Main, Activities, Codes, Own, Handlers, Threads

LEMMA ActivitiesAreCodes == Activities \subseteq Codes
  BY ProcessAssumption DEF Activities, Codes, Handlers, Main, Own, Threads

LEMMA OwnIsCode == \A t \in Threads : Own(t) \in Codes
  BY DEF Codes, Own

(* A call is a pair of a mutex, or none, and the name of a function.       *)
LEMMA CallIsTyped ==
  ASSUME NEW m \in Mutexes \cup {"none"},
         NEW f \in {"log", "load", "listen", "init", "on", "off", "brightness",
                    "display", "countdown", "stop", "nap", "settle", "play",
                    "auto_start", "auto_stop", "read", "get"}
  PROVE  Call(m, f) \in Calls
  BY DEF Call, Calls

LEMMA BootIsCalls == Boot \in Seq(Calls) /\ Boot # <<>>
<1>1. /\ WriteLog \in Calls
      /\ Call("none", "load") \in Calls
      /\ Call("led", "init") \in Calls
      /\ Call("segment", "init") \in Calls
      /\ Call("buzzer", "init") \in Calls
      /\ Call("cds", "init") \in Calls
      /\ Call("none", "listen") \in Calls
  BY CallIsTyped DEF WriteLog, Mutexes, Devices
<1> QED
  BY <1>1 DEF Boot

LEMMA CommandsAreCalls ==
  ASSUME NEW cmd \in DOMAIN Commands
  PROVE  /\ <<WriteLog>> \o Commands[cmd] \in Seq(Calls)
         /\ <<WriteLog>> \o Commands[cmd] # <<>>
<1>1. /\ Call("led", "on") \in Calls
      /\ Call("led", "off") \in Calls
      /\ Call("led", "brightness") \in Calls
      /\ Call("segment", "display") \in Calls
      /\ Call("segment", "countdown") \in Calls
      /\ Call("segment", "stop") \in Calls
      /\ Call("none", "nap") \in Calls
      /\ Call("segment", "settle") \in Calls
      /\ Call("segment", "off") \in Calls
  BY CallIsTyped DEF Mutexes, Devices
<1>2. /\ Call("buzzer", "play") \in Calls
      /\ Call("buzzer", "stop") \in Calls
      /\ Call("cds", "auto_start") \in Calls
      /\ Call("cds", "auto_stop") \in Calls
      /\ Call("cds", "read") \in Calls
      /\ Call("cds", "get") \in Calls
      /\ Call("auto", "off") \in Calls
      /\ WriteLog \in Calls
  BY CallIsTyped DEF WriteLog, Mutexes, Devices
<1>3. Commands[cmd] \in Seq(Calls)
  <2>1. /\ <<Call("led", "on")>> \in Seq(Calls)
        /\ <<Call("led", "off")>> \in Seq(Calls)
        /\ <<Call("led", "brightness")>> \in Seq(Calls)
        /\ <<Call("segment", "display")>> \in Seq(Calls)
        /\ <<Call("segment", "countdown")>> \in Seq(Calls)
        /\ <<Call("segment", "stop"), Call("none", "nap"),
             Call("segment", "settle")>> \in Seq(Calls)
        /\ <<Call("segment", "off")>> \in Seq(Calls)
    BY <1>1
  <2>2. /\ <<Call("buzzer", "play")>> \in Seq(Calls)
        /\ <<Call("buzzer", "stop")>> \in Seq(Calls)
        /\ <<Call("cds", "auto_start")>> \in Seq(Calls)
        /\ <<Call("cds", "auto_stop")>> \in Seq(Calls)
        /\ <<Call("cds", "read"), Call("cds", "get")>> \in Seq(Calls)
        /\ <<Call("cds", "get")>> \in Seq(Calls)
        /\ <<Call("led", "off"), Call("segment", "off"), Call("buzzer", "stop"),
             Call("cds", "auto_stop"), Call("auto", "off")>> \in Seq(Calls)
        /\ <<>> \in Seq(Calls)
    BY <1>1, <1>2
  <2>3. cmd \in {"LED_ON", "LED_OFF", "LED_BRIGHTNESS", "SEGMENT_DISPLAY",
                 "SEGMENT_COUNTDOWN", "SEGMENT_STOP", "SEGMENT_OFF",
                 "BUZZER_PLAY", "BUZZER_STOP", "CDS_AUTO_START",
                 "CDS_AUTO_STOP", "CDS_READ", "CDS_GET_STATUS", "ALL_OFF",
                 "HELP"}
    BY DEF Commands
  <2>4. /\ Commands["LED_ON"] \in Seq(Calls)
        /\ Commands["LED_OFF"] \in Seq(Calls)
        /\ Commands["LED_BRIGHTNESS"] \in Seq(Calls)
        /\ Commands["SEGMENT_DISPLAY"] \in Seq(Calls)
        /\ Commands["SEGMENT_COUNTDOWN"] \in Seq(Calls)
        /\ Commands["SEGMENT_STOP"] \in Seq(Calls)
        /\ Commands["SEGMENT_OFF"] \in Seq(Calls)
    BY <2>1 DEF Commands
  <2>5. /\ Commands["BUZZER_PLAY"] \in Seq(Calls)
        /\ Commands["BUZZER_STOP"] \in Seq(Calls)
        /\ Commands["CDS_AUTO_START"] \in Seq(Calls)
        /\ Commands["CDS_AUTO_STOP"] \in Seq(Calls)
        /\ Commands["CDS_READ"] \in Seq(Calls)
        /\ Commands["CDS_GET_STATUS"] \in Seq(Calls)
        /\ Commands["ALL_OFF"] \in Seq(Calls)
        /\ Commands["HELP"] \in Seq(Calls)
    BY <2>2 DEF Commands
  <2> QED
    BY <2>3, <2>4, <2>5
<1> QED
  BY <1>2, <1>3

-----------------------------------------------------------------------------
(* Types.                                                                  *)

(* While main() executes calls, it has one left.                           *)
CallsLeft == at[Main] = "call" => todo # <<>>

FlowOK ==
  /\ at \in [Activities -> Places]
  /\ todo \in Seq(Calls)
  /\ commands \in 0 .. MaxCommands
  /\ CallsLeft

LEMMA InitIsTyped == Init => TypeOK /\ FlowOK
<1> SUFFICES ASSUME Init
             PROVE  TypeOK /\ FlowOK
  OBVIOUS
<1>1. at \in [Activities -> Places] /\ at[Main] = "start"
  BY MainIsActive DEF Init, Places
<1>2. mutex \in [Mutexes -> Codes \cup {Nobody}]
  BY DEF Init
<1>3. worker \in [Workers -> WorkerPlaces] /\ ready \in [Devices -> BOOLEAN]
  BY DEF Init, WorkerPlaces
<1>4. todo \in Seq(Calls) /\ timers \in Seq([who : Activities, what : {"alarm", "sleep"}])
  BY DEF Init
<1>5. commands \in 0 .. MaxCommands /\ light \in 0 .. 1024
  BY ProcessAssumption DEF Init
<1> QED
  BY <1>1, <1>2, <1>3, <1>4, <1>5 DEF Init, TypeOK, FlowOK, CallsLeft, Ends

USE DEF Runs, Interrupted, work, flow, signals, fnd, devices, fate, lib

LEMMA FlowStays == FlowOK /\ UNCHANGED flow => FlowOK'
  BY DEF FlowOK, CallsLeft

LEMMA LeavesIsTyped ==
  ASSUME FlowOK, NEW rest \in Seq(Calls), Leaves(rest)
  PROVE  FlowOK'
  BY MainIsActive DEF FlowOK, CallsLeft, Leaves, Places

LEMMA LivingAreCountdowns == Living \subseteq Countdowns
  BY DEF Living

LEMMA CallIsDone ==
  ASSUME FlowOK, NEW c, Makes(c), Leaves(Tail(todo))
  PROVE  FlowOK'
<1>1. Tail(todo) \in Seq(Calls)
  BY DEF FlowOK, CallsLeft, Makes
<1> QED
  BY <1>1, LeavesIsTyped

LEMMA PwmValueIsTyped == \A level \in 0 .. 2 : PwmValue[level] \in 0 .. 1024
  BY DEF PwmValue

LEMMA CallsAreTyped ==
  TypeOK /\ FlowOK /\ MainCalls => TypeOK' /\ FlowOK'
<1> SUFFICES ASSUME TypeOK, FlowOK, MainCalls
             PROVE  TypeOK' /\ FlowOK'
  OBVIOUS
<1>1. CASE LocksTwice
  <2>1. FlowOK'
    BY <1>1, FlowStays DEF LocksTwice
  <2>2. mutex' \in [Mutexes -> Codes \cup {Nobody}]
    BY <1>1, MainIsActive DEF LocksTwice, TypeOK
  <2> QED
    BY <1>1, <2>1, <2>2 DEF LocksTwice, TypeOK
<1>2. CASE Log
  <2>1. FlowOK'
    BY <1>2, CallIsDone DEF Log
  <2> QED
    BY <1>2, <2>1 DEF Log, TypeOK, FlowOK
<1>3. CASE Load
  <2>1. FlowOK'
    BY <1>3, CallIsDone, FlowStays DEF Load
  <2>2. loaded' \in {"no", "yes", "closed"} /\ ended' \in Ends
    BY <1>3 DEF Load, TypeOK, Ends
  <2> QED
    BY <1>3, <2>1, <2>2 DEF Load, TypeOK, FlowOK
<1>4. CASE InitDevice
  <2>1. FlowOK'
    BY <1>4, CallIsDone DEF InitDevice
  <2> QED
    BY <1>4, <2>1 DEF InitDevice, TypeOK, FlowOK
<1>5. CASE Listen
  <2>1. FlowOK'
    BY <1>5, CallIsDone, FlowStays DEF Listen
  <2>2. ended' \in Ends
    BY <1>5 DEF Listen, TypeOK, Ends
  <2> QED
    BY <1>5, <2>1, <2>2 DEF Listen, TypeOK, FlowOK
<1>6. CASE CallLed
  <2>1. FlowOK'
    BY <1>6, CallIsDone DEF CallLed
  <2>2. light' \in 0 .. 1024
    <3>1. CASE light' = 1024 \/ light' = 0
      BY <3>1
    <3>2. CASE \E level \in Levels :
                 light' = IF level \in 0 .. 2 THEN PwmValue[level] ELSE light
      <4>1. PICK level \in Levels :
              light' = IF level \in 0 .. 2 THEN PwmValue[level] ELSE light
        BY <3>2
      <4>2. CASE level \in 0 .. 2
        BY <4>1, <4>2, PwmValueIsTyped
      <4>3. CASE level \notin 0 .. 2
        BY <4>1, <4>3 DEF TypeOK
      <4> QED
        BY <4>2, <4>3
    <3> QED
      BY <1>6, <3>1, <3>2 DEF CallLed
  <2> QED
    BY <1>6, <2>1, <2>2 DEF CallLed, TypeOK, FlowOK
<1>7. CASE CallDisplay
  <2>1. FlowOK'
    BY <1>7, CallIsDone DEF CallDisplay
  <2>2. /\ countdown_tid' \in BOOLEAN /\ is_counting' \in BOOLEAN
        /\ countdown_stop_requested' \in BOOLEAN /\ forgotten' \subseteq Countdowns
    BY <1>7, LivingAreCountdowns DEF CallDisplay, DropsCountdown, Forget, TypeOK
  <2>3. display' \in BOOLEAN
    BY <1>7 DEF CallDisplay, TypeOK
  <2> QED
    BY <1>7, <2>1, <2>2, <2>3 DEF CallDisplay, TypeOK, FlowOK
<1>8. CASE CallCountdown
  <2>1. FlowOK'
    BY <1>8, CallIsDone DEF CallCountdown
  <2>2. /\ countdown_tid' \in BOOLEAN /\ is_counting' \in BOOLEAN
        /\ countdown_stop_requested' \in BOOLEAN /\ forgotten' \subseteq Countdowns
    BY <1>8, LivingAreCountdowns DEF CallCountdown, DropsCountdown, Forget, TypeOK
  <2>3. worker' \in [Workers -> WorkerPlaces]
    BY <1>8 DEF CallCountdown, TypeOK, WorkerPlaces
  <2> QED
    BY <1>8, <2>1, <2>2, <2>3 DEF CallCountdown, TypeOK, FlowOK
<1>9. CASE CallStop
  <2>1. FlowOK'
    <3>1. Tail(todo) \in Seq(Calls) /\ <<>> \in Seq(Calls)
      BY <1>9 DEF CallStop, Makes, FlowOK, CallsLeft
    <3>2. CASE Interrupts
      BY <1>9, <3>1, <3>2, LeavesIsTyped DEF CallStop
    <3>3. CASE ~Interrupts
      BY <1>9, <3>1, <3>3, LeavesIsTyped DEF CallStop
    <3> QED
      BY <3>2, <3>3
  <2> QED
    BY <1>9, <2>1 DEF CallStop, Interrupts, TypeOK, FlowOK
<1>10. CASE Nap
  <2>1. FlowOK'
    BY <1>10, CallIsDone DEF Nap
  <2> QED
    BY <1>10, <2>1 DEF Nap, TypeOK, FlowOK
<1>11. CASE Settle
  <2>1. FlowOK'
    BY <1>11, CallIsDone DEF Settle
  <2> QED
    BY <1>11, <2>1, LivingAreCountdowns DEF Settle, Forget, TypeOK, FlowOK
<1>12. CASE CallPlay
  <2>1. FlowOK'
    BY <1>12, CallIsDone DEF CallPlay
  <2>2. worker' \in [Workers -> WorkerPlaces]
    BY <1>12 DEF CallPlay, MayCreate, TypeOK, WorkerPlaces
  <2> QED
    BY <1>12, <2>1, <2>2 DEF CallPlay, TypeOK, FlowOK
<1>13. CASE CallAutoStart
  <2>1. FlowOK'
    BY <1>13, CallIsDone DEF CallAutoStart
  <2>2. worker' \in [Workers -> WorkerPlaces] /\ auto_led_enabled' \in BOOLEAN
    BY <1>13 DEF CallAutoStart, TypeOK, WorkerPlaces
  <2> QED
    BY <1>13, <2>1, <2>2 DEF CallAutoStart, TypeOK, FlowOK
<1>14. CASE CallAutoStop
  <2>1. FlowOK'
    <3>1. Tail(todo) \in Seq(Calls) /\ <<Call("auto", "off")>> \in Seq(Calls)
      BY <1>14, CallIsTyped DEF CallAutoStop, Makes, FlowOK, CallsLeft, Mutexes
    <3>2. <<Call("auto", "off")>> \o Tail(todo) \in Seq(Calls)
      BY <3>1
    <3> QED
      BY <1>14, <3>1, <3>2, LeavesIsTyped DEF CallAutoStop
  <2> QED
    BY <1>14, <2>1 DEF CallAutoStop, TypeOK, FlowOK
<1>15. CASE CallOther
  <2>1. FlowOK'
    BY <1>15, CallIsDone DEF CallOther
  <2> QED
    BY <1>15, <2>1 DEF CallOther, TypeOK, FlowOK
<1> QED
  BY <1>1, <1>2, <1>3, <1>4, <1>5, <1>6, <1>7, <1>8, <1>9, <1>10, <1>11, <1>12,
     <1>13, <1>14, <1>15 DEF MainCalls

(* Removing an element leaves the rest as it was.                          *)
LEMMA RemoveAtProperties ==
  ASSUME NEW S, NEW s \in Seq(S), NEW k \in 1 .. Len(s)
  PROVE  RemoveAt(s, k) \in Seq(S)
<1>1. SubSeq(s, 1, k - 1) \in Seq(S)
  BY SubSeqProperties
<1>2. SubSeq(s, k + 1, Len(s)) \in Seq(S)
  BY SubSeqProperties
<1> QED
  BY <1>1, <1>2, ConcatProperties DEF RemoveAt

Timers == [who : Activities, what : {"alarm", "sleep"}]

LEMMA WithoutIsTyped ==
  ASSUME timers \in Seq(Timers), NEW S
  PROVE  Without(S) \in Seq(Timers)
<1>1. CASE \E k \in DOMAIN timers : timers[k] \in S
  <2> DEFINE k == CHOOSE n \in DOMAIN timers : timers[n] \in S
  <2>1. k \in DOMAIN timers
    BY <1>1
  <2>2. k \in 1 .. Len(timers)
    BY <2>1
  <2> QED
    BY <1>1, <2>2, RemoveAtProperties DEF Without
<1>2. CASE ~ \E k \in DOMAIN timers : timers[k] \in S
  BY <1>2 DEF Without
<1> QED
  BY <1>1, <1>2

LEMMA TimerIsTyped ==
  \A a \in Activities : \A kind \in {"alarm", "sleep"} : Timer(a, kind) \in Timers
  BY DEF Timer, Timers

(* A step from one place to another.                                       *)
LEMMA GoesIsTyped ==
  ASSUME FlowOK, NEW a \in Activities, NEW from, NEW to \in Places, to # "call",
         Goes(a, from, to), UNCHANGED work
  PROVE  FlowOK'
  BY DEF FlowOK, CallsLeft, Goes

LEMMA LeavingIsTyped ==
  ASSUME TypeOK, FlowOK, NEW a \in Activities, LeavingStep(a)
  PROVE  TypeOK' /\ FlowOK'
<1>1. CASE LogEnd(a)
  <2>1. FlowOK'
    BY <1>1, GoesIsTyped DEF LogEnd, Places, Leaving
  <2>2. timers' \in Seq(Timers)
    <3>1. timers \in Seq(Timers)
      BY DEF TypeOK, Timers
    <3> QED
      BY <1>1, <3>1, WithoutIsTyped, TimerIsTyped DEF LogEnd
  <2> QED
    BY <1>1, <2>1, <2>2 DEF LogEnd, TypeOK, FlowOK, Timers
<1>2. CASE NothingLoaded(a)
  <2>1. FlowOK'
    BY <1>2, GoesIsTyped DEF NothingLoaded, Places, Leaving
  <2> QED
    BY <1>2, <2>1 DEF NothingLoaded, TypeOK, FlowOK
<1>3. CASE CleanLed(a)
  <2>1. FlowOK'
    BY <1>3, GoesIsTyped DEF CleanLed, Places, Leaving
  <2>2. light' \in 0 .. 1024
    BY <1>3 DEF CleanLed, TypeOK
  <2>3. ready' \in [Devices -> BOOLEAN]
    BY <1>3 DEF CleanLed, TypeOK
  <2> QED
    BY <1>3, <2>1, <2>2, <2>3 DEF CleanLed, TypeOK, FlowOK
<1>4. CASE Ask(a)
  <2>1. FlowOK'
    BY <1>4, GoesIsTyped DEF Ask, Places, Leaving
  <2> QED
    BY <1>4, <2>1 DEF Ask, TypeOK, FlowOK
<1>5. CASE Wait(a)
  <2>1. FlowOK'
    BY <1>5, GoesIsTyped DEF Wait, Places, Leaving
  <2>2. timers' \in Seq(Timers)
    <3>1. timers \in Seq(Timers) /\ Timer(a, "sleep") \in Timers
      BY TimerIsTyped DEF TypeOK, Timers
    <3> QED
      BY <1>5, <3>1 DEF Wait
  <2> QED
    BY <1>5, <2>1, <2>2 DEF Wait, TypeOK, FlowOK, Timers
<1>6. CASE CleanSegment(a)
  <2>1. FlowOK'
    BY <1>6, GoesIsTyped DEF CleanSegment, Places, Leaving
  <2> QED
    BY <1>6, <2>1 DEF CleanSegment, TypeOK, FlowOK
<1>7. CASE CleanBuzzer(a)
  <2>1. FlowOK'
    BY <1>7, GoesIsTyped DEF CleanBuzzer, Places, Leaving
  <2> QED
    BY <1>7, <2>1 DEF CleanBuzzer, TypeOK, FlowOK
<1>8. CASE CleanCds(a)
  <2>1. FlowOK'
    BY <1>8, GoesIsTyped DEF CleanCds, Places, Leaving
  <2> QED
    BY <1>8, <2>1 DEF CleanCds, TypeOK, FlowOK
<1>9. CASE CallsUnloaded(a)
  BY <1>9, FlowStays DEF CallsUnloaded, TypeOK, Ends
<1>10. CASE Unload(a)
  <2>1. FlowOK'
    BY <1>10, GoesIsTyped DEF Unload, Places, Leaving
  <2>2. timers' \in Seq(Timers)
    <3>1. timers \in Seq(Timers)
      BY DEF TypeOK, Timers
    <3> QED
      BY <1>10, <3>1, WithoutIsTyped DEF Unload
  <2>3. loaded' \in {"no", "yes", "closed"} /\ ended' \in Ends
    BY <1>10 DEF Unload, Ends
  <2> QED
    BY <1>10, <2>1, <2>2, <2>3 DEF Unload, TypeOK, FlowOK, Timers
<1>11. CASE Exit(a)
  BY <1>11, FlowStays DEF Exit, TypeOK, Ends
<1> QED
  BY <1>1, <1>2, <1>3, <1>4, <1>5, <1>6, <1>7, <1>8, <1>9, <1>10, <1>11
  DEF LeavingStep

LEMMA DeliverIsTyped ==
  ASSUME TypeOK, FlowOK, NEW s \in Signals, Deliver(s)
  PROVE  TypeOK' /\ FlowOK'
<1>1. PICK t \in Threads : \E x \in Top(t) : Strikes(s, t, x)
  BY ProcessAssumption DEF Deliver, Threads
<1>2. PICK x \in Top(t) : Strikes(s, t, x)
  BY <1>1
<1> USE DEF Strikes
<1>8. x \in Codes
  BY OwnIsCode, ActivitiesAreCodes DEF Top, Active, Activities
<1>3. at' \in [Activities -> Places]
  <2>1. \A a \in Activities : at'[a] \in Places
    BY <1>2 DEF TypeOK, Places, Leaving
  <2> QED
    BY <1>2, <2>1
<1>4. todo' \in Seq(Calls)
  BY <1>2 DEF TypeOK
<1>5. CallsLeft'
  <2>1. CASE x = Main
    BY <1>2, <2>1, MainIsActive DEF CallsLeft, Leaving
  <2>2. CASE x # Main
    <3>1. at'[Main] = at[Main] \/ at'[Main] = "log"
      BY <1>2, <2>2, MainIsActive
    <3> QED
      BY <1>2, <2>2, <3>1 DEF CallsLeft, FlowOK
  <2> QED
    BY <2>1, <2>2
<1>6. mutex' \in [Mutexes -> Codes \cup {Nobody}] /\ stopped' \subseteq Codes
  BY <1>2, <1>8 DEF TypeOK
<1>7. timers' \in Seq(Timers)
  <2>1. timers \in Seq(Timers)
    BY DEF TypeOK, Timers
  <2> QED
    BY <1>2, <2>1, WithoutIsTyped
<1> QED
  BY <1>3, <1>4, <1>5, <1>6, <1>7 DEF Deliver, TypeOK, FlowOK, Timers

WorkersStep ==
  \/ \E c \in Countdowns :
       CountdownStep(c) \/ CountdownWrites(c) \/ CountdownReachesZero(c)
  \/ MelodyEnds \/ ControllerLooks
  \/ \E w \in Workers : WorkerFaults(w)

LEMMA WorkersAreTyped ==
  ASSUME TypeOK, FlowOK, WorkersStep
  PROVE  TypeOK' /\ FlowOK'
<1>0. \A w \in Workers : Own(w) \in Codes
  BY OwnIsCode DEF Threads
<1>1. ASSUME NEW c \in Countdowns, CountdownStarts(c)
      PROVE  TypeOK' /\ FlowOK'
  BY <1>1, FlowStays DEF CountdownStarts, Becomes, TypeOK, WorkerPlaces
<1>2. ASSUME NEW c \in Countdowns, CountdownRings(c)
      PROVE  TypeOK' /\ FlowOK'
  <2>1. FlowOK'
    BY <1>2, FlowStays DEF CountdownRings
  <2>2. worker' \in [Workers -> WorkerPlaces]
    BY <1>2 DEF CountdownRings, TypeOK, WorkerPlaces, Workers
  <2>3. mutex' \in [Mutexes -> Codes \cup {Nobody}]
    BY <1>0, <1>2 DEF CountdownRings, TypeOK, Workers
  <2> QED
    BY <1>2, <2>1, <2>2, <2>3 DEF CountdownRings, TypeOK
<1>3. ASSUME NEW c \in Countdowns, CountdownEnds(c)
      PROVE  TypeOK' /\ FlowOK'
  BY <1>3, FlowStays DEF CountdownEnds, Becomes, Forget, Living, TypeOK, WorkerPlaces
<1>4. ASSUME NEW c \in Countdowns, CountdownWrites(c)
      PROVE  TypeOK' /\ FlowOK'
  BY <1>4, FlowStays DEF CountdownWrites, TypeOK
<1>5. ASSUME NEW c \in Countdowns, CountdownReachesZero(c)
      PROVE  TypeOK' /\ FlowOK'
  BY <1>5, FlowStays DEF CountdownReachesZero, Becomes, TypeOK, WorkerPlaces
<1>6. CASE MelodyEnds
  BY <1>6, FlowStays DEF MelodyEnds, Becomes, TypeOK, WorkerPlaces
<1>7. CASE ControllerLooks
  <2>1. FlowOK'
    BY <1>7, FlowStays DEF ControllerLooks
  <2>2. worker' \in [Workers -> WorkerPlaces]
    BY <1>7 DEF ControllerLooks, Becomes, TypeOK, WorkerPlaces
  <2>3. mutex' \in [Mutexes -> Codes \cup {Nobody}]
    BY <1>0, <1>7 DEF ControllerLooks, TypeOK, Workers
  <2>4. UNCHANGED <<flow, signals, lib, devices, fate>>
    BY <1>7 DEF ControllerLooks
  <2> QED
    BY <2>1, <2>2, <2>3, <2>4 DEF TypeOK
<1>8. CASE \E w \in Workers : WorkerFaults(w)
  BY <1>8, FlowStays DEF WorkerFaults, TypeOK, Ends
<1> QED
  BY <1>1, <1>2, <1>3, <1>4, <1>5, <1>6, <1>7, <1>8 DEF WorkersStep, CountdownStep

LEMMA NextIsTyped == TypeOK /\ FlowOK /\ [Next]_vars => TypeOK' /\ FlowOK'
<1> SUFFICES ASSUME TypeOK, FlowOK, [Next]_vars
             PROVE  TypeOK' /\ FlowOK'
  OBVIOUS
<1>1. CASE Daemonize
  <2>1. FlowOK'
    BY <1>1, MainIsActive DEF Daemonize, FlowOK, CallsLeft, Places
  <2>2. ended' \in Ends /\ pid_file' \in BOOLEAN
    BY <1>1 DEF Daemonize, TypeOK, Ends
  <2> QED
    BY <1>1, <2>1, <2>2 DEF Daemonize, TypeOK, FlowOK
<1>2. CASE InstallHandlers
  <2>1. FlowOK'
    BY <1>2, MainIsActive, BootIsCalls
    DEF InstallHandlers, Goes, FlowOK, CallsLeft, Places
  <2> QED
    BY <1>2, <2>1 DEF InstallHandlers, TypeOK, FlowOK
<1>3. CASE MainCalls
  BY <1>3, CallsAreTyped
<1>4. CASE LeavingStep(Main)
  BY <1>4, MainIsActive, LeavingIsTyped
<1>5. CASE EarlySignal
  BY <1>5, FlowStays DEF EarlySignal, TypeOK, Ends
<1>6. CASE LeaveLoop
  <2>1. FlowOK'
    BY <1>6, MainIsActive, GoesIsTyped DEF LeaveLoop, Places, Leaving
  <2> QED
    BY <1>6, <2>1 DEF LeaveLoop, TypeOK, FlowOK
<1>7. ASSUME NEW cmd \in DOMAIN Commands, Dispatch(cmd)
      PROVE  TypeOK' /\ FlowOK'
  <2>1. commands' \in 0 .. MaxCommands
    BY <1>7, ProcessAssumption DEF Dispatch, TypeOK
  <2>2. FlowOK'
    BY <1>7, <2>1, MainIsActive, CommandsAreCalls
    DEF Dispatch, Goes, FlowOK, CallsLeft, Places
  <2> QED
    BY <1>7, <2>2 DEF Dispatch, TypeOK, FlowOK
<1>8. ASSUME NEW s \in Signals, Deliver(s)
      PROVE  TypeOK' /\ FlowOK'
  BY <1>8, DeliverIsTyped
<1>9. CASE HandlerStep
  BY <1>9, LeavingIsTyped DEF HandlerStep, Activities
<1>10. CASE WorkersStep
  BY <1>10, WorkersAreTyped
<1>11. CASE Expire
  <2>1. FlowOK'
    <3>1. PICK a \in {Head(timers).who} :
            at' = at \/ at' = [at EXCEPT ![a] = "segment"]
      BY <1>11 DEF Expire
    <3>2. at' \in [Activities -> Places]
      BY <3>1 DEF FlowOK, Places, Leaving
    <3>3. at'[Main] = at[Main] \/ at'[Main] = "segment"
      BY <3>1, MainIsActive DEF FlowOK
    <3> QED
      BY <1>11, <3>2, <3>3 DEF Expire, FlowOK, CallsLeft
  <2>2. timers' \in Seq(Timers) /\ ended' \in Ends
    BY <1>11 DEF Expire, TypeOK, Ends, Timers
  <2> QED
    BY <1>11, <2>1, <2>2 DEF Expire, TypeOK, FlowOK, Timers
<1>12. CASE UNCHANGED vars
  BY <1>12, FlowStays DEF vars, TypeOK
<1>13. CASE Over
  BY <1>12, <1>13 DEF Over
<1> QED
  BY <1>1, <1>2, <1>3, <1>4, <1>5, <1>6, <1>7, <1>8, <1>9, <1>10, <1>11, <1>12,
     <1>13 DEF Next, MainStep, WorkersStep

(* Every reachable state of the daemon is well typed, and main() that executes a
   command has a call left in it.                                          *)
THEOREM TypeCorrect == Spec => []TypeOK
<1>1. Spec => [](TypeOK /\ FlowOK)
  BY InitIsTyped, NextIsTyped, PTL DEF Spec
<1> QED
  BY <1>1, PTL

-----------------------------------------------------------------------------
(* A clean exit.  The invariant says why the cleanup functions, whoever calls
   them and however often, have done their work when the end is reached: each
   activity on its way out has passed some devices, nobody initialises a device
   again once somebody is on its way out, and no output outlives its device.  *)

ReadyWorks == \A d \in Devices : ready[d] => d \notin missing

NothingReady == loaded = "no" => \A d \in Devices : ~ready[d]

(* Until the libraries are loaded, main() does nothing but that.           *)
LoadsFirst ==
  loaded = "no" =>
    /\ at[Main] # "idle"
    /\ at[Main] = "call" => todo \in {Boot, Tail(Boot)}

(* A handler runs on main(), or after one that does.                       *)
HandlersStopMain == \A h \in Handlers : at[h] # "none" => Main \in stopped

DarkUnlessReady == (light # 0 => ready["led"]) /\ (display => ready["segment"])

(* The places after the cleanup of each device.                            *)
After ==
  [led |-> {"ask", "wait", "asleep", "segment", "buzzer", "cds", "unload", "exit"},
   segment |-> {"buzzer", "cds", "unload", "exit"},
   buzzer |-> {"cds", "unload", "exit"},
   cds |-> {"unload", "exit"}]

LEMMA AfterPlaces ==
  \A d \in Devices :
    /\ "led" \notin After[d] /\ "log" \notin After[d] /\ "call" \notin After[d]
    /\ "ask" \in After[d] => d = "led"
    /\ "wait" \in After[d] => "ask" \in After[d]
    /\ "asleep" \in After[d] => "wait" \in After[d]
    /\ "segment" \in After[d] => "wait" \in After[d] /\ "asleep" \in After[d]
    /\ "buzzer" \in After[d] => d = "segment" \/ "segment" \in After[d]
    /\ "cds" \in After[d] => d = "buzzer" \/ "buzzer" \in After[d]
    /\ "unload" \in After[d] => d = "cds" \/ "cds" \in After[d]
    /\ "exit" \in After[d] => "unload" \in After[d]
  BY DEF After, Devices

PastDevices ==
  \A a \in Activities : \A d \in Devices : at[a] \in After[d] => ~ready[d]

WayOut ==
  /\ ReadyWorks /\ NothingReady /\ LoadsFirst
  /\ HandlersStopMain /\ DarkUnlessReady /\ PastDevices
  /\ ExitIsClean

LEMMA InitWayOut == Init => WayOut
  BY MainIsActive
  DEF Init, WayOut, ReadyWorks, NothingReady, LoadsFirst, HandlersStopMain,
      DarkUnlessReady, PastDevices, ExitIsClean, After, Activities, Devices

(* Steps that change nothing the invariant speaks of.                      *)
LEMMA QuietStep ==
  ASSUME WayOut, ended = "no", ended' # "exited",
         UNCHANGED <<at, todo, stopped, loaded, ready, missing, light, display>>
  PROVE  WayOut'
  BY DEF WayOut, ReadyWorks, NothingReady, LoadsFirst, HandlersStopMain,
         DarkUnlessReady, PastDevices, ExitIsClean

(* When main() runs, no handler does.                                      *)
LEMMA MainRunsAlone ==
  ASSUME WayOut, Runs(Main)
  PROVE  \A h \in Handlers : at[h] = "none"
  BY DEF WayOut, HandlersStopMain

LEMMA LoadedBefore ==
  ASSUME WayOut, FlowOK, NEW c, Makes(c), c # WriteLog, c # Call("none", "load")
  PROVE  loaded # "no"
<1>1. Head(Boot) = WriteLog /\ Head(Tail(Boot)) = Call("none", "load")
  BY DEF Boot
<1> QED
  BY <1>1 DEF WayOut, LoadsFirst, Makes

(* A call of main() that leaves the devices' flags alone.                  *)
LEMMA CallStep ==
  ASSUME TypeOK, FlowOK, WayOut, NEW c, Makes(c), NEW rest, Leaves(rest),
         loaded # "no", UNCHANGED <<stopped, loaded, ready, missing, ended>>,
         DarkUnlessReady'
  PROVE  WayOut'
<1>1. /\ \A h \in Handlers : at'[h] = "none"
      /\ at'[Main] \in {"idle", "call"}
  BY MainRunsAlone, MainIsActive DEF Makes, Leaves, FlowOK, Activities
<1>2. PastDevices' /\ HandlersStopMain'
  BY <1>1 DEF PastDevices, HandlersStopMain, After, Activities, Devices
<1> QED
  BY <1>2 DEF WayOut, ReadyWorks, NothingReady, LoadsFirst, ExitIsClean, Makes

(* A step on the way out.                                                  *)
LEMMA PassingStep ==
  ASSUME TypeOK, FlowOK, WayOut, NEW a \in Activities,
         NEW from, NEW to, Goes(a, from, to),
         from # "none", to \notin {"idle", "call"},
         UNCHANGED <<todo, stopped, missing>>, ended' # "exited",
         loaded' = "no" => loaded = "no",
         \A d \in Devices : ready'[d] => ready[d],
         DarkUnlessReady',
         \A d \in Devices : to \in After[d] => ~ready'[d]
  PROVE  WayOut'
<1>1. \A b \in Activities : at'[b] = IF b = a THEN to ELSE at[b]
  BY DEF Goes, FlowOK
<1>2. PastDevices'
  BY <1>1 DEF WayOut, PastDevices
<1>3. HandlersStopMain'
  BY <1>1 DEF WayOut, HandlersStopMain, Goes, Activities
<1>4. LoadsFirst'
  BY <1>1, MainIsActive DEF WayOut, LoadsFirst
<1> QED
  BY <1>2, <1>3, <1>4 DEF WayOut, ReadyWorks, NothingReady, ExitIsClean

LEMMA CallsWayOut == TypeOK /\ FlowOK /\ WayOut /\ MainCalls => WayOut'
<1> SUFFICES ASSUME TypeOK, FlowOK, WayOut, MainCalls
             PROVE  WayOut'
  OBVIOUS
<1>0. DarkUnlessReady
  BY DEF WayOut
<1>1. CASE LocksTwice
  BY <1>1, QuietStep DEF LocksTwice, Makes
<1>2. CASE Log
  <2>1. CASE loaded = "no"
    <3>1. todo \in {Boot, Tail(Boot)} /\ Head(todo) = WriteLog
      BY <1>2, <2>1 DEF Log, Makes, WayOut, LoadsFirst
    <3>2. todo = Boot /\ Tail(Boot) # <<>>
      BY <3>1 DEF Boot, WriteLog, Call
    <3>3. \A b \in Activities : at'[b] = at[b]
      BY <1>2, <3>2 DEF Log, Leaves, Makes, FlowOK
    <3>4. at'[Main] = "call" /\ todo' = Tail(Boot)
      BY <1>2, <3>2, <3>3, MainIsActive DEF Log, Leaves, Makes
    <3>5. PastDevices' /\ HandlersStopMain' /\ LoadsFirst'
      BY <1>2, <3>3, <3>4
      DEF Log, WayOut, PastDevices, HandlersStopMain, LoadsFirst, Activities
    <3> QED
      BY <1>2, <3>5
      DEF Log, Makes, WayOut, ReadyWorks, NothingReady, DarkUnlessReady, ExitIsClean
  <2>2. CASE loaded # "no"
    BY <1>0, <1>2, <2>2, CallStep DEF Log, DarkUnlessReady
  <2> QED
    BY <2>1, <2>2
<1>3. CASE Load
  <2>1. CASE loaded' = "yes" /\ Leaves(Tail(todo)) /\ UNCHANGED ended
    <3>1. /\ \A h \in Handlers : at'[h] = "none"
          /\ at'[Main] \in {"idle", "call"}
      BY <1>3, <2>1, MainRunsAlone, MainIsActive
      DEF Load, Makes, Leaves, FlowOK, Activities
    <3>2. PastDevices' /\ HandlersStopMain'
      BY <3>1 DEF PastDevices, HandlersStopMain, After, Activities, Devices
    <3> QED
      BY <1>3, <2>1, <3>2
      DEF Load, Makes, WayOut, ReadyWorks, NothingReady, LoadsFirst,
          DarkUnlessReady, ExitIsClean
  <2>2. CASE ended' = "failed" /\ UNCHANGED <<loaded, flow>>
    BY <1>3, <2>2, QuietStep DEF Load, Makes
  <2> QED
    BY <1>3, <2>1, <2>2 DEF Load
<1>4. CASE InitDevice
  <2>1. PICK d \in Devices :
          /\ Makes(Call(d, "init"))
          /\ ready' = [ready EXCEPT ![d] = d \notin missing]
          /\ Leaves(Tail(todo))
          /\ UNCHANGED <<signals, mutex, loaded, missing, devices, worker, fate>>
    BY <1>4 DEF InitDevice
  <2>2. loaded # "no"
    BY <2>1, LoadedBefore DEF Call, WriteLog
  <2>3. /\ \A h \in Handlers : at'[h] = "none"
        /\ at'[Main] \in {"idle", "call"}
    BY <2>1, MainRunsAlone, MainIsActive DEF Makes, Leaves, FlowOK, Activities
  <2>4. PastDevices' /\ HandlersStopMain'
    BY <2>3 DEF PastDevices, HandlersStopMain, After, Activities, Devices
  <2>5. ReadyWorks'
    BY <2>1 DEF WayOut, ReadyWorks, TypeOK
  <2>6. DarkUnlessReady'
    BY <2>1 DEF WayOut, ReadyWorks, DarkUnlessReady, TypeOK, Devices
  <2> QED
    BY <2>1, <2>2, <2>4, <2>5, <2>6
    DEF WayOut, NothingReady, LoadsFirst, ExitIsClean, Makes
<1>5. CASE Listen
  <2>1. loaded # "no"
    BY <1>5, LoadedBefore DEF Listen, Call, WriteLog
  <2>2. CASE Leaves(Tail(todo)) /\ UNCHANGED ended
    BY <1>0, <1>5, <2>1, <2>2, CallStep DEF Listen, DarkUnlessReady
  <2>3. CASE ended' = "failed" /\ UNCHANGED flow
    BY <1>5, <2>3, QuietStep DEF Listen, Makes
  <2> QED
    BY <1>5, <2>2, <2>3 DEF Listen
<1>6. CASE CallLed
  <2>1. PICK f \in {"on", "off", "brightness"} :
          /\ Makes(Call("led", f)) /\ Usable(Call("led", f))
          /\ Leaves(Tail(todo))
          /\ UNCHANGED <<signals, mutex, lib, fnd, auto_led_enabled, worker, fate>>
    BY <1>6 DEF CallLed
  <2>2. loaded # "no"
    BY <2>1, LoadedBefore DEF Call, WriteLog
  <2>3. ready["led"]
    BY <2>1 DEF Usable, Initialising, Call, DeviceOf
  <2>4. DarkUnlessReady'
    BY <1>0, <2>1, <2>3 DEF DarkUnlessReady
  <2> QED
    BY <2>1, <2>2, <2>4, CallStep
<1>7. CASE CallDisplay
  <2>1. PICK f \in {"display", "off"} :
          /\ Makes(Call("segment", f))
          /\ display' = IF ready["segment"] THEN f = "display" ELSE display
          /\ Leaves(Tail(todo))
          /\ UNCHANGED <<signals, mutex, lib, light, fnd_running, auto_led_enabled,
                         worker, fate>>
    BY <1>7 DEF CallDisplay
  <2>2. loaded # "no"
    BY <2>1, LoadedBefore DEF Call, WriteLog
  <2>3. DarkUnlessReady'
    BY <1>0, <2>1 DEF DarkUnlessReady
  <2> QED
    BY <2>1, <2>2, <2>3, CallStep
<1>8. CASE CallCountdown
  <2>1. loaded # "no"
    BY <1>8, LoadedBefore DEF CallCountdown, Call, WriteLog
  <2> QED
    BY <1>0, <1>8, <2>1, CallStep DEF CallCountdown, DarkUnlessReady
<1>9. CASE CallStop
  <2>1. loaded # "no"
    BY <1>9, LoadedBefore DEF CallStop, Call, WriteLog
  <2> QED
    BY <1>0, <1>9, <2>1, CallStep DEF CallStop, DarkUnlessReady
<1>10. CASE Nap
  <2>1. loaded # "no"
    BY <1>10, LoadedBefore DEF Nap, Call, WriteLog
  <2> QED
    BY <1>0, <1>10, <2>1, CallStep DEF Nap, DarkUnlessReady
<1>11. CASE Settle
  <2>1. loaded # "no"
    BY <1>11, LoadedBefore DEF Settle, Call, WriteLog
  <2> QED
    BY <1>0, <1>11, <2>1, CallStep DEF Settle, DarkUnlessReady
<1>12. CASE CallPlay
  <2>1. loaded # "no"
    BY <1>12, LoadedBefore DEF CallPlay, Call, WriteLog
  <2> QED
    BY <1>0, <1>12, <2>1, CallStep DEF CallPlay, DarkUnlessReady
<1>13. CASE CallAutoStart
  <2>1. loaded # "no"
    BY <1>13, LoadedBefore DEF CallAutoStart, Call, WriteLog
  <2> QED
    BY <1>0, <1>13, <2>1, CallStep DEF CallAutoStart, DarkUnlessReady
<1>14. CASE CallAutoStop
  <2>1. loaded # "no"
    BY <1>14, LoadedBefore DEF CallAutoStop, Call, WriteLog
  <2> QED
    BY <1>0, <1>14, <2>1, CallStep DEF CallAutoStop, DarkUnlessReady
<1>15. CASE CallOther
  <2>1. Makes(Head(todo)) /\ Leaves(Tail(todo))
    BY <1>15 DEF CallOther
  <2>2. Head(todo) # WriteLog /\ Head(todo) # Call("none", "load")
    BY <1>15 DEF CallOther, Call, WriteLog
  <2>3. loaded # "no"
    BY <2>1, <2>2, LoadedBefore
  <2> QED
    BY <1>0, <1>15, <2>1, <2>3, CallStep DEF CallOther, DarkUnlessReady
<1> QED
  BY <1>1, <1>2, <1>3, <1>4, <1>5, <1>6, <1>7, <1>8, <1>9, <1>10, <1>11, <1>12,
     <1>13, <1>14, <1>15 DEF MainCalls

LEMMA LeavingWayOut ==
  ASSUME TypeOK, FlowOK, WayOut, NEW a \in Activities, LeavingStep(a)
  PROVE  WayOut'
<1> DEFINE Past == \A d \in Devices : at[a] \in After[d] => ~ready[d]
<1>0. Past /\ DarkUnlessReady
  BY DEF WayOut, PastDevices
<1>1. CASE LogEnd(a)
  <2>1. \A d \in Devices : "led" \in After[d] => ~ready'[d]
    BY AfterPlaces
  <2>2. UNCHANGED <<ready, missing, light, display, loaded, ended, todo, stopped>>
    BY <1>1 DEF LogEnd
  <2>3. Goes(a, "log", "led")
    BY <1>1 DEF LogEnd
  <2> QED
    BY <1>0, <2>1, <2>2, <2>3, PassingStep DEF DarkUnlessReady, Goes
<1>2. CASE NothingLoaded(a)
  <2>1. \A d \in Devices : ~ready[d]
    BY <1>2 DEF NothingLoaded, WayOut, NothingReady
  <2> QED
    <3>1. UNCHANGED <<ready, missing, light, display, loaded, ended, todo, stopped>>
      BY <1>2 DEF NothingLoaded
    <3>2. Goes(a, "led", "unload")
      BY <1>2 DEF NothingLoaded
    <3>3. \A d \in Devices : ~ready'[d]
      BY <2>1, <3>1
    <3>4. DarkUnlessReady' /\ ended' # "exited"
      BY <1>0, <3>1, <3>2 DEF DarkUnlessReady, Goes
    <3> QED
      BY <3>1, <3>2, <3>3, <3>4, PassingStep
<1>3. CASE CleanLed(a)
  <2>1. \A d \in Devices : ready'[d] => ready[d]
    BY <1>3 DEF CleanLed, TypeOK
  <2>2. \A d \in Devices : "ask" \in After[d] => ~ready'[d]
    BY <1>3, AfterPlaces DEF CleanLed, TypeOK
  <2>3. DarkUnlessReady'
    BY <1>0, <1>3 DEF CleanLed, TypeOK, DarkUnlessReady, Devices
  <2> QED
    BY <1>3, <2>1, <2>2, <2>3, PassingStep DEF CleanLed, Goes
<1>4. CASE Ask(a)
  <2>1. UNCHANGED <<ready, missing, light, display, loaded, ended, todo, stopped>>
    BY <1>4 DEF Ask
  <2>2. Goes(a, "ask", "wait")
    BY <1>4 DEF Ask
  <2>3. \A d \in Devices : "wait" \in After[d] => ~ready'[d]
    BY <1>0, <2>1, <2>2, AfterPlaces DEF Goes
  <2> QED
    BY <1>0, <2>1, <2>2, <2>3, PassingStep DEF DarkUnlessReady, Goes
<1>5. CASE Wait(a)
  <2>1. UNCHANGED <<ready, missing, light, display, loaded, ended, todo, stopped>>
    BY <1>5 DEF Wait
  <2>2. PICK to \in {"asleep", "segment"} : Goes(a, "wait", to)
    BY <1>5 DEF Wait
  <2>3. \A d \in Devices : to \in After[d] => ~ready'[d]
    BY <1>0, <2>1, <2>2, AfterPlaces DEF Goes
  <2> QED
    BY <1>0, <2>1, <2>2, <2>3, PassingStep DEF DarkUnlessReady, Goes
<1>6. CASE CleanSegment(a)
  <2>1. \A d \in Devices : ready'[d] => ready[d]
    BY <1>6 DEF CleanSegment, TypeOK
  <2>2. \A d \in Devices : "buzzer" \in After[d] => ~ready'[d]
    BY <1>0, <1>6, AfterPlaces DEF CleanSegment, Goes, TypeOK
  <2>3. DarkUnlessReady'
    BY <1>0, <1>6 DEF CleanSegment, TypeOK, DarkUnlessReady, Devices
  <2> QED
    BY <1>6, <2>1, <2>2, <2>3, PassingStep DEF CleanSegment, Goes
<1>7. CASE CleanBuzzer(a)
  <2>1. \A d \in Devices : ready'[d] => ready[d]
    BY <1>7 DEF CleanBuzzer, TypeOK
  <2>2. \A d \in Devices : "cds" \in After[d] => ~ready'[d]
    BY <1>0, <1>7, AfterPlaces DEF CleanBuzzer, Goes, TypeOK
  <2>3. DarkUnlessReady'
    BY <1>0, <1>7 DEF CleanBuzzer, TypeOK, DarkUnlessReady, Devices
  <2> QED
    BY <1>7, <2>1, <2>2, <2>3, PassingStep DEF CleanBuzzer, Goes
<1>8. CASE CleanCds(a)
  <2>1. \A d \in Devices : ready'[d] => ready[d]
    BY <1>8 DEF CleanCds, TypeOK
  <2>2. \A d \in Devices : "unload" \in After[d] => ~ready'[d]
    BY <1>0, <1>8, AfterPlaces DEF CleanCds, Goes, TypeOK
  <2>3. DarkUnlessReady'
    BY <1>0, <1>8 DEF CleanCds, TypeOK, DarkUnlessReady, Devices
  <2> QED
    BY <1>8, <2>1, <2>2, <2>3, PassingStep DEF CleanCds, Goes
<1>9. CASE CallsUnloaded(a)
  BY <1>9, QuietStep DEF CallsUnloaded
<1>10. CASE Unload(a)
  <2>1. \A d \in Devices : "exit" \in After[d] => ~ready'[d]
    BY <1>0, <1>10, AfterPlaces DEF Unload, Goes
  <2>2. ended' # "exited" /\ (loaded' = "no" => loaded = "no")
    BY <1>10 DEF Unload
  <2> QED
    BY <1>0, <1>10, <2>1, <2>2, PassingStep DEF Unload, Goes, DarkUnlessReady
<1>11. CASE Exit(a)
  <2>1. \A d \in Devices : ~ready[d]
    BY <1>0, <1>11 DEF Exit, After, Devices
  <2>2. ExitIsClean'
    BY <1>0, <1>11, <2>1 DEF Exit, ExitIsClean, DarkUnlessReady, Devices
  <2> QED
    BY <1>11, <2>2
    DEF Exit, WayOut, ReadyWorks, NothingReady, LoadsFirst, HandlersStopMain,
        DarkUnlessReady, PastDevices
<1> QED
  BY <1>1, <1>2, <1>3, <1>4, <1>5, <1>6, <1>7, <1>8, <1>9, <1>10, <1>11
  DEF LeavingStep

LEMMA DeliverWayOut ==
  ASSUME TypeOK, FlowOK, WayOut, NEW s \in Signals, Deliver(s)
  PROVE  WayOut'
<1>1. PICK t \in {"main"} \cup Struck :
             Takes(t, s) /\ \E x \in Top(t) : Strikes(s, t, x)
  BY DEF Deliver
<1>2. PICK x \in Top(t) : Strikes(s, t, x)
  BY <1>1
<1>3. \A a \in Activities :
        at'[a] = at[a] \/ at'[a] \in {"log", "overtaken", "stopped", "caught"}
  BY <1>2 DEF Strikes
<1>4. PastDevices'
  BY <1>3 DEF Deliver, WayOut, PastDevices, After, Devices
<1>5. Main \in stopped'
  <2>1. CASE \E h \in Handlers : at[h] # "none"
    BY <1>2, <2>1 DEF Strikes, WayOut, HandlersStopMain
  <2>2. CASE \A h \in Handlers : at[h] = "none"
    <3>1. t = "main"
      BY <1>1, <2>2 DEF Takes, Handlers, Threads
    <3>2. x = Main
      BY <1>2, <2>2, <3>1 DEF Top, Active, Main
    <3> QED
      BY <1>2, <3>2 DEF Strikes
  <2> QED
    BY <2>1, <2>2
<1>6. LoadsFirst'
  <2>1. at'[Main] = at[Main] \/ at'[Main] \notin {"idle", "call"}
    BY <1>3, MainIsActive
  <2>2. x = Main => at'[Main] \notin {"idle", "call"}
    BY <1>2, MainIsActive DEF Strikes
  <2> QED
    BY <1>2, <2>1, <2>2 DEF Strikes, Deliver, WayOut, LoadsFirst
<1> QED
  BY <1>4, <1>5, <1>6
  DEF Deliver, WayOut, ReadyWorks, NothingReady, HandlersStopMain,
      DarkUnlessReady, ExitIsClean

LEMMA WorkersWayOut ==
  ASSUME TypeOK, WayOut, WorkersStep
  PROVE  WayOut'
<1>1. ASSUME NEW c \in Countdowns, CountdownStarts(c)
      PROVE  WayOut'
  BY <1>1, QuietStep DEF CountdownStarts, Becomes
<1>2. ASSUME NEW c \in Countdowns, CountdownRings(c)
      PROVE  WayOut'
  BY <1>2, QuietStep DEF CountdownRings
<1>3. ASSUME NEW c \in Countdowns, CountdownEnds(c)
      PROVE  WayOut'
  BY <1>3, QuietStep DEF CountdownEnds, Becomes
<1>4. ASSUME NEW c \in Countdowns, CountdownWrites(c)
      PROVE  WayOut'
  BY <1>4
  DEF CountdownWrites, WayOut, ReadyWorks, NothingReady, LoadsFirst,
      HandlersStopMain, DarkUnlessReady, PastDevices, ExitIsClean
<1>5. ASSUME NEW c \in Countdowns, CountdownReachesZero(c)
      PROVE  WayOut'
  BY <1>5, QuietStep DEF CountdownReachesZero, Becomes
<1>6. CASE MelodyEnds
  BY <1>6, QuietStep DEF MelodyEnds, Becomes
<1>7. CASE ControllerLooks
  BY <1>7, QuietStep DEF ControllerLooks, Becomes
<1>8. CASE \E w \in Workers : WorkerFaults(w)
  BY <1>8, QuietStep DEF WorkerFaults
<1> QED
  BY <1>1, <1>2, <1>3, <1>4, <1>5, <1>6, <1>7, <1>8 DEF WorkersStep, CountdownStep

LEMMA NextWayOut == TypeOK /\ FlowOK /\ WayOut /\ [Next]_vars => WayOut'
<1> SUFFICES ASSUME TypeOK, FlowOK, WayOut, [Next]_vars
             PROVE  WayOut'
  OBVIOUS
<1>1. CASE Daemonize
  <2>1. \A a \in Activities : at'[a] = at[a] \/ (a = Main /\ at'[a] = "boot")
    BY <1>1 DEF Daemonize, FlowOK
  <2>2. PastDevices' /\ HandlersStopMain'
    BY <1>1, <2>1, MainIsActive
    DEF Daemonize, WayOut, PastDevices, HandlersStopMain, After, Devices, Activities
  <2>3. LoadsFirst'
    BY <1>1, <2>1, MainIsActive DEF Daemonize, WayOut, LoadsFirst
  <2> QED
    BY <1>1, <2>2, <2>3
    DEF Daemonize, WayOut, ReadyWorks, NothingReady, DarkUnlessReady, ExitIsClean
<1>2. CASE InstallHandlers
  <2>1. \A a \in Activities : at'[a] = IF a = Main THEN "call" ELSE at[a]
    BY <1>2 DEF InstallHandlers, Goes, FlowOK
  <2>2. PastDevices' /\ HandlersStopMain'
    BY <1>2, <2>1, MainIsActive
    DEF InstallHandlers, WayOut, PastDevices, HandlersStopMain, After, Devices,
        Activities
  <2>3. LoadsFirst'
    BY <1>2, <2>1, MainIsActive DEF InstallHandlers, LoadsFirst
  <2> QED
    BY <1>2, <2>2, <2>3
    DEF InstallHandlers, Goes, WayOut, ReadyWorks, NothingReady, DarkUnlessReady,
        ExitIsClean
<1>3. CASE MainCalls
  BY <1>3, CallsWayOut
<1>4. CASE LeavingStep(Main)
  BY <1>4, MainIsActive, LeavingWayOut
<1>5. CASE EarlySignal
  BY <1>5, QuietStep DEF EarlySignal
<1>6. CASE LeaveLoop
  <2>1. UNCHANGED <<ready, missing, light, display, loaded, ended, todo, stopped>>
    BY <1>6 DEF LeaveLoop
  <2>2. Goes(Main, "idle", "log")
    BY <1>6 DEF LeaveLoop
  <2>3. DarkUnlessReady'
    BY <2>1 DEF WayOut, DarkUnlessReady
  <2> QED
    BY <2>1, <2>2, <2>3, AfterPlaces, MainIsActive, PassingStep DEF Goes
<1>7. ASSUME NEW cmd \in DOMAIN Commands, Dispatch(cmd)
      PROVE  WayOut'
  <2>1. \A a \in Activities : at'[a] = IF a = Main THEN "call" ELSE at[a]
    BY <1>7 DEF Dispatch, Goes, FlowOK
  <2>2. PastDevices' /\ HandlersStopMain'
    BY <1>7, <2>1, AfterPlaces, MainIsActive
    DEF Dispatch, WayOut, PastDevices, HandlersStopMain, Activities
  <2>3. LoadsFirst'
    BY <1>7 DEF Dispatch, Goes, WayOut, LoadsFirst
  <2> QED
    BY <1>7, <2>2, <2>3
    DEF Dispatch, Goes, WayOut, ReadyWorks, NothingReady, DarkUnlessReady,
        ExitIsClean
<1>8. ASSUME NEW s \in Signals, Deliver(s)
      PROVE  WayOut'
  BY <1>8, DeliverWayOut
<1>9. CASE HandlerStep
  BY <1>9, LeavingWayOut DEF HandlerStep, Activities
<1>10. CASE WorkersStep
  BY <1>10, WorkersWayOut
<1>11. CASE Expire
  <2>1. \/ ended' = "killed" /\ at' = at
        \/ /\ UNCHANGED ended
           /\ \E b \in {Head(timers).who} :
                at[b] = "asleep" /\ at' = [at EXCEPT ![b] = "segment"]
    BY <1>11 DEF Expire
  <2>2. \A a \in Activities : \/ at'[a] = at[a]
                              \/ at[a] = "asleep" /\ at'[a] = "segment"
    BY <2>1 DEF FlowOK
  <2>3. PastDevices' /\ HandlersStopMain'
    BY <1>11, <2>2
    DEF Expire, WayOut, PastDevices, HandlersStopMain, After, Devices, Activities
  <2>4. LoadsFirst'
    BY <1>11, <2>2, MainIsActive DEF Expire, WayOut, LoadsFirst
  <2>5. ExitIsClean'
    BY <1>11, <2>1 DEF Expire, ExitIsClean
  <2> QED
    BY <1>11, <2>3, <2>4, <2>5
    DEF Expire, WayOut, ReadyWorks, NothingReady, DarkUnlessReady
<1>12. CASE UNCHANGED vars
  BY <1>12
  DEF vars, WayOut, ReadyWorks, NothingReady, LoadsFirst, HandlersStopMain,
      DarkUnlessReady, PastDevices, ExitIsClean
<1>13. CASE Over
  BY <1>12, <1>13 DEF Over
<1> QED
  BY <1>1, <1>2, <1>3, <1>4, <1>5, <1>6, <1>7, <1>8, <1>9, <1>10, <1>11, <1>12,
     <1>13 DEF Next, MainStep, WorkersStep

(* However the daemon is told to leave and whatever that interrupts, for any
   number of signals and any missing devices: if its last exit is reached, the
   outputs are dark, no device is initialised and the PID file is gone.    *)
THEOREM ExitsClean == Spec => []ExitIsClean
<1>1. Spec => [](TypeOK /\ FlowOK /\ WayOut)
  BY InitIsTyped, NextIsTyped, InitWayOut, NextWayOut, PTL DEF Spec
<1>2. WayOut => ExitIsClean
  BY DEF WayOut
<1> QED
  BY <1>1, <1>2, PTL
=============================================================================
