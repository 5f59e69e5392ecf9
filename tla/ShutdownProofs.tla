--------------------------- MODULE ShutdownProofs ---------------------------
(***************************************************************************)
(* Theorems about the shutdown of Process: when the alarm may kill it, and *)
(* when the unloading of the libraries may be fatal.                       *)
(***************************************************************************)
EXTENDS ProcessProofs, FiniteSetTheorems

USE DEF Runs, Interrupted, work, flow, signals, fnd, devices, fate, lib

-----------------------------------------------------------------------------
(* The stack of handlers.  Whoever is stopped stays stopped, and as long as
   there is a handler one of them is on top.                               *)

Halted == {"stopped", "caught", "overtaken"}

(* The threads that may execute a handler.                                 *)
Struckable == {"main"} \cup Struck

LEMMA StruckableAreThreads == Struckable \subseteq Threads
  BY ProcessAssumption DEF Struckable, Threads

HaltedAreStopped == \A a \in Activities : a \in stopped <=> at[a] \in Halted

HandlersLeave == \A h \in Handlers : at[h] \in {"none"} \cup Leaving

OneOnTop == stopped # {} \/ Active # {} => \E h \in Active : h \notin stopped

(* A worker is struck only when main() has its handler already.            *)
WorkersStruckLate ==
  \A w \in Workers : Own(w) \in stopped =>
    /\ \E h \in Active : h[1] = "main"
    /\ \E h \in Active : h[1] = w

StackOK == HaltedAreStopped /\ HandlersLeave /\ OneOnTop /\ WorkersStruckLate

(* Activity a, which is not stopped, moves to a place of its own accord.   *)
Moves(a) ==
  /\ a \notin stopped
  /\ at'[a] \notin Halted
  /\ a \in Handlers => at[a] \in Leaving /\ at'[a] \in Leaving
  /\ \A b \in Activities \ {a} : at'[b] = at[b]

Quiet == UNCHANGED <<at, stopped>>

MovesOn == stopped' = stopped /\ \E a \in Activities : Moves(a)

LEMMA MainMoves ==
  ASSUME FlowOK, Runs(Main), stopped' = stopped,
         NEW to \in Places \ Halted, at' = [at EXCEPT ![Main] = to]
  PROVE  MovesOn
  BY MainIsActive DEF FlowOK, Moves, MovesOn

LEMMA CallsMove ==
  ASSUME TypeOK, FlowOK, MainCalls
  PROVE  Quiet \/ MovesOn
<1>1. ASSUME NEW c, Makes(c), NEW rest, Leaves(rest), stopped' = stopped
      PROVE  MovesOn
  <2>1. PICK to \in {"idle", "call"} : at' = [at EXCEPT ![Main] = to]
    BY <1>1 DEF Leaves
  <2> QED
    BY <1>1, <2>1, MainMoves DEF Makes, Places, Halted, Leaving
<1>2. CASE LocksTwice
  BY <1>2 DEF LocksTwice, Quiet
<1>3. CASE Log
  BY <1>1, <1>3 DEF Log
<1>4. CASE Load
  BY <1>1, <1>4 DEF Load, Quiet
<1>5. CASE InitDevice
  BY <1>1, <1>5 DEF InitDevice
<1>6. CASE Listen
  BY <1>1, <1>6 DEF Listen, Quiet
<1>7. CASE CallLed
  BY <1>1, <1>7 DEF CallLed
<1>8. CASE CallDisplay
  BY <1>1, <1>8 DEF CallDisplay
<1>9. CASE CallCountdown
  BY <1>1, <1>9 DEF CallCountdown
<1>10. CASE CallStop
  BY <1>1, <1>10 DEF CallStop
<1>11. CASE Nap
  BY <1>1, <1>11 DEF Nap
<1>12. CASE Settle
  BY <1>1, <1>12 DEF Settle
<1>13. CASE CallPlay
  BY <1>1, <1>13 DEF CallPlay
<1>14. CASE CallAutoStart
  BY <1>1, <1>14 DEF CallAutoStart
<1>15. CASE CallAutoStop
  BY <1>1, <1>15 DEF CallAutoStop
<1>16. CASE CallOther
  BY <1>1, <1>16 DEF CallOther
<1> QED
  BY <1>2, <1>3, <1>4, <1>5, <1>6, <1>7, <1>8, <1>9, <1>10, <1>11, <1>12, <1>13,
     <1>14, <1>15, <1>16 DEF MainCalls

LEMMA LeavingMoves ==
  ASSUME TypeOK, FlowOK, NEW a \in Activities, LeavingStep(a)
  PROVE  \/ Quiet
         \/ stopped' = stopped /\ Moves(a) /\ at[a] \in Leaving /\ at'[a] \in Leaving
<1>1. ASSUME NEW from \in Leaving, NEW to \in Leaving \ {"overtaken"},
             Goes(a, from, to), stopped' = stopped
      PROVE  Moves(a) /\ at[a] \in Leaving /\ at'[a] \in Leaving
  BY <1>1 DEF Goes, FlowOK, Moves, Leaving, Halted
<1>2. CASE CallsUnloaded(a) \/ Exit(a)
  BY <1>2 DEF CallsUnloaded, Exit, Quiet
<1>3. CASE LogEnd(a)
  BY <1>1, <1>3 DEF LogEnd, Leaving
<1>4. CASE NothingLoaded(a)
  BY <1>1, <1>4 DEF NothingLoaded, Leaving
<1>5. CASE CleanLed(a)
  BY <1>1, <1>5 DEF CleanLed, Leaving
<1>6. CASE Ask(a)
  BY <1>1, <1>6 DEF Ask, Leaving
<1>7. CASE Wait(a)
  BY <1>1, <1>7 DEF Wait, Leaving
<1>8. CASE CleanSegment(a)
  BY <1>1, <1>8 DEF CleanSegment, Leaving
<1>9. CASE CleanBuzzer(a)
  BY <1>1, <1>9 DEF CleanBuzzer, Leaving
<1>10. CASE CleanCds(a)
  BY <1>1, <1>10 DEF CleanCds, Leaving
<1>11. CASE Unload(a)
  BY <1>1, <1>11 DEF Unload, Leaving
<1> QED
  BY <1>2, <1>3, <1>4, <1>5, <1>6, <1>7, <1>8, <1>9, <1>10, <1>11 DEF LeavingStep

LEMMA ExpireMoves ==
  ASSUME TypeOK, FlowOK, HaltedAreStopped, Expire
  PROVE  Quiet \/ MovesOn
<1>1. Head(timers).who \in Activities
  <2>1. timers \in Seq(Timers) /\ timers # <<>>
    BY DEF Expire, TypeOK, Timers
  <2>2. Head(timers) \in Timers
    BY <2>1, HeadTailProperties
  <2> QED
    BY <2>2 DEF Timers
<1>2. CASE UNCHANGED at
  BY <1>2 DEF Expire, Quiet
<1>3. CASE /\ at[Head(timers).who] = "asleep"
           /\ at' = [at EXCEPT ![Head(timers).who] = "segment"]
  <2> DEFINE a == Head(timers).who
  <2>1. a \in Activities /\ at[a] = "asleep" /\ at' = [at EXCEPT ![a] = "segment"]
    BY <1>1, <1>3
  <2> HIDE DEF a
  <2>2. a \notin stopped
    BY <2>1 DEF HaltedAreStopped, Halted
  <2> QED
    BY <2>1, <2>2 DEF Expire, MovesOn, Moves, FlowOK, Halted, Leaving
<1> QED
  BY <1>2, <1>3 DEF Expire

(* Every step is of these kinds.                                           *)
LEMMA StepMoves ==
  ASSUME TypeOK, FlowOK, HaltedAreStopped, [Next]_vars
  PROVE  Quiet \/ MovesOn \/ \E s \in Signals : Deliver(s)
<1>1. CASE MainStep
  <2>1. CASE Daemonize
    BY <1>1, <2>1, MainMoves DEF Daemonize, Quiet, Places, Halted, Leaving
  <2>2. CASE InstallHandlers
    BY <2>2, MainMoves DEF InstallHandlers, Goes, Places, Halted, Leaving
  <2>3. CASE MainCalls
    BY <2>3, CallsMove
  <2>4. CASE LeavingStep(Main)
    BY <2>4, LeavingMoves, MainIsActive DEF MovesOn
  <2> QED
    BY <1>1, <2>1, <2>2, <2>3, <2>4 DEF MainStep
<1>2. CASE EarlySignal
  BY <1>2 DEF EarlySignal, Quiet
<1>3. CASE LeaveLoop
  BY <1>3, MainMoves DEF LeaveLoop, Goes, Places, Halted, Leaving
<1>4. ASSUME NEW cmd \in DOMAIN Commands, Dispatch(cmd)
      PROVE  MovesOn
  BY <1>4, MainMoves DEF Dispatch, Goes, Places, Halted, Leaving
<1>5. CASE HandlerStep
  BY <1>5, LeavingMoves DEF HandlerStep, MovesOn, Activities
<1>6. CASE WorkersStep
  BY <1>6 DEF WorkersStep, CountdownStep, CountdownStarts, CountdownRings,
              CountdownEnds, CountdownWrites, CountdownReachesZero, MelodyEnds,
              ControllerLooks, WorkerFaults, Quiet
<1>7. CASE Expire
  BY <1>7, ExpireMoves
<1>8. CASE Over \/ UNCHANGED vars
  BY <1>8 DEF Over, vars, Quiet
<1> QED
  BY <1>1, <1>2, <1>3, <1>4, <1>5, <1>6, <1>7, <1>8 DEF Next, WorkersStep

LEMMA InitStack == Init => StackOK
  BY MainIsActive
  DEF Init, StackOK, HaltedAreStopped, Halted, HandlersLeave, OneOnTop, Active,
      WorkersStruckLate, Activities

LEMMA MovesStack ==
  ASSUME FlowOK, StackOK, Quiet \/ MovesOn
  PROVE  StackOK'
<1>1. stopped' = stopped
  BY DEF Quiet, MovesOn
<1>2. HaltedAreStopped'
  BY DEF StackOK, HaltedAreStopped, Quiet, MovesOn, Moves
<1>3. HandlersLeave' /\ Active' = Active
  BY DEF StackOK, HandlersLeave, Active, Quiet, MovesOn, Moves, Activities, Leaving
<1> QED
  BY <1>1, <1>2, <1>3 DEF StackOK, OneOnTop, WorkersStruckLate

(* What the arrival of a signal does to the stack.                         *)
LEMMA StrikeStack ==
  ASSUME TypeOK, FlowOK, StackOK, NEW s \in Signals, NEW t \in Struckable,
         Takes(t, s),
         NEW x \in Top(t), Strikes(s, t, x)
  PROVE  /\ StackOK'
         /\ <<t, s>> \in Handlers /\ at[<<t, s>>] = "none" /\ at'[<<t, s>>] = "log"
         /\ x # <<t, s>> /\ x \notin stopped
         /\ \A a \in Activities \ {x, <<t, s>>} : at'[a] = at[a]
         /\ x \in Activities =>
              at'[x] = IF at[x] \in Leaving THEN "overtaken"
                       ELSE IF mutex' = mutex THEN "stopped" ELSE "caught"
<1> DEFINE h == <<t, s>>
<1>1. h \in Handlers /\ h \in Activities /\ at[h] = "none" /\ h \notin stopped
  BY DEF Handlers, Struckable, Activities, Takes, StackOK, HaltedAreStopped, Halted
<1>2. x # h /\ x \notin stopped
  BY <1>1, ProcessAssumption DEF Top, Active, Own
<1>3. at'[h] = "log"
  BY <1>1, <1>2 DEF Strikes
<1>4. \A a \in Activities \ {x, h} : at'[a] = at[a]
  BY DEF Strikes
<1>5. x \in Activities =>
        at'[x] = IF at[x] \in Leaving THEN "overtaken"
                 ELSE IF mutex' = mutex THEN "stopped" ELSE "caught"
  BY <1>2 DEF Strikes
<1>6. HaltedAreStopped'
  <2>1. \A a \in Activities \ {x, h} : (a \in stopped <=> at[a] \in Halted)
    BY DEF StackOK, HaltedAreStopped
  <2> QED
    BY <1>1, <1>2, <1>3, <1>4, <1>5, <2>1
    DEF HaltedAreStopped, Halted, Strikes
<1>7. \A a \in Handlers : at[a] # "none" => at'[a] \in Leaving
  BY <1>1, <1>3, <1>4, <1>5 DEF StackOK, HandlersLeave, Activities, Leaving
<1>8. HandlersLeave'
  <2> SUFFICES ASSUME NEW a \in Handlers PROVE at'[a] \in {"none"} \cup Leaving
    BY DEF HandlersLeave
  <2>1. CASE at[a] # "none"
    BY <1>7, <2>1
  <2>2. CASE at[a] = "none"
    <3>1. x # a
      <4>1. a \notin Active
        BY <2>2 DEF Active
      <4>2. a[2] # 0 /\ Own(t)[2] = 0
        BY ProcessAssumption DEF Handlers, Own
      <4> QED
        BY <4>1, <4>2 DEF Top
    <3> QED
      BY <1>3, <1>4, <2>2, <3>1 DEF Activities, Leaving
  <2> QED
    BY <2>1, <2>2
<1>9. OneOnTop'
  <2>1. h \in Active'
    BY <1>1, <1>3 DEF Active
  <2>2. h \notin stopped'
    BY <1>1, <1>2 DEF Strikes
  <2> QED
    BY <2>1, <2>2 DEF OneOnTop
<1>10. Active \subseteq Active' /\ h \in Active'
  BY <1>1, <1>3, <1>7 DEF Active, Leaving
<1>11. WorkersStruckLate'
  <2> SUFFICES ASSUME NEW w \in Workers, Own(w) \in stopped'
               PROVE  /\ \E g \in Active' : g[1] = "main"
                      /\ \E g \in Active' : g[1] = w
    BY DEF WorkersStruckLate
  <2>1. CASE Own(w) \in stopped
    BY <1>10, <2>1 DEF StackOK, WorkersStruckLate
  <2>2. CASE Own(w) \notin stopped
    <3>1. x = Own(w)
      BY <2>2 DEF Strikes
    <3>2. w = t
      BY <3>1 DEF Top, Active, Own
    <3>3. w # "main"
      BY ProcessAssumption DEF Workers
    <3>4. <<"main", s>> \in Active
      BY <3>2, <3>3 DEF Takes, Active, Handlers
    <3> QED
      BY <1>10, <3>2, <3>4
  <2> QED
    BY <2>1, <2>2
<1> QED
  BY <1>1, <1>2, <1>3, <1>4, <1>5, <1>6, <1>8, <1>9, <1>11 DEF StackOK

LEMMA NextStack ==
  ASSUME TypeOK, FlowOK, StackOK, [Next]_vars
  PROVE  StackOK'
<1>1. CASE Quiet \/ MovesOn
  BY <1>1, MovesStack
<1>2. ASSUME NEW s \in Signals, Deliver(s)
      PROVE  StackOK'
  <2>1. PICK t \in Struckable : Takes(t, s) /\ \E x \in Top(t) : Strikes(s, t, x)
    BY <1>2 DEF Deliver, Struckable
  <2>2. PICK x \in Top(t) : Strikes(s, t, x)
    BY <2>1
  <2> QED
    BY <2>1, <2>2, StrikeStack
<1> QED
  BY <1>1, <1>2, StepMoves DEF StackOK

-----------------------------------------------------------------------------
(* The alarm belongs to a handler.                                         *)

AlarmsOwned ==
  \A k \in DOMAIN timers : timers[k].what = "alarm" => timers[k].who \in Active

LEMMA WithoutKeeps ==
  ASSUME timers \in Seq(Timers), NEW S, NEW k \in DOMAIN Without(S)
  PROVE  \E j \in DOMAIN timers : Without(S)[k] = timers[j]
<1>1. CASE \E n \in DOMAIN timers : timers[n] \in S
  <2> DEFINE n == CHOOSE n \in DOMAIN timers : timers[n] \in S
  <2>1. n \in DOMAIN timers
    BY <1>1
  <2>2. n \in 1 .. Len(timers) /\ Len(timers) \in Nat
    BY <2>1
  <2> DEFINE A == SubSeq(timers, 1, n - 1)
             B == SubSeq(timers, n + 1, Len(timers))
  <2>3. Without(S) = A \o B
    BY <1>1 DEF Without, RemoveAt
  <2> HIDE DEF n
  <2>4. /\ A \in Seq(Timers) /\ Len(A) = n - 1
        /\ \A i \in 1 .. n - 1 : A[i] = timers[i]
    BY <2>2, SubSeqProperties
  <2>5. /\ B \in Seq(Timers) /\ Len(B) = Len(timers) - n
        /\ \A i \in 1 .. Len(timers) - n : B[i] = timers[n + i]
    BY <2>2, SubSeqProperties
  <2> HIDE DEF A, B
  <2>6. /\ Len(A \o B) = (n - 1) + (Len(timers) - n)
        /\ \A i \in 1 .. (n - 1) + (Len(timers) - n) :
             (A \o B)[i] = IF i <= n - 1 THEN A[i] ELSE B[i - (n - 1)]
        /\ DOMAIN (A \o B) = 1 .. (n - 1) + (Len(timers) - n)
    <3>1. /\ A \o B \in Seq(Timers)
          /\ Len(A \o B) = Len(A) + Len(B)
          /\ \A i \in 1 .. Len(A) + Len(B) : (A \o B)[i] =
                 IF i <= Len(A) THEN A[i] ELSE B[i - Len(A)]
      BY <2>4, <2>5, ConcatProperties, Zenon
    <3>2. DOMAIN (A \o B) = 1 .. Len(A \o B)
      <4> DEFINE C == A \o B
      <4>1. C \in Seq(Timers)
        BY <3>1
      <4> HIDE DEF C
      <4>2. DOMAIN C = 1 .. Len(C)
        BY <4>1
      <4> QED
        BY <4>2 DEF C
    <3> QED
      BY <2>4, <2>5, <3>1, <3>2, Zenon
  <2>7. k \in 1 .. (n - 1) + (Len(timers) - n)
    BY <2>2, <2>3, <2>4, <2>5, <2>6
  <2>8. CASE k <= n - 1
    BY <2>2, <2>3, <2>4, <2>6, <2>7, <2>8
  <2>9. CASE k > n - 1
    <3> DEFINE i == k - (n - 1)
    <3>1. i \in 1 .. Len(timers) - n /\ k = (n - 1) + i /\ n + i \in 1 .. Len(timers)
      BY <2>2, <2>7, <2>9
    <3> HIDE DEF i
    <3>2. Without(S)[k] = timers[n + i]
      BY <2>3, <2>4, <2>5, <2>6, <3>1
    <3> QED
      BY <3>1, <3>2
  <2> QED
    BY <2>2, <2>7, <2>8, <2>9
<1>2. CASE ~ \E n \in DOMAIN timers : timers[n] \in S
  BY <1>2 DEF Without
<1> QED
  BY <1>1, <1>2

(* What a step does to the timers.                                         *)
TimersStep ==
  \/ timers' = timers
  \/ \E S \in {Alarms} \cup {{Timer(x, "sleep")} : x \in Codes} : timers' = Without(S)
  \/ timers # <<>> /\ timers' = Tail(timers)
  \/ \E a \in Activities : timers' = Append(timers, Timer(a, "sleep"))
  \/ \E h \in Handlers :
       at[h] # "none" /\ timers' = Append(Without(Alarms), Timer(h, "alarm"))

LEMMA LeavingTimers ==
  ASSUME NEW a \in Activities, LeavingStep(a)
  PROVE  TimersStep
<1>1. CASE LogEnd(a)
  BY <1>1 DEF LogEnd, Goes, TimersStep, Activities
<1>2. CASE Wait(a)
  BY <1>2 DEF Wait, TimersStep
<1>3. CASE Unload(a)
  BY <1>3 DEF Unload, TimersStep
<1>4. CASE NothingLoaded(a) \/ CleanLed(a) \/ Ask(a) \/ CleanSegment(a)
  BY <1>4 DEF NothingLoaded, CleanLed, Ask, CleanSegment, TimersStep
<1>5. CASE CleanBuzzer(a) \/ CleanCds(a) \/ CallsUnloaded(a) \/ Exit(a)
  BY <1>5 DEF CleanBuzzer, CleanCds, CallsUnloaded, Exit, TimersStep
<1> QED
  BY <1>1, <1>2, <1>3, <1>4, <1>5 DEF LeavingStep

LEMMA CallsKeepTimers == MainCalls => timers' = timers
  BY DEF MainCalls, LocksTwice, Log, Load, InitDevice, Listen, CallLed,
         CallDisplay, CallCountdown, CallStop, Nap, Settle, CallPlay,
         CallAutoStart, CallAutoStop, CallOther

LEMMA WorkersKeepTimers == WorkersStep => timers' = timers
  BY DEF WorkersStep, CountdownStep, CountdownStarts, CountdownRings,
         CountdownEnds, CountdownWrites, CountdownReachesZero, MelodyEnds,
         ControllerLooks, WorkerFaults

LEMMA NextTimers ==
  ASSUME [Next]_vars
  PROVE  TimersStep
<1>1. CASE MainStep
  <2>1. CASE LeavingStep(Main)
    BY <2>1, LeavingTimers, MainIsActive
  <2>2. CASE Daemonize \/ InstallHandlers \/ MainCalls
    BY <2>2, CallsKeepTimers DEF Daemonize, InstallHandlers, TimersStep
  <2> QED
    BY <1>1, <2>1, <2>2 DEF MainStep
<1>2. CASE EarlySignal \/ LeaveLoop \/ \E cmd \in DOMAIN Commands : Dispatch(cmd)
  BY <1>2 DEF EarlySignal, LeaveLoop, Dispatch, TimersStep
<1>3. ASSUME NEW s \in Signals, Deliver(s)
      PROVE  TimersStep
  <2>1. PICK t \in Struckable : \E x \in Top(t) : Strikes(s, t, x)
    BY <1>3 DEF Deliver, Struckable
  <2>2. PICK x \in Top(t) : Strikes(s, t, x)
    BY <2>1
  <2>3. x \in Codes
    BY OwnIsCode, ActivitiesAreCodes, StruckableAreThreads DEF Top, Active, Activities
  <2> QED
    BY <2>2, <2>3 DEF Strikes, TimersStep
<1>4. CASE HandlerStep
  BY <1>4, LeavingTimers DEF HandlerStep, Activities
<1>5. CASE WorkersStep
  BY <1>5, WorkersKeepTimers DEF TimersStep
<1>6. CASE Expire
  BY <1>6 DEF Expire, TimersStep
<1>7. CASE Over \/ UNCHANGED vars
  BY <1>7 DEF Over, vars, TimersStep
<1> QED
  BY <1>1, <1>2, <1>3, <1>4, <1>5, <1>6, <1>7 DEF Next, WorkersStep

(* No handler ever ends.                                                   *)
LEMMA ActiveStay ==
  ASSUME TypeOK, FlowOK, StackOK, [Next]_vars
  PROVE  Active \subseteq Active'
<1>1. CASE Quiet \/ MovesOn
  BY <1>1 DEF Quiet, MovesOn, Moves, Active, Activities, Leaving
<1>2. ASSUME NEW s \in Signals, Deliver(s)
      PROVE  Active \subseteq Active'
  <2>1. PICK t \in Struckable : Takes(t, s) /\ \E x \in Top(t) : Strikes(s, t, x)
    BY <1>2 DEF Deliver, Struckable
  <2>2. PICK x \in Top(t) : Strikes(s, t, x)
    BY <2>1
  <2>3. \A a \in Handlers \ {x, <<t, s>>} : at'[a] = at[a]
    BY <2>1, <2>2, StrikeStack DEF Activities
  <2>4. x \in Activities => at'[x] # "none"
    BY <2>1, <2>2, StrikeStack
  <2>5. at'[<<t, s>>] # "none"
    BY <2>1, <2>2, StrikeStack
  <2> QED
    BY <2>3, <2>4, <2>5 DEF Active, Activities
<1> QED
  BY <1>1, <1>2, StepMoves DEF StackOK

LEMMA NextAlarms ==
  ASSUME TypeOK, FlowOK, StackOK, AlarmsOwned, [Next]_vars
  PROVE  AlarmsOwned'
<1>0. timers \in Seq(Timers) /\ Active \subseteq Active'
  BY ActiveStay DEF TypeOK, Timers
<1> SUFFICES ASSUME NEW k \in DOMAIN timers', timers'[k].what = "alarm"
             PROVE  timers'[k].who \in Active'
  BY DEF AlarmsOwned
<1>1. ASSUME NEW j \in DOMAIN timers, timers'[k] = timers[j]
      PROVE  timers'[k].who \in Active'
  BY <1>0, <1>1 DEF AlarmsOwned
<1>2. CASE timers' = timers
  BY <1>1, <1>2
<1>3. ASSUME NEW S, timers' = Without(S)
      PROVE  timers'[k].who \in Active'
  BY <1>0, <1>1, <1>3, WithoutKeeps
<1>4. CASE timers # <<>> /\ timers' = Tail(timers)
  <2>1. /\ Tail(timers) \in Seq(Timers) /\ Len(Tail(timers)) = Len(timers) - 1
        /\ \A i \in 1 .. Len(Tail(timers)) : Tail(timers)[i] = timers[i + 1]
    BY <1>0, <1>4, HeadTailProperties
  <2>2. k \in 1 .. Len(timers) - 1 /\ timers'[k] = timers[k + 1]
    BY <1>4, <2>1
  <2>3. k + 1 \in DOMAIN timers
    BY <1>0, <2>2
  <2> QED
    BY <1>1, <2>2, <2>3
<1>5. ASSUME NEW a \in Activities, timers' = Append(timers, Timer(a, "sleep"))
      PROVE  timers'[k].who \in Active'
  <2>1. Timer(a, "sleep").what # "alarm" /\ Timer(a, "sleep") \in Timers
    BY TimerIsTyped DEF Timer
  <2>2. k \in DOMAIN timers /\ timers'[k] = timers[k]
    BY <1>0, <1>5, <2>1, AppendProperties
  <2> QED
    BY <1>1, <2>2
<1>6. ASSUME NEW h \in Handlers, at[h] # "none",
             timers' = Append(Without(Alarms), Timer(h, "alarm"))
      PROVE  timers'[k].who \in Active'
  <2>1. Without(Alarms) \in Seq(Timers) /\ Timer(h, "alarm") \in Timers
    BY <1>0, WithoutIsTyped, TimerIsTyped DEF Activities
  <2>2. \/ k \in DOMAIN Without(Alarms) /\ timers'[k] = Without(Alarms)[k]
        \/ timers'[k] = Timer(h, "alarm")
    BY <1>6, <2>1, AppendProperties
  <2>3. h \in Active
    BY <1>6 DEF Active
  <2> QED
    BY <1>0, <1>1, <2>2, <2>3, WithoutKeeps DEF Timer
<1> QED
  BY <1>2, <1>3, <1>4, <1>5, <1>6, NextTimers DEF TimersStep

-----------------------------------------------------------------------------
(* Mutexes that are kept.  main() initialises all devices before it executes a
   command, so that only on a missing one it locks a mutex twice.          *)

Tried(d) == ready[d] \/ d \in missing

BootCalls == {"log", "load", "init", "listen"}

(* main() is still to initialise each device that it has not tried.        *)
Booting ==
  /\ \A d \in Devices : Tried(d) \/ \E i \in DOMAIN todo : todo[i] = Call(d, "init")
  /\ \A i \in DOMAIN todo : todo[i].do \in BootCalls

InitsFirst ==
  at[Main] \in {"call", "idle"} =>
    (\A d \in Devices : Tried(d)) \/ (at[Main] = "call" /\ Booting)

KeptForReason == \A m \in Mutexes : mutex[m] # Nobody => Caught(m)

LEMMA CallKeepsInits ==
  ASSUME TypeOK, FlowOK, InitsFirst, NEW c, Makes(c), NEW rest, Leaves(rest),
         rest = Tail(todo) \/ c.do \notin BootCalls,
         \A d \in Devices : Tried(d) => Tried(d)',
         \A d \in Devices : c = Call(d, "init") => Tried(d)'
  PROVE  InitsFirst'
<1>1. at[Main] = "call" /\ todo # <<>> /\ todo \in Seq(Calls) /\ c = todo[1]
  BY HeadTailProperties DEF Makes, FlowOK, CallsLeft
<1>2. CASE \A d \in Devices : Tried(d)
  BY <1>2 DEF InitsFirst
<1>3. CASE Booting
  <2>1. c.do \in BootCalls /\ rest = Tail(todo)
    BY <1>1, <1>3 DEF Booting
  <2>2. /\ rest \in Seq(Calls) /\ Len(rest) = Len(todo) - 1
        /\ \A i \in 1 .. Len(rest) : rest[i] = todo[i + 1]
    BY <1>1, <2>1, HeadTailProperties
  <2>3. todo' = rest /\ DOMAIN rest = 1 .. Len(rest) /\ Len(todo) \in Nat \ {0}
    BY <1>1, <2>2 DEF Leaves
  <2>4. \A i \in DOMAIN rest : rest[i].do \in BootCalls
    BY <1>1, <1>3, <2>2, <2>3 DEF Booting
  <2>5. ASSUME NEW d \in Devices, ~Tried(d)'
        PROVE  \E i \in DOMAIN rest : rest[i] = Call(d, "init")
    <3>1. PICK i \in DOMAIN todo : todo[i] = Call(d, "init")
      BY <1>3, <2>5 DEF Booting
    <3>2. i # 1 /\ i \in 1 .. Len(todo)
      BY <1>1, <2>5, <3>1
    <3>3. i - 1 \in DOMAIN rest /\ rest[i - 1] = todo[i]
      BY <2>2, <2>3, <3>2
    <3> QED
      BY <3>1, <3>3
  <2>6. CASE rest = <<>>
    BY <2>2, <2>3, <2>5, <2>6 DEF InitsFirst
  <2>7. CASE rest # <<>>
    <3>1. Booting'
      BY <2>3, <2>4, <2>5 DEF Booting
    <3>2. at'[Main] = "call"
      BY <2>7, MainIsActive DEF Leaves, FlowOK
    <3> QED
      BY <3>1, <3>2 DEF InitsFirst
  <2> QED
    BY <2>6, <2>7
<1> QED
  BY <1>1, <1>2, <1>3 DEF InitsFirst

LEMMA CallsInits ==
  ASSUME TypeOK, FlowOK, InitsFirst, MainCalls
  PROVE  InitsFirst'
<1>0. \A m, f : Call(m, f).do = f
  BY DEF Call
<1>1. ASSUME NEW m, NEW f, f # "init", Makes(Call(m, f)), Leaves(Tail(todo)),
             UNCHANGED lib
      PROVE  InitsFirst'
  <2>1. /\ \A d \in Devices : Tried(d) => Tried(d)'
        /\ \A d \in Devices : Call(m, f) # Call(d, "init")
    BY <1>0, <1>1 DEF Tried
  <2> QED
    BY <1>1, <2>1, CallKeepsInits
<1>2. CASE LocksTwice
  BY <1>2 DEF LocksTwice, InitsFirst, Booting, Tried
<1>3. CASE Log
  BY <1>1, <1>3 DEF Log, WriteLog
<1>4. CASE Load
  <2>1. CASE UNCHANGED flow
    BY <1>4, <2>1 DEF Load, InitsFirst, Booting, Tried
  <2>2. CASE Leaves(Tail(todo))
    <3>1. /\ \A d \in Devices : Tried(d) => Tried(d)'
          /\ \A d \in Devices : Call("none", "load") # Call(d, "init")
          /\ Makes(Call("none", "load"))
      BY <1>0, <1>4 DEF Load, Tried
    <3> QED
      BY <2>2, <3>1, CallKeepsInits
  <2> QED
    BY <1>4, <2>1, <2>2 DEF Load
<1>5. CASE InitDevice
  <2>1. PICK d \in Devices : /\ Makes(Call(d, "init"))
                             /\ ready' = [ready EXCEPT ![d] = d \notin missing]
                             /\ Leaves(Tail(todo)) /\ missing' = missing
    BY <1>5 DEF InitDevice
  <2>2. \A e \in Devices : ready'[e] = IF e = d THEN d \notin missing ELSE ready[e]
    BY <2>1 DEF TypeOK
  <2>3. \A e \in Devices : Tried(e) => Tried(e)'
    BY <2>1, <2>2 DEF Tried
  <2>4. \A e \in Devices : Call(d, "init") = Call(e, "init") => Tried(e)'
    BY <2>1, <2>2 DEF Tried, Call
  <2> QED
    BY <2>1, <2>3, <2>4, CallKeepsInits
<1>6. CASE Listen
  <2>1. CASE UNCHANGED flow
    BY <1>6, <2>1 DEF Listen, InitsFirst, Booting, Tried
  <2>2. CASE Leaves(Tail(todo))
    BY <1>1, <1>6, <2>2 DEF Listen
  <2> QED
    BY <1>6, <2>1, <2>2 DEF Listen
<1>7. CASE CallLed
  BY <1>1, <1>7 DEF CallLed
<1>8. CASE CallDisplay
  BY <1>1, <1>8 DEF CallDisplay
<1>9. CASE CallCountdown
  BY <1>1, <1>9 DEF CallCountdown
<1>10. CASE CallStop
  <2>1. /\ Call("segment", "stop").do \notin BootCalls
        /\ \A d \in Devices : Call("segment", "stop") # Call(d, "init")
        /\ \A d \in Devices : Tried(d) => Tried(d)'
    BY <1>0, <1>10 DEF CallStop, BootCalls, Tried
  <2>2. PICK rest : Makes(Call("segment", "stop")) /\ Leaves(rest)
    BY <1>10 DEF CallStop
  <2> QED
    BY <2>1, <2>2, CallKeepsInits
<1>11. CASE Nap
  BY <1>1, <1>11 DEF Nap
<1>12. CASE Settle
  BY <1>1, <1>12 DEF Settle
<1>13. CASE CallPlay
  BY <1>1, <1>13 DEF CallPlay
<1>14. CASE CallAutoStart
  BY <1>1, <1>14 DEF CallAutoStart
<1>15. CASE CallAutoStop
  <2>1. /\ Call("cds", "auto_stop").do \notin BootCalls
        /\ \A d \in Devices : Call("cds", "auto_stop") # Call(d, "init")
        /\ \A d \in Devices : Tried(d) => Tried(d)'
    BY <1>0, <1>15 DEF CallAutoStop, BootCalls, Tried
  <2>2. PICK rest : Makes(Call("cds", "auto_stop")) /\ Leaves(rest)
    BY <1>15 DEF CallAutoStop
  <2> QED
    BY <2>1, <2>2, CallKeepsInits
<1>16. CASE CallOther
  <2>1. PICK m, f : f # "init" /\ Head(todo) = Call(m, f)
    BY <1>16 DEF CallOther
  <2> QED
    BY <1>1, <1>16, <2>1 DEF CallOther
<1> QED
  BY <1>2, <1>3, <1>4, <1>5, <1>6, <1>7, <1>8, <1>9, <1>10, <1>11, <1>12, <1>13,
     <1>14, <1>15, <1>16 DEF MainCalls

LEMMA BootInits == todo' = Boot => Booting'
<1> SUFFICES ASSUME todo' = Boot
             PROVE  Booting'
  OBVIOUS
<1>1. /\ DOMAIN Boot = 1 .. 8
      /\ Boot[3] = Call("led", "init") /\ Boot[4] = Call("segment", "init")
      /\ Boot[5] = Call("buzzer", "init") /\ Boot[6] = Call("cds", "init")
      /\ \A i \in 1 .. 8 : Boot[i].do \in BootCalls
  BY DEF Boot, WriteLog, Call, BootCalls
<1> QED
  BY <1>1 DEF Booting, Devices

(* On the way out main() executes no more calls.                           *)
LEMMA LeavingInits ==
  ASSUME TypeOK, FlowOK, StackOK, WayOut, NEW a \in Activities, LeavingStep(a)
  PROVE  InitsFirst'
<1>1. CASE a = Main
  <2>1. at[Main] \in Leaving /\ at'[Main] \in Leaving
    <3>1. CASE Quiet
      <4>1. at[Main] \in Leaving
        BY <1>1
        DEF LeavingStep, LogEnd, NothingLoaded, CleanLed, Ask, Wait, CleanSegment,
            CleanBuzzer, CleanCds, CallsUnloaded, Unload, Exit, Goes, Leaving
      <4> QED
        BY <3>1, <4>1 DEF Quiet
    <3>2. CASE ~Quiet
      BY <1>1, <3>2, LeavingMoves
    <3> QED
      BY <3>1, <3>2
  <2> QED
    BY <2>1 DEF InitsFirst, Leaving
<1>2. CASE a \in Handlers
  <2>1. at[a] # "none"
    BY <1>2
    DEF LeavingStep, LogEnd, NothingLoaded, CleanLed, Ask, Wait, CleanSegment,
        CleanBuzzer, CleanCds, CallsUnloaded, Unload, Exit, Goes
  <2>2. Main \in stopped /\ at[Main] \in Halted
    BY <1>2, <2>1, MainIsActive
    DEF WayOut, HandlersStopMain, StackOK, HaltedAreStopped
  <2>3. at'[Main] = at[Main]
    BY <1>2, <2>2, LeavingMoves, MainIsActive DEF Quiet, Moves
  <2> QED
    BY <2>2, <2>3 DEF InitsFirst, Halted
<1> QED
  BY <1>1, <1>2 DEF Activities

LEMMA NextInits ==
  ASSUME TypeOK, FlowOK, StackOK, WayOut, InitsFirst, [Next]_vars
  PROVE  InitsFirst'
<1>1. ASSUME UNCHANGED <<todo, ready, missing>>,
             at'[Main] \in {"call", "idle"} => at'[Main] = at[Main]
      PROVE  InitsFirst'
  BY <1>1 DEF InitsFirst, Booting, Tried
<1>2. CASE Daemonize \/ EarlySignal
  <2>1. at'[Main] = at[Main] \/ at'[Main] = "boot"
    BY <1>2, MainIsActive DEF Daemonize, EarlySignal, FlowOK
  <2> QED
    BY <1>1, <1>2, <2>1 DEF Daemonize, EarlySignal
<1>3. CASE InstallHandlers
  BY <1>3, BootInits, MainIsActive DEF InstallHandlers, Goes, FlowOK, InitsFirst
<1>4. CASE LeaveLoop
  BY <1>1, <1>4, MainIsActive DEF LeaveLoop, Goes, FlowOK
<1>5. ASSUME NEW cmd \in DOMAIN Commands, Dispatch(cmd)
      PROVE  InitsFirst'
  BY <1>5 DEF Dispatch, Goes, InitsFirst, Tried
<1>6. ASSUME NEW s \in Signals, Deliver(s)
      PROVE  InitsFirst'
  <2>1. PICK t \in Struckable : Takes(t, s) /\ \E x \in Top(t) : Strikes(s, t, x)
    BY <1>6 DEF Deliver, Struckable
  <2>2. PICK x \in Top(t) : Strikes(s, t, x)
    BY <2>1
  <2>3. x = Main => at'[Main] \notin {"call", "idle"}
    BY <2>1, <2>2, StrikeStack, MainIsActive
  <2>4. x # Main => at'[Main] = at[Main] /\ todo' = todo
    <3>1. <<t, s>> # Main
      BY <2>1, <2>2, StrikeStack, MainIsActive
    <3>2. \A a \in Activities \ {x, <<t, s>>} : at'[a] = at[a]
      BY <2>1, <2>2, StrikeStack
    <3>3. x # Main => todo' = todo
      BY <2>2 DEF Strikes
    <3> QED
      BY <3>1, <3>2, <3>3, MainIsActive
  <2> QED
    BY <1>1, <1>6, <2>3, <2>4 DEF Deliver, InitsFirst
<1>7. CASE WorkersStep \/ Over \/ UNCHANGED vars
  BY <1>1, <1>7
  DEF WorkersStep, CountdownStep, CountdownStarts, CountdownRings, CountdownEnds,
      CountdownWrites, CountdownReachesZero, MelodyEnds, ControllerLooks,
      WorkerFaults, Over, vars
<1>8. CASE Expire
  <2>1. at'[Main] = at[Main] \/ at'[Main] = "segment"
    BY <1>8, MainIsActive DEF Expire, FlowOK
  <2> QED
    BY <1>1, <1>8, <2>1 DEF Expire
<1>9. CASE MainStep
  BY <1>2, <1>3, <1>9, CallsInits, LeavingInits, MainIsActive DEF MainStep
<1>10. CASE HandlerStep
  BY <1>10, LeavingInits DEF HandlerStep, Activities
<1> QED
  BY <1>2, <1>4, <1>5, <1>6, <1>7, <1>8, <1>9, <1>10 DEF Next, WorkersStep

(* The actions that lock a mutex and leave it.                             *)
LEMMA MutexSteps ==
  ASSUME [Next]_vars
  PROVE  \/ mutex' = mutex
         \/ LocksTwice \/ ControllerLooks
         \/ \E c \in Countdowns : CountdownRings(c)
         \/ \E s \in Signals : Deliver(s)
<1>1. CASE MainCalls
  BY <1>1 DEF MainCalls, Log, Load, InitDevice, Listen, CallLed, CallDisplay,
              CallCountdown, CallStop, Nap, Settle, CallPlay, CallAutoStart,
              CallAutoStop, CallOther
<1>2. ASSUME NEW a, LeavingStep(a)
      PROVE  mutex' = mutex
  BY <1>2
  DEF LeavingStep, LogEnd, NothingLoaded, CleanLed, Ask, Wait, CleanSegment,
      CleanBuzzer, CleanCds, CallsUnloaded, Unload, Exit
<1>3. CASE WorkersStep
  BY <1>3
  DEF WorkersStep, CountdownStep, CountdownStarts, CountdownEnds, CountdownWrites,
      CountdownReachesZero, MelodyEnds, WorkerFaults
<1>4. CASE Daemonize \/ InstallHandlers \/ EarlySignal \/ LeaveLoop \/ Expire
             \/ \E cmd \in DOMAIN Commands : Dispatch(cmd)
  BY <1>4 DEF Daemonize, InstallHandlers, EarlySignal, LeaveLoop, Expire, Dispatch
<1>5. CASE Over \/ UNCHANGED vars
  BY <1>5 DEF Over, vars
<1> QED
  BY <1>1, <1>2, <1>3, <1>4, <1>5 DEF Next, MainStep, HandlerStep, WorkersStep

(* No step changes which devices are missing.                              *)
LEMMA MissingStay ==
  ASSUME [Next]_vars
  PROVE  missing' = missing
<1>1. CASE MainCalls
  BY <1>1 DEF MainCalls, LocksTwice, Log, Load, InitDevice, Listen, CallLed,
              CallDisplay, CallCountdown, CallStop, Nap, Settle, CallPlay,
              CallAutoStart, CallAutoStop, CallOther
<1>2. ASSUME NEW a, LeavingStep(a)
      PROVE  missing' = missing
  BY <1>2
  DEF LeavingStep, LogEnd, NothingLoaded, CleanLed, Ask, Wait, CleanSegment,
      CleanBuzzer, CleanCds, CallsUnloaded, Unload, Exit
<1>3. CASE WorkersStep
  BY <1>3
  DEF WorkersStep, CountdownStep, CountdownStarts, CountdownRings, CountdownEnds,
      CountdownWrites, CountdownReachesZero, MelodyEnds, ControllerLooks,
      WorkerFaults
<1>4. CASE \/ Daemonize \/ InstallHandlers \/ EarlySignal \/ LeaveLoop \/ Expire
           \/ \E cmd \in DOMAIN Commands : Dispatch(cmd)
           \/ \E s \in Signals : Deliver(s)
  BY <1>4 DEF Daemonize, InstallHandlers, EarlySignal, LeaveLoop, Expire, Dispatch,
              Deliver
<1>5. CASE Over \/ UNCHANGED vars
  BY <1>5 DEF Over, vars
<1> QED
  BY <1>1, <1>2, <1>3, <1>4, <1>5 DEF Next, MainStep, HandlerStep, WorkersStep

(* Whoever is caught in a section stays there.                             *)
LEMMA CaughtStay ==
  ASSUME TypeOK, FlowOK, StackOK, [Next]_vars, NEW a \in Activities,
         at[a] \in {"caught", "overtaken"}
  PROVE  at'[a] = at[a]
<1>1. a \in stopped
  BY DEF StackOK, HaltedAreStopped, Halted
<1>2. CASE Quiet \/ MovesOn
  BY <1>1, <1>2 DEF Quiet, MovesOn, Moves
<1>3. ASSUME NEW s \in Signals, Deliver(s)
      PROVE  at'[a] = at[a]
  <2>1. PICK t \in Struckable : Takes(t, s) /\ \E x \in Top(t) : Strikes(s, t, x)
    BY <1>3 DEF Deliver, Struckable
  <2>2. PICK x \in Top(t) : Strikes(s, t, x)
    BY <2>1
  <2>3. x # a /\ <<t, s>> # a
    BY <1>1, <2>1, <2>2, StrikeStack
  <2>4. \A b \in Activities \ {x, <<t, s>>} : at'[b] = at[b]
    BY <2>1, <2>2, StrikeStack
  <2> QED
    BY <2>3, <2>4
<1> QED
  BY <1>2, <1>3, StepMoves DEF StackOK

LEMMA NextKept ==
  ASSUME TypeOK, FlowOK, StackOK, InitsFirst, KeptForReason, [Next]_vars
  PROVE  KeptForReason'
<1> SUFFICES ASSUME NEW m \in Mutexes, mutex'[m] # Nobody
             PROVE  Caught(m)'
  BY DEF KeptForReason
<1>1. CASE mutex'[m] = mutex[m]
  <2>1. Caught(m)
    BY <1>1 DEF KeptForReason
  <2> QED
    BY <1>1, <2>1, CaughtStay, MissingStay DEF Caught
<1>2. CASE LocksTwice /\ mutex'[m] # mutex[m]
  <2>1. PICK c \in Initialising :
               Makes(c) /\ ~Usable(c) /\ mutex' = [mutex EXCEPT ![c.on] = Main]
    BY <1>2 DEF LocksTwice, Usable
  <2>2. c.on = m /\ mutex'[m] = Main
    BY <1>2, <2>1 DEF TypeOK
  <2>3. DeviceOf(m) \in Devices /\ ~ready[DeviceOf(m)]
    BY <2>1, <2>2 DEF Initialising, DeviceOf, Devices, Usable, Call
  <2>4. DeviceOf(m) \in missing
    <3>1. CASE \A d \in Devices : Tried(d)
      BY <2>3, <3>1 DEF Tried
    <3>2. CASE Booting
      <4>1. todo \in Seq(Calls) /\ todo # <<>> /\ c = todo[1]
        BY <2>1, HeadTailProperties DEF Makes, FlowOK, CallsLeft
      <4>2. c.do \in BootCalls
        BY <3>2, <4>1 DEF Booting
      <4>3. c.do \notin BootCalls
        BY <2>1 DEF Initialising, BootCalls, Call
      <4> QED
        BY <4>2, <4>3
    <3> QED
      BY <2>1, <3>1, <3>2 DEF Makes, InitsFirst
  <2> QED
    BY <2>2, <2>4, MissingStay DEF Caught
<1>3. CASE /\ ControllerLooks \/ \E c \in Countdowns : CountdownRings(c)
           /\ mutex'[m] # mutex[m]
  <2>1. \E w \in Workers : mutex'[m] = Own(w)
    BY <1>3 DEF CountdownRings, ControllerLooks, TypeOK, Workers
  <2> QED
    BY <2>1 DEF Caught
<1>4. ASSUME NEW s \in Signals, Deliver(s), mutex'[m] # mutex[m]
      PROVE  Caught(m)'
  <2>1. PICK t \in Struckable : Takes(t, s) /\ \E x \in Top(t) : Strikes(s, t, x)
    BY <1>4 DEF Deliver, Struckable
  <2>2. PICK x \in Top(t) : Strikes(s, t, x)
    BY <2>1
  <2>3. mutex'[m] = x
    BY <1>4, <2>2 DEF Strikes, TypeOK
  <2>4. CASE x \in Activities
    BY <1>4, <2>1, <2>2, <2>3, <2>4, StrikeStack DEF Caught
  <2>5. CASE x \notin Activities
    <3>1. x = Own(t) /\ t # "main"
      BY <2>2, <2>5, MainIsActive DEF Top, Active, Activities, Main
    <3>2. t \in Workers
      BY <3>1, ProcessAssumption DEF Struckable
    <3> QED
      BY <2>3, <3>1, <3>2 DEF Caught
  <2> QED
    BY <2>4, <2>5
<1> QED
  BY <1>1, <1>2, <1>3, <1>4, MutexSteps

-----------------------------------------------------------------------------
(* The end.                                                                *)

(* Only the alarm kills.                                                   *)
LEMMA EndSteps ==
  ASSUME [Next]_vars, ended' # ended
  PROVE  /\ ended = "no"
         /\ ended' = "killed" => Expire
         /\ ended' = "faulted" =>
              \/ \E a \in Activities : CallsUnloaded(a) \/ Unload(a)
              \/ \E w \in Workers : WorkerFaults(w)
<1>1. CASE MainCalls
  BY <1>1 DEF MainCalls, LocksTwice, Log, Load, InitDevice, Listen, CallLed,
              CallDisplay, CallCountdown, CallStop, Nap, Settle, CallPlay,
              CallAutoStart, CallAutoStop, CallOther, Makes
<1>2. ASSUME NEW a \in Activities, LeavingStep(a)
      PROVE  /\ ended = "no"
             /\ ended' # "killed"
             /\ ended' = "faulted" => CallsUnloaded(a) \/ Unload(a)
  BY <1>2
  DEF LeavingStep, LogEnd, NothingLoaded, CleanLed, Ask, Wait, CleanSegment,
      CleanBuzzer, CleanCds, CallsUnloaded, Unload, Exit, Goes
<1>3. CASE WorkersStep
  BY <1>3
  DEF WorkersStep, CountdownStep, CountdownStarts, CountdownRings, CountdownEnds,
      CountdownWrites, CountdownReachesZero, MelodyEnds, ControllerLooks,
      WorkerFaults
<1>4. CASE \/ Daemonize \/ InstallHandlers \/ EarlySignal \/ LeaveLoop
           \/ \E cmd \in DOMAIN Commands : Dispatch(cmd)
           \/ \E s \in Signals : Deliver(s)
  BY <1>4 DEF Daemonize, InstallHandlers, EarlySignal, LeaveLoop, Dispatch, Deliver,
              Goes
<1>5. CASE Expire
  BY <1>5 DEF Expire
<1>6. CASE Over \/ UNCHANGED vars
  BY <1>6 DEF Over, vars
<1> QED
  BY <1>1, <1>2, <1>3, <1>4, <1>5, <1>6, MainIsActive
  DEF Next, MainStep, HandlerStep, WorkersStep, Activities

LEMMA Frozen ==
  ASSUME [Next]_vars, ended # "no"
  PROVE  UNCHANGED vars
<1>1. ~MainCalls
  BY DEF MainCalls, LocksTwice, Log, Load, InitDevice, Listen, CallLed,
         CallDisplay, CallCountdown, CallStop, Nap, Settle, CallPlay,
         CallAutoStart, CallAutoStop, CallOther, Makes
<1>2. \A a : ~LeavingStep(a)
  BY DEF LeavingStep, LogEnd, NothingLoaded, CleanLed, Ask, Wait, CleanSegment,
         CleanBuzzer, CleanCds, CallsUnloaded, Unload, Exit, Goes
<1>3. ~WorkersStep
  BY DEF WorkersStep, CountdownStep, CountdownStarts, CountdownRings, CountdownEnds,
         CountdownWrites, CountdownReachesZero, MelodyEnds, ControllerLooks,
         WorkerFaults, Becomes
<1>4. /\ ~Daemonize /\ ~InstallHandlers /\ ~EarlySignal /\ ~LeaveLoop /\ ~Expire
      /\ \A cmd : ~Dispatch(cmd)
      /\ \A s : ~Deliver(s)
  BY DEF Daemonize, InstallHandlers, EarlySignal, LeaveLoop, Dispatch, Deliver,
         Expire, Goes
<1> QED
  BY <1>1, <1>2, <1>3, <1>4 DEF Next, MainStep, HandlerStep, WorkersStep, Over

LEMMA NextKilled ==
  ASSUME TypeOK, FlowOK, StackOK, AlarmsOwned, KeptForReason, KilledOnlyWhenCaught,
         [Next]_vars
  PROVE  KilledOnlyWhenCaught'
<1>1. CASE ended = "killed"
  <2>1. UNCHANGED vars
    BY <1>1, Frozen
  <2>2. UNCHANGED <<at, mutex, missing, ended>>
    BY <2>1 DEF vars
  <2> QED
    BY <2>2 DEF KilledOnlyWhenCaught, Caught
<1>2. CASE ended # "killed" /\ ended' = "killed"
  <2>1. Expire /\ ended = "no"
    BY <1>2, EndSteps
  <2>2. timers \in Seq(Timers) /\ timers # <<>> /\ Head(timers).what = "alarm"
    BY <1>2, <2>1 DEF Expire, TypeOK, Timers
  <2>3. Head(timers) = timers[1] /\ 1 \in DOMAIN timers
    BY <2>2, HeadTailProperties
  <2>4. timers[1].who \in Active
    BY <2>2, <2>3 DEF AlarmsOwned
  <2>5. PICK h \in Active : h \notin stopped
    BY <2>4 DEF StackOK, OneOnTop
  <2>6. h \in Activities /\ at[h] \in Leaving
    BY <2>5 DEF Active, Activities, StackOK, HandlersLeave
  <2>7. UNCHANGED <<at, mutex, missing>>
    BY <1>2, <2>1 DEF Expire
  <2>8. at[h] = "asleep" \/ ~Free(Wants(h))
    BY <2>1, <2>5, <2>6 DEF Expire, CanMove, AtRest, Leaving
  <2>9. CASE at[h] = "asleep"
    BY <2>6, <2>7, <2>9 DEF KilledOnlyWhenCaught
  <2>10. CASE ~Free(Wants(h))
    <3>1. PICK m \in Mutexes : mutex[m] # Nobody
      BY <2>10 DEF Free
    <3>2. Caught(m)
      BY <3>1 DEF KeptForReason
    <3>3. Caught(m)' /\ mutex'[m] # Nobody
      BY <2>7, <3>1, <3>2 DEF Caught
    <3> QED
      BY <3>3 DEF KilledOnlyWhenCaught
  <2> QED
    BY <2>8, <2>9, <2>10
<1>3. CASE ended' # "killed"
  BY <1>3 DEF KilledOnlyWhenCaught
<1> QED
  BY <1>1, <1>2, <1>3

(* What all the invariants of the shutdown rest on.                        *)
ShutdownOK == StackOK /\ AlarmsOwned /\ InitsFirst /\ KeptForReason

LEMMA InitShutdown == Init => ShutdownOK /\ KilledOnlyWhenCaught
  BY InitStack, MainIsActive
  DEF Init, ShutdownOK, AlarmsOwned, InitsFirst, KeptForReason,
      KilledOnlyWhenCaught

LEMMA NextShutdown ==
  ASSUME TypeOK, FlowOK, WayOut, ShutdownOK, [Next]_vars
  PROVE  ShutdownOK'
  BY NextStack, NextAlarms, NextInits, NextKept DEF ShutdownOK

(* A shutdown is cut short by its alarm only if a mutex is kept by somebody
   who will not return, or a countdown is being waited for: for any number of
   signals, wherever they arrive, and any devices that are missing.        *)
THEOREM KillsOnlyTheBlocked == Spec => []KilledOnlyWhenCaught
<1> DEFINE Inv == TypeOK /\ FlowOK /\ WayOut /\ ShutdownOK /\ KilledOnlyWhenCaught
<1>1. Init => Inv
  BY InitIsTyped, InitWayOut, InitShutdown
<1>2. Inv /\ [Next]_vars => Inv'
  BY NextIsTyped, NextWayOut, NextShutdown, NextKilled DEF ShutdownOK
<1>3. Inv => KilledOnlyWhenCaught
  OBVIOUS
<1> QED
  BY <1>1, <1>2, <1>3, PTL DEF Spec

-----------------------------------------------------------------------------
(* Faults.  Where a step leads.                                            *)

WaysOut ==
  {<<"log", "led">>, <<"led", "ask">>, <<"led", "unload">>, <<"ask", "wait">>,
   <<"wait", "asleep">>, <<"wait", "segment">>, <<"segment", "buzzer">>,
   <<"buzzer", "cds">>, <<"cds", "unload">>, <<"unload", "exit">>}

LEMMA LeavingPlaces ==
  ASSUME TypeOK, NEW a \in Activities, LeavingStep(a)
  PROVE  /\ at[a] \in Leaving /\ Runs(a)
         /\ at' = at \/ \E p \in WaysOut : Goes(a, p[1], p[2])
<1>1. CASE CallsUnloaded(a) \/ Exit(a)
  BY <1>1 DEF CallsUnloaded, Exit, Leaving
<1>2. ASSUME NEW p \in WaysOut, Goes(a, p[1], p[2])
      PROVE  at[a] \in Leaving /\ Runs(a)
  BY <1>2 DEF Goes, WaysOut, Leaving
<1>3. /\ <<"log", "led">> \in WaysOut /\ <<"led", "ask">> \in WaysOut
      /\ <<"led", "unload">> \in WaysOut /\ <<"ask", "wait">> \in WaysOut
      /\ <<"wait", "asleep">> \in WaysOut /\ <<"wait", "segment">> \in WaysOut
      /\ <<"segment", "buzzer">> \in WaysOut /\ <<"buzzer", "cds">> \in WaysOut
      /\ <<"cds", "unload">> \in WaysOut /\ <<"unload", "exit">> \in WaysOut
  BY DEF WaysOut
<1>4. ASSUME NEW from, NEW to, <<from, to>> \in WaysOut, Goes(a, from, to)
      PROVE  \E p \in WaysOut : Goes(a, p[1], p[2])
  <2>1. Goes(a, <<from, to>>[1], <<from, to>>[2])
    BY <1>4
  <2> QED
    BY <1>4, <2>1
<1>5. CASE LogEnd(a) \/ NothingLoaded(a) \/ CleanLed(a) \/ Ask(a) \/ Wait(a)
  BY <1>2, <1>3, <1>4, <1>5 DEF LogEnd, NothingLoaded, CleanLed, Ask, Wait
<1>6. CASE CleanSegment(a) \/ CleanBuzzer(a) \/ CleanCds(a) \/ Unload(a)
  BY <1>2, <1>3, <1>4, <1>6 DEF CleanSegment, CleanBuzzer, CleanCds, Unload
<1> QED
  BY <1>1, <1>5, <1>6 DEF LeavingStep

LEMMA CallsPlaces ==
  ASSUME TypeOK, FlowOK, WayOut, MainCalls
  PROVE  \A b \in Activities : at'[b] \in {"none", "call", "idle"}
<1>1. at[Main] = "call" /\ Runs(Main)
  BY DEF MainCalls, LocksTwice, Log, Load, InitDevice, Listen, CallLed,
         CallDisplay, CallCountdown, CallStop, Nap, Settle, CallPlay,
         CallAutoStart, CallAutoStop, CallOther, Makes
<1>2. at' = at \/ \E rest : Leaves(rest)
  BY DEF MainCalls, LocksTwice, Log, Load, InitDevice, Listen, CallLed,
         CallDisplay, CallCountdown, CallStop, Nap, Settle, CallPlay,
         CallAutoStart, CallAutoStop, CallOther
<1>3. \A h \in Handlers : at[h] = "none"
  BY <1>1, MainRunsAlone
<1>4. \A b \in Activities : at'[b] = at[b] \/ at'[b] \in {"call", "idle"}
  BY <1>2 DEF Leaves, FlowOK
<1> QED
  BY <1>1, <1>3, <1>4 DEF Activities

(* The steps that are neither calls, nor on the way out, nor signals.      *)
LEMMA QuietPlaces ==
  ASSUME TypeOK, FlowOK,
         \/ Daemonize \/ InstallHandlers \/ EarlySignal \/ LeaveLoop
         \/ \E cmd \in DOMAIN Commands : Dispatch(cmd)
         \/ WorkersStep \/ Over \/ UNCHANGED vars
  PROVE  \A b \in Activities :
           \/ at'[b] = at[b]
           \/ at[b] \notin Leaving /\ at'[b] \in {"boot", "call", "log"}
<1>1. CASE Daemonize \/ EarlySignal
  BY <1>1 DEF Daemonize, EarlySignal, FlowOK, Leaving
<1>2. CASE InstallHandlers \/ LeaveLoop
  BY <1>2 DEF InstallHandlers, LeaveLoop, Goes, FlowOK, Leaving
<1>3. CASE \E cmd \in DOMAIN Commands : Dispatch(cmd)
  BY <1>3 DEF Dispatch, Goes, FlowOK, Leaving
<1>4. CASE WorkersStep \/ Over \/ UNCHANGED vars
  BY <1>4
  DEF WorkersStep, CountdownStep, CountdownStarts, CountdownRings, CountdownEnds,
      CountdownWrites, CountdownReachesZero, MelodyEnds, ControllerLooks,
      WorkerFaults, Over, vars
<1> QED
  BY <1>1, <1>2, <1>3, <1>4

LEMMA ExpirePlaces ==
  ASSUME TypeOK, FlowOK, Expire
  PROVE  \A b \in Activities :
           at'[b] = at[b] \/ (at[b] = "asleep" /\ at'[b] = "segment")
  BY DEF Expire, FlowOK

(* The places after the cleanup of the segment display, or after all.      *)
PastSegment == {"buzzer", "cds", "unload", "exit", "overtaken"}
AtTheEnd == {"exit", "overtaken"}

LEMMA PlacesStay ==
  ASSUME TypeOK, FlowOK, StackOK, WayOut, [Next]_vars, NEW b \in Activities
  PROVE  /\ at[b] \in Leaving => at'[b] \in Leaving
         /\ at[b] \in PastSegment => at'[b] \in PastSegment
         /\ at[b] \in AtTheEnd => at'[b] \in AtTheEnd
<1> USE DEF Leaving, PastSegment, AtTheEnd
<1>1. CASE MainCalls
  <2>1. at[Main] = "call" /\ Runs(Main)
    BY <1>1
    DEF MainCalls, LocksTwice, Log, Load, InitDevice, Listen, CallLed, CallDisplay,
        CallCountdown, CallStop, Nap, Settle, CallPlay, CallAutoStart,
        CallAutoStop, CallOther, Makes
  <2>2. \A h \in Handlers : at[h] = "none"
    BY <2>1, MainRunsAlone
  <2> QED
    BY <2>1, <2>2 DEF Activities
<1>2. ASSUME NEW a \in Activities, LeavingStep(a)
      PROVE  /\ at[b] \in Leaving => at'[b] \in Leaving
             /\ at[b] \in PastSegment => at'[b] \in PastSegment
             /\ at[b] \in AtTheEnd => at'[b] \in AtTheEnd
  BY <1>2, LeavingPlaces DEF Goes, WaysOut, FlowOK
<1>3. CASE Expire
  BY <1>3, ExpirePlaces
<1>4. ASSUME NEW s \in Signals, Deliver(s)
      PROVE  /\ at[b] \in Leaving => at'[b] \in Leaving
             /\ at[b] \in PastSegment => at'[b] \in PastSegment
             /\ at[b] \in AtTheEnd => at'[b] \in AtTheEnd
  <2>1. PICK t \in Struckable : Takes(t, s) /\ \E x \in Top(t) : Strikes(s, t, x)
    BY <1>4 DEF Deliver, Struckable
  <2>2. PICK x \in Top(t) : Strikes(s, t, x)
    BY <2>1
  <2>3. \A c \in Activities \ {x, <<t, s>>} : at'[c] = at[c]
    BY <2>1, <2>2, StrikeStack
  <2>4. x \in Activities =>
          at'[x] = IF at[x] \in Leaving THEN "overtaken"
                   ELSE IF mutex' = mutex THEN "stopped" ELSE "caught"
    BY <2>1, <2>2, StrikeStack
  <2>5. b = <<t, s>> => at[b] = "none"
    BY <2>1 DEF Takes
  <2> QED
    BY <2>3, <2>4, <2>5
<1>5. CASE \/ Daemonize \/ InstallHandlers \/ EarlySignal \/ LeaveLoop
           \/ \E cmd \in DOMAIN Commands : Dispatch(cmd)
           \/ WorkersStep \/ Over \/ UNCHANGED vars
  BY <1>5, QuietPlaces
<1> QED
  BY <1>1, <1>2, <1>3, <1>4, <1>5, MainIsActive
  DEF Next, MainStep, HandlerStep, WorkersStep, Activities

-----------------------------------------------------------------------------
(* Why a countdown whose flags are its own is not unloaded under: the handle is
   not 0, a lone shutdown that meets it sleeps, and goes on only if all such
   countdowns have ended or cannot, and then it cannot pass the mutex that keeps
   them.  That fnd_running is never set again tells them all to stop.      *)

Counts(c) == Alive(c) /\ c \notin forgotten
Counting == \E c \in Countdowns : Counts(c)

Alone(b) == \A a \in Activities \ {b} : at[a] \notin Leaving

NoWorkersYet == loaded = "no" => \A w \in Workers : worker[w] = "none"

CountsKnown ==
  Counting => countdown_tid \/ \E a \in Activities : at[a] \in PastSegment

Closing == loaded = "closed" => \E a \in Activities : at[a] \in AtTheEnd

AskedFirst == \A b \in Activities : at[b] \in {"wait", "asleep"} => ~fnd_running

OneLeaves ==
  \A b \in Activities : Alone(b) /\ Counting =>
    /\ at[b] = "segment" => ~Free("segment") \/ ~Free("buzzer")
    /\ at[b] = "buzzer" => ~Free("buzzer")
    /\ at[b] \notin {"cds", "unload", "exit"}

FaultOK == NoWorkersYet /\ CountsKnown /\ Closing /\ AskedFirst /\ OneLeaves

LEMMA InitFaults == Init => FaultOK /\ FaultsOnlyUnderWorkers
  BY DEF Init, FaultOK, NoWorkersYet, CountsKnown, Closing, AskedFirst, OneLeaves,
         Counting, Counts, Alive, Workers, FaultsOnlyUnderWorkers

LEMMA NextLoaded ==
  ASSUME [Next]_vars
  PROVE  /\ loaded' = "no" => loaded = "no"
         /\ loaded' = "closed" /\ loaded # "closed" =>
              \E a \in Activities : Unload(a)
<1>1. CASE MainCalls
  BY <1>1 DEF MainCalls, LocksTwice, Log, Load, InitDevice, Listen, CallLed,
              CallDisplay, CallCountdown, CallStop, Nap, Settle, CallPlay,
              CallAutoStart, CallAutoStop, CallOther
<1>2. ASSUME NEW a \in Activities, LeavingStep(a)
      PROVE  loaded' = loaded \/ (Unload(a) /\ (loaded' = "no" => loaded = "no"))
  BY <1>2
  DEF LeavingStep, LogEnd, NothingLoaded, CleanLed, Ask, Wait, CleanSegment,
      CleanBuzzer, CleanCds, CallsUnloaded, Unload, Exit
<1>3. CASE WorkersStep
  BY <1>3
  DEF WorkersStep, CountdownStep, CountdownStarts, CountdownRings, CountdownEnds,
      CountdownWrites, CountdownReachesZero, MelodyEnds, ControllerLooks,
      WorkerFaults
<1>4. CASE \/ Daemonize \/ InstallHandlers \/ EarlySignal \/ LeaveLoop \/ Expire
           \/ \E cmd \in DOMAIN Commands : Dispatch(cmd)
           \/ \E s \in Signals : Deliver(s)
  BY <1>4 DEF Daemonize, InstallHandlers, EarlySignal, LeaveLoop, Expire, Dispatch,
              Deliver
<1>5. CASE Over \/ UNCHANGED vars
  BY <1>5 DEF Over, vars
<1> QED
  BY <1>1, <1>2, <1>3, <1>4, <1>5, MainIsActive
  DEF Next, MainStep, HandlerStep, WorkersStep, Activities

LEMMA NextClosing ==
  ASSUME TypeOK, FlowOK, StackOK, WayOut, Closing, [Next]_vars
  PROVE  Closing'
<1>1. CASE loaded = "closed"
  <2>1. PICK a \in Activities : at[a] \in AtTheEnd
    BY <1>1 DEF Closing
  <2> QED
    BY <2>1, PlacesStay DEF Closing
<1>2. CASE loaded # "closed"
  <2>1. ASSUME NEW a \in Activities, Unload(a)
        PROVE  at'[a] \in AtTheEnd
    BY <2>1 DEF Unload, Goes, FlowOK, AtTheEnd
  <2> QED
    BY <1>2, <2>1, NextLoaded DEF Closing
<1> QED
  BY <1>1, <1>2

LEMMA NextNoWorkers ==
  ASSUME TypeOK, FlowOK, WayOut, NoWorkersYet, [Next]_vars
  PROVE  NoWorkersYet'
<1>1. CASE worker' = worker
  BY <1>1, NextLoaded DEF NoWorkersYet
<1>2. CASE loaded # "no"
  BY <1>2, NextLoaded DEF NoWorkersYet
<1>3. CASE CallCountdown \/ CallPlay \/ CallAutoStart
  <2>1. \E c : Makes(c) /\ c # WriteLog /\ c # Call("none", "load")
    BY <1>3 DEF CallCountdown, CallPlay, CallAutoStart, WriteLog, Call
  <2> QED
    BY <1>2, <2>1, LoadedBefore
<1>4. CASE MainCalls
  BY <1>1, <1>3, <1>4
  DEF MainCalls, LocksTwice, Log, Load, InitDevice, Listen, CallLed, CallDisplay,
      CallStop, Nap, Settle, CallAutoStop, CallOther
<1>5. CASE WorkersStep
  BY <1>1, <1>2, <1>5
  DEF WorkersStep, CountdownStep, CountdownStarts, CountdownRings, CountdownEnds,
      CountdownWrites, CountdownReachesZero, MelodyEnds, ControllerLooks,
      WorkerFaults, Becomes
<1>6. ASSUME NEW a, LeavingStep(a)
      PROVE  worker' = worker
  BY <1>6
  DEF LeavingStep, LogEnd, NothingLoaded, CleanLed, Ask, Wait, CleanSegment,
      CleanBuzzer, CleanCds, CallsUnloaded, Unload, Exit
<1>7. CASE \/ Daemonize \/ InstallHandlers \/ EarlySignal \/ LeaveLoop \/ Expire
           \/ \E cmd \in DOMAIN Commands : Dispatch(cmd)
           \/ \E s \in Signals : Deliver(s)
  BY <1>1, <1>7 DEF Daemonize, InstallHandlers, EarlySignal, LeaveLoop, Expire,
                    Dispatch, Deliver
<1>8. CASE Over \/ UNCHANGED vars
  BY <1>1, <1>8 DEF Over, vars
<1> QED
  BY <1>1, <1>4, <1>5, <1>6, <1>7, <1>8
  DEF Next, MainStep, HandlerStep, WorkersStep

(* No step of a worker creates a countdown, and one that ends clears the flags of
   all others.                                                             *)
LEMMA WorkersKeep ==
  ASSUME TypeOK, WorkersStep, Counting'
  PROVE  Counting /\ countdown_tid' = countdown_tid
<1> USE DEF Counting, Counts, Alive
<1>1. ASSUME UNCHANGED <<forgotten, countdown_tid>>,
             \A c \in Countdowns : Alive(c)' => Alive(c)
      PROVE  Counting /\ countdown_tid' = countdown_tid
  BY <1>1
<1>2. ASSUME NEW c \in Countdowns, Alive(c), NEW to,
             worker' = [worker EXCEPT ![c] = to]
      PROVE  \A d \in Countdowns : Alive(d)' => Alive(d)
  BY <1>2 DEF TypeOK, Workers
<1>3. ASSUME NEW c \in Countdowns, CountdownStarts(c) \/ CountdownReachesZero(c)
      PROVE  Counting /\ countdown_tid' = countdown_tid
  BY <1>1, <1>2, <1>3 DEF CountdownStarts, CountdownReachesZero, Becomes
<1>4. ASSUME NEW c \in Countdowns, CountdownRings(c)
      PROVE  Counting /\ countdown_tid' = countdown_tid
  <2>1. \A d \in Countdowns : Alive(d)' => Alive(d)
    BY <1>4, ProcessAssumption DEF CountdownRings, TypeOK, Workers
  <2> QED
    BY <1>1, <1>4, <2>1 DEF CountdownRings
<1>5. ASSUME NEW c \in Countdowns, CountdownEnds(c)
      PROVE  FALSE
  <2>1. forgotten' = Living \ {c} /\ worker' = [worker EXCEPT ![c] = "none"]
    BY <1>5 DEF CountdownEnds, Becomes, Forget
  <2>2. PICK d \in Countdowns : Alive(d)' /\ d \notin forgotten'
    OBVIOUS
  <2>3. d # c /\ worker[d] # "none"
    BY <2>1, <2>2 DEF TypeOK, Workers
  <2> QED
    BY <2>1, <2>2, <2>3 DEF Living
<1>6. CASE MelodyEnds \/ ControllerLooks
  <2>1. \A d \in Countdowns : worker'[d] = worker[d]
    BY <1>6, ProcessAssumption
    DEF MelodyEnds, ControllerLooks, Becomes, TypeOK, Workers
  <2>2. UNCHANGED <<forgotten, countdown_tid>>
    BY <1>6 DEF MelodyEnds, ControllerLooks
  <2> QED
    BY <1>1, <2>1, <2>2
<1>7. CASE (\E c \in Countdowns : CountdownWrites(c))
             \/ \E w \in Workers : WorkerFaults(w)
  BY <1>1, <1>7 DEF CountdownWrites, WorkerFaults
<1> QED
  BY <1>3, <1>4, <1>5, <1>6, <1>7 DEF WorkersStep, CountdownStep

(* A call of main() that leaves no countdown known leaves none that counts.  *)
LEMMA CallsKeep ==
  ASSUME TypeOK, MainCalls, Counting'
  PROVE  countdown_tid' \/ (Counting /\ countdown_tid' = countdown_tid)
<1> USE DEF Counting, Counts, Alive
<1>1. CASE UNCHANGED <<worker, forgotten, countdown_tid>>
  BY <1>1
<1>2. CASE Forget(Living) /\ UNCHANGED worker
  BY <1>2 DEF Forget, Living
<1>3. CASE CallDisplay
  BY <1>1, <1>2, <1>3 DEF CallDisplay, DropsCountdown
<1>4. CASE CallCountdown
  BY <1>1, <1>2, <1>4 DEF CallCountdown, DropsCountdown
<1>5. CASE Settle
  BY <1>2, <1>5 DEF Settle
<1>6. CASE CallPlay \/ CallAutoStart
  <2>1. \A d \in Countdowns : worker'[d] = worker[d]
    BY <1>6, ProcessAssumption
    DEF CallPlay, MayCreate, CallAutoStart, TypeOK, Workers
  <2>2. UNCHANGED <<forgotten, countdown_tid>>
    BY <1>6 DEF CallPlay, CallAutoStart
  <2> QED
    BY <2>1, <2>2
<1> QED
  BY <1>1, <1>3, <1>4, <1>5, <1>6
  DEF MainCalls, LocksTwice, Log, Load, InitDevice, Listen, CallLed, CallStop, Nap,
      CallAutoStop, CallOther

LEMMA NextKnown ==
  ASSUME TypeOK, FlowOK, StackOK, WayOut, CountsKnown, [Next]_vars
  PROVE  CountsKnown'
<1> SUFFICES ASSUME Counting'
             PROVE  countdown_tid' \/ \E a \in Activities : at'[a] \in PastSegment
  BY DEF CountsKnown
<1>1. CASE Counting /\ countdown_tid' = countdown_tid
  BY <1>1, PlacesStay DEF CountsKnown
<1>2. CASE UNCHANGED <<worker, forgotten, countdown_tid>>
  BY <1>1, <1>2 DEF Counting, Counts, Alive
<1>3. CASE MainCalls
  BY <1>1, <1>3, CallsKeep
<1>4. CASE WorkersStep
  BY <1>1, <1>4, WorkersKeep
<1>5. ASSUME NEW a \in Activities, LeavingStep(a)
      PROVE  UNCHANGED <<worker, forgotten, countdown_tid>> \/ at'[a] \in PastSegment
  <2>1. CASE CleanSegment(a)
    BY <2>1 DEF CleanSegment, Goes, FlowOK, PastSegment
  <2> QED
    BY <1>5, <2>1
    DEF LeavingStep, LogEnd, NothingLoaded, CleanLed, Ask, Wait, CleanBuzzer,
        CleanCds, CallsUnloaded, Unload, Exit
<1>6. CASE \/ Daemonize \/ InstallHandlers \/ EarlySignal \/ LeaveLoop \/ Expire
           \/ \E cmd \in DOMAIN Commands : Dispatch(cmd)
           \/ \E s \in Signals : Deliver(s)
  BY <1>2, <1>6 DEF Daemonize, InstallHandlers, EarlySignal, LeaveLoop, Expire,
                    Dispatch, Deliver
<1>7. CASE Over \/ UNCHANGED vars
  BY <1>2, <1>7 DEF Over, vars
<1> QED
  BY <1>2, <1>3, <1>4, <1>5, <1>6, <1>7, MainIsActive
  DEF Next, MainStep, HandlerStep, WorkersStep, Activities

(* Nothing sets fnd_running again.                                         *)
LEMMA NotRunningStays ==
  ASSUME [Next]_vars, ~fnd_running
  PROVE  ~fnd_running'
<1>1. CASE MainCalls
  BY <1>1 DEF MainCalls, LocksTwice, Log, Load, InitDevice, Listen, CallLed,
              CallDisplay, CallCountdown, CallStop, Nap, Settle, CallPlay,
              CallAutoStart, CallAutoStop, CallOther
<1>2. ASSUME NEW a, LeavingStep(a)
      PROVE  ~fnd_running'
  BY <1>2
  DEF LeavingStep, LogEnd, NothingLoaded, CleanLed, Ask, Wait, CleanSegment,
      CleanBuzzer, CleanCds, CallsUnloaded, Unload, Exit
<1>3. CASE WorkersStep
  BY <1>3
  DEF WorkersStep, CountdownStep, CountdownStarts, CountdownRings, CountdownEnds,
      CountdownWrites, CountdownReachesZero, MelodyEnds, ControllerLooks,
      WorkerFaults
<1>4. CASE \/ Daemonize \/ InstallHandlers \/ EarlySignal \/ LeaveLoop \/ Expire
           \/ \E cmd \in DOMAIN Commands : Dispatch(cmd)
           \/ \E s \in Signals : Deliver(s)
  BY <1>4 DEF Daemonize, InstallHandlers, EarlySignal, LeaveLoop, Expire, Dispatch,
              Deliver
<1>5. CASE Over \/ UNCHANGED vars
  BY <1>5 DEF Over, vars
<1> QED
  BY <1>1, <1>2, <1>3, <1>4, <1>5 DEF Next, MainStep, HandlerStep, WorkersStep

LEMMA NextAsked ==
  ASSUME TypeOK, FlowOK, StackOK, WayOut, AskedFirst, [Next]_vars
  PROVE  AskedFirst'
<1> SUFFICES ASSUME NEW b \in Activities, at'[b] \in {"wait", "asleep"}
             PROVE  ~fnd_running'
  BY DEF AskedFirst
<1>1. CASE at[b] \in {"wait", "asleep"}
  BY <1>1, NotRunningStays DEF AskedFirst
<1>2. ASSUME NEW a \in Activities, LeavingStep(a), at[b] \notin {"wait", "asleep"}
      PROVE  Ask(a)
  BY <1>2 DEF LeavingStep, LogEnd, NothingLoaded, CleanLed, Wait, CleanSegment,
              CleanBuzzer, CleanCds, CallsUnloaded, Unload, Exit, Goes, FlowOK
<1>3. ASSUME NEW a \in Activities, Ask(a)
      PROVE  ~fnd_running'
  BY <1>3 DEF Ask
<1>4. ASSUME NEW s \in Signals, Deliver(s)
      PROVE  at'[b] = at[b]
  <2>1. PICK t \in Struckable : \E x \in Top(t) : Strikes(s, t, x)
    BY <1>4 DEF Deliver, Struckable
  <2> QED
    BY <2>1 DEF Strikes
<1>5. CASE MainCalls
  BY <1>5, CallsPlaces
<1>6. CASE Expire
  BY <1>1, <1>6, ExpirePlaces
<1>7. CASE \/ Daemonize \/ InstallHandlers \/ EarlySignal \/ LeaveLoop
           \/ \E cmd \in DOMAIN Commands : Dispatch(cmd)
           \/ WorkersStep \/ Over \/ UNCHANGED vars
  BY <1>1, <1>7, QuietPlaces
<1> QED
  BY <1>1, <1>2, <1>3, <1>4, <1>5, <1>6, <1>7, MainIsActive
  DEF Next, MainStep, HandlerStep, WorkersStep, Activities

(* A mutex that is kept is kept for ever.                                  *)
LEMMA KeptStay ==
  ASSUME TypeOK, [Next]_vars, NEW m \in Mutexes, ~Free(m)
  PROVE  ~Free(m)'
<1>1. mutex[m] # Nobody
  BY DEF Free
<1>2. CASE LocksTwice
  BY <1>1, <1>2 DEF LocksTwice, Makes, Free, TypeOK
<1>3. CASE ControllerLooks \/ \E c \in Countdowns : CountdownRings(c)
  BY <1>1, <1>3 DEF CountdownRings, ControllerLooks, Free, TypeOK, Mutexes, Devices
<1>4. ASSUME NEW s \in Signals, Deliver(s)
      PROVE  mutex'[m] # Nobody
  BY <1>1, <1>4 DEF Deliver, Strikes, TypeOK
<1> QED
  BY <1>1, <1>2, <1>3, <1>4, MutexSteps DEF Free

(* Whoever counts cannot run when a lone shutdown is woken: it is kept out.  *)
LEMMA WokenLate ==
  ASSUME TypeOK, FlowOK, StackOK, FaultOK, ended = "no", ~CountdownPressed,
         NEW b \in Activities, Alone(b), Counting, at[b] = "asleep"
  PROVE  ~Free("segment") \/ ~Free("buzzer")
<1>1. ShouldStop
  BY DEF FaultOK, AskedFirst, ShouldStop
<1>2. PICK c \in Countdowns : Alive(c)
  BY DEF Counting, Counts
<1>3. loaded = "yes"
  <2>1. loaded # "no"
    BY <1>2 DEF FaultOK, NoWorkersYet, Alive, Workers
  <2>2. loaded # "closed"
    <3> SUFFICES ASSUME loaded = "closed"
                 PROVE  FALSE
      OBVIOUS
    <3>1. PICK a \in Activities : at[a] \in AtTheEnd
      BY DEF FaultOK, Closing
    <3> QED
      BY <3>1 DEF Alone, AtTheEnd, Leaving
  <2> QED
    BY <2>1, <2>2 DEF TypeOK
<1>4. Own(c) \notin stopped
  <2> SUFFICES ASSUME Own(c) \in stopped
               PROVE  FALSE
    OBVIOUS
  <2>1. c \in Workers /\ c # "main"
    BY ProcessAssumption DEF Workers
  <2>2. PICK g \in Active, h \in Active : g[1] = "main" /\ h[1] = c
    BY <2>1 DEF StackOK, WorkersStruckLate
  <2>3. g # h /\ at[g] \in Leaving /\ at[h] \in Leaving
    BY <2>1, <2>2 DEF Active, StackOK, HandlersLeave
  <2> QED
    BY <2>3 DEF Alone, Active, Activities
<1>5. worker[c] \in {"start", "run", "ring", "rung"}
  BY <1>2 DEF Alive, TypeOK, WorkerPlaces, Workers
<1> QED
  BY <1>1, <1>3, <1>4, <1>5 DEF CountdownPressed, Pressed, EndIsFree

LEMMA LeavingAlone ==
  ASSUME TypeOK, FlowOK, StackOK, WayOut, FaultOK, NEW b \in Activities,
         LeavingStep(b), Alone(b), Counting'
  PROVE  /\ at'[b] = "segment" => ~Free("segment")' \/ ~Free("buzzer")'
         /\ at'[b] = "buzzer" => ~Free("buzzer")'
         /\ at'[b] \notin {"cds", "unload", "exit"}
<1>1. UNCHANGED <<worker, forgotten, mutex>>
  BY DEF LeavingStep, LogEnd, NothingLoaded, CleanLed, Ask, Wait, CleanSegment,
         CleanBuzzer, CleanCds, CallsUnloaded, Unload, Exit
<1>2. Counting
  BY <1>1 DEF Counting, Counts, Alive
<1>3. /\ at[b] = "segment" => ~Free("segment") \/ ~Free("buzzer")
      /\ at[b] = "buzzer" => ~Free("buzzer")
      /\ at[b] \notin {"cds", "unload", "exit"}
  BY <1>2 DEF FaultOK, OneLeaves
<1>4. \A m : ~Free(m) => ~Free(m)'
  BY <1>1 DEF Free
<1>5. CASE CallsUnloaded(b) \/ Exit(b)
  BY <1>3, <1>4, <1>5 DEF CallsUnloaded, Exit
<1>6. CASE LogEnd(b) \/ CleanLed(b) \/ Ask(b)
  BY <1>6 DEF LogEnd, CleanLed, Ask, Goes, FlowOK
<1>7. CASE NothingLoaded(b)
  BY <1>2, <1>7 DEF NothingLoaded, FaultOK, NoWorkersYet, Counting, Counts, Alive, Workers
<1>8. CASE Wait(b)
  <2>1. at[b] = "wait"
    BY <1>8 DEF Wait, Goes
  <2>2. countdown_tid
    BY <1>2, <2>1 DEF FaultOK, CountsKnown, Alone, PastSegment, Leaving
  <2>3. at'[b] = "asleep"
    BY <1>8, <2>2 DEF Wait, Goes, FlowOK
  <2> QED
    BY <2>3
<1>9. CASE CleanSegment(b)
  <2>1. at'[b] = "buzzer" /\ at[b] = "segment" /\ Free("segment")
    BY <1>9 DEF CleanSegment, Goes, FlowOK
  <2> QED
    BY <1>3, <1>4, <2>1
<1>10. CASE CleanBuzzer(b)
  BY <1>3, <1>10 DEF CleanBuzzer, Goes
<1>11. CASE CleanCds(b) \/ Unload(b)
  BY <1>3, <1>11 DEF CleanCds, Unload, Goes
<1> QED
  BY <1>5, <1>6, <1>7, <1>8, <1>9, <1>10, <1>11 DEF LeavingStep

(* Steps outside of main()'s calls and of the way out let none begin to count. *)
LEMMA OthersKeep ==
  ASSUME TypeOK, Counting',
         \/ Daemonize \/ InstallHandlers \/ EarlySignal \/ LeaveLoop \/ Expire
         \/ \E cmd \in DOMAIN Commands : Dispatch(cmd)
         \/ \E s \in Signals : Deliver(s)
         \/ WorkersStep \/ Over \/ UNCHANGED vars
  PROVE  Counting
<1>1. CASE \/ Daemonize \/ InstallHandlers \/ EarlySignal \/ LeaveLoop \/ Expire
           \/ \E cmd \in DOMAIN Commands : Dispatch(cmd)
           \/ \E s \in Signals : Deliver(s)
  BY <1>1 DEF Daemonize, InstallHandlers, EarlySignal, LeaveLoop, Expire, Dispatch,
              Deliver, Counting, Counts, Alive
<1>2. CASE WorkersStep
  BY <1>2, WorkersKeep
<1>3. CASE Over \/ UNCHANGED vars
  BY <1>3 DEF Over, vars, Counting, Counts, Alive
<1> QED
  BY <1>1, <1>2, <1>3

LEMMA NextOneLeaves ==
  ASSUME TypeOK, FlowOK, StackOK, WayOut, FaultOK, [Next]_vars
  PROVE  OneLeaves'
<1> SUFFICES ASSUME NEW b \in Activities, Alone(b)', Counting'
             PROVE  /\ at'[b] = "segment" => ~Free("segment")' \/ ~Free("buzzer")'
                    /\ at'[b] = "buzzer" => ~Free("buzzer")'
                    /\ at'[b] \notin {"cds", "unload", "exit"}
  BY DEF OneLeaves
<1>1. Alone(b)
  BY PlacesStay DEF Alone
<1>2. \A m \in {"segment", "buzzer"} : ~Free(m) => ~Free(m)'
  BY KeptStay DEF Mutexes, Devices
<1>3. CASE MainCalls
  BY <1>3, CallsPlaces
<1>4. ASSUME NEW a \in Activities, LeavingStep(a)
      PROVE  a = b
  <2>1. at[a] \in Leaving
    BY <1>4, LeavingPlaces
  <2>2. at'[a] \in Leaving
    BY <2>1, PlacesStay
  <2> QED
    BY <2>2 DEF Alone
<1>5. CASE LeavingStep(b)
  BY <1>1, <1>5, LeavingAlone
<1>6. ASSUME Counting, at'[b] = at[b]
      PROVE  /\ at'[b] = "segment" => ~Free("segment")' \/ ~Free("buzzer")'
             /\ at'[b] = "buzzer" => ~Free("buzzer")'
             /\ at'[b] \notin {"cds", "unload", "exit"}
  BY <1>1, <1>2, <1>6 DEF FaultOK, OneLeaves
<1>7. ASSUME NEW s \in Signals, Deliver(s)
      PROVE  at'[b] = at[b] \/ at'[b] \in {"log", "overtaken", "stopped", "caught"}
  <2>1. PICK t \in Struckable : \E x \in Top(t) : Strikes(s, t, x)
    BY <1>7 DEF Deliver, Struckable
  <2> QED
    BY <2>1 DEF Strikes
<1>8. ASSUME NEW s \in Signals, Deliver(s)
      PROVE  Counting
  BY <1>8, OthersKeep
<1>9. CASE Expire
  <2>1. Counting
    BY <1>9, OthersKeep
  <2>2. CASE at[b] = "asleep" /\ at'[b] = "segment"
    BY <1>1, <1>2, <1>9, <2>1, <2>2, WokenLate DEF Expire
  <2> QED
    BY <1>6, <1>9, <2>1, <2>2, ExpirePlaces
<1>10. CASE \/ Daemonize \/ InstallHandlers \/ EarlySignal \/ LeaveLoop
            \/ \E cmd \in DOMAIN Commands : Dispatch(cmd)
            \/ WorkersStep \/ Over \/ UNCHANGED vars
  <2>1. Counting
    BY <1>10, OthersKeep
  <2> QED
    BY <1>6, <1>10, <2>1, QuietPlaces
<1> QED
  BY <1>3, <1>4, <1>5, <1>6, <1>7, <1>8, <1>9, <1>10, MainIsActive
  DEF Next, MainStep, HandlerStep, WorkersStep, Activities

LEMMA NextFaultOK ==
  ASSUME TypeOK, FlowOK, StackOK, WayOut, FaultOK, [Next]_vars
  PROVE  FaultOK'
  BY NextNoWorkers, NextKnown, NextClosing, NextAsked, NextOneLeaves DEF FaultOK

(* Two activities on their way out are more than one.                      *)
LEMMA TwoLeave ==
  ASSUME NEW p, NEW a \in Activities, NEW b \in Activities, a # b,
         p[a] \in Leaving, p[b] \in Leaving
  PROVE  Cardinality({c \in Activities : p[c] \in Leaving}) > 1
<1> DEFINE L == {c \in Activities : p[c] \in Leaving}
<1>1. IsFiniteSet({"main"} \cup Struck)
  <2>1. IsFiniteSet({"main"}) /\ IsFiniteSet({"melody"} \cup {"controller"})
    BY FS_Singleton, FS_Union, Zenon
  <2>2. IsFiniteSet(Countdowns \cup ({"melody"} \cup {"controller"}))
    BY <2>1, ProcessAssumption, FS_Union
  <2>3. Struck \in SUBSET (Countdowns \cup ({"melody"} \cup {"controller"}))
    BY ProcessAssumption DEF Workers
  <2>4. IsFiniteSet(Struck)
    BY <2>2, <2>3, FS_Subset
  <2> QED
    BY <2>1, <2>4, FS_Union
<1>2. IsFiniteSet(Activities)
  <2>1. IsFiniteSet(Handlers)
    BY <1>1, ProcessAssumption, FS_Product DEF Handlers
  <2>2. IsFiniteSet({Main})
    BY FS_Singleton
  <2> QED
    BY <2>1, <2>2, FS_Union DEF Activities
<1>3. IsFiniteSet(L) /\ Cardinality(L) \in Nat
  BY <1>2, FS_Subset, FS_CardinalityType
<1>4. IsFiniteSet({a}) /\ Cardinality({a}) = 1
  BY FS_Singleton
<1>5. Cardinality({a} \cup {b}) = 2
  <2>1. b \notin {a}
    OBVIOUS
  <2>2. Cardinality({a} \cup {b}) = Cardinality({a}) + 1
    BY <1>4, <2>1, FS_AddElement, Zenon
  <2> QED
    BY <1>4, <2>2
<1>6. {a} \cup {b} \in SUBSET L
  OBVIOUS
<1>7. Cardinality({a} \cup {b}) <= Cardinality(L)
  BY <1>3, <1>6, FS_Subset
<1> QED
  BY <1>3, <1>5, <1>7

LEMMA NextFaults ==
  ASSUME TypeOK, FlowOK, StackOK, WayOut, FaultOK, FaultsOnlyUnderWorkers, [Next]_vars
  PROVE  FaultsOnlyUnderWorkers'
<1> DEFINE Crowd == Cardinality({a \in Activities : at[a] \in Leaving}) > 1
<1>1. CASE ended = "faulted"
  <2>1. UNCHANGED vars
    BY <1>1, Frozen
  <2>2. UNCHANGED <<at, worker, forgotten, ended>>
    BY <2>1 DEF vars
  <2> QED
    BY <2>2 DEF FaultsOnlyUnderWorkers, Alive
<1>2. ASSUME NEW a \in Activities, CallsUnloaded(a) \/ Unload(a), ended' = "faulted"
      PROVE  FaultsOnlyUnderWorkers'
  <2>1. /\ loaded = "closed"
        /\ at[a] \in {"led", "ask", "wait", "segment", "buzzer", "cds", "unload"}
    BY <1>2 DEF CallsUnloaded, Unload, Goes
  <2>2. PICK b \in Activities : at[b] \in AtTheEnd
    BY <2>1 DEF FaultOK, Closing
  <2>3. a # b /\ at[a] \in Leaving /\ at[b] \in Leaving
    BY <2>1, <2>2 DEF AtTheEnd, Leaving
  <2>4. at'[a] \in Leaving /\ at'[b] \in Leaving
    BY <2>3, PlacesStay
  <2>5. Crowd'
    BY <2>3, <2>4, TwoLeave
  <2> QED
    BY <2>5 DEF FaultsOnlyUnderWorkers
<1>3. ASSUME NEW w \in Workers, WorkerFaults(w)
      PROVE  FaultsOnlyUnderWorkers'
  <2>1. loaded = "closed" /\ Alive(w) /\ UNCHANGED <<at, worker, forgotten>>
    BY <1>3 DEF WorkerFaults
  <2>2. CASE w \in {"melody", "controller"}
    BY <2>1, <2>2 DEF FaultsOnlyUnderWorkers, Alive
  <2>3. CASE w \in Countdowns /\ w \in forgotten
    BY <2>1, <2>3 DEF FaultsOnlyUnderWorkers, Alive
  <2>4. CASE w \in Countdowns /\ w \notin forgotten
    <3>1. PICK b \in Activities : at[b] \in AtTheEnd
      BY <2>1 DEF FaultOK, Closing
    <3>2. \E a \in Activities \ {b} : at[a] \in Leaving
      <4> SUFFICES ASSUME Alone(b)
                   PROVE  FALSE
        BY DEF Alone
      <4>1. at[b] # "exit"
        BY <2>1, <2>4 DEF FaultOK, OneLeaves, Counting, Counts
      <4>2. b \in stopped
        BY <3>1, <4>1 DEF AtTheEnd, StackOK, HaltedAreStopped, Halted
      <4>3. PICK h \in Active : h \notin stopped
        BY <4>2 DEF StackOK, OneOnTop
      <4> QED
        BY <4>2, <4>3
        DEF Alone, Active, Activities, StackOK, HandlersLeave
    <3>3. PICK a \in Activities \ {b} : at[a] \in Leaving
      BY <3>2
    <3>4. Crowd
      BY <3>1, <3>3, TwoLeave DEF AtTheEnd, Leaving
    <3> QED
      BY <2>1, <3>4 DEF FaultsOnlyUnderWorkers
  <2> QED
    BY <2>2, <2>3, <2>4 DEF Workers
<1> QED
  BY <1>1, <1>2, <1>3, EndSteps DEF FaultsOnlyUnderWorkers

(* Unloading the libraries is fatal only with a melody or a controller alive, or
   a countdown whose flags a command or the end of an older countdown cleared, or
   during two shutdowns at once: the wait of fnd_cleanup is enough for every
   countdown whose flags are its own, however many there are, wherever a single
   shutdown begins and whatever devices are missing.                       *)
THEOREM WaitProtectsCountdown == Spec => []FaultsOnlyUnderWorkers
<1> DEFINE Inv == TypeOK /\ FlowOK /\ WayOut /\ ShutdownOK /\ FaultOK
                    /\ FaultsOnlyUnderWorkers
<1>1. Init => Inv
  BY InitIsTyped, InitWayOut, InitShutdown, InitFaults
<1>2. Inv /\ [Next]_vars => Inv'
  BY NextIsTyped, NextWayOut, NextShutdown, NextFaultOK, NextFaults DEF ShutdownOK
<1>3. Inv => FaultsOnlyUnderWorkers
  OBVIOUS
<1> QED
  BY <1>1, <1>2, <1>3, PTL DEF Spec
=============================================================================
