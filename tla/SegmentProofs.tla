--------------------------- MODULE SegmentProofs ---------------------------
(***************************************************************************)
(* Theorems about Segment, for any number of countdowns, any timing and    *)
(* any lengths of the delays.                                              *)
(***************************************************************************)
EXTENDS Segment, TLAPS

(* A thread waits between digits only while there is a digit left: its loop
   variable indexes number_patterns within bounds.                         *)
WaitsAboveZero == \A t \in Countdowns : countdown[t] = "poll" => i[t] > 0

(* The inductive form of TypeOK.                                           *)
TypeInv == TypeOK /\ WaitsAboveZero

LEMMA ConstantTypes ==
  /\ 0 \in Digits /\ Digits \subseteq Nat
  /\ MaxPolls \in Nat
  /\ 0 \in 0 .. MaxPolls
  /\ PollsPerDigit \in 0 .. MaxPolls
  /\ PollsPerRing \in 0 .. MaxPolls
  BY SegmentAssumption DEF SegmentAssumption, Digits, MaxPolls

LEMMA InitTypeInv == Init => TypeInv
<1> SUFFICES ASSUME Init
             PROVE  TypeInv
  OBVIOUS
<1> USE ConstantTypes DEF Init
<1>1. request \in Requests
  BY DEF NoRequest, Requests, Commands
<1>2. i \in [Countdowns -> Digits] /\ left \in [Countdowns -> 0 .. MaxPolls]
  OBVIOUS
<1>3. nap \in [Countdowns -> 0 .. 1] /\ sleeping \in Nat
  OBVIOUS
<1>4. countdown \in [Countdowns -> CountdownPlaces] /\ WaitsAboveZero
  BY DEF CountdownPlaces, WaitsAboveZero
<1> QED
  BY <1>1, <1>2, <1>3, <1>4 DEF TypeInv, TypeOK, MainPlaces

(* A command that enters the library, with an argument in range.           *)
CommandEnter(n) ==
  \/ DisplayEnter(n) \/ CountdownEnter(n) \/ OffEnter \/ StopEnter
  \/ CleanupEnter

(* What creating a countdown from n, or failing to, makes of the threads.  *)
LEMMA CreatesTypeInv ==
  ASSUME TypeInv, NEW n \in Digits, NEW handle \in Countdowns \cup {NoThread, Stray},
         Creates(n, handle)
  PROVE  /\ countdown' \in [Countdowns -> CountdownPlaces]
         /\ i' \in [Countdowns -> Digits]
         /\ countdown_tid' \in Countdowns \cup {NoThread, Stray}
         /\ WaitsAboveZero'
  BY DEF Creates, TypeInv, TypeOK, WaitsAboveZero, CountdownPlaces

LEMMA TakesTypeInv ==
  ASSUME TypeInv, NEW n \in Digits, NEW o \in Commands, Takes(o, n)
  PROVE  request' \in Requests
  BY ConstantTypes DEF Takes, TypeInv, TypeOK, Requests, NoRequest, Alone, Commands

LEMMA CommandTypeInv ==
  ASSUME TypeInv, NEW n \in Digits, CommandEnter(n)
  PROVE  TypeInv'
<1> USE DEF TypeInv, TypeOK, flags, threads, main
<1>0. 0 \in Digits
  BY ConstantTypes
<1>1. CASE DisplayEnter(n)
  <2>1. request' \in Requests
    BY <1>1, TakesTypeInv DEF DisplayEnter, Commands
  <2> QED
    BY <1>1, <2>1 DEF DisplayEnter, LocksTwice, Interrupts, WaitsAboveZero,
       MainPlaces
<1>2. CASE CountdownEnter(n)
  <2>1. request' \in Requests
    BY <1>2, TakesTypeInv DEF CountdownEnter, Commands
  <2>2. CASE is_initialized /\ ~Interruptible
    BY <1>2, <2>1, <2>2, CreatesTypeInv DEF CountdownEnter, WaitsAboveZero
  <2>3. CASE ~(is_initialized /\ ~Interruptible)
    BY <1>2, <2>1, <2>3 DEF CountdownEnter, LocksTwice, Interrupts,
       WaitsAboveZero, MainPlaces
  <2> QED
    BY <2>2, <2>3
<1>3. CASE OffEnter
  <2>1. request' \in Requests
    BY <1>0, <1>3, TakesTypeInv DEF OffEnter, Commands
  <2> QED
    BY <1>3, <2>1 DEF OffEnter, Interrupts, ShowsIfReady, WaitsAboveZero, MainPlaces
<1>4. CASE StopEnter
  <2>1. request' \in Requests
    BY <1>0, <1>4, TakesTypeInv DEF StopEnter, Commands
  <2> QED
    BY <1>4, <2>1, SegmentAssumption DEF StopEnter, Interrupts, WaitsAboveZero,
       MainPlaces, SegmentAssumption
<1>5. CASE CleanupEnter
  <2>1. request' \in Requests
    BY <1>0, <1>5, TakesTypeInv DEF CleanupEnter, Commands
  <2> QED
    BY <1>5, <2>1 DEF CleanupEnter, WaitsAboveZero, MainPlaces
<1> QED
  BY <1>1, <1>2, <1>3, <1>4, <1>5 DEF CommandEnter

LEMMA MainTypeInv ==
  ASSUME TypeInv, FndInit \/ MainInside
  PROVE  TypeInv'
<1> USE DEF TypeInv, TypeOK, flags, threads, main
<1>1. CASE FndInit
  BY <1>1, SegmentAssumption DEF FndInit, WaitsAboveZero, MainPlaces,
     SegmentAssumption
<1>2. CASE Join
  BY <1>2 DEF Join, WaitsAboveZero, MainPlaces
<1>3. CASE Relock
  <2>1. request' \in Requests
    BY <1>3, ConstantTypes DEF Relock, Requests
  <2>2. request.number \in Digits
    BY DEF Requests
  <2>3. CASE request.op = "countdown"
    BY <1>3, <2>1, <2>2, <2>3, CreatesTypeInv DEF Relock, WaitsAboveZero, MainPlaces
  <2>4. CASE request.op # "countdown"
    BY <1>3, <2>1, <2>2, <2>4 DEF Relock, ForgetCountdown, ShowsIfReady,
       WaitsAboveZero, MainPlaces
  <2> QED
    BY <2>3, <2>4
<1>4. CASE StopWake
  BY <1>4 DEF StopWake, ForgetCountdown, ShowsIfReady, WaitsAboveZero, MainPlaces
<1>5. CASE CleanupPeek
  BY <1>5, SegmentAssumption DEF CleanupPeek, WaitsAboveZero, MainPlaces,
     SegmentAssumption
<1>6. CASE CleanupRelease
  BY <1>6 DEF CleanupRelease, ForgetCountdown, ShowsIfReady, WaitsAboveZero,
     MainPlaces
<1> QED
  BY <1>1, <1>2, <1>3, <1>4, <1>5, <1>6 DEF MainInside

LEMMA CountdownTypeInv ==
  ASSUME TypeInv, NEW t \in Countdowns, CountdownStep(t)
  PROVE  TypeInv'
<1> USE ConstantTypes DEF TypeInv, TypeOK, flags, threads, main, Goes,
      WaitsAboveZero, CountdownPlaces
<1>1. CASE Start(t)
  BY <1>1 DEF Start
<1>2. CASE Top(t)
  BY <1>2 DEF Top
<1>3. CASE Show(t)
  BY <1>3 DEF Show, ShowsIfReady
<1>4. CASE Poll(t)
  <2>1. i[t] \in 1 .. MaxDigit /\ i[t] - 1 \in Digits
    BY <1>4, SegmentAssumption DEF Poll, Digits, SegmentAssumption
  <2>2. CASE countdown'[t] = "top"
    BY <1>4, <2>1, <2>2 DEF Poll
  <2>3. CASE countdown'[t] = "poll"
    <3>1. left[t] > 1 => left[t] - 1 \in 0 .. MaxPolls
      OBVIOUS
    <3> QED
      BY <1>4, <2>3, <3>1 DEF Poll
  <2> QED
    BY <1>4, <2>2, <2>3 DEF Poll
<1>5. CASE Zero(t)
  BY <1>5, SegmentAssumption DEF Zero, SegmentAssumption
<1>6. CASE CallPlay(t)
  <2>1. CASE crashed'
    BY <1>6, <2>1 DEF CallPlay
  <2>2. CASE ~crashed'
    <3>1. left' \in [Countdowns -> 0 .. MaxPolls]
      BY <1>6, <2>2 DEF CallPlay
    <3>2. nap' \in [Countdowns -> 0 .. 1]
      BY <1>6, <2>2 DEF CallPlay
    <3> QED
      BY <1>6, <2>2, <3>1, <3>2 DEF CallPlay
  <2> QED
    BY <2>1, <2>2
<1>7. CASE Ring(t)
  <2>1. left[t] > 1 => left[t] - 1 \in 0 .. MaxPolls
    OBVIOUS
  <2> QED
    BY <1>7, <2>1 DEF Ring
<1>8. CASE Hush(t)
  BY <1>8 DEF Hush
<1>9. CASE BlankOut(t)
  BY <1>9 DEF BlankOut, ShowsIfReady
<1>10. CASE Finish(t)
  BY <1>10 DEF Finish, ForgetCountdown
<1> QED
  BY <1>1, <1>2, <1>3, <1>4, <1>5, <1>6, <1>7, <1>8, <1>9, <1>10
  DEF CountdownStep

LEMMA ElapseTypeInv ==
  ASSUME TypeInv, Elapse
  PROVE  TypeInv'
<1>1. nap' \in [Countdowns -> 0 .. 1] /\ sleeping' \in Nat
  BY DEF Elapse, Napping, TypeInv, TypeOK
<1> QED
  BY <1>1 DEF Elapse, TypeInv, TypeOK, WaitsAboveZero, flags

LEMMA NextTypeInv == TypeInv /\ [Next]_vars => TypeInv'
<1> SUFFICES ASSUME TypeInv, [Next]_vars
             PROVE  TypeInv'
  OBVIOUS
<1>1. CASE UNCHANGED vars
  BY <1>1 DEF vars, flags, threads, main, TypeInv, TypeOK, WaitsAboveZero
<1> QED
  BY <1>1, ConstantTypes, CommandTypeInv, MainTypeInv, CountdownTypeInv,
     ElapseTypeInv DEF Next, CommandEnter, Ended

(* In every reachable state the variables have their types, and a countdown
   shows only numbers that number_patterns has.                            *)
THEOREM TypeCorrect == Spec => [](TypeOK /\ WaitsAboveZero)
  BY InitTypeInv, NextTypeInv, PTL DEF Spec, TypeInv

-----------------------------------------------------------------------------
(* Which steps touch a thread's life, the handle and the flag.             *)

LEMMA CommandTidIsLive ==
  ASSUME TypeInv, TidIsLive, NEW n \in Digits, CommandEnter(n)
  PROVE  TidIsLive'
<1> USE DEF TypeInv, TypeOK, TidIsLive, Live, flags, threads
<1>1. CASE UNCHANGED <<countdown, countdown_tid>>
  BY <1>1
<1>2. CASE CountdownEnter(n) /\ Creates(n, countdown_tid)
  BY <1>2, SegmentAssumption DEF Creates, SegmentAssumption
<1> QED
  BY <1>1, <1>2 DEF CommandEnter, DisplayEnter, CountdownEnter, OffEnter,
     StopEnter, CleanupEnter, LocksTwice, Interrupts

LEMMA MainTidIsLive ==
  ASSUME TypeInv, TidIsLive, FndInit \/ MainInside
  PROVE  TidIsLive'
<1> USE DEF TypeInv, TypeOK, TidIsLive, Live, flags, threads
<1>1. CASE UNCHANGED countdown /\ countdown_tid' \in {countdown_tid, NoThread}
  BY <1>1, SegmentAssumption DEF SegmentAssumption
<1>2. CASE Relock /\ Creates(request.number, NoThread)
  BY <1>2, SegmentAssumption DEF Creates, SegmentAssumption
<1> QED
  BY <1>1, <1>2 DEF FndInit, MainInside, Join, Relock, StopWake, CleanupPeek,
     CleanupRelease, ForgetCountdown

LEMMA CountdownTidIsLive ==
  ASSUME TypeInv, TidIsLive, NEW t \in Countdowns, CountdownStep(t)
  PROVE  TidIsLive'
<1> USE DEF TypeInv, TypeOK, TidIsLive, Live, flags, threads, Goes
<1>1. CASE Finish(t)
  BY <1>1, SegmentAssumption DEF SegmentAssumption, Finish, ForgetCountdown
<1>2. CASE ~Finish(t)
  <2>1. countdown_tid' = countdown_tid
    BY <1>2 DEF CountdownStep, Start, Top, Show, Poll, Zero, CallPlay, Ring,
       Hush, BlankOut
  <2>2. \A u \in Countdowns : countdown[u] # "none" => countdown'[u] # "none"
    BY <1>2 DEF CountdownStep, Start, Top, Show, Poll, Zero, CallPlay, Ring,
       Hush, BlankOut
  <2> QED
    BY <2>1, <2>2
<1> QED
  BY <1>1, <1>2

(* The handle of a thread that is over is never left in countdown_tid, although
   it is overwritten and cleared by threads and by commands that know nothing
   of each other: a handle that dangles can only be one that a pthread_create
   stored before it failed.                                                *)
THEOREM HandleIsLive == Spec => []TidIsLive
<1>1. Init => TidIsLive
  BY SegmentAssumption DEF SegmentAssumption, Init, TidIsLive
<1>2. TypeInv /\ TidIsLive /\ [Next]_vars => TidIsLive'
  <2> SUFFICES ASSUME TypeInv, TidIsLive, [Next]_vars
               PROVE  TidIsLive'
    OBVIOUS
  <2>1. CASE Elapse \/ UNCHANGED vars
    BY <2>1 DEF Elapse, vars, flags, threads, TidIsLive, Live
  <2> QED
    BY <2>1, ConstantTypes, CommandTidIsLive, MainTidIsLive, CountdownTidIsLive
    DEF Next, CommandEnter, Ended
<1> QED
  BY <1>1, <1>2, InitTypeInv, NextTypeInv, PTL DEF Spec

-----------------------------------------------------------------------------
Started == {t \in Countdowns : countdown[t] \notin {"none", "start"}}

(* While the flag is set, no command lets a started countdown go: creating
   one touches only threads that have not started.                         *)
LEMMA OthersKeepStarted ==
  ASSUME TypeInv, FndInit \/ MainInside \/ Elapse \/
                  \E n \in Digits : CommandEnter(n)
  PROVE  Started \subseteq Started' /\ (is_counting' => is_counting)
<1> USE DEF TypeInv, TypeOK, Started, flags, threads
<1>1. CASE FndInit \/ Elapse
  BY <1>1 DEF FndInit, Elapse
<1>2. CASE MainInside
  BY <1>2 DEF MainInside, Join, Relock, StopWake, CleanupPeek, CleanupRelease,
     ForgetCountdown, Creates
<1>3. CASE \E n \in Digits : CommandEnter(n)
  BY <1>3 DEF CommandEnter, DisplayEnter, CountdownEnter, OffEnter, StopEnter,
     CleanupEnter, LocksTwice, Interrupts, Creates
<1> QED
  BY <1>1, <1>2, <1>3

LEMMA CountdownCountingHasThread ==
  ASSUME TypeInv, CountingHasThread, NEW t \in Countdowns, CountdownStep(t)
  PROVE  CountingHasThread'
<1> USE DEF TypeInv, TypeOK, CountingHasThread, flags, threads, Goes
<1>1. CASE Finish(t)
  BY <1>1 DEF Finish, ForgetCountdown
<1>2. CASE Start(t)
  BY <1>2 DEF Start
<1>3. CASE ~Finish(t) /\ ~Start(t)
  <2>1. is_counting' = is_counting
    BY <1>3 DEF CountdownStep, Top, Show, Poll, Zero, CallPlay, Ring, Hush,
       BlankOut
  <2>2. \A u \in Countdowns : countdown[u] \notin {"none", "start"} =>
                               countdown'[u] \notin {"none", "start"}
    BY <1>3 DEF CountdownStep, Top, Show, Poll, Zero, CallPlay, Ring, Hush,
       BlankOut
  <2> QED
    BY <2>1, <2>2
<1> QED
  BY <1>1, <1>2, <1>3

(* "COUNTING" is never a stale answer.                                     *)
THEOREM CountingIsBacked == Spec => []CountingHasThread
<1>1. Init => CountingHasThread
  BY DEF Init, CountingHasThread
<1>2. TypeInv /\ CountingHasThread /\ [Next]_vars => CountingHasThread'
  <2> SUFFICES ASSUME TypeInv, CountingHasThread, [Next]_vars
               PROVE  CountingHasThread'
    OBVIOUS
  <2>1. CASE UNCHANGED vars
    BY <2>1 DEF vars, flags, threads, CountingHasThread
  <2>2. CASE Started \subseteq Started' /\ (is_counting' => is_counting)
    BY <2>2 DEF Started, CountingHasThread
  <2> QED
    BY <2>1, <2>2, ConstantTypes, OthersKeepStarted, CountdownCountingHasThread
    DEF Next, CommandEnter, Ended
<1> QED
  BY <1>1, <1>2, InitTypeInv, NextTypeInv, PTL DEF Spec

-----------------------------------------------------------------------------
(* The inductive form of NoStaleStopRequest: nothing is asked to stop before
   fnd_init either.                                                        *)
NoRequestAtRest == at \in {"boot", "idle"} => ~countdown_stop_requested

(* Every command that raises the request clears it before it returns, and a
   countdown thread can only clear it.                                     *)
THEOREM RequestsDoNotOutlive == Spec => []NoStaleStopRequest
<1>1. Init => NoRequestAtRest
  BY DEF Init, NoRequestAtRest
<1>2. NoRequestAtRest /\ [Next]_vars => NoRequestAtRest'
  <2> SUFFICES ASSUME NoRequestAtRest, [Next]_vars
               PROVE  NoRequestAtRest'
    OBVIOUS
  <2> USE DEF NoRequestAtRest, flags, threads, main
  <2>1. ASSUME NEW n \in Digits, CommandEnter(n)
        PROVE  NoRequestAtRest'
    BY <2>1 DEF CommandEnter, DisplayEnter, CountdownEnter, OffEnter, StopEnter,
       CleanupEnter, LocksTwice, Interrupts
  <2>2. CASE FndInit \/ MainInside
    BY <2>2 DEF FndInit, MainInside, Join, Relock, StopWake, CleanupPeek,
       CleanupRelease, ForgetCountdown
  <2>3. ASSUME NEW t \in Countdowns, CountdownStep(t)
        PROVE  NoRequestAtRest'
    BY <2>3 DEF CountdownStep, Start, Top, Show, Poll, Zero, CallPlay, Ring,
       Hush, BlankOut, Finish, ForgetCountdown
  <2>4. CASE Elapse \/ UNCHANGED vars
    BY <2>4 DEF Elapse, vars
  <2> QED
    BY <2>1, <2>2, <2>3, <2>4, ConstantTypes DEF Next, CommandEnter, Ended
<1>3. NoRequestAtRest => NoStaleStopRequest
  BY DEF NoRequestAtRest, NoStaleStopRequest
<1> QED
  BY <1>1, <1>2, <1>3, PTL DEF Spec

-----------------------------------------------------------------------------
(* With a prompt scheduler the sleeps of fnd_stop and fnd_cleanup are long
   enough.  The inductive invariant, clause by clause.                     *)

(* A thread in delay() is in one of the two wait loops.                    *)
NapsInLoops == \A t \in Countdowns : nap[t] > 0 => countdown[t] \in {"poll", "ring"}

(* Nothing but an initialised display is ever lit.                         *)
DarkUnlessReady ==
  /\ at = "boot" => ~is_initialized
  /\ display # Blank => is_initialized
  /\ at \in {"join", "relock"} /\ request.op = "display" => is_initialized

(* A thread that is about to call the buzzer can: only fnd_cleanup closes it. *)
BuzzerStaysOpen ==
  \A t \in Countdowns :
    /\ at = "boot" => ~Live(t)
    /\ countdown[t] = "call" => buzzer_lib \/ at = "gone"

(* Where main waits, for which command, and what fnd_cleanup has told.     *)
WaitsForCommand ==
  /\ at = "boot" => ~request.lone
  /\ at = "sleep" => request.op \in {"stop", "cleanup"}
  /\ at \in {"peek", "release"} => request.op = "cleanup"
  /\ at \in {"peek", "release", "sleep"} /\ request.op = "cleanup" => ~running

(* Main has interrupted the only countdown, and has not woken up yet.      *)
LoneWait == request.lone /\ at \in {"peek", "sleep", "release"}

StaysAlone ==
  LoneWait => \A t, u \in Countdowns : Live(t) /\ Live(u) => t = u

(* While main is about to look, the countdown can be seen.                 *)
StaysKnown ==
  LoneWait /\ at = "peek" => \A t \in Countdowns : Live(t) => Known

(* While main sleeps, the countdown cannot miss what it is told.           *)
StaysTold ==
  LoneWait /\ at = "sleep" =>
    \A t \in Countdowns :
      Live(t) => /\ ShouldStop
                 /\ request.op = "stop" => countdown[t] # "start"

(* ... and the sleep is longer than what the countdown may still doze: a
   delay(100) it is in, or is on its way to because it looked before it was
   told.                                                                   *)
SleepsLonger ==
  LoneWait /\ at = "sleep" =>
    \A t \in Countdowns :
      Live(t) =>
        /\ sleeping > 0
        /\ nap[t] > 0 \/ countdown[t] \in {"show", "zero", "call"}
             => sleeping > 1

(* What main finds when it goes on.                                        *)
OverThen ==
  request.lone =>
    /\ at = "release" => \A t \in Countdowns : ~Live(t)
    /\ (at = "idle" /\ request.op = "stop") \/ at = "gone" =>
         display = Blank /\ \A t \in Countdowns : ~Live(t)
    /\ at = "gone" => ~crashed

(* The clauses that need no promptness, and those that do.                 *)
Places == NapsInLoops /\ DarkUnlessReady /\ BuzzerStaysOpen /\ WaitsForCommand
Lonely == StaysAlone /\ StaysKnown /\ StaysTold
Timely == SleepsLonger /\ OverThen

LEMMA CommandKeepsPlaces ==
  ASSUME TypeInv, Places, NEW n \in Digits, CommandEnter(n)
  PROVE  Places'
<1> USE DEF TypeInv, TypeOK, Places, NapsInLoops, DarkUnlessReady,
      BuzzerStaysOpen, WaitsForCommand, Live, Takes, NoRequest, flags, threads
<1>1. CASE DisplayEnter(n)
  BY <1>1 DEF DisplayEnter, LocksTwice, Interrupts
<1>2. CASE CountdownEnter(n)
  <2>1. \A t \in Countdowns : \/ countdown'[t] = countdown[t]
                              \/ countdown'[t] = "start" /\ countdown[t] = "none"
    BY <1>2 DEF CountdownEnter, LocksTwice, Interrupts, Creates
  <2> QED
    BY <1>2, <2>1 DEF CountdownEnter, LocksTwice, Interrupts
<1>3. CASE OffEnter
  BY <1>3 DEF OffEnter, Interrupts, ShowsIfReady
<1>4. CASE StopEnter
  BY <1>4 DEF StopEnter, Interrupts
<1>5. CASE CleanupEnter
  BY <1>5 DEF CleanupEnter
<1> QED
  BY <1>1, <1>2, <1>3, <1>4, <1>5 DEF CommandEnter

LEMMA MainKeepsPlaces ==
  ASSUME TypeInv, Places, FndInit \/ MainInside
  PROVE  Places'
<1> USE DEF TypeInv, TypeOK, Places, NapsInLoops, DarkUnlessReady,
      BuzzerStaysOpen, WaitsForCommand, Live, flags, threads, main
<1>1. CASE FndInit
  BY <1>1 DEF FndInit
<1>2. CASE Join
  BY <1>2 DEF Join
<1>3. CASE Relock
  <2>1. \A t \in Countdowns : \/ countdown'[t] = countdown[t]
                              \/ countdown'[t] = "start" /\ countdown[t] = "none"
    BY <1>3 DEF Relock, Creates
  <2>2. request'.op = request.op
    BY <1>3 DEF Relock, Requests
  <2> QED
    BY <1>3, <2>1, <2>2 DEF Relock, ShowsIfReady
<1>4. CASE StopWake
  BY <1>4 DEF StopWake, ShowsIfReady
<1>5. CASE CleanupPeek
  BY <1>5 DEF CleanupPeek
<1>6. CASE CleanupRelease
  BY <1>6 DEF CleanupRelease, ShowsIfReady
<1> QED
  BY <1>1, <1>2, <1>3, <1>4, <1>5, <1>6 DEF MainInside

LEMMA CountdownKeepsPlaces ==
  ASSUME TypeInv, Places, NEW t \in Countdowns, CountdownStep(t)
  PROVE  Places'
<1> USE DEF TypeInv, TypeOK, Places, NapsInLoops, DarkUnlessReady,
      BuzzerStaysOpen, WaitsForCommand, Live, flags, threads, main, Goes
<1>1. CASE Start(t)
  BY <1>1 DEF Start
<1>2. CASE Top(t)
  BY <1>2 DEF Top
<1>3. CASE Show(t)
  BY <1>3 DEF Show, ShowsIfReady
<1>4. CASE Poll(t)
  BY <1>4 DEF Poll
<1>5. CASE Zero(t)
  BY <1>5 DEF Zero
<1>6. CASE CallPlay(t)
  BY <1>6 DEF CallPlay
<1>7. CASE Ring(t)
  BY <1>7 DEF Ring
<1>8. CASE Hush(t)
  BY <1>8 DEF Hush
<1>9. CASE BlankOut(t)
  BY <1>9 DEF BlankOut, ShowsIfReady
<1>10. CASE Finish(t)
  BY <1>10 DEF Finish, ForgetCountdown
<1> QED
  BY <1>1, <1>2, <1>3, <1>4, <1>5, <1>6, <1>7, <1>8, <1>9, <1>10
  DEF CountdownStep

LEMMA ElapseKeepsPlaces ==
  ASSUME TypeInv, Places, Elapse
  PROVE  Places'
  BY DEF TypeInv, TypeOK, Places, NapsInLoops, DarkUnlessReady, BuzzerStaysOpen,
     WaitsForCommand, Live, Elapse, Napping, flags

LEMMA CommandKeepsTimely ==
  ASSUME TypeInv, CountingHasThread, Places, Lonely,
         NEW n \in Digits, CommandEnter(n)
  PROVE  Lonely' /\ (Timely => Timely')
<1> USE DEF TypeInv, TypeOK, Lonely, Timely, StaysAlone, StaysKnown, StaysTold,
      SleepsLonger, OverThen, LoneWait, Live, flags, threads
<1>1. CASE DisplayEnter(n) \/ CountdownEnter(n) \/ OffEnter
  BY <1>1 DEF DisplayEnter, CountdownEnter, OffEnter, LocksTwice, Interrupts,
     Takes, NoRequest
<1>2. CASE StopEnter
  <2>1. CASE ~Interruptible
    BY <1>2, <2>1 DEF StopEnter, Takes, NoRequest
  <2>2. CASE Interruptible
    <3>1. request'.op = "stop" /\ (request'.lone => Alone)
      BY <1>2, <2>2 DEF StopEnter, Takes
    <3>2. PICK t \in Countdowns : countdown[t] \notin {"none", "start"}
      BY <2>2 DEF CountingHasThread, Interruptible
    <3>3. Alone => \A u \in Countdowns : Live(u) => u = t
      BY <3>2 DEF Alone
    <3> QED
      BY <1>2, <2>2, <3>1, <3>2, <3>3, SegmentAssumption
      DEF StopEnter, Interrupts, ShouldStop, SegmentAssumption
  <2> QED
    BY <2>1, <2>2
<1>3. CASE CleanupEnter
  <2>1. request'.lone => Alone /\ Known
    BY <1>3 DEF CleanupEnter, Takes
  <2> QED
    BY <1>3, <2>1 DEF CleanupEnter, Alone, Known
<1> QED
  BY <1>1, <1>2, <1>3 DEF CommandEnter

LEMMA MainKeepsTimely ==
  ASSUME TypeInv, Places, Lonely, FndInit \/ MainInside
  PROVE  Lonely' /\ (Timely => Timely')
<1> USE DEF TypeInv, TypeOK, Places, WaitsForCommand, Lonely, Timely, StaysAlone,
      StaysKnown, StaysTold, SleepsLonger, OverThen, LoneWait, Live, flags,
      threads, main
<1>1. CASE FndInit
  BY <1>1 DEF FndInit
<1>2. CASE Join
  BY <1>2 DEF Join
<1>3. CASE Relock
  <2>1. request'.op = request.op
    BY <1>3 DEF Relock, Requests
  <2> QED
    BY <1>3, <2>1 DEF Relock
<1>4. CASE StopWake
  BY <1>4 DEF StopWake, ShowsIfReady, DarkUnlessReady
<1>5. CASE CleanupPeek
  BY <1>5, SegmentAssumption DEF CleanupPeek, ShouldStop, SegmentAssumption
<1>6. CASE CleanupRelease
  BY <1>6 DEF CleanupRelease, ShowsIfReady, DarkUnlessReady
<1> QED
  BY <1>1, <1>2, <1>3, <1>4, <1>5, <1>6 DEF MainInside

(* While main waits for it, the countdown that is left does as it is told.  *)
LEMMA CountdownKeepsTimely ==
  ASSUME TypeInv, Places, Lonely, NEW t \in Countdowns, CountdownStep(t)
  PROVE  Lonely' /\ (Timely => Timely')
<1> USE DEF TypeInv, TypeOK, Places, NapsInLoops, WaitsForCommand, Lonely,
      Timely, StaysAlone, StaysKnown, StaysTold, SleepsLonger, OverThen, LoneWait, Live,
      flags, threads, main, Goes, Known, ShouldStop
<1>1. CASE Start(t)
  BY <1>1 DEF Start
<1>2. CASE Top(t)
  BY <1>2 DEF Top
<1>3. CASE Show(t)
  BY <1>3 DEF Show, ShowsIfReady
<1>4. CASE Poll(t)
  BY <1>4 DEF Poll
<1>5. CASE Zero(t)
  BY <1>5 DEF Zero
<1>6. CASE CallPlay(t)
  BY <1>6 DEF CallPlay
<1>7. CASE Ring(t)
  BY <1>7 DEF Ring
<1>8. CASE Hush(t)
  BY <1>8 DEF Hush
<1>9. CASE BlankOut(t)
  BY <1>9 DEF BlankOut, ShowsIfReady
<1>10. CASE Finish(t)
  BY <1>10 DEF Finish, ForgetCountdown
<1> QED
  BY <1>1, <1>2, <1>3, <1>4, <1>5, <1>6, <1>7, <1>8, <1>9, <1>10
  DEF CountdownStep

(* Time passes only while the countdown dozes, too, and then it has a tick
   less to doze than main has to sleep.                                    *)
LEMMA ElapseKeepsTimely ==
  ASSUME TypeInv, Places, Lonely, Elapse
  PROVE  Lonely' /\ (Punctual /\ Timely => Timely')
<1> USE DEF TypeInv, TypeOK, Places, NapsInLoops, WaitsForCommand, Lonely,
      Timely, StaysAlone, StaysKnown, StaysTold, SleepsLonger, OverThen, LoneWait, Live,
      flags, Known, ShouldStop
<1>1. Lonely'
  BY DEF Elapse
<1>2. ASSUME Punctual, Timely
      PROVE  Timely'
  <2>1. ~MainRunnable /\ \A t \in Countdowns : Live(t) => nap[t] > 0
    BY <1>2 DEF Elapse, CountdownRunnable
  <2>2. nap' = [t \in Countdowns |-> IF nap[t] > 0 THEN nap[t] - 1 ELSE nap[t]]
    BY <1>2 DEF Elapse, Napping
  <2>3. \A t \in Countdowns : Live(t) => nap'[t] = 0
    BY <2>1, <2>2
  <2>4. sleeping > 0 => sleeping' = sleeping - 1
    BY <1>2 DEF Elapse
  <2>5. at \notin {"peek", "release"}
    BY <2>1 DEF MainRunnable
  <2> QED
    BY <1>2, <2>1, <2>3, <2>4, <2>5 DEF Elapse
<1> QED
  BY <1>1, <1>2

(* The invariant of the two sleeps.                                        *)
SleepInv == Places /\ Lonely /\ (Punctual => Timely)

LEMMA InitSleepInv == Init => SleepInv
  BY DEF Init, SleepInv, Places, NapsInLoops, DarkUnlessReady, BuzzerStaysOpen,
     WaitsForCommand, Lonely, Timely, StaysAlone, StaysKnown, StaysTold, SleepsLonger,
     OverThen, LoneWait, Live, NoRequest

LEMMA NextSleepInv ==
  TypeInv /\ CountingHasThread /\ SleepInv /\ [Next]_vars => SleepInv'
<1> SUFFICES ASSUME TypeInv, CountingHasThread, SleepInv, [Next]_vars
             PROVE  SleepInv'
  OBVIOUS
<1> USE DEF SleepInv
<1>1. ASSUME NEW n \in Digits, CommandEnter(n)
      PROVE  SleepInv'
  BY <1>1, CommandKeepsPlaces, CommandKeepsTimely
<1>2. CASE FndInit \/ MainInside
  BY <1>2, MainKeepsPlaces, MainKeepsTimely
<1>3. ASSUME NEW t \in Countdowns, CountdownStep(t)
      PROVE  SleepInv'
  BY <1>3, CountdownKeepsPlaces, CountdownKeepsTimely
<1>4. CASE Elapse
  BY <1>4, ElapseKeepsPlaces, ElapseKeepsTimely
<1>5. CASE UNCHANGED vars
  BY <1>5
  DEF vars, flags, threads, main, Places, NapsInLoops, DarkUnlessReady,
      BuzzerStaysOpen, WaitsForCommand, Lonely, Timely, StaysAlone, StaysKnown, StaysTold,
      SleepsLonger, OverThen, LoneWait, Live, Known, ShouldStop
<1> QED
  BY <1>1, <1>2, <1>3, <1>4, <1>5, ConstantTypes DEF Next, CommandEnter, Ended

LEMMA SpecSleepInv == Spec => []SleepInv
  BY InitSleepInv, NextSleepInv, InitTypeInv, NextTypeInv, CountingIsBacked,
     PTL DEF Spec

(* The second that fnd_stop sleeps is enough, whatever the lengths, as long as
   it is longer than one poll: a countdown that was alone is over, and the
   display dark, when SEGMENT_STOP returns, and until the next command.    *)
THEOREM StopIsLongEnough == Spec => []StopEndsLoneCountdown
<1>1. SleepInv => StopEndsLoneCountdown
  BY DEF SleepInv, Timely, OverThen, StopEndsLoneCountdown
<1> QED
  BY <1>1, SpecSleepInv, PTL

(* So are the two seconds of fnd_cleanup, also for a countdown that has only
   been created or is about to call the buzzer, which goes next.           *)
THEOREM CleanupIsLongEnough == Spec => []CleanupEndsLoneCountdown
<1>1. SleepInv => CleanupEndsLoneCountdown
  BY DEF SleepInv, Timely, OverThen, CleanupEndsLoneCountdown
<1> QED
  BY <1>1, SpecSleepInv, PTL
=============================================================================
