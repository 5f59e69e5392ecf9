------------------------------ MODULE Segment ------------------------------
(***************************************************************************)
(* libsegment.c: the digit display and its countdown threads.              *)
(*                                                                         *)
(* Main executes the SEGMENT_ commands one at a time.  A countdown runs in *)
(* a detached thread that is told to stop through one shared flag, which   *)
(* it polls every 100 ms; fnd_stop leaves the flag up for a second, the    *)
(* other functions only for as long as a pthread_join of a detached thread *)
(* takes.                                                                  *)
(*                                                                         *)
(* Every critical section of the library is free of blocking calls, so     *)
(* each is one action and the mutex needs no variable.  The exception is a *)
(* function called before a successful fnd_init: it locks the mutex twice, *)
(* and from then on (at = "self") nobody gets it.                          *)
(*                                                                         *)
(* Time is counted in polls of 100 ms: a thread in delay() or sleep() has  *)
(* a number of ticks left.  With Punctual the scheduler is prompt: no tick *)
(* passes while some thread could run.  Without it any delay may end       *)
(* before or after any other.                                              *)
(***************************************************************************)
EXTENDS Integers

CONSTANTS
  Countdowns,       \* handles of countdown threads: bounds how many live at once
  NoThread,         \* the handle 0
  Stray,            \* a handle that pthread_create stored and gave no thread
  Blank,            \* all four pins HIGH
  MaxDigit,         \* 9: the largest number shown and counted from
  PollsPerDigit,    \* 10 polls of 100 ms while a digit stands
  PollsPerRing,     \* 30 polls while the buzzer rings
  StopTicks,        \* sleep(1) of fnd_stop
  CleanupTicks,     \* sleep(2) of fnd_cleanup
  Punctual,         \* the scheduling assumption above
  GpioResults,      \* what wiringPiSetupGpio may answer: TRUE is success
  BuzzerLoads       \* what dlopen of libbuzzer may answer: TRUE is success

ASSUME SegmentAssumption ==
  /\ NoThread \notin Countdowns
  /\ Stray \notin Countdowns \cup {NoThread}
  /\ MaxDigit \in Nat \ {0}
  /\ Blank \notin 0 .. MaxDigit
  /\ PollsPerDigit \in Nat \ {0}
  /\ PollsPerRing \in Nat \ {0}
  /\ StopTicks \in Nat /\ StopTicks > 1         \* longer than a delay(100)
  /\ CleanupTicks \in Nat /\ CleanupTicks > 1
  /\ Punctual \in BOOLEAN
  /\ GpioResults \subseteq BOOLEAN
  /\ BuzzerLoads \subseteq BOOLEAN

VARIABLES
  is_initialized,             \* fnd_state.is_initialized
  is_counting,
  countdown_tid,
  countdown_stop_requested,
  running,
  buzzer_lib,                 \* libbuzzer is open and its functions are known
  display,                    \* the number on the pins, or Blank
  countdown,                  \* where each countdown thread is
  i,                          \* its loop variable
  left,                       \* the polls it has left in its wait loop
  nap,                        \* the ticks it has left in delay()
  request,                    \* main's command, if it interrupts a countdown:
                              \* the current or else the last one
  at,                         \* where in it main is
  sleeping,                   \* the ticks main has left in sleep()
  crashed                     \* the process died of a bad handle or pointer

flags == <<is_counting, countdown_tid, countdown_stop_requested>>
threads == <<countdown, i, left, nap>>
main == <<request, at, sleeping>>
vars == <<is_initialized, flags, running, buzzer_lib, display, threads, main,
          crashed>>

Digits == 0 .. MaxDigit

CountdownPlaces == {"none", "start", "top", "show", "poll", "zero", "call",
                    "ring", "hush", "blank", "finish"}

MainPlaces == {"boot", "idle", "join", "relock", "sleep", "peek", "release",
               "self", "gone"}

Commands == {"none", "display", "off", "countdown", "stop", "cleanup"}

(* `number' is the argument; `lone' remembers whether the command met a
   countdown that was known, and the only one alive.  It changes no step.  *)
Requests == [op : Commands, number : Digits, lone : BOOLEAN]
NoRequest == [op |-> "none", number |-> 0, lone |-> FALSE]

MaxPolls == IF PollsPerDigit > PollsPerRing THEN PollsPerDigit ELSE PollsPerRing

TypeOK ==
  /\ is_initialized \in BOOLEAN
  /\ is_counting \in BOOLEAN
  /\ countdown_tid \in Countdowns \cup {NoThread, Stray}
  /\ countdown_stop_requested \in BOOLEAN
  /\ running \in BOOLEAN
  /\ buzzer_lib \in BOOLEAN
  /\ display \in Digits \cup {Blank}
  /\ countdown \in [Countdowns -> CountdownPlaces]
  /\ i \in [Countdowns -> Digits]
  /\ left \in [Countdowns -> 0 .. MaxPolls]
  /\ nap \in [Countdowns -> 0 .. 1]
  /\ request \in Requests
  /\ at \in MainPlaces
  /\ sleeping \in Nat
  /\ crashed \in BOOLEAN

Init ==
  /\ is_initialized = FALSE
  /\ is_counting = FALSE
  /\ countdown_tid = NoThread
  /\ countdown_stop_requested = FALSE
  /\ running = TRUE
  /\ buzzer_lib = FALSE
  /\ display = Blank
  /\ countdown = [t \in Countdowns |-> "none"]
  /\ i = [t \in Countdowns |-> 0]
  /\ left = [t \in Countdowns |-> 0]
  /\ nap = [t \in Countdowns |-> 0]
  /\ request = NoRequest
  /\ at = "boot"
  /\ sleeping = 0
  /\ crashed = FALSE

-----------------------------------------------------------------------------
(* Helpers.                                                                *)

Live(t) == countdown[t] # "none"
Alone == \E t \in Countdowns : \A u \in Countdowns : Live(u) <=> u = t

(* is_counting && countdown_tid != 0                                       *)
Interruptible == is_counting /\ countdown_tid # NoThread

(* What fnd_cleanup waits for: a countdown of which some trace is left.     *)
Known == is_counting \/ countdown_tid # NoThread

(* What a countdown thread reads under the lock at each poll.              *)
ShouldStop == countdown_stop_requested \/ ~running

Unlocked == ~crashed /\ at # "self"

(* A command that has to wait is remembered, another one is over at once.  *)
Takes(o, n) ==
  request' = IF Interruptible \/ o = "cleanup"
             THEN [op |-> o, number |-> n, lone |-> Alone /\ Known]
             ELSE NoRequest

(* The assignments every function makes once it believes the thread gone.  *)
ForgetCountdown ==
  /\ is_counting' = FALSE
  /\ countdown_stop_requested' = FALSE
  /\ countdown_tid' = NoThread

ShowsIfReady(number) == display' = IF is_initialized THEN number ELSE display

(* malloc, pthread_create and pthread_detach of a countdown from n.  A malloc
   that fails leaves the handle as it was; a pthread_create that fails leaves it
   undefined: glibc may have stored the handle before clone failed.        *)
Creates(n, handle) ==
  \/ UNCHANGED <<countdown, i>> /\ countdown_tid' \in {handle, Stray}
  \/ \E t \in Countdowns :
       /\ countdown[t] = "none"
       /\ countdown' = [countdown EXCEPT ![t] = "start"]
       /\ i' = [i EXCEPT ![t] = n]
       /\ countdown_tid' = t

-----------------------------------------------------------------------------
(* Main.                                                                   *)

FndInit ==
  /\ ~crashed
  /\ at = "boot"
  /\ \E ok \in GpioResults :
       /\ is_initialized' = ok
       /\ \/ ~ok /\ UNCHANGED buzzer_lib
          \/ ok /\ buzzer_lib' \in BuzzerLoads
  /\ at' = "idle"
  /\ UNCHANGED <<flags, running, display, threads, request, sleeping, crashed>>

(* A function that finds the device not initialised calls fnd_init while it
   holds the mutex, and fnd_init locks it again.                           *)
LocksTwice ==
  /\ at' = "self"
  /\ UNCHANGED <<flags, display, countdown, i>>

(* A function that finds a countdown to interrupt asks it to stop and lets
   go of the mutex.                                                        *)
Interrupts(place) ==
  /\ countdown_stop_requested' = TRUE
  /\ at' = place
  /\ UNCHANGED <<is_counting, countdown_tid, display, countdown, i>>

(* fnd_display up to its first unlock.  A number that is out of range is
   refused and changes nothing.                                            *)
DisplayEnter(n) ==
  /\ ~crashed /\ at = "idle"
  /\ Takes("display", n)
  /\ \/ ~is_initialized /\ LocksTwice
     \/ is_initialized /\ Interruptible /\ Interrupts("join")
     \/ /\ is_initialized /\ ~Interruptible
        /\ display' = n
        /\ UNCHANGED <<at, flags, countdown, i>>
  /\ UNCHANGED <<is_initialized, running, buzzer_lib, left, nap, sleeping,
                 crashed>>

OffEnter ==
  /\ ~crashed /\ at = "idle"
  /\ Takes("off", 0)
  /\ \/ Interruptible /\ Interrupts("join")
     \/ /\ ~Interruptible
        /\ ShowsIfReady(Blank)
        /\ UNCHANGED <<at, flags, countdown, i>>
  /\ UNCHANGED <<is_initialized, running, buzzer_lib, left, nap, sleeping,
                 crashed>>

(* fnd_countdown refuses numbers outside 1..9 before it locks.  auto_off_tid
   is always 0: nothing creates that thread.                               *)
CountdownEnter(n) ==
  /\ ~crashed /\ at = "idle"
  /\ n >= 1
  /\ Takes("countdown", n)
  /\ \/ ~is_initialized /\ LocksTwice
     \/ is_initialized /\ Interruptible /\ Interrupts("join")
     \/ /\ is_initialized /\ ~Interruptible
        /\ Creates(n, countdown_tid)
        /\ UNCHANGED <<at, is_counting, countdown_stop_requested, display>>
  /\ UNCHANGED <<is_initialized, running, buzzer_lib, left, nap, sleeping,
                 crashed>>

(* pthread_join(countdown_tid), read again outside the lock.  The thread is
   detached, so the call returns an error at once, unless the thread has
   cleared the handle meanwhile: then glibc dereferences 0.  What it finds
   behind a handle without a thread is open.                               *)
Join ==
  /\ ~crashed /\ at = "join"
  /\ \/ /\ countdown_tid \in {NoThread, Stray}
        /\ crashed' = TRUE
        /\ UNCHANGED at
     \/ /\ countdown_tid # NoThread
        /\ at' = "relock"
        /\ UNCHANGED crashed
  /\ UNCHANGED <<is_initialized, flags, running, buzzer_lib, display, threads,
                 request, sleeping>>

RelockKeepsRequest ==
  /\ ~crashed /\ at = "relock"
  /\ is_counting' = FALSE
  /\ UNCHANGED countdown_stop_requested
  /\ \/ request.op = "countdown" /\ Creates(request.number, NoThread) /\ UNCHANGED display
     \/ /\ request.op \in {"display", "off"}
        /\ countdown_tid' = NoThread
        /\ display' = IF request.op = "display" THEN request.number ELSE Blank
        /\ UNCHANGED <<countdown, i>>
  /\ at' = "idle"
  /\ request' = [request EXCEPT !.number = 0]
  /\ UNCHANGED <<is_initialized, running, buzzer_lib, left, nap, sleeping,
                 crashed>>

(* The second critical section of fnd_display, fnd_off and fnd_countdown.  *)
Relock ==
  /\ ~crashed /\ at = "relock"
  /\ at' = "idle"
  /\ \/ /\ request.op = "display"
        /\ ForgetCountdown
        /\ display' = request.number
        /\ UNCHANGED <<countdown, i>>
     \/ /\ request.op = "off"
        /\ ForgetCountdown
        /\ ShowsIfReady(Blank)
        /\ UNCHANGED <<countdown, i>>
     \/ /\ request.op = "countdown"
        /\ is_counting' = FALSE
        /\ countdown_stop_requested' = FALSE
        /\ Creates(request.number, NoThread)
        /\ UNCHANGED display
  /\ request' = [request EXCEPT !.number = 0]
  /\ UNCHANGED <<is_initialized, running, buzzer_lib, left, nap, sleeping,
                 crashed>>

(* fnd_stop: with nothing to interrupt it returns at once.                 *)
StopEnter ==
  /\ ~crashed /\ at = "idle"
  /\ Takes("stop", 0)
  /\ \/ Interruptible /\ Interrupts("sleep") /\ sleeping' = StopTicks
     \/ ~Interruptible /\ UNCHANGED <<flags, display, countdown, i, at, sleeping>>
  /\ UNCHANGED <<is_initialized, running, buzzer_lib, left, nap, crashed>>

StopWake ==
  /\ ~crashed /\ at = "sleep" /\ request.op = "stop"
  /\ sleeping = 0
  /\ ForgetCountdown
  /\ ShowsIfReady(Blank)
  /\ at' = "idle"
  /\ UNCHANGED <<is_initialized, running, buzzer_lib, threads, request,
                 sleeping, crashed>>

(* fnd_cleanup: ask every thread to stop; ...                              *)
CleanupEnter ==
  /\ ~crashed /\ at = "idle"
  /\ Takes("cleanup", 0)
  /\ running' = FALSE
  /\ countdown_stop_requested' = TRUE
  /\ at' = "peek"
  /\ UNCHANGED <<is_initialized, is_counting, countdown_tid, buzzer_lib, display,
                 threads, sleeping, crashed>>

CleanupPeeksAtFlag ==
  /\ ~crashed /\ at = "peek"
  /\ \/ /\ is_counting
        /\ at' = "sleep" /\ sleeping' = CleanupTicks
     \/ /\ ~is_counting
        /\ at' = "release" /\ UNCHANGED sleeping
  /\ UNCHANGED <<is_initialized, flags, running, buzzer_lib, display, threads,
                 request, crashed>>

(* ... look, without the lock, whether one is known, and sleep if so; ...  *)
CleanupPeek ==
  /\ ~crashed /\ at = "peek"
  /\ \/ /\ Known
        /\ at' = "sleep" /\ sleeping' = CleanupTicks
     \/ /\ ~Known
        /\ at' = "release" /\ UNCHANGED sleeping
  /\ UNCHANGED <<is_initialized, flags, running, buzzer_lib, display, threads,
                 request, crashed>>

(* ... blank the display and let everything go.                            *)
CleanupRelease ==
  /\ ~crashed
  /\ \/ at = "release"
     \/ at = "sleep" /\ request.op = "cleanup" /\ sleeping = 0
  /\ ShowsIfReady(Blank)
  /\ is_initialized' = FALSE
  /\ ForgetCountdown
  /\ buzzer_lib' = FALSE
  /\ at' = "gone"
  /\ UNCHANGED <<running, threads, request, sleeping, crashed>>

-----------------------------------------------------------------------------
(* countdown_thread.                                                       *)

Goes(t, from, to) ==
  /\ ~crashed
  /\ countdown[t] = from
  /\ countdown' = [countdown EXCEPT ![t] = to]

Start(t) ==
  /\ Unlocked
  /\ Goes(t, "start", "top")
  /\ is_counting' = TRUE
  /\ countdown_stop_requested' = FALSE
  /\ UNCHANGED <<is_initialized, countdown_tid, running, buzzer_lib, display, i,
                 left, nap, main, crashed>>

(* The check at the head of the loop.                                      *)
Top(t) ==
  /\ Unlocked
  /\ Goes(t, "top", IF ShouldStop THEN "finish" ELSE "show")
  /\ UNCHANGED <<is_initialized, flags, running, buzzer_lib, display, i, left,
                 nap, main, crashed>>

ShowWaitsAtZero(t) ==
  /\ Unlocked
  /\ Goes(t, "show", IF i[t] >= 0 THEN "poll" ELSE "zero")
  /\ ShowsIfReady(i[t])
  /\ left' = [left EXCEPT ![t] = PollsPerDigit]
  /\ nap' = [nap EXCEPT ![t] = 1]
  /\ UNCHANGED <<is_initialized, flags, running, buzzer_lib, i, main, crashed>>

Show(t) ==
  /\ Unlocked
  /\ Goes(t, "show", IF i[t] > 0 THEN "poll" ELSE "zero")
  /\ ShowsIfReady(i[t])
  /\ left' = [left EXCEPT ![t] = IF i[t] > 0 THEN PollsPerDigit ELSE 0]
  /\ nap' = [nap EXCEPT ![t] = IF i[t] > 0 THEN 1 ELSE 0]
  /\ UNCHANGED <<is_initialized, flags, running, buzzer_lib, i, main, crashed>>

PollDeaf(t) ==
  /\ Unlocked
  /\ nap[t] = 0
  /\ \/ /\ left[t] = 1
        /\ Goes(t, "poll", "top")
        /\ i' = [i EXCEPT ![t] = @ - 1]
        /\ left' = [left EXCEPT ![t] = 0]
        /\ UNCHANGED nap
     \/ /\ left[t] > 1
        /\ Goes(t, "poll", "poll")
        /\ left' = [left EXCEPT ![t] = @ - 1]
        /\ nap' = [nap EXCEPT ![t] = 1]
        /\ UNCHANGED i
  /\ UNCHANGED <<is_initialized, flags, running, buzzer_lib, display, main,
                 crashed>>

PollRepeats(t) ==
  /\ Unlocked
  /\ nap[t] = 0
  /\ \/ /\ ShouldStop \/ left[t] = 1
        /\ Goes(t, "poll", "top")
        /\ left' = [left EXCEPT ![t] = 0]
        /\ UNCHANGED nap
     \/ /\ ~ShouldStop /\ left[t] > 1
        /\ Goes(t, "poll", "poll")
        /\ left' = [left EXCEPT ![t] = @ - 1]
        /\ nap' = [nap EXCEPT ![t] = 1]
  /\ UNCHANGED <<is_initialized, flags, running, buzzer_lib, display, i, main,
                 crashed>>

(* One round of the wait loop of a digit, after its delay(100).  A request to
   stop ends this loop only: the head of the outer one must see it again.  *)
Poll(t) ==
  /\ Unlocked
  /\ nap[t] = 0
  /\ \/ /\ ShouldStop \/ left[t] = 1
        /\ Goes(t, "poll", "top")
        /\ i' = [i EXCEPT ![t] = @ - 1]
        /\ left' = [left EXCEPT ![t] = 0]
        /\ UNCHANGED nap
     \/ /\ ~ShouldStop /\ left[t] > 1
        /\ Goes(t, "poll", "poll")
        /\ left' = [left EXCEPT ![t] = @ - 1]
        /\ nap' = [nap EXCEPT ![t] = 1]
        /\ UNCHANGED i
  /\ UNCHANGED <<is_initialized, flags, running, buzzer_lib, display, main,
                 crashed>>

(* At 0, without the lock: load libbuzzer if it is not loaded, and beep
   instead when it cannot be.                                              *)
Zero(t) ==
  /\ \/ /\ buzzer_lib
        /\ Goes(t, "zero", "call")
        /\ UNCHANGED buzzer_lib
     \/ /\ ~buzzer_lib
        /\ buzzer_lib' \in BuzzerLoads
        /\ Goes(t, "zero", IF buzzer_lib' THEN "call" ELSE "blank")
  /\ UNCHANGED <<is_initialized, flags, running, display, i, left, nap, main,
                 crashed>>

(* buzzer_play_func(): fnd_cleanup may have cleared the pointer since the
   check.                                                                  *)
CallPlay(t) ==
  /\ \/ /\ buzzer_lib
        /\ Goes(t, "call", "ring")
        /\ left' = [left EXCEPT ![t] = PollsPerRing]
        /\ nap' = [nap EXCEPT ![t] = 1]
        /\ UNCHANGED crashed
     \/ /\ ~crashed /\ countdown[t] = "call" /\ ~buzzer_lib
        /\ crashed' = TRUE
        /\ UNCHANGED threads
  /\ UNCHANGED <<is_initialized, flags, running, buzzer_lib, display, i, main>>

(* One round of the wait loop of the ring.                                 *)
Ring(t) ==
  /\ Unlocked
  /\ nap[t] = 0
  /\ \/ /\ ShouldStop \/ left[t] = 1
        /\ Goes(t, "ring", "hush")
        /\ left' = [left EXCEPT ![t] = 0]
        /\ UNCHANGED nap
     \/ /\ ~ShouldStop /\ left[t] > 1
        /\ Goes(t, "ring", "ring")
        /\ left' = [left EXCEPT ![t] = @ - 1]
        /\ nap' = [nap EXCEPT ![t] = 1]
  /\ UNCHANGED <<is_initialized, flags, running, buzzer_lib, display, i, main,
                 crashed>>

(* buzzer_stop_func(), if it is still known.                               *)
Hush(t) ==
  /\ Goes(t, "hush", "blank")
  /\ UNCHANGED <<is_initialized, flags, running, buzzer_lib, display, i, left,
                 nap, main, crashed>>

(* The countdown is complete: blank the display; the loop ends at i = -1.  *)
BlankOut(t) ==
  /\ Unlocked
  /\ Goes(t, "blank", "finish")
  /\ ShowsIfReady(Blank)
  /\ UNCHANGED <<is_initialized, flags, running, buzzer_lib, i, left, nap, main,
                 crashed>>

FinishKeepsHandle(t) ==
  /\ Unlocked
  /\ Goes(t, "finish", "none")
  /\ i' = [i EXCEPT ![t] = 0]
  /\ is_counting' = FALSE
  /\ countdown_stop_requested' = FALSE
  /\ UNCHANGED <<is_initialized, countdown_tid, running, buzzer_lib, display,
                 left, nap, main, crashed>>

FinishKeepsFlag(t) ==
  /\ Unlocked
  /\ Goes(t, "finish", "none")
  /\ i' = [i EXCEPT ![t] = 0]
  /\ countdown_tid' = NoThread
  /\ countdown_stop_requested' = FALSE
  /\ UNCHANGED <<is_initialized, is_counting, running, buzzer_lib, display,
                 left, nap, main, crashed>>

(* The thread clears the shared flags, whoever set them, and ends.         *)
Finish(t) ==
  /\ Unlocked
  /\ Goes(t, "finish", "none")
  /\ i' = [i EXCEPT ![t] = 0]
  /\ ForgetCountdown
  /\ UNCHANGED <<is_initialized, running, buzzer_lib, display, left, nap, main,
                 crashed>>

-----------------------------------------------------------------------------
(* Time.                                                                   *)

CountdownRunnable(t) == Live(t) /\ nap[t] = 0

MainRunnable ==
  \/ at \in {"join", "relock", "peek", "release"}
  \/ at = "sleep" /\ sleeping = 0

Napping == {t \in Countdowns : nap[t] > 0}

(* Delays get shorter: everybody's at once, and when nobody can run, if the
   scheduler is prompt; any number of them otherwise.                      *)
Elapse ==
  /\ ~crashed
  /\ \E woken \in SUBSET Napping, tick \in 0 .. (IF sleeping > 0 THEN 1 ELSE 0) :
       /\ woken # {} \/ tick = 1
       /\ Punctual => /\ ~MainRunnable
                      /\ \A t \in Countdowns : ~CountdownRunnable(t)
                      /\ woken = Napping
                      /\ sleeping > 0 => tick = 1
       /\ nap' = [t \in Countdowns |-> IF t \in woken THEN nap[t] - 1 ELSE nap[t]]
       /\ sleeping' = sleeping - tick
  /\ UNCHANGED <<is_initialized, flags, running, buzzer_lib, display, countdown,
                 i, left, request, at, crashed>>

(* The process has died, main has left the library for good, or it waits for
   itself.                                                                 *)
Ended ==
  /\ crashed \/ at \in {"gone", "self"}
  /\ UNCHANGED vars

MainInside == Join \/ Relock \/ StopWake \/ CleanupPeek \/ CleanupRelease

CountdownStep(t) ==
  \/ Start(t) \/ Top(t) \/ Show(t) \/ Poll(t) \/ Zero(t) \/ CallPlay(t)
  \/ Ring(t) \/ Hush(t) \/ BlankOut(t) \/ Finish(t)

Next ==
  \/ FndInit
  \/ \E n \in Digits : DisplayEnter(n) \/ CountdownEnter(n)
  \/ OffEnter \/ StopEnter \/ CleanupEnter
  \/ MainInside
  \/ \E t \in Countdowns : CountdownStep(t)
  \/ Elapse
  \/ Ended

Spec == Init /\ [][Next]_vars

(* Nobody has to send a command; every thread runs on, and each delay ends.
   (With Punctual this is no fairness: commands that keep coming leave no
   moment at which time may pass.)                                         *)
Fairness ==
  /\ WF_vars(MainInside \/ (Elapse /\ sleeping' < sleeping))
  /\ \A t \in Countdowns :
       WF_vars(CountdownStep(t) \/ (Elapse /\ nap'[t] < nap[t]))

FairSpec == Spec /\ Fairness

-----------------------------------------------------------------------------
(* Properties.                                                             *)

(* No function is ever handed the handle of a thread that has ended: the thread
   countdown_tid names is alive, although commands overwrite the handle of
   running countdowns and every thread that ends clears the handle, whichever
   thread it names by then.  A dangling handle can only be one that a failed
   pthread_create has left.                                                *)
TidIsLive == countdown_tid \in Countdowns => Live(countdown_tid)

(* "COUNTING" (fnd_get_status) is never a stale answer, and a command never
   sets out to interrupt a countdown that is over: while is_counting is set,
   some countdown has started and has not finished.                        *)
CountingHasThread ==
  is_counting => \E t \in Countdowns : countdown[t] \notin {"none", "start"}

(* A stop request does not outlive the command that raised it, so it cannot
   kill the countdown a later command starts.                              *)
NoStaleStopRequest == at = "idle" => ~countdown_stop_requested

(* With a prompt scheduler the second that fnd_stop sleeps is enough: after
   SEGMENT_STOP interrupted a countdown that was alone, the display is dark
   and stays dark until the next command, wherever in its digits, its ring
   or its start the countdown was.                                         *)
StopEndsLoneCountdown ==
  (Punctual /\ at = "idle" /\ request.op = "stop" /\ request.lone) =>
    display = Blank /\ \A t \in Countdowns : ~Live(t)

(* The two seconds that fnd_cleanup sleeps are enough, too: when the library
   lets go of its pins and of libbuzzer, a countdown that was alone and known
   is over, even one that had only been created, or that was about to call the
   buzzer, whose function pointers go.                                     *)
CleanupEndsLoneCountdown ==
  (Punctual /\ at = "gone" /\ request.lone) =>
    ~crashed /\ display = Blank /\ \A t \in Countdowns : ~Live(t)

(* Every countdown ends, also one whose handle and flags another command has
   overwritten.                                                            *)
CountdownEnds ==
  \A t \in Countdowns :
    countdown[t] = "start" ~> (countdown[t] = "none" \/ crashed)

(* libsegment.c:250 "stop the countdown in progress, if there is one", and
   README.md:155 "everything is off": after SEGMENT_OFF interrupted a countdown that
   was alone, the display is dark until the next command.                  *)
OffEndsCountdown ==
  (at = "idle" /\ request.op = "off" /\ request.lone) => display = Blank
=============================================================================
