------------------------------ MODULE Process ------------------------------
(***************************************************************************)
(* main.c around its sessions, and libled.c: the life of the daemon.       *)
(*                                                                         *)
(* It starts (PID file, libraries, devices, socket), executes commands as  *)
(* sequences of library calls, and leaves after QUIT or on SIGINT/SIGTERM. *)
(* The handler of those signals runs on top of whatever its thread was     *)
(* doing, calls the same cleanup functions under the same mutexes, and     *)
(* never returns: alarm(2) is there to kill the process if it blocks.      *)
(*                                                                         *)
(* A library call is one action.  The details of the calls are in Buzzer,  *)
(* Segment and Cds; what counts here is which mutex a call takes, what it  *)
(* leaves behind, and that a signal may catch its thread inside: then the  *)
(* mutex is never released.  `mutex' names only such holders, and those    *)
(* that have locked a mutex twice.                                         *)
(*                                                                         *)
(* The kernel gives a signal to the main thread unless that one is in a    *)
(* handler of the same signal; then any other thread gets it.              *)
(*                                                                         *)
(* A countdown that a command interrupted lives on beside the next one,    *)
(* under the same flags.  Of melodies and controllers at most one lives at *)
(* once.  That a pthread_join of a handle that is no more may end the      *)
(* process is told in Segment and Buzzer.                                  *)
(*                                                                         *)
(* The scheduler is prompt: 2 seconds pass only when nobody can run.  All  *)
(* timers last 2 seconds, so they expire in the order they were set.       *)
(***************************************************************************)
EXTENDS Naturals, FiniteSets, SequencesExt

CONSTANTS
  Countdowns,     \* countdown threads: bounds how many live at once
  Levels,         \* the arguments LED_BRIGHTNESS comes with
  Signals,        \* SIGINT and SIGTERM, numbered as they first arrive
  MaxSignals,     \* bound on the signals that arrive
  MaxCommands,    \* bound on the commands that come
  Struck,         \* the workers the kernel may give a signal to
  Missing         \* the sets of devices that may fail to initialise

Devices == {"led", "segment", "buzzer", "cds"}
Workers == Countdowns \cup {"melody", "controller"}
Threads == {"main"} \cup Workers

(* What a thread executes: its own code, or its handler of a signal.       *)
Own(t) == <<t, 0>>
Handlers == ({"main"} \cup Struck) \X Signals
Main == Own("main")

(* What executes code of main.c, and what can be interrupted.              *)
Activities == {Main} \cup Handlers
Codes == Threads \X ({0} \cup Signals)
Nobody == Own("nobody")

ASSUME ProcessAssumption ==
  /\ Countdowns \cap {"main", "nobody", "melody", "controller"} = {}
  /\ IsFiniteSet(Countdowns)
  /\ Levels \subseteq Nat
  /\ Signals \subseteq Nat \ {0}
  /\ IsFiniteSet(Signals)
  /\ MaxSignals \in Nat
  /\ MaxCommands \in Nat
  /\ Struck \subseteq Workers
  /\ Missing \subseteq SUBSET Devices

(* "auto" is auto_led_state.mutex; "log" stands for the locks of the C library
   that syslog takes.                                                      *)
Mutexes == Devices \cup {"auto", "log"}

VARIABLES
  at,                 \* where each activity is
  todo,               \* the calls main() has left in its command
  commands,           \* the commands that came
  stopped,            \* the code that handlers have interrupted
  mutex,              \* who keeps each mutex
  loaded,             \* the libraries: "no", "yes", or "closed" again
  ready,              \* is_initialized of each device
  missing,            \* the devices that fail to initialise
  light,              \* what pwmWrite last set the LED to
  display,            \* TRUE while a digit is shown
  countdown_tid,      \* TRUE while it is not 0
  is_counting,
  countdown_stop_requested,
  fnd_running,        \* running of libsegment
  forgotten,          \* the countdowns that live although a command, or the end
                      \* of another, cleared their flags; changes no step
  auto_led_enabled,
  worker,             \* where each worker is
  timers,             \* the sleeps and the alarm, the first to expire first
  pid_file,
  ended               \* how the process ended

lib == <<loaded, ready, missing>>
work == <<todo, commands>>
flow == <<at, work>>
signals == <<stopped, timers>>
fnd == <<display, countdown_tid, is_counting, countdown_stop_requested,
         fnd_running, forgotten>>
devices == <<light, fnd, auto_led_enabled>>
fate == <<pid_file, ended>>
vars == <<flow, signals, mutex, lib, devices, worker, fate>>

-----------------------------------------------------------------------------
(* Commands: the calls each one makes (process_command).                   *)

Call(m, f) == [on |-> m, do |-> f]

Commands ==
  [LED_ON            |-> <<Call("led", "on")>>,
   LED_OFF           |-> <<Call("led", "off")>>,
   LED_BRIGHTNESS    |-> <<Call("led", "brightness")>>,
   SEGMENT_DISPLAY   |-> <<Call("segment", "display")>>,
   SEGMENT_COUNTDOWN |-> <<Call("segment", "countdown")>>,
   SEGMENT_STOP      |-> <<Call("segment", "stop"), Call("none", "nap"),
                           Call("segment", "settle")>>,
   SEGMENT_OFF       |-> <<Call("segment", "off")>>,
   BUZZER_PLAY       |-> <<Call("buzzer", "play")>>,
   BUZZER_STOP       |-> <<Call("buzzer", "stop")>>,
   CDS_AUTO_START    |-> <<Call("cds", "auto_start")>>,
   CDS_AUTO_STOP     |-> <<Call("cds", "auto_stop")>>,
   CDS_READ          |-> <<Call("cds", "read"), Call("cds", "get")>>,
   CDS_GET_STATUS    |-> <<Call("cds", "get")>>,
   ALL_OFF           |-> <<Call("led", "off"), Call("segment", "off"),
                           Call("buzzer", "stop"), Call("cds", "auto_stop"),
                           Call("auto", "off")>>,
   HELP              |-> <<>>]

WriteLog == Call("log", "log")

(* main() from its first line of log to its loop.                          *)
Boot == <<WriteLog, Call("none", "load"), Call("led", "init"),
          Call("segment", "init"), Call("buzzer", "init"), Call("cds", "init"),
          Call("none", "listen"), WriteLog>>

(* The calls that, on a device that is not initialised, call its init function
   with the mutex held.                                                    *)
Initialising ==
  [on : {"led"}, do : {"on", "off", "brightness"}]
    \cup [on : {"segment"}, do : {"display", "countdown"}]
    \cup [on : {"cds"}, do : {"read", "auto_start"}]
    \cup {Call("buzzer", "play"), Call("auto", "off")}

(* The device a mutex belongs to: cds_init initialises the automatic LED.  *)
DeviceOf(m) == IF m = "auto" THEN "cds" ELSE m

-----------------------------------------------------------------------------
(* The places of an activity.  main() is in "start" and "boot" until its
   handlers are installed, in "call" while todo is being done, in "idle" while
   it waits for clients.  From "log" on it, or a handler, is shutting down.  An
   activity that was interrupted was outside of all sections ("stopped"),
   inside one ("caught"), or shutting down itself ("overtaken").           *)

Leaving == {"log", "led", "ask", "wait", "asleep", "segment", "buzzer", "cds",
            "unload", "exit", "overtaken"}

Places == {"none", "start", "boot", "call", "idle", "stopped", "caught"}
            \cup Leaving

WorkerPlaces == {"none", "start", "run", "ring", "rung", "stuck"}

Ends == {"no", "failed", "terminated", "killed", "faulted", "exited"}

Calls == [on : Mutexes \cup {"none"},
          do : {"log", "load", "listen", "init", "on", "off", "brightness",
                "display", "countdown", "stop", "nap", "settle", "play",
                "auto_start", "auto_stop", "read", "get"}]

TypeOK ==
  /\ at \in [Activities -> Places]
  /\ todo \in Seq(Calls)
  /\ commands \in 0 .. MaxCommands
  /\ stopped \subseteq Codes
  /\ mutex \in [Mutexes -> Codes \cup {Nobody}]
  /\ loaded \in {"no", "yes", "closed"}
  /\ ready \in [Devices -> BOOLEAN]
  /\ missing \in Missing
  /\ light \in 0 .. 1024
  /\ display \in BOOLEAN
  /\ countdown_tid \in BOOLEAN
  /\ is_counting \in BOOLEAN
  /\ countdown_stop_requested \in BOOLEAN
  /\ fnd_running \in BOOLEAN
  /\ forgotten \subseteq Countdowns
  /\ auto_led_enabled \in BOOLEAN
  /\ worker \in [Workers -> WorkerPlaces]
  /\ timers \in Seq([who : Activities, what : {"alarm", "sleep"}])
  /\ pid_file \in BOOLEAN
  /\ ended \in Ends

Init ==
  /\ at = [a \in Activities |-> IF a = Main THEN "start" ELSE "none"]
  /\ todo = <<>>
  /\ commands = 0
  /\ stopped = {}
  /\ mutex = [m \in Mutexes |-> Nobody]
  /\ loaded = "no"
  /\ ready = [d \in Devices |-> FALSE]
  /\ missing \in Missing
  /\ light = 0
  /\ display = FALSE
  /\ countdown_tid = FALSE
  /\ is_counting = FALSE
  /\ countdown_stop_requested = FALSE
  /\ fnd_running = TRUE
  /\ forgotten = {}
  /\ auto_led_enabled = FALSE
  /\ worker = [w \in Workers |-> "none"]
  /\ timers = <<>>
  /\ pid_file = FALSE
  /\ ended = "no"

-----------------------------------------------------------------------------
(* Helpers.                                                                *)

(* A handler does not return: what it interrupted stands still for ever.   *)
Interrupted(x) == x \in stopped

(* x, an activity or a worker's own code, may take a step.                 *)
Runs(x) == ended = "no" /\ ~Interrupted(x)

Free(m) == m \in Mutexes => mutex[m] = Nobody

Goes(a, from, to) ==
  /\ Runs(a)
  /\ at[a] = from
  /\ at' = [at EXCEPT ![a] = to]

Alive(w) == worker[w] \notin {"none", "stuck"}

Becomes(w, from, to) ==
  /\ Runs(Own(w)) /\ loaded = "yes"
  /\ worker[w] = from
  /\ worker' = [worker EXCEPT ![w] = to]

(* pthread_create and pthread_detach of a worker: they may fail.           *)
MayCreate(w, place) ==
  \/ UNCHANGED worker
  \/ worker[w] = "none" /\ worker' = [worker EXCEPT ![w] = place]

(* The countdowns that exist, and those a poll tells to stop.               *)
Living == {c \in Countdowns : worker[c] # "none"}
ShouldStop == countdown_stop_requested \/ ~fnd_running

(* The flags of whatever countdown is known are cleared; some may live on.  *)
Forget(others) ==
  /\ countdown_tid' = FALSE
  /\ is_counting' = FALSE
  /\ countdown_stop_requested' = FALSE
  /\ forgotten' = others

Timer(a, kind) == [who |-> a, what |-> kind]

Alarms == [who : Handlers, what : {"alarm"}]

(* The timers without the one in S, if there is one.                       *)
Without(S) ==
  IF \E k \in DOMAIN timers : timers[k] \in S
  THEN RemoveAt(timers, CHOOSE k \in DOMAIN timers : timers[k] \in S)
  ELSE timers

(* The mutex of the section an activity is to enter next.                  *)
Wants(a) ==
  CASE at[a] = "call" /\ todo # <<>> -> Head(todo).on
    [] at[a] \in {"ask", "segment"} -> "segment"
    [] at[a] \in {"log", "led", "buzzer", "cds"} -> at[a]
    [] OTHER -> "none"

(* The mutexes that x may hold when a signal arrives.                      *)
Sections(x) ==
  IF x \in Activities THEN {Wants(x)} \ {"none"}
  ELSE CASE worker[x[1]] = "stuck" -> {}
         [] worker[x[1]] = "ring" -> {"buzzer"}
         [] worker[x[1]] = "rung" -> {"segment", "buzzer"}
         [] worker[x[1]] \notin {"stuck", "ring", "rung"} ->
              CASE x[1] \in Countdowns -> {"segment"}
                [] x[1] = "melody" -> {"buzzer"}
                [] x[1] = "controller" -> {"cds", "auto"}

-----------------------------------------------------------------------------
(* Start.                                                                  *)

(* daemonize: fork, setsid, descriptors, and last the PID file.            *)
Daemonize ==
  /\ Runs(Main) /\ at[Main] = "start"
  /\ \/ ended' = "failed" /\ UNCHANGED <<at, pid_file>>
     \/ /\ pid_file' = TRUE
        /\ at' = [at EXCEPT ![Main] = "boot"]
        /\ UNCHANGED ended
  /\ UNCHANGED <<work, signals, mutex, lib, devices, worker>>

InstallHandlers ==
  /\ Goes(Main, "boot", "call")
  /\ todo' = Boot
  /\ UNCHANGED <<commands, signals, mutex, lib, devices, worker, fate>>

(* A signal before that has its default action.                            *)
EarlySignal ==
  /\ Runs(Main) /\ at[Main] \in {"start", "boot"}
  /\ ended' = "terminated"
  /\ UNCHANGED <<flow, signals, mutex, lib, devices, worker, pid_file>>

-----------------------------------------------------------------------------
(* The calls of main().                                                    *)

(* main() is to make call c and gets its mutex.                            *)
Makes(c) ==
  /\ Runs(Main) /\ at[Main] = "call"
  /\ c = Head(todo)
  /\ Free(c.on)

(* It has made it and has the calls `rest' before it.                      *)
Leaves(rest) ==
  /\ todo' = rest /\ UNCHANGED commands
  /\ at' = [at EXCEPT ![Main] = IF rest = <<>> THEN "idle" ELSE "call"]

Usable(c) == c \in Initialising => ready[DeviceOf(c.on)]

(* The device is missing: the call locks its mutex twice.                  *)
LocksTwice ==
  LET c == Head(todo) IN
  /\ Makes(c) /\ ~Usable(c)
  /\ mutex' = [mutex EXCEPT ![c.on] = Main]
  /\ UNCHANGED <<flow, signals, lib, devices, worker, fate>>

Log ==
  /\ Makes(WriteLog)
  /\ Leaves(Tail(todo))
  /\ UNCHANGED <<signals, mutex, lib, devices, worker, fate>>

(* load_device_libraries; on an error main returns, and so it does below.  *)
Load ==
  /\ Makes(Call("none", "load"))
  /\ \/ loaded' = "yes" /\ Leaves(Tail(todo)) /\ UNCHANGED ended
     \/ ended' = "failed" /\ UNCHANGED <<loaded, flow>>
  /\ UNCHANGED <<signals, mutex, ready, missing, devices, worker, pid_file>>

(* The four init functions, whose results nobody looks at.                 *)
InitDevice ==
  \E d \in Devices :
    /\ Makes(Call(d, "init"))
    /\ ready' = [ready EXCEPT ![d] = d \notin missing]
    /\ Leaves(Tail(todo))
    /\ UNCHANGED <<signals, mutex, loaded, missing, devices, worker, fate>>

(* socket, setsockopt, bind and listen.                                    *)
Listen ==
  /\ Makes(Call("none", "listen"))
  /\ \/ Leaves(Tail(todo)) /\ UNCHANGED ended
     \/ ended' = "failed" /\ UNCHANGED flow
  /\ UNCHANGED <<signals, mutex, lib, devices, worker, pid_file>>

Dispatch(cmd) ==
  /\ Goes(Main, "idle", "call")
  /\ todo' = <<WriteLog>> \o Commands[cmd]
  /\ commands < MaxCommands
  /\ commands' = commands + 1
  /\ UNCHANGED <<signals, mutex, lib, devices, worker, fate>>

(* The lowest level is not dark.                                           *)
PwmValue == [level \in 0 .. 2 |->
               IF level = 0 THEN 102 ELSE IF level = 1 THEN 512 ELSE 1024]

CallLedKeepsLock ==
  /\ \/ /\ Makes(Call("led", "on")) /\ Usable(Call("led", "on"))
        /\ light' = 1024 /\ UNCHANGED mutex
     \/ /\ Makes(Call("led", "off")) /\ Usable(Call("led", "off"))
        /\ light' = 0 /\ UNCHANGED mutex
     \/ /\ Makes(Call("led", "brightness")) /\ Usable(Call("led", "brightness"))
        /\ \E level \in Levels :
             \/ level \in 0 .. 2 /\ light' = PwmValue[level] /\ UNCHANGED mutex
             \/ /\ level \notin 0 .. 2 /\ UNCHANGED light
                /\ mutex' = [mutex EXCEPT !["led"] = Main]
  /\ Leaves(Tail(todo))
  /\ UNCHANGED <<signals, lib, fnd, auto_led_enabled, worker, fate>>

CallLedScales ==
  /\ \/ Makes(Call("led", "on")) /\ Usable(Call("led", "on")) /\ light' = 1024
     \/ Makes(Call("led", "off")) /\ Usable(Call("led", "off")) /\ light' = 0
     \/ /\ Makes(Call("led", "brightness")) /\ Usable(Call("led", "brightness"))
        /\ \E level \in Levels : light' = 512 * level
  /\ Leaves(Tail(todo))
  /\ UNCHANGED <<signals, mutex, lib, fnd, auto_led_enabled, worker, fate>>

(* led_on, led_off and led_brightness, which refuses levels beyond 2.      *)
CallLed ==
  /\ \/ Makes(Call("led", "on")) /\ Usable(Call("led", "on")) /\ light' = 1024
     \/ Makes(Call("led", "off")) /\ Usable(Call("led", "off")) /\ light' = 0
     \/ /\ Makes(Call("led", "brightness")) /\ Usable(Call("led", "brightness"))
        /\ \E level \in Levels :
             light' = IF level \in 0 .. 2 THEN PwmValue[level] ELSE light
  /\ Leaves(Tail(todo))
  /\ UNCHANGED <<signals, mutex, lib, fnd, auto_led_enabled, worker, fate>>

(* is_counting && countdown_tid != 0: the function asks the countdown to stop,
   but takes the request back before a poll need see it.                   *)
Interrupts == is_counting /\ countdown_tid

DropsCountdown ==
  IF Interrupts
  THEN Forget(Living)
  ELSE UNCHANGED <<countdown_tid, is_counting, countdown_stop_requested, forgotten>>

(* fnd_display and fnd_off.                                                *)
CallDisplay ==
  \E f \in {"display", "off"} :
    LET c == Call("segment", f) IN
    /\ Makes(c) /\ Usable(c)
    /\ DropsCountdown
    /\ display' = IF ready["segment"] THEN f = "display" ELSE display
    /\ Leaves(Tail(todo))
    /\ UNCHANGED <<signals, mutex, lib, light, fnd_running, auto_led_enabled,
                   worker, fate>>

(* fnd_countdown: the one it interrupted lives on beside the new one.  If that
   cannot be created the handle is 0, what it was, or without a thread.    *)
CallCountdown ==
  LET c == Call("segment", "countdown") IN
  /\ Makes(c) /\ Usable(c)
  /\ \/ DropsCountdown /\ UNCHANGED worker
     \/ /\ \/ UNCHANGED worker
           \/ \E t \in Countdowns :
                worker[t] = "none" /\ worker' = [worker EXCEPT ![t] = "start"]
        /\ countdown_tid' = TRUE
        /\ IF Interrupts
           THEN /\ is_counting' = FALSE /\ countdown_stop_requested' = FALSE
                /\ forgotten' = Living
           ELSE UNCHANGED <<is_counting, countdown_stop_requested, forgotten>>
  /\ Leaves(Tail(todo))
  /\ UNCHANGED <<signals, mutex, lib, light, display, fnd_running,
                 auto_led_enabled, fate>>

(* fnd_stop: the request, ...                                              *)
CallStop ==
  /\ Makes(Call("segment", "stop"))
  /\ countdown_stop_requested' = (countdown_stop_requested \/ Interrupts)
  /\ Leaves(IF Interrupts THEN Tail(todo) ELSE <<>>)
  /\ UNCHANGED <<signals, mutex, lib, light, display, countdown_tid,
                 is_counting, fnd_running, forgotten, auto_led_enabled, worker,
                 fate>>

(* After its 3 seconds of melody the countdown calls buzzer_stop.          *)
EndIsFree(c) ==
  Free("segment") /\ (worker[c] = "rung" => Free("buzzer"))

(* Countdown c has a step before it that takes next to no time.             *)
Pressed(c) ==
  /\ Runs(Own(c)) /\ loaded = "yes"
  /\ \/ worker[c] = "start" /\ Free("segment")
     \/ worker[c] \in {"run", "rung"} /\ ShouldStop /\ EndIsFree(c)
     \/ worker[c] = "ring" /\ Free("buzzer")

CountdownPressed == \E c \in Countdowns : Pressed(c)

(* ... sleep(1), in which a countdown that is told comes to its end, ...   *)
Nap ==
  /\ Makes(Call("none", "nap"))
  /\ ~CountdownPressed
  /\ Leaves(Tail(todo))
  /\ UNCHANGED <<signals, mutex, lib, devices, worker, fate>>

(* ... and the flags and the pins.                                         *)
Settle ==
  /\ Makes(Call("segment", "settle"))
  /\ Forget(Living)
  /\ display' = (display /\ ~ready["segment"])
  /\ Leaves(Tail(todo))
  /\ UNCHANGED <<signals, mutex, lib, light, fnd_running, auto_led_enabled,
                 worker, fate>>

CallPlay ==
  LET c == Call("buzzer", "play") IN
  /\ Makes(c) /\ Usable(c)
  /\ MayCreate("melody", "run")
  /\ Leaves(Tail(todo))
  /\ UNCHANGED <<signals, mutex, lib, devices, fate>>

(* A controller that has not left yet goes on if the flag is set again.    *)
CallAutoStart ==
  LET c == Call("cds", "auto_start") IN
  /\ Makes(c) /\ Usable(c)
  /\ \/ UNCHANGED <<auto_led_enabled, worker>>
     \/ /\ ~auto_led_enabled
        /\ auto_led_enabled' = TRUE
        /\ worker' = [worker EXCEPT !["controller"] = "run"]
  /\ Leaves(Tail(todo))
  /\ UNCHANGED <<signals, mutex, lib, light, fnd, fate>>

(* cds_auto_led_stop, if control is on, calls auto_led_off after its section. *)
CallAutoStop ==
  /\ Makes(Call("cds", "auto_stop"))
  /\ auto_led_enabled' = FALSE
  /\ Leaves(IF auto_led_enabled THEN <<Call("auto", "off")>> \o Tail(todo)
            ELSE Tail(todo))
  /\ UNCHANGED <<signals, mutex, lib, light, fnd, worker, fate>>

(* buzzer_stop, the sensor's reads and auto_led_off, also as the handler of
   ALL_OFF calls it: what they do to their devices is told in Buzzer and Cds. *)
CallOther ==
  LET c == Head(todo) IN
  /\ Makes(c) /\ Usable(c)
  /\ c \in {Call("buzzer", "stop"), Call("cds", "read"), Call("cds", "get"),
             Call("auto", "off")}
  /\ Leaves(Tail(todo))
  /\ UNCHANGED <<signals, mutex, lib, devices, worker, fate>>

(* QUIT, or an error of select: the loop ends.                             *)
LeaveLoop ==
  /\ Goes(Main, "idle", "log")
  /\ UNCHANGED <<work, signals, mutex, lib, devices, worker, fate>>

-----------------------------------------------------------------------------
(* Signals.                                                                *)

Active == {h \in Handlers : at[h] # "none"}

(* The code a signal to thread t would interrupt.                          *)
Top(t) == {x \in {Own(t)} \cup {h \in Active : h[1] = t} : ~Interrupted(x)}

(* Signal s is blocked on a thread that is in its handler of s.            *)
Takes(t, s) ==
  /\ \A r \in Signals : r < s => at[<<"main", r>>] # "none"
  /\ at[<<t, s>>] = "none"
  /\ \/ t = "main"
     \/ t \in Struck /\ at[<<"main", s>>] # "none" /\ worker[t] # "none"

(* The handler of s starts on thread t, on top of x, which may be inside of the
   section that it is about.                                               *)
Strikes(s, t, x) ==
  /\ \/ UNCHANGED mutex
     \/ \E m \in Sections(x) :
          mutex[m] = Nobody /\ mutex' = [mutex EXCEPT ![m] = x]
  /\ stopped' = stopped \cup {x}
  /\ at' = [a \in Activities |->
              CASE a = <<t, s>> -> "log"
                [] a = x /\ at[x] \in Leaving -> "overtaken"
                [] a = x /\ at[x] \notin Leaving ->
                     IF mutex' = mutex THEN "stopped" ELSE "caught"
                [] OTHER -> at[a]]
  /\ todo' = IF x = Main THEN <<>> ELSE todo
  /\ timers' = Without({Timer(x, "sleep")})

Deliver(s) ==
  /\ ended = "no"
  /\ at[Main] \notin {"start", "boot"}
  /\ Cardinality(Active) < MaxSignals
  /\ \E t \in {"main"} \cup Struck : Takes(t, s) /\ \E x \in Top(t) : Strikes(s, t, x)
  /\ UNCHANGED <<commands, lib, devices, worker, fate>>

-----------------------------------------------------------------------------
(* The way out: signal_handler, and the end of main(), which has no alarm. *)

LogEndArmsLate(a) ==
  /\ Goes(a, "log", "led") /\ Free("log")
  /\ UNCHANGED <<work, signals, mutex, lib, devices, worker, fate>>

(* The handler sets its alarm(2), which replaces one that is under way.    *)
LogEnd(a) ==
  /\ Goes(a, "log", "led") /\ Free("log")
  /\ timers' = IF a = Main THEN timers
                ELSE Append(Without(Alarms), Timer(a, "alarm"))
  /\ UNCHANGED <<work, stopped, mutex, lib, devices, worker, fate>>

(* The function pointers are still null.                                   *)
NothingLoaded(a) ==
  /\ loaded = "no"
  /\ Goes(a, "led", "unload")
  /\ UNCHANGED <<work, signals, mutex, lib, devices, worker, fate>>

CleanLed(a) ==
  /\ loaded = "yes" /\ Free("led")
  /\ Goes(a, "led", "ask")
  /\ light' = IF ready["led"] THEN 0 ELSE light
  /\ ready' = [ready EXCEPT !["led"] = FALSE]
  /\ UNCHANGED <<work, signals, mutex, loaded, missing, fnd, auto_led_enabled,
                 worker, fate>>

(* fnd_cleanup: the request, ...                                           *)
Ask(a) ==
  /\ loaded = "yes" /\ Free("segment")
  /\ Goes(a, "ask", "wait")
  /\ fnd_running' = FALSE
  /\ countdown_stop_requested' = TRUE
  /\ UNCHANGED <<work, signals, mutex, lib, light, display, countdown_tid,
                 is_counting, forgotten, auto_led_enabled, worker, fate>>

WaitNot(a) ==
  /\ loaded = "yes"
  /\ Goes(a, "wait", "segment")
  /\ UNCHANGED <<work, signals, mutex, lib, devices, worker, fate>>

(* ... sleep(2) if a countdown is known, ...                               *)
Wait(a) ==
  /\ loaded = "yes"
  /\ \/ /\ countdown_tid \/ is_counting
        /\ Goes(a, "wait", "asleep")
        /\ timers' = Append(timers, Timer(a, "sleep"))
     \/ /\ ~countdown_tid /\ ~is_counting
        /\ Goes(a, "wait", "segment")
        /\ UNCHANGED timers
  /\ UNCHANGED <<work, stopped, mutex, lib, devices, worker, fate>>

(* ... and the release.                                                    *)
CleanSegment(a) ==
  /\ loaded = "yes" /\ Free("segment")
  /\ Goes(a, "segment", "buzzer")
  /\ display' = (display /\ ~ready["segment"])
  /\ ready' = [ready EXCEPT !["segment"] = FALSE]
  /\ countdown_tid' = FALSE
  /\ is_counting' = FALSE
  /\ countdown_stop_requested' = FALSE
  /\ UNCHANGED <<work, signals, mutex, loaded, missing, light, fnd_running,
                 forgotten, auto_led_enabled, worker, fate>>

CleanBuzzer(a) ==
  /\ loaded = "yes" /\ Free("buzzer")
  /\ Goes(a, "buzzer", "cds")
  /\ ready' = [ready EXCEPT !["buzzer"] = FALSE]
  /\ UNCHANGED <<work, signals, mutex, loaded, missing, devices, worker, fate>>

CleanCds(a) ==
  /\ loaded = "yes" /\ Free("cds")
  /\ Goes(a, "cds", "unload")
  /\ ready' = [ready EXCEPT !["cds"] = FALSE]
  /\ auto_led_enabled' = FALSE
  /\ UNCHANGED <<work, signals, mutex, loaded, missing, light, fnd, worker,
                 fate>>

(* A cleanup function is called, or slept in, that is not there any more.  *)
CallsUnloaded(a) ==
  /\ Runs(a) /\ loaded = "closed"
  /\ at[a] \in {"led", "ask", "wait", "segment", "buzzer", "cds"}
  /\ ended' = "faulted"
  /\ UNCHANGED <<flow, signals, mutex, lib, devices, worker, pid_file>>

(* The handler's alarm(0), and unload_device_libraries: what a second dlclose of
   a handle does is open.                                                  *)
Unload(a) ==
  /\ Goes(a, "unload", "exit")
  /\ timers' = IF a = Main THEN timers ELSE Without(Alarms)
  /\ loaded' = IF loaded = "no" THEN "no" ELSE "closed"
  /\ ended' \in IF loaded = "closed" THEN {"no", "faulted"} ELSE {"no"}
  /\ UNCHANGED <<work, stopped, mutex, ready, missing, devices, worker,
                 pid_file>>

Exit(a) ==
  /\ Runs(a) /\ at[a] = "exit"
  /\ pid_file' = FALSE
  /\ ended' = "exited"
  /\ UNCHANGED <<flow, signals, mutex, lib, devices, worker>>

-----------------------------------------------------------------------------
(* The workers.                                                            *)

CountdownStarts(c) ==
  /\ Becomes(c, "start", "run") /\ Free("segment")
  /\ is_counting' = TRUE
  /\ countdown_stop_requested' = FALSE
  /\ UNCHANGED <<flow, signals, mutex, lib, light, display, countdown_tid,
                 fnd_running, forgotten, auto_led_enabled, fate>>

CountdownWritesAlways(c) ==
  /\ Runs(Own(c)) /\ loaded = "yes"
  /\ worker[c] \in {"run", "rung"} /\ Free("segment")
  /\ display' \in BOOLEAN
  /\ UNCHANGED <<flow, signals, mutex, lib, light, countdown_tid, is_counting,
                 countdown_stop_requested, fnd_running, forgotten,
                 auto_led_enabled, worker, fate>>

(* A digit, or the blank after the last.                                   *)
CountdownWrites(c) ==
  /\ Runs(Own(c)) /\ loaded = "yes"
  /\ worker[c] \in {"run", "rung"} /\ Free("segment")
  /\ ready["segment"]
  /\ display' \in BOOLEAN
  /\ UNCHANGED <<flow, signals, mutex, lib, light, countdown_tid, is_counting,
                 countdown_stop_requested, fnd_running, forgotten,
                 auto_led_enabled, worker, fate>>

CountdownReachesZero(c) ==
  /\ Becomes(c, "run", "ring")
  /\ UNCHANGED <<flow, signals, mutex, lib, devices, fate>>

(* The countdown calls buzzer_play: on a missing buzzer that locks twice.  *)
CountdownRings(c) ==
  /\ Runs(Own(c)) /\ loaded = "yes"
  /\ worker[c] = "ring" /\ Free("buzzer")
  /\ \/ /\ ready["buzzer"]
        /\ \E melody \in {worker["melody"], "run"} :
             worker' = [worker EXCEPT ![c] = "rung", !["melody"] = melody]
        /\ UNCHANGED mutex
     \/ /\ ~ready["buzzer"]
        /\ worker' = [worker EXCEPT ![c] = "stuck"]
        /\ mutex' = [mutex EXCEPT !["buzzer"] = Own(c)]
  /\ UNCHANGED <<flow, signals, lib, devices, fate>>

(* The end clears the flags, also those of another countdown.              *)
CountdownEnds(c) ==
  /\ \/ Becomes(c, "run", "none")
     \/ Becomes(c, "rung", "none")
  /\ EndIsFree(c)
  /\ Forget(Living \ {c})
  /\ UNCHANGED <<flow, signals, mutex, lib, light, display, fnd_running,
                 auto_led_enabled, fate>>

MelodyEnds ==
  /\ Becomes("melody", "run", "none") /\ Free("buzzer")
  /\ UNCHANGED <<flow, signals, mutex, lib, devices, fate>>

(* The controller looks at its flag, or reads a sensor that is not initialised
   (any more): cds_read then locks twice.                                  *)
ControllerLooks ==
  \/ /\ ~auto_led_enabled
     /\ Becomes("controller", "run", "none")
     /\ UNCHANGED <<flow, signals, mutex, lib, devices, fate>>
  \/ /\ ~ready["cds"] /\ Free("cds")
     /\ Becomes("controller", "run", "stuck")
     /\ mutex' = [mutex EXCEPT !["cds"] = Own("controller")]
     /\ UNCHANGED <<flow, signals, lib, devices, fate>>

(* A worker goes on in a library that is not there any more.               *)
WorkerFaults(w) ==
  /\ Runs(Own(w)) /\ loaded = "closed"
  /\ Alive(w)
  /\ ended' = "faulted"
  /\ UNCHANGED <<flow, signals, mutex, lib, devices, worker, pid_file>>

-----------------------------------------------------------------------------
(* Time.                                                                   *)

(* The places in which nothing moves by itself: sleep, and recv or select. *)
AtRest == {"none", "idle", "asleep"}

CanMove(a) == Runs(a) /\ at[a] \notin AtRest /\ Free(Wants(a))

(* The first timer expires: SIGALRM kills the process, or a sleeper wakes.  *)
Expire ==
  /\ ended = "no" /\ timers # <<>>
  /\ ~CountdownPressed /\ \A a \in Activities : ~CanMove(a)
  /\ timers' = Tail(timers)
  /\ LET due == Head(timers)
     IN \/ /\ due.what = "alarm"
           /\ ended' = "killed" /\ UNCHANGED at
        \/ /\ due.what = "sleep" /\ at[due.who] = "asleep"
           /\ at' = [at EXCEPT ![due.who] = "segment"] /\ UNCHANGED ended
  /\ UNCHANGED <<work, stopped, mutex, lib, devices, worker, pid_file>>

(* A handler is shut out of the C library's locks by the thread it stopped,
   before it has set its alarm.                                            *)
ShutOut == Interrupted(mutex["log"])

(* The process has ended, waits for a client, or hangs.                    *)
Over ==
  /\ \/ ended # "no"
     \/ timers = <<>> /\ \A a \in Activities : ~CanMove(a)
  /\ UNCHANGED vars

-----------------------------------------------------------------------------
MainCalls ==
  \/ LocksTwice \/ Log \/ Load \/ InitDevice \/ Listen
  \/ CallLed \/ CallDisplay \/ CallCountdown \/ CallStop \/ Nap \/ Settle
  \/ CallPlay \/ CallAutoStart \/ CallAutoStop \/ CallOther

LeavingStep(a) ==
  \/ LogEnd(a) \/ NothingLoaded(a) \/ CleanLed(a) \/ Ask(a) \/ Wait(a)
  \/ CleanSegment(a) \/ CleanBuzzer(a) \/ CleanCds(a) \/ CallsUnloaded(a)
  \/ Unload(a) \/ Exit(a)

HandlerStep == \E h \in Handlers : LeavingStep(h)

MainStep == Daemonize \/ InstallHandlers \/ MainCalls \/ LeavingStep(Main)

CountdownStep(c) == CountdownStarts(c) \/ CountdownRings(c) \/ CountdownEnds(c)

Next ==
  \/ MainStep \/ EarlySignal \/ LeaveLoop
  \/ \E cmd \in DOMAIN Commands : Dispatch(cmd)
  \/ \E s \in Signals : Deliver(s)
  \/ HandlerStep
  \/ \E c \in Countdowns :
       CountdownStep(c) \/ CountdownWrites(c) \/ CountdownReachesZero(c)
  \/ MelodyEnds \/ ControllerLooks
  \/ \E w \in Workers : WorkerFaults(w)
  \/ Expire
  \/ Over

Spec == Init /\ [][Next]_vars

(* Nobody has to send a command or a signal.  What can run does, a countdown
   comes to its end, and time passes.                                      *)
Fairness ==
  /\ WF_vars(MainStep)
  /\ WF_vars(HandlerStep)
  /\ \A c \in Countdowns : WF_vars(CountdownStep(c))
  /\ WF_vars(Expire)

FairSpec == Spec /\ Fairness

-----------------------------------------------------------------------------
(* Properties.                                                             *)

(* However the process is told to leave, and whatever it is interrupted in:
   if it gets as far as its last exit, the LED and the display are dark, no
   device is initialised and the PID file is gone, although a countdown or a
   controller may still be running.                                        *)
ExitIsClean ==
  ended = "exited" =>
    /\ light = 0 /\ ~display
    /\ \A d \in Devices : ~ready[d]
    /\ ~pid_file

(* A mutex is kept for ever only by a thread that a signal caught inside its
   section, or by a caller on a missing device.                            *)
Caught(m) ==
  \/ mutex[m] \in Activities /\ at[mutex[m]] \in {"caught", "overtaken"}
  \/ \E w \in Workers : mutex[m] = Own(w)
  \/ mutex[m] = Main /\ DeviceOf(m) \in missing

(* The alarm kills the process only if the handler met a mutex whose holder
   will not return, or sleeps for a countdown: a signal that finds main
   between two commands and no countdown is followed by a full cleanup.    *)
KilledOnlyWhenCaught ==
  ended = "killed" =>
    \/ \E m \in Mutexes : mutex[m] # Nobody /\ Caught(m)
    \/ \E a \in Activities : at[a] = "asleep"

(* Unloading the libraries is safe for a countdown whose flags are its own: a
   fault needs a melody or a controller, which nobody waits for, a countdown
   whose flags a command or the end of an older countdown has cleared, or two
   shutdowns at once.                                                      *)
FaultsOnlyUnderWorkers ==
  ended = "faulted" =>
    \/ \E w \in {"melody", "controller"} : Alive(w)
    \/ \E c \in forgotten : Alive(c)
    \/ Cardinality({a \in Activities : at[a] \in Leaving}) > 1

(* SIGTERM ends the process, within its alarm, whatever main, the workers or
   an earlier signal were doing, unless it interrupted write_log.          *)
SignalEnds == Active # {} ~> (ended # "no" \/ ShutOut)

(* A mutex of a missing device is kept: by main(), or by a countdown at 0.  *)
HungOnMissing == \E m \in Mutexes : DeviceOf(m) \in missing /\ ~Free(m)

(* Every command returns and QUIT ends the process, unless a device that is
   missing was asked to do something: nothing else leaves a mutex locked that
   main() may come to want.                                                *)
OnlyMissingDevicesHang ==
  at[Main] # "idle" ~>
    at[Main] = "idle" \/ ended # "no" \/ ShutOut \/ HungOnMissing
=============================================================================
