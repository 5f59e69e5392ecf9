# TLA+ models of the Raspberry Pi IoT server

TLA+ modules, TLC configurations and TLAPS proofs for the C program in this
repository: a daemon (`main.c`, `web_server.c`) that drives an LED, a 7-segment
display, a buzzer and a light sensor on behalf of browsers and TCP clients,
through four shared libraries (`libled.c`, `libsegment.c`, `libbuzzer.c`,
`libcds.c`).

    tlc -workers 2 -config MCBuzzer.cfg MCBuzzer     # model-check one instance
    tlapm BuzzerProofs.tla                           # check the proofs

## 1. The system

| Component | State | Operations | Called by / calls |
|---|---|---|---|
| Server loop, `main.c:368-475` | `running`, `server_fd`, one `client_fd`, two buffers | select/accept, serve one client to its end, exit on QUIT | calls the dispatcher; kernel queue of 3 connections |
| HTTP front end, `web_server.c` | none between requests | recognise, parse, execute, answer, one request per connection | called by `handle_client` |
| Dispatcher, `main.c:177-309` | table of handlers | prefix match, call, format the answer; `ALL_OFF` is five calls | calls the libraries through function pointers |
| Buzzer, `libbuzzer.c` | `is_playing`, `music_thread_id`, `running`, one mutex | init, play, stop, cleanup; `melody_thread` | main thread, and countdown threads through `dlopen` |
| Display, `libsegment.c` | `is_counting`, `countdown_tid`, `countdown_stop_requested`, `running`, buzzer pointers, one mutex | init, display, off, countdown, stop, cleanup; `countdown_thread` | main thread; calls the buzzer at 0 |
| Light sensor, `libcds.c` | last value and judgement, `auto_led_enabled`, `running`, two mutexes | init, read, get, auto start/stop, manual off, cleanup; `auto_led_thread` | main thread |
| LED, `libled.c` | brightness, one mutex | init, on, off, brightness, cleanup | main thread |
| Start, `main.c:89-151, 374-429` | library handles, PID file | daemonize, load, initialise devices, listen | libraries' inits |
| Shutdown, `main.c:160-175, 465-474` | none but the pending alarm | the signal handler, on top of any thread, and the end of `main` do the same: clean up devices, unload, remove PID file, exit | libraries' cleanups |
| Command line client, `client.c` | none | connect, send, one read, close per command | server |

What makes it hard:

- **Detached threads that are joined.** Every worker thread is detached at birth.
  The joins in the stop functions therefore return at once, and the threads are
  governed only by flags that all threads of a kind share: a thread that ends
  clears the flag of its successor, one that starts overrides a stop.
- **Locks let go in the middle of a function** (before the join or the sleep), and
  handles and flags read outside any lock.
- **Stop requests by polling**: a request is seen only if it stands at a poll.
- **A control loop in several critical sections** (read, judge, drive the LED)
  beside commands that use the same variables.
- **One thread for all clients**, blocking reads without a timeout, sends whose
  result nobody looks at, and SIGPIPE at its default.
- **Initialisation failures that nobody notices**: the next call locks its own
  mutex twice.
- **A signal handler that does everything**: it logs, locks the mutexes its own
  thread may hold, sleeps, unloads libraries under live threads, and can be
  interrupted by another signal or run on two threads at once.
- **Two libraries calling each other's threads**: a countdown is a caller of the
  buzzer, next to the main thread, under two locks.

What makes each part correct: flags, handles and threads agree (buzzer,
display, sensor); every sound, countdown and controller ends; what "off" and
"stop" promise; the LED settles where the light says; every command returns;
every session is closed, every command answered, QUIT ends the loop (server); a
countdown's ring ends with it, and the buzzer is not released under it (display
and buzzer together); SIGTERM ends the process, dark and without its PID file
unless something was caught in a lock (process).
`PROJECT.json` lists each hazard at its line with the property that covers it, or
with what the modules show of it where the code does go wrong.

## 2. Modules

| Module | Models | Size of the abstraction |
|---|---|---|
| `Speaker` | what libbuzzer promises of the sound: it sounds only while a player is in its loop, and players leave silence | abstract specification |
| `Buzzer` | `libbuzzer.c`, implements `Speaker` (mapping `Promise`: the players are the threads between their start and their final silence) | notes are indices, a tone is on or off |
| `Segment` | `libsegment.c` | pins are a number or `Blank`; time in polls of 100 ms |
| `Cds` | `libcds.c`, and `handle_cds_read` of `main.c` | a reading is one of a few integers |
| `Desk` | what the server promises to those who connect: one at a time, in the order of arrival; who came with one question and stays is not sent away with nothing; only the one being served shuts it | abstract specification |
| `Server` | `handle_client` and the main loop of `main.c`, the control flow of `web_server.c`, `client.c`, the page's `fetch`; telnet sessions as external; implements `Desk` (mapping `Promise`: the line is the listen queue, a turn is the accepted connection, told is whoever was sent anything) | a message is one of five names |
| `Ring` | `Segment` and `Buzzer` composed: countdowns are callers of the buzzer; one clock for all delays; implements both components | as its components; `fnd_display` left out |
| `Process` | `main.c` around its sessions and `libled.c`: start, commands as sequences of library calls, signals, the two ways out | a library call is one action; a device is ready or not, the display lit or dark |
| `BuzzerProofs`, `SegmentProofs`, `CdsProofs`, `ServerProofs`, `RingProofs`, `RingSafetyProofs`, `ProcessProofs`, `ShutdownProofs` | theorems | every value of the constants |
| `MCBuzzer`, `MCSegment`, `MCCds`, `MCServer`, `MCRing`, `MCProcess` | instances for TLC | |

Conventions, the same in all modules. Variables carry the names of the source.
A critical section that makes no blocking call is one action; a read outside the
lock is an action of its own. The first section of a function is `...Enter`,
later ones are named for what they do (`Join`, `Relock`, ...); a thread's actions
are named for the places of its loop. A function that returns without changing
anything (a refused argument, a status query) is a stutter and has no action.
`at = "self"` means that a caller has locked a mutex it already holds. Handles
come from a finite set, a thread that has ended gives its handle back, so the
set bounds the threads alive at once, not those ever created. Definitions with
names such as `FinishKeepsFlag`, just before the action they resemble, are
faulty variants of that action: each property is known to fail on one of them.

`Buzzer` keeps the mutex as a variable because `buzzer_play` holds it from its
decision to the detach of the new thread, and a joiner may read the new handle
between create and detach, when the thread can still be joined for real.
`crashed` is `pthread_join(0)`, which glibc dereferences, or the join of `Stray`. This
is the handle that a failed `pthread_create` may leave behind (POSIX: its contents
are then undefined, and glibc stores it before clone); neither library resets it,
so a later join is given it, with an outcome that is open.

`Segment` has no mutex variable (no section contains a blocking call). Its
constant `Punctual` chooses between arbitrary timing, where any delay may end
before any other, and a prompt scheduler, under which time passes only when
nobody can run and passes for everybody. The second is needed only for what the
code claims on the strength of its `sleep(1)`.

`Cds` keeps `auto_led_state.mutex` as a variable because `cds_cleanup` writes the
state it protects without it.

`Server` treats each client as a connection that can come back. `recv` takes what
has arrived; a TCP session acts on its first line only, an HTTP request is
whatever the one `recv` returned. A client that has left answers the first send
with a reset, which comes in before or after the server's next call; a send
after it kills the process. Every client may leave at any moment, client.c too (it
may be killed while it waits for its one read).

`Ring` INSTANCEs `Segment` and `Buzzer` over one set of variables. Its steps are
steps of one of them or, where a countdown calls `buzzer_play` or `buzzer_stop`,
of both at once. Mutexes, joins and creation are those of `Buzzer`; what `Ring`
adds is who may move: a thread inside a buzzer function does nothing else, and
time passes only when nobody can run. Three history variables, which change no step,
say what the properties are about: `player` is who started each melody, `waited` the
countdowns that a `pthread_join` has really held up (until the next command of
libsegment that finds the join over), and `lost` the countdowns one of whose melodies no
`buzzer_stop` reaches any more: because another caller forgot the handle while
something was playing or about to (`Loses`), or because the countdown's own
`buzzer_stop` found `is_playing` cleared by another caller while a melody was about to
set it again (`Hushes`).

`Process` tells threads from what runs on them: an *activity* is `main()` or the
handler of signal `s` on thread `t`. A signal puts a handler on top of whatever its
thread executes, for good (`stopped`). If that was inside a critical section, the
mutex is kept for good (`mutex` names only such holders and those that locked
twice, since all other sections are over within one action). `Commands` is the
table of `process_command`: each command's library calls in order. The signal
handler and the end of `main` are one sequence of actions (`LeavingStep`), with and
without an alarm. `missing` says which devices fail in their init, `forgotten`
records (and changes no step) which countdowns live although a command, or the end
of another countdown, cleared their flags. The devices' own behaviour is that of
the other modules, reduced to what the way out and the locks need. A countdown that
a command interrupted lives on beside the next one, under the same flags, so there
may be several (`Countdowns`); of melodies and of controllers at most one lives.
`light` is the value of the last `pwmWrite`. `cds_auto_led_stop` takes two mutexes one
after the other and is two calls (`CallAutoStop` and the one it puts in front of the
rest of the command).

## 3. Runs

| Run | Question | Result |
|---|---|---|
| `buzzer` | two callers, two overlapping melodies, fair threads: flag against threads, refinement of `Speaker`, sounds end, calls return | holds |
| `buzzer_overlap` | does `buzzer_play` wait for the melody it interrupts (`libbuzzer.c:88`)? | no |
| `segment` | main and two overlapping countdowns, any timing: handle (never of a thread that has ended), flag and request against threads; countdowns end | holds |
| `segment_stop` | prompt scheduler: is the second that `fnd_stop` sleeps enough, and are the two of `fnd_cleanup`? | yes, for a countdown that is alone |
| `segment_off` | does `SEGMENT_OFF` stop the countdown (`libsegment.c:250`)? | no |
| `cds` | main, two controllers, a light that changes, failing reads: flag against threads, LED follows the light, controllers leave, commands return, a released LED is left alone | holds, but for one write that the release may overtake |
| `cds_stop` | is the LED off after `CDS_AUTO_STOP` / `ALL_OFF`? | not always |
| `cds_reply` | do value and judgement of `CDS_READ` agree? | not always |
| `server` | telnet, browser and client.c: sessions closed, nothing lost, QUIT effective, requests served, who can crash the server, refinement of `Desk` | holds, if telnet sessions end some day; a telnet session or a killed client.c can crash it (below) |
| `server_web` | are browsers served beside TCP sessions (`README.md:7`)? | not beside a silent one |
| `ring` | a countdown that rings while main executes commands of both libraries and leaves: does `SEGMENT_STOP` end the ring, does a countdown that was known and alone call a released buzzer, can the two locks and the joins block each other? | `SEGMENT_STOP` ends it but for two overlaps (below); only one that `buzzer_play` held up meanwhile (below); no, if the buzzer works |
| `process` | the daemon from fork to exit, two commands, two countdowns, two signals at any point, the buzzer present or missing: what is left at exit, when does the alarm kill, when does unloading fault, what hangs? | holds, with the exceptions each property names |

What the compositions and the server showed of the code, each stated in the
property that excepts it:

- A countdown's `buzzer_play` reads the handle outside the lock (`libbuzzer.c:88`). If
  main creates a melody just then, the handle is that of a thread not yet detached
  and the join is real: the countdown sleeps in it for the whole melody, and
  `SEGMENT_STOP` returns with the countdown alive (`HeldUp`). If the server leaves
  meanwhile, the 2 seconds of `fnd_cleanup` are not enough either: the countdown comes
  back from its join inside a buzzer that has been released, and goes on to
  `pthread_create` (`CleanupLeavesNoCaller` excepts it).
- A `BUZZER_STOP` that overlaps the countdown's `buzzer_play` sets the handle to 0 when
  it takes the lock again (`libbuzzer.c:120`), which may by then be the handle of the
  countdown's new melody; and two callers that interrupt each other may leave
  `is_playing` cleared while a melody is about to set it. No stop finds such a melody,
  it plays to its end (`lost`). It takes a BUZZER_ command that crosses a call of the
  countdown: with no such command `lost` stays empty, and without the exception
  TLC finds `StopEndsRing` violated.
- The alarm kills a clean shutdown only if it meets a mutex whose holder does not
  return, or while `fnd_cleanup` sleeps for a countdown: its 2 seconds are the
  alarm's (`libsegment.c:405`, `main.c:165`), and the alarm was set first, so a
  countdown in progress on SIGTERM costs the PID file (`KilledOnlyWhenCaught`).
- A signal that interrupts `write_log` inside the C library's locks is not ended by the
  alarm, which the handler sets after its own log (`ShutOut`).
- Unloading can fault under a melody, a controller, or a countdown whose flags were
  cleared while it lived: by the command that interrupted it (`SEGMENT_OFF`,
  `SEGMENT_DISPLAY`, `SEGMENT_COUNTDOWN`), or by the epilogue of another countdown. The
  last needs no command that forgets the countdown it hits: `SEGMENT_COUNTDOWN` over a
  running one leaves two, the end of the older clears the flags of the newer
  (`libsegment.c:167-169`), `fnd_cleanup` finds none set and does not wait
  (`libsegment.c:403`). Under every other countdown one shutdown alone is safe.
- A countdown that ends on a missing buzzer keeps its mutex: the next `ALL_OFF` hangs.
- A client that is gone before its turn comes is sent greeting and answer
  (`main.c:333, 344`), and the second send raises SIGPIPE. The page gets one send only,
  and a client.c that has had its read is sent one more at most. So it is a telnet
  session hung up at the wrong moment that ends the server, or a client.c killed
  before anything was sent to it (`SurvivesItsClients`).

The violations are disagreements between the code and what its comments or its
README say; `PROJECT.json` quotes both sides under `findings`.

### Bounds

Two threads of a kind suffice to have an old and a new one disagree about the
shared flag, handle or request; all properties are about pairs. The melody has
a note and a rest (three notes in the overlap run), as each phrase of the real
one ends in a rest. Countdowns start from at most 2, which has a digit that is
counted down from, one that is counted through, and 0. A digit and the ring last
two or three polls; the sleeps are chosen so that their order to the polls is the
real one (`fnd_stop` and `fnd_cleanup` sleep for longer than one poll, as
`SegmentAssumption` demands, and the ring is longer than the sleep of `fnd_stop`). The sensor returns -1 (an error) or a value on
either side of the real threshold. One client of each kind with a queue of two
gives every order of arrival, and the clients come back, so that old and new
connections meet. The inbox holds two messages, enough for two lines to meet or
for a request in one piece.

`ring` has one countdown, from 1, two melodies alive at once and four commands, so
that two plays can precede the stop of a ringing countdown. Its polls, notes and
sleeps are shorter than the real ones in the same order (a poll and a note take
less than the sleep of `fnd_stop`, that less than the one of `fnd_cleanup`; the
ring ends before its melody). `process` has two signals (`MaxSignals`), which is
enough for a nested handler, for one on a worker beside one on main, and for a
second shutdown in the middle of a first; `Struck` lets the kernel choose a
countdown as the worker, the only kind a cleanup waits for. Two countdowns, and the
two commands (`MaxCommands`) that start them, are an old one whose end clears the
flags of a new one. `Levels` are a brightness that exists and one that does not.
`Missing` is no device or the buzzer, which two threads call. One melody and one
controller are enough there, as nobody waits for them and nothing turns on how many
there are; overlapping ones are the business of the libraries' modules. Timers all
last two seconds and expire in the order in which they were set.

`buzzer` starts from a device that was initialised: otherwise the first call
blocks on itself and no call returns, which is listed as a hazard. Calls on a
released device are still in the run, after the cleanup. `segment` and `cds` let
initialisation fail.

### Fairness

Weak fairness for the steps of a thread that is alive and of a call that was
made: the kernel schedules runnable threads and delays end. Strong fairness
where a thread waits for a mutex that others take again and again (`Buzzer`,
`Cds`): holders are short and pthread mutexes on Linux do not starve a waiter
for ever. No fairness for commands: nobody has to send one. In `Server` browsers
and client.c do what their code does next (send; client.c leaves once it has been
sent something to read), nobody has to be killed or to close a page, and
only `PatientSpec` assumes that people hang up. `segment_stop`, `segment_off`
and `ring` check invariants and need none. In `Process` what can run does
(main, handlers), a countdown comes to its end and time passes; nobody has to
send a command or a signal, and no fairness is asked of melodies and controllers,
which nobody waits for.

## 4. Proofs

| Theorem | Says | Argument |
|---|---|---|
| `BuzzerProofs!TypeCorrect` | types | with `WritesRealNotes`: between the loop check and the write nobody moves a thread's note index, without which the index could pass the end |
| `BuzzerProofs!PlayingIsBacked` | `PlayingHasPlayer` | inductive over types: only a start sets the flag and only the end of a thread that cleared it takes a player away |
| `BuzzerProofs!BuzzerKeepsPromise` | `Buzzer` implements `Speaker` | step simulation: start is `Begin`, a note is `Write`, the silence after the loop is `End`, the callers' silencing is `Hush`, all else stutters |
| `BuzzerProofs!SoundIsBacked` | who sounds has a player | from the refinement, not by a second induction |
| `SegmentProofs!TypeCorrect` | types, the digit indexes `number_patterns` | with `WaitsAboveZero`: a thread in the wait loop has a digit left, so the decrement stays in range |
| `SegmentProofs!HandleIsLive` | `TidIsLive`: the thread that `countdown_tid` names is alive | inductive: every thread that ends clears the handle, whosever it is. Nothing is said of a handle that names no thread, which only a failed `pthread_create` leaves (`Stray`) |
| `SegmentProofs!CountingIsBacked` | `CountingHasThread` | inductive over types |
| `SegmentProofs!RequestsDoNotOutlive` | `NoStaleStopRequest` | inductive form `NoRequestAtRest`: nothing is asked to stop before `fnd_init` either |
| `SegmentProofs!StopIsLongEnough`, `SegmentProofs!CleanupIsLongEnough` | `StopEndsLoneCountdown`, `CleanupEndsLoneCountdown` | inductive `SleepInv`. While main sleeps for a lone countdown it stays the only one (`StaysAlone`), main can see it when it looks (`StaysKnown`), and it cannot miss what it is told: after `fnd_stop` it has started, so that it does not clear the request again, and after `fnd_cleanup` `running` is off (`StaysTold`). So it dozes at most once more, in the `delay(100)` it was in or was on its way to (`SleepsLonger`), and the sleep is longer: this needs a sleep of more than one poll, and with one of a single poll it is false |
| `BuzzerProofs!CallsAreOrdered` | `CallInv`: lock, joins and new threads | inductive over types. The holder of the mutex is in a long section; a descriptor is held by one joiner, for whom alone a zombie stays; a thread that is not detached yet is the last one created and has not started; melodies and joins are those of an initialised device until main releases it |
| `CdsProofs!TypeCorrect` | types | the sensor value and the judgement are only written from their ranges |
| `CdsProofs!EnabledIsBacked` | `EnabledHasController` | with `EnabledIsServed`: only the cleanup takes the devices away, after it has cleared both flags, so no controller that is wanted leaves or blocks on itself |
| `CdsProofs!LocksAreHandedBack` | `LedHolders`, `StuckOnlyUnready`: the two mutexes block nobody for good | inductive with `EnabledIsServed`: a holder of the LED's mutex is about to write and unlock; a thread blocks on itself only where a device is not initialised |
| `CdsProofs!ReleasedLedRests` | `ReleasedLedIsLeft` | an action property, from the same invariant: the writer is the one holder of the mutex, and whoever takes it after the cleanup finds the device gone |
| `ServerProofs!TypeCorrect` | types | with the place of the server and what its buffer holds |
| `ServerProofs!SessionsAreExclusive` | `OneSession` | strengthened: the queue holds exactly the queued clients, each once |
| `ServerProofs!OnlyHangUpsCrash` | `SurvivesItsClients`: who can raise SIGPIPE | strengthened to `MannersInv`: a browser is sent one answer per connection, so the reset comes to a closed one; client.c speaks once, so it is sent greeting and answer at most, and if it was there for the first, the second does no harm. What is left is a telnet session, or a client.c that left before it was sent anything |
| `ServerProofs!EveryCommandAnswered` | `NothingLost` | strengthened to `AccountInv`: while no lines have met, what a TCP client is owed is the command in its receive buffer plus the one in the server's hand, each one line at most; needs `MannersInv` for client.c, which speaks once |
| `ServerProofs!ServerKeepsTurnOrder` | `Server` implements `Desk` | step simulation: accept is `Call`; a send, a QUIT and a close are `Serve`; connecting, leaving and coming back are `Come`, `WalkOff` and `Forget`; all else stutters. A close must not send away a browser or a client.c that stays and was told nothing, which needs `VisitInv`: a client.c whose line is looked at was greeted, if it stays, and who is yet to connect was told nothing that could count for the coming visit |
| `RingProofs!RingIsSegment`, `RingProofs!RingIsBuzzer` | every behaviour of the composition is one of `Segment` and one of `Buzzer` | step simulation, one case per kind of step: a step is a component's own, a call of one by the other, or a tick, which `Segment` knows as `Elapse` and `Buzzer` as a stutter. `SleepsTyped` bounds the sleeps so that a tick is an `Elapse` |
| `RingSafetyProofs!RingTypeCorrect` | types | from the components' theorems and `Fitting` (below) |
| `RingSafetyProofs!RingsComeToAnEnd` | `NobodyIsLeftWaiting` | no induction of its own: if nobody can run, the mutex is free, since its holder could run (`CallsAreOrdered`); so every caller has returned or waits for a melody, every melody dozes, and if no time is awaited none is left |
| `RingSafetyProofs!StopOutlastsRing`, `RingSafetyProofs!CleanupOutlastsCallers` | `StopEndsRing`, `CleanupLeavesNoCaller`, with their exceptions (`HeldUp`, `lost`) | inductive `InTime`: at most one tick passes before a countdown that is not held up is over (`CountdownInTime`). While one of its melodies plays and is not `lost` there is a handle (`HandleIsKept`), and no other countdown's rings (`RingIsLone`); so its `buzzer_stop` finds `is_playing` set, or nothing is going any more and nothing will (`RingsAreHeard`), and what the last note leaves is less than what main still sleeps (`MelodyInTime`) |
| `ProcessProofs!TypeCorrect` | types, the PWM values included | with `CallsLeft`: main has a call left whenever it executes one, so `Head` and `Tail` are applied to non-empty sequences; the commands are checked one by one |
| `ProcessProofs!ExitsClean` | `ExitIsClean` | inductive invariant `WayOut`: a device that is not ready is dark and stays so (no call, countdown or handler makes it ready again once somebody leaves, since a handler stops main for good), and an activity that is past a device's cleanup has left it not ready |
| `ShutdownProofs!KillsOnlyTheBlocked` | `KilledOnlyWhenCaught` | an alarm belongs to a handler that has begun (`AlarmsOwned`), while there are handlers one is on top of all (`OneOnTop`), and time passes only when that one cannot move: it sleeps, or the mutex it wants is kept for a reason (`KeptForReason`), which for a mutex locked twice is a missing device, as main tries to initialise all before its first command (`InitsFirst`) |
| `ShutdownProofs!WaitProtectsCountdown` | `FaultsOnlyUnderWorkers`, for any number of countdowns | a countdown counts (`Counting`) while it lives and is not `forgotten`. As long as one counts, `countdown_tid` is set until somebody is past the cleanup of the display (`CountsKnown`), so a lone shutdown that meets it sleeps; `running` is off by then and is never set again (`AskedFirst`), which tells all countdowns at once. The sleep ends only when those that count have ended or are kept out by a mutex, and then so is the shutdown, for ever (`OneLeaves`). The libraries are closed only with somebody at the end (`Closing`) |

The only assumptions are those on the constants (`BuzzerAssumption`, ...). Those on
lengths are weaker than the code: the sleeps of `fnd_stop` (1 s) and `fnd_cleanup`
(2 s) are longer than one poll (0.1 s), and in `Ring` the first is longer than a
note (0.28 s) and a poll together. Nothing is assumed of the lengths of a digit,
of the ring or of the melody.

The proofs about `Ring` reuse those of its components. `RingProofs` shows that every
behaviour of `Ring` is one of `Segment` and one of `Buzzer`; `RingSafetyProofs`
instantiates `SegmentProofs` and `BuzzerProofs` with Ring's variables, so that their
theorems hold here. (The prover takes `fnd!Next` and `fndP!Next` for two operators;
the lemmas named `Same...` expand both.) On top of them stands `Fitting`, what the
two owe to each other: libbuzzer is open between `fnd_init` and the end of
`fnd_cleanup` (`OpenBetween`), main is in one library at a time and leaves them in
order (`OneLibrary`), a countdown inside `buzzer_play` is in the first delay of its
ring (`InsideFits`), and the history variables say what they mean (`MarksFit`).
`InTime` adds the clock. TLC has checked every part of `Fitting`, `InTime`, `SleepInv`,
`CallInv`, the locks of `Cds` and `VisitInv` as an invariant on the instances of `ring`,
`segment_stop`, `buzzer`, `cds` and `server` before it was proved.

Every invariant of the passing runs is proved, and every action property.
Liveness (`SoundEnds`, `CallsReturn`, `CountdownEnds`, `FollowsLight`,
`ControllersLeave`, `CommandsReturn`, `QuitEnds`, `RequestsServed`, `SignalEnds`,
`OnlyMissingDevicesHang`) is model-checked only: it is out of the prover's reach.
The theorems about `Process` hold for any number of signals, commands and countdowns,
any workers that can be struck and any devices that are missing, of which its run
tries the smallest sets, and those about `Ring` for any number of countdowns, of
which its run has one.

## 5. Not modelled, and why

- Matching a command by prefix: it decides which entry of the table a text means,
  and a text that means none makes no library call.
- System calls of `daemonize` one by one, and a load that fails half-way: straight
  lines before any thread exists, each ending in the same return.
- The C library's own locks, except those of `syslog` (`"log"`): the lock of `stdout`
  is taken inside the libraries' sections and would add a second way to be caught.
- SIGPIPE is in `Server`, not in `Process`, where it would be one more way to end.
- In `Process`: the joins of `cds_cleanup`, `buzzer_cleanup` and the stop functions (all
  threads are detached, so they return at once; the exceptions, among them a handle
  that is no more, are in `Buzzer` and `Segment`), overlapping melodies and controllers,
  what the controller's LED shows, and closing the server's socket.
- In `Ring`: `fnd_display`, which interrupts a countdown as `fnd_off` does.
- What the pins show after the libraries released them, but for who still writes the
  sensor's LED (`ReleasedLedIsLeft`).
- Texts: answers, logs, HTML, JSON escaping. The greeting is cut short in the middle
  of a character (`main.c:333` sends 9 of 13 bytes): no property is about it.
- `libcds_printx.c`, which nothing builds; `fnd_set_display_time`, `led_get_status` and
  `auto_led_manual_on`, which nothing calls.
- A telnet line that arrives in two segments, and errors of select and accept.

## 6. Plan

Done: the libraries with their threads, two of them composed, the server, the
process around them, and the theorems above, which cover every invariant and
action property of the passing runs. What can be added, in this order:

1. The safety half of the liveness properties, in the way `RingsComeToAnEnd` and
   `LocksAreHandedBack` state it: who waits is waited for by somebody who can move
   (`CallsReturn` of `Buzzer` alone, `OnlyMissingDevicesHang` of `Process`).
2. A second level under `Desk`: a session with its requests and answers in order, of
   which `NothingLost` is a consequence (`Desk` only says that a visit is not in vain).
