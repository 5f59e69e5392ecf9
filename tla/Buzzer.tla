------------------------------- MODULE Buzzer -------------------------------
(***************************************************************************)
(* libbuzzer.c: the melody player of the buzzer on GPIO 19.                *)
(*                                                                         *)
(* buzzer_play and buzzer_stop are called by the server's main thread and, *)
(* through libsegment, by countdown threads.  Every play creates a thread  *)
(* (melody_thread) and detaches it, so the pthread_join with which a later *)
(* call "waits" for it returns at once: what remains is the flag           *)
(* is_playing, shared by all melody threads.                               *)
(*                                                                         *)
(* A critical section that makes no blocking call is one action, enabled   *)
(* while the mutex is free.  `mutex' names its holder only where a section *)
(* spans several actions: buzzer_play between taking its decision and      *)
(* detaching the new thread, and a caller that locks it twice.             *)
(***************************************************************************)
EXTENDS Naturals

CONSTANTS
  Callers,      \* the threads that call the library's functions
  Main,         \* the caller that runs buzzer_init and buzzer_cleanup
  Melodies,     \* thread handles for melody_thread: bounds how many live at once
  NoThread,     \* the handle 0
  Stray,        \* a handle that pthread_create stored and gave no thread
  Nobody,       \* no holder of the mutex
  TotalNotes,   \* TOTAL_NOTES
  Rests,        \* the indices of school_bell_notes that hold 0
  GpioResults   \* what wiringPiSetupGpio may answer: TRUE is success

ASSUME BuzzerAssumption ==
  /\ Main \in Callers
  /\ Nobody \notin Callers
  /\ NoThread \notin Melodies
  /\ Stray \notin Melodies \cup {NoThread}
  /\ TotalNotes \in Nat \ {0}
  /\ Rests \subseteq 0 .. TotalNotes - 1
  /\ GpioResults \subseteq BOOLEAN

VARIABLES
  is_initialized,   \* buzzer_state.is_initialized
  mutex,            \* the holder of buzzer_state.mutex
  is_playing,
  music_thread_id,
  running,
  tone,             \* TRUE while softTone drives the pin at a frequency
  melody,           \* where each melody thread is
  note,             \* its loop variable i
  op,               \* the function each caller is executing
  at,               \* where in it the caller is
  joinee,           \* the thread a caller really blocks on in pthread_join
  crashed           \* the process died of pthread_join

vars == <<is_initialized, mutex, is_playing, music_thread_id, running, tone,
          melody, note, op, at, joinee, crashed>>

Ops == {"none", "play", "stop", "cleanup"}

(* "self": the caller has locked a mutex it already holds.  "boot" precedes
   buzzer_init, "gone" follows buzzer_cleanup.                             *)
CallerPlaces == {"boot", "idle", "join", "wait", "relock", "create", "detach",
                 "self", "gone"}

(* "none": not created, or ended and its descriptor given back.  "zombie":
   ended while a joiner holds on to its descriptor.                        *)
MelodyPlaces == {"none", "start", "check", "write", "silence", "finish",
                 "zombie"}

TypeOK ==
  /\ is_initialized \in BOOLEAN
  /\ mutex \in Callers \cup {Nobody}
  /\ is_playing \in BOOLEAN
  /\ music_thread_id \in Melodies \cup {NoThread, Stray}
  /\ running \in BOOLEAN
  /\ tone \in BOOLEAN
  /\ melody \in [Melodies -> MelodyPlaces]
  /\ note \in [Melodies -> 0 .. TotalNotes]
  /\ op \in [Callers -> Ops]
  /\ at \in [Callers -> CallerPlaces]
  /\ joinee \in [Callers -> Melodies \cup {NoThread}]
  /\ crashed \in BOOLEAN

Init ==
  /\ is_initialized = FALSE
  /\ mutex = Nobody
  /\ is_playing = FALSE
  /\ music_thread_id = NoThread
  /\ running = TRUE
  /\ tone = FALSE
  /\ melody = [t \in Melodies |-> "none"]
  /\ note = [t \in Melodies |-> 0]
  /\ op = [c \in Callers |-> "none"]
  /\ at = [c \in Callers |-> IF c = Main THEN "boot" ELSE "idle"]
  /\ joinee = [c \in Callers |-> NoThread]
  /\ crashed = FALSE

-----------------------------------------------------------------------------
(* Helpers.                                                                *)

Arrives(c, place) == at' = [at EXCEPT ![c] = place]

Returns(c) ==
  /\ at' = [at EXCEPT ![c] = "idle"]
  /\ op' = [op EXCEPT ![c] = "none"]

(* The first lines of every function: the call, and its lock.  Nobody calls
   before main has run buzzer_init.                                        *)
Calls(c, o) ==
  /\ ~crashed
  /\ at[c] = "idle"
  /\ at[Main] # "boot"
  /\ mutex = Nobody
  /\ op' = [op EXCEPT ![c] = o]

(* is_playing && music_thread_id != 0                                      *)
Interruptible == is_playing /\ music_thread_id # NoThread

(* pthread_detach undoes joinability under the same lock as pthread_create,
   so a thread can be joined for real only between those two calls, and by
   the first that tries.                                                   *)
Joinable(t) ==
  /\ \E d \in Callers : at[d] = "detach"
  /\ \A d \in Callers : joinee[d] # t

-----------------------------------------------------------------------------
(* The callers.                                                            *)

BuzzerInit ==
  /\ ~crashed
  /\ at[Main] = "boot"
  /\ \E ok \in GpioResults : is_initialized' = ok
  /\ tone' = FALSE
  /\ Arrives(Main, "idle")
  /\ UNCHANGED <<mutex, is_playing, music_thread_id, running, melody, note, op,
                 joinee, crashed>>

(* buzzer_play up to its first unlock, or to pthread_create.  On a device
   that is not initialised it calls buzzer_init with the mutex held, and
   buzzer_init locks that mutex again.                                     *)
PlayEnter(c) ==
  /\ Calls(c, "play")
  /\ \/ /\ ~is_initialized
        /\ mutex' = c
        /\ Arrives(c, "self")
        /\ UNCHANGED is_playing
     \/ /\ is_initialized /\ Interruptible
        /\ is_playing' = FALSE
        /\ Arrives(c, "join")
        /\ UNCHANGED mutex
     \/ /\ is_initialized /\ ~Interruptible
        /\ mutex' = c
        /\ Arrives(c, "create")
        /\ UNCHANGED is_playing
  /\ UNCHANGED <<is_initialized, music_thread_id, running, tone, melody, note,
                 joinee, crashed>>

(* buzzer_stop: on a device that is not initialised it returns at once and
   changes nothing.                                                        *)
StopEnter(c) ==
  /\ ~crashed
  /\ at[c] = "idle" /\ at[Main] # "boot"
  /\ mutex = Nobody
  /\ is_initialized
  /\ \/ /\ Interruptible
        /\ is_playing' = FALSE
        /\ op' = [op EXCEPT ![c] = "stop"]
        /\ Arrives(c, "join")
        /\ UNCHANGED tone
     \/ /\ ~Interruptible
        /\ tone' = FALSE
        /\ UNCHANGED <<is_playing, op, at>>
  /\ UNCHANGED <<is_initialized, mutex, music_thread_id, running, melody, note,
                 joinee, crashed>>

(* The tail of buzzer_cleanup, under its lock.                             *)
Release ==
  /\ tone' = (tone /\ ~is_initialized)
  /\ is_initialized' = FALSE

CleanupEnter ==
  /\ Calls(Main, "cleanup")
  /\ running' = FALSE
  /\ \/ /\ Interruptible
        /\ is_playing' = FALSE
        /\ Arrives(Main, "join")
        /\ UNCHANGED <<is_initialized, tone>>
     \/ /\ ~Interruptible
        /\ Release
        /\ Arrives(Main, "gone")
        /\ UNCHANGED is_playing
  /\ UNCHANGED <<mutex, music_thread_id, melody, note, joinee, crashed>>

(* pthread_join(music_thread_id), outside the lock.  The handle is read here:
   another caller may have cleared it (glibc then dereferences 0) or put a
   new, not yet detached thread there.  Joining a detached thread, alive or
   ended, returns an error at once and nobody looks at it; what it finds
   behind a handle without a thread is open.                               *)
Join(c) ==
  /\ ~crashed
  /\ at[c] = "join"
  /\ \/ /\ music_thread_id \in {NoThread, Stray}
        /\ crashed' = TRUE
        /\ UNCHANGED <<at, joinee>>
     \/ /\ music_thread_id \in Melodies /\ Joinable(music_thread_id)
        /\ joinee' = [joinee EXCEPT ![c] = music_thread_id]
        /\ Arrives(c, "wait")
        /\ UNCHANGED crashed
     \/ /\ music_thread_id # NoThread
        /\ music_thread_id \in Melodies => ~Joinable(music_thread_id)
        /\ Arrives(c, "relock")
        /\ UNCHANGED <<joinee, crashed>>
  /\ UNCHANGED <<is_initialized, mutex, is_playing, music_thread_id, running,
                 tone, melody, note, op>>

(* A join that really waited returns, and frees the descriptor.            *)
Joined(c) ==
  /\ ~crashed
  /\ at[c] = "wait"
  /\ joinee[c] \in Melodies
  /\ melody[joinee[c]] = "zombie"
  /\ melody' = [melody EXCEPT ![joinee[c]] = "none"]
  /\ joinee' = [joinee EXCEPT ![c] = NoThread]
  /\ Arrives(c, "relock")
  /\ UNCHANGED <<is_initialized, mutex, is_playing, music_thread_id, running,
                 tone, note, op, crashed>>

(* Each function locks again after its join and forgets the handle; then
   buzzer_play goes on to create a thread, buzzer_stop silences the pin and
   buzzer_cleanup releases the device.                                     *)
Relock(c) ==
  /\ ~crashed
  /\ at[c] = "relock"
  /\ mutex = Nobody
  /\ music_thread_id' = NoThread
  /\ \/ /\ op[c] = "play"
        /\ mutex' = c
        /\ Arrives(c, "create")
        /\ UNCHANGED <<is_initialized, tone, op>>
     \/ /\ op[c] = "stop"
        /\ tone' = FALSE
        /\ Returns(c)
        /\ UNCHANGED <<is_initialized, mutex>>
     \/ /\ op[c] = "cleanup"
        /\ Release
        /\ Arrives(c, "gone")
        /\ UNCHANGED <<mutex, op>>
  /\ UNCHANGED <<is_playing, running, melody, note, joinee, crashed>>

CreateKeepsLock(c) ==
  /\ ~crashed
  /\ at[c] = "create"
  /\ \/ /\ Returns(c)
        /\ UNCHANGED <<mutex, melody, music_thread_id>>
     \/ \E t \in Melodies :
          /\ melody[t] = "none"
          /\ melody' = [melody EXCEPT ![t] = "start"]
          /\ music_thread_id' = t
          /\ Arrives(c, "detach")
          /\ UNCHANGED <<mutex, op>>
  /\ UNCHANGED <<is_initialized, is_playing, running, tone, note, joinee, crashed>>

(* pthread_create, under the lock: it stores the new handle, or it fails, and
   then it may have stored one, too.                                       *)
Create(c) ==
  /\ ~crashed
  /\ at[c] = "create"
  /\ \/ /\ mutex' = Nobody
        /\ Returns(c)
        /\ music_thread_id' \in {music_thread_id, Stray}
        /\ UNCHANGED melody
     \/ \E t \in Melodies :
          /\ melody[t] = "none"
          /\ melody' = [melody EXCEPT ![t] = "start"]
          /\ music_thread_id' = t
          /\ Arrives(c, "detach")
          /\ UNCHANGED <<mutex, op>>
  /\ UNCHANGED <<is_initialized, is_playing, running, tone, note, joinee, crashed>>

(* pthread_detach (which changes nothing once a joiner waits), unlock and
   return.                                                                 *)
Detach(c) ==
  /\ ~crashed
  /\ at[c] = "detach"
  /\ mutex' = Nobody
  /\ Returns(c)
  /\ UNCHANGED <<is_initialized, is_playing, music_thread_id, running, tone,
                 melody, note, joinee, crashed>>

-----------------------------------------------------------------------------
(* melody_thread.                                                          *)

MelodyStart(t) ==
  /\ ~crashed
  /\ melody[t] = "start"
  /\ mutex = Nobody
  /\ is_playing' = TRUE
  /\ melody' = [melody EXCEPT ![t] = "check"]
  /\ UNCHANGED <<is_initialized, mutex, music_thread_id, running, tone, note,
                 op, at, joinee, crashed>>

MelodyCheckReadsPast(t) ==
  /\ ~crashed
  /\ melody[t] = "check"
  /\ melody' = [melody EXCEPT ![t] =
                  IF note[t] <= TotalNotes /\ is_playing /\ running
                  THEN "write" ELSE "silence"]
  /\ UNCHANGED <<is_initialized, mutex, is_playing, music_thread_id, running,
                 tone, note, op, at, joinee, crashed>>

(* The loop condition, read without the lock.                              *)
MelodyCheck(t) ==
  /\ ~crashed
  /\ melody[t] = "check"
  /\ melody' = [melody EXCEPT ![t] =
                  IF note[t] < TotalNotes /\ is_playing /\ running
                  THEN "write" ELSE "silence"]
  /\ UNCHANGED <<is_initialized, mutex, is_playing, music_thread_id, running,
                 tone, note, op, at, joinee, crashed>>

(* softToneWrite of the next note; delay(280) lies before the next check.  *)
MelodyWrite(t) ==
  /\ ~crashed
  /\ melody[t] = "write"
  /\ tone' = (note[t] \notin Rests)
  /\ note' = [note EXCEPT ![t] = @ + 1]
  /\ melody' = [melody EXCEPT ![t] = "check"]
  /\ UNCHANGED <<is_initialized, mutex, is_playing, music_thread_id, running,
                 op, at, joinee, crashed>>

MelodySilenceIfStopped(t) ==
  /\ ~crashed
  /\ melody[t] = "silence"
  /\ tone' = (tone /\ is_playing)
  /\ melody' = [melody EXCEPT ![t] = "finish"]
  /\ UNCHANGED <<is_initialized, mutex, is_playing, music_thread_id, running,
                 note, op, at, joinee, crashed>>

(* softToneWrite(0) after the loop.                                        *)
MelodySilence(t) ==
  /\ ~crashed
  /\ melody[t] = "silence"
  /\ tone' = FALSE
  /\ melody' = [melody EXCEPT ![t] = "finish"]
  /\ UNCHANGED <<is_initialized, mutex, is_playing, music_thread_id, running,
                 note, op, at, joinee, crashed>>

MelodyFinishKeepsFlag(t) ==
  /\ ~crashed
  /\ melody[t] = "finish"
  /\ mutex = Nobody
  /\ note' = [note EXCEPT ![t] = 0]
  /\ melody' = [melody EXCEPT ![t] =
                  IF \E c \in Callers : joinee[c] = t THEN "zombie" ELSE "none"]
  /\ UNCHANGED <<is_initialized, mutex, is_playing, music_thread_id, running,
                 tone, op, at, joinee, crashed>>

(* Clear the flag, whoever set it, and end.                                *)
MelodyFinish(t) ==
  /\ ~crashed
  /\ melody[t] = "finish"
  /\ mutex = Nobody
  /\ is_playing' = FALSE
  /\ note' = [note EXCEPT ![t] = 0]
  /\ melody' = [melody EXCEPT ![t] =
                  IF \E c \in Callers : joinee[c] = t THEN "zombie" ELSE "none"]
  /\ UNCHANGED <<is_initialized, mutex, music_thread_id, running, tone, op, at,
                 joinee, crashed>>

-----------------------------------------------------------------------------
(* The process has died, or main is on its way out of it.                  *)
Ended ==
  /\ crashed \/ at[Main] = "gone"
  /\ UNCHANGED vars

CallerInside(c) == Join(c) \/ Joined(c) \/ Relock(c) \/ Create(c) \/ Detach(c)

MelodyStep(t) ==
  \/ MelodyStart(t) \/ MelodyCheck(t) \/ MelodyWrite(t)
  \/ MelodySilence(t) \/ MelodyFinish(t)

Next ==
  \/ BuzzerInit
  \/ \E c \in Callers : PlayEnter(c) \/ StopEnter(c) \/ CallerInside(c)
  \/ CleanupEnter
  \/ \E t \in Melodies : MelodyStep(t)
  \/ Ended

Spec == Init /\ [][Next]_vars

(* Nobody has to call, but a call that was made and a thread that was created
   run on.  Strong fairness: a thread that waits for the mutex gets it if it
   is free again and again.                                                *)
Fairness ==
  /\ \A c \in Callers : SF_vars(CallerInside(c))
  /\ \A t \in Melodies : SF_vars(MelodyStep(t))

FairSpec == Spec /\ Fairness

-----------------------------------------------------------------------------
(* Properties.                                                             *)

(* PLAYING is never a stale answer: whenever is_playing is set, some melody
   thread has started and has not yet cleared it, whatever order the threads
   that share the flag started, were stopped and ended in.                 *)
PlayingHasPlayer ==
  is_playing => \E t \in Melodies : melody[t] \in {"check", "write", "silence", "finish"}

(* The speaker sounds only while some melody thread is still to execute the
   softToneWrite(0) after its loop: no interleaving of play, stop and thread
   ends leaves a note that nobody will end.                                *)
SoundHasPlayer ==
  tone => \E t \in Melodies : melody[t] \in {"check", "write", "silence"}

(* libbuzzer keeps the promise of Speaker, with the threads inside the note
   loop as the players.                                                    *)
Promise == INSTANCE Speaker WITH
  Players <- Melodies,
  playing <- {t \in Melodies : melody[t] \in {"check", "write", "silence"}}

KeepsPromise == Promise!Spec

(* A note never sounds for ever: melodies overlap, interrupt and outlive each
   other, but after every sound there is silence.                          *)
SoundEnds == tone ~> (~tone \/ crashed)

(* buzzer_play and buzzer_stop return, on every path and whatever the joins
   meet, unless the process dies or main has begun to leave it.            *)
CallsReturn ==
  \A c \in Callers :
    op[c] \in {"play", "stop"} ~> (op[c] = "none" \/ crashed \/ at[Main] = "gone")

(* libbuzzer.c:88 "wait for the previous thread to end": when buzzer_play has
   interrupted a melody and is about to start the new one, the thread it
   interrupted is over.                                                    *)
PlayWaitsForPrevious ==
  \A c \in Callers :
    (op[c] = "play" /\ at[c] = "relock") =>
      \A t \in Melodies : t = music_thread_id => melody[t] = "none"
=============================================================================
