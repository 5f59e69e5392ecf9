-------------------------------- MODULE Ring --------------------------------
(***************************************************************************)
(* libsegment and libbuzzer together: a countdown that reaches 0 calls     *)
(* buzzer_play, rings and calls buzzer_stop, while main executes commands  *)
(* of both libraries.                                                      *)
(*                                                                         *)
(* A step is a step of Segment, of Buzzer, or of both where one calls the  *)
(* other: libsegment opens the library the server has loaded, so flags,    *)
(* lock and melodies are shared.  A thread inside a buzzer function does   *)
(* nothing else until that returns.                                        *)
(*                                                                         *)
(* fnd_display interrupts a countdown as fnd_off does and is left out.     *)
(*                                                                         *)
(* Both components leave open how long a delay is.  Here all delays and    *)
(* sleeps are counted by one clock, and the scheduler is prompt: a tick    *)
(* (100 ms) passes only when no thread can run.                            *)
(***************************************************************************)
EXTENDS Integers

CONSTANTS
  Main, Nobody, NoThread, Stray, Blank,
  Countdowns,       \* bounds how many countdowns live at once
  Melodies,         \* bounds how many melodies live at once
  MaxDigit, PollsPerDigit, PollsPerRing, StopTicks, CleanupTicks,
  TotalNotes, Rests,
  NoteTicks,        \* delay(280) of a note
  BuzzerWorks,      \* what wiringPiSetupGpio may answer to buzzer_init
  MaxCommands       \* bound on the commands

Callers == Countdowns \cup {Main}

(* A note and a poll are over before the sleep of fnd_stop is: 0.28 s and 0.1 s
   against 1 s.                                                            *)
ASSUME RingAssumption ==
  /\ Main \notin Countdowns
  /\ Nobody \notin Callers
  /\ NoThread \notin Countdowns \cup Melodies
  /\ Stray \notin Countdowns \cup Melodies \cup {NoThread}
  /\ MaxDigit \in Nat \ {0}
  /\ Blank \notin 0 .. MaxDigit
  /\ PollsPerDigit \in Nat \ {0}
  /\ PollsPerRing \in Nat \ {0}
  /\ TotalNotes \in Nat \ {0}
  /\ Rests \subseteq 0 .. TotalNotes - 1
  /\ BuzzerWorks \subseteq BOOLEAN
  /\ NoteTicks \in Nat
  /\ StopTicks \in Nat /\ StopTicks > NoteTicks + 1
  /\ CleanupTicks \in Nat /\ CleanupTicks > 1
  /\ MaxCommands \in Nat

VARIABLES
  fnd_ready, is_counting, countdown_tid, countdown_stop_requested, fnd_running,
  buzzer_lib, display, countdown, i, left, nap, request, fnd_at, sleeping,
  fnd_crashed,                                    \* libsegment
  buzzer_ready, mutex, is_playing, music_thread_id, buzzer_running, tone,
  melody, note, op, buzzer_at, joinee, buzzer_crashed,        \* libbuzzer
  note_nap,         \* the ticks each melody has left in delay()
  player,           \* who started each melody
  waited,           \* the countdowns that a pthread_join has really held up
  lost,             \* the countdowns whose melody no buzzer_stop reaches
  commands          \* the commands executed

fnd == INSTANCE Segment WITH
  is_initialized <- fnd_ready, running <- fnd_running, at <- fnd_at,
  crashed <- fnd_crashed,
  Punctual <- FALSE, GpioResults <- {TRUE}, BuzzerLoads <- {TRUE}

buzzer == INSTANCE Buzzer WITH
  is_initialized <- buzzer_ready, running <- buzzer_running, at <- buzzer_at,
  crashed <- buzzer_crashed, GpioResults <- BuzzerWorks

fndVars == <<fnd_ready, is_counting, countdown_tid, countdown_stop_requested,
             fnd_running, buzzer_lib, display, countdown, i, left, nap, request,
             fnd_at, sleeping, fnd_crashed>>
buzzerVars == <<buzzer_ready, mutex, is_playing, music_thread_id,
                buzzer_running, tone, melody, note, op, buzzer_at, joinee,
                buzzer_crashed>>
marks == <<player, waited, lost>>            \* history: they change no step
vars == <<fndVars, buzzerVars, note_nap, marks, commands>>

TypeOK ==
  /\ fnd!TypeOK /\ buzzer!TypeOK
  /\ note_nap \in [Melodies -> 0 .. NoteTicks]
  /\ player \in [Melodies -> Callers \cup {Nobody}]
  /\ waited \subseteq Countdowns /\ lost \subseteq Countdowns
  /\ commands \in 0 .. MaxCommands

Init ==
  /\ fnd!Init /\ buzzer!Init
  /\ note_nap = [m \in Melodies |-> 0]
  /\ waited = {} /\ lost = {}
  /\ player = [m \in Melodies |-> Nobody]
  /\ commands = 0

-----------------------------------------------------------------------------
(* Who does what.                                                          *)

Inside(c) == buzzer_at[c] # "idle"

(* t has called buzzer_play and not yet come to the end of buzzer_stop.     *)
Ringing(t) == countdown[t] \in {"ring", "hush"} \/ Inside(t)

(* Some melody plays, or will as soon as its thread runs.                  *)
Going == is_playing \/ \E m \in Melodies : melody[m] = "start"

(* A step of one library that concerns neither the other nor its melodies. *)
FndAlone == UNCHANGED <<buzzerVars, note_nap, marks>>
BuzzerAlone == UNCHANGED <<fndVars, note_nap>>

(* A command of libsegment begins: what countdowns left behind before it, and
   joins that are over, are not its concern.                               *)
RenewsMarks ==
  /\ player' = [m \in Melodies |->
       IF player[m] \in Countdowns /\ ~Ringing(player[m]) THEN Nobody
                                                          ELSE player[m]]
  /\ waited' = {t \in waited : buzzer_at[t] = "wait"}
  /\ UNCHANGED lost

FndCommandAlone == UNCHANGED <<buzzerVars, note_nap>> /\ RenewsMarks

(* c's step creates a melody, or ends one.                                 *)
Credits(c) ==
  /\ player' = [m \in Melodies |->
       CASE melody'[m] = "none" -> Nobody
         [] melody'[m] # "none" /\ melody[m] = "none" -> c
         [] OTHER -> player[m]]
  /\ waited' = waited \cup {t \in Countdowns : buzzer_at'[t] = "wait"}

(* c comes back from its pthread_join and forgets the handle, although another
   caller has made a melody play since c interrupted one: from now on
   buzzer_stop finds nothing to interrupt, until a buzzer_play stores a handle. *)
Loses(c) ==
  lost' = IF buzzer_at[c] = "relock" /\ Going
          THEN lost \cup {t \in Countdowns : \E m \in Melodies : player[m] = t}
          ELSE lost

(* buzzer_stop; Buzzer leaves out the call that changes nothing.           *)
Stops(c) ==
  /\ mutex = Nobody
  /\ \/ buzzer!StopEnter(c)
     \/ ~buzzer_ready /\ UNCHANGED buzzerVars

-----------------------------------------------------------------------------
(* Main.                                                                   *)

Boot ==
  \/ fnd!FndInit /\ FndAlone
  \/ fnd_at # "boot" /\ buzzer!BuzzerInit /\ BuzzerAlone /\ UNCHANGED marks

Command ==
  /\ fnd_at = "idle" /\ ~Inside(Main)
  /\ commands < MaxCommands
  /\ commands' = commands + 1

SegmentCommand ==
  /\ Command
  /\ \/ \E n \in fnd!Digits : fnd!CountdownEnter(n)
     \/ fnd!OffEnter \/ fnd!StopEnter
  /\ FndCommandAlone

BuzzerCommand ==
  /\ Command
  /\ buzzer!PlayEnter(Main) \/ Stops(Main)
  /\ BuzzerAlone /\ UNCHANGED marks

(* The end of the server: fnd_cleanup, then buzzer_cleanup.                *)
Leave ==
  \/ ~Inside(Main) /\ fnd!CleanupEnter /\ FndCommandAlone
  \/ fnd_at = "gone" /\ buzzer!CleanupEnter /\ BuzzerAlone /\ UNCHANGED marks

MainInside == fnd!MainInside /\ FndAlone

-----------------------------------------------------------------------------
(* Countdowns.                                                             *)

CountdownAlone(t) ==
  /\ ~Inside(t)
  /\ \/ fnd!Start(t) \/ fnd!Top(t) \/ fnd!Show(t) \/ fnd!Poll(t) \/ fnd!Zero(t)
     \/ fnd!Ring(t) \/ fnd!BlankOut(t) \/ fnd!Finish(t)
  /\ FndAlone

(* buzzer_play_func(), or the death of the process on a null pointer.  The
   marks of an earlier countdown with t's handle end here.                 *)
Rings(t) ==
  /\ fnd!CallPlay(t)
  /\ IF buzzer_lib THEN buzzer!PlayEnter(t) ELSE UNCHANGED buzzerVars
  /\ player' = [m \in Melodies |-> IF player[m] = t THEN Nobody ELSE player[m]]
  /\ lost' = lost \ {t}
  /\ UNCHANGED <<note_nap, waited>>

HushesNothing(t) ==
  /\ ~Inside(t)
  /\ fnd!Hush(t)
  /\ FndAlone

(* buzzer_stop_func(), if the pointer is still there.  It finds nothing to
   interrupt if another caller has interrupted t's melody and its own has not
   started yet: that one will set is_playing for both.                     *)
Hushes(t) ==
  /\ ~Inside(t)
  /\ fnd!Hush(t)
  /\ IF buzzer_lib THEN Stops(t) ELSE UNCHANGED buzzerVars
  /\ lost' = IF ~is_playing /\ Going THEN lost \cup {t} ELSE lost
  /\ UNCHANGED <<note_nap, player, waited>>

-----------------------------------------------------------------------------
(* Inside libbuzzer.                                                       *)

InBuzzer(c) ==
  /\ buzzer!CallerInside(c)
  /\ Credits(c) /\ Loses(c)
  /\ BuzzerAlone

MelodyStep(m) ==
  /\ note_nap[m] = 0
  /\ buzzer!MelodyStep(m)
  /\ note_nap' = [note_nap EXCEPT ![m] =
                    IF melody[m] = "write" THEN NoteTicks ELSE 0]
  /\ Credits(Nobody)
  /\ UNCHANGED <<fndVars, lost>>

-----------------------------------------------------------------------------
(* Time.                                                                   *)

MainRuns ==
  \/ fnd_at = "boot" \/ buzzer_at[Main] = "boot"
  \/ fnd!MainRunnable
  \/ fnd_at = "gone" /\ buzzer_at[Main] = "idle" /\ mutex = Nobody

CallerRuns(c) ==
  \/ buzzer_at[c] \in {"join", "create", "detach"}
  \/ buzzer_at[c] = "relock" /\ mutex = Nobody
  \/ /\ buzzer_at[c] = "wait"
     /\ \E m \in Melodies : joinee[c] = m /\ melody[m] = "zombie"

CountdownRuns(t) ==
  /\ fnd!CountdownRunnable(t) /\ ~Inside(t)
  /\ countdown[t] \in {"call", "hush"} /\ buzzer_lib => mutex = Nobody

MelodyRuns(m) ==
  /\ melody[m] \notin {"none", "zombie"} /\ note_nap[m] = 0
  /\ melody[m] \in {"start", "finish"} => mutex = Nobody

NobodyRuns ==
  /\ ~MainRuns
  /\ \A c \in Callers : ~CallerRuns(c)
  /\ \A t \in Countdowns : ~CountdownRuns(t)
  /\ \A m \in Melodies : ~MelodyRuns(m)

(* The countdowns in delay() outside of a buzzer function.                 *)
Dozing == {t \in Countdowns : nap[t] > 0 /\ ~Inside(t)}

Nothing == sleeping = 0 /\ Dozing = {} /\ \A m \in Melodies : note_nap[m] = 0

(* Nothing is left to do, or nobody can do it.                             *)
Over == NobodyRuns /\ Nothing

(* One tick, for everybody who waits for it.                               *)
Tick ==
  /\ NobodyRuns /\ ~Nothing
  /\ nap' = [t \in Countdowns |-> IF t \in Dozing THEN nap[t] - 1 ELSE nap[t]]
  /\ sleeping' = IF sleeping > 0 THEN sleeping - 1 ELSE 0
  /\ note_nap' = [m \in Melodies |->
                    IF note_nap[m] > 0 THEN note_nap[m] - 1 ELSE 0]
  /\ UNCHANGED <<fnd_ready, is_counting, countdown_tid,
                 countdown_stop_requested, fnd_running, buzzer_lib, display,
                 countdown, i, left, request, fnd_at, fnd_crashed, buzzerVars,
                 marks>>

-----------------------------------------------------------------------------
Alive == ~fnd_crashed /\ ~buzzer_crashed

Runs ==
  \/ MainInside
  \/ \E t \in Countdowns : CountdownAlone(t) \/ Rings(t) \/ Hushes(t)
  \/ \E c \in Callers : InBuzzer(c)
  \/ \E m \in Melodies : MelodyStep(m)
  \/ Tick

Next ==
  \/ Alive /\ (SegmentCommand \/ BuzzerCommand)
  \/ Alive /\ (Boot \/ Leave \/ Runs) /\ UNCHANGED commands
  \/ (~Alive \/ Over) /\ UNCHANGED vars

Spec == Init /\ [][Next]_vars

-----------------------------------------------------------------------------
(* Properties.                                                             *)

(* A countdown may be held up inside buzzer_play: for good if the buzzer is
   missing, and for a whole melody if main creates that one just while the
   countdown reads the handle for its pthread_join.                        *)
HeldUp(t) == t \in waited \/ buzzer_at[t] = "self"

(* SEGMENT_STOP also ends the ring: when it returns after it interrupted a
   countdown that was alone, no melody plays on that a countdown started, and
   no countdown is left, also if it came while the countdown was calling the
   buzzer.  It does not reach a countdown that buzzer_play holds up, nor a
   melody lost because a BUZZER_ command crossed a call of the countdown.   *)
StopEndsRing ==
  (fnd_at = "idle" /\ request.op = "stop" /\ request.lone) =>
    /\ \A t \in Countdowns : fnd!Live(t) => HeldUp(t)
    /\ \A m \in Melodies : player[m] \in Countdowns => player[m] \in waited \cup lost

(* The libraries are released in the right order: when buzzer_cleanup ends, a
   countdown that fnd_cleanup met alone and known makes no call of libbuzzer
   any more, except one that buzzer_play held up at that moment: this one, once
   its pthread_join returns, goes on inside the released buzzer.           *)
CleanupLeavesNoCaller ==
  (buzzer_at[Main] = "gone" /\ request.lone) =>
    \A t \in Countdowns : fnd!Live(t) => HeldUp(t)

(* The two locks and the joins never block each other for good: when nobody can
   run and no time is awaited, every command has returned, every countdown and
   melody is over and the speaker is silent, unless the buzzer is missing. *)
NobodyIsLeftWaiting ==
  Over /\ Alive =>
    \/ /\ fnd_at \in {"idle", "gone"} /\ buzzer_at[Main] \in {"idle", "gone"}
       /\ \A t \in Countdowns : ~fnd!Live(t) /\ ~Inside(t)
       /\ \A m \in Melodies : melody[m] = "none"
       /\ ~tone
    \/ \E c \in Callers : buzzer_at[c] = "self"
=============================================================================
