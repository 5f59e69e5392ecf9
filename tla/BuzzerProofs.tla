---------------------------- MODULE BuzzerProofs ----------------------------
(***************************************************************************)
(* Theorems about Buzzer, for any number of callers and melodies and any   *)
(* length of the melody.                                                   *)
(***************************************************************************)
EXTENDS Buzzer, TLAPS

(* A melody thread writes only notes that exist: between the check of its
   loop condition and the write nobody else moves its loop variable.       *)
WritesRealNotes == \A t \in Melodies : melody[t] = "write" => note[t] < TotalNotes

(* The inductive form of TypeOK.                                           *)
TypeInv == TypeOK /\ WritesRealNotes

LEMMA ZeroIsANote == 0 \in 0 .. TotalNotes
  BY BuzzerAssumption DEF BuzzerAssumption

LEMMA InitTypeInv == Init => TypeInv
<1> SUFFICES ASSUME Init
             PROVE  TypeInv
  OBVIOUS
<1> USE BuzzerAssumption DEF BuzzerAssumption, Init
<1>1. note \in [Melodies -> 0 .. TotalNotes]
  BY ZeroIsANote
<1>2. op \in [Callers -> Ops] /\ at \in [Callers -> CallerPlaces]
  BY DEF Ops, CallerPlaces
<1>3. melody \in [Melodies -> MelodyPlaces] /\ WritesRealNotes
  BY DEF MelodyPlaces, WritesRealNotes
<1> QED
  BY <1>1, <1>2, <1>3 DEF TypeInv, TypeOK

(* What callers do never touches a loop variable.                          *)
LEMMA CallerTypeInv ==
  ASSUME TypeInv, NEW c \in Callers,
         PlayEnter(c) \/ StopEnter(c) \/ CallerInside(c)
  PROVE  TypeInv'
<1> USE BuzzerAssumption DEF BuzzerAssumption, TypeInv, TypeOK, WritesRealNotes, Ops,
      CallerPlaces, MelodyPlaces
<1>1. CASE PlayEnter(c)
  BY <1>1 DEF PlayEnter, Calls, Arrives
<1>2. CASE StopEnter(c)
  BY <1>2 DEF StopEnter, Arrives
<1>3. CASE Join(c)
  BY <1>3 DEF Join, Arrives
<1>4. CASE Joined(c)
  BY <1>4 DEF Joined, Arrives
<1>5. CASE Relock(c)
  BY <1>5 DEF Relock, Arrives, Returns, Release
<1>6. CASE Create(c)
  BY <1>6 DEF Create, Arrives, Returns
<1>7. CASE Detach(c)
  BY <1>7 DEF Detach, Returns
<1> QED
  BY <1>1, <1>2, <1>3, <1>4, <1>5, <1>6, <1>7 DEF CallerInside

LEMMA MelodyTypeInv ==
  ASSUME TypeInv, NEW t \in Melodies, MelodyStep(t)
  PROVE  TypeInv'
<1> USE BuzzerAssumption DEF BuzzerAssumption, TypeInv, TypeOK, WritesRealNotes, MelodyPlaces
<1>1. CASE MelodyStart(t)
  BY <1>1 DEF MelodyStart
<1>2. CASE MelodyCheck(t)
  BY <1>2 DEF MelodyCheck
<1>3. CASE MelodyWrite(t)
  BY <1>3 DEF MelodyWrite
<1>4. CASE MelodySilence(t)
  BY <1>4 DEF MelodySilence
<1>5. CASE MelodyFinish(t)
  <2>1. note' \in [Melodies -> 0 .. TotalNotes]
    BY <1>5, ZeroIsANote DEF MelodyFinish
  <2>2. melody' \in [Melodies -> MelodyPlaces]
    BY <1>5 DEF MelodyFinish
  <2>3. WritesRealNotes'
    BY <1>5 DEF MelodyFinish
  <2> QED
    BY <1>5, <2>1, <2>2, <2>3 DEF MelodyFinish
<1> QED
  BY <1>1, <1>2, <1>3, <1>4, <1>5 DEF MelodyStep

LEMMA NextTypeInv == TypeInv /\ [Next]_vars => TypeInv'
<1> SUFFICES ASSUME TypeInv, [Next]_vars
             PROVE  TypeInv'
  OBVIOUS
<1> USE BuzzerAssumption DEF BuzzerAssumption
<1>1. CASE BuzzerInit
  BY <1>1 DEF BuzzerInit, Arrives, TypeInv, TypeOK, WritesRealNotes, CallerPlaces
<1>2. CASE CleanupEnter
  BY <1>2 DEF CleanupEnter, Calls, Release, Arrives, TypeInv, TypeOK,
     WritesRealNotes, CallerPlaces, Ops
<1>3. CASE UNCHANGED vars
  BY <1>3 DEF vars, TypeInv, TypeOK, WritesRealNotes
<1> QED
  BY <1>1, <1>2, <1>3, CallerTypeInv, MelodyTypeInv DEF Next, Ended

(* In every reachable state the variables have their types, and a melody
   thread indexes the melody within its bounds.                            *)
THEOREM TypeCorrect == Spec => [](TypeOK /\ WritesRealNotes)
  BY InitTypeInv, NextTypeInv, PTL DEF Spec, TypeInv

-----------------------------------------------------------------------------
LEMMA NextPlayingHasPlayer ==
  TypeInv /\ PlayingHasPlayer /\ [Next]_vars => PlayingHasPlayer'
<1> SUFFICES ASSUME TypeInv, PlayingHasPlayer, [Next]_vars
             PROVE  PlayingHasPlayer'
  OBVIOUS
<1> USE DEF TypeInv, TypeOK, PlayingHasPlayer
<1>1. CASE UNCHANGED melody /\ (is_playing' => is_playing)
  BY <1>1
<1>2. ASSUME NEW c \in Callers, Joined(c)
      PROVE  PlayingHasPlayer'
  BY <1>2 DEF Joined
<1>3. ASSUME NEW c \in Callers, Create(c)
      PROVE  PlayingHasPlayer'
  BY <1>3 DEF Create
<1>4. ASSUME NEW t \in Melodies, MelodyStep(t)
      PROVE  PlayingHasPlayer'
  <2>1. CASE MelodyStart(t)
    BY <2>1 DEF MelodyStart
  <2>2. CASE MelodyCheck(t)
    BY <2>2 DEF MelodyCheck
  <2>3. CASE MelodyWrite(t)
    BY <2>3 DEF MelodyWrite
  <2>4. CASE MelodySilence(t)
    BY <2>4 DEF MelodySilence
  <2>5. CASE MelodyFinish(t)
    BY <2>5 DEF MelodyFinish
  <2> QED
    BY <1>4, <2>1, <2>2, <2>3, <2>4, <2>5 DEF MelodyStep
<1>5. ASSUME NEW c \in Callers,
             PlayEnter(c) \/ StopEnter(c) \/ Join(c) \/ Relock(c) \/ Detach(c)
      PROVE  PlayingHasPlayer'
  BY <1>1, <1>5 DEF PlayEnter, StopEnter, Join, Relock, Detach
<1>6. CASE BuzzerInit \/ CleanupEnter \/ UNCHANGED vars
  BY <1>1, <1>6 DEF BuzzerInit, CleanupEnter, vars
<1> QED
  BY <1>2, <1>3, <1>4, <1>5, <1>6 DEF Next, CallerInside, Ended

(* PLAYING is never a stale answer, however many threads share the flag.   *)
THEOREM PlayingIsBacked == Spec => []PlayingHasPlayer
<1>1. Init => PlayingHasPlayer
  BY DEF Init, PlayingHasPlayer
<1> QED
  BY <1>1, InitTypeInv, NextTypeInv, NextPlayingHasPlayer, PTL DEF Spec

-----------------------------------------------------------------------------
(* The refinement.  Inside the note loop is where the players of Speaker are. *)
InLoop == {t \in Melodies : melody[t] \in {"check", "write", "silence"}}

(* What a caller does to the speaker is at most to silence it.             *)
LEMMA QuietStep ==
  ASSUME InLoop' = InLoop, tone' = tone \/ tone' = FALSE
  PROVE  [Promise!Next]_Promise!speakerVars
  BY DEF InLoop, Promise!Next, Promise!Hush, Promise!speakerVars

LEMMA CallerKeepsPromise ==
  ASSUME TypeInv, NEW c \in Callers,
         PlayEnter(c) \/ StopEnter(c) \/ CallerInside(c)
  PROVE  [Promise!Next]_Promise!speakerVars
<1>1. InLoop' = InLoop
  <2>1. CASE Joined(c)
    BY <2>1 DEF Joined, InLoop, TypeInv, TypeOK
  <2>2. CASE Create(c)
    BY <2>2 DEF Create, InLoop, TypeInv, TypeOK
  <2> QED
    BY <2>1, <2>2 DEF InLoop, PlayEnter, StopEnter, CallerInside, Join, Relock,
       Detach
<1>2. tone' = tone \/ tone' = FALSE
  BY DEF PlayEnter, StopEnter, CallerInside, Join, Joined, Relock, Create,
     Detach, Release, TypeInv, TypeOK
<1> QED
  BY <1>1, <1>2, QuietStep

LEMMA MelodyKeepsPromise ==
  ASSUME TypeInv, NEW t \in Melodies, MelodyStep(t)
  PROVE  [Promise!Next]_Promise!speakerVars
<1> USE DEF TypeInv, TypeOK
<1>1. CASE MelodyStart(t)
  <2>1. t \notin InLoop /\ InLoop' = InLoop \cup {t} /\ UNCHANGED tone
    BY <1>1 DEF MelodyStart, InLoop
  <2> QED
    BY <2>1 DEF InLoop, Promise!Next, Promise!Begin
<1>2. CASE MelodyCheck(t)
  <2>1. InLoop' = InLoop /\ UNCHANGED tone
    BY <1>2 DEF MelodyCheck, InLoop
  <2> QED
    BY <2>1, QuietStep
<1>3. CASE MelodyWrite(t)
  <2>1. t \in InLoop /\ InLoop' = InLoop /\ tone' \in BOOLEAN
    BY <1>3 DEF MelodyWrite, InLoop
  <2> QED
    BY <2>1 DEF InLoop, Promise!Next, Promise!Write
<1>4. CASE MelodySilence(t)
  <2>1. t \in InLoop /\ InLoop' = InLoop \ {t} /\ tone' = FALSE
    BY <1>4 DEF MelodySilence, InLoop
  <2> QED
    BY <2>1 DEF InLoop, Promise!Next, Promise!End
<1>5. CASE MelodyFinish(t)
  <2>1. InLoop' = InLoop /\ UNCHANGED tone
    BY <1>5 DEF MelodyFinish, InLoop
  <2> QED
    BY <2>1, QuietStep
<1> QED
  BY <1>1, <1>2, <1>3, <1>4, <1>5 DEF MelodyStep

LEMMA StepKeepsPromise ==
  TypeInv /\ [Next]_vars => [Promise!Next]_Promise!speakerVars
<1> SUFFICES ASSUME TypeInv, [Next]_vars
             PROVE  [Promise!Next]_Promise!speakerVars
  OBVIOUS
<1>1. CASE BuzzerInit \/ CleanupEnter \/ UNCHANGED vars
  BY <1>1, QuietStep DEF BuzzerInit, CleanupEnter, Release, vars, InLoop, TypeInv,
     TypeOK
<1> QED
  BY <1>1, CallerKeepsPromise, MelodyKeepsPromise DEF Next, Ended

(* libbuzzer implements Speaker: whatever callers and melodies do to each
   other, a player that leaves its loop leaves silence behind.             *)
THEOREM BuzzerKeepsPromise == Spec => KeepsPromise
<1>1. Init => Promise!Init
  BY DEF Init, Promise!Init
<1> QED
  BY <1>1, InitTypeInv, NextTypeInv, StepKeepsPromise, PTL
     DEF Spec, KeepsPromise, Promise!Spec

LEMMA PromiseSoundHasPlayer ==
  SoundHasPlayer /\ [Promise!Next]_Promise!speakerVars => SoundHasPlayer'
<1> SUFFICES ASSUME tone => InLoop # {}, [Promise!Next]_Promise!speakerVars
             PROVE  tone' => InLoop' # {}
  BY DEF SoundHasPlayer, InLoop
<1>1. CASE UNCHANGED Promise!speakerVars
  BY <1>1 DEF Promise!speakerVars, InLoop
<1>2. CASE Promise!Hush
  BY <1>2 DEF Promise!Hush
<1>3. ASSUME NEW p \in Melodies, Promise!Begin(p) \/ Promise!Write(p) \/ Promise!End(p)
      PROVE  tone' => InLoop' # {}
  BY <1>3 DEF Promise!Begin, Promise!Write, Promise!End, InLoop
<1> QED
  BY <1>1, <1>2, <1>3 DEF Promise!Next

(* The speaker sounds only while some thread is still to silence it: what
   Speaker guarantees, libbuzzer guarantees, because it implements it.     *)
THEOREM SoundIsBacked == Spec => []SoundHasPlayer
<1>1. Init => SoundHasPlayer
  BY DEF Init, SoundHasPlayer
<1> QED
  BY <1>1, InitTypeInv, NextTypeInv, StepKeepsPromise, PromiseSoundHasPlayer,
     PTL DEF Spec

-----------------------------------------------------------------------------
(* The lock, the joins and the device, as other modules rely on them.      *)

(* Whoever the mutex names is in one of the sections that span actions.    *)
Holding == {"create", "detach", "self"}

LockHolders ==
  /\ \A c \in Callers : at[c] \in Holding => mutex = c
  /\ mutex # Nobody => at[mutex] \in Holding

(* What a caller executes fits the place it is at.                         *)
CallsFit ==
  \A c \in Callers :
    /\ at[c] \in {"create", "detach"} => op[c] = "play"
    /\ at[c] \in {"join", "wait", "relock"} => op[c] # "none"
    /\ op[c] = "cleanup" \/ at[c] \in {"boot", "gone"} => c = Main

(* A caller that waits in pthread_join holds on to a thread of its own, and a
   thread that has ended stays a zombie only for such a caller.            *)
Joins ==
  /\ \A c \in Callers : at[c] = "wait" <=> joinee[c] # NoThread
  /\ \A c \in Callers : joinee[c] # NoThread => melody[joinee[c]] # "none"
  /\ \A c, d \in Callers : joinee[c] = joinee[d] /\ joinee[c] # NoThread => c = d
  /\ \A m \in Melodies : melody[m] = "zombie" => \E c \in Callers : joinee[c] = m

(* A thread that is not detached yet is the last one created, and cannot have
   started: it needs the lock.                                             *)
NewIsUnstarted ==
  \A c \in Callers :
    at[c] = "detach" =>
      music_thread_id \in Melodies /\ melody[music_thread_id] = "start"

(* Melodies and joins are those of a device that works, unless main has
   released it; a caller that waits for itself has met one that does not.  *)
DeviceFits ==
  /\ \A c \in Callers : at[c] \in {"join", "wait", "relock", "create", "detach"} =>
       is_initialized \/ at[Main] = "gone"
  /\ \A m \in Melodies : melody[m] # "none" => is_initialized \/ at[Main] = "gone"
  /\ \A c \in Callers : at[c] = "self" => ~is_initialized
  /\ at[Main] = "boot" =>
       ~is_initialized /\ \A c \in Callers : at[c] \in {"boot", "idle"}

CallInv == LockHolders /\ CallsFit /\ Joins /\ NewIsUnstarted /\ DeviceFits

LEMMA InitCallInv == Init => CallInv
  BY BuzzerAssumption
  DEF BuzzerAssumption, Init, CallInv, LockHolders, Holding, CallsFit, Joins,
      NewIsUnstarted, DeviceFits

LEMMA EnterCallInv ==
  ASSUME TypeInv, PlayingHasPlayer, CallInv, NEW c \in Callers,
         PlayEnter(c) \/ StopEnter(c) \/ (CleanupEnter /\ c = Main)
  PROVE  CallInv'
<1> USE BuzzerAssumption
    DEF BuzzerAssumption, TypeInv, TypeOK, CallInv, LockHolders, Holding,
        CallsFit, Joins, NewIsUnstarted, DeviceFits, Calls, Arrives
<1>1. CASE PlayEnter(c)
  BY <1>1 DEF PlayEnter
<1>2. CASE StopEnter(c)
  BY <1>2 DEF StopEnter
<1>3. CASE CleanupEnter /\ c = Main
  <2>1. CASE Interruptible
    <3>1. is_initialized
      BY <1>3, <2>1 DEF CleanupEnter, Interruptible, PlayingHasPlayer
    <3> QED
      BY <1>3, <2>1, <3>1 DEF CleanupEnter
  <2>2. CASE ~Interruptible
    BY <1>3, <2>2 DEF CleanupEnter, Release
  <2> QED
    BY <2>1, <2>2
<1> QED
  BY <1>1, <1>2, <1>3

LEMMA CallerCallInv ==
  ASSUME TypeInv, CallInv, NEW c \in Callers, CallerInside(c)
  PROVE  CallInv'
<1> USE BuzzerAssumption
    DEF BuzzerAssumption, TypeInv, TypeOK, CallInv, LockHolders, Holding,
        CallsFit, Joins, NewIsUnstarted, DeviceFits, Arrives, Returns
<1>1. CASE Join(c)
  BY <1>1 DEF Join, Joinable
<1>2. CASE Joined(c)
  BY <1>2 DEF Joined
<1>3. CASE Relock(c)
  BY <1>3 DEF Relock, Release
<1>4. CASE Create(c)
  BY <1>4 DEF Create
<1>5. CASE Detach(c)
  BY <1>5 DEF Detach
<1> QED
  BY <1>1, <1>2, <1>3, <1>4, <1>5 DEF CallerInside

LEMMA MelodyCallInv ==
  ASSUME TypeInv, CallInv, NEW t \in Melodies, MelodyStep(t)
  PROVE  CallInv'
<1> USE BuzzerAssumption
    DEF BuzzerAssumption, TypeInv, TypeOK, CallInv, LockHolders, Holding,
        CallsFit, Joins, NewIsUnstarted, DeviceFits
<1>1. CASE MelodyStart(t)
  BY <1>1 DEF MelodyStart
<1>2. CASE MelodyCheck(t)
  BY <1>2 DEF MelodyCheck
<1>3. CASE MelodyWrite(t)
  BY <1>3 DEF MelodyWrite
<1>4. CASE MelodySilence(t)
  BY <1>4 DEF MelodySilence
<1>5. CASE MelodyFinish(t)
  BY <1>5 DEF MelodyFinish
<1> QED
  BY <1>1, <1>2, <1>3, <1>4, <1>5 DEF MelodyStep

LEMMA NextCallInv ==
  TypeInv /\ PlayingHasPlayer /\ CallInv /\ [Next]_vars => CallInv'
<1> SUFFICES ASSUME TypeInv, PlayingHasPlayer, CallInv, [Next]_vars
             PROVE  CallInv'
  OBVIOUS
<1>0. Main \in Callers
  BY BuzzerAssumption DEF BuzzerAssumption
<1>1. CASE BuzzerInit
  BY <1>1, BuzzerAssumption
  DEF BuzzerAssumption, BuzzerInit, Arrives, TypeInv, TypeOK, CallInv, LockHolders,
      Holding, CallsFit, Joins, NewIsUnstarted, DeviceFits
<1>2. CASE UNCHANGED vars
  BY <1>2 DEF vars, CallInv, LockHolders, Holding, CallsFit, Joins, NewIsUnstarted,
     DeviceFits
<1>3. CASE CleanupEnter
  BY <1>0, <1>3, EnterCallInv
<1>4. ASSUME NEW c \in Callers, PlayEnter(c) \/ StopEnter(c) \/ CallerInside(c)
      PROVE  CallInv'
  BY <1>4, EnterCallInv, CallerCallInv
<1>5. ASSUME NEW t \in Melodies, MelodyStep(t)
      PROVE  CallInv'
  BY <1>5, MelodyCallInv
<1> QED
  BY <1>1, <1>2, <1>3, <1>4, <1>5 DEF Next, Ended

(* The lock is never lost: a caller that is to go on waits only for one that
   holds it in the middle of buzzer_play, and no join waits for a thread whose
   descriptor is gone.                                                      *)
THEOREM CallsAreOrdered == Spec => []CallInv
  BY InitTypeInv, NextTypeInv, PlayingIsBacked, InitCallInv, NextCallInv,
     PTL DEF Spec
=============================================================================
