------------------------------ MODULE Speaker ------------------------------
(***************************************************************************)
(* What libbuzzer promises about the sound on GPIO 19, without its flags,  *)
(* its lock and its handles: the speaker sounds only while some player is  *)
(* in its note loop, and a player that leaves its loop leaves silence.     *)
(*                                                                         *)
(* Buzzer implements this specification; the refinement mapping is in      *)
(* module Buzzer (operator Promise).                                       *)
(***************************************************************************)

CONSTANT Players      \* every thread that can ever play the melody

VARIABLES
  tone,               \* TRUE while the speaker sounds
  playing             \* the players inside their note loop

speakerVars == <<tone, playing>>

Init ==
  /\ tone = FALSE
  /\ playing = {}

(* A player enters its note loop; it has not written a note yet.           *)
Begin(p) ==
  /\ p \notin playing
  /\ playing' = playing \cup {p}
  /\ UNCHANGED tone

(* A player in its loop writes a note or a rest.                           *)
Write(p) ==
  /\ p \in playing
  /\ tone' \in BOOLEAN
  /\ UNCHANGED playing

(* A player leaves its loop and silences the speaker on its way out.       *)
End(p) ==
  /\ p \in playing
  /\ playing' = playing \ {p}
  /\ tone' = FALSE

(* Anybody may silence the speaker.                                        *)
Hush ==
  /\ tone' = FALSE
  /\ UNCHANGED playing

Next ==
  \/ \E p \in Players : Begin(p) \/ Write(p) \/ End(p)
  \/ Hush

Spec == Init /\ [][Next]_speakerVars
=============================================================================
