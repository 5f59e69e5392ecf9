------------------------------- MODULE MCRing -------------------------------
(***************************************************************************)
(* A small instance of Ring for TLC: a countdown from 1, two melodies of   *)
(* three notes alive at once, and four commands, so that BUZZER_PLAY can   *)
(* come twice before the SEGMENT_STOP of a ringing countdown.  The sleeps  *)
(* are shorter than in the code, in the same order: a poll and a note take *)
(* less than the sleep of fnd_stop, and that less than the one of          *)
(* fnd_cleanup; the ring ends before its melody does.                      *)
(***************************************************************************)
EXTENDS Ring, TLC

CONSTANTS c1, m1, m2

OneCountdown == {c1}
TwoMelodies == {m1, m2}
Symmetry == Permutations(Melodies)
NoRests == {}
WorksOrNot == {TRUE, FALSE}
=============================================================================
