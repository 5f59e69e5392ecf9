------------------------------ MODULE MCBuzzer ------------------------------
(***************************************************************************)
(* A small instance of Buzzer for TLC: two callers (main and a countdown   *)
(* thread), two melodies alive at once, and a melody of a note and a rest,  *)
(* as each phrase of the real one ends in a rest.                          *)
(***************************************************************************)
EXTENDS Buzzer

CONSTANTS main, countdown, m1, m2

BothCallers == {main, countdown}
MainAlone == {main}
TwoMelodies == {m1, m2}
OneRest == {1}
GpioWorks == {TRUE}
=============================================================================
