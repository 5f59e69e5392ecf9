----------------------------- MODULE MCProcess -----------------------------
(***************************************************************************)
(* A small instance of Process for TLC: two signals, which may be nested,  *)
(* one on the main thread and one on a worker, two countdowns that live at *)
(* once and the two commands that start them, a brightness level that      *)
(* exists and one that does not, and devices that may be missing.          *)
(***************************************************************************)
EXTENDS Process

TwoSignals == 1 .. 2
TwoCountdowns == {"older", "newer"}
SomeMissing == {{}, {"buzzer"}}
=============================================================================
