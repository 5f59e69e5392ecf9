----------------------------- MODULE MCSegment -----------------------------
(***************************************************************************)
(* A small instance of Segment for TLC: two countdowns alive at once, from *)
(* at most 2.  A digit and the ring last a few polls; fnd_stop sleeps two  *)
(* of them, so that a countdown polls at least once while it does.         *)
(***************************************************************************)
EXTENDS Segment

CONSTANTS c1, c2

TwoCountdowns == {c1, c2}
GpioMayFail == {TRUE, FALSE}
LoadsOrNot == {TRUE, FALSE}
=============================================================================
