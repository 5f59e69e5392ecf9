------------------------------- MODULE MCCds -------------------------------
(***************************************************************************)
(* A small instance of Cds for TLC: two controllers alive at once, a read  *)
(* error and the readings on both sides of the real threshold.             *)
(***************************************************************************)
EXTENDS Cds

CONSTANTS a1, a2

TwoControllers == {a1, a2}
EdgeReadings == {-1, 179, 180}
I2cMayFail == {TRUE, FALSE}
=============================================================================
