------------------------------ MODULE MCServer ------------------------------
(***************************************************************************)
(* A small instance of Server for TLC: one client of each kind, each of    *)
(* which may come back, and a listen queue they cannot fill all at once.   *)
(***************************************************************************)
EXTENDS Server

CONSTANTS telnet, browser, console

OneTelnet == {telnet}
OneBrowser == {browser}
OneConsole == {console}
=============================================================================
