-------------------------------- MODULE Desk --------------------------------
(***************************************************************************)
(* What the server promises to those who connect, without its buffers, its *)
(* protocols and the places of its thread: they are served one at a time,  *)
(* in the order in which they came; nobody who came with one question and  *)
(* waits for the answer is sent away without one; only the guest at the    *)
(* desk can shut it, and then nobody else is called.                       *)
(*                                                                         *)
(* Server implements this specification; the refinement mapping is in      *)
(* module Server (operator Promise).                                       *)
(***************************************************************************)
EXTENDS Naturals, Sequences

CONSTANTS
  Guests,
  Brief,        \* those who come with one question
  Nobody

VARIABLES
  line,         \* who waits, in the order of arrival
  turn,         \* the guest at the desk
  open,         \* guests are still called
  here,         \* who waits or is at the desk, and has not walked off
  given         \* who was told something on this visit

deskVars == <<line, turn, open, here, given>>

Init ==
  /\ line = <<>>
  /\ turn = Nobody
  /\ open = TRUE
  /\ here = {}
  /\ given = {}

(* A visit begins with nothing: what an earlier one was told is forgotten.  *)
Come(g) ==
  /\ g \notin here /\ g # turn
  /\ \A k \in 1 .. Len(line) : line[k] # g
  /\ g \notin given
  /\ line' = Append(line, g)
  /\ here' = here \cup {g}
  /\ UNCHANGED <<turn, open, given>>

(* A guest may walk off at any moment, and keeps its place in the line.    *)
WalkOff(g) ==
  /\ here' = here \ {g}
  /\ UNCHANGED <<line, turn, open, given>>

(* A guest whose visit is over forgets what it was told, before it can come again. *)
Forget(g) ==
  /\ g \notin here /\ g # turn
  /\ given' = given \ {g}
  /\ UNCHANGED <<line, turn, open, here>>

Call ==
  /\ open /\ turn = Nobody /\ line # <<>>
  /\ turn' = Head(line)
  /\ line' = Tail(line)
  /\ UNCHANGED <<open, here, given>>

(* The guest at the desk is told something, or shuts the desk, or is sent
   away: all of them at once, too.                                         *)
Serve ==
  /\ turn # Nobody
  /\ given' \in {given, given \cup {turn}}
  /\ open' \in {open, FALSE}
  /\ \/ UNCHANGED <<turn, here>>
     \/ /\ turn \in Brief \cap here => turn \in given'
        /\ turn' = Nobody
        /\ here' = here \ {turn}
  /\ UNCHANGED line

Next ==
  \/ \E g \in Guests : Come(g) \/ WalkOff(g) \/ Forget(g)
  \/ Call
  \/ Serve

Spec == Init /\ [][Next]_deskVars
=============================================================================
