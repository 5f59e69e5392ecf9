------------------------------- MODULE Server -------------------------------
(***************************************************************************)
(* main.c and web_server.c: one thread that accepts a connection, tells by *)
(* its first bytes whether a browser or a TCP client is there, and serves  *)
(* it to its end before it accepts the next.                               *)
(*                                                                         *)
(* Around it, the clients of the repository: telnet sessions (README.md:86)*)
(* that type lines and hang up when they please, the web page (one request *)
(* per connection, in one piece or two) and client.c (one line, one read,  *)
(* close).  A command is "command" or "quit": what commands do to devices  *)
(* is the business of the other modules.                                   *)
(*                                                                         *)
(* A connection delivers what its client sends in order.  recv takes all   *)
(* that has arrived.  The first send to a client that has left is answered *)
(* with a reset, which comes in before or after the server's next call; a  *)
(* send after that raises SIGPIPE, which the server does not ignore.       *)
(***************************************************************************)
EXTENDS Naturals, Sequences

CONSTANTS
  Telnets,    \* TCP sessions of a person at a terminal
  Browsers,   \* connections of the web page
  Consoles,   \* connections of client.c
  NoClient,
  Backlog,    \* connections that may wait in the listen queue
  MaxInbox    \* bounds the messages that wait in a receive buffer

Clients == Telnets \cup Browsers \cup Consoles

ASSUME ServerAssumption ==
  /\ Telnets \cap Browsers = {} /\ Telnets \cap Consoles = {}
  /\ Browsers \cap Consoles = {}
  /\ NoClient \notin Clients
  /\ Backlog \in Nat \ {0}
  /\ MaxInbox \in Nat \ {0, 1}

VARIABLES
  running,    \* the server's flag
  at,         \* where the server's thread is
  serving,    \* client_fd: the client it serves
  received,   \* buffer: the messages of the last recv
  crashed,    \* SIGPIPE has ended the process
  backlog,    \* connected and not yet accepted, oldest first
  conn,       \* each client's connection
  peer,       \* its client's end
  inbox,      \* what has arrived and was not received
  stage,      \* how much of its one request a browser or console has sent
  owed,       \* commands sent and not yet answered, unless hasty
  hasty,      \* a line of it met an earlier one in the receive buffer
  got         \* a browser or console was sent something while it was there

server == <<running, at, serving, received, crashed>>
client == <<peer, inbox, stage, owed, hasty, got>>
vars == <<server, backlog, conn, client>>

Lines == {"empty", "command", "quit"}
Messages == Lines \cup {"page", "head"}

TypeOK ==
  /\ running \in BOOLEAN
  /\ at \in {"select", "recv", "greet", "receive", "process", "respond", "exited"}
  /\ serving \in Clients \cup {NoClient}
  /\ received \in Seq(Messages)
  /\ Len(received) <= IF serving \in Browsers THEN MaxInbox ELSE 1
  /\ crashed \in BOOLEAN
  /\ backlog \in Seq(Clients) /\ Len(backlog) <= Backlog
  /\ conn \in [Clients -> {"out", "queued", "served", "closed"}]
  /\ peer \in [Clients -> {"open", "left", "broken"}]
  /\ inbox \in [Clients -> Seq(Messages)]
  /\ \A c \in Clients : Len(inbox[c]) <= MaxInbox
  /\ stage \in [Clients -> {"fresh", "half", "sent"}]
  /\ owed \in [Clients -> Nat]
  /\ hasty \in [Clients -> BOOLEAN]
  /\ got \in [Clients -> BOOLEAN]

Init ==
  /\ running = TRUE
  /\ at = "select"
  /\ serving = NoClient
  /\ received = <<>>
  /\ crashed = FALSE
  /\ backlog = <<>>
  /\ conn = [c \in Clients |-> "out"]
  /\ peer = [c \in Clients |-> "open"]
  /\ inbox = [c \in Clients |-> <<>>]
  /\ stage = [c \in Clients |-> "fresh"]
  /\ owed = [c \in Clients |-> 0]
  /\ hasty = [c \in Clients |-> FALSE]
  /\ got = [c \in Clients |-> FALSE]

-----------------------------------------------------------------------------
(* Helpers of the server.                                                  *)

Up == ~crashed /\ at # "exited"

IsHttp(c) == c \in Browsers

(* close(client_fd) and back to the main loop.  What it had not received is
   discarded with the connection.                                          *)
Close ==
  /\ conn' = [conn EXCEPT ![serving] = "closed"]
  /\ inbox' = [inbox EXCEPT ![serving] = <<>>]
  /\ serving' = NoClient
  /\ received' = <<>>
  /\ at' = "select"

(* send(client_fd, ...); its result is ignored everywhere.                 *)
Sends ==
  /\ got' = [got EXCEPT ![serving] =
                @ \/ (peer[serving] = "open" /\ serving \notin Telnets)]
  /\ crashed' = (peer[serving] = "broken")
  /\ \/ peer[serving] # "left" /\ UNCHANGED peer
     \/ peer[serving] = "left" /\ \E p \in {"left", "broken"} :
          peer' = [peer EXCEPT ![serving] = p]

KeptUncut(c) == inbox[c]

(* What of a recv is acted on: all of a request, the first line of several. *)
Kept(c) == IF IsHttp(c) THEN inbox[c] ELSE <<Head(inbox[c])>>
Line == Head(received)

(* What handle_http_request finds in the one recv it is given: a command only
   if the body is there too.                                               *)
Posted == received[2]
HasBody == Len(received) >= 2

Answers == owed' = [owed EXCEPT ![serving] = IF @ = 0 THEN 0 ELSE @ - 1]

-----------------------------------------------------------------------------
(* The server.                                                             *)

(* select and accept; a second of silence only repeats the loop.           *)
Accept ==
  /\ ~crashed /\ at = "select"
  /\ running
  /\ backlog # <<>>
  /\ serving' = Head(backlog)
  /\ backlog' = Tail(backlog)
  /\ conn' = [conn EXCEPT ![Head(backlog)] = "served"]
  /\ at' = "recv"
  /\ UNCHANGED <<running, received, crashed, client>>

ExitWhenDrained ==
  /\ ~crashed /\ at = "select"
  /\ ~running
  /\ backlog = <<>>
  /\ at' = "exited"
  /\ UNCHANGED <<running, serving, received, crashed, backlog, conn, client>>

(* QUIT has cleared the flag: leave the main loop and clean up.            *)
Exit ==
  /\ ~crashed /\ at = "select"
  /\ ~running
  /\ at' = "exited"
  /\ UNCHANGED <<running, serving, received, crashed, backlog, conn, client>>

Holds(place) ==
  /\ received' = Kept(serving)
  /\ at' = place

(* The first recv of handle_client, and the one of its loop: data, ...     *)
Recv ==
  /\ ~crashed /\ at \in {"recv", "receive"}
  /\ inbox[serving] # <<>>
  /\ inbox' = [inbox EXCEPT ![serving] = <<>>]
  /\ \/ /\ at = "recv" /\ IsHttp(serving)
        /\ Holds("process")
     \/ /\ at = "recv" /\ ~IsHttp(serving)
        /\ Holds("greet")
     \/ /\ at = "receive" /\ Kept(serving) # <<"empty">>
        /\ Holds("process")
     \/ /\ at = "receive" /\ Kept(serving) = <<"empty">>
        /\ UNCHANGED <<at, received>>
  /\ UNCHANGED <<running, serving, crashed, backlog, conn, peer, stage, owed,
                 hasty, got>>

RecvEndMissed ==
  /\ ~crashed /\ at = "recv"
  /\ inbox[serving] = <<>>
  /\ peer[serving] # "open"
  /\ Close
  /\ UNCHANGED <<running, crashed, backlog, peer, stage, owed, hasty, got>>

(* ... or the end of the stream, or a reset: close.                        *)
RecvEnd ==
  /\ ~crashed /\ at \in {"recv", "receive"}
  /\ inbox[serving] = <<>>
  /\ peer[serving] # "open"
  /\ Close
  /\ UNCHANGED <<running, crashed, backlog, peer, stage, owed, hasty, got>>

(* The head of the loop, which clears the buffers.                         *)
Waits ==
  /\ at' = "receive"
  /\ received' = <<>>

GreetDropsLine ==
  /\ ~crashed /\ at = "greet"
  /\ Sends
  /\ Waits
  /\ UNCHANGED <<running, serving, backlog, conn, inbox, stage, owed, hasty>>

(* The greeting, once the first bytes are not HTTP.                        *)
Greet ==
  /\ ~crashed /\ at = "greet"
  /\ Sends
  /\ \/ Line = "empty" /\ Waits
     \/ Line # "empty" /\ at' = "process" /\ UNCHANGED received
  /\ UNCHANGED <<running, serving, backlog, conn, inbox, stage, owed, hasty>>

(* process_command for a TCP client.  QUIT is not answered.                *)
ProcessLine ==
  /\ ~crashed /\ at = "process" /\ ~IsHttp(serving)
  /\ \/ /\ Line = "quit"
        /\ running' = FALSE
        /\ Close
     \/ /\ Line # "quit"
        /\ at' = "respond"
        /\ UNCHANGED <<running, serving, received, conn, inbox>>
  /\ UNCHANGED <<crashed, backlog, peer, stage, owed, hasty, got>>

ProcessHttpDropsHalf ==
  /\ ~crashed /\ at = "process" /\ IsHttp(serving)
  /\ running' = (running /\ ~(HasBody /\ Posted = "quit"))
  /\ \/ HasBody /\ at' = "respond" /\ UNCHANGED <<serving, received, conn, inbox>>
     \/ ~HasBody /\ Close
  /\ UNCHANGED <<crashed, backlog, peer, stage, owed, hasty, got>>

(* handle_http_request up to its answer: QUIT is one command among others, and
   a request without its body is answered with a parse failure.            *)
ProcessHttp ==
  /\ ~crashed /\ at = "process" /\ IsHttp(serving)
  /\ running' = (running /\ ~(HasBody /\ Posted = "quit"))
  /\ at' = "respond"
  /\ UNCHANGED <<serving, received, crashed, backlog, conn, client>>

RespondKeepsHttp ==
  /\ ~crashed /\ at = "respond"
  /\ Sends
  /\ Answers
  /\ Waits
  /\ UNCHANGED <<running, serving, backlog, conn, inbox, stage, hasty>>

RespondForgetsClose ==
  /\ ~crashed /\ at = "respond"
  /\ Sends
  /\ Answers
  /\ \/ /\ IsHttp(serving)
        /\ serving' = NoClient /\ received' = <<>> /\ at' = "select"
     \/ ~IsHttp(serving) /\ Waits /\ UNCHANGED serving
  /\ UNCHANGED <<running, backlog, conn, inbox, stage, hasty>>

(* The answer.  An HTTP connection is closed after it, a TCP one goes on.  *)
Respond ==
  /\ ~crashed /\ at = "respond"
  /\ Sends
  /\ Answers
  /\ \/ IsHttp(serving) /\ Close
     \/ /\ ~IsHttp(serving)
        /\ Waits
        /\ UNCHANGED <<serving, conn, inbox>>
  /\ UNCHANGED <<running, backlog, stage, hasty>>

-----------------------------------------------------------------------------
(* The clients.                                                            *)

Connected(c) == conn[c] \in {"queued", "served"} /\ peer[c] = "open"

(* The kernel completes connections while the listen queue has room.       *)
Connect(c) ==
  /\ Up
  /\ conn[c] = "out"
  /\ Len(backlog) < Backlog
  /\ conn' = [conn EXCEPT ![c] = "queued"]
  /\ backlog' = Append(backlog, c)
  /\ UNCHANGED <<server, client>>

Delivers(c, messages) ==
  /\ Up
  /\ Connected(c)
  /\ Len(inbox[c]) + Len(messages) <= MaxInbox
  /\ inbox' = [inbox EXCEPT ![c] = @ \o messages]

(* A telnet session sends a line, whether or not the last one was answered. *)
Type(c, line) ==
  /\ Delivers(c, <<line>>)
  /\ hasty' = [hasty EXCEPT ![c] = @ \/ inbox[c] # <<>>]
  /\ owed' = [owed EXCEPT ![c] = IF hasty'[c] THEN 0
                                 ELSE IF line = "command" THEN @ + 1 ELSE @]
  /\ UNCHANGED <<server, backlog, conn, peer, stage, got>>

(* client.c sends the command it was given, once.                          *)
SendCommand(c, line) ==
  /\ stage[c] = "fresh"
  /\ Delivers(c, <<line>>)
  /\ stage' = [stage EXCEPT ![c] = "sent"]
  /\ owed' = [owed EXCEPT ![c] = IF line = "command" THEN 1 ELSE 0]
  /\ UNCHANGED <<server, backlog, conn, peer, hasty, got>>

(* fetch of the page or of /api/command: the network may hold back the body. *)
Request(c, messages) ==
  /\ stage[c] = "fresh"
  /\ Delivers(c, messages)
  /\ stage' = [stage EXCEPT ![c] = IF messages = <<"head">> THEN "half" ELSE "sent"]
  /\ UNCHANGED <<server, backlog, conn, peer, owed, hasty, got>>

Body(c, line) ==
  /\ stage[c] = "half"
  /\ Delivers(c, <<line>>)
  /\ stage' = [stage EXCEPT ![c] = "sent"]
  /\ UNCHANGED <<server, backlog, conn, peer, owed, hasty, got>>

(* The client closes its end, at any moment: a person hangs up, a page is
   closed, client.c has had its one read or is killed before.              *)
Leave(c) ==
  /\ Up
  /\ Connected(c)
  /\ peer' = [peer EXCEPT ![c] = "left"]
  /\ UNCHANGED <<server, backlog, conn, inbox, stage, owed, hasty, got>>

(* A connection that is over makes room for the client's next one.         *)
Return(c) ==
  /\ Up
  /\ conn[c] = "closed"
  /\ conn' = [conn EXCEPT ![c] = "out"]
  /\ peer' = [peer EXCEPT ![c] = "open"]
  /\ stage' = [stage EXCEPT ![c] = "fresh"]
  /\ owed' = [owed EXCEPT ![c] = 0]
  /\ hasty' = [hasty EXCEPT ![c] = FALSE]
  /\ got' = [got EXCEPT ![c] = FALSE]
  /\ UNCHANGED <<server, backlog, inbox>>

(* The process is gone; its clients find nobody.                           *)
Ended ==
  /\ ~Up
  /\ UNCHANGED vars

-----------------------------------------------------------------------------
ServerStep ==
  \/ Accept \/ Exit \/ Recv \/ RecvEnd \/ Greet
  \/ ProcessLine \/ ProcessHttp \/ Respond

Requests == {<<"page">>, <<"head">>, <<"head", "command">>, <<"head", "quit">>}

BrowserSends(c) ==
  \/ \E messages \in Requests : Request(c, messages)
  \/ \E line \in {"command", "quit"} : Body(c, line)

ConsoleSends(c) == \E line \in {"command", "quit"} : SendCommand(c, line)

Next ==
  \/ ServerStep
  \/ \E c \in Clients : Connect(c) \/ Leave(c) \/ Return(c)
  \/ \E c \in Telnets, line \in Lines : Type(c, line)
  \/ \E c \in Browsers : BrowserSends(c)
  \/ \E c \in Consoles : ConsoleSends(c)
  \/ Ended

Spec == Init /\ [][Next]_vars

(* The server's thread runs on.  A browser sends the request it connected for,
   and client.c its command, and leaves after its read: that is their code.
   Nobody has to be killed before.                                         *)
Fairness ==
  /\ WF_vars(ServerStep)
  /\ \A c \in Browsers : WF_vars(BrowserSends(c))
  /\ \A c \in Consoles :
       WF_vars(ConsoleSends(c)) /\ WF_vars(got[c] /\ Leave(c))

FairSpec == Spec /\ Fairness

(* Moreover every telnet session is hung up some day: an assumption about the
   people at the terminals.                                                *)
PatientSpec == FairSpec /\ \A c \in Telnets : WF_vars(Leave(c))

-----------------------------------------------------------------------------
(* Properties.                                                             *)

(* No descriptor leaks and none is used after its close: a connection is
   accepted and open exactly while it is the one being served, on every path
   out of handle_client.                                                   *)
OneSession == \A c \in Clients : conn[c] = "served" <=> serving = c

(* No command is lost or left without its answer, as long as its line does not
   meet an earlier one in the receive buffer: when the server waits for the
   next line, or has closed the connection, every earlier one has been
   answered, also to a client.c that has left.  (Lines that do meet are lost
   but for the first.)                                                     *)
NothingLost ==
  running =>
    \A c \in Telnets \cup Consoles :
      /\ ~hasty[c]
      /\ inbox[c] = <<>>
      /\ conn[c] = "closed" \/ (serving = c /\ at = "receive")
      => owed[c] = 0

(* SIGPIPE is not ignored, yet the web page cannot bring the server down, at
   whatever point of being queued, received or answered it leaves, and client.c
   cannot by leaving after its read, when the answer may still be to come.
   Only two can: a telnet session that is hung up at the wrong moment, and a
   client.c that is killed before anything was sent to it: it gets greeting and
   answer all the same.                                                    *)
SurvivesItsClients ==
  crashed => serving \in Telnets \/ (serving \in Consoles /\ ~got[serving])

(* Clients are served one at a time and in the order they connected, and the web
   page and client.c, if they stay, are never sent away without an answer or at
   least the greeting, on none of the ways out of handle_client; only the
   client being served can end the server.                                 *)
Promise == INSTANCE Desk WITH
  Guests <- Clients, Brief <- Browsers \cup Consoles, Nobody <- NoClient,
  line <- backlog, turn <- serving, open <- running,
  here <- {c \in Clients : Connected(c)},
  given <- {c \in Clients : got[c]}

ServesInTurn == Promise!Spec

(* QUIT, from a browser or a TCP client, ends the server.                  *)
QuitEnds == ~running ~> (at = "exited" \/ crashed)

(* Every browser and every client.c that connected and stays is answered or
   greeted, unless the server ends first.                                  *)
RequestsServed ==
  \A c \in Browsers \cup Consoles :
    conn[c] = "queued" ~> (got[c] \/ peer[c] # "open" \/ ~running \/ crashed)
=============================================================================
