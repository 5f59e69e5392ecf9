---------------------------- MODULE ServerProofs ----------------------------
(***************************************************************************)
(* Theorems about Server, for any number of clients of each kind, any      *)
(* listen queue and any size of the receive buffers.                       *)
(***************************************************************************)
EXTENDS Server, SequenceTheorems, TLAPS

(* What the server holds at each place: a client outside the main loop, and
   data in its buffer only between a recv and the answer.                  *)
Places ==
  /\ serving = NoClient <=> at \in {"select", "exited"}
  /\ at \in {"select", "exited", "recv", "receive"} => received = <<>>
  /\ at \in {"greet", "receive"} => serving \notin Browsers

(* The inductive form of TypeOK.                                           *)
TypeInv == TypeOK /\ Places

LEMMA ClientTypes ==
  /\ NoClient \notin Clients
  /\ \A c \in Clients \ Browsers : c \in Telnets \cup Consoles
  /\ \A c \in Telnets \cup Consoles : c \notin Browsers
  /\ Telnets \cap Consoles = {}
  /\ Backlog \in Nat /\ MaxInbox \in Nat /\ 1 <= MaxInbox
  BY ServerAssumption DEF ServerAssumption, Clients

LEMMA EmptyMessages == <<>> \in Seq(Messages) /\ Len(<<>>) = 0
  BY EmptySeq

LEMMA InitTypeInv == Init => TypeInv
<1> SUFFICES ASSUME Init
             PROVE  TypeInv
  OBVIOUS
<1>1. /\ received \in Seq(Messages)
      /\ Len(received) <= IF serving \in Browsers THEN MaxInbox ELSE 1
  BY EmptyMessages, ClientTypes DEF Init
<1>2. backlog \in Seq(Clients) /\ Len(backlog) <= Backlog
  BY EmptySeq, ClientTypes DEF Init
<1>3. inbox \in [Clients -> Seq(Messages)] /\ \A c \in Clients : Len(inbox[c]) <= MaxInbox
  BY EmptyMessages, ClientTypes DEF Init
<1>4. /\ conn \in [Clients -> {"out", "queued", "served", "closed"}]
      /\ peer \in [Clients -> {"open", "left", "broken"}]
      /\ stage \in [Clients -> {"fresh", "half", "sent"}]
      /\ owed \in [Clients -> Nat]
      /\ hasty \in [Clients -> BOOLEAN] /\ got \in [Clients -> BOOLEAN]
  BY DEF Init
<1>5. running \in BOOLEAN /\ crashed \in BOOLEAN /\ at = "select" /\ serving = NoClient
  BY DEF Init
<1>6. Places
  BY ClientTypes DEF Init, Places, Clients
<1> QED
  BY <1>1, <1>2, <1>3, <1>4, <1>5, <1>6 DEF TypeInv, TypeOK

(* What is kept of a recv fits the buffer it is kept in.                   *)
LEMMA KeptTypes ==
  ASSUME NEW c \in Clients, inbox[c] \in Seq(Messages), inbox[c] # <<>>,
         Len(inbox[c]) <= MaxInbox
  PROVE  /\ Kept(c) \in Seq(Messages)
         /\ Len(Kept(c)) <= IF c \in Browsers THEN MaxInbox ELSE 1
<1>1. Head(inbox[c]) \in Messages
  BY HeadTailProperties
<1>2. <<Head(inbox[c])>> \in Seq(Messages) /\ Len(<<Head(inbox[c])>>) = 1
  BY <1>1
<1> QED
  BY <1>2 DEF Kept, IsHttp

LEMMA CloseTypes ==
  ASSUME TypeInv, serving # NoClient, Close
  PROVE  /\ conn' \in [Clients -> {"out", "queued", "served", "closed"}]
         /\ inbox' \in [Clients -> Seq(Messages)]
         /\ \A c \in Clients : Len(inbox'[c]) <= MaxInbox
         /\ serving' = NoClient /\ received' = <<>> /\ at' = "select"
  BY EmptyMessages, ClientTypes DEF Close, TypeInv, TypeOK

LEMMA SendsTypes ==
  ASSUME TypeInv, serving # NoClient, Sends
  PROVE  /\ got' \in [Clients -> BOOLEAN]
         /\ crashed' \in BOOLEAN
         /\ peer' \in [Clients -> {"open", "left", "broken"}]
<1> USE DEF TypeInv, TypeOK, Sends
<1>1. got' \in [Clients -> BOOLEAN]
  OBVIOUS
<1>2. peer' \in [Clients -> {"open", "left", "broken"}]
  OBVIOUS
<1> QED
  BY <1>1, <1>2

LEMMA ServerTypeInv ==
  ASSUME TypeInv, ServerStep
  PROVE  TypeInv'
<1> USE ClientTypes, EmptyMessages DEF TypeInv, TypeOK, Places, server, client
<1>1. CASE Accept
  <2>1. Head(backlog) \in Clients /\ Tail(backlog) \in Seq(Clients)
    BY <1>1, HeadTailProperties DEF Accept
  <2>2. Len(Tail(backlog)) <= Backlog
    BY <1>1, HeadTailProperties, LenProperties DEF Accept
  <2>3. Head(backlog) # NoClient
    BY <2>1
  <2> QED
    BY <1>1, <2>1, <2>2, <2>3 DEF Accept
<1>2. CASE Exit
  BY <1>2 DEF Exit
<1>3. CASE Recv
  <2>1. serving \in Clients
    BY <1>3 DEF Recv
  <2>2. /\ Kept(serving) \in Seq(Messages)
        /\ Len(Kept(serving)) <= IF serving \in Browsers THEN MaxInbox ELSE 1
    BY <1>3, <2>1, KeptTypes DEF Recv
  <2>3. /\ inbox' \in [Clients -> Seq(Messages)]
        /\ \A c \in Clients : Len(inbox'[c]) <= MaxInbox
    BY <1>3 DEF Recv
  <2> QED
    BY <1>3, <2>1, <2>2, <2>3 DEF Recv, Holds, IsHttp
<1>4. CASE RecvEnd
  BY <1>4, CloseTypes DEF RecvEnd
<1>5. CASE Greet
  <2>1. serving # NoClient /\ Sends
    BY <1>5 DEF Greet
  <2>2. CASE Waits
    BY <1>5, <2>1, <2>2, SendsTypes DEF Greet, Waits
  <2>3. CASE at' = "process" /\ UNCHANGED received
    BY <1>5, <2>1, <2>3, SendsTypes DEF Greet
  <2> QED
    BY <1>5, <2>2, <2>3 DEF Greet
<1>6. CASE ProcessLine
  <2>1. serving # NoClient
    BY <1>6 DEF ProcessLine
  <2>2. CASE Close
    <3>1. /\ conn' \in [Clients -> {"out", "queued", "served", "closed"}]
          /\ inbox' \in [Clients -> Seq(Messages)]
          /\ \A c \in Clients : Len(inbox'[c]) <= MaxInbox
          /\ serving' = NoClient /\ received' = <<>> /\ at' = "select"
      BY <2>1, <2>2, CloseTypes
    <3>2. running' \in BOOLEAN
      BY <1>6 DEF ProcessLine
    <3> QED
      BY <1>6, <3>1, <3>2 DEF ProcessLine
  <2>3. CASE at' = "respond" /\ UNCHANGED <<running, serving, received, conn, inbox>>
    BY <1>6, <2>3 DEF ProcessLine
  <2> QED
    BY <1>6, <2>2, <2>3 DEF ProcessLine
<1>7. CASE ProcessHttp
  BY <1>7 DEF ProcessHttp
<1>8. CASE Respond
  <2>1. owed' \in [Clients -> Nat]
    BY <1>8 DEF Respond, Answers
  <2>2. serving # NoClient /\ Sends
    BY <1>8 DEF Respond
  <2>3. /\ got' \in [Clients -> BOOLEAN]
        /\ crashed' \in BOOLEAN
        /\ peer' \in [Clients -> {"open", "left", "broken"}]
    BY <2>2, SendsTypes
  <2>4. CASE Close
    <3>1. /\ conn' \in [Clients -> {"out", "queued", "served", "closed"}]
          /\ inbox' \in [Clients -> Seq(Messages)]
          /\ \A c \in Clients : Len(inbox'[c]) <= MaxInbox
          /\ serving' = NoClient /\ received' = <<>> /\ at' = "select"
      BY <2>2, <2>4, CloseTypes
    <3> QED
      BY <1>8, <2>1, <2>3, <3>1 DEF Respond
  <2>5. CASE serving \notin Browsers /\ Waits /\ UNCHANGED <<serving, conn, inbox>>
    BY <1>8, <2>1, <2>2, <2>3, <2>5 DEF Respond, Waits
  <2> QED
    BY <1>8, <2>4, <2>5 DEF Respond, IsHttp
<1> QED
  BY <1>1, <1>2, <1>3, <1>4, <1>5, <1>6, <1>7, <1>8 DEF ServerStep

-----------------------------------------------------------------------------
(* What a client does.                                                     *)
ClientStep(c) ==
  \/ Connect(c) \/ Leave(c) \/ Return(c)
  \/ c \in Telnets /\ \E line \in Lines : Type(c, line)
  \/ c \in Browsers /\ BrowserSends(c)
  \/ c \in Consoles /\ ConsoleSends(c)

LEMMA DeliversTypes ==
  ASSUME TypeInv, NEW c \in Clients, NEW messages \in Seq(Messages),
         Delivers(c, messages)
  PROVE  /\ inbox' \in [Clients -> Seq(Messages)]
         /\ \A d \in Clients : Len(inbox'[d]) <= MaxInbox
<1> USE DEF TypeInv, TypeOK, Delivers
<1>1. /\ inbox[c] \o messages \in Seq(Messages)
      /\ Len(inbox[c] \o messages) = Len(inbox[c]) + Len(messages)
  BY ConcatProperties
<1> QED
  BY <1>1

LEMMA MessagesAreTyped ==
  /\ \A line \in Lines : <<line>> \in Seq(Messages)
  /\ {"command", "quit"} \subseteq Lines
  /\ \A messages \in Requests : messages \in Seq(Messages)
<1>1. \A m \in Messages : <<m>> \in Seq(Messages)
  OBVIOUS
<1>2. \A m, n \in Messages : <<m, n>> \in Seq(Messages)
  OBVIOUS
<1> QED
  BY <1>1, <1>2 DEF Messages, Lines, Requests

LEMMA ClientTypeInv ==
  ASSUME TypeInv, NEW c \in Clients, ClientStep(c)
  PROVE  TypeInv'
<1> USE DEF server, client
<1>1. CASE Connect(c)
  <2>1. Append(backlog, c) \in Seq(Clients) /\ Len(Append(backlog, c)) = Len(backlog) + 1
    BY AppendProperties DEF TypeInv, TypeOK
  <2>2. Len(backlog) \in Nat
    BY LenProperties DEF TypeInv, TypeOK
  <2> QED
    BY <1>1, <2>1, <2>2, ClientTypes DEF Connect, TypeInv, TypeOK, Places
<1>2. CASE Leave(c)
  BY <1>2 DEF Leave, TypeInv, TypeOK, Places
<1>3. CASE Return(c)
  BY <1>3 DEF Return, TypeInv, TypeOK, Places
<1>4. ASSUME NEW line \in Lines, Type(c, line)
      PROVE  TypeInv'
  <2>1. /\ inbox' \in [Clients -> Seq(Messages)]
        /\ \A d \in Clients : Len(inbox'[d]) <= MaxInbox
    BY <1>4, DeliversTypes, MessagesAreTyped DEF Type
  <2>2. hasty' \in [Clients -> BOOLEAN]
    BY <1>4 DEF Type, TypeInv, TypeOK
  <2>3. owed' \in [Clients -> Nat]
    BY <1>4 DEF Type, TypeInv, TypeOK
  <2> QED
    BY <1>4, <2>1, <2>2, <2>3 DEF Type, TypeInv, TypeOK, Places
<1>5. ASSUME NEW messages \in Requests, Request(c, messages)
      PROVE  TypeInv'
  <2>1. /\ inbox' \in [Clients -> Seq(Messages)]
        /\ \A d \in Clients : Len(inbox'[d]) <= MaxInbox
    BY <1>5, DeliversTypes, MessagesAreTyped DEF Request
  <2>2. stage' \in [Clients -> {"fresh", "half", "sent"}]
    BY <1>5 DEF Request, TypeInv, TypeOK
  <2> QED
    BY <1>5, <2>1, <2>2 DEF Request, TypeInv, TypeOK, Places
<1>6. ASSUME NEW line \in {"command", "quit"}, Body(c, line)
      PROVE  TypeInv'
  <2>1. /\ inbox' \in [Clients -> Seq(Messages)]
        /\ \A d \in Clients : Len(inbox'[d]) <= MaxInbox
    BY <1>6, DeliversTypes, MessagesAreTyped DEF Body
  <2>2. stage' \in [Clients -> {"fresh", "half", "sent"}]
    BY <1>6 DEF Body, TypeInv, TypeOK
  <2> QED
    BY <1>6, <2>1, <2>2 DEF Body, TypeInv, TypeOK, Places
<1>7. ASSUME NEW line \in {"command", "quit"}, SendCommand(c, line)
      PROVE  TypeInv'
  <2>1. /\ inbox' \in [Clients -> Seq(Messages)]
        /\ \A d \in Clients : Len(inbox'[d]) <= MaxInbox
    BY <1>7, DeliversTypes, MessagesAreTyped DEF SendCommand
  <2>2. stage' \in [Clients -> {"fresh", "half", "sent"}]
    BY <1>7 DEF SendCommand, TypeInv, TypeOK
  <2>3. owed' \in [Clients -> Nat]
    BY <1>7 DEF SendCommand, TypeInv, TypeOK
  <2> QED
    BY <1>7, <2>1, <2>2, <2>3 DEF SendCommand, TypeInv, TypeOK, Places
<1> QED
  BY <1>1, <1>2, <1>3, <1>4, <1>5, <1>6, <1>7 DEF ClientStep, BrowserSends, ConsoleSends

(* A step is one of the server, one of a client, or none.                  *)
LEMMA StepCases ==
  ASSUME [Next]_vars
  PROVE  ServerStep \/ (\E c \in Clients : ClientStep(c)) \/ UNCHANGED vars
  BY DEF Next, ClientStep, Clients, Ended

LEMMA NextTypeInv == TypeInv /\ [Next]_vars => TypeInv'
<1> SUFFICES ASSUME TypeInv, [Next]_vars
             PROVE  TypeInv'
  OBVIOUS
<1>1. CASE UNCHANGED vars
  BY <1>1 DEF vars, server, client, TypeInv, TypeOK, Places
<1> QED
  BY <1>1, StepCases, ServerTypeInv, ClientTypeInv

(* Every reachable state is well typed, and the buffer holds something only
   between a recv and the answer to it.                                    *)
THEOREM TypeCorrect == Spec => [](TypeOK /\ Places)
  BY InitTypeInv, NextTypeInv, PTL DEF Spec, TypeInv
-----------------------------------------------------------------------------
(* The listen queue holds clients that wait in it, each once: why the accepted
   client is nobody else's, and the others go on waiting.                  *)
QueueIsExact ==
  /\ \A k \in 1 .. Len(backlog) : conn[backlog[k]] = "queued"
  /\ \A k, l \in 1 .. Len(backlog) : backlog[k] = backlog[l] => k = l

SessionInv == QueueIsExact /\ OneSession

LEMMA ServerSessionInv ==
  ASSUME TypeInv, SessionInv, ServerStep
  PROVE  SessionInv'
<1> USE ClientTypes DEF TypeInv, TypeOK, Places, SessionInv, OneSession
<1>1. CASE Accept
  <2>1. /\ Len(backlog) \in Nat \ {0}
        /\ Len(Tail(backlog)) = Len(backlog) - 1
        /\ \A k \in 1 .. Len(Tail(backlog)) : Tail(backlog)[k] = backlog[k + 1]
        /\ Head(backlog) = backlog[1]
    BY <1>1, EmptySeq, HeadTailProperties DEF Accept
  <2>2. \A k \in 1 .. Len(backlog) : backlog[k] \in Clients
    BY ElementOfSeq
  <2>3. QueueIsExact'
    BY <1>1, <2>1, <2>2 DEF Accept, QueueIsExact
  <2>4. OneSession'
    BY <1>1, <2>1, <2>2 DEF Accept, QueueIsExact
  <2> QED
    BY <2>3, <2>4
<1>2. CASE Close /\ UNCHANGED backlog /\ serving # NoClient
  <2>1. QueueIsExact'
    <3>1. \A k \in 1 .. Len(backlog) : backlog[k] \in Clients
      BY ElementOfSeq
    <3> QED
      BY <1>2, <3>1 DEF Close, QueueIsExact
  <2>2. OneSession'
    BY <1>2 DEF Close
  <2> QED
    BY <2>1, <2>2
<1>3. CASE UNCHANGED <<conn, serving, backlog>>
  BY <1>3 DEF QueueIsExact
<1> QED
  BY <1>1, <1>2, <1>3 DEF ServerStep, Exit, Recv, RecvEnd, Greet, ProcessLine,
     ProcessHttp, Respond

LEMMA ClientSessionInv ==
  ASSUME TypeInv, SessionInv, NEW c \in Clients, ClientStep(c)
  PROVE  SessionInv'
<1> USE ClientTypes DEF TypeInv, TypeOK, SessionInv, OneSession
<1>1. CASE Connect(c)
  <2>1. /\ Len(backlog) \in Nat
        /\ Len(Append(backlog, c)) = Len(backlog) + 1
        /\ \A k \in 1 .. Len(backlog) : Append(backlog, c)[k] = backlog[k]
        /\ Append(backlog, c)[Len(backlog) + 1] = c
    BY AppendProperties, LenProperties
  <2>2. \A k \in 1 .. Len(backlog) : backlog[k] \in Clients
    BY ElementOfSeq
  <2>3. QueueIsExact'
    <3>1. /\ conn[c] = "out" /\ conn' = [conn EXCEPT ![c] = "queued"]
          /\ backlog' = Append(backlog, c)
      BY <1>1 DEF Connect
    <3>2. \A k \in 1 .. Len(backlog) : backlog[k] # c
      BY <3>1 DEF QueueIsExact
    <3>3. \A k \in 1 .. Len(backlog') : conn'[backlog'[k]] = "queued"
      BY <2>1, <2>2, <3>1 DEF QueueIsExact
    <3>4. \A k, l \in 1 .. Len(backlog') : backlog'[k] = backlog'[l] => k = l
      <4> SUFFICES ASSUME NEW k \in 1 .. Len(backlog'), NEW l \in 1 .. Len(backlog'),
                          backlog'[k] = backlog'[l]
                   PROVE  k = l
        OBVIOUS
      <4>1. CASE k = Len(backlog) + 1 \/ l = Len(backlog) + 1
        BY <2>1, <3>1, <3>2, <4>1
      <4>2. CASE k # Len(backlog) + 1 /\ l # Len(backlog) + 1
        BY <2>1, <3>1, <4>2 DEF QueueIsExact
      <4> QED
        BY <4>1, <4>2
    <3> QED
      BY <3>3, <3>4 DEF QueueIsExact
  <2>4. OneSession'
    BY <1>1 DEF Connect, server
  <2> QED
    BY <2>3, <2>4
<1>2. CASE Return(c)
  <2>1. \A k \in 1 .. Len(backlog) : backlog[k] \in Clients
    BY ElementOfSeq
  <2> QED
    BY <1>2, <2>1 DEF Return, QueueIsExact, server
<1>3. CASE UNCHANGED <<conn, serving, backlog>>
  BY <1>3 DEF QueueIsExact
<1> QED
  BY <1>1, <1>2, <1>3 DEF ClientStep, BrowserSends, ConsoleSends, Leave, Type,
     Request, Body, SendCommand, server

LEMMA NextSessionInv == TypeInv /\ SessionInv /\ [Next]_vars => SessionInv'
<1> SUFFICES ASSUME TypeInv, SessionInv, [Next]_vars
             PROVE  SessionInv'
  OBVIOUS
<1>1. CASE UNCHANGED vars
  BY <1>1 DEF vars, server, SessionInv, QueueIsExact, OneSession
<1> QED
  BY <1>1, StepCases, ServerSessionInv, ClientSessionInv

LEMMA InitSessionInv == Init => SessionInv
  BY EmptySeq, ClientTypes DEF Init, SessionInv, QueueIsExact, OneSession

(* A connection is open and accepted exactly while it is the one served.   *)
THEOREM SessionsAreExclusive == Spec => []OneSession
  BY InitTypeInv, NextTypeInv, InitSessionInv, NextSessionInv, PTL
  DEF Spec, SessionInv
-----------------------------------------------------------------------------
(* Why the clients of the repository cannot end the server.  A browser gets one
   send, so the reset that answers it comes to a closed connection.  A
   client.c that was told something was there for the greeting, the first send;
   the answer is the second and last, because it has nothing more to say.  *)
BrowsersGetOneSend == \A c \in Browsers : peer[c] = "broken" => conn[c] = "closed"

NotYetTold(c) ==
  conn[c] \in {"out", "queued"} \/ (serving = c /\ at \in {"recv", "greet"}) =>
    peer[c] # "broken" /\ ~got[c]

SpeaksOnce(c) ==
  /\ inbox[c] # <<>> => stage[c] = "sent"
  /\ conn[c] = "closed" => inbox[c] = <<>>
  /\ serving = c /\ at # "recv" => stage[c] = "sent" /\ inbox[c] = <<>>

ConsolesGetTwoSends ==
  \A c \in Consoles :
    /\ NotYetTold(c)
    /\ SpeaksOnce(c)
    /\ serving = c /\ peer[c] = "broken" /\ got[c] => at = "receive"

MannersInv == SurvivesItsClients /\ BrowsersGetOneSend /\ ConsolesGetTwoSends

LEMMA InitMannersInv == Init => MannersInv
  BY ClientTypes DEF Init, MannersInv, SurvivesItsClients, BrowsersGetOneSend,
     ConsolesGetTwoSends, NotYetTold, SpeaksOnce, Clients

(* The clients never touch the server's side.                              *)
LEMMA ClientMannersInv ==
  ASSUME TypeInv, SessionInv, MannersInv, NEW c \in Clients, ClientStep(c)
  PROVE  MannersInv'
<1> USE ClientTypes DEF server, client
<1>1. SurvivesItsClients'
  <2>1. ~crashed /\ UNCHANGED crashed
    BY DEF ClientStep, Connect, Leave, Return, Type, BrowserSends, Request, Body,
       ConsoleSends, SendCommand, Delivers, Up
  <2> QED
    BY <2>1 DEF SurvivesItsClients
<1>2. BrowsersGetOneSend'
  <2> USE DEF TypeInv, TypeOK, MannersInv, BrowsersGetOneSend, Clients
  <2>1. CASE Connect(c)
    BY <2>1 DEF Connect
  <2>2. CASE Leave(c)
    BY <2>2 DEF Leave
  <2>3. CASE Return(c)
    BY <2>3 DEF Return
  <2>4. CASE UNCHANGED <<peer, conn>>
    BY <2>4
  <2> QED
    BY <2>1, <2>2, <2>3, <2>4 DEF ClientStep, Type, BrowserSends, Request, Body,
       ConsoleSends, SendCommand
<1>3. ASSUME NEW d \in Consoles
      PROVE  /\ NotYetTold(d)'
             /\ SpeaksOnce(d)'
             /\ (serving = d /\ peer[d] = "broken" /\ got[d] => at = "receive")'
  <2>0. /\ d \in Clients /\ d \notin Telnets /\ d \notin Browsers
        /\ NotYetTold(d) /\ SpeaksOnce(d)
        /\ serving = d /\ peer[d] = "broken" /\ got[d] => at = "receive"
        /\ conn[d] = "served" <=> serving = d
    BY ServerAssumption DEF ServerAssumption, MannersInv, ConsolesGetTwoSends, Clients,
       SessionInv, OneSession
  <2> USE <2>0 DEF TypeInv, TypeOK, NotYetTold, SpeaksOnce
  <2>1. CASE Connect(c)
    BY <2>1 DEF Connect
  <2>2. CASE Leave(c)
    BY <2>2 DEF Leave
  <2>3. CASE Return(c)
    BY <2>3 DEF Return
  <2>4. ASSUME NEW line \in {"command", "quit"}, SendCommand(c, line)
        PROVE  /\ NotYetTold(d)'
               /\ SpeaksOnce(d)'
               /\ (serving = d /\ peer[d] = "broken" /\ got[d] => at = "receive")'
    BY <2>4 DEF SendCommand, Delivers, Connected
  <2>5. CASE /\ c # d
             /\ UNCHANGED <<server, conn, peer, got, inbox[d], stage[d]>>
    BY <2>5
  <2>6. ASSUME c \in Telnets, NEW line \in Lines, Type(c, line)
        PROVE  /\ c # d
               /\ UNCHANGED <<server, conn, peer, got, inbox[d], stage[d]>>
    BY <2>6 DEF Type, Delivers
  <2>7. ASSUME c \in Browsers, BrowserSends(c)
        PROVE  /\ c # d
               /\ UNCHANGED <<server, conn, peer, got, inbox[d], stage[d]>>
    BY <2>7 DEF BrowserSends, Request, Body, Delivers
  <2> QED
    BY <2>1, <2>2, <2>3, <2>4, <2>5, <2>6, <2>7 DEF ClientStep, ConsoleSends
<1> QED
  BY <1>1, <1>2, <1>3 DEF MannersInv, ConsolesGetTwoSends

LEMMA ServerMannersInv ==
  ASSUME TypeInv, SessionInv, MannersInv, ServerStep
  PROVE  MannersInv'
<1>1. \A c \in Clients : conn[c] = "served" <=> serving = c
  BY DEF SessionInv, OneSession
<1>2. \A c \in Clients : c \in Telnets \/ c \in Browsers \/ c \in Consoles
  BY DEF Clients
<1>3. SurvivesItsClients'
  <2> USE <1>1, <1>2 DEF MannersInv, SurvivesItsClients
  <2>1. CASE UNCHANGED <<crashed, serving, got>> \/ ~crashed'
    BY <2>1
  <2>2. CASE Greet
    <3>1. serving \in Clients /\ serving \notin Browsers
      BY <2>2 DEF Greet, TypeInv, TypeOK, Places
    <3>2. serving \in Consoles => peer[serving] # "broken"
      BY <2>2 DEF Greet, ConsolesGetTwoSends, NotYetTold
    <3> QED
      BY <2>2, <3>1, <3>2 DEF Greet, Sends, Waits
  <2>3. CASE Respond
    <3>1. serving \in Clients
      BY <2>3 DEF Respond, TypeInv, TypeOK, Places
    <3>2. serving \in Browsers => peer[serving] # "broken"
      BY <2>3, <3>1 DEF Respond, BrowsersGetOneSend
    <3>3. serving \in Consoles => peer[serving] # "broken" \/ ~got[serving]
      BY <2>3 DEF Respond, ConsolesGetTwoSends
    <3>4. serving \notin Browsers => serving' = serving
      BY <2>3, ClientTypes DEF Respond, IsHttp
    <3>5. crashed' => peer[serving] = "broken" /\ serving \in Telnets \cup Consoles
      BY <2>3, <3>1, <3>2 DEF Respond, Sends
    <3>6. peer[serving] = "broken" => (got'[serving] <=> got[serving])
      BY <2>3, <3>1 DEF Respond, Sends, TypeInv, TypeOK
    <3> QED
      BY <3>3, <3>4, <3>5, <3>6, ClientTypes
  <2> QED
    BY <2>1, <2>2, <2>3 DEF ServerStep, Accept, Exit, Recv, RecvEnd, ProcessLine,
       ProcessHttp, client
<1>4. BrowsersGetOneSend'
  <2> USE <1>1, ClientTypes DEF MannersInv, BrowsersGetOneSend, TypeInv, TypeOK, Places
  <2>1. CASE UNCHANGED <<peer, conn>>
    BY <2>1
  <2>2. CASE Accept
    <3>1. Head(backlog) \in Clients /\ conn[Head(backlog)] = "queued"
      BY <2>2, EmptySeq, ElementOfSeq, HeadTailProperties
      DEF Accept, SessionInv, QueueIsExact
    <3> QED
      BY <2>2, <3>1 DEF Accept, client
  <2>3. CASE Close /\ UNCHANGED peer
    BY <2>3 DEF Close, Clients
  <2>4. CASE Greet
    BY <2>4 DEF Greet, Sends, Clients
  <2>5. CASE Respond
    <3>1. \A c \in Browsers : c # serving => peer'[c] = peer[c]
      BY <2>5 DEF Respond, Sends, Clients
    <3>2. CASE serving \in Browsers /\ Close
      BY <3>1, <3>2 DEF Close, Clients
    <3>3. CASE serving \notin Browsers /\ UNCHANGED conn
      BY <3>1, <3>3
    <3> QED
      BY <2>5, <3>2, <3>3 DEF Respond, IsHttp
  <2> QED
    BY <2>1, <2>2, <2>3, <2>4, <2>5 DEF ServerStep, Exit, Recv, RecvEnd,
       ProcessLine, ProcessHttp, client
<1>5. ASSUME NEW d \in Consoles
      PROVE  /\ NotYetTold(d)'
             /\ SpeaksOnce(d)'
             /\ (serving = d /\ peer[d] = "broken" /\ got[d] => at = "receive")'
  <2>0. /\ d \in Clients /\ d \notin Telnets /\ d \notin Browsers /\ d # NoClient
        /\ NotYetTold(d) /\ SpeaksOnce(d)
        /\ serving = d /\ peer[d] = "broken" /\ got[d] => at = "receive"
        /\ conn[d] = "served" <=> serving = d
    BY ServerAssumption DEF ServerAssumption, MannersInv, ConsolesGetTwoSends, Clients,
       SessionInv, OneSession
  <2> USE <2>0 DEF TypeInv, TypeOK, Places, NotYetTold, SpeaksOnce, client
  <2>1. CASE Accept
    <3>1. Head(backlog) \in Clients /\ conn[Head(backlog)] = "queued"
      BY <2>1, EmptySeq, ElementOfSeq, HeadTailProperties
      DEF Accept, SessionInv, QueueIsExact
    <3> QED
      BY <2>1, <3>1 DEF Accept
  <2>2. CASE Exit
    BY <2>2 DEF Exit
  <2>3. CASE Recv
    BY <2>3 DEF Recv, Holds, IsHttp
  <2>4. CASE Close /\ (serving = d \/ UNCHANGED <<peer[d], got[d], stage[d]>>)
    BY <2>4 DEF Close
  <2>5. CASE Greet
    BY <2>5 DEF Greet, Sends, Waits
  <2>6. CASE ProcessLine
    BY <2>4, <2>6 DEF ProcessLine
  <2>7. CASE ProcessHttp
    BY <2>7 DEF ProcessHttp, IsHttp
  <2>8. CASE Respond
    <3>1. CASE Waits /\ UNCHANGED <<serving, conn, inbox>>
      BY <2>8, <3>1 DEF Respond, Sends, Waits
    <3>2. CASE Close /\ serving \in Browsers
      BY <2>8, <3>2, <2>4 DEF Respond, Sends
    <3> QED
      BY <2>8, <3>1, <3>2 DEF Respond, IsHttp
  <2>9. CASE RecvEnd
    BY <2>4, <2>9 DEF RecvEnd
  <2> QED
    BY <2>1, <2>2, <2>3, <2>5, <2>6, <2>7, <2>8, <2>9 DEF ServerStep
<1> QED
  BY <1>3, <1>4, <1>5 DEF MannersInv, ConsolesGetTwoSends

LEMMA NextMannersInv ==
  TypeInv /\ SessionInv /\ MannersInv /\ [Next]_vars => MannersInv'
<1> SUFFICES ASSUME TypeInv, SessionInv, MannersInv, [Next]_vars
             PROVE  MannersInv'
  OBVIOUS
<1>1. CASE UNCHANGED vars
  BY <1>1 DEF vars, server, client, MannersInv, SurvivesItsClients,
     BrowsersGetOneSend, ConsolesGetTwoSends, NotYetTold, SpeaksOnce
<1> QED
  BY <1>1, StepCases, ServerMannersInv, ClientMannersInv

(* No browser, and no client.c to which something was sent, brings the server
   down, whenever it leaves and however many there are.                    *)
THEOREM OnlyHangUpsCrash == Spec => []SurvivesItsClients
  BY InitTypeInv, NextTypeInv, InitSessionInv, NextSessionInv, InitMannersInv,
     NextMannersInv, PTL
  DEF Spec, MannersInv
-----------------------------------------------------------------------------
(* The bookkeeping behind NothingLost: while no lines have met, what the server
   owes a TCP client is what waits in the receive buffer and what it has in
   hand, and both hold one line at most.                                   *)
Commands(lines) == IF lines = <<"command">> THEN 1 ELSE 0
InHand(c) == IF serving = c THEN received ELSE <<>>

InHandFits(c) ==
  serving = c =>
    /\ at = "greet" => \E line \in Lines : received = <<line>>
    /\ at = "process" => received \in {<<"command">>, <<"quit">>}
    /\ at = "respond" => received = <<"command">>

Balanced(c) ==
  running /\ ~hasty[c] =>
    /\ inbox[c] = <<>> \/ \E line \in Lines : inbox[c] = <<line>>
    /\ owed[c] = Commands(inbox[c]) + Commands(InHand(c))

Account(c) ==
  /\ inbox[c] \in Seq(Lines)
  /\ conn[c] = "closed" => inbox[c] = <<>>
  /\ InHandFits(c)
  /\ Balanced(c)

AccountInv == \A c \in Telnets \cup Consoles : Account(c)

LEMMA OneLine ==
  /\ \A line \in Lines : /\ <<line>> # <<>> /\ Head(<<line>>) = line
                         /\ Commands(<<line>>) = IF line = "command" THEN 1 ELSE 0
                         /\ line \in {"empty", "command", "quit"}
  /\ Commands(<<>>) = 0
  /\ <<>> \in Seq(Lines)
  /\ "empty" \in Lines /\ "command" \in Lines /\ "quit" \in Lines
<1>1. \A line \in Lines : <<line>> # <<>> /\ Head(<<line>>) = line
  OBVIOUS
<1>2. \A line \in Lines : <<line>> = <<"command">> => line = "command"
  OBVIOUS
<1>3. "empty" \in Lines /\ "command" \in Lines /\ "quit" \in Lines
  BY DEF Lines
<1>4. <<>> # <<"command">>
  BY <1>1, <1>3
<1> QED
  BY <1>1, <1>2, <1>3, <1>4, EmptySeq DEF Lines, Commands

LEMMA InitAccountInv == Init => AccountInv
  BY OneLine, ClientTypes DEF Init, AccountInv, Account, InHandFits, Balanced,
     InHand, Clients

(* A step that is about others, or only about the far end, leaves the account
   of a client as it was.                                                  *)
LEMMA AccountUntouched ==
  ASSUME NEW d \in Clients, Account(d),
         UNCHANGED <<inbox[d], hasty[d], owed[d]>>,
         conn'[d] = "closed" => conn[d] = "closed",
         running' => running,
         \/ UNCHANGED <<serving, at, received>>
         \/ serving # d /\ serving' # d
  PROVE  Account(d)'
  BY DEF Account, InHandFits, Balanced, InHand

(* One more line in a buffer that was empty is balanced by one more debt.  *)
LEMMA AccountDelivered ==
  ASSUME NEW d \in Clients, NEW line \in Lines, Account(d),
         UNCHANGED <<running, serving, at, received, conn>>,
         conn[d] # "closed",
         inbox'[d] = inbox[d] \o <<line>>,
         running /\ ~hasty'[d] =>
           /\ ~hasty[d] /\ inbox[d] = <<>>
           /\ owed'[d] = owed[d] + Commands(<<line>>)
  PROVE  Account(d)'
<1>1. <<line>> \in Seq(Lines)
  OBVIOUS
<1>2. inbox'[d] \in Seq(Lines) /\ (inbox[d] = <<>> => inbox'[d] = <<line>>)
  BY <1>1, ConcatProperties, ConcatEmptySeq DEF Account
<1>3. Balanced(d)'
  <2>1. CASE running /\ ~hasty'[d]
    <3>1. /\ inbox'[d] = <<line>>
          /\ owed[d] = Commands(<<>>) + Commands(InHand(d))
          /\ owed'[d] = owed[d] + Commands(<<line>>)
      BY <1>2, <2>1 DEF Account, Balanced
    <3>2. /\ Commands(InHand(d)') = Commands(InHand(d))
          /\ Commands(inbox'[d]) = Commands(<<line>>)
      BY <3>1 DEF InHand
    <3>3. /\ Commands(<<>>) = 0
          /\ Commands(<<line>>) \in {0, 1} /\ Commands(InHand(d)) \in {0, 1}
      BY OneLine DEF Commands
    <3>4. owed'[d] = Commands(inbox'[d]) + Commands(InHand(d)')
      BY <3>1, <3>2, <3>3
    <3> QED
      BY <3>1, <3>2, <3>4 DEF Balanced, Commands
  <2> QED
    BY <2>1 DEF Balanced
<1> QED
  BY <1>2, <1>3 DEF Account, InHandFits

LEMMA ClientAccountInv ==
  ASSUME TypeInv, SessionInv, MannersInv, AccountInv, NEW c \in Clients, ClientStep(c)
  PROVE  AccountInv'
<1> SUFFICES ASSUME NEW d \in Telnets \cup Consoles
             PROVE  Account(d)'
  BY DEF AccountInv
<1>0. /\ d \in Clients /\ d \notin Browsers /\ d # NoClient
      /\ Account(d)
      /\ conn[d] = "served" <=> serving = d
  BY ClientTypes DEF AccountInv, Clients, SessionInv, OneSession
<1> USE <1>0 DEF TypeInv, TypeOK, server, client
<1>1. CASE Connect(c)
  BY <1>1, AccountUntouched DEF Connect
<1>2. CASE Leave(c)
  BY <1>2, AccountUntouched DEF Leave
<1>3. CASE Return(c)
  <2>1. CASE c # d
    BY <1>3, <2>1, AccountUntouched DEF Return
  <2>2. CASE c = d
    BY <1>3, <2>2, OneLine DEF Return, Account, InHandFits, Balanced, InHand
  <2> QED
    BY <2>1, <2>2
<1>4. ASSUME c \in Telnets, NEW line \in Lines, Type(c, line)
      PROVE  Account(d)'
  <2>1. CASE c # d
    BY <1>4, <2>1, AccountUntouched DEF Type, Delivers
  <2>2. CASE c = d
    <3>1. /\ conn[d] # "closed" /\ inbox'[d] = inbox[d] \o <<line>>
          /\ UNCHANGED <<running, serving, at, received, conn>>
      BY <1>4, <2>2 DEF Type, Delivers, Connected
    <3>2. hasty'[d] = (hasty[d] \/ inbox[d] # <<>>)
      BY <1>4, <2>2 DEF Type
    <3>3. ~hasty'[d] => owed'[d] = IF line = "command" THEN owed[d] + 1 ELSE owed[d]
      BY <1>4, <2>2 DEF Type
    <3>4. owed[d] \in Nat
      OBVIOUS
    <3>5. ~hasty'[d] => owed'[d] = owed[d] + Commands(<<line>>)
      BY <3>3, <3>4, OneLine
    <3> QED
      BY <3>1, <3>2, <3>5, AccountDelivered
  <2> QED
    BY <2>1, <2>2
<1>5. ASSUME c \in Consoles, NEW line \in {"command", "quit"}, SendCommand(c, line)
      PROVE  Account(d)'
  <2>1. CASE c # d
    BY <1>5, <2>1, AccountUntouched DEF SendCommand, Delivers
  <2>2. CASE c = d
    <3>1. /\ conn[d] # "closed" /\ inbox'[d] = inbox[d] \o <<line>>
          /\ line \in Lines
          /\ UNCHANGED <<running, serving, at, received, conn, hasty>>
      BY <1>5, <2>2, OneLine DEF SendCommand, Delivers, Connected
    <3>2. /\ stage[d] = "fresh"
          /\ owed'[d] = IF line = "command" THEN 1 ELSE 0
      BY <1>5, <2>2 DEF SendCommand
    <3>3. inbox[d] = <<>> /\ InHand(d) = <<>>
      BY <1>5, <2>2, <3>2
      DEF MannersInv, ConsolesGetTwoSends, SpeaksOnce, InHand, Places
    <3>4. running /\ ~hasty[d] => owed[d] = 0
      BY <3>3, OneLine DEF Account, Balanced
    <3>5. running /\ ~hasty[d] => owed'[d] = owed[d] + Commands(<<line>>)
      BY <3>1, <3>2, <3>4, OneLine
    <3> QED
      BY <3>1, <3>3, <3>5, AccountDelivered
  <2> QED
    BY <2>1, <2>2
<1>6. CASE c \in Browsers /\ BrowserSends(c)
  <2>1. UNCHANGED <<inbox[d], hasty, owed, conn, running, serving, at, received>>
    BY <1>6 DEF BrowserSends, Request, Body, Delivers
  <2> QED
    BY <2>1, AccountUntouched
<1> QED
  BY <1>1, <1>2, <1>3, <1>4, <1>5, <1>6 DEF ClientStep, ConsoleSends

LEMMA ServerAccountInv ==
  ASSUME TypeInv, SessionInv, AccountInv, ServerStep
  PROVE  AccountInv'
<1> SUFFICES ASSUME NEW d \in Telnets \cup Consoles
             PROVE  Account(d)'
  BY DEF AccountInv
<1>0. /\ d \in Clients /\ d \notin Browsers /\ d # NoClient
      /\ Account(d)
      /\ conn[d] = "served" <=> serving = d
  BY ClientTypes DEF AccountInv, Clients, SessionInv, OneSession
<1> USE <1>0 DEF TypeInv, TypeOK, Places, client
<1>1. CASE Accept
  <2>1. received = <<>> /\ received' = <<>> /\ at' = "recv" /\ serving # d
    BY <1>1 DEF Accept
  <2>2. UNCHANGED <<inbox[d], hasty[d], owed[d], running>> /\ (conn'[d] = "closed" => conn[d] = "closed")
    BY <1>1 DEF Accept
  <2> QED
    BY <2>1, <2>2 DEF Account, InHandFits, Balanced, InHand
<1>2. CASE Exit
  BY <1>2, AccountUntouched DEF Exit
(* Closing settles the account: nothing is left to answer.                 *)
<1>3. ASSUME Close, UNCHANGED hasty, running' => running, serving \in Clients,
             d # serving => UNCHANGED owed[d],
             d = serving /\ running' /\ ~hasty[d] => owed'[d] = 0
      PROVE  Account(d)'
  <2>1. CASE serving # d
    BY <1>3, <2>1, AccountUntouched DEF Close
  <2>2. CASE serving = d
    BY <1>3, <2>2, OneLine DEF Close, Account, InHandFits, Balanced, InHand
  <2> QED
    BY <2>1, <2>2
<1>4. CASE Recv
  <2>1. CASE serving # d
    BY <1>4, <2>1, AccountUntouched DEF Recv
  <2>2. CASE serving = d
    <3>1. /\ received = <<>> /\ serving' = d /\ inbox'[d] = <<>>
          /\ inbox[d] # <<>>
          /\ UNCHANGED <<running, conn, owed, hasty>>
      BY <1>4, <2>2 DEF Recv
    <3>2. PICK line \in Lines : /\ Kept(d) = <<line>>
                                /\ running /\ ~hasty[d] => inbox[d] = <<line>>
      <4>1. Head(inbox[d]) \in Lines
        BY <3>1, HeadTailProperties DEF Account
      <4>2. Kept(d) = <<Head(inbox[d])>>
        BY DEF Kept, IsHttp
      <4>3. running /\ ~hasty[d] => inbox[d] = <<Head(inbox[d])>>
        BY <3>1, OneLine DEF Account, Balanced
      <4> QED
        BY <4>1, <4>2, <4>3
    <3>3. running /\ ~hasty[d] => owed[d] = Commands(<<line>>)
      BY <2>2, <3>1, <3>2, OneLine DEF Account, Balanced, InHand, Commands
    <3>4. CASE Holds("greet") \/ (Holds("process") /\ <<line>> # <<"empty">>)
      <4>1. received' = <<line>>
        BY <2>2, <3>2, <3>4 DEF Holds
      <4>2. InHandFits(d)'
        BY <3>4, <4>1, OneLine DEF InHandFits, Holds
      <4>3. Balanced(d)'
        BY <3>1, <3>3, <4>1, OneLine DEF Balanced, InHand, Commands
      <4> QED
        BY <3>1, <4>2, <4>3, OneLine DEF Account
    <3>5. CASE <<line>> = <<"empty">> /\ UNCHANGED <<at, received>>
      <4>1. line # "command"
        BY <3>5
      <4>2. Balanced(d)'
        BY <3>1, <3>3, <3>5, <4>1, OneLine DEF Balanced, InHand
      <4>3. InHandFits(d)'
        BY <1>4, <3>1, <3>5 DEF Recv, InHandFits
      <4> QED
        BY <3>1, <4>2, <4>3, OneLine DEF Account
    <3> QED
      BY <1>4, <2>2, <3>2, <3>4, <3>5 DEF Recv, IsHttp
  <2> QED
    BY <2>1, <2>2
<1>5. CASE RecvEnd
  <2>1. d = serving /\ running /\ ~hasty[d] => owed[d] = 0
    BY <1>5, OneLine DEF RecvEnd, Account, Balanced, InHand
  <2> QED
    BY <1>3, <1>5, <2>1 DEF RecvEnd
<1>6. CASE Greet
  <2>1. CASE serving # d
    BY <1>6, <2>1, AccountUntouched DEF Greet
  <2>2. CASE serving = d
    <3>1. PICK line \in Lines : received = <<line>>
      BY <1>6, <2>2 DEF Greet, Account, InHandFits
    <3>2. Line = line
      BY <3>1, OneLine DEF Line
    <3>3. UNCHANGED <<running, serving, conn, inbox, owed, hasty>>
      BY <1>6 DEF Greet
    <3>4. CASE line = "empty" /\ Waits
      <4>1. Commands(InHand(d)) = 0 /\ Commands(InHand(d)') = 0
        BY <2>2, <3>1, <3>3, <3>4, OneLine DEF InHand, Waits
      <4>2. Balanced(d)'
        BY <3>3, <4>1 DEF Account, Balanced, Commands
      <4> QED
        BY <3>3, <3>4, <4>2 DEF Account, InHandFits, Waits
    <3>5. CASE line # "empty" /\ at' = "process" /\ UNCHANGED received
      <4>1. received' \in {<<"command">>, <<"quit">>}
        BY <3>1, <3>5, OneLine
      <4> QED
        BY <3>3, <3>5, <4>1 DEF Account, InHandFits, Balanced, InHand
    <3> QED
      BY <1>6, <3>2, <3>4, <3>5 DEF Greet
  <2> QED
    BY <2>1, <2>2
<1>7. CASE ProcessLine
  <2>1. CASE Close /\ running' = FALSE
    BY <1>3, <1>7, <2>1 DEF ProcessLine
  <2>2. CASE Line # "quit" /\ at' = "respond"
             /\ UNCHANGED <<running, serving, received, conn, inbox>>
    <3>1. CASE serving # d
      BY <1>7, <2>2, <3>1, AccountUntouched DEF ProcessLine
    <3>2. CASE serving = d
      <4>1. received' = <<"command">>
        BY <1>7, <2>2, <3>2, OneLine DEF ProcessLine, Account, InHandFits, Line
      <4> QED
        BY <1>7, <2>2, <4>1 DEF ProcessLine, Account, InHandFits, Balanced, InHand
    <3> QED
      BY <3>1, <3>2
  <2> QED
    BY <1>7, <2>1, <2>2 DEF ProcessLine
<1>8. CASE ProcessHttp
  <2>1. serving # d /\ serving' # d
    BY <1>8 DEF ProcessHttp, IsHttp
  <2> QED
    BY <1>8, <2>1, AccountUntouched DEF ProcessHttp
<1>9. CASE Respond
  <2>1. CASE serving # d
    <3>1. UNCHANGED owed[d]
      BY <1>9, <2>1 DEF Respond, Answers
    <3>2. CASE Close
      BY <1>3, <1>9, <2>1, <3>1, <3>2 DEF Respond
    <3>3. CASE Waits /\ UNCHANGED <<serving, conn, inbox>>
      BY <1>9, <2>1, <3>1, <3>3, AccountUntouched DEF Respond
    <3> QED
      BY <1>9, <3>2, <3>3 DEF Respond
  <2>2. CASE serving = d
    <3>1. /\ received = <<"command">> /\ received' = <<>> /\ at' = "receive"
          /\ UNCHANGED <<running, serving, conn, inbox, hasty>>
      BY <1>9, <2>2 DEF Respond, IsHttp, Waits, Account, InHandFits
    <3>2. owed'[d] = IF owed[d] = 0 THEN 0 ELSE owed[d] - 1
      BY <1>9, <2>2 DEF Respond, Answers
    <3>3. running /\ ~hasty[d] => owed[d] = Commands(inbox[d]) + 1
      BY <2>2, <3>1, OneLine DEF Account, Balanced, InHand
    <3>4. Commands(inbox[d]) \in {0, 1}
      BY DEF Commands
    <3>5. running /\ ~hasty[d] => owed'[d] = Commands(inbox[d])
      BY <3>2, <3>3, <3>4
    <3>6. Balanced(d)'
      BY <2>2, <3>1, <3>4, <3>5, OneLine DEF Account, Balanced, InHand, Commands
    <3> QED
      BY <3>1, <3>6 DEF Account, InHandFits
  <2> QED
    BY <2>1, <2>2
<1> QED
  BY <1>1, <1>2, <1>4, <1>5, <1>6, <1>7, <1>8, <1>9 DEF ServerStep

LEMMA NextAccountInv ==
  TypeInv /\ SessionInv /\ MannersInv /\ AccountInv /\ [Next]_vars => AccountInv'
<1> SUFFICES ASSUME TypeInv, SessionInv, MannersInv, AccountInv, [Next]_vars
             PROVE  AccountInv'
  OBVIOUS
<1>1. CASE UNCHANGED vars
  BY <1>1 DEF vars, server, client, AccountInv, Account, InHandFits, Balanced, InHand
<1> QED
  BY <1>1, StepCases, ServerAccountInv, ClientAccountInv

LEMMA AccountIsKept == TypeInv /\ SessionInv /\ AccountInv => NothingLost
<1> SUFFICES ASSUME TypeInv, SessionInv, AccountInv, running,
                    NEW c \in Telnets \cup Consoles,
                    ~hasty[c], inbox[c] = <<>>,
                    conn[c] = "closed" \/ (serving = c /\ at = "receive")
             PROVE  owed[c] = 0
  BY DEF NothingLost
<1>1. InHand(c) = <<>>
  BY DEF InHand, TypeInv, Places, SessionInv, OneSession, Clients
<1> QED
  BY <1>1, OneLine DEF AccountInv, Account, Balanced

(* As long as no line meets an earlier one in its receive buffer, every command
   has been answered when the server waits for the next or has closed: for any
   number of telnet sessions and client.c, also those that hang up early.  *)
THEOREM EveryCommandAnswered == Spec => []NothingLost
  BY InitTypeInv, NextTypeInv, InitSessionInv, NextSessionInv, InitMannersInv,
     NextMannersInv, InitAccountInv, NextAccountInv, AccountIsKept, PTL
  DEF Spec

-----------------------------------------------------------------------------
(* Server implements Desk.  A client that is not connected has a fresh end and
   was told nothing on the visit to come, and client.c has been greeted by the time its line is looked at, if it stays. *)
VisitInv ==
  /\ \A c \in Clients : conn[c] = "out" => peer[c] = "open" /\ ~got[c]
  /\ serving \in Consoles /\ at \in {"receive", "process", "respond"} =>
       got[serving] \/ peer[serving] # "open"

(* What a send does to the one who is at the desk, and to nobody else.     *)
LEMMA SendsOnce ==
  ASSUME TypeInv, serving \in Clients, Sends
  PROVE  /\ \A c \in Clients : peer'[c] = "open" <=> peer[c] = "open"
         /\ \A c \in Clients : c # serving => got'[c] = got[c]
         /\ got[serving] => got'[serving]
         /\ serving \notin Telnets /\ peer[serving] = "open" => got'[serving]
  BY DEF TypeInv, TypeOK, Sends

LEMMA InitVisitInv == Init => VisitInv
  BY ClientTypes DEF Init, VisitInv, Clients

LEMMA NextVisitInv ==
  TypeInv /\ SessionInv /\ VisitInv /\ [Next]_vars => VisitInv'
<1> SUFFICES ASSUME TypeInv, SessionInv, VisitInv, [Next]_vars
             PROVE  VisitInv'
  OBVIOUS
<1> USE ClientTypes DEF TypeInv, TypeOK, Places, SessionInv, OneSession, VisitInv
<1>1. CASE Accept \/ Exit
  <2>1. CASE Accept
    BY <2>1, HeadTailProperties DEF Accept, client
  <2>2. CASE Exit
    BY <2>2 DEF Exit, client
  <2> QED
    BY <1>1, <2>1, <2>2
<1>2. CASE Recv
  BY <1>2 DEF Recv, Holds, IsHttp
<1>3. CASE RecvEnd \/ ProcessLine \/ ProcessHttp
  BY <1>3 DEF RecvEnd, ProcessLine, ProcessHttp, Close, IsHttp, client
<1>4. CASE Greet \/ Respond
  <2>1. serving \in Clients /\ Sends
    BY <1>4 DEF Greet, Respond
  <2>2. serving \in Consoles => serving \notin Telnets
    OBVIOUS
  <2>3. \A c \in Clients : conn'[c] = "out" => conn[c] = "out"
    BY <1>4 DEF Greet, Respond, Close
  <2>4. serving' \in {serving, NoClient} /\ NoClient \notin Consoles
    BY <1>4 DEF Greet, Respond, Close, Clients
  <2> QED
    BY <2>1, <2>2, <2>3, <2>4, SendsOnce
<1>5. ASSUME NEW c \in Clients, ClientStep(c)
      PROVE  VisitInv'
  <2>1. CASE Connect(c)
    BY <2>1 DEF Connect, server, client
  <2>2. CASE Leave(c)
    BY <2>2 DEF Leave, Connected, server, Clients
  <2>3. CASE Return(c)
    BY <2>3 DEF Return, server, Clients
  <2>4. CASE UNCHANGED <<server, conn, peer, got>>
    BY <2>4 DEF server
  <2> QED
    BY <1>5, <2>1, <2>2, <2>3, <2>4
    DEF ClientStep, BrowserSends, ConsoleSends, Type, Request, Body, SendCommand
<1>6. CASE UNCHANGED vars
  BY <1>6 DEF vars, server, client
<1> QED
  BY <1>1, <1>2, <1>3, <1>4, <1>5, <1>6, StepCases DEF ServerStep

Here == {c \in Clients : Connected(c)}
Given == {c \in Clients : got[c]}

LEMMA ClientKeepsTurns ==
  ASSUME TypeInv, SessionInv, VisitInv, NEW c \in Clients, ClientStep(c)
  PROVE  [Promise!Next]_(Promise!deskVars)
<1> USE DEF TypeInv, TypeOK, SessionInv, OneSession, Promise!deskVars
<1>1. CASE Connect(c)
  <2>1. \A k \in 1 .. Len(backlog) : backlog[k] # c
    BY <1>1 DEF Connect, QueueIsExact
  <2>2. Here' = Here \cup {c} /\ c \notin Here /\ c # serving
    BY <1>1 DEF Connect, Here, Connected, VisitInv, client
  <2>3. Given' = Given
    BY <1>1 DEF Connect, Given, client
  <2>4. Promise!Come(c)
    BY <1>1, <2>1, <2>2, <2>3
    DEF Connect, Promise!Come, Here, Given, VisitInv, server
  <2> QED
    BY <2>4 DEF Promise!Next
<1>2. CASE Leave(c)
  <2>1. Here' = Here \ {c} /\ Given' = Given
    BY <1>2 DEF Leave, Here, Given, Connected
  <2>2. Promise!WalkOff(c)
    BY <1>2, <2>1 DEF Leave, Promise!WalkOff, Here, Given, server
  <2> QED
    BY <2>2 DEF Promise!Next
<1>3. CASE Return(c)
  <2>1. Here' = Here /\ c \notin Here /\ c # serving
    BY <1>3 DEF Return, Here, Connected
  <2>2. Given' = Given \ {c}
    BY <1>3 DEF Return, Given
  <2>3. Promise!Forget(c)
    BY <1>3, <2>1, <2>2 DEF Return, Promise!Forget, Here, Given, server
  <2> QED
    BY <2>3 DEF Promise!Next
<1>4. CASE UNCHANGED <<server, backlog, conn, peer, got>>
  <2>1. Here' = Here /\ Given' = Given
    BY <1>4 DEF Here, Given, Connected
  <2> QED
    BY <1>4, <2>1 DEF Here, Given, server
<1> QED
  BY <1>1, <1>2, <1>3, <1>4
  DEF ClientStep, BrowserSends, ConsoleSends, Type, Request, Body, SendCommand

(* The server's steps: accept is Call; a send, QUIT and a close are Serve; all
   else stutters.                                                          *)
LEMMA ServerKeepsTurns ==
  ASSUME TypeInv, SessionInv, VisitInv, ServerStep
  PROVE  [Promise!Next]_(Promise!deskVars)
<1> USE ClientTypes
    DEF TypeInv, TypeOK, Places, SessionInv, OneSession, Promise!deskVars
<1>1. CASE Accept
  <2>1. Head(backlog) \in Clients /\ conn[Head(backlog)] = "queued"
    BY <1>1, HeadTailProperties DEF Accept, QueueIsExact
  <2>2. Here' = Here /\ Given' = Given
    BY <1>1, <2>1 DEF Accept, Here, Given, Connected, client
  <2>3. Promise!Call
    BY <1>1, <2>2 DEF Accept, Promise!Call, Here, Given
  <2> QED
    BY <2>3 DEF Promise!Next
<1>2. CASE Exit \/ Recv
  <2>1. UNCHANGED <<running, serving, backlog, conn, peer, got>>
    BY <1>2 DEF Exit, Recv, client
  <2>2. Here' = Here /\ Given' = Given
    BY <2>1 DEF Here, Given, Connected
  <2> QED
    BY <2>1, <2>2 DEF Here, Given
<1>3. CASE RecvEnd \/ Greet \/ ProcessLine \/ ProcessHttp \/ Respond
  <2>1. serving \in Clients /\ backlog' = backlog /\ running' \in {running, FALSE}
    BY <1>3 DEF RecvEnd, Greet, ProcessLine, ProcessHttp, Respond, client
  <2>2. Sends \/ UNCHANGED <<peer, got>>
    BY <1>3 DEF RecvEnd, Greet, ProcessLine, ProcessHttp, Respond, client
  <2>3. Close \/ UNCHANGED <<serving, conn>>
    BY <1>3 DEF RecvEnd, Greet, ProcessLine, ProcessHttp, Respond
  <2>4. Given' = Given \/ Given' = Given \cup {serving}
    <3>1. CASE UNCHANGED got
      BY <3>1 DEF Given
    <3>2. CASE Sends /\ got'[serving]
      BY <2>1, <3>2, SendsOnce DEF Given
    <3>3. CASE Sends /\ ~got'[serving]
      BY <2>1, <3>3, SendsOnce DEF Given
    <3> QED
      BY <2>2, <3>1, <3>2, <3>3
  <2>5. \A c \in Clients : peer'[c] = "open" <=> peer[c] = "open"
    BY <2>1, <2>2, SendsOnce
  <2>6. CASE UNCHANGED <<serving, conn>>
    <3>1. Here' = Here
      BY <2>5, <2>6 DEF Here, Connected
    <3>2. Promise!Serve
      BY <2>1, <2>4, <2>6, <3>1 DEF Promise!Serve, Here, Given
    <3> QED
      BY <3>2 DEF Promise!Next
  <2>7. CASE Close
    <3>1. Here' = Here \ {serving} /\ serving' = NoClient
      BY <2>1, <2>5, <2>7 DEF Here, Connected, Close
    <3>2. serving \in (Browsers \cup Consoles) \cap Here => serving \in Given'
      <4> SUFFICES ASSUME serving \in Browsers \cup Consoles, peer[serving] = "open"
                   PROVE  got'[serving]
        BY <2>1 DEF Here, Given, Connected
      <4>1. CASE RecvEnd
        BY <4>1 DEF RecvEnd
      <4>2. CASE ProcessLine
        BY <4>2 DEF ProcessLine, IsHttp, VisitInv
      <4>3. CASE Respond
        BY <2>1, <4>3, SendsOnce DEF Respond
      <4>4. CASE Greet \/ ProcessHttp
        BY <2>1, <2>7, <4>4 DEF Greet, Waits, ProcessHttp, Close, client
      <4> QED
        BY <1>3, <4>1, <4>2, <4>3, <4>4
    <3>3. Promise!Serve
      BY <2>1, <2>4, <3>1, <3>2 DEF Promise!Serve, Here, Given
    <3> QED
      BY <3>3 DEF Promise!Next
  <2> QED
    BY <2>3, <2>6, <2>7
<1> QED
  BY <1>1, <1>2, <1>3 DEF ServerStep

(* Clients are served one at a time and in the order they came, nobody who came
   with one question and stays is sent away with nothing, and only who is being
   served ends it all: handle_client and the main loop implement Desk.     *)
THEOREM ServerKeepsTurnOrder == Spec => ServesInTurn
<1>1. Init => Promise!Init
  BY DEF Init, Promise!Init, Connected
<1>2. TypeInv /\ SessionInv /\ VisitInv /\ [Next]_vars
        => [Promise!Next]_(Promise!deskVars)
  <2> SUFFICES ASSUME TypeInv, SessionInv, VisitInv, UNCHANGED vars
               PROVE  UNCHANGED Promise!deskVars
    BY StepCases, ClientKeepsTurns, ServerKeepsTurns
  <2> QED
    BY DEF vars, server, client, Promise!deskVars, Connected
<1> QED
  BY <1>1, <1>2, InitTypeInv, NextTypeInv, InitSessionInv, NextSessionInv,
     InitVisitInv, NextVisitInv, PTL
  DEF Spec, ServesInTurn, Promise!Spec
=============================================================================
