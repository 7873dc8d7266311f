---------------------------- MODULE WsSocketProofs ----------------------------
(***************************************************************************)
(* What WsSocket guarantees for any number of endpoints, any number of     *)
(* sockets that are slow to close, and any number of messages.             *)
(***************************************************************************)
EXTENDS WsSocket, TLAPS

(***************************************************************************)
(* What the operations on one socket do to it.                             *)
(***************************************************************************)
LEMMA CloseFacts ==
    ASSUME NEW s \in Socket
    PROVE  /\ Close(s) \in Socket
           /\ Close(s).ready \notin {"connecting", "open"}
           /\ Close(s).uri = s.uri
  BY DEF Close, Socket

LEMMA CleanupFacts ==
    ASSUME NEW s \in Socket
    PROVE  /\ Cleanup(s) \in Socket
           /\ Cleanup(s).ready = s.ready
           /\ Cleanup(s).uri = s.uri
  BY DEF Cleanup, Socket

LEMMA HeartbeatFacts ==
    ASSUME NEW s \in Socket
    PROVE  /\ Heartbeat(s) \in Socket
           /\ Heartbeat(s).ready = s.ready
           /\ Heartbeat(s).uri = s.uri
  BY DEF Heartbeat, Socket

\* Closing the latest socket leaves it unusable and every other one as it is.
LEMMA CloseLatestFacts ==
    ASSUME NEW socks \in [Slots -> Socket], NEW i \in Slots
    PROVE  /\ CloseLatest(socks) \in [Slots -> Socket]
           /\ CloseLatest(socks)[i] \in {socks[i], Close(socks[i])}
           /\ i = latest => CloseLatest(socks)[i] = Close(socks[i])
           /\ i # latest => CloseLatest(socks)[i] = socks[i]
  BY CloseFacts DEF CloseLatest

\* What a callback may do changes switchTo and asked within their types.
LEMMA SwitchFacts ==
    ASSUME NEW c \in {Quiet, Disconnects} \cup Switches,
           NEW to \in Uris \cup {None}
    PROVE  SwitchBy(c, to) \in Uris \cup {None} /\ c.uri \in Uris \cup {None}
  BY DEF SwitchBy, Switches, Quiet, Disconnects

LEMMA NextUriFacts ==
    ASSUME TypeOK
    PROVE  /\ NextUri \in Uris
           /\ (idx + 1) % NEndpoints \in 0 .. NEndpoints - 1
  BY WsAssumption DEF TypeOK, NextUri, Uris, None

-------------------------------------------------------------------------------
(***************************************************************************)
(* The inductive invariant.                                                *)
(***************************************************************************)
\* There is a connection as long as a socket may still halt it, and its
\* messages go with it.
ConnectionFollowsSocket ==
    /\ cur = None =>
         connection = "undefined" /\ pending = <<>> /\ said = <<>> /\ wire = <<>>
    /\ cur # None =>
         /\ connection \in {"null", "set"}
         /\ sock[cur].ready = "connecting" => connection = "null"

SocketInv == SocketIsRight /\ ConnectionFollowsSocket

LEMMA SocketInvInit == Init => SocketInv
  BY WsAssumption
     DEF Init, SocketInv, SocketIsRight, TypeOK, AtMostOneSocket, SentInOrder,
         StatusIsTruthful, ConnectionFollowsSocket, NoSocket, Socket, InUse,
         Slots, Uris, None

-------------------------------------------------------------------------------
(***************************************************************************)
(* Two ways in which most of the steps keep it.                            *)
(***************************************************************************)
\* Sockets are only closed, and nothing else happens to the connection.
LEMMA SocketsOnlyClose ==
    ASSUME SocketInv,
           sock' \in [Slots -> Socket],
           \A i \in Slots : sock'[i].ready \in {"connecting", "open"} =>
               sock'[i].ready = sock[i].ready,
           UNCHANGED <<driver, cur, asyncVars, switchVars, status>>,
           {switchTo', asked'} \subseteq Uris \cup {None}
    PROVE  SocketInv'
<1> USE DEF SocketInv, SocketIsRight, asyncVars, switchVars
<1>1. TypeOK'
  BY DEF TypeOK
<1>2. AtMostOneSocket' /\ SentInOrder' /\ ConnectionFollowsSocket'
  BY DEF TypeOK, AtMostOneSocket, SentInOrder, ConnectionFollowsSocket, InUse,
         None
<1>3. StatusIsTruthful'
  BY DEF StatusIsTruthful
<1>4. QED
  BY <1>1, <1>2, <1>3

\* The current socket is closed and its connection given up.
LEMMA SocketGivenUp ==
    ASSUME SocketInv,
           sock' \in [Slots -> Socket],
           \A i \in Slots : sock'[i].ready \in {"connecting", "open"} =>
               sock'[i].ready = sock[i].ready /\ i # cur,
           Done,
           driver' \in {"idle", "start"},
           status' \in {"CLOSE", "CONNECTING", "CONNECTED", "ERROR"},
           UNCHANGED switchVars,
           {switchTo', asked'} \subseteq Uris \cup {None}
    PROVE  SocketInv'
<1> USE DEF SocketInv, SocketIsRight, Done, switchVars
<1>1. TypeOK'
  BY DEF TypeOK, None
<1>2. AtMostOneSocket' /\ SentInOrder' /\ ConnectionFollowsSocket'
  BY DEF TypeOK, AtMostOneSocket, SentInOrder, ConnectionFollowsSocket, InUse
<1>3. StatusIsTruthful'
  BY DEF StatusIsTruthful
<1>4. QED
  BY <1>1, <1>2, <1>3

\* What an event or a timer of socket i does to the connection, if the socket is
\* closed by it.
LEMMA HaltStep ==
    ASSUME SocketInv, NEW i \in Slots, Halt(i),
           NEW s \in Socket, s.ready \notin {"connecting", "open"},
           sock' = [sock EXCEPT ![i] = s]
    PROVE  SocketInv'
<1>0. /\ sock \in [Slots -> Socket]
      /\ {switchTo, asked} \subseteq Uris \cup {None}
  BY DEF SocketInv, SocketIsRight, TypeOK
<1>1. /\ sock' \in [Slots -> Socket]
      /\ \A j \in Slots : sock'[j].ready \in {"connecting", "open"} =>
           sock'[j].ready = sock[j].ready /\ j # i
  BY <1>0
<1>2. CASE i = cur
  <2>1. PICK c \in {Quiet, Disconnects} \cup Switches :
          /\ driver' = IF c = Disconnects THEN "idle" ELSE "start"
          /\ switchTo' = SwitchBy(c, switchTo)
          /\ asked' = SwitchBy(c, asked)
    BY <1>2 DEF Halt
  <2>2. {switchTo', asked'} \subseteq Uris \cup {None}
    BY <2>1, <1>0, SwitchFacts
  <2>3. QED
    BY <1>1, <1>2, <2>1, <2>2, SocketGivenUp DEF Halt
<1>3. CASE i # cur
  BY <1>0, <1>1, <1>3, SocketsOnlyClose DEF Halt, userVars
<1>4. QED
  BY <1>2, <1>3

\* Opening a socket where there is none.
LEMMA OpenStep ==
    ASSUME SocketInv, driver # "running", Open
    PROVE  SocketInv'
<1> USE DEF SocketInv, SocketIsRight
<1>1. PICK i \in Slots, c \in {Quiet} \cup Switches :
        /\ sock' = [(IF c = Quiet THEN sock ELSE CloseLatest(sock))
                      EXCEPT ![i] = Opening(NextUri)]
        /\ switchTo' = c.uri
        /\ asked' = SwitchBy(c, IF NextUri = asked THEN None ELSE asked)
        /\ latest' = i
        /\ cur' = i
  BY DEF Open
<1>2. /\ prevUri' = LatestUri
      /\ idx' = IF switchTo = None THEN (idx + 1) % NEndpoints ELSE idx
      /\ status' = "CONNECTING"
      /\ connection' = "null"
      /\ driver' = "running"
      /\ UNCHANGED <<pending, said, wire>>
  BY DEF Open
<1>3. /\ cur = None
      /\ pending = <<>> /\ said = <<>> /\ wire = <<>>
  BY DEF StatusIsTruthful, ConnectionFollowsSocket
<1>4. Opening(NextUri) \in Socket /\ Opening(NextUri).ready = "connecting"
  BY NextUriFacts DEF Opening, Socket
<1>5. /\ sock \in [Slots -> Socket]
      /\ {switchTo, asked} \subseteq Uris \cup {None}
      /\ i # None
  BY DEF TypeOK, Slots, None
<1> DEFINE socks == IF c = Quiet THEN sock ELSE CloseLatest(sock)
<1>6. /\ socks \in [Slots -> Socket]
      /\ \A j \in Slots : socks[j].ready \in {"connecting", "open"} =>
           socks[j].ready = sock[j].ready
  BY <1>5, CloseLatestFacts, CloseFacts
<1> HIDE DEF socks
<1>7. sock' = [socks EXCEPT ![i] = Opening(NextUri)]
  BY <1>1 DEF socks
<1>8. {switchTo', asked'} \subseteq Uris \cup {None}
  <2>1. (IF NextUri = asked THEN None ELSE asked) \in Uris \cup {None}
    BY <1>5
  <2>2. QED
    BY <1>1, <2>1, SwitchFacts
<1>9. LatestUri \in Uris \cup {None}
  BY DEF TypeOK, LatestUri, Socket, None, Slots
<1>10. TypeOK'
  <2>1. sock' \in [Slots -> Socket] /\ idx' \in 0 .. NEndpoints - 1
    BY <1>2, <1>4, <1>6, <1>7, NextUriFacts DEF TypeOK
  <2>2. QED
    BY <1>1, <1>2, <1>8, <1>9, <2>1 DEF TypeOK
<1>11. AtMostOneSocket'
  <2>1. \A j \in Slots : sock[j].ready \notin {"connecting", "open"}
    BY <1>3 DEF AtMostOneSocket, InUse, None, Slots
  <2>2. \A j \in Slots : j # i => sock'[j] = socks[j]
    BY <1>6, <1>7
  <2>3. QED
    BY <1>1, <1>6, <2>1, <2>2 DEF AtMostOneSocket, InUse
<1>12. SentInOrder' /\ StatusIsTruthful' /\ ConnectionFollowsSocket'
  BY <1>1, <1>2, <1>3, <1>5
     DEF SentInOrder, StatusIsTruthful, ConnectionFollowsSocket
<1>13. QED
  BY <1>10, <1>11, <1>12

\* A socket opens, while its consumer may already give it up.
LEMMA SocketOpensStep ==
    ASSUME SocketInv, NEW i \in Slots, SocketOpens(i)
    PROVE  SocketInv'
<1> USE DEF SocketInv, SocketIsRight
<1>1. PICK c \in {Quiet, Disconnects} \cup Switches :
         LET ready == IF c = Quiet THEN "open" ELSE "closing"
         IN  /\ sock' = [sock EXCEPT ![i] =
                   Heartbeat([@ EXCEPT !.ready = ready, !.listens = "serving"])]
             /\ IF c = Disconnects
                  THEN Done /\ driver' = "idle"
                  ELSE /\ connection' = "set"
                       /\ pending' = <<>>
                       /\ wire' = IF ready = "open" THEN pending ELSE <<>>
                       /\ UNCHANGED <<driver, cur, said>>
             /\ switchTo' = SwitchBy(c, switchTo)
             /\ asked' = SwitchBy(c, asked)
  BY DEF SocketOpens
<1> DEFINE ready == IF c = Quiet THEN "open" ELSE "closing"
           s     == Heartbeat([sock[i] EXCEPT !.ready = ready,
                                              !.listens = "serving"])
<1>2. /\ sock \in [Slots -> Socket]
      /\ {switchTo, asked} \subseteq Uris \cup {None}
      /\ sock[i].ready = "connecting"
      /\ status' = "CONNECTED"
      /\ UNCHANGED switchVars
  BY DEF TypeOK, SocketOpens
<1>3. s \in Socket /\ s.ready = ready
  <2>1. /\ [sock[i] EXCEPT !.ready = ready, !.listens = "serving"] \in Socket
        /\ [sock[i] EXCEPT !.ready = ready, !.listens = "serving"].ready = ready
    BY <1>2 DEF Socket
  <2>2. QED
    BY <2>1, HeartbeatFacts
<1>4. sock' = [sock EXCEPT ![i] = s]
  BY <1>1
<1>5. {switchTo', asked'} \subseteq Uris \cup {None}
  BY <1>1, <1>2, SwitchFacts
<1>6. i = cur /\ cur # None /\ connection = "null" /\ pending = said /\ wire = <<>>
      /\ driver = "running"
  BY <1>2 DEF AtMostOneSocket, InUse, ConnectionFollowsSocket, SentInOrder,
              StatusIsTruthful, None, Slots
<1> HIDE DEF s
<1>7. CASE c = Disconnects
  <2>1. ready = "closing"
    BY <1>7 DEF Quiet, Disconnects
  <2>2. /\ sock' \in [Slots -> Socket]
        /\ \A j \in Slots : sock'[j].ready \in {"connecting", "open"} =>
             sock'[j].ready = sock[j].ready /\ j # cur
    BY <1>2, <1>3, <1>4, <1>6, <2>1
  <2>3. QED
    BY <1>1, <1>2, <1>5, <1>7, <2>2, SocketGivenUp
<1>8. CASE c # Disconnects
  <2>1. /\ connection' = "set"
        /\ pending' = <<>>
        /\ wire' = IF ready = "open" THEN pending ELSE <<>>
        /\ UNCHANGED <<driver, cur, said>>
    BY <1>1, <1>8
  <2>2. /\ sock' \in [Slots -> Socket]
        /\ sock'[i].ready = ready
        /\ \A j \in Slots : j # i => sock'[j] = sock[j]
    BY <1>2, <1>3, <1>4
  <2>3. TypeOK'
    <3>1. pending \in Seq(1 .. MaxSends) /\ said \in Seq(1 .. MaxSends)
      BY DEF TypeOK
    <3>2. <<>> \in Seq(1 .. MaxSends)
      OBVIOUS
    <3>3. /\ pending' \in Seq(1 .. MaxSends)
          /\ said' \in Seq(1 .. MaxSends)
          /\ wire' \in Seq(1 .. MaxSends)
      BY <2>1, <3>1, <3>2
    <3>4. QED
      BY <1>2, <1>5, <2>1, <2>2, <3>3 DEF TypeOK, switchVars
  <2>4. AtMostOneSocket'
    BY <1>6, <2>1, <2>2 DEF AtMostOneSocket, InUse
  <2>5. SentInOrder' /\ StatusIsTruthful' /\ ConnectionFollowsSocket'
    BY <1>2, <1>6, <2>1, <2>2
       DEF SentInOrder, StatusIsTruthful, ConnectionFollowsSocket, switchVars
  <2>6. QED
    BY <2>3, <2>4, <2>5
<1>9. QED
  BY <1>7, <1>8

\* A message, before or after the socket is open.
LEMMA SendStep ==
    ASSUME SocketInv, Send
    PROVE  SocketInv'
<1> USE DEF SocketInv, SocketIsRight
<1> DEFINE m == Len(said) + 1
<1>1. /\ pending \in Seq(1 .. MaxSends)
      /\ said \in Seq(1 .. MaxSends)
      /\ wire \in Seq(1 .. MaxSends)
      /\ m \in 1 .. MaxSends
      /\ UNCHANGED <<driver, cur, sock, connection, switchVars, userVars>>
      /\ said' = Append(said, m)
      /\ IF connection = "set"
           THEN /\ wire' = IF sock[cur].ready = "open" THEN Append(wire, m) ELSE wire
                /\ pending' = pending
           ELSE pending' = Append(pending, m) /\ wire' = wire
  BY WsAssumption DEF Send, TypeOK
<1>2. cur # None
  BY DEF Send, StatusIsTruthful
<1> HIDE DEF m
<1>3. TypeOK'
  <2>1. /\ pending' \in Seq(1 .. MaxSends)
        /\ said' \in Seq(1 .. MaxSends)
        /\ wire' \in Seq(1 .. MaxSends)
    <3>1. \A q \in Seq(1 .. MaxSends) : Append(q, m) \in Seq(1 .. MaxSends)
      BY <1>1
    <3>2. CASE connection = "set"
      BY <1>1, <3>1, <3>2
    <3>3. CASE connection # "set"
      BY <1>1, <3>1, <3>3
    <3>4. QED
      BY <3>2, <3>3
  <2>2. QED
    BY <1>1, <2>1 DEF TypeOK, switchVars, userVars
<1>4. AtMostOneSocket' /\ StatusIsTruthful'
  BY <1>1 DEF AtMostOneSocket, StatusIsTruthful, InUse, switchVars, userVars
<1>5. SentInOrder' /\ ConnectionFollowsSocket'
  BY <1>1, <1>2 DEF SentInOrder, ConnectionFollowsSocket
<1>6. QED
  BY <1>3, <1>4, <1>5

LEMMA DisconnectStep ==
    ASSUME SocketInv, Disconnect
    PROVE  SocketInv'
<1> USE DEF SocketInv, SocketIsRight
<1>0. /\ sock \in [Slots -> Socket]
      /\ {switchTo, asked} \subseteq Uris \cup {None}
      /\ status \in {"CLOSE", "CONNECTING", "CONNECTED", "ERROR"}
  BY DEF TypeOK
<1>1. CASE driver = "running"
  <2>1. cur \in Slots
    BY <1>1 DEF StatusIsTruthful, TypeOK
  <2>2. /\ Close(Cleanup(sock[cur])) \in Socket
        /\ Close(Cleanup(sock[cur])).ready \notin {"connecting", "open"}
    BY <1>0, <2>1, CloseFacts, CleanupFacts
  <2>3. sock' = [sock EXCEPT ![cur] = Close(Cleanup(sock[cur]))]
    BY <1>1 DEF Disconnect
  <2>4. /\ sock' \in [Slots -> Socket]
        /\ \A j \in Slots : sock'[j].ready \in {"connecting", "open"} =>
             sock'[j].ready = sock[j].ready /\ j # cur
    BY <1>0, <2>1, <2>2, <2>3
  <2>5. QED
    BY <1>0, <1>1, <2>4, SocketGivenUp DEF Disconnect, userVars
<1>2. CASE driver # "running"
  BY <1>2 DEF Disconnect, TypeOK, AtMostOneSocket, SentInOrder, InUse,
              StatusIsTruthful, ConnectionFollowsSocket, asyncVars, switchVars,
              userVars
<1>3. QED
  BY <1>1, <1>2

LEMMA SwitchStep ==
    ASSUME SocketInv, Switch
    PROVE  SocketInv'
<1>0. sock \in [Slots -> Socket]
  BY DEF SocketInv, SocketIsRight, TypeOK
<1>1. {switchTo', asked'} \subseteq Uris \cup {None}
  BY DEF Switch
<1>2. /\ sock' \in [Slots -> Socket]
      /\ \A i \in Slots : sock'[i].ready \in {"connecting", "open"} =>
           sock'[i].ready = sock[i].ready
  <2>1. /\ CloseLatest(sock) \in [Slots -> Socket]
        /\ \A i \in Slots :
             CloseLatest(sock)[i].ready \in {"connecting", "open"} =>
               CloseLatest(sock)[i].ready = sock[i].ready
    <3>1. \A i \in Slots : /\ Close(sock[i]).ready \notin {"connecting", "open"}
                           /\ CloseLatest(sock)[i] \in {sock[i], Close(sock[i])}
      BY <1>0, CloseLatestFacts, CloseFacts
    <3>2. CloseLatest(sock) \in [Slots -> Socket]
      BY <1>0, CloseFacts DEF CloseLatest
    <3>3. QED
      BY <3>1, <3>2
  <2>2. CASE sock' = sock
    BY <1>0, <2>2
  <2>3. CASE sock' = CloseLatest(sock)
    BY <2>1, <2>3
  <2>4. QED
    BY <2>2, <2>3 DEF Switch
<1>3. QED
  BY <1>1, <1>2, SocketsOnlyClose DEF Switch

-------------------------------------------------------------------------------
LEMMA SocketInvNext == SocketInv /\ [Next]_vars => SocketInv'
<1> SUFFICES ASSUME SocketInv, [Next]_vars
             PROVE  SocketInv'
  OBVIOUS
<1>0. /\ sock \in [Slots -> Socket]
      /\ {switchTo, asked} \subseteq Uris \cup {None}
      /\ TypeOK
  BY DEF SocketInv, SocketIsRight, TypeOK
<1>1. CASE CallInput
  <2>1. CASE Open
    BY <1>1, <2>1, OpenStep DEF CallInput
  <2>2. CASE ~Open
    BY <1>0, <1>1, <2>2
       DEF CallInput, SocketInv, SocketIsRight, TypeOK, AtMostOneSocket,
           SentInOrder, InUse, StatusIsTruthful, ConnectionFollowsSocket,
           asyncVars, switchVars, userVars
  <2>3. QED
    BY <2>1, <2>2
<1>2. CASE WaitOver
  BY <1>2, OpenStep DEF WaitOver
<1>3. ASSUME NEW i \in Slots, Elapse(i) PROVE SocketInv'
  <2>1. /\ sock' \in [Slots -> Socket]
        /\ \A j \in Slots : sock'[j].ready = sock[j].ready
    BY <1>0, <1>3 DEF Elapse, Socket
  <2>2. QED
    BY <1>0, <1>3, <2>1, SocketsOnlyClose DEF Elapse, userVars
<1>4. ASSUME NEW i \in Slots, TimerFires(i) PROVE SocketInv'
  <2>1. /\ Close(Cleanup(sock[i])) \in Socket
        /\ Close(Cleanup(sock[i])).ready \notin {"connecting", "open"}
    BY <1>0, CloseFacts, CleanupFacts
  <2>2. QED
    BY <1>4, <2>1, HaltStep DEF TimerFires
<1>5. ASSUME NEW i \in Slots, SocketOpens(i) PROVE SocketInv'
  BY <1>5, SocketOpensStep
<1>6. ASSUME NEW i \in Slots, SocketFails(i) \/ SocketCloses(i) PROVE SocketInv'
  <2> DEFINE s == [Cleanup(sock[i]) EXCEPT !.ready = "closed"]
  <2>1. s \in Socket /\ s.ready = "closed"
    BY <1>0, CleanupFacts DEF Socket
  <2>2. sock' = [sock EXCEPT ![i] = s]
    BY <1>6 DEF SocketFails, SocketCloses
  <2> HIDE DEF s
  <2>3. CASE Halt(i)
    BY <2>1, <2>2, <2>3, HaltStep
  <2>4. CASE ~Halt(i)
    <3>1. UNCHANGED <<driver, cur, asyncVars, switchVars, userVars>>
      BY <1>6, <2>4 DEF SocketFails, SocketCloses
    <3>2. /\ sock' \in [Slots -> Socket]
          /\ \A j \in Slots : sock'[j].ready \in {"connecting", "open"} =>
               sock'[j].ready = sock[j].ready
      BY <1>0, <2>1, <2>2
    <3>3. QED
      BY <1>0, <3>1, <3>2, SocketsOnlyClose DEF userVars
  <2>5. QED
    BY <2>3, <2>4
<1>7. ASSUME NEW i \in Slots, SocketHears(i) PROVE SocketInv'
  <2>1. Heartbeat(sock[i]) \in Socket /\ Heartbeat(sock[i]).ready = sock[i].ready
    BY <1>0, HeartbeatFacts
  <2>2. /\ sock' \in [Slots -> Socket]
        /\ \A j \in Slots : sock'[j].ready = sock[j].ready
    BY <1>0, <1>7, <2>1 DEF SocketHears
  <2>3. QED
    BY <1>0, <1>7, <2>2, SocketsOnlyClose DEF SocketHears, userVars
<1>8. CASE Connect
  BY <1>8 DEF Connect, SocketInv, SocketIsRight, TypeOK, AtMostOneSocket,
              SentInOrder, InUse, StatusIsTruthful, ConnectionFollowsSocket,
              asyncVars, switchVars, userVars
<1>9. CASE Send
  BY <1>9, SendStep
<1>10. CASE Disconnect
  BY <1>10, DisconnectStep
<1>11. CASE Switch
  BY <1>11, SwitchStep
<1>12. CASE UNCHANGED vars
  BY <1>0, <1>12, SocketsOnlyClose DEF vars, userVars, SocketInv
<1>13. QED
  BY <1>1, <1>2, <1>3, <1>4, <1>5, <1>6, <1>7, <1>8, <1>9, <1>10, <1>11, <1>12
     DEF Next, Timers, Network, Consumer

\* Whatever times out, fails, closes or is switched, and whatever the consumer
\* does from inside onStatusChanged: one socket, the one getStatus() and
\* switch() are about, and messages sent once and in order (getWsProvider).
THEOREM SocketStaysRight == Spec => []SocketIsRight
<1>1. SocketInv => SocketIsRight
  BY DEF SocketInv
<1>2. QED
  BY SocketInvInit, SocketInvNext, <1>1, PTL DEF Spec
===============================================================================
