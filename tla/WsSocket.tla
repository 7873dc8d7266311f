------------------------------- MODULE WsSocket -------------------------------
(***************************************************************************)
(* getWsProvider of ws-provider: the sockets that withSocket opens one     *)
(* after the other for getSyncProvider, their listeners and heartbeat      *)
(* timers, the connection getAsyncProvider makes of them, and the switch   *)
(* and status functions beside them. The consumer's onStatusChanged may    *)
(* call disconnect and switch before the code around it has gone on.       *)
(***************************************************************************)
EXTENDS Naturals, Sequences, FiniteSets

CONSTANTS NEndpoints,   \* endpoints 1 .. NEndpoints are configured
          NUris,        \* what switch may be given: 1 .. NUris, or nothing
          NSlots,       \* sockets that exist at the same time, at most
          MaxSends      \* messages given to one connection, at most

ASSUME WsAssumption ==
    /\ {NEndpoints, NUris, NSlots} \subseteq Nat \ {0}
    /\ NEndpoints <= NUris
    /\ MaxSends \in Nat

None  == 0
Slots == 1 .. NSlots
Uris  == 1 .. NUris

VARIABLES
    driver,      \* getSyncProvider: no client, its timers, 250 ms, connected
    cur,         \* the socket whose onHalt is not a noop yet, or None
    latest,      \* latestSocket
    sock,        \* the sockets, with the listeners and the timer they have
    connection,  \* `connection` of the current getAsyncProvider
    pending,     \* `pending` of the current getAsyncProvider
    said,        \* what the consumer gave to the current connection
    wire,        \* what the current socket was given
    status, idx, switchTo, prevUri,
    asked        \* the latest uri given to switch, if no socket went there since

asyncVars  == <<connection, pending, said, wire>>
switchVars == <<latest, idx, prevUri>>
userVars   == <<status, switchTo, asked>>
vars == <<driver, cur, sock, asyncVars, switchVars, userVars>>

Socket == [ready    : {"connecting", "open", "aborting", "closing", "closed"},
           listens  : {"nothing", "opening", "serving"},
           timer    : {"off", "fresh", "due"},
           uri      : Uris \cup {None}]

NoSocket == [ready |-> "closed", listens |-> "nothing", timer |-> "off",
             uri |-> None]

TypeOK ==
    /\ driver \in {"idle", "start", "wait", "running"}
    /\ {cur, latest} \subseteq Slots \cup {None}
    /\ sock \in [Slots -> Socket]
    /\ connection \in {"null", "set", "undefined"}
    /\ {pending, said, wire} \subseteq Seq(1 .. MaxSends)
    /\ status \in {"CLOSE", "CONNECTING", "CONNECTED", "ERROR"}
    /\ idx \in 0 .. NEndpoints - 1
    /\ {switchTo, prevUri, asked} \subseteq Uris \cup {None}

Init ==
    /\ driver = "idle"
    /\ cur = None /\ latest = None
    /\ sock = [i \in Slots |-> NoSocket]
    /\ connection = "undefined"
    /\ pending = <<>> /\ said = <<>> /\ wire = <<>>
    /\ status = "CLOSE"
    /\ idx = 0
    /\ switchTo = None /\ prevUri = None /\ asked = None

-------------------------------------------------------------------------------
\* What a callback of the consumer may do before it returns.
Quiet       == [does |-> "nothing", uri |-> None]
Disconnects == [does |-> "disconnect", uri |-> None]
Switches    == [does : {"switch"}, uri : Uris \cup {None}]

\* What it leaves of switchTo.
SwitchBy(c, to) == IF c \in Switches THEN c.uri ELSE to

\* socket.close(), which does nothing to a socket that is closing or closed.
Close(s) ==
    [s EXCEPT !.ready = CASE @ = "connecting" -> "aborting"
                          [] @ = "open"       -> "closing"
                          [] OTHER            -> @]

CloseLatest(socks) ==
    [i \in Slots |-> IF i = latest THEN Close(socks[i]) ELSE socks[i]]

\* cleanup(), in either of its two forms.
Cleanup(s) == [s EXCEPT !.listens = "nothing", !.timer = "off"]

\* heartbeat()
Heartbeat(s) == [s EXCEPT !.timer = "fresh"]

\* Nobody holds such a socket; whether it is closed does not matter any more.
Free(i) ==
    /\ sock[i].ready \notin {"connecting", "open"}
    /\ Cleanup(sock[i]) = sock[i]

\* done(): the connection forgets its messages and its onHalt.
Done ==
    /\ cur' = None
    /\ connection' = "undefined"
    /\ pending' = <<>> /\ said' = <<>> /\ wire' = <<>>

-------------------------------------------------------------------------------
(***************************************************************************)
(* Opening a socket.                                                       *)
(***************************************************************************)

Opening(uri) == [ready |-> "connecting", listens |-> "opening",
                 timer |-> "fresh", uri |-> uri]

NextUri   == IF switchTo = None THEN idx + 1 ELSE switchTo
LatestUri == IF latest = None THEN None ELSE sock[latest].uri

\* The inner provider is called: getWebsocket, and withSocket up to its return.
\* A switch inside of the CONNECTING callback meets the previous socket.
Open ==
    \E i \in Slots, c \in {Quiet} \cup Switches :
        /\ Free(i)
        /\ \A j \in 1 .. i - 1 : ~Free(j)
        /\ sock' = [(IF c = Quiet THEN sock ELSE CloseLatest(sock))
                      EXCEPT ![i] = Opening(NextUri)]
        /\ prevUri' = LatestUri
        /\ idx' = IF switchTo = None THEN (idx + 1) % NEndpoints ELSE idx
        /\ switchTo' = c.uri
        /\ asked' = SwitchBy(c, IF NextUri = asked THEN None ELSE asked)
        /\ status' = "CONNECTING"
        /\ latest' = i
        /\ cur' = i
        /\ connection' = "null"
        /\ driver' = "running"
        /\ UNCHANGED <<pending, said, wire>>

\* A client is created on the provider.
Connect ==
    /\ driver = "idle"
    /\ driver' = "start"
    /\ UNCHANGED <<cur, sock, asyncVars, switchVars, userVars>>

\* The timers of getSyncProvider are over: at once, or after another 250 ms if
\* the two latest sockets went to the same place.
CallInput ==
    /\ driver = "start"
    /\ IF prevUri = None \/ LatestUri # prevUri
         THEN Open
         ELSE /\ driver' = "wait"
              /\ UNCHANGED <<cur, sock, asyncVars, switchVars, userVars>>

WaitOver == driver = "wait" /\ Open

-------------------------------------------------------------------------------
(***************************************************************************)
(* The events of a socket and its timer.                                   *)
(***************************************************************************)

\* onHalt of socket i: a noop unless the connection still is that socket's.
\* The consumer hears ERROR first, and getSyncProvider starts again after it.
Halt(i) ==
    IF i = cur
      THEN /\ Done
           /\ status' = "ERROR"
           /\ \E c \in {Quiet, Disconnects} \cup Switches :
                /\ driver' = IF c = Disconnects THEN "idle" ELSE "start"
                /\ switchTo' = SwitchBy(c, switchTo)
                /\ asked' = SwitchBy(c, asked)
           /\ UNCHANGED switchVars
      ELSE UNCHANGED <<driver, cur, asyncVars, switchVars, userVars>>

\* Mutant: the timer is not armed again.
SocketOpensUnwatched(i) ==
    /\ sock[i].ready = "connecting"
    /\ status' = "CONNECTED"
    /\ sock' = [sock EXCEPT ![i].ready = "open", ![i].listens = "serving",
                            ![i].timer = "off"]
    /\ connection' = "set"
    /\ pending' = <<>>
    /\ wire' = pending
    /\ UNCHANGED <<driver, cur, switchTo, asked, said, switchVars>>

\* onOpen: the consumer hears CONNECTED before the timer, the listeners and the
\* connection are set, which happens even if it disconnected meanwhile.
SocketOpens(i) ==
    /\ sock[i].ready = "connecting"
    /\ status' = "CONNECTED"
    /\ \E c \in {Quiet, Disconnects} \cup Switches :
         LET ready == IF c = Quiet THEN "open" ELSE "closing"
         IN  /\ sock' = [sock EXCEPT ![i] =
                   Heartbeat([@ EXCEPT !.ready = ready, !.listens = "serving"])]
             /\ IF c = Disconnects
                  THEN Done /\ driver' = "idle"
                  ELSE /\ connection' = "set"
                       /\ pending' = <<>>
                       /\ wire' = IF ready = "open" THEN pending ELSE <<>>
                       /\ UNCHANGED <<driver, cur, said>>
             /\ switchTo' = SwitchBy(c, switchTo)
             /\ asked' = SwitchBy(c, asked)
    /\ UNCHANGED switchVars

\* An error: of a socket that does not open, or before an open one closes.
SocketFails(i) ==
    /\ sock[i].ready \in {"connecting", "aborting", "open"}
    /\ sock' = [sock EXCEPT ![i] = [Cleanup(@) EXCEPT !.ready = "closed"]]
    /\ IF sock[i].listens # "nothing"
         THEN Halt(i)
         ELSE UNCHANGED <<driver, cur, asyncVars, switchVars, userVars>>

SocketCloses(i) ==
    /\ sock[i].ready \in {"open", "closing"}
    /\ sock' = [sock EXCEPT ![i] = [Cleanup(@) EXCEPT !.ready = "closed"]]
    /\ IF sock[i].listens = "serving"
         THEN Halt(i)
         ELSE UNCHANGED <<driver, cur, asyncVars, switchVars, userVars>>

\* A message or a ping, which both call heartbeat().
SocketHears(i) ==
    /\ sock[i].ready = "open"
    /\ sock[i].listens = "serving"
    /\ sock' = [sock EXCEPT ![i] = Heartbeat(@)]
    /\ UNCHANGED <<driver, cur, asyncVars, switchVars, userVars>>

\* Time passes: the timer of a socket that heard nothing is due.
Elapse(i) ==
    /\ sock[i].timer = "fresh"
    /\ sock' = [sock EXCEPT ![i].timer = "due"]
    /\ UNCHANGED <<driver, cur, asyncVars, switchVars, userVars>>

\* Mutation: the socket is left open (as before 0.9.2).
TimerFiresLeavesOpen(i) ==
    /\ sock[i].timer = "due"
    /\ Halt(i)
    /\ sock' = [sock EXCEPT ![i] = Cleanup(@)]

\* TIMEOUT or STALE
TimerFires(i) ==
    /\ sock[i].timer = "due"
    /\ Halt(i)
    /\ sock' = [sock EXCEPT ![i] = Close(Cleanup(@))]

-------------------------------------------------------------------------------
(***************************************************************************)
(* The consumer.                                                           *)
(***************************************************************************)
Send ==
    /\ driver = "running"
    /\ Len(said) < MaxSends
    /\ LET m == Len(said) + 1
       IN  /\ said' = Append(said, m)
           /\ IF connection = "set"
                THEN /\ wire' = IF sock[cur].ready = "open"
                                  THEN Append(wire, m) ELSE wire
                     /\ UNCHANGED pending
                ELSE pending' = Append(pending, m) /\ UNCHANGED wire
    /\ UNCHANGED <<driver, cur, sock, connection, switchVars, userVars>>

Disconnect ==
    /\ driver # "idle"
    /\ driver' = "idle"
    /\ IF driver = "running"
         THEN Done /\ sock' = [sock EXCEPT ![cur] = Close(Cleanup(@))]
         ELSE UNCHANGED <<cur, sock, asyncVars>>
    /\ UNCHANGED <<switchVars, userVars>>

Switch ==
    /\ status # "CLOSE"
    /\ \E uri \in Uris \cup {None} : switchTo' = uri /\ asked' = uri
    /\ sock' = IF status # "ERROR" THEN CloseLatest(sock) ELSE sock
    /\ UNCHANGED <<driver, cur, asyncVars, switchVars, status>>

-------------------------------------------------------------------------------
Timers == \E i \in Slots : Elapse(i) \/ TimerFires(i)

Network ==
    \E i \in Slots :
        SocketOpens(i) \/ SocketFails(i) \/ SocketCloses(i) \/ SocketHears(i)

Consumer == Connect \/ Send \/ Disconnect \/ Switch

Next == CallInput \/ WaitOver \/ Timers \/ Network \/ Consumer

(***************************************************************************)
(* Timers fire. Nothing is assumed of the network or of the consumer: not  *)
(* even that a socket that was closed ever says so.                        *)
(***************************************************************************)
Fairness ==
    /\ WF_vars(CallInput)
    /\ WF_vars(WaitOver)
    /\ \A i \in Slots : WF_vars(Elapse(i)) /\ WF_vars(TimerFires(i))

Spec == Init /\ [][Next]_vars /\ Fairness

-------------------------------------------------------------------------------
InUse(i) == sock[i].ready \in {"connecting", "open"}

\* Whatever times out, fails or is switched, at most one socket is open, and it
\* is the one the client uses: openSockets() of the tests.
AtMostOneSocket == \A i \in Slots : InUse(i) => i = cur

\* What the consumer sent while the socket was opening is sent before what it
\* sent later, once and in its order.
SentInOrder ==
    /\ connection = "null" => wire = <<>> /\ pending = said
    /\ connection = "set" /\ cur # None /\ sock[cur].ready = "open" =>
         wire = said /\ pending = <<>>

\* getStatus() says what the client's socket is doing, so that switch() finds
\* the socket it has to close.
StatusIsTruthful ==
    /\ driver = "running" <=> cur # None
    /\ driver = "running" =>
         /\ latest = cur
         /\ status = IF connection = "set" THEN "CONNECTED" ELSE "CONNECTING"

\* Whatever times out, fails or is switched: one socket, the one that the status
\* is about, and messages that are sent on it in the order of the consumer.
SocketIsRight == TypeOK /\ AtMostOneSocket /\ SentInOrder /\ StatusIsTruthful

\* A socket nobody uses any more, even one that opened while its client was
\* disconnecting, gives up its timer and its listeners.
NothingLeftBehind ==
    \A i \in Slots : i # cur ~> i = cur \/ Free(i)

\* A connection hears from its server again and again, or is given up.
SilentIsReplaced == []<>(cur = None \/ sock[cur].timer = "fresh")

\* The uri given to switch is the one connected to next, even if the socket that
\* had to be closed for it never says that it is closed.
SwitchIsHonoured ==
    \A u \in Uris :
        /\ asked = u /\ driver # "idle"
        /\ driver = "running" => sock[cur].ready \in {"aborting", "closing"}
        ~> \/ asked # u \/ driver = "idle"
           \/ cur # None /\ sock[cur].uri = u

\* Whatever the sockets do, a connection comes through or is given up cleanly.
SocketComesThrough ==
    /\ NothingLeftBehind
    /\ SilentIsReplaced
    /\ SwitchIsHonoured
===============================================================================
