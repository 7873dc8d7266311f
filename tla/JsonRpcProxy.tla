----------------------------- MODULE JsonRpcProxy -----------------------------
(***************************************************************************)
(* getProxy of json-rpc-provider-proxy: it keeps one session with the      *)
(* consumer while connections to the server come and go.                   *)
(*                                                                         *)
(* The program is single threaded, but every message the proxy delivers is *)
(* a callback in which the consumer may call the proxy again, so the three *)
(* loops of the code that deliver or send more than one message (the two   *)
(* of onHalt, the last of connect) are broken into steps, and the          *)
(* consumer's calls may come between any two of them.                      *)
(***************************************************************************)
EXTENDS Naturals, FiniteSets

CONSTANTS Follows,        \* ids of chainHead_v1_follow requests
          Operations,     \* ids of the other chainHead requests
          Others,         \* ids of requests outside chainHead and transaction
          Broadcasts,     \* ids of transaction_v1_broadcast requests; such an
                          \* id also stands for the synthetic token
          MaxConnections, \* bound: connections a behaviour may use
          LateHalts       \* the inner provider may report a halt after the
                          \* consumer disconnected: ws-provider calls
                          \* onStatusChanged, where it may, before onHalt

Requests == Follows \cup Operations \cup Others
Ids      == Requests \cup Broadcasts

\* Tokens the server hands out. They are never reused: the n-th connection
\* answers a request at most once.
Subs     == Follows \X Nat
TxTokens == Broadcasts \X Nat

ASSUME IdsAssumption ==
    /\ Follows \cap Operations = {}
    /\ Follows \cap Others = {}
    /\ Operations \cap Others = {}
    /\ Broadcasts \cap Requests = {}

ASSUME BoundAssumption == MaxConnections \in Nat

ASSUME LateHaltsAssumption == LateHalts \in BOOLEAN

VARIABLES
    \* the proxy
    state,              \* "Connecting", "Connected" or "Done"
    pending,            \* Connecting: requests to send once connected
    activeBroadcasts,   \* broadcasts the consumer did not stop
    upToken,            \* broadcast -> connection whose token it has, 0: none
    pendingBroadcasts,  \* Connected: broadcasts sent and not yet answered
    onGoingRequests,    \* Connected: requests sent and not yet answered
    activeChainHeads,   \* Connected: follow subscriptions alive upstream
    \* what is left of the loops
    toFlush,            \* connect: pending.forEach(send)
    toStop,             \* onHalt: activeChainHeads.forEach(...)
    toSettle,           \* onHalt: for (const x of onGoingRequests.values())
    \* the server at the other end of the current connection
    connection,         \* number of the current (or latest) connection
    upstream,           \* requests it received and did not answer
    txStops,            \* transaction_v1_stop requests it did not process
    serverSubs,         \* follow subscriptions it serves
    serverTxs,          \* transactions it keeps broadcasting
    refused,            \* broadcasts it refused
    \* the consumer
    gone,               \* it disconnected
    asked,              \* ids it used
    target,             \* the subscription an unfollow is about, as a set
    replies,            \* number of replies to each id
    opened,             \* subscriptions it was given
    live,               \* subscriptions it holds: not unfollowed, not stopped
    stopped             \* subscriptions it heard the stop event of

broadcastVars == <<activeBroadcasts, upToken, pendingBroadcasts>>
sendVars      == <<pending, onGoingRequests, activeChainHeads, upstream>>
loopVars      == <<toFlush, toStop, toSettle>>
serverVars    == <<connection, txStops, serverSubs, serverTxs, refused>>
consumerVars  == <<gone, asked, target, replies, opened, live, stopped>>
vars == <<state, broadcastVars, sendVars, loopVars, serverVars, consumerVars>>

TypeOK ==
    /\ state \in {"Connecting", "Connected", "Done"}
    /\ pending \subseteq Requests
    /\ activeBroadcasts \subseteq Broadcasts
    /\ upToken \in [Broadcasts -> Nat]
    /\ pendingBroadcasts \subseteq Broadcasts
    /\ onGoingRequests \subseteq Requests
    /\ activeChainHeads \subseteq Subs
    /\ toFlush \subseteq Requests
    /\ toStop \subseteq Subs
    /\ toSettle \subseteq Requests
    /\ connection \in Nat
    /\ upstream \subseteq Ids
    /\ txStops \subseteq TxTokens
    /\ serverSubs \subseteq Subs
    /\ serverTxs \subseteq TxTokens
    /\ refused \subseteq Broadcasts
    /\ gone \in BOOLEAN
    /\ asked \subseteq Ids
    /\ target \in [Operations -> SUBSET Subs]
    /\ replies \in [Ids -> Nat]
    /\ opened \subseteq Subs
    /\ live \subseteq Subs
    /\ stopped \subseteq Subs

Init ==
    /\ state = "Connecting"
    /\ pending = {}
    /\ activeBroadcasts = {}
    /\ upToken = [b \in Broadcasts |-> 0]
    /\ pendingBroadcasts = {}
    /\ onGoingRequests = {}
    /\ activeChainHeads = {}
    /\ toFlush = {}
    /\ toStop = {}
    /\ toSettle = {}
    /\ connection = 0
    /\ upstream = {}
    /\ txStops = {}
    /\ serverSubs = {}
    /\ serverTxs = {}
    /\ refused = {}
    /\ gone = FALSE
    /\ asked = {}
    /\ target = [o \in Operations |-> {}]
    /\ replies = [i \in Ids |-> 0]
    /\ opened = {}
    /\ live = {}
    /\ stopped = {}

-------------------------------------------------------------------------------
(***************************************************************************)
(* send: its part for everything but the transaction methods. `ended` is   *)
(* the subscription of a chainHead_v1_unfollow.                            *)
(***************************************************************************)
Send(r, ended) ==
    \/ /\ state = "Done"
       /\ UNCHANGED sendVars
    \/ /\ state = "Connecting"
       /\ pending' = pending \cup {r}
       /\ UNCHANGED <<onGoingRequests, activeChainHeads, upstream>>
    \/ /\ state = "Connected"
       /\ activeChainHeads' = activeChainHeads \ ended
       /\ onGoingRequests' = onGoingRequests \cup {r}
       /\ upstream' = upstream \cup {r}
       /\ UNCHANGED pending

Ended(r) == IF r \in Operations THEN target[r] ELSE {}

\* toConsumer with a response, and with the stop event of a subscription:
\* nothing is relayed in the state Done.
Deliver(r) ==
    replies' = IF state = "Done" THEN replies
                                 ELSE [replies EXCEPT ![r] = @ + 1]

Stop(s) ==
    IF state = "Done" THEN UNCHANGED <<live, stopped>>
                      ELSE /\ live' = live \ {s}
                           /\ stopped' = stopped \cup {s}

(***************************************************************************)
(* The consumer's calls.                                                   *)
(***************************************************************************)
Request(r) ==
    /\ ~gone
    /\ r \in Requests \ asked
    /\ asked' = asked \cup {r}
    /\ Send(r, {})
    /\ UNCHANGED <<state, broadcastVars, loopVars, serverVars,
                   gone, target, replies, opened, live, stopped>>

Unfollow(o, s) ==
    /\ ~gone
    /\ o \in Operations \ asked
    /\ s \in live
    /\ asked' = asked \cup {o}
    /\ target' = [target EXCEPT ![o] = {s}]
    /\ live' = live \ {s}
    /\ Send(o, {s})
    /\ UNCHANGED <<state, broadcastVars, loopVars, serverVars,
                   gone, replies, opened, stopped>>

Broadcast(b) ==
    /\ ~gone
    /\ b \in Broadcasts \ asked
    /\ asked' = asked \cup {b}
    /\ activeBroadcasts' = activeBroadcasts \cup {b}
    /\ IF state = "Connected"
         THEN /\ pendingBroadcasts' = pendingBroadcasts \cup {b}
              /\ upstream' = upstream \cup {b}
         ELSE UNCHANGED <<pendingBroadcasts, upstream>>
    /\ Deliver(b)
    /\ UNCHANGED <<state, upToken, pending, onGoingRequests, activeChainHeads,
                   loopVars, serverVars, gone, target, opened, live, stopped>>

\* transaction_v1_stop. Its own reply is immediate and is not counted.
StopBroadcast(b) ==
    /\ ~gone
    /\ b \in activeBroadcasts
    /\ activeBroadcasts' = activeBroadcasts \ {b}
    /\ txStops' = IF state = "Connected" /\ upToken[b] # 0
                    THEN txStops \cup {<<b, upToken[b]>>}
                    ELSE txStops
    /\ UNCHANGED <<state, upToken, pendingBroadcasts, sendVars, loopVars,
                   connection, serverSubs, serverTxs, refused, consumerVars>>

\* The server forgets what it did for a connection that is gone.
DropLink ==
    /\ upstream' = {}
    /\ txStops' = {}
    /\ serverSubs' = {}
    /\ serverTxs' = {}
    /\ refused' = {}

\* onHalt keeps its own references to onGoingRequests and activeChainHeads.
Disconnect ==
    /\ ~gone
    /\ gone' = TRUE
    /\ state' = "Done"
    /\ pending' = {}
    /\ activeBroadcasts' = {}
    /\ pendingBroadcasts' = {}
    /\ DropLink
    /\ live' = {}
    /\ UNCHANGED <<upToken, onGoingRequests, activeChainHeads, loopVars,
                   connection, asked, target, replies, opened, stopped>>

-------------------------------------------------------------------------------
(***************************************************************************)
(* connect: every active broadcast is sent again, then what was pending.   *)
(***************************************************************************)
Rebroadcast == activeBroadcasts

InLoop == toFlush \cup toSettle # {} \/ toStop # {}

Flushed == pending

Connect ==
    /\ state = "Connecting"
    /\ ~gone
    /\ ~InLoop
    /\ connection < MaxConnections
    /\ state' = "Connected"
    /\ connection' = connection + 1
    /\ onGoingRequests' = {}
    /\ activeChainHeads' = {}
    /\ pendingBroadcasts' = Rebroadcast
    /\ upstream' = Rebroadcast
    /\ toFlush' = Flushed
    /\ pending' = {}
    /\ UNCHANGED <<activeBroadcasts, upToken, toStop, toSettle, txStops,
                   serverSubs, serverTxs, refused, consumerVars>>

Flush(r) ==
    /\ r \in toFlush
    /\ toStop = {} /\ toSettle = {}
    /\ toFlush' = toFlush \ {r}
    /\ Send(r, Ended(r))
    /\ UNCHANGED <<state, broadcastVars, toStop, toSettle, serverVars,
                   consumerVars>>

\* Mutation of LostSubs: onHalt forgets the subscriptions.
LostSubsForgotten == {}
LostSubs == activeChainHeads

(***************************************************************************)
(* onHalt: the connection is gone, possibly while connect is still sending *)
(* (a socket that fails synchronously), or just after a disconnect. The    *)
(* last connection does not halt.                                          *)
(***************************************************************************)
Halt ==
    /\ \/ state = "Connected"
       \/ state = "Done" /\ LateHalts
    /\ connection \in 1 .. MaxConnections - 1
    /\ toStop = {} /\ toSettle = {}
    /\ state' = "Connecting"
    /\ pending' = {}
    /\ upToken' = [b \in Broadcasts |-> 0]
    /\ pendingBroadcasts' = {}
    /\ toStop' = LostSubs
    /\ toSettle' = onGoingRequests
    /\ activeChainHeads' = {}
    /\ onGoingRequests' = {}
    /\ DropLink
    /\ UNCHANGED <<activeBroadcasts, toFlush, connection, consumerVars>>

\* The stop event the proxy makes up for a subscription that is gone.
DeliverStop(s) ==
    /\ s \in toStop
    /\ toStop' = toStop \ {s}
    /\ Stop(s)
    /\ UNCHANGED <<state, broadcastVars, sendVars, toFlush, toSettle,
                   serverVars, gone, asked, target, replies, opened>>

\* Operations fail, every other request is sent again. Mutation:
\* operations are, too.
ResolveAgain(r) == Deliver(r) /\ Send(r, {})

Resolve(r) ==
    IF r \in Operations
      THEN Deliver(r) /\ UNCHANGED sendVars
      ELSE Send(r, {}) /\ UNCHANGED replies

Settle(r) ==
    /\ toStop = {}
    /\ r \in toSettle
    /\ toSettle' = toSettle \ {r}
    /\ Resolve(r)
    /\ UNCHANGED <<state, broadcastVars, toFlush, toStop, serverVars,
                   gone, asked, target, opened, live, stopped>>

-------------------------------------------------------------------------------
(***************************************************************************)
(* Messages of the server, as onMsgFromProvider handles them. A step of    *)
(* the server and the delivery of its message are one action.              *)
(***************************************************************************)
\* Mutation of Answered: the request stays among the ongoing ones.
AnsweredStillOngoing(r) ==
    /\ r \in upstream \cap onGoingRequests
    /\ upstream' = upstream \ {r}
    /\ UNCHANGED onGoingRequests

\* A response is relayed only if its id is among the ongoing requests
\* (AnswersAreExpected: it always is).
Answered(r) ==
    /\ r \in upstream \cap onGoingRequests
    /\ upstream' = upstream \ {r}
    /\ onGoingRequests' = onGoingRequests \ {r}

AnswerFollow(f) ==
    LET sub == <<f, connection>> IN
    /\ f \in Follows
    /\ Answered(f)
    /\ serverSubs' = serverSubs \cup {sub}
    /\ activeChainHeads' = activeChainHeads \cup {sub}
    /\ Deliver(f)
    /\ opened' = opened \cup {sub}
    /\ live' = live \cup {sub}
    /\ UNCHANGED <<state, broadcastVars, pending, loopVars, connection,
                   txStops, serverTxs, refused, gone, asked, target, stopped>>

\* A follow that failed, or any other request.
AnswerRequest(r) ==
    /\ r \in Requests
    /\ Answered(r)
    /\ serverSubs' = serverSubs \ Ended(r)
    /\ Deliver(r)
    /\ UNCHANGED <<state, broadcastVars, pending, activeChainHeads, loopVars,
                   connection, txStops, serverTxs, refused,
                   gone, asked, target, opened, live, stopped>>

\* Mutation of KeepToken: nobody looks whether the consumer stopped it.
KeepEveryToken(b) ==
    /\ upToken' = [upToken EXCEPT ![b] = connection]
    /\ UNCHANGED txStops

\* The token of an accepted broadcast is kept, or the broadcast is stopped at
\* once if the consumer gave it up in the meantime.
KeepToken(b) ==
    IF b \in activeBroadcasts
      THEN /\ upToken' = [upToken EXCEPT ![b] = connection]
           /\ UNCHANGED txStops
      ELSE /\ txStops' = txStops \cup {<<b, connection>>}
           /\ UNCHANGED upToken

AnswerBroadcast(b) ==
    /\ b \in upstream \cap pendingBroadcasts
    /\ upstream' = upstream \ {b}
    /\ pendingBroadcasts' = pendingBroadcasts \ {b}
    /\ serverTxs' = serverTxs \cup {<<b, connection>>}
    /\ KeepToken(b)
    /\ UNCHANGED <<state, activeBroadcasts, pending, onGoingRequests,
                   activeChainHeads, loopVars, connection, serverSubs, refused,
                   consumerVars>>

RefuseBroadcast(b) ==
    /\ b \in upstream \cap pendingBroadcasts
    /\ upstream' = upstream \ {b}
    /\ pendingBroadcasts' = pendingBroadcasts \ {b}
    /\ refused' = refused \cup {b}
    /\ UNCHANGED <<state, activeBroadcasts, upToken, pending, onGoingRequests,
                   activeChainHeads, loopVars, connection, txStops, serverSubs,
                   serverTxs, consumerVars>>

\* The reply to a transaction_v1_stop is not among the ongoing requests, and
\* is ignored.
AnswerTxStop(t) ==
    /\ t \in txStops
    /\ txStops' = txStops \ {t}
    /\ serverTxs' = serverTxs \ {t}
    /\ UNCHANGED <<state, broadcastVars, sendVars, loopVars, connection,
                   serverSubs, refused, consumerVars>>

\* The stop event of the server.
ServerStop(s) ==
    /\ s \in serverSubs
    /\ serverSubs' = serverSubs \ {s}
    /\ activeChainHeads' = activeChainHeads \ {s}
    /\ Stop(s)
    /\ UNCHANGED <<state, broadcastVars, pending, onGoingRequests, upstream,
                   loopVars, connection, txStops, serverTxs, refused,
                   gone, asked, target, replies, opened>>

-------------------------------------------------------------------------------
Consumer ==
    \/ \E r \in Requests : Request(r)
    \/ \E o \in Operations : \E s \in live : Unfollow(o, s)
    \/ \E b \in Broadcasts : Broadcast(b) \/ StopBroadcast(b)
    \/ Disconnect

Link == Connect \/ Halt

Loops ==
    \/ \E r \in toFlush : Flush(r)
    \/ \E s \in toStop : DeliverStop(s)
    \/ \E r \in toSettle : Settle(r)

Server ==
    \/ \E f \in Follows : AnswerFollow(f)
    \/ \E r \in Requests : AnswerRequest(r)
    \/ \E b \in Broadcasts : AnswerBroadcast(b) \/ RefuseBroadcast(b)
    \/ \E t \in txStops : AnswerTxStop(t)
    \/ \E s \in serverSubs : ServerStop(s)

Next == Consumer \/ Link \/ Loops \/ Server

Spec == Init /\ [][Next]_vars

(***************************************************************************)
(* What goes on by itself: the loops are synchronous code and the server   *)
(* answers what it received. The consumer, the halts and the stop events   *)
(* owe nothing; connecting again is the business of SyncProvider.          *)
(***************************************************************************)
Fairness ==
    /\ WF_vars(Loops)
    /\ \A f \in Follows : WF_vars(AnswerFollow(f) \/ AnswerRequest(f))
    /\ \A r \in Operations \cup Others : WF_vars(AnswerRequest(r))
    /\ \A b \in Broadcasts : WF_vars(AnswerBroadcast(b) \/ RefuseBroadcast(b))
    /\ \A b \in Broadcasts : WF_vars(\E t \in txStops : t[1] = b /\ AnswerTxStop(t))

-------------------------------------------------------------------------------
(***************************************************************************)
(* Safety                                                                  *)
(***************************************************************************)
\* Whatever halts and reconnections do, no request is answered twice.
AtMostOneReply == \A i \in Ids : replies[i] <= 1

\* A request the consumer made and got no answer to is owed by exactly one
\* place: queued, in one of the loops, or sent on the current connection. So
\* a halt in the middle of anything neither loses nor duplicates a request.
OwedExactlyOnce ==
    ~gone =>
        \A r \in Requests :
            LET places == (IF r \in pending THEN 1 ELSE 0)
                        + (IF r \in toFlush THEN 1 ELSE 0)
                        + (IF r \in toSettle THEN 1 ELSE 0)
                        + (IF r \in onGoingRequests THEN 1 ELSE 0)
            IN  places = IF r \in asked /\ replies[r] = 0 THEN 1 ELSE 0

\* The proxy and the server agree on the requests in flight, so that no
\* response is taken for an unsolicited one and dropped (onMsgFromProvider).
AnswersAreExpected ==
    state = "Connected" =>
        /\ upstream \cap Requests = onGoingRequests
        /\ upstream \cap Broadcasts = pendingBroadcasts

\* A subscription the consumer holds is served by the current connection, or
\* its stop event is on its way: the consumer never waits on a dead one.
HeldSubsAreAlive ==
    live \subseteq (activeChainHeads \cap serverSubs) \cup toStop

\* A subscription the server serves is held by the consumer, or its unfollow
\* is on its way: reconnections leak no subscription.
NoLeakedFollow ==
    serverSubs \subseteq
        activeChainHeads \cup UNION {target[o] : o \in upstream \cap Operations}

\* Nothing is broadcast for a consumer that stopped it: a running broadcast
\* belongs to an active one, or its stop is on its way.
NoOrphanBroadcast ==
    \A b \in Broadcasts :
        <<b, connection>> \in serverTxs \ txStops
            => b \in activeBroadcasts /\ upToken[b] = connection

\* An active broadcast is carried by the current connection, unless the
\* server refused it: reconnecting resumes every one of them.
BroadcastsAreCarried ==
    state = "Connected" =>
        \A b \in activeBroadcasts :
            \/ b \in pendingBroadcasts \cup refused
            \/ <<b, upToken[b]>> \in serverTxs \ txStops

\* Whatever halts and reconnections do, and whatever the consumer calls from
\* inside them, each request is answered once: neither lost nor sent for nothing.
RequestsAreRight == AtMostOneReply /\ OwedExactlyOnce /\ AnswersAreExpected

\* Consumer and server agree on the subscriptions: neither waits for one the
\* other one gave up, with nothing on its way that says so.
SubscriptionsAreRight == HeldSubsAreAlive /\ NoLeakedFollow

\* Exactly the broadcasts that the consumer did not stop go on, over any number
\* of connections with a token each.
BroadcastsAreRight == NoOrphanBroadcast /\ BroadcastsAreCarried

(***************************************************************************)
(* Action and liveness properties                                          *)
(***************************************************************************)
\* Once the consumer disconnected, even from inside one of the proxy's own
\* callbacks, it hears nothing more and nothing more is sent upstream.
QuietAfterDisconnect ==
    [][gone => UNCHANGED <<replies, opened, stopped, upstream, txStops>>]_vars

\* Every request is answered, whatever halts come in between.
EveryRequestAnswered ==
    \A r \in Requests :
        r \in asked ~> replies[r] = 1 \/ gone

\* A broadcast that was stopped ends on the server for good.
StoppedBroadcastEnds ==
    \A b \in Broadcasts :
        b \in asked \ activeBroadcasts
            ~> [](b \notin upstream /\ \A t \in serverTxs : t[1] # b)

\* The proxy gives the consumer one session.
Session == INSTANCE JsonRpcSession WITH
    Tokens <- Follows \X (1 .. MaxConnections),
    open   <- ~gone

ImplementsSession == Session!Spec
===============================================================================
