--------------------------- MODULE ChainHeadFollow ----------------------------
(***************************************************************************)
(* The chainHead subscription of a client: getFollow$ of observable-client *)
(* opens one with getChainHead of substrate-client, and opens another when *)
(* the server stops or refuses it, or when a request that completes one of *)
(* its events fails. Several of them coexist for a while: what was given   *)
(* up, and what is asked for instead. Both directions of the connection    *)
(* keep the order of their messages.                                       *)
(***************************************************************************)
EXTENDS Integers, Sequences, FiniteSets, SequencesExt

CONSTANTS Op,              \* operations, each called at most once
          MaxDisturbances  \* bound: stops, refusals and failed requests

ASSUME OpAssumption == IsFiniteSet(Op)
ASSUME BoundAssumption == MaxDisturbances \in Nat

\* The calls of chainHead(), in order: each disturbance leads to at most one.
Follower == 1 .. MaxDisturbances + 1

VARIABLES
    \* getFollow$
    isDone,      \* unfollow was called
    follower,    \* the current follower, 0: null
    timers,      \* armed timers, in the order in which they fire
    tokenArmed,  \* `token` is the last of them
    phase,       \* what became of the initialized event of the subscription
    \* getChainHead, one for each follower
    sub,         \* its followSubscription: "none" before the call, "waiting" for
                 \* the response, "active", or "null"
    abandoned,   \* given up while waiting: unfollows when the response comes
    \* its operations
    stage,       \* "idle", "early" (waits with the follower), "requested",
                 \* "listening" or "over"
    home,        \* the follower it was called on
    aborted,     \* operations given up by their caller
    \* the connection and the server
    toServer, toClient,
    serverSubs,  \* followers it serves
    serverOps,   \* operations it runs
    disturbances,
    crossed      \* a follower that was given up was refused after that

followVars == <<isDone, follower, timers, tokenArmed, phase>>
subVars    == <<sub, abandoned>>
opVars     == <<stage, home, aborted>>
serverVars == <<serverSubs, serverOps, disturbances>>
vars == <<followVars, subVars, opVars, toServer, toClient, serverVars, crossed>>

Message(k, x) == [kind |-> k, id |-> x]

Messages == [kind : {"follow", "unfollow", "followed", "refused", "initialized",
                     "stop"}, id : Follower]
            \cup [kind : {"operation", "stopOperation", "started", "failed",
                          "done"}, id : Op]

TypeOK ==
    /\ isDone \in BOOLEAN
    /\ follower \in Follower \cup {0}
    /\ timers \in Seq({"follow", "reset"})
    /\ tokenArmed \in BOOLEAN
    /\ tokenArmed => timers # <<>>
    /\ phase \in {"expecting", "inner", "failed", "initialized", "broken"}
    /\ sub \in [Follower -> {"none", "waiting", "active", "null"}]
    /\ abandoned \subseteq {i \in Follower : sub[i] = "null"}
    /\ stage \in [Op -> {"idle", "early", "requested", "listening", "over"}]
    /\ home \in [Op -> Follower \cup {0}]
    /\ aborted \subseteq Op
    /\ {toServer, toClient} \subseteq Seq(Messages)
    /\ serverSubs \subseteq Follower
    /\ serverOps \subseteq Op
    /\ disturbances \in 0 .. MaxDisturbances
    /\ crossed \in BOOLEAN

Init ==
    /\ isDone = FALSE
    /\ follower = 1
    /\ timers = <<>>
    /\ tokenArmed = FALSE
    /\ phase = "expecting"
    /\ sub = [i \in Follower |-> IF i = 1 THEN "waiting" ELSE "none"]
    /\ abandoned = {}
    /\ stage = [o \in Op |-> "idle"]
    /\ home = [o \in Op |-> 0]
    /\ aborted = {}
    /\ toServer = <<Message("follow", 1)>>
    /\ toClient = <<>>
    /\ serverSubs = {}
    /\ serverOps = {}
    /\ disturbances = 0
    /\ crossed = FALSE

-------------------------------------------------------------------------------
Called == {i \in Follower : sub[i] # "none"}
NextFollower == Cardinality(Called) + 1

\* setFollower, after the followers in `given` were given up.
SetFollower(given, requests) ==
    /\ follower' = NextFollower
    /\ sub' = [i \in Follower |-> IF i = NextFollower THEN "waiting"
                                  ELSE IF i \in given THEN "null" ELSE sub[i]]
    /\ toServer' = Append(requests, Message("follow", NextFollower))

Of(i, stages) == {o \in Op : home[o] = i /\ stage[o] \in stages}

Enter(ops, s) == stage' = [o \in Op |-> IF o \in ops THEN s ELSE stage[o]]

\* stopEverything: operations that wait for an answer are rejected; those that
\* wait for the follower are not.
RejectOperations(i) == Enter(Of(i, {"requested", "listening"}), "over")

Current == IF follower = 0 THEN {} ELSE {follower}

\* What follower?.unfollow() sends now, and what it leaves for later.
UnfollowNow ==
    IF \E i \in Current : sub[i] = "active"
      THEN Append(toServer, Message("unfollow", follower))
      ELSE toServer

\* Mutant: the response is not waited for.
NoUnfollowLater == abandoned
UnfollowLater == abandoned \cup {i \in Current : sub[i] = "waiting"}

Given == {i \in Current : sub[i] # "none"}

Receive(k, x) ==
    /\ toClient # <<>>
    /\ Head(toClient) = Message(k, x)
    /\ toClient' = Tail(toClient)

(***************************************************************************)
(* getChainHead: the response to follow.                                   *)
(***************************************************************************)
OnFollowed(i) ==
    /\ Receive("followed", i)
    /\ IF sub[i] = "waiting"
         THEN LET early == Of(i, {"early"}) IN
              /\ sub' = [sub EXCEPT ![i] = "active"]
              /\ Enter(early, "requested")
              /\ toServer' = toServer \o [n \in 1 .. Cardinality(early) |->
                                Message("operation", SetToSeq(early)[n])]
         ELSE /\ toServer' = IF i \in abandoned
                               THEN Append(toServer, Message("unfollow", i))
                               ELSE toServer
              /\ UNCHANGED <<sub, stage>>
    /\ UNCHANGED <<followVars, abandoned, home, aborted, serverVars, crossed>>

\* Mutant: a refused subscription is not asked for again.
RetryFollowNever(armed) == UNCHANGED <<timers, tokenArmed>>

RetryFollow(armed) ==
    IF armed THEN timers' = Append(timers, "follow") /\ tokenArmed' = TRUE
             ELSE UNCHANGED <<timers, tokenArmed>>

\* It forgets the current follower, whichever one was refused.
OnRefused(i) ==
    /\ Receive("refused", i)
    /\ sub' = [sub EXCEPT ![i] = "null"]
    /\ Enter(Of(i, {"early"}), "over")
    /\ follower' = 0
    /\ RetryFollow(~isDone)
    /\ crossed' = (crossed \/ (i \in abandoned /\ ~isDone))
    /\ UNCHANGED <<isDone, phase, abandoned, home, aborted, toServer, serverVars>>

\* The event needs a few more requests, and what follows waits for them. The
\* reducer of PinnedBlocks throws if the previous one was not stopped.
OnInitialized(i) ==
    /\ Receive("initialized", i)
    /\ phase' = IF isDone \/ sub[i] # "active" THEN phase
                ELSE IF phase = "expecting" THEN "inner" ELSE "broken"
    /\ UNCHANGED <<isDone, follower, timers, tokenArmed, subVars, opVars,
                   toServer, serverVars, crossed>>

\* Mutant: the operations of the subscription are left alone.
OnStopOnly(i) ==
    /\ Receive("stop", i)
    /\ sub[i] = "active" /\ ~isDone
    /\ SetFollower({i}, toServer)
    /\ phase' = "expecting"
    /\ UNCHANGED <<isDone, timers, tokenArmed, abandoned, opVars, serverVars,
                   crossed>>

\* onFollowError, then stopEverything; nobody listens to a subscription that was
\* given up.
OnStop(i) ==
    /\ Receive("stop", i)
    /\ \/ /\ sub[i] = "active" /\ ~isDone
          /\ SetFollower({i}, toServer)
          /\ phase' = "expecting"
          /\ RejectOperations(i)
       \/ /\ sub[i] = "active" /\ isDone
          /\ follower' = 0
          /\ sub' = [sub EXCEPT ![i] = "null"]
          /\ RejectOperations(i)
          /\ UNCHANGED <<phase, toServer>>
       \/ /\ sub[i] # "active"
          /\ UNCHANGED <<follower, phase, sub, stage, toServer>>
    /\ UNCHANGED <<isDone, timers, tokenArmed, abandoned, home, aborted,
                   serverVars, crossed>>

(***************************************************************************)
(* getFollow$.                                                             *)
(***************************************************************************)
InnerSucceeds ==
    /\ phase = "inner"
    /\ phase' = "initialized"
    /\ UNCHANGED <<isDone, follower, timers, tokenArmed, subVars, opVars,
                   toServer, toClient, serverVars, crossed>>

InnerFails ==
    /\ phase = "inner"
    /\ disturbances < MaxDisturbances
    /\ disturbances' = disturbances + 1
    /\ phase' = "failed"
    /\ IF isDone THEN UNCHANGED <<timers, tokenArmed>>
                 ELSE timers' = Append(timers, "reset") /\ tokenArmed' = TRUE
    /\ UNCHANGED <<isDone, follower, subVars, opVars, toServer, toClient,
                   serverSubs, serverOps, crossed>>

FollowTimer ==
    /\ timers # <<>> /\ Head(timers) = "follow"
    /\ timers' = Tail(timers)
    /\ tokenArmed' = (tokenArmed /\ Tail(timers) # <<>>)
    /\ SetFollower({}, toServer)
    /\ UNCHANGED <<isDone, phase, abandoned, opVars, toClient, serverVars, crossed>>

\* clearTimeout(token).
WithoutToken(ts, armed) == IF armed /\ ts # <<>> THEN Front(ts) ELSE ts

ResetGivesUp == Given

ResetTimer ==
    /\ timers # <<>> /\ Head(timers) = "reset"
    /\ IF isDone
         THEN /\ timers' = Tail(timers)
              /\ tokenArmed' = (tokenArmed /\ Tail(timers) # <<>>)
              /\ UNCHANGED <<follower, phase, subVars, stage, toServer>>
         ELSE /\ timers' = WithoutToken(Tail(timers), tokenArmed)
              /\ tokenArmed' = FALSE
              /\ phase' = "expecting"
              /\ IF follower = 0 THEN UNCHANGED stage ELSE RejectOperations(follower)
              /\ abandoned' = UnfollowLater
              /\ SetFollower(ResetGivesUp, UnfollowNow)
    /\ UNCHANGED <<isDone, home, aborted, toClient, serverVars, crossed>>

\* Mutant: a timer that is armed stays so.
LeftWhenDoneAll == timers
LeftWhenDone == WithoutToken(timers, tokenArmed)

Unfollow ==
    /\ ~isDone
    /\ isDone' = TRUE
    /\ timers' = LeftWhenDone
    /\ tokenArmed' = FALSE
    /\ toServer' = UnfollowNow
    /\ abandoned' = UnfollowLater
    /\ sub' = [i \in Follower |-> IF i \in Given THEN "null" ELSE sub[i]]
    /\ IF follower = 0 THEN UNCHANGED stage ELSE RejectOperations(follower)
    /\ UNCHANGED <<follower, phase, home, aborted, toClient, serverVars, crossed>>

-------------------------------------------------------------------------------
(***************************************************************************)
(* Operations (fRequest, createOperationPromise).                          *)
(***************************************************************************)
StageOfCall == CASE sub[follower] = "waiting" -> "early"
                 [] sub[follower] = "active"  -> "requested"
                 [] OTHER                     -> "over"

Call(o) ==
    /\ stage[o] = "idle"
    /\ follower # 0
    /\ Enter({o}, StageOfCall)
    /\ home' = [home EXCEPT ![o] = follower]
    /\ toServer' = IF StageOfCall = "requested"
                     THEN Append(toServer, Message("operation", o))
                     ELSE toServer
    /\ UNCHANGED <<followVars, subVars, aborted, toClient, serverVars, crossed>>

\* Before the response it only takes note; the listener goes at once.
Abort(o) ==
    /\ stage[o] \in {"early", "requested", "listening"}
    /\ o \notin aborted
    /\ aborted' = aborted \cup {o}
    /\ IF stage[o] = "listening"
         THEN /\ Enter({o}, "over")
              /\ toServer' = Append(toServer, Message("stopOperation", o))
         ELSE UNCHANGED <<stage, toServer>>
    /\ UNCHANGED <<followVars, subVars, home, toClient, serverVars, crossed>>

OnStarted(o) ==
    /\ Receive("started", o)
    /\ \/ /\ stage[o] = "requested" /\ o \notin aborted
          /\ Enter({o}, "listening")
          /\ UNCHANGED toServer
       \/ /\ stage[o] = "requested" /\ o \in aborted
          /\ Enter({o}, "over")
          /\ toServer' = Append(toServer, Message("stopOperation", o))
       \/ /\ stage[o] # "requested"
          /\ UNCHANGED <<stage, toServer>>
    /\ UNCHANGED <<followVars, subVars, home, aborted, serverVars, crossed>>

\* An error, or limitReached.
OnFailed(o) ==
    /\ Receive("failed", o)
    /\ Enter({o} \cap Of(home[o], {"requested"}), "over")
    /\ UNCHANGED <<followVars, subVars, home, aborted, toServer, serverVars, crossed>>

OnDone(o) ==
    /\ Receive("done", o)
    /\ Enter({o} \cap Of(home[o], {"listening"}), "over")
    /\ UNCHANGED <<followVars, subVars, home, aborted, toServer, serverVars, crossed>>

-------------------------------------------------------------------------------
(***************************************************************************)
(* The server. Stops, refusals and halts of the connection, which the      *)
(* proxy turns into stops and errors, look the same from here.             *)
(***************************************************************************)
Serve(k, x) ==
    /\ toServer # <<>>
    /\ Head(toServer) = Message(k, x)
    /\ toServer' = Tail(toServer)

OpsOf(i) == {o \in Op : home[o] = i}

AcceptFollow(i) ==
    /\ Serve("follow", i)
    /\ serverSubs' = serverSubs \cup {i}
    /\ toClient' = toClient \o <<Message("followed", i), Message("initialized", i)>>
    /\ UNCHANGED <<serverOps, disturbances>>

RefuseFollow(i) ==
    /\ Serve("follow", i)
    /\ disturbances < MaxDisturbances
    /\ disturbances' = disturbances + 1
    /\ toClient' = Append(toClient, Message("refused", i))
    /\ UNCHANGED <<serverSubs, serverOps>>

ServeUnfollow(i) ==
    /\ Serve("unfollow", i)
    /\ serverSubs' = serverSubs \ {i}
    /\ serverOps' = serverOps \ OpsOf(i)
    /\ UNCHANGED <<toClient, disturbances>>

ServerStop(i) ==
    /\ i \in serverSubs
    /\ disturbances < MaxDisturbances
    /\ disturbances' = disturbances + 1
    /\ serverSubs' = serverSubs \ {i}
    /\ serverOps' = serverOps \ OpsOf(i)
    /\ toClient' = Append(toClient, Message("stop", i))
    /\ UNCHANGED toServer

StartOperation(o) ==
    /\ Serve("operation", o)
    /\ home[o] \in serverSubs
    /\ serverOps' = serverOps \cup {o}
    /\ toClient' = Append(toClient, Message("started", o))
    /\ UNCHANGED <<serverSubs, disturbances>>

FailOperation(o) ==
    /\ Serve("operation", o)
    /\ toClient' = Append(toClient, Message("failed", o))
    /\ UNCHANGED <<serverSubs, serverOps, disturbances>>

StopOperation(o) ==
    /\ Serve("stopOperation", o)
    /\ serverOps' = serverOps \ {o}
    /\ UNCHANGED <<toClient, serverSubs, disturbances>>

Complete(o) ==
    /\ o \in serverOps
    /\ serverOps' = serverOps \ {o}
    /\ toClient' = Append(toClient, Message("done", o))
    /\ UNCHANGED <<toServer, serverSubs, disturbances>>

Serving ==
    \/ \E i \in Follower : AcceptFollow(i) \/ RefuseFollow(i) \/ ServeUnfollow(i)
    \/ \E o \in Op : StartOperation(o) \/ FailOperation(o) \/ StopOperation(o)

-------------------------------------------------------------------------------
User == Unfollow \/ \E o \in Op : Call(o) \/ Abort(o)

Receiving ==
    \/ \E i \in Follower : OnFollowed(i) \/ OnRefused(i) \/ OnInitialized(i) \/ OnStop(i)
    \/ \E o \in Op : OnStarted(o) \/ OnFailed(o) \/ OnDone(o)

Inner == InnerSucceeds \/ InnerFails

Timers == FollowTimer \/ ResetTimer

Server ==
    /\ \/ Serving
       \/ \E i \in Follower : ServerStop(i)
       \/ \E o \in Op : Complete(o)
    /\ UNCHANGED <<followVars, subVars, opVars, crossed>>

Next == User \/ Receiving \/ Inner \/ Timers \/ Server

Spec == Init /\ [][Next]_vars

\* Messages arrive, timers fire, and what the server was asked for ends.
Fairness ==
    /\ WF_vars(Receiving)
    /\ WF_vars(Inner)
    /\ WF_vars(Timers)
    /\ WF_vars(Serving /\ UNCHANGED <<followVars, subVars, opVars, crossed>>)
    /\ \A o \in Op : WF_vars(Complete(o) /\ UNCHANGED <<followVars, subVars, opVars, crossed>>)

-------------------------------------------------------------------------------
Alive == {i \in Follower : sub[i] \in {"waiting", "active"}}

\* There is one subscription at a time, the one of `follower`, and the reducer is
\* told of a stop between the initialized events of two of them - unless one
\* that was given up was refused.
OneFollow ==
    ~crossed => Alive \subseteq Current /\ phase # "broken"

\* No subscription is left open on the server: it is used, or its unfollow is on
\* its way, or the response that makes the client unfollow it is.
NoLeakedSubscription ==
    \A i \in serverSubs :
        \/ sub[i] = "active"
        \/ /\ sub[i] = "waiting" \/ i \in abandoned
           /\ Message("followed", i) \in Range(toClient)
        \/ Message("unfollow", i) \in Range(toServer)

\* Nobody is left waiting on a subscription that is gone: the operations whose
\* request was sent belong to an active one.
OperationsAreAttached ==
    \A o \in Op :
        stage[o] \in {"requested", "listening"} => sub[home[o]] = "active"

\* Over any stops, refusals and failures there is one subscription, none stays
\* open behind it, and no operation waits for one that is gone.
SubscriptionsAreRight == OneFollow /\ NoLeakedSubscription /\ OperationsAreAttached

\* After unfollow nothing is followed again,
NoFollowAfterUnfollow == [][isDone => Called' = Called]_vars

\* at least if no subscription that was given up was refused.
NoFollowUnlessCrossed == [][isDone /\ ~crossed => Called' = Called]_vars

Following ==
    /\ \E i \in Current : sub[i] = "active"
    /\ phase = "initialized"

\* Whatever the server stops or refuses, and whatever request fails, the client
\* ends up with a subscription.
Recovers == []<>(Following \/ isDone \/ crossed)

\* An operation is answered or rejected, unless it was called before the response
\* to follow, on a subscription that was given up then.
EveryOperationSettles ==
    \A o \in Op :
        stage[o] # "idle" ~>
            \/ stage[o] = "over" \/ o \in aborted
            \/ stage[o] = "early" /\ sub[home[o]] = "null"

\* Whatever is stopped, refused or fails, the client has a subscription again and
\* the operations of the one before are settled.
FollowComesThrough == Recovers /\ EveryOperationSettles
===============================================================================
