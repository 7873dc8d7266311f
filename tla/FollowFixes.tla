----------------------------- MODULE FollowFixes -----------------------------
(***************************************************************************)
(* The fixes of ws-middleware for nodes whose responses come late:         *)
(* fixUnorderedEvents keeps the notifications of an operation until the    *)
(* operation is known, and followEnhancer repeats a "stop" that came       *)
(* before the subscription and leaves a node that refuses or stops too     *)
(* many of them. Follow requests are 1 .. NFollows and name the            *)
(* subscription they get.                                                  *)
(***************************************************************************)
EXTENDS Naturals, Sequences, FiniteSets

CONSTANTS NFollows,    \* follow requests
          Ops,         \* operation requests
          NEvents      \* notifications of an operation; the last one ends it

ASSUME FollowAssumption ==
    /\ NFollows \in Nat \ {0}
    /\ NEvents \in Nat \ {0}

Subs      == 1 .. NFollows
Undefined == 0
NoSub     == NFollows + 1

VARIABLES
    on,         \* the connection is not halted
    \* the node
    nodeSub,    \* each subscription: none, asked, live or over
    crossing,   \* subscriptions whose stop may cross their unfollow
    nodeOp,     \* each operation: none, asked or known
    nSent,      \* how many of its notifications were sent
    \* fixUnorderedEvents
    activeOps,  \* activeOperationIds: the operations of each subscription,
    tracked,    \* and the subscriptions that have an entry
    kept,       \* uknownOperationNotifications
    opPending,  \* pendingOperationIds
    \* followEnhancer
    premature,  \* prematureStops
    preOpId, onGoing,
    nStops,     \* stops less than a second apart
    \* the consumer
    conSub,     \* each subscription: none, asked, open, refused or closed
    opSub, conOp, heard

peerVars  == <<nodeSub, crossing, nodeOp, nSent>>
opVars    == <<activeOps, tracked, kept, opPending>>
stopVars  == <<premature, preOpId, onGoing, nStops>>
conVars   == <<conSub, opSub, conOp, heard>>
followVars == <<on, peerVars, opVars, stopVars, conVars>>

FollowTypeOK ==
    /\ on \in BOOLEAN
    /\ nodeSub \in [Subs -> {"none", "asked", "live", "over"}]
    /\ {crossing, tracked, premature, preOpId} \subseteq SUBSET Subs
    /\ onGoing \subseteq Subs \cup {Undefined}
    /\ nodeOp \in [Ops -> {"none", "asked", "known"}]
    /\ nSent \in [Ops -> 0 .. NEvents]
    /\ {activeOps, opPending} \subseteq SUBSET Ops
    /\ {kept, heard} \subseteq [Ops -> Seq(1 .. NEvents)]
    /\ nStops \in 0 .. 3
    /\ conSub \in [Subs -> {"none", "asked", "open", "refused", "closed"}]
    /\ opSub \in [Ops -> Subs \cup {NoSub}]
    /\ conOp \in [Ops -> {"none", "asked", "started", "failed", "stopped"}]

FollowInit ==
    /\ on = TRUE
    /\ nodeSub = [s \in Subs |-> "none"] /\ crossing = {}
    /\ nodeOp = [o \in Ops |-> "none"] /\ nSent = [o \in Ops |-> 0]
    /\ activeOps = {} /\ tracked = {} /\ opPending = {}
    /\ kept = [o \in Ops |-> <<>>]
    /\ premature = {} /\ preOpId = {} /\ onGoing = {} /\ nStops = 0
    /\ conSub = [s \in Subs |-> "none"]
    /\ opSub = [o \in Ops |-> NoSub]
    /\ conOp = [o \in Ops |-> "none"] /\ heard = [o \in Ops |-> <<>>]

OpsOf(s) == {o \in Ops : opSub[o] = s}

\* The entry of a subscription is deleted, with all that was kept for it.
Untrack(s) ==
    /\ tracked' = tracked \ {s}
    /\ activeOps' = activeOps \ OpsOf(s)
    /\ kept' = [o \in Ops |-> IF o \in OpsOf(s) THEN <<>> ELSE kept[o]]
    /\ UNCHANGED opPending

\* forceDisconnect, and every other end of the connection.
Leave ==
    /\ on' = FALSE
    /\ tracked' = {} /\ activeOps' = {} /\ opPending' = {}
    /\ kept' = [o \in Ops |-> <<>>]
    /\ premature' = {} /\ preOpId' = {} /\ onGoing' = {}

-------------------------------------------------------------------------------
(***************************************************************************)
(* Subscriptions.                                                          *)
(***************************************************************************)
Request(s) ==
    /\ on /\ conSub[s] = "none"
    /\ conSub' = [conSub EXCEPT ![s] = "asked"]
    /\ nodeSub' = [nodeSub EXCEPT ![s] = "asked"]
    /\ preOpId' = preOpId \cup {s}
    /\ UNCHANGED <<on, crossing, nodeOp, nSent, opVars, premature, onGoing,
                   nStops, opSub, conOp, heard>>

\* The response of a follow request, then the stop if it came already.
Response(s) ==
    /\ on /\ conSub[s] = "asked"
    /\ nodeSub[s] \in {"asked", "over"}
    /\ nodeSub' = [nodeSub EXCEPT ![s] = IF @ = "asked" THEN "live" ELSE @]
    /\ tracked' = tracked \cup {s}
    /\ preOpId' = preOpId \ {s}
    /\ IF s \in premature
         THEN /\ premature' = premature \ {s}
              /\ conSub' = [conSub EXCEPT ![s] = "closed"]
              /\ UNCHANGED onGoing
         ELSE /\ onGoing' = onGoing \cup {s}
              /\ conSub' = [conSub EXCEPT ![s] = "open"]
              /\ UNCHANGED premature
    /\ UNCHANGED <<on, crossing, nodeOp, nSent, activeOps, kept, opPending,
                   nStops, opSub, conOp, heard>>

\* The node refuses. The id of the subscription is undefined, and counted.
Refusal(s) ==
    /\ on /\ conSub[s] = "asked" /\ nodeSub[s] = "asked"
    /\ nodeSub' = [nodeSub EXCEPT ![s] = "over"]
    /\ IF Cardinality(onGoing \cup {Undefined}) + Cardinality(preOpId \ {s}) > 2
         THEN /\ preOpId' = preOpId \ {s}
              /\ onGoing' = onGoing \cup {Undefined}
              /\ conSub' = [conSub EXCEPT ![s] = "refused"]
              /\ UNCHANGED <<on, opVars, premature>>
         ELSE Leave /\ UNCHANGED conSub
    /\ UNCHANGED <<crossing, nodeOp, nSent, nStops, opSub, conOp, heard>>

\* The stop of a subscription, which may come before the response or cross an
\* unfollow. `quick`: less than a second after the previous one.
StopComes(s) ==
    /\ on
    /\ nodeSub[s] \in {"asked", "live"} \/ s \in crossing
    /\ nodeSub' = [nodeSub EXCEPT ![s] = "over"]
    /\ crossing' = crossing \ {s}
    /\ conSub' = [conSub EXCEPT ![s] = IF @ = "open" THEN "closed" ELSE @]
    /\ \E quick \in BOOLEAN :
         LET n == IF quick THEN nStops + 1 ELSE 1
         IN  IF n > 2
               THEN Leave /\ nStops' = 0
               ELSE /\ nStops' = n
                    /\ IF s \in tracked
                         THEN Untrack(s)
                         ELSE UNCHANGED opVars
                    /\ IF s \in onGoing
                         THEN onGoing' = onGoing \ {s} /\ UNCHANGED premature
                         ELSE premature' = premature \cup {s} /\ UNCHANGED onGoing
                    /\ UNCHANGED <<on, preOpId>>
    /\ UNCHANGED <<nodeOp, nSent, opSub, conOp, heard>>

UnfollowSub(s) ==
    /\ on /\ conSub[s] = "open"
    /\ conSub' = [conSub EXCEPT ![s] = "closed"]
    /\ nodeSub' = [nodeSub EXCEPT ![s] = "over"]
    /\ crossing' = crossing \cup {s}
    /\ onGoing' = onGoing \ {s}
    /\ Untrack(s)
    /\ UNCHANGED <<on, nodeOp, nSent, premature, preOpId, nStops, opSub, conOp,
                   heard>>

ConnectionHalts ==
    /\ on
    /\ Leave
    /\ UNCHANGED <<peerVars, nStops, conVars>>

-------------------------------------------------------------------------------
(***************************************************************************)
(* Operations.                                                             *)
(***************************************************************************)
Operation(o) ==
    /\ on /\ conOp[o] = "none"
    /\ \E s \in Subs :
        /\ conSub[s] = "open"
        /\ opSub' = [opSub EXCEPT ![o] = s]
    /\ conOp' = [conOp EXCEPT ![o] = "asked"]
    /\ nodeOp' = [nodeOp EXCEPT ![o] = "asked"]
    /\ opPending' = opPending \cup {o}
    /\ UNCHANGED <<on, nodeSub, crossing, nSent, activeOps, tracked, kept,
                   stopVars, conSub, heard>>

\* Mutant: what was kept is delivered in reverse.
OpResponseReversed(o) ==
    /\ on /\ conOp[o] = "asked" /\ o \in opPending
    /\ opPending' = opPending \ {o}
    /\ conOp' = [conOp EXCEPT ![o] = "started"]
    /\ nodeOp' = [nodeOp EXCEPT ![o] = "known"]
    /\ activeOps' = IF opSub[o] \in tracked THEN activeOps \cup {o} ELSE activeOps
    /\ heard' = [heard EXCEPT ![o] =
                   [i \in DOMAIN kept[o] |-> kept[o][Len(kept[o]) - i + 1]]]
    /\ kept' = [kept EXCEPT ![o] = <<>>]
    /\ UNCHANGED <<on, nodeSub, crossing, nSent, tracked, stopVars, conSub, opSub>>

\* The response that names the operation, then what was kept for it. Nothing is
\* done for a subscription that ended meanwhile.
OpResponse(o) ==
    /\ on /\ conOp[o] = "asked" /\ o \in opPending
    /\ opPending' = opPending \ {o}
    /\ conOp' = [conOp EXCEPT ![o] = "started"]
    /\ nodeOp' = [nodeOp EXCEPT ![o] = "known"]
    /\ IF opSub[o] \in tracked
         THEN /\ heard' = [heard EXCEPT ![o] = @ \o kept[o]]
              /\ kept' = [kept EXCEPT ![o] = <<>>]
              /\ activeOps' = IF kept[o] # <<>> /\ kept[o][Len(kept[o])] = NEvents
                                THEN activeOps
                                ELSE activeOps \cup {o}
         ELSE UNCHANGED <<heard, kept, activeOps>>
    /\ UNCHANGED <<on, nodeSub, crossing, nSent, tracked, stopVars, conSub, opSub>>

\* The node cannot run the operation.
OpRefusal(o) ==
    /\ on /\ conOp[o] = "asked" /\ o \in opPending /\ nSent[o] = 0
    /\ opPending' = opPending \ {o}
    /\ conOp' = [conOp EXCEPT ![o] = "failed"]
    /\ nodeOp' = [nodeOp EXCEPT ![o] = "known"]
    /\ UNCHANGED <<on, nodeSub, crossing, nSent, activeOps, tracked, kept,
                   stopVars, conSub, opSub, heard>>

\* A notification, which is kept if the operation is not known (any more).
OpEvent(o) ==
    LET event == nSent[o] + 1
    IN  /\ on
        /\ nodeOp[o] # "none" /\ conOp[o] # "failed"
        /\ nodeSub[opSub[o]] = "live" \/ opSub[o] \in crossing
        /\ event <= NEvents
        /\ nSent' = [nSent EXCEPT ![o] = event]
        /\ IF opSub[o] \notin tracked
             THEN /\ heard' = [heard EXCEPT ![o] = Append(@, event)]
                  /\ UNCHANGED <<kept, activeOps>>
             ELSE IF o \notin activeOps
               THEN /\ kept' = [kept EXCEPT ![o] = Append(@, event)]
                    /\ UNCHANGED <<heard, activeOps>>
               ELSE /\ heard' = [heard EXCEPT ![o] = Append(@, event)]
                    /\ activeOps' = IF event = NEvents THEN activeOps \ {o}
                                                       ELSE activeOps
                    /\ UNCHANGED kept
        /\ UNCHANGED <<on, nodeSub, crossing, nodeOp, tracked, opPending,
                       stopVars, conSub, opSub, conOp>>

StopOperation(o) ==
    /\ on /\ conOp[o] = "started" /\ conSub[opSub[o]] = "open"
    /\ conOp' = [conOp EXCEPT ![o] = "stopped"]
    /\ activeOps' = activeOps \ {o}
    /\ UNCHANGED <<on, peerVars, tracked, kept, opPending, stopVars, conSub,
                   opSub, heard>>

-------------------------------------------------------------------------------
FollowNext ==
    \/ \E s \in Subs :
        Request(s) \/ Response(s) \/ Refusal(s) \/ StopComes(s) \/ UnfollowSub(s)
    \/ \E o \in Ops :
        Operation(o) \/ OpResponse(o) \/ OpRefusal(o) \/ OpEvent(o)
        \/ StopOperation(o)
    \/ ConnectionHalts

FollowSpec == FollowInit /\ [][FollowNext]_followVars

-------------------------------------------------------------------------------
\* An operation of an open subscription hears nothing before its response, and
\* then everything, in order, whatever came first.
OperationsHearAll ==
    \A o \in Ops :
        on /\ opSub[o] # NoSub /\ conSub[opSub[o]] = "open" =>
            /\ conOp[o] = "asked" => heard[o] = <<>>
            /\ conOp[o] = "started" => heard[o] = [i \in 1 .. nSent[o] |-> i]

\* A consumer never waits for events of a subscription that the node has ended,
\* even if the stop came before the subscription.
StopsAreHeard ==
    on => \A s \in Subs : conSub[s] = "open" => nodeSub[s] = "live"

\* The subscriptions that are counted against the limit are the open ones.
OnGoingIsRight ==
    on => onGoing \ {Undefined} = {s \in Subs : conSub[s] = "open"}

\* Whatever overtakes what: operations hear their events in order, consumers of
\* the stops, and the limit counts the open subscriptions.
FollowsAreRight == FollowTypeOK /\ OperationsHearAll /\ StopsAreHeard /\ OnGoingIsRight
===============================================================================
