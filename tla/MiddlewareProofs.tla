--------------------------- MODULE MiddlewareProofs ---------------------------
(***************************************************************************)
(* What the websocket middleware guarantees, for any number of             *)
(* subscriptions, operations and notifications.                            *)
(***************************************************************************)
EXTENDS BlockOrder, FollowFixes, LegacyBlocks, SequenceLemmas

-------------------------------------------------------------------------------
(***************************************************************************)
(* Subscriptions and operations.                                           *)
(***************************************************************************)

\* Where a subscription is, given what the consumer knows of it. Only one that was
\* closed before it opened is tracked although it is over.
SubscriptionAt(s) ==
  /\ conSub[s] = "none" =>
       nodeSub[s] = "none" /\ s \notin premature \cup tracked \cup onGoing \cup crossing
  /\ conSub[s] = "asked" =>
       /\ nodeSub[s] = IF s \in premature THEN "over" ELSE "asked"
       /\ s \notin tracked \cup onGoing \cup crossing
  /\ conSub[s] = "open" =>
       /\ nodeSub[s] = "live"
       /\ s \in tracked \cap onGoing
       /\ s \notin premature \cup crossing
  /\ conSub[s] \in {"refused", "closed"} =>
       /\ nodeSub[s] = "over"
       /\ s \notin onGoing \cup (tracked \cap crossing)

Upto(n) == [i \in 1 .. n |-> i]

\* The notifications that were sent are kept until the operation is known, and then
\* they were heard; the operation is forgotten after the last one.
OperationAt(o) ==
  /\ conOp[o] = "none" => nodeOp[o] = "none" /\ opSub[o] = NoSub
  /\ conOp[o] # "none" =>
       /\ opSub[o] \in Subs
       /\ \/ conSub[opSub[o]] = "open"
          \/ conSub[opSub[o]] = "closed" /\ opSub[o] \notin tracked
  /\ conOp[o] = "none" => heard[o] = <<>> /\ kept[o] = <<>> /\ nSent[o] = 0
  /\ conOp[o] \in {"none", "asked"} => o \notin activeOps
  /\ conOp[o] = "asked" /\ conSub[opSub[o]] = "open" =>
       heard[o] = <<>> /\ kept[o] = Upto(nSent[o])
  /\ conOp[o] = "started" /\ conSub[opSub[o]] = "open" =>
       /\ heard[o] = Upto(nSent[o])
       /\ o \in activeOps \/ nSent[o] = NEvents

\* FollowTypeOK, one variable at a time.
FollowTyped ==
  /\ on \in BOOLEAN
  /\ nodeSub \in [Subs -> {"none", "asked", "live", "over"}]
  /\ crossing \subseteq Subs /\ tracked \subseteq Subs
  /\ premature \subseteq Subs /\ preOpId \subseteq Subs
  /\ onGoing \subseteq Subs \cup {Undefined}
  /\ nodeOp \in [Ops -> {"none", "asked", "known"}]
  /\ nSent \in [Ops -> 0 .. NEvents]
  /\ activeOps \subseteq Ops /\ opPending \subseteq Ops
  /\ kept \in [Ops -> Seq(1 .. NEvents)] /\ heard \in [Ops -> Seq(1 .. NEvents)]
  /\ nStops \in 0 .. 3
  /\ conSub \in [Subs -> {"none", "asked", "open", "refused", "closed"}]
  /\ opSub \in [Ops -> Subs \cup {NoSub}]
  /\ conOp \in [Ops -> {"none", "asked", "started", "failed", "stopped"}]

FollowInv ==
  /\ FollowTyped
  /\ on => (\A s \in Subs : SubscriptionAt(s)) /\ (\A o \in Ops : OperationAt(o))

LEMMA NoSubOutside == NoSub \notin Subs /\ Undefined \notin Subs
BY FollowAssumption DEF NoSub, Subs, Undefined

LEMMA UptoGrows ==
  ASSUME NEW n \in Nat
  PROVE  /\ Upto(n) \in Seq(Nat)
         /\ Len(Upto(n)) = n
         /\ n > 0 => Upto(n)[n] = n
         /\ Append(Upto(n), n + 1) = Upto(n + 1)
         /\ Upto(0) = <<>>
BY DEF Upto

\* What both ways of forgetting leave is well typed.
LEMMA LeaveTyped ==
  ASSUME FollowTyped, Leave
  PROVE  /\ on' \in BOOLEAN
         /\ tracked' \subseteq Subs /\ activeOps' \subseteq Ops /\ opPending' \subseteq Ops
         /\ kept' \in [Ops -> Seq(1 .. NEvents)]
         /\ premature' \subseteq Subs /\ preOpId' \subseteq Subs
         /\ onGoing' \subseteq Subs \cup {Undefined}
<1>1. \A o \in Ops : <<>> \in Seq(1 .. NEvents)
  BY EmptySeq
<1>2. QED
  BY <1>1 DEF FollowTyped, Leave

LEMMA UntrackTyped ==
  ASSUME FollowTyped, NEW s \in Subs, Untrack(s)
  PROVE  /\ tracked' \subseteq Subs /\ activeOps' \subseteq Ops /\ opPending' \subseteq Ops
         /\ kept' \in [Ops -> Seq(1 .. NEvents)]
<1>1. \A o \in Ops : <<>> \in Seq(1 .. NEvents) /\ kept[o] \in Seq(1 .. NEvents)
  BY EmptySeq DEF FollowTyped
<1>2. kept' \in [Ops -> Seq(1 .. NEvents)]
  BY <1>1 DEF Untrack
<1>3. QED
  BY <1>2 DEF FollowTyped, Untrack

LEMMA RequestKeeps ==
  ASSUME FollowInv, NEW s \in Subs, Request(s)
  PROVE  FollowInv'
<1>0. /\ FollowTyped /\ on
      /\ \A x \in Subs : SubscriptionAt(x)
      /\ \A o \in Ops : OperationAt(o)
  BY DEF FollowInv, Request
<1>1. FollowTyped'
  BY <1>0 DEF FollowTyped, Request, opVars, stopVars, conVars, peerVars
<1>2. ASSUME NEW x \in Subs, on' PROVE SubscriptionAt(x)'
  <2>1. SubscriptionAt(x) /\ SubscriptionAt(s)
    BY <1>0
  <2>2. QED
    BY <1>0, <1>2, <2>1 DEF FollowTyped, SubscriptionAt, Leave, Request, opVars, stopVars, conVars, peerVars
<1>3. ASSUME NEW o \in Ops, on' PROVE OperationAt(o)'
  <2>1. OperationAt(o)
    BY <1>0
  <2>2. /\ conSub[s] = "none"
        /\ \A x \in Subs : x # s => conSub'[x] = conSub[x]
        /\ UNCHANGED <<conOp, nodeOp, opSub, heard, kept, nSent, activeOps, tracked>>
    BY <1>0 DEF FollowTyped, Request, opVars, stopVars, conVars, peerVars
  <2>3. CASE conOp[o] = "none"
    BY <2>1, <2>2, <2>3 DEF OperationAt
  <2>4. CASE conOp[o] # "none"
    <3>1. opSub[o] \in Subs /\ conSub[opSub[o]] \in {"open", "closed"}
      BY <2>1, <2>4 DEF OperationAt
    <3>2. opSub[o] # s
      BY <2>2, <3>1
    <3>3. conSub'[opSub[o]] = conSub[opSub[o]]
      BY <2>2, <3>1, <3>2
    <3>4. QED
      BY <2>1, <2>2, <2>4, <3>1, <3>3 DEF OperationAt
  <2>5. QED
    BY <2>3, <2>4
<1>4. QED
  BY <1>1, <1>2, <1>3 DEF FollowInv

LEMMA ResponseKeeps ==
  ASSUME FollowInv, NEW s \in Subs, Response(s)
  PROVE  FollowInv'
<1>0. /\ FollowTyped /\ on
      /\ \A x \in Subs : SubscriptionAt(x)
      /\ \A o \in Ops : OperationAt(o)
  BY DEF FollowInv, Response
<1>1. FollowTyped'
  <2>1. CASE s \in premature
    BY <1>0, <2>1 DEF FollowTyped, Response, opVars, stopVars, conVars, peerVars
  <2>2. CASE s \notin premature
    <3>1. onGoing' \subseteq Subs \cup {Undefined} /\ premature' = premature
      BY <1>0, <2>2 DEF FollowTyped, Response
    <3>2. conSub' \in [Subs -> {"none", "asked", "open", "refused", "closed"}]
      <4>1. conSub' = [conSub EXCEPT ![s] = "open"]
        BY <2>2 DEF Response
      <4>2. QED
        BY <1>0, <4>1 DEF FollowTyped
    <3>3. QED
      BY <1>0, <3>1, <3>2 DEF FollowTyped, Response, opVars, stopVars, conVars, peerVars
  <2>3. QED
    BY <2>1, <2>2
<1>2. ASSUME NEW x \in Subs, on' PROVE SubscriptionAt(x)'
  <2>1. SubscriptionAt(x) /\ SubscriptionAt(s)
    BY <1>0
  <2>2. QED
    BY <1>0, <1>2, <2>1 DEF FollowTyped, SubscriptionAt, Leave, Response, opVars, stopVars, conVars, peerVars
<1>3. ASSUME NEW o \in Ops, on' PROVE OperationAt(o)'
  <2>1. OperationAt(o) /\ SubscriptionAt(s)
    BY <1>0
  <2>2. QED
    BY <1>0, <1>3, <2>1, NoSubOutside DEF FollowTyped, OperationAt, SubscriptionAt, Leave, Response, opVars, stopVars, conVars, peerVars
<1>4. QED
  BY <1>1, <1>2, <1>3 DEF FollowInv

LEMMA RefusalKeeps ==
  ASSUME FollowInv, NEW s \in Subs, Refusal(s)
  PROVE  FollowInv'
<1>0. /\ FollowTyped /\ on
      /\ \A x \in Subs : SubscriptionAt(x)
      /\ \A o \in Ops : OperationAt(o)
  BY DEF FollowInv, Refusal
<1> DEFINE Counted == Cardinality(onGoing \cup {Undefined}) + Cardinality(preOpId \ {s}) > 2
<1>1. FollowTyped'
  <2>1. CASE Counted
    BY <1>0, <2>1 DEF FollowTyped, Refusal, opVars, stopVars, conVars, peerVars
  <2>2. CASE ~Counted
    <3>1. Leave /\ UNCHANGED conSub
      BY <2>2 DEF Refusal
    <3>2. QED
      BY <1>0, <3>1, LeaveTyped DEF FollowTyped, Refusal, opVars, stopVars, conVars, peerVars
  <2>3. QED
    BY <2>1, <2>2
<1>2. ASSUME NEW x \in Subs, on' PROVE SubscriptionAt(x)'
  <2>1. SubscriptionAt(x) /\ SubscriptionAt(s)
    BY <1>0
  <2>2. QED
    <3>1. Counted
      BY <1>2 DEF Refusal, Leave
    <3>2. QED
      <4>1. /\ onGoing' = onGoing \cup {Undefined}
            /\ conSub' = [conSub EXCEPT ![s] = "refused"]
            /\ nodeSub' = [nodeSub EXCEPT ![s] = "over"]
            /\ UNCHANGED <<premature, tracked, crossing>>
        BY <3>1 DEF Refusal, opVars
      <4>2. conSub[s] = "asked" /\ x # Undefined
        BY NoSubOutside DEF Refusal
      <4>3. QED
        BY <1>0, <2>1, <4>1, <4>2 DEF FollowTyped, SubscriptionAt
<1>3. ASSUME NEW o \in Ops, on' PROVE OperationAt(o)'
  <2>1. OperationAt(o) /\ SubscriptionAt(s)
    BY <1>0
  <2>2. QED
    BY <1>0, <1>3, <2>1, NoSubOutside DEF FollowTyped, OperationAt, SubscriptionAt, Leave, Refusal, opVars, stopVars, conVars, peerVars
<1>4. QED
  BY <1>1, <1>2, <1>3 DEF FollowInv

LEMMA StopKeeps ==
  ASSUME FollowInv, NEW s \in Subs, StopComes(s)
  PROVE  FollowInv'
<1>0. /\ FollowTyped /\ on
      /\ \A x \in Subs : SubscriptionAt(x)
      /\ \A o \in Ops : OperationAt(o)
  BY DEF FollowInv, StopComes
<1>s. PICK quick \in BOOLEAN :
        LET n == IF quick THEN nStops + 1 ELSE 1
        IN  IF n > 2
              THEN Leave /\ nStops' = 0
              ELSE /\ nStops' = n
                   /\ IF s \in tracked THEN Untrack(s) ELSE UNCHANGED opVars
                   /\ IF s \in onGoing
                        THEN onGoing' = onGoing \ {s} /\ UNCHANGED premature
                        ELSE premature' = premature \cup {s} /\ UNCHANGED onGoing
                   /\ UNCHANGED <<on, preOpId>>
  BY DEF StopComes
<1> DEFINE n == IF quick THEN nStops + 1 ELSE 1
<1>1. FollowTyped'
  <2>0. /\ nodeSub' \in [Subs -> {"none", "asked", "live", "over"}]
        /\ crossing' \subseteq Subs
        /\ conSub' \in [Subs -> {"none", "asked", "open", "refused", "closed"}]
        /\ UNCHANGED <<nodeOp, nSent, opSub, conOp, heard>>
    BY <1>0 DEF FollowTyped, StopComes
  <2>1. CASE n > 2
    <3>1. Leave /\ nStops' = 0
      BY <1>s, <2>1
    <3>2. QED
      BY <1>0, <2>0, <3>1, LeaveTyped DEF FollowTyped
  <2>2. CASE ~(n > 2)
    <3>1. /\ nStops' = n
          /\ IF s \in tracked THEN Untrack(s) ELSE UNCHANGED opVars
          /\ UNCHANGED <<on, preOpId>>
          /\ onGoing' \in SUBSET onGoing /\ premature' \in SUBSET (premature \cup {s})
      BY <1>s, <2>2
    <3>2. n \in 0 .. 3
      BY <1>0, <2>2 DEF FollowTyped
    <3>3. /\ tracked' \subseteq Subs /\ activeOps' \subseteq Ops /\ opPending' \subseteq Ops
          /\ kept' \in [Ops -> Seq(1 .. NEvents)]
      BY <1>0, <3>1, UntrackTyped DEF FollowTyped, opVars
    <3> HIDE DEF n
    <3>4. QED
      BY <1>0, <2>0, <3>1, <3>2, <3>3 DEF FollowTyped
  <2>3. QED
    BY <2>1, <2>2
<1>2. ASSUME NEW x \in Subs, on' PROVE SubscriptionAt(x)'
  <2>1. SubscriptionAt(x) /\ SubscriptionAt(s)
    BY <1>0
  <2>2. QED
    BY <1>0, <1>2, <2>1 DEF FollowTyped, SubscriptionAt, Leave, StopComes, Untrack, OpsOf, opVars, stopVars, conVars, peerVars
<1>3. ASSUME NEW o \in Ops, on' PROVE OperationAt(o)'
  <2>1. OperationAt(o) /\ SubscriptionAt(s)
    BY <1>0
  <2>2. QED
    BY <1>0, <1>3, <2>1, NoSubOutside DEF FollowTyped, OperationAt, SubscriptionAt, Leave, StopComes, Untrack, OpsOf, opVars, stopVars, conVars, peerVars
<1>4. QED
  BY <1>1, <1>2, <1>3 DEF FollowInv

LEMMA UnfollowKeeps ==
  ASSUME FollowInv, NEW s \in Subs, UnfollowSub(s)
  PROVE  FollowInv'
<1>0. /\ FollowTyped /\ on
      /\ \A x \in Subs : SubscriptionAt(x)
      /\ \A o \in Ops : OperationAt(o)
  BY DEF FollowInv, UnfollowSub
<1>1. FollowTyped'
  <2>1. Untrack(s)
    BY DEF UnfollowSub
  <2>2. QED
    BY <1>0, <2>1, UntrackTyped DEF FollowTyped, UnfollowSub, opVars, stopVars, conVars, peerVars
<1>2. ASSUME NEW x \in Subs, on' PROVE SubscriptionAt(x)'
  <2>1. SubscriptionAt(x) /\ SubscriptionAt(s)
    BY <1>0
  <2>2. QED
    BY <1>0, <1>2, <2>1 DEF FollowTyped, SubscriptionAt, Leave, UnfollowSub, Untrack, OpsOf, opVars, stopVars, conVars, peerVars
<1>3. ASSUME NEW o \in Ops, on' PROVE OperationAt(o)'
  <2>1. OperationAt(o) /\ SubscriptionAt(s)
    BY <1>0
  <2>2. QED
    BY <1>0, <1>3, <2>1, NoSubOutside DEF FollowTyped, OperationAt, SubscriptionAt, Leave, UnfollowSub, Untrack, OpsOf, opVars, stopVars, conVars, peerVars
<1>4. QED
  BY <1>1, <1>2, <1>3 DEF FollowInv

LEMMA OperationKeeps ==
  ASSUME FollowInv, NEW p \in Ops, Operation(p)
  PROVE  FollowInv'
<1>0. /\ FollowTyped /\ on
      /\ \A x \in Subs : SubscriptionAt(x)
      /\ \A o \in Ops : OperationAt(o)
  BY DEF FollowInv, Operation
<1>1. FollowTyped'
  BY <1>0 DEF FollowTyped, Operation, opVars, stopVars, conVars, peerVars
<1>2. ASSUME NEW x \in Subs, on' PROVE SubscriptionAt(x)'
  <2>1. SubscriptionAt(x)
    BY <1>0
  <2>2. QED
    BY <2>1 DEF SubscriptionAt, Operation, opVars, stopVars, conVars, peerVars
<1>3. ASSUME NEW o \in Ops, on' PROVE OperationAt(o)'
  <2>1. OperationAt(o) /\ OperationAt(p)
    BY <1>0
  <2>2. QED
    <3>1. CASE o = p
      <4>1. /\ conOp'[o] = "asked" /\ opSub'[o] \in Subs /\ conSub'[opSub'[o]] = "open"
            /\ UNCHANGED <<heard, kept, nSent, activeOps, tracked>>
        BY <1>0, <3>1 DEF FollowTyped, Operation
      <4>2. conOp[o] = "none"
        BY <3>1 DEF Operation
      <4>3. Upto(nSent[o]) = <<>>
        BY <2>1, <4>2, UptoGrows DEF OperationAt
      <4>4. QED
        BY <2>1, <4>1, <4>2, <4>3, NoSubOutside DEF OperationAt
    <3>2. CASE o # p
      BY <1>0, <2>1, <3>2 DEF FollowTyped, OperationAt, Operation, opVars, stopVars, conVars, peerVars
    <3>3. QED
      BY <3>1, <3>2
<1>4. QED
  BY <1>1, <1>2, <1>3 DEF FollowInv

LEMMA OpResponseKeeps ==
  ASSUME FollowInv, NEW p \in Ops, OpResponse(p)
  PROVE  FollowInv'
<1>0. /\ FollowTyped /\ on
      /\ \A x \in Subs : SubscriptionAt(x)
      /\ \A o \in Ops : OperationAt(o)
  BY DEF FollowInv, OpResponse
<1>k. /\ kept[p] \in Seq(1 .. NEvents) /\ heard[p] \in Seq(1 .. NEvents)
      /\ heard[p] \o kept[p] \in Seq(1 .. NEvents) /\ <<>> \in Seq(1 .. NEvents)
  BY <1>0, ConcatProperties, EmptySeq DEF FollowTyped
<1>1. FollowTyped'
  <2>1. CASE opSub[p] \in tracked
    <3>1. activeOps' \subseteq Ops
      BY <1>0, <2>1 DEF FollowTyped, OpResponse
    <3>2. /\ heard' = [heard EXCEPT ![p] = heard[p] \o kept[p]]
          /\ kept' = [kept EXCEPT ![p] = <<>>]
      BY <2>1 DEF OpResponse
    <3>3. heard' \in [Ops -> Seq(1 .. NEvents)] /\ kept' \in [Ops -> Seq(1 .. NEvents)]
      BY <1>0, <1>k, <3>2 DEF FollowTyped
    <3>4. QED
      BY <1>0, <3>1, <3>3 DEF FollowTyped, OpResponse, opVars, stopVars, conVars, peerVars
  <2>2. CASE opSub[p] \notin tracked
    BY <1>0, <2>2 DEF FollowTyped, OpResponse, opVars, stopVars, conVars, peerVars
  <2>3. QED
    BY <2>1, <2>2
<1>2. ASSUME NEW x \in Subs, on' PROVE SubscriptionAt(x)'
  <2>1. SubscriptionAt(x)
    BY <1>0
  <2>2. QED
    BY <2>1 DEF SubscriptionAt, OpResponse, opVars, stopVars, conVars, peerVars
<1>3. ASSUME NEW o \in Ops, on' PROVE OperationAt(o)'
  <2>1. OperationAt(o) /\ OperationAt(p)
    BY <1>0
  <2>2. QED
    <3>1. CASE o = p
      <4>1. /\ conOp[o] = "asked" /\ conOp'[o] = "started"
            /\ UNCHANGED <<opSub, conSub, nSent, tracked>>
        BY <1>0, <3>1 DEF FollowTyped, OpResponse
      <4>2. CASE conSub[opSub[o]] = "open"
        <5>1. opSub[o] \in tracked
          BY <1>0, <2>1, <4>1, <4>2 DEF OperationAt, SubscriptionAt
        <5>2. /\ heard[o] = <<>> /\ kept[o] = Upto(nSent[o])
              /\ nSent[o] \in Nat
          BY <1>0, <2>1, <4>1, <4>2 DEF OperationAt, FollowTyped
        <5>3. heard'[o] = Upto(nSent[o])
          <6>1. heard'[o] = heard[o] \o kept[o]
            BY <1>0, <3>1, <5>1 DEF FollowTyped, OpResponse
          <6>2. Upto(nSent[o]) \in Seq(Nat)
            BY <5>2, UptoGrows
          <6>3. QED
            BY <5>2, <6>1, <6>2
        <5>4. o \in activeOps' \/ nSent[o] = NEvents
          <6>1. kept[o] # <<>> /\ kept[o][Len(kept[o])] = NEvents => nSent[o] = NEvents
            <7>1. CASE nSent[o] = 0
              BY <5>2, <7>1, UptoGrows
            <7>2. CASE nSent[o] > 0
              BY <5>2, <7>2, UptoGrows
            <7>3. QED
              BY <5>2, <7>1, <7>2
          <6>2. QED
            BY <1>0, <3>1, <5>1, <6>1 DEF OpResponse
        <5>5. QED
          BY <2>1, <4>1, <4>2, <5>3, <5>4, NoSubOutside DEF OperationAt
      <4>3. CASE conSub[opSub[o]] # "open"
        BY <2>1, <4>1, <4>3 DEF OperationAt
      <4>4. QED
        BY <4>2, <4>3
    <3>2. CASE o # p
      BY <1>0, <2>1, <3>2 DEF FollowTyped, OperationAt, OpResponse, opVars, stopVars, conVars, peerVars
    <3>3. QED
      BY <3>1, <3>2
<1>4. QED
  BY <1>1, <1>2, <1>3 DEF FollowInv

LEMMA OpRefusalKeeps ==
  ASSUME FollowInv, NEW p \in Ops, OpRefusal(p)
  PROVE  FollowInv'
<1>0. /\ FollowTyped /\ on
      /\ \A x \in Subs : SubscriptionAt(x)
      /\ \A o \in Ops : OperationAt(o)
  BY DEF FollowInv, OpRefusal
<1>1. FollowTyped'
  BY <1>0 DEF FollowTyped, OpRefusal, opVars, stopVars, conVars, peerVars
<1>2. ASSUME NEW x \in Subs, on' PROVE SubscriptionAt(x)'
  <2>1. SubscriptionAt(x)
    BY <1>0
  <2>2. QED
    BY <2>1 DEF SubscriptionAt, OpRefusal, opVars, stopVars, conVars, peerVars
<1>3. ASSUME NEW o \in Ops, on' PROVE OperationAt(o)'
  <2>1. OperationAt(o) /\ OperationAt(p)
    BY <1>0
  <2>2. QED
    BY <1>0, <1>3, <2>1, NoSubOutside DEF FollowTyped, OperationAt, OpRefusal, opVars, stopVars, conVars, peerVars
<1>4. QED
  BY <1>1, <1>2, <1>3 DEF FollowInv

LEMMA OpEventKeeps ==
  ASSUME FollowInv, NEW p \in Ops, OpEvent(p)
  PROVE  FollowInv'
<1>0. /\ FollowTyped /\ on
      /\ \A x \in Subs : SubscriptionAt(x)
      /\ \A o \in Ops : OperationAt(o)
  BY DEF FollowInv, OpEvent
<1> DEFINE event == nSent[p] + 1
<1>e. event \in 1 .. NEvents
  BY <1>0, FollowAssumption DEF FollowTyped, OpEvent
<1>k. /\ Append(kept[p], event) \in Seq(1 .. NEvents)
      /\ Append(heard[p], event) \in Seq(1 .. NEvents)
  BY <1>0, <1>e, AppendProperties DEF FollowTyped
<1>1. FollowTyped'
  <2>0. event \in 0 .. NEvents
    BY <1>e
  <2>1. CASE opSub[p] \notin tracked
    BY <1>0, <1>k, <2>0, <2>1 DEF FollowTyped, OpEvent, opVars, stopVars, conVars, peerVars
  <2>2. CASE opSub[p] \in tracked /\ p \notin activeOps
    BY <1>0, <1>k, <2>0, <2>2 DEF FollowTyped, OpEvent, opVars, stopVars, conVars, peerVars
  <2>3. CASE opSub[p] \in tracked /\ p \in activeOps
    BY <1>0, <1>k, <2>0, <2>3 DEF FollowTyped, OpEvent, opVars, stopVars, conVars, peerVars
  <2>4. QED
    BY <2>1, <2>2, <2>3
<1>2. ASSUME NEW x \in Subs, on' PROVE SubscriptionAt(x)'
  <2>1. SubscriptionAt(x)
    BY <1>0
  <2>2. QED
    BY <2>1 DEF SubscriptionAt, OpEvent, opVars, stopVars, conVars, peerVars
<1>3. ASSUME NEW o \in Ops, on' PROVE OperationAt(o)'
  <2>1. OperationAt(o) /\ OperationAt(p)
    BY <1>0
  <2>2. QED
    <3>0. UNCHANGED <<conOp, nodeOp, opSub, conSub, tracked>>
      BY DEF OpEvent
    <3>1. CASE o = p
      <4>0. /\ conOp[o] \notin {"none", "failed"}
            /\ nSent'[o] = event /\ nSent[o] \in Nat
        BY <1>0, <2>1, <3>1 DEF FollowTyped, OperationAt, OpEvent
      <4>1. CASE conSub[opSub[o]] = "open"
        <5>1. opSub[o] \in tracked
          BY <1>0, <2>1, <4>0, <4>1 DEF OperationAt, SubscriptionAt
        <5>2. Append(Upto(nSent[o]), event) = Upto(event)
          BY <3>1, <4>0, UptoGrows
        <5>3. CASE conOp[o] = "asked"
          <6>1. o \notin activeOps /\ heard[o] = <<>> /\ kept[o] = Upto(nSent[o])
            BY <2>1, <4>1, <5>3 DEF OperationAt
          <6>2. UNCHANGED <<heard, activeOps>> /\ kept'[o] = Append(kept[o], event)
            BY <1>0, <3>1, <5>1, <6>1 DEF FollowTyped, OpEvent
          <6>3. QED
            BY <2>1, <3>0, <4>0, <4>1, <5>2, <5>3, <6>1, <6>2 DEF OperationAt
        <5>4. CASE conOp[o] = "started"
          <6>1. heard[o] = Upto(nSent[o]) /\ o \in activeOps
            BY <2>1, <1>e, <3>1, <4>0, <4>1, <5>4 DEF OperationAt
          <6>2. /\ heard'[o] = Append(heard[o], event)
                /\ activeOps' = IF event = NEvents THEN activeOps \ {o} ELSE activeOps
            BY <1>0, <3>1, <5>1, <6>1 DEF FollowTyped, OpEvent
          <6>3. QED
            BY <2>1, <3>0, <4>0, <4>1, <5>2, <5>4, <6>1, <6>2 DEF OperationAt
        <5>5. CASE conOp[o] = "stopped"
          BY <2>1, <3>0, <5>5 DEF OperationAt
        <5>6. QED
          BY <1>0, <4>0, <5>3, <5>4, <5>5 DEF FollowTyped
      <4>2. CASE conSub[opSub[o]] # "open"
        <5>1. activeOps' \subseteq activeOps
          BY DEF OpEvent
        <5>2. QED
          BY <2>1, <3>0, <4>0, <4>2, <5>1 DEF OperationAt
      <4>3. QED
        BY <4>1, <4>2
    <3>2. CASE o # p
      BY <1>0, <2>1, <3>2 DEF FollowTyped, OperationAt, OpEvent, opVars, stopVars, conVars, peerVars
    <3>3. QED
      BY <3>1, <3>2
<1>4. QED
  BY <1>1, <1>2, <1>3 DEF FollowInv

LEMMA StopOperationKeeps ==
  ASSUME FollowInv, NEW p \in Ops, StopOperation(p)
  PROVE  FollowInv'
<1>0. /\ FollowTyped /\ on
      /\ \A x \in Subs : SubscriptionAt(x)
      /\ \A o \in Ops : OperationAt(o)
  BY DEF FollowInv, StopOperation
<1>1. FollowTyped'
  BY <1>0 DEF FollowTyped, StopOperation, opVars, stopVars, conVars, peerVars
<1>2. ASSUME NEW x \in Subs, on' PROVE SubscriptionAt(x)'
  <2>1. SubscriptionAt(x)
    BY <1>0
  <2>2. QED
    BY <2>1 DEF SubscriptionAt, StopOperation, opVars, stopVars, conVars, peerVars
<1>3. ASSUME NEW o \in Ops, on' PROVE OperationAt(o)'
  <2>1. OperationAt(o) /\ OperationAt(p)
    BY <1>0
  <2>2. QED
    BY <1>0, <1>3, <2>1, NoSubOutside DEF FollowTyped, OperationAt, StopOperation, opVars, stopVars, conVars, peerVars
<1>4. QED
  BY <1>1, <1>2, <1>3 DEF FollowInv

LEMMA HaltKeeps == FollowInv /\ ConnectionHalts => FollowInv'
<1> SUFFICES ASSUME FollowInv, ConnectionHalts PROVE FollowInv'
  OBVIOUS
<1>1. FollowTyped /\ Leave /\ UNCHANGED <<peerVars, nStops, conVars>>
  BY DEF FollowInv, ConnectionHalts
<1>2. FollowTyped'
  BY <1>1, LeaveTyped DEF FollowTyped, peerVars, conVars
<1>3. on' = FALSE
  BY <1>1 DEF Leave
<1>4. QED
  BY <1>2, <1>3 DEF FollowInv

LEMMA FollowInvInit == FollowInit => FollowInv
BY FollowAssumption, EmptySeq, NoSubOutside
   DEF FollowInit, FollowInv, FollowTyped, SubscriptionAt, OperationAt

LEMMA FollowInvNext == FollowInv /\ [FollowNext]_followVars => FollowInv'
<1> SUFFICES ASSUME FollowInv, [FollowNext]_followVars PROVE FollowInv'
  OBVIOUS
<1>1. ASSUME NEW s \in Subs, Request(s) \/ Response(s) \/ Refusal(s) \/ StopComes(s)
                              \/ UnfollowSub(s)
      PROVE  FollowInv'
  BY <1>1, RequestKeeps, ResponseKeeps, RefusalKeeps, StopKeeps, UnfollowKeeps
<1>2. ASSUME NEW o \in Ops, Operation(o) \/ OpResponse(o) \/ OpRefusal(o) \/ OpEvent(o)
                             \/ StopOperation(o)
      PROVE  FollowInv'
  BY <1>2, OperationKeeps, OpResponseKeeps, OpRefusalKeeps, OpEventKeeps,
     StopOperationKeeps
<1>3. CASE UNCHANGED followVars
  BY <1>3 DEF followVars, peerVars, opVars, stopVars, conVars, FollowInv, FollowTyped,
              SubscriptionAt, OperationAt
<1>4. QED
  BY <1>1, <1>2, <1>3, HaltKeeps DEF FollowNext

\* The response of an operation is followed by everything that was sent of it.
LEMMA FollowInvSuffices == FollowInv => FollowsAreRight
<1> SUFFICES ASSUME FollowInv PROVE FollowsAreRight
  OBVIOUS
<1>1. FollowTypeOK
  BY DEF FollowInv, FollowTyped, FollowTypeOK
<1>2. OperationsHearAll
  BY DEF FollowInv, OperationAt, OperationsHearAll, Upto
<1>3. StopsAreHeard
  BY DEF FollowInv, SubscriptionAt, StopsAreHeard
<1>4. OnGoingIsRight
  <2> SUFFICES ASSUME on PROVE onGoing \ {Undefined} = {s \in Subs : conSub[s] = "open"}
    BY DEF OnGoingIsRight
  <2>1. \A s \in Subs : s \in onGoing <=> conSub[s] = "open"
    BY DEF FollowInv, FollowTyped, SubscriptionAt
  <2>2. QED
    BY <2>1, NoSubOutside DEF FollowInv, FollowTyped
<1>5. QED
  BY <1>1, <1>2, <1>3, <1>4 DEF FollowsAreRight

\* Whatever overtakes what, consumers hear every notification of an operation once
\* and in order, and of the end of each subscription; the limit of follows counts
\* those that are open. For any number of follows, operations and notifications.
THEOREM FollowsStayRight == FollowSpec => []FollowsAreRight
<1>1. FollowSpec => []FollowInv
  BY FollowInvInit, FollowInvNext, PTL DEF FollowSpec
<1>2. QED
  BY <1>1, FollowInvSuffices, PTL

-------------------------------------------------------------------------------
(***************************************************************************)
(* The order of blocks.                                                    *)
(***************************************************************************)
HasTold == Range(announced) \cup {Root}

\* What is below the finalized block, or in another branch: the node does not speak
\* of it any more.
Gone == nodePruned \cup Ancestors[nodeFinalized]

\* BlockTypeOK, one variable at a time.
BlockTyped ==
  /\ phase \in {"idle", "asked", "following", "over"}
  /\ started \in BOOLEAN /\ overtaken \in BOOLEAN
  /\ sent \subseteq Blocks /\ nodePruned \subseteq Blocks /\ deep \subseteq Blocks
  /\ pinned \subseteq Blocks \cup {Root} /\ known \subseteq Blocks \cup {Root}
  /\ held \subseteq Blocks \cup {Root} /\ mayUnpin \subseteq Blocks \cup {Root}
  /\ nodeBest \in Blocks \cup {Root, NoBlock} /\ best \in Blocks \cup {Root, NoBlock}
  /\ nodeFinalized \in Blocks \cup {Root} /\ finalized \in Blocks \cup {Root}
  /\ bests \in 0 .. MaxBests
  /\ waiting \in [Blocks \cup {Root} -> Seq(Blocks)]
  /\ micro \in Seq(Blocks \cup {Root}) /\ announced \in Seq(Blocks \cup {Root})
  /\ timer \in {"off", "noted", "armed", "orphan"}

\* Before the node sends "initialized", and when the timer runs.
Phased ==
  /\ phase \in {"idle", "asked"} => ~started /\ timer = "off"
  /\ phase = "following" => timer # "orphan"
  /\ phase = "over" => timer \in {"off", "orphan"}
  /\ timer \in {"armed", "orphan"} => started
  /\ ~started =>
       /\ announced = <<>> /\ sent = {} /\ held = {} /\ mayUnpin = {} /\ micro = <<>>
       /\ nodeBest = NoBlock /\ best = NoBlock /\ nodeFinalized = Root

\* The node finalizes what it announced.
Finalizing ==
  /\ nodePruned = {c \in Blocks : ~OnChain(nodeFinalized, c) /\ ~OnChain(c, nodeFinalized)}
  /\ {nodeFinalized} \cup Ancestors[nodeFinalized] \subseteq sent \cup {Root}

\* Each block is announced once, after its parent; what is pinned and known was
\* announced, and goes only once the node is done with it.
Ordered ==
  /\ ParentsFirst
  /\ Range(announced) \subseteq sent
  /\ pinned \cup known \cup mayUnpin \cup Range(micro) \subseteq HasTold
  /\ best \in HasTold \cup {NoBlock}
  /\ held \cap HasTold = {}
  /\ mayUnpin \subseteq Gone
  /\ phase = "following" /\ started => HasTold \subseteq (pinned \cap known) \cup Gone

DeepAbove(b) == \E a \in {b} \cup Ancestors[b] : a \in deep

\* A block waits for its parent, or for one that waited itself.
Queued ==
  /\ \A a \in Blocks \cup {Root} :
       /\ IsInjective(waiting[a])
       /\ \A w \in Range(waiting[a]) : w \in sent \ Range(announced) /\ ParentOf[w] = a
  /\ phase = "following" =>
       \A b \in sent :
         \/ b \in Range(announced)
         \/ DeepAbove(b)
         \/ b \in Range(waiting[ParentOf[b]]) /\ ParentOf[b] \in Blocks \ sent

\* The best block of the node is known, held or about to be delivered.
BestFollows ==
  phase = "following" /\ ~overtaken =>
    /\ held \subseteq {nodeBest}
    /\ IF micro = <<>>
         THEN /\ \/ best = nodeBest
                 \/ nodeBest \in held
                 \/ nodeBest = NoBlock /\ best = Root
              /\ timer = "armed" => nodeBest = NoBlock \/ nodeBest \in held
         ELSE micro = <<nodeBest>>

BlockInv ==
  BlockTyped /\ Phased /\ Finalizing /\ Ordered /\ Queued /\ BestFollows

LEMMA BlocksNumbered ==
  /\ Len(ParentOf) \in Nat
  /\ Blocks = 1 .. Len(ParentOf)
  /\ NoBlock \notin Blocks \cup {Root}
  /\ Root \notin Blocks
  /\ \A b \in Blocks : ParentOf[b] \in Blocks \cup {Root} /\ ParentOf[b] < b
<1>1. Len(ParentOf) \in Nat /\ Blocks = 1 .. Len(ParentOf)
  BY BlockAssumption, LenProperties DEF Blocks
<1>2. \A b \in Blocks : ParentOf[b] \in 0 .. b - 1
  BY BlockAssumption
<1>3. QED
  BY <1>1, <1>2 DEF NoBlock, Root

LEMMA AncestorsStep ==
  /\ Ancestors[Root] = {}
  /\ \A b \in Blocks : Ancestors[b] = {ParentOf[b]} \cup Ancestors[ParentOf[b]]
  /\ Ancestors \in [Blocks \cup {Root} -> SUBSET (Blocks \cup {Root})]
<1> DEFINE D == Blocks \cup {Root}
           V == SUBSET D
           start == [b \in D |-> {}]
           below == [b \in D |-> IF b = Root THEN Root ELSE ParentOf[b]]
           F == [b \in D |-> [v \in V |-> {below[b]} \cup v]]
           rank == [b \in D |-> b]
<1>0. /\ \A b \in D : below[b] = IF b = Root THEN Root ELSE ParentOf[b]
      /\ \A b \in D : start[b] = {}
      /\ \A b \in D : \A v \in V : F[b][v] = {below[b]} \cup v
  OBVIOUS
<1>b. below \in [D -> D]
  BY BlocksNumbered
<1>1. Steps(start, F, D, V)
  <2>1. \A b \in D : F[b] \in [V -> V]
    BY <1>b
  <2>2. start \in [D -> V]
    OBVIOUS
  <2> HIDE DEF F, start
  <2>3. F \in [D -> [V -> V]]
    BY <2>1 DEF F
  <2>4. QED
    BY <2>2, <2>3 DEF Steps
<1>r. Ranks(rank, below, {Root}, D)
  <2>1. rank \in [D -> Nat]
    BY BlocksNumbered DEF Root
  <2>2. \A d \in D : d \in {Root} \/ rank[below[d]] < rank[d]
    BY BlocksNumbered, <1>b
  <2>3. QED
    BY <1>b, <2>1, <2>2 DEF Ranks
<1> HIDE DEF start, F, below, rank
<1>2. PICK g \in [D -> V] : Solves(g, start, F, below, {Root}, D)
  BY <1>1, <1>r, RecursionByRank
<1>3. \A b \in D : g[b] = IF b = Root THEN {} ELSE {ParentOf[b]} \cup g[ParentOf[b]]
  <2> SUFFICES ASSUME NEW b \in D
               PROVE  g[b] = IF b = Root THEN {} ELSE {ParentOf[b]} \cup g[ParentOf[b]]
    OBVIOUS
  <2>1. CASE b = Root
    BY <1>0, <1>2, <2>1 DEF Solves
  <2>2. CASE b # Root
    <3>1. g[b] = F[b][g[below[b]]]
      BY <1>2, <2>2 DEF Solves
    <3>2. below[b] = ParentOf[b] /\ below[b] \in D
      BY <1>0, <1>b, <2>2
    <3>3. g[below[b]] \in V
      BY <1>2, <3>2
    <3>4. QED
      BY <1>0, <2>2, <3>1, <3>2, <3>3
  <2>3. QED
    BY <2>1, <2>2
<1>4. g = [b \in D |-> g[b]]
  OBVIOUS
<1>5. g = [b \in D |-> IF b = Root THEN {} ELSE {ParentOf[b]} \cup g[ParentOf[b]]]
  BY <1>3, <1>4, Zenon
<1>6. Ancestors = [b \in D |-> IF b = Root THEN {} ELSE {ParentOf[b]} \cup Ancestors[ParentOf[b]]]
  BY <1>5 DEF Ancestors
<1>7. \A b \in D : Ancestors[b] = IF b = Root THEN {} ELSE {ParentOf[b]} \cup Ancestors[ParentOf[b]]
  BY <1>6
<1>8. Ancestors[Root] = {} /\ \A b \in Blocks : Ancestors[b] = {ParentOf[b]} \cup Ancestors[ParentOf[b]]
  BY <1>7, BlocksNumbered
<1> DEFINE N == {n \in Nat : \A b \in D : b <= n => Ancestors[b] \in SUBSET D}
<1>9. 0 \in N
  BY <1>8, BlocksNumbered DEF Root
<1>10. ASSUME NEW n \in Nat, n \in N PROVE n + 1 \in N
  <2>1. ASSUME NEW b \in D, b <= n + 1 PROVE Ancestors[b] \in SUBSET D
    <3>1. CASE b = Root
      BY <1>8, <3>1
    <3>2. CASE b \in Blocks
      <4>1. ParentOf[b] \in D /\ ParentOf[b] <= n
        BY <2>1, <3>2, BlocksNumbered DEF Root
      <4>2. QED
        BY <1>8, <1>10, <3>2, <4>1
    <3>3. QED
      BY <3>1, <3>2
  <2>2. QED
    BY <2>1
<1> HIDE DEF N
<1>11. Nat \subseteq N
  BY <1>9, <1>10, InductionOverNat
<1>12. \A b \in D : Ancestors[b] \in SUBSET D
  <2>1. \A b \in D : b \in Nat /\ b <= b
    BY BlocksNumbered DEF Root
  <2>2. QED
    BY <1>11, <2>1 DEF N
<1>13. Ancestors \in [D -> SUBSET D]
  BY <1>6, <1>12
<1>14. QED
  BY <1>8, <1>13

\* What is below an ancestor is below the block, and of a lower number.
LEMMA AncestorsBelow ==
  \A c \in Blocks \cup {Root} : \A b \in Ancestors[c] : b < c /\ Ancestors[b] \subseteq Ancestors[c]
<1> DEFINE D == Blocks \cup {Root}
           Fine(c) == \A b \in Ancestors[c] : b < c /\ Ancestors[b] \subseteq Ancestors[c]
           N == {n \in Nat : \A c \in D : c <= n => Fine(c)}
<1>0. \A c \in D : c \in Nat
  BY BlocksNumbered DEF Root
<1>1. Fine(Root)
  BY AncestorsStep
<1>2. 0 \in N
  BY <1>0, <1>1, BlocksNumbered DEF Root
<1>3. ASSUME NEW n \in Nat, n \in N PROVE n + 1 \in N
  <2>1. ASSUME NEW c \in D, c <= n + 1 PROVE Fine(c)
    <3>1. CASE c \in Blocks
      <4>0. ParentOf[c] \in D /\ ParentOf[c] < c
        BY <3>1, BlocksNumbered
      <4>1. ParentOf[c] \in D /\ ParentOf[c] < c /\ ParentOf[c] <= n
        <5>1. ParentOf[c] \in Nat /\ c \in Nat
          BY <1>0, <4>0
        <5>2. QED
          BY <2>1, <4>0, <5>1
      <4>2. Fine(ParentOf[c])
        BY <1>3, <4>1
      <4>3. Ancestors[c] = {ParentOf[c]} \cup Ancestors[ParentOf[c]]
        BY <3>1, AncestorsStep
      <4>4. \A b \in Ancestors[c] : b \in Nat
        BY <1>0, <3>1, AncestorsStep
      <4>5. QED
        BY <1>0, <4>1, <4>2, <4>3, <4>4
    <3>2. QED
      BY <1>1, <3>1
  <2>2. QED
    BY <2>1
<1> HIDE DEF N
<1>4. Nat \subseteq N
  BY <1>2, <1>3, InductionOverNat
<1>5. QED
  BY <1>0, <1>4 DEF N

\* HeldAmong picks blocks that are held; if at most one is, it picks that at most.
LEMMA HeldAmongPicks ==
  ASSUME NEW S, NEW bs \in Seq(S)
  PROVE  /\ HeldAmong(bs) \in Seq(S)
         /\ Range(HeldAmong(bs)) = Range(bs) \cap held
         /\ \A x : IsInjective(bs) /\ held \subseteq {x} =>
              HeldAmong(bs) = IF x \in Range(bs) \cap held THEN <<x>> ELSE <<>>
<1> DEFINE D == 0 .. Len(bs)
           V == Seq(S)
           start == [n \in D |-> <<>>]
           below == [n \in D |-> IF n = 0 THEN 0 ELSE n - 1]
           F == [n \in D |-> [v \in V |->
                  IF n # 0 /\ bs[n] \in held THEN Append(v, bs[n]) ELSE v]]
           rank == [n \in D |-> n]
<1>l. Len(bs) \in Nat /\ \A n \in 1 .. Len(bs) : bs[n] \in S
  BY LenProperties, ElementOfSeq
<1>0. /\ \A n \in D : below[n] = IF n = 0 THEN 0 ELSE n - 1
      /\ \A n \in D : start[n] = <<>>
      /\ \A n \in D : \A v \in V :
           F[n][v] = IF n # 0 /\ bs[n] \in held THEN Append(v, bs[n]) ELSE v
  OBVIOUS
<1>b. below \in [D -> D]
  BY <1>l
<1>1. Steps(start, F, D, V)
  <2>1. ASSUME NEW n \in D PROVE F[n] \in [V -> V]
    <3>1. CASE n # 0 /\ bs[n] \in held
      <4>1. \A v \in V : Append(v, bs[n]) \in V
        BY <1>l, <3>1, AppendProperties
      <4>2. QED
        BY <3>1, <4>1
    <3>2. CASE ~(n # 0 /\ bs[n] \in held)
      BY <3>2
    <3>3. QED
      BY <3>1, <3>2
  <2>2. start \in [D -> V]
    BY EmptySeq
  <2> HIDE DEF F, start
  <2>3. F \in [D -> [V -> V]]
    BY <2>1 DEF F
  <2>4. QED
    BY <2>2, <2>3 DEF Steps
<1>r. Ranks(rank, below, {0}, D)
  <2>1. rank \in [D -> Nat] /\ \A d \in D : d \in {0} \/ rank[below[d]] < rank[d]
    BY <1>l, <1>b
  <2>2. QED
    BY <1>b, <2>1 DEF Ranks
<1> HIDE DEF start, F, below, rank
<1>2. PICK g \in [D -> V] : Solves(g, start, F, below, {0}, D)
  BY <1>1, <1>r, RecursionByRank
<1> DEFINE Step(f, n) == IF n = 0 THEN <<>>
                         ELSE IF bs[n] \in held THEN Append(f[n - 1], bs[n]) ELSE f[n - 1]
<1>3. ASSUME NEW n \in D PROVE g[n] = Step(g, n)
  <2>1. CASE n = 0
    BY <1>0, <1>2, <2>1 DEF Solves
  <2>2. CASE n # 0
    <3>1. g[n] = F[n][g[below[n]]]
      BY <1>2, <2>2 DEF Solves
    <3>2. below[n] = n - 1 /\ n - 1 \in D
      BY <1>0, <1>l, <2>2
    <3>3. g[below[n]] \in V
      BY <1>2, <3>2
    <3>4. QED
      BY <1>0, <2>2, <3>1, <3>2, <3>3
  <2>3. QED
    BY <2>1, <2>2
<1> DEFINE upTo == CHOOSE f : f = [n \in D |-> Step(f, n)]
<1>4. g = [n \in D |-> g[n]]
  OBVIOUS
<1>5. g = [n \in D |-> Step(g, n)]
  BY <1>3, <1>4, Zenon
<1>6. upTo = [n \in D |-> Step(upTo, n)]
  BY <1>5
<1>7. HeldAmong(bs) = upTo[Len(bs)]
  BY DEF HeldAmong
<1> HIDE DEF upTo
<1>8. \A n \in D : upTo[n] = Step(upTo, n)
  BY <1>6
<1> DEFINE Before(n) == {bs[i] : i \in 1 .. n}
           Fine(n) ==
             /\ upTo[n] \in V
             /\ Range(upTo[n]) = Before(n) \cap held
             /\ \A x : IsInjective(bs) /\ held \subseteq {x} =>
                  upTo[n] = IF x \in Before(n) \cap held THEN <<x>> ELSE <<>>
           N == {n \in Nat : n \in D => Fine(n)}
<1>9. 0 \in N
  <2>1. upTo[0] = <<>> /\ Before(0) = {}
    BY <1>l, <1>8
  <2>2. <<>> \in V /\ Range(<<>>) = {}
    BY EmptySeq DEF Range
  <2>3. QED
    BY <2>1, <2>2
<1>10. ASSUME NEW n \in Nat, n \in N, n + 1 \in D PROVE Fine(n + 1)
  <2>0. n \in D /\ bs[n + 1] \in S
    BY <1>l, <1>10
  <2>1. Fine(n)
    BY <1>10, <2>0
  <2>2. upTo[n + 1] = IF bs[n + 1] \in held THEN Append(upTo[n], bs[n + 1]) ELSE upTo[n]
    <3>1. n + 1 # 0 /\ (n + 1) - 1 = n
      OBVIOUS
    <3>2. QED
      BY <1>8, <1>10, <3>1
  <2>3. Before(n + 1) = Before(n) \cup {bs[n + 1]}
    <3>1. 1 .. n + 1 = (1 .. n) \cup {n + 1}
      OBVIOUS
    <3>2. QED
      BY <3>1
  <2>i. IsInjective(bs) => bs[n + 1] \notin Before(n)
    <3>1. DOMAIN bs = 1 .. Len(bs)
      BY LenProperties
    <3>2. QED
      BY <1>l, <1>10, <2>0, <3>1 DEF IsInjective
  <2>4. CASE bs[n + 1] \in held
    <3>1. /\ Append(upTo[n], bs[n + 1]) \in V
          /\ Range(Append(upTo[n], bs[n + 1])) = Range(upTo[n]) \cup {bs[n + 1]}
      BY <2>0, <2>1, AppendElements
    <3>2. ASSUME NEW x, IsInjective(bs), held \subseteq {x}
          PROVE  upTo[n + 1] = IF x \in Before(n + 1) \cap held THEN <<x>> ELSE <<>>
      <4>1. x = bs[n + 1] /\ x \notin Before(n)
        BY <2>4, <2>i, <3>2
      <4>2. upTo[n] = <<>>
        BY <2>1, <3>2, <4>1
      <4>3. Append(<<>>, x) = <<x>>
        OBVIOUS
      <4>4. QED
        BY <2>2, <2>3, <2>4, <4>1, <4>2, <4>3
    <3>3. QED
      BY <2>1, <2>2, <2>3, <2>4, <3>1, <3>2
  <2>5. CASE bs[n + 1] \notin held
    BY <2>1, <2>2, <2>3, <2>5
  <2>6. QED
    BY <2>4, <2>5
<1> HIDE DEF Fine
<1>g. \A n \in Nat : n \in N => n + 1 \in N
  BY <1>10
<1> HIDE DEF N
<1>11. Nat \subseteq N
  BY <1>9, <1>g, InductionOverNat
<1>12. Fine(Len(bs))
  BY <1>l, <1>11 DEF N
<1>13. Range(bs) = Before(Len(bs))
  <2>1. DOMAIN bs = 1 .. Len(bs)
    BY LenProperties
  <2>2. QED
    BY <2>1 DEF Range
<1>14. QED
  BY <1>7, <1>12, <1>13 DEF Fine


LEMMA NothingWaits ==
  /\ NoneWait \in [Blocks \cup {Root} -> Seq(Blocks)]
  /\ \A a \in Blocks \cup {Root} : Range(NoneWait[a]) = {} /\ IsInjective(NoneWait[a])
BY EmptySeq DEF NoneWait, Range, IsInjective

LEMMA FollowResponseKeeps == BlockInv /\ FollowResponse => BlockInv'
<1> SUFFICES ASSUME BlockInv, FollowResponse PROVE BlockInv'
  OBVIOUS
<1>0. BlockTyped /\ Phased /\ Finalizing /\ Ordered /\ Queued /\ BestFollows
  BY DEF BlockInv
<1>1. BlockTyped'
  BY <1>0, BlocksNumbered, NothingWaits DEF BlockTyped, BlockTyped, Phased, FollowResponse, nodeVars, fixVars, consumerVars
<1>2. Phased'
  BY <1>0, BlocksNumbered, NothingWaits DEF Phased, BlockTyped, Phased, FollowResponse, nodeVars, fixVars, consumerVars
<1>3. Finalizing'
  BY <1>0, BlocksNumbered, NothingWaits DEF Finalizing, BlockTyped, Phased, OnChain, FollowResponse, nodeVars, fixVars, consumerVars
<1>4. Ordered'
  BY <1>0, BlocksNumbered, NothingWaits DEF Ordered, BlockTyped, Phased, HasTold, Gone, ParentsFirst, OnChain, FollowResponse, nodeVars, fixVars, consumerVars
<1>5. Queued'
  BY <1>0, BlocksNumbered, NothingWaits DEF Queued, BlockTyped, Phased, DeepAbove, FollowResponse, nodeVars, fixVars, consumerVars
<1>6. BestFollows'
  BY <1>0, BlocksNumbered, NothingWaits DEF BestFollows, BlockTyped, Phased, FollowResponse, nodeVars, fixVars, consumerVars
<1>7. QED
  BY <1>1, <1>2, <1>3, <1>4, <1>5, <1>6 DEF BlockInv

LEMMA InitializedKeeps == BlockInv /\ Initialized => BlockInv'
<1> SUFFICES ASSUME BlockInv, Initialized PROVE BlockInv'
  OBVIOUS
<1>0. BlockTyped /\ Phased /\ Finalizing /\ Ordered /\ Queued /\ BestFollows
  BY DEF BlockInv
<1>1. BlockTyped'
  BY <1>0, BlocksNumbered, NothingWaits DEF BlockTyped, BlockTyped, Phased, Initialized, Task, nodeVars, fixVars, consumerVars
<1>2. Phased'
  BY <1>0, BlocksNumbered, NothingWaits DEF Phased, BlockTyped, Phased, Initialized, Task, nodeVars, fixVars, consumerVars
<1>3. Finalizing'
  BY <1>0, BlocksNumbered, NothingWaits DEF Finalizing, BlockTyped, Phased, OnChain, Initialized, Task, nodeVars, fixVars, consumerVars
<1>4. Ordered'
  BY <1>0, BlocksNumbered, NothingWaits DEF Ordered, BlockTyped, Phased, HasTold, Gone, ParentsFirst, OnChain, Initialized, Task, nodeVars, fixVars, consumerVars
<1>5. Queued'
  BY <1>0, BlocksNumbered, NothingWaits DEF Queued, BlockTyped, Phased, DeepAbove, Initialized, Task, nodeVars, fixVars, consumerVars
<1>6. BestFollows'
  BY <1>0, BlocksNumbered, NothingWaits DEF BestFollows, BlockTyped, Phased, Initialized, Task, nodeVars, fixVars, consumerVars
<1>7. QED
  BY <1>1, <1>2, <1>3, <1>4, <1>5, <1>6 DEF BlockInv

LEMMA StopEventKeeps == BlockInv /\ StopEvent => BlockInv'
<1> SUFFICES ASSUME BlockInv, StopEvent PROVE BlockInv'
  OBVIOUS
<1>0. BlockTyped /\ Phased /\ Finalizing /\ Ordered /\ Queued /\ BestFollows
  BY DEF BlockInv
<1>1. BlockTyped'
  BY <1>0, BlocksNumbered, NothingWaits DEF BlockTyped, BlockTyped, Phased, StopEvent, Task, Cancelled, nodeVars, fixVars, consumerVars
<1>2. Phased'
  BY <1>0, BlocksNumbered, NothingWaits DEF Phased, BlockTyped, Phased, StopEvent, Task, Cancelled, nodeVars, fixVars, consumerVars
<1>3. Finalizing'
  BY <1>0, BlocksNumbered, NothingWaits DEF Finalizing, BlockTyped, Phased, OnChain, StopEvent, Task, Cancelled, nodeVars, fixVars, consumerVars
<1>4. Ordered'
  BY <1>0, BlocksNumbered, NothingWaits DEF Ordered, BlockTyped, Phased, HasTold, Gone, ParentsFirst, OnChain, StopEvent, Task, Cancelled, nodeVars, fixVars, consumerVars
<1>5. Queued'
  BY <1>0, BlocksNumbered, NothingWaits DEF Queued, BlockTyped, Phased, DeepAbove, StopEvent, Task, Cancelled, nodeVars, fixVars, consumerVars
<1>6. BestFollows'
  BY <1>0, BlocksNumbered, NothingWaits DEF BestFollows, BlockTyped, Phased, StopEvent, Task, Cancelled, nodeVars, fixVars, consumerVars
<1>7. QED
  BY <1>1, <1>2, <1>3, <1>4, <1>5, <1>6 DEF BlockInv

LEMMA ClearKeeps == BlockInv /\ phase \in {"asked", "following"} /\ Clear => BlockInv'
<1> SUFFICES ASSUME BlockInv, phase \in {"asked", "following"} /\ Clear PROVE BlockInv'
  OBVIOUS
<1>0. BlockTyped /\ Phased /\ Finalizing /\ Ordered /\ Queued /\ BestFollows
  BY DEF BlockInv
<1>1. BlockTyped'
  BY <1>0, BlocksNumbered, NothingWaits DEF BlockTyped, BlockTyped, Phased, Clear, Cancelled, nodeVars, fixVars, consumerVars
<1>2. Phased'
  BY <1>0, BlocksNumbered, NothingWaits DEF Phased, BlockTyped, Phased, Clear, Cancelled, nodeVars, fixVars, consumerVars
<1>3. Finalizing'
  BY <1>0, BlocksNumbered, NothingWaits DEF Finalizing, BlockTyped, Phased, OnChain, Clear, Cancelled, nodeVars, fixVars, consumerVars
<1>4. Ordered'
  BY <1>0, BlocksNumbered, NothingWaits DEF Ordered, BlockTyped, Phased, HasTold, Gone, ParentsFirst, OnChain, Clear, Cancelled, nodeVars, fixVars, consumerVars
<1>5. Queued'
  BY <1>0, BlocksNumbered, NothingWaits DEF Queued, BlockTyped, Phased, DeepAbove, Clear, Cancelled, nodeVars, fixVars, consumerVars
<1>6. BestFollows'
  BY <1>0, BlocksNumbered, NothingWaits DEF BestFollows, BlockTyped, Phased, Clear, Cancelled, nodeVars, fixVars, consumerVars
<1>7. QED
  BY <1>1, <1>2, <1>3, <1>4, <1>5, <1>6 DEF BlockInv

LEMMA MicrotaskKeeps == BlockInv /\ Microtask => BlockInv'
<1> SUFFICES ASSUME BlockInv, Microtask PROVE BlockInv'
  OBVIOUS
<1>0. BlockTyped /\ Phased /\ Finalizing /\ Ordered /\ Queued /\ BestFollows
  BY DEF BlockInv
<1>m. /\ micro # <<>> /\ micro' = Tail(micro) /\ best' = Head(micro)
      /\ timer' = Cancelled
      /\ UNCHANGED <<phase, nodeVars, pinned, waiting, known, held, announced, finalized,
                     mayUnpin, overtaken, deep>>
  BY DEF Microtask
<1>t. /\ Head(micro) \in Range(micro) /\ Head(micro) \in Blocks \cup {Root}
      /\ Tail(micro) \in Seq(Blocks \cup {Root})
      /\ Range(Tail(micro)) \subseteq Range(micro)
  <2>1. micro \in Seq(Blocks \cup {Root})
    BY <1>0 DEF BlockTyped
  <2>2. QED
    BY <1>m, <2>1, TailElements
<1>1. BlockTyped'
  BY <1>0, <1>m, <1>t DEF BlockTyped, Cancelled, nodeVars
<1>2. Phased'
  BY <1>0, <1>m DEF Phased, BlockTyped, Cancelled, nodeVars
<1>3. Finalizing'
  BY <1>0, <1>m DEF Finalizing, OnChain, nodeVars
<1>4. Ordered'
  BY <1>0, <1>m, <1>t DEF Ordered, ParentsFirst, HasTold, Gone, nodeVars
<1>5. Queued'
  BY <1>0, <1>m DEF Queued, DeepAbove, nodeVars
<1>6. BestFollows'
  <2>1. CASE phase = "following" /\ ~overtaken
    <3>1. micro = <<nodeBest>> /\ held \subseteq {nodeBest}
      BY <1>0, <1>m, <2>1 DEF BestFollows
    <3>2. best' = nodeBest /\ micro' = <<>> /\ timer' = "off"
      BY <1>0, <1>m, <2>1, <3>1 DEF Cancelled, Phased
    <3>3. QED
      BY <1>m, <3>1, <3>2 DEF BestFollows, nodeVars
  <2>2. CASE ~(phase = "following" /\ ~overtaken)
    BY <1>m, <2>2 DEF BestFollows
  <2>3. QED
    BY <2>1, <2>2
<1>7. QED
  BY <1>1, <1>2, <1>3, <1>4, <1>5, <1>6 DEF BlockInv

LEMMA MakeUpBestKeeps == BlockInv /\ MakeUpBest => BlockInv'
<1> SUFFICES ASSUME BlockInv, MakeUpBest PROVE BlockInv'
  OBVIOUS
<1>0. BlockTyped /\ Phased /\ Finalizing /\ Ordered /\ Queued /\ BestFollows
  BY DEF BlockInv
<1>1. BlockTyped'
  BY <1>0, BlocksNumbered, NothingWaits DEF BlockTyped, BlockTyped, Phased, MakeUpBest, nodeVars, fixVars, consumerVars
<1>2. Phased'
  BY <1>0, BlocksNumbered, NothingWaits DEF Phased, BlockTyped, Phased, MakeUpBest, nodeVars, fixVars, consumerVars
<1>3. Finalizing'
  BY <1>0, BlocksNumbered, NothingWaits DEF Finalizing, BlockTyped, Phased, OnChain, MakeUpBest, nodeVars, fixVars, consumerVars
<1>4. Ordered'
  BY <1>0, BlocksNumbered, NothingWaits DEF Ordered, BlockTyped, Phased, HasTold, Gone, ParentsFirst, OnChain, MakeUpBest, nodeVars, fixVars, consumerVars
<1>5. Queued'
  BY <1>0, BlocksNumbered, NothingWaits DEF Queued, BlockTyped, Phased, DeepAbove, MakeUpBest, nodeVars, fixVars, consumerVars
<1>6. BestFollows'
  BY <1>0, BlocksNumbered, NothingWaits DEF BestFollows, BlockTyped, Phased, MakeUpBest, nodeVars, fixVars, consumerVars
<1>7. QED
  BY <1>1, <1>2, <1>3, <1>4, <1>5, <1>6 DEF BlockInv

LEMMA FollowKeeps == BlockInv /\ Follow => BlockInv'
<1> SUFFICES ASSUME BlockInv, Follow PROVE BlockInv'
  OBVIOUS
<1>0. BlockTyped /\ Phased /\ Finalizing /\ Ordered /\ Queued /\ BestFollows
  BY DEF BlockInv
<1>1. BlockTyped'
  BY <1>0, BlocksNumbered, NothingWaits DEF BlockTyped, BlockTyped, Phased, Follow, nodeVars, fixVars, consumerVars
<1>2. Phased'
  BY <1>0, BlocksNumbered, NothingWaits DEF Phased, BlockTyped, Phased, Follow, nodeVars, fixVars, consumerVars
<1>3. Finalizing'
  BY <1>0, BlocksNumbered, NothingWaits DEF Finalizing, BlockTyped, Phased, OnChain, Follow, nodeVars, fixVars, consumerVars
<1>4. Ordered'
  BY <1>0, BlocksNumbered, NothingWaits DEF Ordered, BlockTyped, Phased, HasTold, Gone, ParentsFirst, OnChain, Follow, nodeVars, fixVars, consumerVars
<1>5. Queued'
  BY <1>0, BlocksNumbered, NothingWaits DEF Queued, BlockTyped, Phased, DeepAbove, Follow, nodeVars, fixVars, consumerVars
<1>6. BestFollows'
  BY <1>0, BlocksNumbered, NothingWaits DEF BestFollows, BlockTyped, Phased, Follow, nodeVars, fixVars, consumerVars
<1>7. QED
  BY <1>1, <1>2, <1>3, <1>4, <1>5, <1>6 DEF BlockInv

LEMMA UnfollowBlocksKeeps == BlockInv /\ Unfollow => BlockInv'
<1> SUFFICES ASSUME BlockInv, Unfollow PROVE BlockInv'
  OBVIOUS
<1>0. BlockTyped /\ Phased /\ Finalizing /\ Ordered /\ Queued /\ BestFollows
  BY DEF BlockInv
<1>1. BlockTyped'
  BY <1>0, BlocksNumbered, NothingWaits DEF BlockTyped, BlockTyped, Phased, Unfollow, Cancelled, nodeVars, fixVars, consumerVars
<1>2. Phased'
  BY <1>0, BlocksNumbered, NothingWaits DEF Phased, BlockTyped, Phased, Unfollow, Cancelled, nodeVars, fixVars, consumerVars
<1>3. Finalizing'
  BY <1>0, BlocksNumbered, NothingWaits DEF Finalizing, BlockTyped, Phased, OnChain, Unfollow, Cancelled, nodeVars, fixVars, consumerVars
<1>4. Ordered'
  BY <1>0, BlocksNumbered, NothingWaits DEF Ordered, BlockTyped, Phased, HasTold, Gone, ParentsFirst, OnChain, Unfollow, Cancelled, nodeVars, fixVars, consumerVars
<1>5. Queued'
  BY <1>0, BlocksNumbered, NothingWaits DEF Queued, BlockTyped, Phased, DeepAbove, Unfollow, Cancelled, nodeVars, fixVars, consumerVars
<1>6. BestFollows'
  BY <1>0, BlocksNumbered, NothingWaits DEF BestFollows, BlockTyped, Phased, Unfollow, Cancelled, nodeVars, fixVars, consumerVars
<1>7. QED
  BY <1>1, <1>2, <1>3, <1>4, <1>5, <1>6 DEF BlockInv

\* The node goes on only with blocks above the finalized one.
LEMMA AheadIsNotGone ==
  ASSUME BlockInv, NEW b \in Blocks \cup {Root}, b \notin nodePruned,
         OnChain(nodeFinalized, b)
  PROVE  b \notin Gone
<1>1. nodeFinalized \in Blocks \cup {Root}
  BY DEF BlockInv, BlockTyped
<1>2. b \notin Ancestors[nodeFinalized]
  <2>1. nodeFinalized = b \/ nodeFinalized \in Ancestors[b]
    BY DEF OnChain
  <2>2. b \in Nat /\ nodeFinalized \in Nat
    BY <1>1, BlocksNumbered DEF Root
  <2>3. QED
    BY <1>1, <2>1, <2>2, AncestorsBelow
<1>3. QED
  BY <1>2 DEF Gone

LEMMA ReportsBestKeeps == BlockInv /\ NodeReportsBest => BlockInv'
<1> SUFFICES ASSUME BlockInv, NodeReportsBest PROVE BlockInv'
  OBVIOUS
<1>0. BlockTyped /\ Phased /\ Finalizing /\ Ordered /\ Queued /\ BestFollows
  BY DEF BlockInv
<1>p. PICK b \in (Blocks \cup {Root}) \ nodePruned :
        OnChain(nodeFinalized, b) /\ nodeBest' = b /\ BestBlock(b)
  BY DEF NodeReportsBest
<1>m. /\ micro = <<>> /\ phase = "following" /\ started
      /\ bests < MaxBests /\ bests' = bests + 1
      /\ UNCHANGED <<phase, started, sent, nodeFinalized, nodePruned, pinned,
                     waiting, known, micro, announced, finalized, mayUnpin, deep>>
  BY DEF NodeReportsBest, Task
<1>g. b \notin Gone
  BY <1>p, AheadIsNotGone
<1>k. b \in HasTold => b \in known
  BY <1>0, <1>m, <1>g DEF Ordered
<1>a. CASE b \in known
  <2>0. /\ best' = b /\ timer' = Cancelled
        /\ overtaken' = (overtaken \/ held # {})
        /\ UNCHANGED held
    BY <1>p, <1>a DEF BestBlock
  <2>1. BlockTyped'
    BY <1>0, <1>p, <1>m, <2>0, BlockAssumption DEF BlockTyped, Cancelled
  <2>2. Phased'
    BY <1>0, <1>m, <2>0 DEF Phased, Cancelled
  <2>3. Finalizing'
    BY <1>0, <1>m DEF Finalizing, OnChain
  <2>4. Ordered'
    BY <1>0, <1>m, <1>a, <2>0 DEF Ordered, ParentsFirst, HasTold, Gone
  <2>5. Queued'
    BY <1>0, <1>m DEF Queued, DeepAbove
  <2>6. BestFollows'
    BY <1>0, <1>p, <1>m, <2>0 DEF BestFollows, Cancelled, Phased
  <2>7. QED
    BY <2>1, <2>2, <2>3, <2>4, <2>5, <2>6 DEF BlockInv
<1>b. CASE b \notin known
  <2>0. /\ held' = held \cup {b}
        /\ overtaken' = (overtaken \/ held \ {b} # {})
        /\ UNCHANGED <<best, timer>>
    BY <1>p, <1>b DEF BestBlock
  <2>1. BlockTyped'
    BY <1>0, <1>p, <1>m, <2>0, BlockAssumption DEF BlockTyped
  <2>2. Phased'
    BY <1>0, <1>m, <2>0 DEF Phased
  <2>3. Finalizing'
    BY <1>0, <1>m DEF Finalizing, OnChain
  <2>4. Ordered'
    BY <1>0, <1>m, <1>b, <1>k, <2>0 DEF Ordered, ParentsFirst, HasTold, Gone
  <2>5. Queued'
    BY <1>0, <1>m DEF Queued, DeepAbove
  <2>6. BestFollows'
    BY <1>0, <1>p, <1>m, <2>0 DEF BestFollows
  <2>7. QED
    BY <2>1, <2>2, <2>3, <2>4, <2>5, <2>6 DEF BlockInv
<1>c. QED
  BY <1>a, <1>b

LEMMA FinalizesKeeps == BlockInv /\ NodeFinalizes => BlockInv'
<1> SUFFICES ASSUME BlockInv, NodeFinalizes PROVE BlockInv'
  OBVIOUS
<1>0. BlockTyped /\ Phased /\ Finalizing /\ Ordered /\ Queued /\ BestFollows
  BY DEF BlockInv
<1>p. PICK b \in sent :
        /\ ParentOf[b] = nodeFinalized
        /\ nodeFinalized' = b
        /\ finalized' = b
        /\ nodePruned' = {c \in Blocks : ~OnChain(b, c) /\ ~OnChain(c, b)}
        /\ mayUnpin' = mayUnpin \cup ((nodePruned' \cup Ancestors[b]) \cap known)
  BY DEF NodeFinalizes
<1>m. /\ micro = <<>> /\ phase = "following" /\ started
      /\ UNCHANGED <<phase, started, sent, nodeBest, bests, fixVars,
                     announced, best, overtaken, deep>>
  BY DEF NodeFinalizes, Task
<1>b. b \in Blocks /\ nodeFinalized \in Blocks \cup {Root}
  BY <1>0 DEF BlockTyped
<1>a. Ancestors[b] = {nodeFinalized} \cup Ancestors[nodeFinalized]
  BY <1>b, <1>p, AncestorsStep
<1>s. Ancestors[b] \subseteq Blocks \cup {Root}
  BY <1>b, AncestorsStep
<1>g. Gone \subseteq Gone'
  <2>1. ASSUME NEW c \in nodePruned PROVE c \in nodePruned'
    <3>1. c \in Blocks /\ ~OnChain(nodeFinalized, c) /\ ~OnChain(c, nodeFinalized)
      BY <1>0, <2>1 DEF Finalizing
    <3>2. ~OnChain(b, c)
      BY <1>a, <3>1, AncestorsBelow DEF OnChain
    <3>3. ~OnChain(c, b)
      BY <1>a, <3>1 DEF OnChain
    <3>4. QED
      BY <1>p, <3>1, <3>2, <3>3
  <2>2. Gone = nodePruned \cup Ancestors[nodeFinalized]
    BY DEF Gone
  <2>3. Gone' = nodePruned' \cup Ancestors[b]
    BY <1>p DEF Gone
  <2>4. QED
    BY <1>a, <2>1, <2>2, <2>3
<1>1. BlockTyped'
  BY <1>0, <1>p, <1>m, <1>b, <1>s DEF BlockTyped, fixVars
<1>2. Phased'
  BY <1>0, <1>m DEF Phased, fixVars
<1>3. Finalizing'
  <2>1. nodePruned' = {c \in Blocks : ~OnChain(nodeFinalized', c) /\ ~OnChain(c, nodeFinalized')}
    BY <1>p DEF OnChain
  <2>2. {b} \cup Ancestors[b] \subseteq sent \cup {Root}
    BY <1>0, <1>a DEF Finalizing
  <2>3. QED
    BY <1>p, <1>m, <2>1, <2>2 DEF Finalizing, OnChain
<1>4. Ordered'
  <2>1. Gone' = nodePruned' \cup Ancestors[b]
    BY <1>p DEF Gone
  <2>2. HasTold' = HasTold
    BY <1>m DEF HasTold
  <2>3. mayUnpin' \subseteq HasTold \cap Gone'
    BY <1>0, <1>p, <1>g, <2>1 DEF Ordered
  <2>4. ParentsFirst'
    BY <1>0, <1>m DEF Ordered, ParentsFirst
  <2>5. QED
    BY <1>0, <1>m, <1>g, <2>2, <2>3, <2>4 DEF Ordered, fixVars
<1>5. Queued'
  BY <1>0, <1>m DEF Queued, DeepAbove, fixVars
<1>6. BestFollows'
  BY <1>0, <1>m DEF BestFollows, fixVars
<1>7. QED
  BY <1>1, <1>2, <1>3, <1>4, <1>5, <1>6 DEF BlockInv

LEMMA UnpinKeeps == BlockInv /\ Unpin => BlockInv'
<1> SUFFICES ASSUME BlockInv, Unpin PROVE BlockInv'
  OBVIOUS
<1>0. BlockTyped /\ Phased /\ Finalizing /\ Ordered /\ Queued /\ BestFollows
  BY DEF BlockInv
<1>p. PICK b \in mayUnpin :
        /\ mayUnpin' = mayUnpin \ {b}
        /\ pinned' = pinned \ {b}
        /\ known' = known \ {b}
        /\ held' = held \ {b}
        /\ waiting' = [waiting EXCEPT ![b] = <<>>]
  BY DEF Unpin
<1>m. /\ phase = "following"
      /\ UNCHANGED <<phase, nodeVars, micro, timer, announced, best, finalized,
                     overtaken, deep>>
  BY DEF Unpin
<1>b. b \in Blocks \cup {Root} /\ b \in HasTold /\ b \in Gone
  BY <1>0 DEF BlockTyped, Ordered
<1>h. held' = held
  BY <1>0, <1>p, <1>b DEF Ordered
<1>1. BlockTyped'
  BY <1>0, <1>p, <1>m, <1>b, EmptySeq DEF BlockTyped, nodeVars
<1>2. Phased'
  BY <1>0, <1>p, <1>m, <1>h DEF Phased, nodeVars
<1>3. Finalizing'
  BY <1>0, <1>m DEF Finalizing, OnChain, nodeVars
<1>4. Ordered'
  BY <1>0, <1>p, <1>m, <1>b, <1>h DEF Ordered, ParentsFirst, HasTold, Gone, nodeVars
<1>5. Queued'
  <2>0. /\ \A a \in Blocks \cup {Root} : waiting'[a] = IF a = b THEN <<>> ELSE waiting[a]
        /\ Range(<<>>) = {} /\ IsInjective(<<>>)
        /\ UNCHANGED <<phase, sent, announced, deep>>
    BY <1>0, <1>p, <1>m DEF BlockTyped, Range, IsInjective, nodeVars
  <2>1. ASSUME NEW a \in Blocks \cup {Root}
        PROVE  /\ IsInjective(waiting'[a])
               /\ \A w \in Range(waiting'[a]) : w \in sent \ Range(announced) /\ ParentOf[w] = a
    BY <1>0, <2>0 DEF Queued
  <2>2. ASSUME NEW w \in sent
        PROVE  \/ w \in Range(announced)
               \/ DeepAbove(w)
               \/ w \in Range(waiting'[ParentOf[w]]) /\ ParentOf[w] \in Blocks \ sent
    <3>1. CASE ParentOf[w] = b
      <4>1. b \notin Blocks \ sent
        BY <1>0, <1>b, BlocksNumbered DEF Ordered, HasTold
      <4>2. QED
        BY <1>0, <1>m, <3>1, <4>1 DEF Queued
    <3>2. CASE ParentOf[w] # b
      <4>1. ParentOf[w] \in Blocks \cup {Root}
        BY <1>0, BlocksNumbered DEF BlockTyped
      <4>2. QED
        BY <1>0, <1>m, <2>0, <3>2, <4>1 DEF Queued
    <3>3. QED
      BY <3>1, <3>2
  <2>3. QED
    BY <2>0, <2>1, <2>2 DEF Queued, DeepAbove
<1>6. BestFollows'
  BY <1>0, <1>m, <1>h DEF BestFollows, nodeVars
<1>7. QED
  BY <1>1, <1>2, <1>3, <1>4, <1>5, <1>6 DEF BlockInv

\* A block that has to wait.
LEMMA AnnouncesWaiting ==
  ASSUME BlockInv, NodeAnnounces, NEW b \in Blocks \ (sent \cup nodePruned),
         sent' = sent \cup {b}, NewBlock(b), ParentOf[b] \notin pinned
  PROVE  BlockInv'
<1> DEFINE p == ParentOf[b]
<1>0. BlockTyped /\ Phased /\ Finalizing /\ Ordered /\ Queued /\ BestFollows
  BY DEF BlockInv
<1>m. /\ micro = <<>> /\ phase = "following" /\ started
      /\ UNCHANGED <<phase, started, nodeBest, nodeFinalized, nodePruned, bests,
                     best, finalized, mayUnpin, overtaken>>
  BY DEF NodeAnnounces, Task
<1>w. /\ waiting' = [waiting EXCEPT ![p] = Append(@, b)]
      /\ deep' = IF p \in sent THEN deep \cup {b} ELSE deep \cup Range(waiting[b])
      /\ UNCHANGED <<pinned, known, held, micro, timer, announced>>
  BY DEF NewBlock
<1>s. /\ sent' = sent \cup {b} /\ b \in Blocks /\ b \notin sent /\ p \in Blocks \cup {Root}
      /\ p # b /\ p \notin pinned /\ Root \notin Blocks
  <2>1. p < b /\ b \in Nat
    BY BlocksNumbered
  <2>2. QED
    BY <2>1, BlocksNumbered
<1>q. \A a \in Blocks \cup {Root} :
        /\ waiting[a] \in Seq(Blocks)
        /\ Range(waiting[a]) \subseteq sent
  BY <1>0 DEF BlockTyped, Queued
<1>r. /\ Append(waiting[p], b) \in Seq(Blocks)
      /\ Range(Append(waiting[p], b)) = Range(waiting[p]) \cup {b}
      /\ IsInjective(waiting[p]) => IsInjective(Append(waiting[p], b))
  BY <1>q, <1>s, AppendElements
<1>e. /\ waiting'[p] = Append(waiting[p], b)
      /\ \A a \in Blocks \cup {Root} : a # p => waiting'[a] = waiting[a]
  BY <1>0, <1>s, <1>w DEF BlockTyped
<1>d. deep \subseteq deep' /\ deep' \subseteq Blocks
  BY <1>0, <1>q, <1>s, <1>w DEF BlockTyped
<1>1. BlockTyped'
  <2>1. waiting' \in [Blocks \cup {Root} -> Seq(Blocks)]
    BY <1>0, <1>r, <1>s, <1>w DEF BlockTyped
  <2>2. QED
    BY <1>0, <1>d, <1>m, <1>s, <1>w, <2>1 DEF BlockTyped
<1>2. Phased'
  BY <1>0, <1>m, <1>w DEF Phased
<1>3. Finalizing'
  BY <1>0, <1>m, <1>s DEF Finalizing, OnChain
<1>4. Ordered'
  BY <1>0, <1>m, <1>s, <1>w DEF Ordered, ParentsFirst, HasTold, Gone
<1>n. p # Root
  <2> SUFFICES ASSUME p = Root PROVE FALSE
    OBVIOUS
  <2>1. Root \in Gone
    BY <1>0, <1>m, <1>s DEF Ordered, HasTold
  <2>2. Root \in Ancestors[nodeFinalized] /\ nodeFinalized # Root
    BY <1>0, <1>s, <2>1, AncestorsStep DEF Gone, BlockTyped
  <2>3. Ancestors[b] = {Root}
    BY <1>s, AncestorsStep
  <2>4. OnChain(nodeFinalized, b) \/ OnChain(b, nodeFinalized)
    BY <1>0 DEF Finalizing
  <2>5. QED
    BY <1>0, <1>s, <2>2, <2>3, <2>4 DEF OnChain, Finalizing
<1>5. Queued'
  <2>1. ASSUME NEW a \in Blocks \cup {Root}
        PROVE  /\ IsInjective(waiting'[a])
               /\ \A w \in Range(waiting'[a]) : w \in sent' \ Range(announced') /\ ParentOf[w] = a
    <3>1. CASE a = p
      <4>1. b \notin Range(announced)
        BY <1>0, <1>s DEF Ordered
      <4>2. QED
        BY <1>0, <1>e, <1>r, <1>s, <1>w, <3>1, <4>1 DEF Queued
    <3>2. CASE a # p
      BY <1>0, <1>e, <1>s, <1>w, <2>1, <3>2 DEF Queued
    <3>3. QED
      BY <3>1, <3>2
  <2>2. ASSUME NEW v \in sent'
        PROVE  \/ v \in Range(announced')
               \/ DeepAbove(v)'
               \/ v \in Range(waiting'[ParentOf[v]]) /\ ParentOf[v] \in Blocks \ sent'
    <3>1. CASE v = b
      <4>1. CASE p \in sent
        BY <1>w, <3>1, <4>1 DEF DeepAbove
      <4>2. CASE p \notin sent
        BY <1>e, <1>n, <1>r, <1>s, <3>1, <4>2
      <4>3. QED
        BY <4>1, <4>2
    <3>2. CASE v # b
      <4>0. v \in sent /\ v \in Blocks /\ ParentOf[v] \in Blocks \cup {Root}
        BY <1>0, <1>s, <2>2, <3>2, BlocksNumbered DEF BlockTyped
      <4>1. CASE v \in Range(announced)
        BY <1>w, <4>1
      <4>2. CASE DeepAbove(v)
        BY <1>d, <4>2 DEF DeepAbove
      <4>3. CASE v \in Range(waiting[ParentOf[v]]) /\ ParentOf[v] \in Blocks \ sent /\ ParentOf[v] # b
        BY <1>e, <1>r, <1>s, <4>0, <4>3
      <4>4. CASE v \in Range(waiting[ParentOf[v]]) /\ ParentOf[v] = b
        <5>1. CASE p \in sent
          <6>1. b \in Ancestors[v]
            BY <4>0, <4>4, AncestorsStep
          <6>2. QED
            BY <1>w, <5>1, <6>1 DEF DeepAbove
        <5>2. CASE p \notin sent
          BY <1>w, <4>4, <5>2 DEF DeepAbove
        <5>3. QED
          BY <5>1, <5>2
      <4>5. QED
        BY <1>0, <1>m, <4>0, <4>1, <4>2, <4>3, <4>4 DEF Queued
    <3>3. QED
      BY <3>1, <3>2
  <2>3. QED
    BY <2>1, <2>2 DEF Queued, DeepAbove
<1>6. BestFollows'
  BY <1>0, <1>m, <1>w DEF BestFollows
<1>7. QED
  BY <1>1, <1>2, <1>3, <1>4, <1>5, <1>6 DEF BlockInv

\* A block whose parent is pinned comes through, and with it those that wait for it.
LEMMA AnnouncesAtOnce ==
  ASSUME BlockInv, NodeAnnounces, NEW b \in Blocks \ (sent \cup nodePruned),
         sent' = sent \cup {b}, NewBlock(b), ParentOf[b] \in pinned
  PROVE  BlockInv'
<1> DEFINE new == <<b>> \o waiting[b]
<1>0. BlockTyped /\ Phased /\ Finalizing /\ Ordered /\ Queued /\ BestFollows
  BY DEF BlockInv
<1>m. /\ micro = <<>> /\ phase = "following" /\ started
      /\ UNCHANGED <<phase, started, nodeBest, nodeFinalized, nodePruned, bests,
                     best, finalized, mayUnpin, overtaken>>
  BY DEF NodeAnnounces, Task
<1>w. /\ waiting' = [waiting EXCEPT ![b] = <<>>]
      /\ pinned' = pinned \cup {b} \cup Range(waiting[b])
      /\ Announce(new)
      /\ deep' = deep
  BY DEF NewBlock
<1>s. /\ sent' = sent \cup {b} /\ b \in Blocks /\ b \notin sent
      /\ ParentOf[b] \in pinned /\ Root \notin Blocks
  BY BlocksNumbered
<1>q. /\ waiting[b] \in Seq(Blocks) /\ IsInjective(waiting[b])
      /\ Range(waiting[b]) \subseteq sent \ Range(announced)
      /\ \A w \in Range(waiting[b]) : ParentOf[w] = b
  BY <1>0, <1>s DEF BlockTyped, Queued
<1>v. /\ new \in Seq(Blocks)
      /\ Range(new) = {b} \cup Range(waiting[b])
      /\ IsInjective(new)
  BY <1>q, <1>s, ConsElements
<1>f. /\ Range(new) \cap Range(announced) = {} /\ Range(new) \subseteq sent'
      /\ Range(new) \subseteq Blocks
  <2>1. Range(announced) \subseteq sent /\ sent \subseteq Blocks
    BY <1>0 DEF Ordered, BlockTyped
  <2>2. QED
    BY <1>q, <1>s, <1>v, <2>1
<1>b. new \in Seq(Blocks \cup {Root}) /\ announced \in Seq(Blocks \cup {Root})
  BY <1>0, <1>v, SeqMonotonic DEF BlockTyped
<1>h. /\ HeldAmong(new) \in Seq(Blocks \cup {Root})
      /\ Range(HeldAmong(new)) = Range(new) \cap held
      /\ \A x : held \subseteq {x} =>
           HeldAmong(new) = IF x \in Range(new) \cap held THEN <<x>> ELSE <<>>
  BY <1>b, <1>v, HeldAmongPicks
<1> HIDE DEF new
<1>x. /\ announced' = announced \o new
      /\ known' = known \cup Range(new)
      /\ held' = held \ Range(new)
      /\ micro' = HeldAmong(new)
      /\ timer' = "off"
  <2>1. <<>> \o HeldAmong(new) = HeldAmong(new)
    BY <1>h
  <2>2. QED
    BY <1>0, <1>m, <1>w, <2>1 DEF Announce, Cancelled, Phased
<1>c. /\ announced' \in Seq(Blocks \cup {Root})
      /\ Range(announced') = Range(announced) \cup Range(new)
  BY <1>b, <1>x, ConcatElements
<1>o. HasTold' = HasTold \cup Range(new)
  BY <1>c DEF HasTold
<1>e. /\ waiting'[b] = <<>> /\ Range(<<>>) = {} /\ IsInjective(<<>>)
      /\ \A a \in Blocks \cup {Root} : a # b => waiting'[a] = waiting[a]
  BY <1>0, <1>s, <1>w DEF BlockTyped, Range, IsInjective
<1>1. BlockTyped'
  <2>1. waiting' \in [Blocks \cup {Root} -> Seq(Blocks)]
    BY <1>0, <1>s, <1>w, EmptySeq DEF BlockTyped
  <2>2. QED
    BY <1>0, <1>c, <1>f, <1>h, <1>m, <1>s, <1>v, <1>w, <1>x, <2>1 DEF BlockTyped
<1>2. Phased'
  BY <1>0, <1>m, <1>x DEF Phased
<1>3. Finalizing'
  BY <1>0, <1>m, <1>s DEF Finalizing, OnChain
<1>4. Ordered'
  <2>1. ParentsFirst'
    <3>0. ParentsFirst /\ pinned \subseteq HasTold
      BY <1>0 DEF Ordered
    <3>1. /\ Len(announced) \in Nat /\ DOMAIN announced = 1 .. Len(announced)
          /\ Range(announced) = {announced[i] : i \in 1 .. Len(announced)}
      BY <1>b, LenProperties DEF Range
    <3>2. /\ Len(waiting[b]) \in Nat /\ DOMAIN waiting[b] = 1 .. Len(waiting[b])
          /\ Range(waiting[b]) = {waiting[b][i] : i \in 1 .. Len(waiting[b])}
      BY <1>q, LenProperties DEF Range
    <3>3. /\ Len(new) = Len(waiting[b]) + 1
          /\ DOMAIN new = 1 .. Len(waiting[b]) + 1
          /\ \A i \in 1 .. Len(waiting[b]) + 1 : new[i] = IF i <= 1 THEN b ELSE waiting[b][i - 1]
      <4>1. /\ <<b>> \in Seq(Blocks) /\ Len(<<b>>) = 1 /\ <<b>>[1] = b
        BY <1>s
      <4> DEFINE one == <<b>>
      <4>2. \A i \in 1 .. 1 : one[i] = b
        BY <4>1
      <4> HIDE DEF one
      <4>3. /\ Len(one \o waiting[b]) = 1 + Len(waiting[b])
            /\ \A i \in 1 .. 1 + Len(waiting[b]) :
                 (one \o waiting[b])[i] = IF i <= 1 THEN one[i] ELSE waiting[b][i - 1]
        BY <1>q, <4>1, ConcatProperties DEF one
      <4>4. DOMAIN (one \o waiting[b]) = 1 .. Len(one \o waiting[b])
        BY <1>v, LenProperties DEF new, one
      <4>5. QED
        BY <3>2, <4>2, <4>3, <4>4 DEF new, one
    <3>4. /\ Len(announced') = Len(announced) + Len(new)
          /\ DOMAIN announced' = 1 .. Len(announced) + Len(new)
          /\ \A i \in 1 .. Len(announced) + Len(new) :
               announced'[i] = IF i <= Len(announced) THEN announced[i]
                               ELSE new[i - Len(announced)]
      <4>1. /\ Len(announced \o new) = Len(announced) + Len(new)
            /\ \A i \in 1 .. Len(announced) + Len(new) :
                 (announced \o new)[i] = IF i <= Len(announced) THEN announced[i]
                                         ELSE new[i - Len(announced)]
        BY <1>b, ConcatProperties
      <4>2. DOMAIN announced' = 1 .. Len(announced')
        BY <1>c, LenProperties
      <4>3. QED
        BY <1>x, <4>1, <4>2
    <3>5. IsInjective(announced')
      <4>1. IsInjective(announced)
        BY <3>0, <3>1 DEF ParentsFirst, IsInjective
      <4>2. QED
        <5>1. /\ announced \in Seq(Blocks \cup {Root}) /\ new \in Seq(Blocks \cup {Root})
              /\ IsInjective(new) /\ Range(announced) \cap Range(new) = {}
          BY <1>b, <1>f, <1>v
        <5>2. IsInjective(announced \o new)
          BY <4>1, <5>1, ConcatElements
        <5>3. QED
          BY <1>x, <5>2
    <3>6. ASSUME NEW i \in DOMAIN announced'
          PROVE  ParentOf[announced'[i]] = Root
                 \/ \E j \in 1 .. i - 1 : announced'[j] = ParentOf[announced'[i]]
      <4>0. i \in Nat /\ i >= 1 /\ i <= Len(announced) + Len(waiting[b]) + 1
        BY <3>1, <3>2, <3>3, <3>4, <3>6
      <4>1. CASE i <= Len(announced)
        <5>1. i \in DOMAIN announced /\ announced'[i] = announced[i]
          BY <3>1, <3>3, <3>2, <3>4, <4>0, <4>1
        <5>2. \A j \in 1 .. i - 1 : announced'[j] = announced[j]
          BY <3>1, <3>2, <3>3, <3>4, <4>0, <4>1
        <5>3. QED
          BY <3>0, <5>1, <5>2 DEF ParentsFirst
      <4>2. CASE i = Len(announced) + 1
        <5>1. announced'[i] = b
          BY <3>1, <3>2, <3>3, <3>4, <4>0, <4>2
        <5>2. CASE ParentOf[b] = Root
          BY <5>1, <5>2
        <5>3. CASE ParentOf[b] # Root
          <6>1. PICK j \in 1 .. Len(announced) : announced[j] = ParentOf[b]
            BY <1>s, <3>0, <3>1, <5>3 DEF HasTold
          <6>2. j \in 1 .. i - 1 /\ announced'[j] = announced[j]
            BY <3>1, <3>2, <3>3, <3>4, <4>2
          <6>3. QED
            BY <5>1, <6>1, <6>2
        <5>4. QED
          BY <5>2, <5>3
      <4>3. CASE i > Len(announced) + 1
        <5>1. /\ announced'[i] = waiting[b][i - Len(announced) - 1]
              /\ i - Len(announced) - 1 \in 1 .. Len(waiting[b])
          BY <3>1, <3>2, <3>3, <3>4, <4>0, <4>3
        <5>2. ParentOf[announced'[i]] = b
          BY <1>q, <3>2, <5>1
        <5>3. Len(announced) + 1 \in 1 .. i - 1 /\ announced'[Len(announced) + 1] = b
          BY <3>1, <3>2, <3>3, <3>4, <4>0, <4>3
        <5>4. QED
          BY <5>2, <5>3
      <4>4. QED
        BY <3>1, <4>0, <4>1, <4>2, <4>3
    <3>7. ASSUME NEW i \in DOMAIN announced', NEW j \in 1 .. i - 1
          PROVE  announced'[j] # announced'[i]
      <4>1. i \in DOMAIN announced' /\ j \in DOMAIN announced' /\ i # j
        BY <3>1, <3>2, <3>3, <3>4, <3>7
      <4>2. QED
        BY <3>5, <4>1 DEF IsInjective
    <3>8. QED
      BY <3>6, <3>7 DEF ParentsFirst
  <2>2. Range(announced') \subseteq sent'
    BY <1>0, <1>c, <1>f, <1>s DEF Ordered
  <2>3. pinned' \cup known' \cup mayUnpin' \cup Range(micro') \subseteq HasTold'
    BY <1>0, <1>h, <1>m, <1>o, <1>v, <1>w, <1>x DEF Ordered
  <2>4. best' \in HasTold' \cup {NoBlock}
    BY <1>0, <1>m, <1>o DEF Ordered
  <2>5. held' \cap HasTold' = {}
    BY <1>0, <1>o, <1>x DEF Ordered
  <2>6. mayUnpin' \subseteq Gone' /\ Gone' = Gone
    BY <1>0, <1>m DEF Ordered, Gone
  <2>7. HasTold' \subseteq (pinned' \cap known') \cup Gone'
    BY <1>0, <1>m, <1>o, <1>v, <1>w, <1>x, <2>6 DEF Ordered
  <2>8. QED
    BY <2>1, <2>2, <2>3, <2>4, <2>5, <2>6, <2>7 DEF Ordered
<1>5. Queued'
  <2>1. ASSUME NEW a \in Blocks \cup {Root}
        PROVE  /\ IsInjective(waiting'[a])
               /\ \A w \in Range(waiting'[a]) : w \in sent' \ Range(announced') /\ ParentOf[w] = a
    <3>1. CASE a = b
      BY <1>e, <3>1
    <3>2. CASE a # b
      <4>1. IsInjective(waiting[a]) /\ waiting'[a] = waiting[a]
        BY <1>0, <1>e, <3>2 DEF Queued
      <4>2. ASSUME NEW w \in Range(waiting[a])
            PROVE  w \in sent' \ Range(announced') /\ ParentOf[w] = a
        <5>1. w \in sent /\ w \notin Range(announced) /\ ParentOf[w] = a
          BY <1>0, <4>2 DEF Queued
        <5>2. w \notin Range(new)
          BY <1>q, <1>s, <1>v, <3>2, <5>1
        <5>3. QED
          BY <1>c, <1>s, <5>1, <5>2
      <4>3. QED
        BY <4>1, <4>2
    <3>3. QED
      BY <3>1, <3>2
  <2>2. ASSUME NEW v \in sent'
        PROVE  \/ v \in Range(announced')
               \/ DeepAbove(v)'
               \/ v \in Range(waiting'[ParentOf[v]]) /\ ParentOf[v] \in Blocks \ sent'
    <3>1. CASE v \in Range(new) \cup Range(announced)
      BY <1>c, <3>1
    <3>2. CASE v \notin Range(new) \cup Range(announced)
      <4>0. v \in sent /\ v \in Blocks /\ ParentOf[v] \in Blocks \cup {Root}
        BY <1>0, <1>s, <1>v, <2>2, <3>2, BlocksNumbered DEF BlockTyped
      <4>1. CASE DeepAbove(v)
        BY <1>w, <4>1 DEF DeepAbove
      <4>2. CASE v \in Range(waiting[ParentOf[v]]) /\ ParentOf[v] \in Blocks \ sent
        <5>1. ParentOf[v] # b
          BY <1>v, <3>2, <4>2
        <5>2. QED
          BY <1>e, <1>s, <4>0, <4>2, <5>1
      <4>3. QED
        BY <1>0, <1>m, <3>2, <4>0, <4>1, <4>2 DEF Queued
    <3>3. QED
      BY <3>1, <3>2
  <2>3. QED
    BY <2>1, <2>2 DEF Queued, DeepAbove
<1>6. BestFollows'
  <2> SUFFICES ASSUME ~overtaken
               PROVE  /\ held' \subseteq {nodeBest'}
                      /\ IF micro' = <<>>
                           THEN /\ \/ best' = nodeBest'
                                   \/ nodeBest' \in held'
                                   \/ nodeBest' = NoBlock /\ best' = Root
                                /\ timer' = "armed" => nodeBest' = NoBlock \/ nodeBest' \in held'
                           ELSE micro' = <<nodeBest'>>
    BY <1>m DEF BestFollows
  <2>1. /\ held \subseteq {nodeBest}
        /\ \/ best = nodeBest
           \/ nodeBest \in held
           \/ nodeBest = NoBlock /\ best = Root
    BY <1>0, <1>m DEF BestFollows
  <2>2. micro' = IF nodeBest \in Range(new) \cap held THEN <<nodeBest>> ELSE <<>>
    BY <1>h, <1>x, <2>1
  <2>3. CASE nodeBest \in Range(new) \cap held
    <3>1. micro' = <<nodeBest>> /\ micro' # <<>>
      BY <2>2, <2>3
    <3>2. QED
      BY <1>m, <1>x, <2>1, <3>1
  <2>4. CASE nodeBest \notin Range(new) \cap held
    <3>1. micro' = <<>> /\ held' = held
      BY <1>x, <2>1, <2>2, <2>4
    <3>2. QED
      BY <1>m, <1>x, <2>1, <3>1
  <2>5. QED
    BY <2>3, <2>4
<1>7. QED
  BY <1>1, <1>2, <1>3, <1>4, <1>5, <1>6 DEF BlockInv

LEMMA AnnouncesKeeps == BlockInv /\ NodeAnnounces => BlockInv'
<1> SUFFICES ASSUME BlockInv, NodeAnnounces PROVE BlockInv'
  OBVIOUS
<1>1. PICK b \in Blocks \ (sent \cup nodePruned) : sent' = sent \cup {b} /\ NewBlock(b)
  BY DEF NodeAnnounces
<1>2. CASE ParentOf[b] \in pinned
  BY <1>1, <1>2, AnnouncesAtOnce
<1>3. CASE ParentOf[b] \notin pinned
  BY <1>1, <1>3, AnnouncesWaiting
<1>4. QED
  BY <1>2, <1>3

\* Every block has the root below it.
LEMMA RootBelow == \A b \in Blocks : Root \in Ancestors[b]
<1> DEFINE N == {n \in Nat : \A b \in Blocks : b <= n => Root \in Ancestors[b]}
<1>0. \A b \in Blocks : b \in Nat /\ b >= 1
  BY BlocksNumbered
<1>1. 0 \in N
  BY <1>0
<1>2. ASSUME NEW n \in Nat, n \in N PROVE n + 1 \in N
  <2>1. ASSUME NEW b \in Blocks, b <= n + 1 PROVE Root \in Ancestors[b]
    <3>1. Ancestors[b] = {ParentOf[b]} \cup Ancestors[ParentOf[b]]
      BY AncestorsStep
    <3>2. CASE ParentOf[b] = Root
      BY <3>1, <3>2
    <3>3. CASE ParentOf[b] # Root
      <4>1. ParentOf[b] \in Blocks /\ ParentOf[b] < b
        BY <3>3, BlocksNumbered
      <4>2. ParentOf[b] <= n
        BY <1>0, <2>1, <4>1
      <4>3. QED
        BY <1>2, <3>1, <4>1, <4>2
    <3>4. QED
      BY <3>2, <3>3
  <2>2. QED
    BY <2>1
<1> HIDE DEF N
<1>3. Nat \subseteq N
  BY <1>1, <1>2, InductionOverNat
<1>4. QED
  BY <1>0, <1>3 DEF N

LEMMA BlockInvInit == BlockInit => BlockInv
<1> SUFFICES ASSUME BlockInit PROVE BlockInv
  OBVIOUS
<1>0. /\ Range(<<>>) = {} /\ \A S : <<>> \in Seq(S)
      /\ DOMAIN <<>> = {}
  BY EmptySeq DEF Range
<1>1. BlockTyped
  <2>1. <<>> \in Seq(Blocks \cup {Root}) /\ NoneWait \in [Blocks \cup {Root} -> Seq(Blocks)]
    BY <1>0, NothingWaits
  <2>2. 0 \in 0 .. MaxBests
    BY BlockAssumption
  <2>3. QED
    BY <2>1, <2>2 DEF BlockInit, BlockTyped
<1>2. Phased
  BY DEF BlockInit, Phased
<1>3. Finalizing
  <2>1. Ancestors[Root] = {}
    BY AncestorsStep
  <2>2. ASSUME NEW c \in Blocks PROVE Root \in Ancestors[c]
    BY <2>2, RootBelow
  <2>3. nodePruned = {} /\ nodeFinalized = Root
    BY DEF BlockInit
  <2>4. QED
    BY <2>1, <2>2, <2>3 DEF Finalizing, OnChain
<1>4. Ordered
  BY <1>0, AncestorsStep DEF BlockInit, Ordered, ParentsFirst, HasTold, Gone
<1>5. Queued
  BY <1>0, NothingWaits DEF BlockInit, Queued
<1>6. BestFollows
  BY DEF BlockInit, BestFollows
<1>7. QED
  BY <1>1, <1>2, <1>3, <1>4, <1>5, <1>6 DEF BlockInv

LEMMA BlockInvNext == BlockInv /\ [BlockNext]_blockVars => BlockInv'
<1> SUFFICES ASSUME BlockInv, [BlockNext]_blockVars PROVE BlockInv'
  OBVIOUS
<1>1. CASE FollowResponse
  BY <1>1, FollowResponseKeeps
<1>2. CASE Initialized
  BY <1>2, InitializedKeeps
<1>3. CASE NodeAnnounces
  BY <1>3, AnnouncesKeeps
<1>4. CASE NodeReportsBest
  BY <1>4, ReportsBestKeeps
<1>5. CASE NodeFinalizes
  BY <1>5, FinalizesKeeps
<1>6. CASE StopEvent
  BY <1>6, StopEventKeeps
<1>7. CASE HaltEvent
  BY <1>7, ClearKeeps DEF HaltEvent
<1>8. CASE Microtask
  BY <1>8, MicrotaskKeeps
<1>9. CASE MakeUpBest
  BY <1>9, MakeUpBestKeeps
<1>10. CASE Follow
  BY <1>10, FollowKeeps
<1>11. CASE Unpin
  BY <1>11, UnpinKeeps
<1>12. CASE Unfollow
  BY <1>12, UnfollowBlocksKeeps
<1>13. CASE Disconnect
  BY <1>13, ClearKeeps DEF Disconnect
<1>14. CASE UNCHANGED blockVars
  <2>0. BlockTyped /\ Phased /\ Finalizing /\ Ordered /\ Queued /\ BestFollows
    BY DEF BlockInv
  <2>1. BlockTyped'
    BY <1>14, <2>0 DEF BlockTyped, blockVars, nodeVars, fixVars, consumerVars
  <2>2. Phased'
    BY <1>14, <2>0 DEF Phased, blockVars, nodeVars, fixVars, consumerVars
  <2>3. Finalizing'
    BY <1>14, <2>0 DEF Finalizing, OnChain, blockVars, nodeVars, fixVars, consumerVars
  <2>4. Ordered'
    BY <1>14, <2>0
       DEF Ordered, ParentsFirst, HasTold, Gone, blockVars, nodeVars, fixVars, consumerVars
  <2>5. Queued'
    BY <1>14, <2>0 DEF Queued, DeepAbove, blockVars, nodeVars, fixVars, consumerVars
  <2>6. BestFollows'
    BY <1>14, <2>0 DEF BestFollows, blockVars, nodeVars, fixVars, consumerVars
  <2>7. QED
    BY <2>1, <2>2, <2>3, <2>4, <2>5, <2>6 DEF BlockInv
<1>15. QED
  BY <1>1, <1>2, <1>3, <1>4, <1>5, <1>6, <1>7, <1>8, <1>9, <1>10, <1>11, <1>12, <1>13,
     <1>14 DEF BlockNext

LEMMA BlockInvSuffices == BlockInv => BlocksAreRight
<1> SUFFICES ASSUME BlockInv PROVE BlocksAreRight
  OBVIOUS
<1>0. BlockTyped /\ Ordered /\ Queued /\ BestFollows
  BY DEF BlockInv
<1>1. BlockTypeOK
  BY <1>0 DEF BlockTyped, BlockTypeOK, Waits
<1>2. ParentsFirst
  BY <1>0 DEF Ordered
<1>3. BlocksComeThrough
  <2>1. ASSUME phase = "following", NEW b \in sent
        PROVE  \/ b \in Range(announced)
               \/ \E a \in {b} \cup Ancestors[b] : a \in Blocks \ sent \/ a \in deep
    <3>1. ParentOf[b] \in Ancestors[b]
      BY <1>0, AncestorsStep DEF BlockTyped
    <3>2. QED
      BY <1>0, <2>1, <3>1 DEF Queued, DeepAbove
  <2>2. QED
    BY <2>1 DEF BlocksComeThrough
<1>4. BestIsCurrent
  BY <1>0 DEF BestIsCurrent, BestFollows, Ordered, HasTold
<1>5. QED
  BY <1>1, <1>2, <1>3, <1>4 DEF BlocksAreRight

\* Whatever order a node announces blocks in, and whenever the consumer unpins, the
\* subscription stops or the connection is lost, the fixes hand on every block once
\* and after its parent, keep none back longer than they must, and the best block
\* of the consumer is the one the node last reported.
THEOREM BlocksStayRight == BlockSpec => []BlocksAreRight
<1>1. BlockSpec => []BlockInv
  BY BlockInvInit, BlockInvNext, PTL DEF BlockSpec
<1>2. QED
  BY <1>1, BlockInvSuffices, PTL

LEMMA QuietStep == BlockInv /\ [BlockNext]_blockVars => HearsLittle
<1> SUFFICES ASSUME BlockInv, [BlockNext]_blockVars, phase = "over"
             PROVE  /\ UNCHANGED <<announced, finalized>>
                    /\ best' # best => micro # <<>> \/ timer = "orphan"
  BY DEF HearsLittle
<1>0. timer \in {"off", "orphan"}
  BY DEF BlockInv, Phased
<1>1. CASE Microtask
  BY <1>1 DEF Microtask
<1>2. CASE MakeUpBest
  BY <1>0, <1>2 DEF MakeUpBest
<1>3. CASE UNCHANGED blockVars
  BY <1>3 DEF blockVars, consumerVars
<1>4. QED
  BY <1>1, <1>2, <1>3
     DEF BlockNext, FollowResponse, Initialized, NodeAnnounces, NodeReportsBest,
         NodeFinalizes, StopEvent, HaltEvent, Follow, Unpin, Unfollow, Disconnect, Task

\* After a subscription is over the consumer hears at most of a best block that was
\* already on its way, and of a made-up one where a halt or a disconnection left the
\* timer of fixMissingInitialBest armed; never of a block or of a finalized one.
THEOREM EndsQuietlyAlways == BlockSpec => EndsQuietly
<1>1. BlockSpec => []BlockInv
  BY BlockInvInit, BlockInvNext, PTL DEF BlockSpec
<1>2. BlockSpec => [][HearsLittle]_blockVars
  <2>1. BlockInv /\ [BlockNext]_blockVars => [HearsLittle]_blockVars
    BY QuietStep
  <2>2. QED
    BY <1>1, <2>1, PTL DEF BlockSpec
<1>3. QED
  BY <1>2 DEF EndsQuietly


-------------------------------------------------------------------------------
(***************************************************************************)
(* The tree of blocks on top of a node of the old API, for any tree.       *)
(***************************************************************************)

\* The blocks of the node so far.
Seen == old \cup headsHeard

\* Blocks become known after their parent. Nothing else is in the tree, asked for or told.
SeenInv ==
    /\ LegacyTypeOK
    /\ First \in old /\ old \cap headsHeard = {} /\ early \subseteq headsHeard
    /\ \A b \in Seen : Line[b] \subseteq Seen
    /\ blocks \subseteq Seen
    /\ \A b \in All : pending[b] # "no" \/ asks[b] > 0 => b \in Seen
    /\ \A t \in Tokens : told[t] \subseteq Seen /\ released[t] \subseteq told[t]
                         /\ goneFor[t] \subseteq Seen

\* What hangs from a pending block is known. Of the tree only the first block may be
\* pending, if heads came before it, and what hangs from the tree is hasty and not asked for.
PendingInv ==
    /\ \A p \in All : \A c \in kids[p] :
         c # Genesis /\ Parent(c) = p /\ pending[c] = "known" /\ pending[p] # "no"
    /\ \A b \in blocks :
         /\ pending[b] # "no" => b = First
         /\ \A c \in kids[b] : c \in early /\ asks[c] = 0

\* Before the first finalized block there are only heads, each of them hasty.
UnreadyInv ==
    ~Ready =>
        /\ headsHeard = early
        /\ \A b \in early : pending[b] = "known" /\ asks[b] = 0
        /\ \A p \in All : kids[p] \subseteq early
        /\ trimmed = {} /\ late = {} /\ headsWaiting = <<>>
        /\ On = {}
        /\ \A b \in All : usages[b] = {}
        /\ \A t \in Tokens : told[t] = {} /\ goneFor[t] = {}

\* The finalized block, the heads that wait for their block and the last one that came
\* are on one line.
FinalInv ==
    Ready =>
        /\ headFinal \in blocks /\ First \in Line[headFinal]
        /\ headFinal \in Line[sentFin]
        /\ \A i \in DOMAIN headsWaiting :
             headFinal \in Line[headsWaiting[i]] /\ headsWaiting[i] \in Line[sentFin]
        /\ \A i, j \in DOMAIN headsWaiting : i < j => headsWaiting[i] \in Line[headsWaiting[j]]

\* The tree has no gaps. What was pruned or given up stays below or beside the finalized
\* block; the best block is as high as any other above it.
TreeInv ==
    /\ \A a, b \in blocks : a \in Line[b] => Line[b] \ Line[a] \subseteq blocks
    /\ Ready =>
         /\ \A b \in late \cup (trimmed \ Hasty) : headFinal \notin Line[b]
         /\ \A b \in Above(headFinal, blocks) : Height(b) <= Height(headBest)
         /\ headBest \in late \cup Above(headFinal, blocks)

\* What each subscription pins, knows and heard of.
PinInv ==
    /\ \A b \in All : usages[b] # {} => b \in blocks
    /\ \A t \in Tokens :
         /\ viewPhase[t] \in {"off", "early"} =>
              told[t] = {} /\ goneFor[t] = {} /\ \A b \in All : t \notin usages[b]
         /\ Ready => \A b \in released[t] \cup goneFor[t] : headFinal \notin Line[b]
         /\ t \in On =>
              /\ \A b \in All : t \in usages[b] <=> b \in told[t] \ released[t]
              /\ Above(headFinal, blocks) = Above(headFinal, told[t])
              /\ goneFor[t] \subseteq told[t] \ Line[headFinal]
              /\ \A b \in told[t] \ late :
                   b \in Line[headFinal] \/ headFinal \in Line[b] \/ b \in goneFor[t]
    /\ NothingUselessKept

\* The inductive invariant.
HeadsInv == SeenInv /\ PendingInv /\ UnreadyInv /\ FinalInv /\ TreeInv /\ PinInv


-------------------------------------------------------------------------------
\* Blocks are numbered after their parent.
LEMMA HeadsNumbered ==
  /\ Heads \subseteq All /\ Genesis \in All /\ Genesis \notin Heads /\ First \in Heads
  /\ All \subseteq Nat /\ IsFiniteSet(All) /\ Genesis = 0
  /\ \A b \in Heads : HeadParent[b] \in All /\ HeadParent[b] < b /\ Parent(b) = HeadParent[b]
  /\ \A b \in All : Parent(b) \in All /\ (b # Genesis => b \in Heads)
  /\ {MaxInitial, MaxAsks, MaxWaiting} \subseteq Nat \ {0}
<1>1. Len(HeadParent) \in Nat /\ Heads = 1 .. Len(HeadParent)
  BY LegacyAssumption, LenProperties DEF Heads
<1>2. \A b \in Heads : HeadParent[b] \in Nat /\ HeadParent[b] < b
  BY LegacyAssumption DEF Heads
<1>3. All = 0 .. Len(HeadParent)
  BY <1>1 DEF All, Genesis
<1>4. IsFiniteSet(All)
  BY <1>1, <1>3, FS_Interval
<1>5. QED
  BY <1>1, <1>2, <1>3, <1>4, LegacyAssumption DEF Genesis, Parent

\* Induction from the genesis upwards.
LEMMA HeadInduction ==
  ASSUME NEW S, Genesis \in S, \A b \in Heads : HeadParent[b] \in S => b \in S
  PROVE  All \subseteq S
<1> DEFINE N == {n \in Nat : \A b \in All : b <= n => b \in S}
<1>1. 0 \in N
  BY HeadsNumbered
<1>2. ASSUME NEW n \in Nat, n \in N PROVE n + 1 \in N
  <2>1. ASSUME NEW b \in All, b <= n + 1, b # Genesis PROVE b \in S
    <3>1. b \in Heads /\ HeadParent[b] \in All /\ HeadParent[b] < b
      BY <2>1, HeadsNumbered
    <3>2. b \in Nat /\ HeadParent[b] \in Nat
      BY <3>1, HeadsNumbered
    <3>3. HeadParent[b] <= n
      BY <2>1, <3>1, <3>2
    <3>4. QED
      BY <3>1, <3>3, <1>2
  <2>2. QED
    BY <2>1
<1> HIDE DEF N
<1>3. Nat \subseteq N
  BY <1>1, <1>2, InductionOverNat
<1>4. \A b \in All : b \in Nat /\ b <= b
  BY HeadsNumbered
<1>5. QED
  BY <1>3, <1>4 DEF N

\* A parent has a lower number: what a recursion over parents rests on.
LEMMA HeadRanks ==
  Ranks([b \in All |-> b], [b \in All |-> Parent(b)], {Genesis}, All)
<1>1. [b \in All |-> b] \in [All -> Nat]
  BY HeadsNumbered
<1>2. [b \in All |-> Parent(b)] \in [All -> All]
  BY HeadsNumbered
<1>3. \A d \in All : d \in {Genesis} \/ Parent(d) < d
  BY HeadsNumbered
<1>4. QED
  BY <1>1, <1>2, <1>3, HeadsNumbered DEF Ranks

\* Line is what its recursive definition says.
LEMMA HeadLineStep ==
  /\ Line[Genesis] = {Genesis}
  /\ \A b \in Heads : Line[b] = {b} \cup Line[HeadParent[b]]
<1> DEFINE V == SUBSET All
           start == [b \in All |-> {b}]
           below == [b \in All |-> Parent(b)]
           F == [b \in All |-> [v \in V |-> {b} \cup v]]
           rank == [b \in All |-> b]
<1>0. /\ \A b \in All : below[b] = Parent(b)
      /\ \A b \in All : start[b] = {b}
      /\ \A b \in All : \A v \in V : F[b][v] = {b} \cup v
  OBVIOUS
<1>1. Steps(start, F, All, V)
  <2>1. \A b \in All : F[b] \in [V -> V]
    OBVIOUS
  <2>2. start \in [All -> V]
    OBVIOUS
  <2> HIDE DEF F, start
  <2>3. F \in [All -> [V -> V]]
    BY <2>1 DEF F
  <2>4. QED
    BY <2>2, <2>3 DEF Steps
<1>r. Ranks(rank, below, {Genesis}, All)
  BY HeadRanks
<1> HIDE DEF start, F, below, rank
<1>2. PICK g \in [All -> V] : Solves(g, start, F, below, {Genesis}, All)
  BY <1>1, <1>r, RecursionByRank
<1>3. \A b \in All : g[b] = {b} \cup IF b = Genesis THEN {} ELSE g[HeadParent[b]]
  <2> SUFFICES ASSUME NEW b \in All
               PROVE  g[b] = {b} \cup IF b = Genesis THEN {} ELSE g[HeadParent[b]]
    OBVIOUS
  <2>1. CASE b = Genesis
    BY <1>0, <1>2, <2>1 DEF Solves
  <2>2. CASE b # Genesis
    <3>1. g[b] = F[b][g[below[b]]]
      BY <1>2, <2>2 DEF Solves
    <3>2. below[b] = HeadParent[b] /\ below[b] \in All
      BY <1>0, <2>2, HeadsNumbered
    <3>3. g[below[b]] \in V
      BY <1>2, <3>2
    <3>4. QED
      BY <1>0, <2>2, <3>1, <3>2, <3>3
  <2>3. QED
    BY <2>1, <2>2
<1>4. g = [b \in All |-> g[b]]
  OBVIOUS
<1>5. g = [b \in All |-> {b} \cup IF b = Genesis THEN {} ELSE g[HeadParent[b]]]
  BY <1>3, <1>4, Zenon
<1>6. Line = [b \in All |-> {b} \cup IF b = Genesis THEN {} ELSE Line[HeadParent[b]]]
  BY <1>5 DEF Line
<1>7. \A b \in All : Line[b] = {b} \cup IF b = Genesis THEN {} ELSE Line[HeadParent[b]]
  BY <1>6
<1>8. QED
  BY <1>7, HeadsNumbered

\* Blocks are a tree: Line is its order, from the genesis upwards.
LEMMA HeadLines ==
  /\ \A b \in All : Line[b] \subseteq All /\ b \in Line[b] /\ Genesis \in Line[b]
  /\ \A a, b \in All : a \in Line[b] => a <= b
  /\ \A a, b, c \in All : a \in Line[b] /\ b \in Line[c] => a \in Line[c]
  /\ \A a, b, c \in All : a \in Line[c] /\ b \in Line[c] => a \in Line[b] \/ b \in Line[a]
  /\ \A a, b \in All : a \in Line[b] /\ b \in Line[a] => a = b
<1> DEFINE Fine(c) ==
             /\ Line[c] \subseteq All /\ c \in Line[c] /\ Genesis \in Line[c]
             /\ \A a \in Line[c] : a <= c /\ Line[a] \subseteq Line[c]
             /\ \A a, b \in Line[c] : a \in Line[b] \/ b \in Line[a]
           S == {c \in All : Fine(c)}
<1>1. Genesis \in S
  BY HeadLineStep, HeadsNumbered
<1>2. ASSUME NEW c \in Heads, HeadParent[c] \in S PROVE c \in S
  <2> DEFINE p == HeadParent[c]
  <2>1. /\ Line[c] = {c} \cup Line[p] /\ p \in All /\ c \in All /\ p < c /\ Fine(p)
        /\ c \in Nat /\ p \in Nat
    BY <1>2, HeadLineStep, HeadsNumbered
  <2> HIDE DEF p
  <2>2. Line[c] \subseteq All /\ c \in Line[c] /\ Genesis \in Line[c]
    BY <2>1
  <2>3. ASSUME NEW a \in Line[c] PROVE a <= c /\ Line[a] \subseteq Line[c]
    <3>1. a \in Nat
      BY <2>2, HeadsNumbered
    <3>2. QED
      BY <2>1, <3>1
  <2>4. \A a, b \in Line[c] : a \in Line[b] \/ b \in Line[a]
    BY <2>1
  <2>5. QED
    BY <2>1, <2>2, <2>3, <2>4
<1> HIDE DEF S
<1>3. All \subseteq S
  BY <1>1, <1>2, HeadInduction
<1>4. \A c \in All : Fine(c)
  BY <1>3 DEF S
<1>5. \A a, b \in All : a \in Line[b] /\ b \in Line[a] => a = b
  <2>1. \A a, b \in All : a \in Line[b] /\ b \in Line[a] => a <= b /\ b <= a
    BY <1>4
  <2>2. QED
    BY <2>1, HeadsNumbered
<1>6. QED
  BY <1>4, <1>5

\* Heights grow along the order.
LEMMA HeadHeights ==
  /\ \A b \in All : Height(b) \in Int
  /\ \A a, b \in All : a \in Line[b] => Height(a) <= Height(b)
  /\ \A a, b \in All : a \in Line[b] /\ a # b => Height(a) < Height(b)
<1>2. \A b \in All : IsFiniteSet(Line[b]) /\ Cardinality(Line[b]) \in Nat
  BY HeadsNumbered, HeadLines, FS_Subset, FS_CardinalityType
<1>3. ASSUME NEW a \in All, NEW b \in All, a \in Line[b], a # b
      PROVE  Cardinality(Line[a]) < Cardinality(Line[b])
  <2>1. Line[a] \subseteq Line[b]
    BY <1>3, HeadLines
  <2>2. b \in Line[b] /\ b \notin Line[a]
    BY <1>3, HeadLines
  <2>3. Cardinality(Line[a]) <= Cardinality(Line[b]) /\ Line[a] # Line[b]
    BY <1>2, <2>1, <2>2, FS_Subset
  <2>4. Cardinality(Line[a]) # Cardinality(Line[b])
    BY <1>2, <2>1, <2>3, FS_Subset
  <2>5. QED
    BY <1>2, <2>3, <2>4
<1>4. QED
  BY <1>2, <1>3 DEF Height

\* A block below another one, and its children on the way.
LEMMA HeadParents ==
  /\ \A b \in Heads : Parent(b) \in Line[b] /\ b \notin Line[Parent(b)]
                      /\ Line[b] = {b} \cup Line[Parent(b)]
  /\ \A a, c \in All : a \in Line[c] /\ a # c =>
       \E d \in Heads : d \in Line[c] /\ Parent(d) = a
<1>1. \A b \in Heads : Parent(b) \in Line[b] /\ b \notin Line[Parent(b)]
                       /\ Line[b] = {b} \cup Line[Parent(b)]
  <2> SUFFICES ASSUME NEW b \in Heads
               PROVE  Parent(b) \in Line[b] /\ b \notin Line[Parent(b)]
                      /\ Line[b] = {b} \cup Line[Parent(b)]
    OBVIOUS
  <2>1. /\ Parent(b) = HeadParent[b] /\ Parent(b) < b /\ Parent(b) \in All /\ b \in All
        /\ b \in Nat /\ Parent(b) \in Nat
    BY HeadsNumbered
  <2>2. Line[b] = {b} \cup Line[Parent(b)] /\ Parent(b) \in Line[Parent(b)]
    BY <2>1, HeadLineStep, HeadLines
  <2>3. b \notin Line[Parent(b)]
    BY <2>1, HeadLines
  <2>4. QED
    BY <2>2, <2>3
<1> DEFINE S == {c \in All : \A a \in Line[c] : a # c =>
                                \E d \in Heads : d \in Line[c] /\ Parent(d) = a}
<1>2. Genesis \in S
  BY HeadLineStep, HeadsNumbered
<1>3. ASSUME NEW c \in Heads, HeadParent[c] \in S PROVE c \in S
  <2>1. Parent(c) = HeadParent[c] /\ c \in All
    BY HeadsNumbered
  <2>2. QED
    BY <1>1, <1>3, <2>1
<1> HIDE DEF S
<1>4. All \subseteq S
  BY <1>2, <1>3, HeadInduction
<1>5. QED
  BY <1>1, <1>4 DEF S

\* The pending block at the top, seen from r, hangs from nothing.
LEMMA TopFacts ==
  ASSUME NEW r \in All, pending[r] # "no"
  PROVE  /\ PendingTop(r) \in Line[r] /\ pending[PendingTop(r)] # "no"
         /\ \/ PendingTop(r) = Genesis
            \/ pending[Parent(PendingTop(r))] = "no"
            \/ pending[PendingTop(r)] # "known"
<1> DEFINE Goes(b) == /\ b = r \/ pending[b] = "known"
                      /\ b # Genesis
                      /\ pending[Parent(b)] # "no"
           Stop  == {b \in All : ~Goes(b)}
           start == [b \in All |-> b]
           below == [b \in All |-> Parent(b)]
           F     == [b \in All |-> [v \in All |-> v]]
           rank  == [b \in All |-> b]
<1>0. /\ \A b \in All : below[b] = Parent(b) /\ start[b] = b /\ rank[b] = b
      /\ \A b \in All : \A v \in All : F[b][v] = v
  OBVIOUS
<1>1. Steps(start, F, All, All)
  <2>1. start \in [All -> All] /\ F \in [All -> [All -> All]]
    OBVIOUS
  <2> HIDE DEF start, F
  <2>2. QED
    BY <2>1 DEF Steps
<1>r. Ranks(rank, below, Stop, All)
  <2>1. Ranks(rank, below, {Genesis}, All)
    BY HeadRanks
  <2>2. Genesis \in Stop
    BY HeadsNumbered
  <2> HIDE DEF rank, below, Stop
  <2>3. QED
    BY <2>1, <2>2 DEF Ranks
<1> HIDE DEF start, F, below, rank
<1>2. PICK g \in [All -> All] : Solves(g, start, F, below, Stop, All)
  BY <1>1, <1>r, RecursionByRank
<1>3. \A b \in All : g[b] = IF Goes(b) THEN g[Parent(b)] ELSE b
  <2> SUFFICES ASSUME NEW b \in All
               PROVE  g[b] = IF Goes(b) THEN g[Parent(b)] ELSE b
    OBVIOUS
  <2>0. Parent(b) \in All /\ g[Parent(b)] \in All
    BY HeadsNumbered
  <2>1. CASE ~Goes(b)
    <3>1. b \in Stop
      BY <2>1
    <3>2. QED
      BY <1>0, <1>2, <2>1, <3>1 DEF Solves
  <2>2. CASE Goes(b)
    <3>1. b \notin Stop
      BY <2>2
    <3>2. g[b] = F[b][g[below[b]]]
      BY <1>2, <3>1 DEF Solves
    <3>3. QED
      BY <1>0, <2>0, <2>2, <3>2
  <2>3. QED
    BY <2>1, <2>2
<1>4. g = [b \in All |-> g[b]]
  OBVIOUS
<1> DEFINE top == CHOOSE f : f = [b \in All |-> IF Goes(b) THEN f[Parent(b)] ELSE b]
<1>5. g = [b \in All |-> IF Goes(b) THEN g[Parent(b)] ELSE b]
  BY <1>3, <1>4, Zenon
<1>6. top = [b \in All |-> IF Goes(b) THEN top[Parent(b)] ELSE b]
  BY <1>5
<1>7. PendingTop(r) = top[r]
  BY DEF PendingTop
<1> HIDE DEF top
<1>8. \A b \in All : top[b] = IF Goes(b) THEN top[Parent(b)] ELSE b
  BY <1>6
<1> DEFINE T == {b \in All : pending[b] # "no" =>
                               /\ top[b] \in Line[b] /\ pending[top[b]] # "no" /\ ~Goes(top[b])}
<1>9. Genesis \in T
  BY <1>8, HeadLines, HeadsNumbered
<1>10. ASSUME NEW b \in Heads, HeadParent[b] \in T PROVE b \in T
  <2>1. Parent(b) \in T /\ b \in All /\ Parent(b) = HeadParent[b]
    BY <1>10, HeadsNumbered
  <2>2. CASE Goes(b)
    <3>1. top[b] = top[Parent(b)]
      BY <1>8, <2>1, <2>2
    <3>2. Line[Parent(b)] \subseteq Line[b]
      BY HeadParents
    <3> HIDE DEF Goes
    <3>3. pending[Parent(b)] # "no"
      BY <2>2 DEF Goes
    <3>4. QED
      BY <2>1, <3>1, <3>2, <3>3
  <2>3. CASE ~Goes(b)
    <3> HIDE DEF Goes
    <3>1. top[b] = b
      BY <1>8, <2>1, <2>3
    <3>2. QED
      BY <2>1, <2>3, <3>1, HeadLines
  <2>4. QED
    BY <2>2, <2>3
<1> HIDE DEF T
<1>11. r \in T
  BY <1>9, <1>10, HeadInduction
<1>12. QED
  BY <1>7, <1>11 DEF T

\* What hangs from x is x and what is linked to it, without a gap.
LEMMA HangingFacts ==
  ASSUME NEW x \in All
  PROVE  /\ Hanging(x) \subseteq All /\ x \in Hanging(x)
         /\ \A c \in Hanging(x) : /\ x \in Line[c] /\ Line[c] \ Line[x] \subseteq Hanging(x)
                                  /\ \A d \in Line[c] \ Line[x] : d \in kids[Parent(d)]
         /\ \A c \in Hanging(x) \ {x} :
              c \in Heads /\ c \in kids[Parent(c)] /\ Parent(c) \in Hanging(x)
         /\ \A c \in Heads : c \in kids[Parent(c)] /\ Parent(c) \in Hanging(x) => c \in Hanging(x)
<1>1. Hanging(x) = {c \in All : /\ x \in Line[c]
                                /\ \A d \in Line[c] \ Line[x] : d \in kids[Parent(d)]}
  BY DEF Hanging, Above
<1>2. ASSUME NEW c \in Hanging(x), NEW d \in Line[c] \ Line[x] PROVE d \in Hanging(x)
  <2>1. d \in All /\ x \in Line[c] /\ c \in All
    BY <1>1, <1>2, HeadLines
  <2>2. x \in Line[d] /\ Line[d] \subseteq Line[c]
    BY <2>1, HeadLines
  <2>3. QED
    BY <1>1, <2>1, <2>2
<1>3. ASSUME NEW c \in Hanging(x), c # x
      PROVE  c \in Heads /\ c \in kids[Parent(c)] /\ Parent(c) \in Hanging(x)
  <2>1. c \in All /\ x \in Line[c]
    BY <1>1
  <2>2. c \in Line[c] \ Line[x]
    BY <1>3, <2>1, HeadLines
  <2>3. c # Genesis
    BY <2>1, <1>3, HeadLineStep
  <2>4. c \in Heads /\ x \in Line[Parent(c)] /\ Line[Parent(c)] \subseteq Line[c] /\ Parent(c) \in All
    BY <1>3, <2>1, <2>3, HeadParents, HeadsNumbered
  <2>5. QED
    BY <1>1, <2>2, <2>4
<1>4. ASSUME NEW c \in Heads, c \in kids[Parent(c)], Parent(c) \in Hanging(x) PROVE c \in Hanging(x)
  <2>1. c \in All /\ Line[c] = {c} \cup Line[Parent(c)]
    BY HeadsNumbered, HeadParents
  <2>2. QED
    BY <1>1, <1>4, <2>1
<1>5. x \in Hanging(x)
  BY <1>1, HeadLines
<1>6. QED
  BY <1>1, <1>2, <1>3, <1>4, <1>5

-------------------------------------------------------------------------------
\* The invariant, one lemma per step.
LEMMA HeadsInvInit == LegacyInit => HeadsInv
<1> SUFFICES ASSUME LegacyInit PROVE HeadsInv
  OBVIOUS
<1>0. \A t \in Tokens : told[t] = {} /\ released[t] = {} /\ goneFor[t] = {} /\ viewPhase[t] = "off"
  BY DEF LegacyInit
<1>a. Genesis \in All /\ {MaxInitial, MaxAsks, MaxWaiting} \subseteq Nat \ {0}
  BY HeadsNumbered
<1>1. SeenInv
  <2>1. old \subseteq All /\ First \in old /\ \A b \in old : Line[b] \subseteq old
    BY DEF LegacyInit
  <2>2. LegacyTypeOK
    <3>1. headsWaiting \in Seq(All) /\ Len(headsWaiting) <= MaxWaiting
      BY <1>a DEF LegacyInit
    <3>2. asks \in [All -> 0 .. MaxAsks]
      BY <1>a DEF LegacyInit
    <3>3. /\ usages \in [All -> SUBSET Tokens]
          /\ pending \in [All -> {"no", "asked", "known"}]
          /\ kids \in [All -> SUBSET All]
          /\ viewPhase \in [Tokens -> {"off", "early", "on", "over"}]
          /\ told \in [Tokens -> SUBSET All] /\ goneFor = told /\ released = told
      BY DEF LegacyInit
    <3>4. QED
      BY <1>a, <2>1, <3>1, <3>2, <3>3 DEF LegacyInit, LegacyTypeOK
  <2>3. QED
    BY <2>1, <2>2, <1>0 DEF LegacyInit, SeenInv, Seen
<1>2. PendingInv
  BY DEF LegacyInit, PendingInv
<1>3. UnreadyInv
  BY <1>0 DEF LegacyInit, UnreadyInv, On
<1>4. FinalInv /\ TreeInv
  BY DEF LegacyInit, FinalInv, TreeInv, Ready
<1>5. PinInv
  BY <1>0 DEF LegacyInit, PinInv, Ready, On, NothingUselessKept
<1>6. QED
  BY <1>1, <1>2, <1>3, <1>4, <1>5 DEF HeadsInv

\* The heads that wait stay in the order of the chain.
LEMMA FinalizedComesKeeps == HeadsInv /\ FinalizedComes => HeadsInv'
<1> SUFFICES ASSUME HeadsInv, FinalizedComes PROVE HeadsInv'
  OBVIOUS
<1> USE DEF FinalizedComes, treeVars, pendingVars, viewVars, histVars
<1>0. /\ sentFin \in All /\ sentFin' \in All /\ sentFin \in Line[sentFin']
      /\ headsWaiting \in Seq(All) /\ headsWaiting' = Append(headsWaiting, sentFin')
      /\ headsWaiting' \in Seq(All) /\ Len(headsWaiting') <= MaxWaiting
      /\ MaxWaiting \in Nat
  <2>1. sentFin \in All /\ headsWaiting \in Seq(All)
    BY DEF HeadsInv, SeenInv, LegacyTypeOK
  <2>2. QED
    BY <2>1, HeadsNumbered DEF Above
<1>1. SeenInv'
  <2>1. LegacyTypeOK'
    BY <1>0 DEF HeadsInv, SeenInv, LegacyTypeOK
  <2>2. QED
    BY <2>1 DEF HeadsInv, SeenInv, Seen
<1>2. PendingInv'
  BY DEF HeadsInv, PendingInv
<1>3. UnreadyInv'
  BY DEF UnreadyInv, Ready
<1>4. FinalInv'
  <2>1. /\ headFinal \in blocks /\ First \in Line[headFinal]
        /\ headFinal \in Line[sentFin]
        /\ \A i \in DOMAIN headsWaiting :
             headFinal \in Line[headsWaiting[i]] /\ headsWaiting[i] \in Line[sentFin]
        /\ \A i, j \in DOMAIN headsWaiting : i < j => headsWaiting[i] \in Line[headsWaiting[j]]
    BY DEF HeadsInv, FinalInv
  <2>2. /\ DOMAIN headsWaiting' = DOMAIN headsWaiting \cup {Len(headsWaiting) + 1}
        /\ \A i \in DOMAIN headsWaiting : i \in 1 .. Len(headsWaiting) /\ headsWaiting'[i] = headsWaiting[i]
                                          /\ headsWaiting[i] \in All
        /\ headsWaiting'[Len(headsWaiting) + 1] = sentFin'
        /\ Len(headsWaiting) \in Nat
    BY <1>0
  <2>3. headFinal \in All
    BY DEF HeadsInv, SeenInv, LegacyTypeOK
  <2>4. headFinal \in Line[sentFin'] /\ sentFin' \in Line[sentFin']
    BY <1>0, <2>1, <2>3, HeadLines
  <2>5. \A i \in DOMAIN headsWaiting : headsWaiting[i] \in Line[sentFin']
    BY <1>0, <2>1, <2>2, HeadLines
  <2>6. \A i \in DOMAIN headsWaiting' :
             headFinal \in Line[headsWaiting'[i]] /\ headsWaiting'[i] \in Line[sentFin']
    BY <2>1, <2>2, <2>4, <2>5
  <2>7. \A i, j \in DOMAIN headsWaiting' : i < j => headsWaiting'[i] \in Line[headsWaiting'[j]]
    BY <2>1, <2>2, <2>5
  <2>8. QED
    BY <2>1, <2>4, <2>6, <2>7 DEF FinalInv
<1>5. TreeInv'
  BY DEF HeadsInv, TreeInv, Ready, Hasty
<1>6. PinInv'
  BY DEF HeadsInv, PinInv, Ready, On, NothingUselessKept
<1>7. QED
  BY <1>1, <1>2, <1>3, <1>4, <1>5, <1>6 DEF HeadsInv

\* A request less.
LEMMA EndedAsks ==
  ASSUME HeadsInv, NEW r \in All, asks[r] > 0, asks' = [asks EXCEPT ![r] = @ - 1]
  PROVE  /\ asks' \in [All -> 0 .. MaxAsks]
         /\ \A b \in All : asks[b] = 0 => asks'[b] = 0
         /\ \A b \in All : asks'[b] > 0 => asks[b] > 0
<1>1. asks \in [All -> 0 .. MaxAsks] /\ MaxAsks \in Nat
  BY HeadsNumbered DEF HeadsInv, SeenInv, LegacyTypeOK
<1>2. QED
  BY <1>1

\* All subscriptions are over.
LEMMA HeaderFailsKeeps ==
  ASSUME HeadsInv, NEW r \in All, HeaderFails(r)
  PROVE  HeadsInv'
<1> USE DEF HeaderFails, oldNodeVars, treeVars, finVars, histVars
<1>1. SeenInv'
  <2>1. LegacyTypeOK'
    <3>1. asks' \in [All -> 0 .. MaxAsks]
      BY EndedAsks
    <3>2. viewPhase' \in [Tokens -> {"off", "early", "on", "over"}]
      BY DEF HeadsInv, SeenInv, LegacyTypeOK
    <3>3. QED
      BY <3>1, <3>2 DEF HeadsInv, SeenInv, LegacyTypeOK
  <2>2. \A b \in All : asks'[b] > 0 => asks[b] > 0
    BY EndedAsks
  <2>3. QED
    BY <2>1, <2>2 DEF HeadsInv, SeenInv, Seen
<1>2. PendingInv'
  <2>1. \A b \in All : asks[b] = 0 => asks'[b] = 0
    BY EndedAsks
  <2>2. \A b \in All : kids[b] \subseteq All
    BY DEF HeadsInv, SeenInv, LegacyTypeOK
  <2>3. blocks \subseteq All
    BY DEF HeadsInv, SeenInv, LegacyTypeOK
  <2>4. QED
    BY <2>1, <2>2, <2>3 DEF HeadsInv, PendingInv
<1>3. UnreadyInv'
  BY DEF UnreadyInv, Ready
<1>4. FinalInv'
  BY DEF HeadsInv, FinalInv, Ready
<1>5. TreeInv'
  BY DEF HeadsInv, TreeInv, Ready, Hasty
<1>6. PinInv'
  BY DEF HeadsInv, PinInv, Ready, On, NothingUselessKept
<1>7. QED
  BY <1>1, <1>2, <1>3, <1>4, <1>5, <1>6 DEF HeadsInv

\* Its pins stay, and bind nobody.
LEMMA UnfollowHeadKeeps ==
  ASSUME HeadsInv, NEW t \in Tokens, UnfollowHead(t)
  PROVE  HeadsInv'
<1> USE DEF UnfollowHead, oldNodeVars, treeVars, pendingVars, finVars, histVars
<1>0. /\ viewPhase' \in [Tokens -> {"off", "early", "on", "over"}]
      /\ \A u \in Tokens : viewPhase'[u] = IF u = t THEN "over" ELSE viewPhase[u]
  BY DEF HeadsInv, SeenInv, LegacyTypeOK
<1>1. SeenInv'
  <2>1. LegacyTypeOK'
    BY <1>0 DEF HeadsInv, SeenInv, LegacyTypeOK
  <2>3. QED
    BY <2>1 DEF HeadsInv, SeenInv, Seen
<1>2. PendingInv'
  BY DEF HeadsInv, PendingInv
<1>3. UnreadyInv'
  BY <1>0 DEF HeadsInv, UnreadyInv, Ready, On
<1>4. FinalInv'
  BY DEF HeadsInv, FinalInv, Ready
<1>5. TreeInv'
  BY DEF HeadsInv, TreeInv, Ready, Hasty
<1>6. PinInv'
  BY <1>0 DEF HeadsInv, PinInv, Ready, On, NothingUselessKept
<1>7. QED
  BY <1>1, <1>2, <1>3, <1>4, <1>5, <1>6 DEF HeadsInv

\* The tree begins, with the subscriptions that waited for it.
LEMMA FirstFinalizedKeeps == HeadsInv /\ FirstFinalized => HeadsInv'
<1> SUFFICES ASSUME HeadsInv, FirstFinalized PROVE HeadsInv'
  OBVIOUS
<1> USE DEF FirstFinalized, pendingVars, finVars, histVars
<1> DEFINE soon == {t \in Tokens : viewPhase[t] = "early"}
<1>0. /\ ~Ready /\ First \in All /\ First \in Line[First]
      /\ viewPhase' = [t \in Tokens |-> IF t \in soon THEN "on" ELSE viewPhase[t]]
      /\ told' = [t \in Tokens |-> IF t \in soon THEN {First} ELSE told[t]]
      /\ On = {} /\ \A b \in All : usages[b] = {}
      /\ \A t \in Tokens : told[t] = {} /\ goneFor[t] = {} /\ released[t] = {}
  BY HeadsNumbered, HeadLines DEF HeadsInv, UnreadyInv, SeenInv, HeadInitialized
<1>1. usages' = [b \in All |-> IF b = First THEN soon ELSE {}]
  <2>1. \A b \in All : usages[b] \cup soon = soon
    BY <1>0
  <2>2. usages' = [b \in All |-> CASE b \in {First} -> usages[b] \cup soon
                                  [] b \in {}      -> usages[b] \cup On \cup soon
                                  [] OTHER         -> usages[b]]
    BY DEF HeadInitialized
  <2>3. \A b \in All : usages'[b] = IF b = First THEN soon ELSE {}
    BY <1>0, <2>2
  <2>4. QED
    BY <2>2, <2>3
<1>2. \A t \in Tokens : /\ viewPhase'[t] = (IF t \in soon THEN "on" ELSE viewPhase[t])
                        /\ told'[t] = IF t \in soon THEN {First} ELSE {}
                        /\ t \in soon <=> viewPhase[t] = "early"
                        /\ viewPhase[t] # "on"
  BY <1>0 DEF On
<1>a. On' = soon
  BY <1>2 DEF On
<1> HIDE DEF soon
<1>3. SeenInv'
  <2>1. LegacyTypeOK'
    <3>1. /\ viewPhase' \in [Tokens -> {"off", "early", "on", "over"}]
          /\ told' \in [Tokens -> SUBSET All]
          /\ usages' \in [All -> SUBSET Tokens]
      BY <1>0, <1>1, <1>2 DEF HeadsInv, SeenInv, LegacyTypeOK, soon
    <3>2. QED
      BY <1>0, <3>1 DEF HeadsInv, SeenInv, LegacyTypeOK
  <2>2. QED
    BY <2>1, <1>0, <1>2 DEF HeadsInv, SeenInv, Seen
<1>4. PendingInv'
  BY <1>0 DEF HeadsInv, PendingInv, UnreadyInv
<1>5. UnreadyInv'
  BY DEF UnreadyInv, Ready
<1>6. FinalInv'
  BY <1>0 DEF HeadsInv, UnreadyInv, FinalInv
<1>7. TreeInv'
  <2>1. Above(First, {First}) = {First} /\ Height(First) <= Height(First)
    BY <1>0, HeadHeights DEF Above
  <2>2. Ready' /\ blocks' = {First} /\ headFinal' = First /\ headBest' = First
    BY DEF Ready
  <2>3. late' = {} /\ trimmed' = {}
    BY <1>0 DEF HeadsInv, UnreadyInv
  <2>4. QED
    BY <2>1, <2>2, <2>3 DEF TreeInv
<1>8. PinInv'
  BY <1>0, <1>1, <1>2, <1>a DEF HeadsInv, PinInv, NothingUselessKept, Above
<1>9. QED
  BY <1>3, <1>4, <1>5, <1>6, <1>7, <1>8 DEF HeadsInv

\* What hangs from the former finalized block and not from the new one is reported.
LEMMA HeadsFinalizesKeeps == HeadsInv /\ Finalizes => HeadsInv'
<1> SUFFICES ASSUME HeadsInv, Finalizes PROVE HeadsInv'
  OBVIOUS
<1> USE DEF Finalizes, oldNodeVars, pendingVars, histVars
<1> DEFINE f    == Head(headsWaiting)
           gone == {b \in Above(headFinal, blocks) : b \notin Line[f] /\ f \notin Line[b]}
<1>0. /\ f \in blocks /\ headFinal' = f /\ headsWaiting' = Tail(headsWaiting)
      /\ headBest' \in Highest(Above(f, blocks))
      /\ goneFor' = [t \in Tokens |-> IF t \in On THEN goneFor[t] \cup gone ELSE goneFor[t]]
  OBVIOUS
<1>1. /\ headsWaiting # <<>> /\ headsWaiting \in Seq(All) /\ f = headsWaiting[1]
      /\ 1 \in DOMAIN headsWaiting
      /\ Len(headsWaiting) \in Nat /\ Len(headsWaiting') = Len(headsWaiting) - 1
      /\ \A i \in DOMAIN headsWaiting' :
           i + 1 \in DOMAIN headsWaiting /\ headsWaiting'[i] = headsWaiting[i + 1]
      /\ \A i \in DOMAIN headsWaiting' : i \in Nat /\ 1 < i + 1
      /\ DOMAIN headsWaiting = 1 .. Len(headsWaiting)
      /\ headsWaiting' \in Seq(All)
  BY HeadTailProperties DEF HeadsInv, SeenInv, LegacyTypeOK
<1>2. Ready /\ headFinal \in All /\ f \in All /\ blocks \subseteq All /\ headFinal \in blocks
  BY <1>0 DEF HeadsInv, SeenInv, LegacyTypeOK, FinalInv, Ready
<1>3. headFinal \in Line[f] /\ Line[headFinal] \subseteq Line[f]
  BY <1>1, <1>2, HeadLines DEF HeadsInv, FinalInv
<1>4. \A b \in All : f \in Line[b] => headFinal \in Line[b]
  BY <1>2, <1>3, HeadLines
<1>g. \A t \in Tokens : goneFor'[t] = IF t \in On THEN goneFor[t] \cup gone ELSE goneFor[t]
  BY <1>0
<1> HIDE DEF f
<1>5. SeenInv'
  <2>1. LegacyTypeOK'
    <3>1. goneFor' \in [Tokens -> SUBSET All] /\ headBest' \in All
      BY <1>0, <1>2 DEF HeadsInv, SeenInv, LegacyTypeOK, Above, Highest
    <3>2. Len(headsWaiting') <= MaxWaiting
      BY <1>1, HeadsNumbered DEF HeadsInv, SeenInv, LegacyTypeOK
    <3>3. QED
      BY <1>0, <1>1, <1>2, <3>1, <3>2 DEF HeadsInv, SeenInv, LegacyTypeOK
  <2>2. blocks \subseteq Seen
    BY DEF HeadsInv, SeenInv
  <2>3. \A t \in Tokens : goneFor'[t] \subseteq goneFor[t] \cup blocks
    BY <1>g DEF Above
  <2>4. \A t \in Tokens : goneFor'[t] \subseteq Seen
    BY <2>2, <2>3 DEF HeadsInv, SeenInv
  <2>5. QED
    BY <2>1, <2>4 DEF HeadsInv, SeenInv, Seen
<1>6. PendingInv'
  BY DEF HeadsInv, PendingInv
<1>7. UnreadyInv'
  BY <1>2 DEF UnreadyInv, Ready
<1>8. FinalInv'
  <2>1. /\ First \in Line[headFinal]
        /\ \A i \in DOMAIN headsWaiting : headsWaiting[i] \in Line[sentFin]
        /\ \A i, j \in DOMAIN headsWaiting : i < j => headsWaiting[i] \in Line[headsWaiting[j]]
    BY <1>2 DEF HeadsInv, FinalInv
  <2>2. First \in Line[f] /\ f \in Line[sentFin]
    BY <1>1, <1>3, <2>1
  <2>3. \A i \in DOMAIN headsWaiting' : f \in Line[headsWaiting'[i]]
    BY <1>1, <2>1
  <2>4. \A i, j \in DOMAIN headsWaiting' : i < j => headsWaiting'[i] \in Line[headsWaiting'[j]]
    <3>1. \A i, j \in DOMAIN headsWaiting' : i < j => i + 1 < j + 1
      BY <1>1
    <3>2. QED
      BY <1>1, <2>1, <3>1
  <2>5. QED
    BY <1>0, <1>1, <2>1, <2>2, <2>3, <2>4 DEF FinalInv
<1>9. TreeInv'
  <2>1. \A b \in late \cup (trimmed \ Hasty) : b \in All /\ headFinal \notin Line[b]
    BY <1>2 DEF HeadsInv, TreeInv, SeenInv, LegacyTypeOK
  <2>2. \A b \in late \cup (trimmed \ Hasty) : f \notin Line[b]
    BY <1>4, <2>1
  <2>3. headBest' \in Above(f, blocks) /\ \A b \in Above(f, blocks) : Height(b) <= Height(headBest')
    BY <1>0 DEF Highest
  <2>4. QED
    BY <1>0, <2>2, <2>3 DEF HeadsInv, TreeInv, Hasty
<1>10. PinInv'
  <2>1. ASSUME NEW t \in Tokens, NEW b \in released'[t] \cup goneFor'[t]
        PROVE  f \notin Line[b]
    <3>1. released[t] \cup goneFor[t] \subseteq All
      BY DEF HeadsInv, SeenInv, LegacyTypeOK
    <3>2. b \in released[t] \cup goneFor[t] \cup gone
      BY <1>g, <2>1
    <3>3. b \in released[t] \cup goneFor[t] => headFinal \notin Line[b]
      BY <1>2 DEF HeadsInv, PinInv
    <3>4. QED
      BY <1>4, <3>1, <3>2, <3>3
  <2>2. ASSUME NEW t \in On
        PROVE  /\ Above(f, blocks) = Above(f, told[t])
               /\ goneFor'[t] \subseteq told[t] \ Line[f]
               /\ \A b \in told[t] \ late :
                   b \in Line[f] \/ f \in Line[b] \/ b \in goneFor'[t]
    <3>1. t \in Tokens /\ told[t] \subseteq All
      BY DEF On, HeadsInv, SeenInv, LegacyTypeOK
    <3>2. /\ Above(headFinal, blocks) = Above(headFinal, told[t])
          /\ goneFor[t] \subseteq told[t] \ Line[headFinal]
          /\ \A b \in told[t] \ late :
                   b \in Line[headFinal] \/ headFinal \in Line[b] \/ b \in goneFor[t]
      BY <1>2, <3>1 DEF HeadsInv, PinInv
    <3>3. Above(f, blocks) = Above(f, told[t])
      BY <1>2, <1>4, <3>1, <3>2 DEF Above
    <3>4. gone \subseteq told[t] \ Line[f]
      BY <3>2 DEF Above
    <3>5. goneFor'[t] = goneFor[t] \cup gone
      BY <1>g, <3>1
    <3>6. ASSUME NEW b \in told[t] \ late, b \notin Line[f], f \notin Line[b]
          PROVE  b \in goneFor'[t]
      <4>1. b \notin Line[headFinal]
        BY <1>3, <3>6
      <4>2. headFinal \in Line[b] => b \in gone
        BY <3>2, <3>6 DEF Above
      <4>3. QED
        BY <3>2, <3>5, <4>1, <4>2
    <3>7. goneFor[t] \cap Line[f] = {}
      <4>1. SUFFICES ASSUME NEW b \in goneFor[t], b \in Line[f] PROVE FALSE
        OBVIOUS
      <4>2. b \in All /\ b \notin Line[headFinal]
        BY <3>1, <3>2
      <4>3. headFinal \in Line[b]
        BY <1>2, <1>3, <4>1, <4>2, HeadLines
      <4>4. QED
        BY <1>2, <3>1, <4>1, <4>3 DEF HeadsInv, PinInv
    <3>8. QED
      BY <3>2, <3>3, <3>4, <3>5, <3>6, <3>7
  <2>3. On' = On /\ On \subseteq Tokens
    BY DEF On
  <2>4. \A t \in Tokens : t \notin On => goneFor'[t] = goneFor[t]
    BY <1>g
  <2>5. \A t \in Tokens : viewPhase[t] \in {"off", "early"} => t \notin On
    BY DEF On
  <2>6. NothingUselessKept'
    BY DEF HeadsInv, PinInv, NothingUselessKept
  <2>7. PinInv
    BY DEF HeadsInv
  <2>8. \A b \in All : usages'[b] # {} => b \in blocks'
    BY <2>7 DEF PinInv
  <2> HIDE DEF gone
  <2>9. ASSUME NEW t \in Tokens
        PROVE  /\ viewPhase'[t] \in {"off", "early"} =>
                    told'[t] = {} /\ goneFor'[t] = {} /\ \A b \in All : t \notin usages'[b]
               /\ \A b \in released'[t] \cup goneFor'[t] : headFinal' \notin Line[b]
               /\ t \in On' => \A b \in All : t \in usages'[b] <=> b \in told'[t] \ released'[t]
    BY <1>0, <2>1, <2>3, <2>4, <2>5, <2>7 DEF PinInv
  <2>10. ASSUME NEW t \in On'
        PROVE  /\ Above(headFinal', blocks') = Above(headFinal', told'[t])
               /\ goneFor'[t] \subseteq told'[t] \ Line[headFinal']
               /\ \A b \in told'[t] \ late' :
                   b \in Line[headFinal'] \/ headFinal' \in Line[b] \/ b \in goneFor'[t]
    BY <1>0, <2>2, <2>3
  <2>11. QED
    BY <2>6, <2>8, <2>9, <2>10 DEF PinInv
<1>11. QED
  BY <1>5, <1>6, <1>7, <1>8, <1>9, <1>10 DEF HeadsInv

\* A subscription that starts pins what it is told, and nobody loses a pin.
LEMMA FollowHeadKeeps ==
  ASSUME HeadsInv, NEW t \in Tokens, FollowHead(t)
  PROVE  HeadsInv'
<1> USE DEF FollowHead, oldNodeVars, pendingVars, finVars, histVars
<1> DEFINE chain == InitialChain
           rest  == Above(headFinal, blocks) \ {headFinal}
<1>0. /\ viewPhase[t] = "off" /\ t \notin On
      /\ told[t] = {} /\ goneFor[t] = {} /\ released[t] = {}
      /\ \A b \in All : t \notin usages[b]
  BY DEF HeadsInv, PinInv, SeenInv, On
<1>1. /\ viewPhase' \in [Tokens -> {"off", "early", "on", "over"}]
      /\ \A u \in Tokens \ {t} : viewPhase'[u] = viewPhase[u]
      /\ viewPhase'[t] \in {"early", "over", "on"}
      /\ Ready => viewPhase'[t] \in {"over", "on"}
      /\ ~Ready => viewPhase'[t] = "early"
  <2>1. viewPhase \in [Tokens -> {"off", "early", "on", "over"}]
    BY DEF HeadsInv, SeenInv, LegacyTypeOK
  <2>2. viewPhase' = [viewPhase EXCEPT ![t] = IF ~Ready THEN "early"
                                              ELSE IF dead THEN "over" ELSE "on"]
    OBVIOUS
  <2>3. QED
    BY <2>1, <2>2
<1>2. On \subseteq On' /\ On' \subseteq On \cup {t} /\ On \subseteq Tokens
  BY <1>0, <1>1 DEF On
<1>3. CASE ~Ready
  <2>0. usages' = usages /\ told' = told /\ viewPhase'[t] = "early"
    BY <1>1, <1>3
  <2>1. SeenInv'
    <3>1. LegacyTypeOK'
      BY <1>1, <2>0 DEF HeadsInv, SeenInv, LegacyTypeOK
    <3>2. QED
      BY <2>0, <3>1 DEF HeadsInv, SeenInv, Seen
  <2>2. PendingInv'
    BY DEF HeadsInv, PendingInv
  <2>3. UnreadyInv'
    BY <1>1, <2>0 DEF HeadsInv, UnreadyInv, Ready, On
  <2>4. FinalInv' /\ TreeInv'
    BY DEF HeadsInv, FinalInv, TreeInv, Ready, Hasty
  <2>5. PinInv'
    BY <1>0, <1>1, <2>0 DEF HeadsInv, PinInv, Ready, On, NothingUselessKept
  <2>6. QED
    BY <2>1, <2>2, <2>3, <2>4, <2>5 DEF HeadsInv
<1>4. CASE Ready
  <2>0. /\ headFinal \in All /\ headFinal \in blocks /\ headFinal \in Line[headFinal]
        /\ blocks \subseteq All
        /\ Line[headFinal] \subseteq All /\ Height(headFinal) \in Int
        /\ {MaxInitial, MaxAsks, MaxWaiting} \subseteq Nat \ {0}
    BY <1>4, HeadLines, HeadHeights, HeadsNumbered DEF HeadsInv, SeenInv, LegacyTypeOK, FinalInv
  <2>1. /\ chain \subseteq Line[headFinal] /\ chain \subseteq blocks
        /\ rest \subseteq Above(headFinal, blocks) /\ headFinal \notin rest
    BY DEF InitialChain
  <2>2. headFinal \in chain
    <3>1. Height(headFinal) - Height(headFinal) < MaxInitial
      BY <2>0
    <3>2. Line[headFinal] \ Line[headFinal] \subseteq blocks
      OBVIOUS
    <3>3. QED
      BY <2>0, <3>1, <3>2 DEF InitialChain
  <2>3. Above(headFinal, blocks) = rest \cup {headFinal} /\ rest \subseteq All
    BY <2>0 DEF Above
  <2>4. chain \cap rest = {}
    <3>1. \A b \in rest : b \in All /\ headFinal \in Line[b] /\ b # headFinal
      BY <2>3 DEF Above
    <3>2. QED
      BY <2>0, <2>1, <3>1, HeadLines
  <2>5. /\ told' = [u \in Tokens |-> IF u \in {t} THEN chain \cup rest ELSE told[u]]
        /\ usages' = [b \in All |-> CASE b \in chain -> usages[b] \cup {t}
                                      [] b \in rest  -> usages[b] \cup On \cup {t}
                                      [] OTHER       -> usages[b]]
    BY <1>4 DEF HeadInitialized
  <2> HIDE DEF chain, rest
  <2>6. /\ told' \in [Tokens -> SUBSET All]
        /\ told'[t] = chain \cup rest
        /\ \A u \in Tokens \ {t} : told'[u] = told[u]
    BY <2>0, <2>1, <2>3, <2>5 DEF HeadsInv, SeenInv, LegacyTypeOK
  <2>7. \A b \in All : usages'[b] = (usages[b] \cup IF b \in rest THEN On \cup {t} ELSE IF b \in chain THEN {t} ELSE {})
    BY <2>4, <2>5
  <2>a. \A b \in rest : \A u \in On : u \in usages[b]
    <3>1. SUFFICES ASSUME NEW b \in rest, NEW u \in On PROVE u \in usages[b]
      OBVIOUS
    <3>2. b \in Above(headFinal, told[u]) /\ b \in All
      BY <1>2, <1>4, <2>3 DEF HeadsInv, PinInv
    <3>3. b \notin released[u]
      BY <1>2, <1>4, <3>2 DEF HeadsInv, PinInv, Above
    <3>4. QED
      BY <1>2, <3>2, <3>3 DEF HeadsInv, PinInv, Above
  <2>8. \A b \in All : usages'[b] = (usages[b] \cup IF b \in chain \cup rest THEN {t} ELSE {})
    BY <2>7, <2>a
  <2>9. SeenInv'
    <3>1. LegacyTypeOK'
      <4>1. usages' \in [All -> SUBSET Tokens]
        BY <2>5, <2>8 DEF HeadsInv, SeenInv, LegacyTypeOK
      <4>2. QED
        BY <1>1, <2>6, <4>1 DEF HeadsInv, SeenInv, LegacyTypeOK
    <3>2. chain \cup rest \subseteq Seen
      BY <2>1, <2>3 DEF HeadsInv, SeenInv, Above
    <3>3. QED
      BY <1>0, <2>6, <3>1, <3>2 DEF HeadsInv, SeenInv, Seen
  <2>10. PendingInv'
    BY DEF HeadsInv, PendingInv
  <2>11. UnreadyInv'
    BY <1>4 DEF UnreadyInv, Ready
  <2>12. FinalInv' /\ TreeInv'
    BY DEF HeadsInv, FinalInv, TreeInv, Ready, Hasty
  <2>13. NothingUselessKept'
    <3>1. \A b \in blocks : usages[b] # {} => usages'[b] # {}
      BY <2>0, <2>8
    <3>2. QED
      BY <3>1 DEF HeadsInv, PinInv, NothingUselessKept
  <2>14. \A b \in All : usages'[b] # {} => b \in blocks'
    <3>1. chain \cup rest \subseteq blocks
      BY <2>1 DEF Above
    <3>2. QED
      BY <2>8, <3>1 DEF HeadsInv, PinInv
  <2>15. ASSUME NEW u \in Tokens \ {t}
         PROVE  /\ viewPhase'[u] = viewPhase[u] /\ told'[u] = told[u]
                /\ u \in On' <=> u \in On
                /\ \A b \in All : u \in usages'[b] <=> u \in usages[b]
    BY <1>1, <2>6, <2>8 DEF On
  <2>16. Above(headFinal, chain \cup rest) = rest \cup {headFinal}
    <3>1. \A b \in chain : headFinal \in Line[b] => b = headFinal
      BY <2>0, <2>1, HeadLines
    <3>2. QED
      BY <2>0, <2>2, <2>3, <3>1 DEF Above
  <2>17. \A b \in All : t \in usages'[b] <=> b \in chain \cup rest
    BY <1>0, <2>8
  <2>18. \A b \in chain \cup rest : b \in Line[headFinal] \/ headFinal \in Line[b]
    BY <2>1, <2>3 DEF Above
  <2>19. PinInv /\ Ready'
    BY <1>4 DEF HeadsInv, Ready
  <2>20. ASSUME NEW u \in Tokens \ {t}
         PROVE  /\ viewPhase'[u] \in {"off", "early"} =>
                    told'[u] = {} /\ goneFor'[u] = {} /\ \A b \in All : u \notin usages'[b]
                /\ \A b \in released'[u] \cup goneFor'[u] : headFinal' \notin Line[b]
                /\ u \in On' =>
                     /\ \A b \in All : u \in usages'[b] <=> b \in told'[u] \ released'[u]
                     /\ Above(headFinal', blocks') = Above(headFinal', told'[u])
                     /\ goneFor'[u] \subseteq told'[u] \ Line[headFinal']
                     /\ \A b \in told'[u] \ late' :
                          b \in Line[headFinal'] \/ headFinal' \in Line[b] \/ b \in goneFor'[u]
    BY <1>4, <2>15, <2>19 DEF PinInv
  <2>21. /\ viewPhase'[t] \notin {"off", "early"}
         /\ released'[t] = {} /\ goneFor'[t] = {}
         /\ \A b \in All : t \in usages'[b] <=> b \in told'[t] \ released'[t]
         /\ Above(headFinal', blocks') = Above(headFinal', told'[t])
         /\ goneFor'[t] \subseteq told'[t] \ Line[headFinal']
         /\ \A b \in told'[t] \ late' :
                          b \in Line[headFinal'] \/ headFinal' \in Line[b] \/ b \in goneFor'[t]
    BY <1>0, <1>1, <1>4, <2>3, <2>6, <2>16, <2>17, <2>18
  <2>22. PinInv'
    BY <2>13, <2>14, <2>19, <2>20, <2>21 DEF PinInv
  <2>23. QED
    BY <2>9, <2>10, <2>11, <2>12, <2>22 DEF HeadsInv
<1>5. QED
  BY <1>3, <1>4

\* tryRemove: nothing that is used goes, the tree keeps no holes, and what is kept
\* near the block was kept for one that is used.
LEMMA RemovedFacts ==
  ASSUME NEW x \in blocks, NEW used \in SUBSET blocks, blocks \subseteq All,
         \A a, c \in blocks : a \in Line[c] => Line[c] \ Line[a] \subseteq blocks
  PROVE  /\ Removed(x, used) \cap used = {}
         /\ \A a, c \in blocks \ Removed(x, used) :
              a \in Line[c] => Line[c] \ Line[a] \subseteq blocks \ Removed(x, used)
         /\ \A y \in blocks \ Removed(x, used) :
              y \in Line[x] \/ x \in Line[y] => \E c \in used : y \in Line[c] \/ c \in Line[y]
<1> DEFINE unused == {b \in Above(x, blocks) :
                        (Line[b] \ Line[x]) \cap used = {} /\ Above(b, blocks) \cap used = {}}
           below  == {b \in Line[x] \cap blocks : Line[x] \ Line[b] \subseteq blocks}
           R == Removed(x, used)
<1>1. R = IF x \in used THEN {}
          ELSE IF below \cap used = {} THEN unused \cup below ELSE unused
  BY DEF Removed
<1>2. CASE x \in used
  BY <1>1, <1>2
<1>3. CASE x \notin used
  <2>0. \A b \in blocks : b \in All /\ b \in Line[b] /\ Line[b] \subseteq All
    BY HeadLines
  <2>1. below = Line[x] \cap blocks
    BY <2>0
  <2>2. unused \cap used = {} /\ unused \subseteq Above(x, blocks)
    BY <2>0 DEF Above
  <2>3. ASSUME NEW y \in unused, NEW z \in blocks, y \in Line[z] PROVE z \in unused
    <3>1. x \in Line[y] /\ y \in All /\ z \in All /\ x \in All
      BY <2>0 DEF Above
    <3>2. x \in Line[z] /\ Above(z, blocks) \subseteq Above(y, blocks)
      BY <2>0, <2>3, <3>1, HeadLines DEF Above
    <3>3. Line[z] \ Line[y] \subseteq Above(y, blocks)
      <4>1. Line[z] \ Line[y] \subseteq blocks
        BY <2>3 DEF Above
      <4>2. \A d \in Line[z] \ Line[y] : y \in Line[d]
        BY <2>0, <2>3, <3>1, HeadLines
      <4>3. QED
        BY <4>1, <4>2 DEF Above
    <3>4. QED
      BY <3>2, <3>3 DEF Above
  <2> HIDE DEF below, R
  <2>4. R \cap used = {}
    BY <1>1, <1>3, <2>2
  <2>5. ASSUME NEW a \in blocks \ R, NEW c \in blocks \ R, a \in Line[c], NEW z \in Line[c] \ Line[a]
        PROVE  z \in blocks \ R
    <3>1. z \in blocks /\ z \in All /\ a \in All /\ c \in All /\ x \in All
      BY <2>0, <2>5
    <3>2. a \in Line[z]
      BY <2>5, <3>1, HeadLines
    <3>3. z \notin unused
      BY <1>1, <1>3, <2>3, <2>5, <3>1
    <3>4. ASSUME z \in R PROVE FALSE
      <4>1. z \in below /\ below \subseteq R
        BY <1>1, <1>3, <3>3, <3>4
      <4>2. a \in Line[x]
        BY <2>1, <3>1, <3>2, <4>1, HeadLines
      <4>3. QED
        BY <2>1, <2>5, <4>1, <4>2
    <3>5. QED
      BY <3>1, <3>4
  <2>6. ASSUME NEW y \in blocks \ R, y \in Line[x] \/ x \in Line[y]
        PROVE  \E c \in used : y \in Line[c] \/ c \in Line[y]
    <3>1. CASE x \in Line[y]
      <4>1. y \in Above(x, blocks) /\ y \notin unused
        BY <1>1, <1>3, <3>1 DEF Above
      <4>2. CASE (Line[y] \ Line[x]) \cap used # {}
        BY <4>2
      <4>3. CASE Above(y, blocks) \cap used # {}
        BY <4>3 DEF Above
      <4>4. QED
        BY <4>1, <4>2, <4>3
    <3>2. CASE y \in Line[x]
      <4>1. y \in below
        BY <2>1, <3>2
      <4>2. PICK c \in below : c \in used
        BY <1>1, <1>3, <4>1
      <4>3. c \in Line[x] /\ c \in All /\ y \in All /\ x \in All
        BY <2>0, <2>1, <4>2
      <4>4. QED
        BY <3>2, <4>2, <4>3, HeadLines
    <3>3. QED
      BY <2>6, <3>1, <3>2
  <2>7. QED
    BY <2>4, <2>5, <2>6 DEF R
<1>4. QED
  BY <1>2, <1>3

\* A block is unpinned; what nobody needs any more goes, and nothing else.
LEMMA UnpinHeadKeeps ==
  ASSUME HeadsInv, NEW t \in Tokens, NEW b \in All, UnpinHead(t, b)
  PROVE  HeadsInv'
<1> USE DEF UnpinHead, oldNodeVars, pendingVars, finVars, histVars
<1> DEFINE used == {c \in blocks : usages[c] \ (IF c = b THEN {t} ELSE {}) # {}}
           R == Removed(b, used)
<1>0. /\ t \in On /\ Ready /\ headFinal \in blocks /\ blocks \subseteq All /\ headFinal \in All
      /\ b \in told[t] \ released[t] /\ headFinal \notin Line[b]
      /\ released' = [released EXCEPT ![t] = @ \cup {b}]
      /\ usages' = [usages EXCEPT ![b] = @ \ {t}]
      /\ blocks' = blocks \ R
  <2>1. t \in On
    BY DEF On
  <2>2. Ready
    BY <2>1 DEF HeadsInv, UnreadyInv
  <2>3. QED
    BY <2>1, <2>2 DEF HeadsInv, FinalInv, SeenInv, LegacyTypeOK
<1>1. t \in usages[b] /\ b \in blocks
  BY <1>0 DEF HeadsInv, PinInv
<1>2. /\ \A c \in All : usages'[c] = usages[c] \ (IF c = b THEN {t} ELSE {})
      /\ usages' \in [All -> SUBSET Tokens]
      /\ \A u \in Tokens : released'[u] = released[u] \cup (IF u = t THEN {b} ELSE {})
      /\ released' \in [Tokens -> SUBSET All]
  BY <1>0 DEF HeadsInv, SeenInv, LegacyTypeOK
<1>3. \A c \in All : c \in used <=> c \in blocks /\ usages'[c] # {}
  BY <1>2
<1>4. used \subseteq blocks
  OBVIOUS
<1>5. \A a, c \in blocks : a \in Line[c] => Line[c] \ Line[a] \subseteq blocks
  BY DEF HeadsInv, TreeInv
<1> HIDE DEF used
<1>6. /\ R \cap used = {}
      /\ \A a, c \in blocks \ R : a \in Line[c] => Line[c] \ Line[a] \subseteq blocks \ R
      /\ \A y \in blocks \ R :
           y \in Line[b] \/ b \in Line[y] => \E c \in used : y \in Line[c] \/ c \in Line[y]
  BY <1>0, <1>1, <1>4, <1>5, RemovedFacts
<1> HIDE DEF R
<1>7. Above(headFinal, blocks) = Above(headFinal, blocks')
  <2>1. SUFFICES ASSUME NEW y \in blocks, headFinal \in Line[y] PROVE y \notin R
    BY <1>0 DEF Above
  <2>2. y \in told[t] /\ y \notin released[t] /\ y \in All
    BY <1>0, <2>1 DEF HeadsInv, PinInv, Above
  <2>3. t \in usages[y] /\ y # b
    BY <1>0, <2>1, <2>2 DEF HeadsInv, PinInv
  <2>4. y \in used
    BY <1>2, <1>3, <2>2, <2>3
  <2>5. QED
    BY <1>6, <2>4
<1>8. headFinal \in blocks' /\ Ready'
  <2>1. headFinal \in Above(headFinal, blocks)
    BY <1>0, HeadLines DEF Above
  <2>2. QED
    BY <1>7, <2>1 DEF Above, Ready
<1>9. SeenInv'
  <2>1. LegacyTypeOK'
    BY <1>0, <1>2 DEF HeadsInv, SeenInv, LegacyTypeOK
  <2>2. QED
    BY <1>0, <1>2, <2>1 DEF HeadsInv, SeenInv, Seen
<1>10. PendingInv'
  BY <1>0 DEF HeadsInv, PendingInv
<1>11. UnreadyInv'
  BY <1>8 DEF UnreadyInv
<1>12. FinalInv'
  BY <1>0, <1>8 DEF HeadsInv, FinalInv
<1>13. TreeInv'
  <2>1. Above(headFinal, blocks)' = Above(headFinal, blocks)
    BY <1>7
  <2>2. \A a, c \in blocks' : a \in Line[c] => Line[c] \ Line[a] \subseteq blocks'
    BY <1>0, <1>6
  <2>3. QED
    BY <1>0, <2>1, <2>2 DEF HeadsInv, TreeInv, Hasty
<1>14. NothingUselessKept'
  <2> SUFFICES ASSUME NEW y \in blocks', NEW u \in Tokens, y \in released'[u]
               PROVE  \E c \in blocks' : usages'[c] # {} /\ (y \in Line[c] \/ c \in Line[y])
    BY DEF NothingUselessKept
  <2>0. y \in blocks \ R /\ y \in All
    BY <1>0
  <2>1. SUFFICES \E c \in used : y \in Line[c] \/ c \in Line[y]
    BY <1>0, <1>3, <1>4, <1>6
  <2>2. CASE y = b
    BY <1>0, <1>6, <2>0, <2>2, HeadLines
  <2>3. CASE y # b
    <3>1. y \in released[u]
      BY <1>2, <2>3
    <3>2. PICK c \in blocks : usages[c] # {} /\ (y \in Line[c] \/ c \in Line[y])
      BY <2>0, <3>1 DEF HeadsInv, PinInv, NothingUselessKept
    <3>3. CASE c = b
      BY <1>6, <2>0, <3>2, <3>3
    <3>4. CASE c # b
      BY <1>0, <1>2, <1>3, <3>2, <3>4
    <3>5. QED
      BY <3>3, <3>4
  <2>4. QED
    BY <2>2, <2>3
<1>15. PinInv'
  <2>0. PinInv
    BY DEF HeadsInv
  <2>1. ASSUME NEW c \in All, usages'[c] # {} PROVE c \in blocks'
    <3>1. c \in blocks
      BY <1>2, <2>0, <2>1 DEF PinInv
    <3>2. QED
      BY <1>0, <1>3, <1>6, <2>1, <3>1
  <2>2. ASSUME NEW u \in Tokens
        PROVE  /\ viewPhase'[u] \in {"off", "early"} =>
                    told'[u] = {} /\ goneFor'[u] = {} /\ \A c \in All : u \notin usages'[c]
               /\ \A c \in released'[u] \cup goneFor'[u] : headFinal' \notin Line[c]
    BY <1>0, <1>2, <2>0 DEF PinInv
  <2>3. ASSUME NEW u \in On
        PROVE  /\ \A c \in All : u \in usages'[c] <=> c \in told'[u] \ released'[u]
               /\ Above(headFinal', blocks') = Above(headFinal', told'[u])
               /\ goneFor'[u] \subseteq told'[u] \ Line[headFinal']
               /\ \A c \in told'[u] \ late' :
                   c \in Line[headFinal'] \/ headFinal' \in Line[c] \/ c \in goneFor'[u]
    <3>1. u \in Tokens
      BY DEF On
    <3>2. \A c \in All : u \in usages[c] <=> c \in told[u] \ released[u]
      BY <2>0, <3>1 DEF PinInv
    <3>3. \A c \in All : u \in usages'[c] <=> c \in told[u] \ released'[u]
      BY <1>1, <1>2, <3>1, <3>2
    <3>4. QED
      BY <1>0, <1>7, <2>0, <3>1, <3>3 DEF PinInv
  <2>4. On' = On
    BY DEF On
  <2>5. QED
    BY <1>14, <2>1, <2>2, <2>3, <2>4 DEF PinInv
<1>16. QED
  BY <1>9, <1>10, <1>11, <1>12, <1>13, <1>15 DEF HeadsInv

\* New blocks join the tree.
LEMMA ConnectKeeps ==
  ASSUME HeadsInv, Ready, NEW S \in SUBSET All, Connect(S), S \cap blocks = {},
         \A t \in Tokens : S \cap (released[t] \cup goneFor[t]) = {},
         \A a, c \in blocks \cup S : a \in Line[c] => Line[c] \ Line[a] \subseteq blocks \cup S,
         UNCHANGED <<headFinal, sentFin, headsWaiting, viewPhase, goneFor, released, trimmed>>,
         early \subseteq early'
  PROVE  UnreadyInv' /\ FinalInv' /\ TreeInv' /\ PinInv'
<1> USE DEF Connect
<1>0. /\ blocks' = blocks \cup S /\ blocks \subseteq All /\ headFinal \in blocks
      /\ headFinal \in All /\ headBest \in All /\ Ready'
      /\ On' = On /\ On \subseteq Tokens
  BY DEF HeadsInv, SeenInv, LegacyTypeOK, FinalInv, Ready, On
<1>1. UnreadyInv'
  BY <1>0 DEF UnreadyInv
<1>2. FinalInv'
  BY <1>0 DEF HeadsInv, FinalInv
<1>3. TreeInv'
  <2>1. /\ \A b \in late \cup (trimmed \ Hasty) : headFinal \notin Line[b]
        /\ \A b \in Above(headFinal, blocks) : Height(b) <= Height(headBest)
        /\ headBest \in late \cup Above(headFinal, blocks)
    BY DEF HeadsInv, TreeInv
  <2>2. Hasty \subseteq Hasty'
    BY DEF Hasty
  <2>3. \A b \in late' \cup (trimmed' \ Hasty') : headFinal' \notin Line[b]
    BY <2>1, <2>2
  <2>4. Above(headFinal, blocks') = Above(headFinal, blocks) \cup Above(headFinal, S)
    BY <1>0 DEF Above
  <2>5. \A b \in All : Height(b) \in Int
    BY HeadHeights
  <2>6. CASE \E b \in S : Height(b) > Height(headBest)
    <3>1. PICK b \in S : Height(b) > Height(headBest)
      BY <2>6
    <3>2. headBest' \in S /\ \A c \in S : Height(c) <= Height(headBest')
      BY <2>6 DEF Highest
    <3>3. \A c \in Above(headFinal, blocks) : Height(c) <= Height(headBest')
      <4>1. Height(headBest) <= Height(headBest')
        BY <1>0, <2>5, <3>1, <3>2
      <4>2. \A c \in Above(headFinal, blocks) : c \in All
        BY <1>0 DEF Above
      <4>3. headBest' \in All
        BY <3>2
      <4>4. QED
        BY <1>0, <2>1, <2>5, <4>1, <4>2, <4>3
    <3>4. \A c \in Above(headFinal, blocks') : Height(c) <= Height(headBest')
      BY <2>4, <3>2, <3>3 DEF Above
    <3>5. headBest' \in late' \cup Above(headFinal, blocks')
      BY <1>0, <3>2 DEF Above
    <3>6. QED
      BY <1>0, <2>3, <3>4, <3>5 DEF TreeInv
  <2>7. CASE ~\E b \in S : Height(b) > Height(headBest)
    <3>1. headBest' = headBest
      BY <2>7
    <3>2. \A c \in S : Height(c) <= Height(headBest)
      BY <1>0, <2>5, <2>7
    <3>3. \A c \in Above(headFinal, blocks') : Height(c) <= Height(headBest')
      BY <2>1, <2>4, <3>1, <3>2 DEF Above
    <3>4. headBest' \in late' \cup Above(headFinal, blocks')
      BY <2>1, <2>4, <3>1
    <3>5. QED
      BY <1>0, <2>3, <3>3, <3>4 DEF TreeInv
  <2>8. QED
    BY <2>6, <2>7
<1>4. PinInv'
  <2>0. PinInv
    BY DEF HeadsInv
  <2>1. \A b \in All : usages'[b] = IF b \in S THEN On ELSE usages[b]
    OBVIOUS
  <2>2. /\ \A t \in Tokens : told'[t] = IF t \in On THEN told[t] \cup S ELSE told[t]
        /\ \A t \in Tokens : told[t] \subseteq All
    BY DEF HeadsInv, SeenInv, LegacyTypeOK
  <2>3. \A b \in All : usages'[b] # {} => b \in blocks'
    BY <1>0, <2>0, <2>1 DEF PinInv
  <2>4. ASSUME NEW t \in Tokens
        PROVE  /\ viewPhase'[t] \in {"off", "early"} =>
                    told'[t] = {} /\ goneFor'[t] = {} /\ \A c \in All : t \notin usages'[c]
               /\ \A c \in released'[t] \cup goneFor'[t] : headFinal' \notin Line[c]
    <3>1. viewPhase'[t] \in {"off", "early"} => t \notin On
      BY DEF On
    <3>2. QED
      BY <2>0, <2>1, <2>2, <3>1 DEF PinInv
  <2>5. ASSUME NEW t \in On
        PROVE  /\ \A c \in All : t \in usages'[c] <=> c \in told'[t] \ released'[t]
               /\ Above(headFinal', blocks') = Above(headFinal', told'[t])
               /\ goneFor'[t] \subseteq told'[t] \ Line[headFinal']
               /\ \A c \in told'[t] \ late' :
                   c \in Line[headFinal'] \/ headFinal' \in Line[c] \/ c \in goneFor'[t]
    <3>1. t \in Tokens /\ told'[t] = told[t] \cup S
      BY <1>0, <2>2
    <3>2. /\ \A c \in All : t \in usages[c] <=> c \in told[t] \ released[t]
          /\ Above(headFinal, blocks) = Above(headFinal, told[t])
          /\ goneFor[t] \subseteq told[t] \ Line[headFinal]
          /\ \A c \in told[t] \ late :
                   c \in Line[headFinal] \/ headFinal \in Line[c] \/ c \in goneFor[t]
      BY <2>0, <2>5, <3>1 DEF PinInv
    <3>3. \A c \in All : t \in usages'[c] <=> c \in told'[t] \ released'[t]
      BY <2>1, <3>1, <3>2
    <3>4. Above(headFinal', blocks') = Above(headFinal', told'[t])
      BY <1>0, <3>1, <3>2 DEF Above
    <3>5. \A c \in told'[t] \ late' :
                   c \in Line[headFinal'] \/ headFinal' \in Line[c] \/ c \in goneFor'[t]
      BY <3>1, <3>2
    <3>6. QED
      BY <3>1, <3>2, <3>3, <3>4, <3>5
  <2>6. NothingUselessKept'
    <3> SUFFICES ASSUME NEW y \in blocks', NEW u \in Tokens, y \in released'[u]
                 PROVE  \E c \in blocks' : usages'[c] # {} /\ (y \in Line[c] \/ c \in Line[y])
      BY DEF NothingUselessKept
    <3>1. y \in blocks /\ y \in released[u]
      BY <1>0
    <3>2. PICK c \in blocks : usages[c] # {} /\ (y \in Line[c] \/ c \in Line[y])
      BY <2>0, <3>1 DEF PinInv, NothingUselessKept
    <3>3. QED
      BY <1>0, <2>1, <3>2
  <2>7. QED
    BY <1>0, <2>3, <2>4, <2>5, <2>6 DEF PinInv
<1>5. QED
  BY <1>1, <1>2, <1>3, <1>4

\* The tree stays as it is.
LEMMA NothingKeeps ==
  ASSUME HeadsInv, Nothing,
         UNCHANGED <<headFinal, sentFin, headsWaiting, viewPhase, goneFor, released>>,
         Ready => \A b \in trimmed' \ Hasty' : headFinal \notin Line[b]
  PROVE  FinalInv' /\ TreeInv' /\ PinInv'
<1> USE DEF Nothing
<1>1. FinalInv'
  BY DEF HeadsInv, FinalInv, Ready
<1>2. TreeInv'
  <2>1. Ready' <=> Ready
    BY DEF Ready
  <2>2. QED
    BY <2>1 DEF HeadsInv, TreeInv
<1>3. PinInv'
  BY DEF HeadsInv, PinInv, Ready, On, NothingUselessKept
<1>4. QED
  BY <1>1, <1>2, <1>3

\* The pending blocks that hang from x are forgotten, if x hangs from none.
LEMMA ForgetKeeps ==
  ASSUME HeadsInv, NEW x \in All, Forget(Hanging(x)), x = Genesis \/ x \notin kids[Parent(x)]
  PROVE  /\ pending' \in [All -> {"no", "asked", "known"}]
         /\ kids' \in [All -> SUBSET All]
         /\ \A b \in All : kids'[b] \subseteq kids[b] /\ (pending'[b] # "no" => pending[b] # "no")
         /\ \A b \in Hanging(x) : kids'[b] = {} /\ pending'[b] = "no"
         /\ \A p \in All : \A c \in kids'[p] :
              c # Genesis /\ Parent(c) = p /\ pending'[c] = "known" /\ pending'[p] # "no"
<1> DEFINE H == Hanging(x)
<1>0. /\ \A b \in All : pending'[b] = (IF b \in H THEN "no" ELSE pending[b])
                        /\ kids'[b] = IF b \in H THEN {} ELSE kids[b]
      /\ pending' \in [All -> {"no", "asked", "known"}]
      /\ kids' \in [All -> SUBSET All]
      /\ H \subseteq All
      /\ \A b \in All : kids[b] \subseteq All
  <2>1. H \subseteq All
    BY HangingFacts
  <2> HIDE DEF H
  <2>2. /\ pending' = [b \in All |-> IF b \in H THEN "no" ELSE pending[b]]
        /\ kids' = [b \in All |-> IF b \in H THEN {} ELSE kids[b]]
    BY DEF Forget, H
  <2>3. QED
    BY <2>1, <2>2 DEF HeadsInv, SeenInv, LegacyTypeOK
<1>1. \A c \in H \ {x} : Parent(c) \in H
  BY HangingFacts
<1> HIDE DEF H
<1>2. ASSUME NEW p \in All, NEW c \in kids'[p]
      PROVE  c # Genesis /\ Parent(c) = p /\ pending'[c] = "known" /\ pending'[p] # "no"
  <2>1. p \notin H /\ c \in kids[p] /\ c \in All
    BY <1>0, <1>2
  <2>2. c # Genesis /\ Parent(c) = p /\ pending[c] = "known" /\ pending[p] # "no"
    BY <2>1 DEF HeadsInv, PendingInv
  <2>3. c \notin H
    BY <1>1, <2>1, <2>2
  <2>4. QED
    BY <1>0, <2>1, <2>2, <2>3
<1>3. QED
  BY <1>0, <1>2 DEF H

\* A head that hangs in the tree.
LEMMA HeadConnects ==
  ASSUME HeadsInv, NEW b \in All, HeadComes(b), HeadParent[b] \in blocks
  PROVE  HeadsInv'
<1> USE DEF HeadComes, pendingVars
<1> DEFINE p == Parent(b)
<1>0. /\ b \in Heads /\ b \notin Seen /\ p = HeadParent[b] /\ p \in blocks /\ p \in Seen /\ p \in All
      /\ Connect({b}) /\ UNCHANGED <<pending, kids, asks>>
      /\ headsHeard' = headsHeard \cup {b} /\ Line[b] = {b} \cup Line[p] /\ Ready
      /\ early' = early
  BY HeadParents, HeadsNumbered DEF Seen, Ready
<1> HIDE DEF p
<1>1. /\ \A t \in Tokens : b \notin told[t] /\ b \notin released[t] /\ b \notin goneFor[t]
      /\ b \notin blocks /\ pending[b] = "no" /\ asks[b] = 0 /\ kids[b] = {}
  <2>1. ASSUME NEW t \in Tokens PROVE b \notin told[t] /\ b \notin released[t] /\ b \notin goneFor[t]
    BY <1>0 DEF HeadsInv, SeenInv
  <2>2. asks[b] \in Nat
    BY HeadsNumbered DEF HeadsInv, SeenInv, LegacyTypeOK
  <2>3. b \notin blocks /\ pending[b] = "no" /\ asks[b] = 0
    BY <1>0, <2>2 DEF HeadsInv, SeenInv
  <2>4. kids[b] = {}
    BY <2>3 DEF HeadsInv, PendingInv
  <2>5. QED
    BY <2>1, <2>3, <2>4
<1>2. SeenInv'
  <2>1. LegacyTypeOK'
    <3>1. headBest' \in All
      BY <1>0 DEF Connect, Highest, HeadsInv, SeenInv, LegacyTypeOK
    <3>2. /\ usages' \in [All -> SUBSET Tokens]
          /\ told' \in [Tokens -> SUBSET All]
      BY <1>0 DEF Connect, HeadsInv, SeenInv, LegacyTypeOK, On
    <3>3. blocks' \subseteq All /\ late' \subseteq All /\ headsHeard' \subseteq All /\ flushing' \in BOOLEAN
      BY <1>0 DEF Connect, HeadsInv, SeenInv, LegacyTypeOK
    <3>4. QED
      BY <1>0, <3>1, <3>2, <3>3 DEF HeadsInv, SeenInv, LegacyTypeOK
  <2>2. Seen' = Seen \cup {b} /\ blocks' = blocks \cup {b}
    BY <1>0 DEF Seen, Connect
  <2>3. \A c \in Seen' : Line[c] \subseteq Seen'
    BY <1>0, <2>2 DEF HeadsInv, SeenInv
  <2>4. \A t \in Tokens : told'[t] \subseteq told[t] \cup {b} /\ told[t] \subseteq told'[t]
    BY <1>0 DEF Connect
  <2>5. old' = old /\ released' = released /\ b \notin old
    BY <1>0 DEF Seen
  <2>6. QED
    BY <1>0, <2>1, <2>2, <2>3, <2>4, <2>5 DEF HeadsInv, SeenInv
<1>3. PendingInv'
  BY <1>0, <1>1 DEF HeadsInv, PendingInv, Connect
<1>4. \A a, c \in blocks \cup {b} : a \in Line[c] => Line[c] \ Line[a] \subseteq blocks \cup {b}
  <2>1. \A a, c \in blocks : a \in Line[c] => Line[c] \ Line[a] \subseteq blocks
    BY DEF HeadsInv, TreeInv
  <2>2. \A c \in blocks : b \notin Line[c]
    BY <1>0 DEF HeadsInv, SeenInv
  <2>3. \A a \in blocks : a \in Line[b] => Line[b] \ Line[a] \subseteq blocks \cup {b}
    BY <1>0, <1>1, <2>1
  <2>4. QED
    BY <2>1, <2>2, <2>3
<1>5. UnreadyInv' /\ FinalInv' /\ TreeInv' /\ PinInv'
  <2>1. {b} \in SUBSET All /\ {b} \cap blocks = {}
    BY <1>1
  <2>2. \A t \in Tokens : {b} \cap (released[t] \cup goneFor[t]) = {}
    BY <1>1
  <2>3. QED
    BY <1>0, <1>4, <2>1, <2>2, ConnectKeeps
<1>6. QED
  BY <1>2, <1>3, <1>5 DEF HeadsInv

\* A head that waits for its parent.
LEMMA HeadWaits ==
  ASSUME HeadsInv, NEW b \in All, HeadComes(b), HeadParent[b] \notin blocks
  PROVE  HeadsInv'
<1> DEFINE p == Parent(b)
<1>0. /\ b \in Heads /\ b \notin Seen /\ p = HeadParent[b] /\ p \notin blocks /\ p \in Seen
      /\ p \in All /\ p # b
      /\ Nothing
      /\ asks[p] < MaxAsks
      /\ pending' = [pending EXCEPT ![b] = "known", ![p] = IF @ = "no" THEN "asked" ELSE @]
      /\ kids' = [kids EXCEPT ![p] = @ \cup {b}, ![b] = {}]
      /\ asks' = IF pending[p] = "no" THEN [asks EXCEPT ![p] = @ + 1] ELSE asks
      /\ headsHeard' = headsHeard \cup {b} /\ Line[b] = {b} \cup Line[p]
      /\ early' = (IF Ready THEN early ELSE early \cup {b})
      /\ UNCHANGED <<old, sentFin, headFinal, headsWaiting, dead, viewPhase, goneFor,
                     released, trimmed>>
  <2>1. /\ b \in Heads /\ b \notin Seen /\ p = HeadParent[b] /\ p \notin blocks /\ p \in Seen
        /\ p \in All /\ p # b /\ Line[b] = {b} \cup Line[p]
    BY HeadParents, HeadsNumbered DEF HeadComes, Seen
  <2>2. QED
    BY <2>1 DEF HeadComes
<1> HIDE DEF p
<1>1. /\ b \notin blocks /\ pending[b] = "no" /\ asks[b] = 0 /\ kids[b] = {}
      /\ \A c \in All : asks[c] \in Nat
  <2>1. \A c \in All : asks[c] \in Nat
    BY HeadsNumbered DEF HeadsInv, SeenInv, LegacyTypeOK
  <2>2. b \notin blocks /\ pending[b] = "no" /\ asks[b] = 0
    BY <1>0, <2>1 DEF HeadsInv, SeenInv
  <2>3. kids[b] = {}
    BY <2>2 DEF HeadsInv, PendingInv
  <2>4. QED
    BY <2>1, <2>2, <2>3
<1>2. /\ \A c \in All :
           /\ pending'[c] = IF c = b THEN "known"
                            ELSE IF c = p /\ pending[c] = "no" THEN "asked" ELSE pending[c]
           /\ kids'[c] = IF c = p THEN kids[c] \cup {b} ELSE kids[c]
           /\ asks'[c] = IF c = p /\ pending[p] = "no" THEN asks[c] + 1 ELSE asks[c]
           /\ kids[c] \subseteq All
      /\ pending' \in [All -> {"no", "asked", "known"}]
      /\ kids' \in [All -> SUBSET All]
      /\ asks' \in [All -> 0 .. MaxAsks]
  <2>0. /\ pending \in [All -> {"no", "asked", "known"}]
        /\ kids \in [All -> SUBSET All]
        /\ asks \in [All -> 0 .. MaxAsks]
        /\ MaxAsks \in Nat
    BY HeadsNumbered DEF HeadsInv, SeenInv, LegacyTypeOK
  <2>1. /\ pending' \in [All -> {"no", "asked", "known"}]
        /\ \A c \in All : pending'[c] = IF c = b THEN "known"
                            ELSE IF c = p /\ pending[c] = "no" THEN "asked" ELSE pending[c]
    BY <1>0, <2>0
  <2>2. /\ kids' \in [All -> SUBSET All]
        /\ \A c \in All : /\ kids'[c] = IF c = p THEN kids[c] \cup {b} ELSE kids[c]
                          /\ kids[c] \subseteq All
    BY <1>0, <1>1, <2>0
  <2>3. /\ asks' \in [All -> 0 .. MaxAsks]
        /\ \A c \in All : asks'[c] = IF c = p /\ pending[p] = "no" THEN asks[c] + 1 ELSE asks[c]
    BY <1>0, <2>0
  <2>4. QED
    BY <2>1, <2>2, <2>3
<1>3. SeenInv'
  <2>1. LegacyTypeOK'
    <3>1. LegacyTypeOK
      BY DEF HeadsInv, SeenInv
    <3>2. /\ headsHeard' \subseteq All /\ early' \subseteq All
          /\ UNCHANGED <<old, sentFin, headFinal, headsWaiting, dead, viewPhase, goneFor,
                         released, trimmed>>
      BY <1>0, <3>1 DEF LegacyTypeOK
    <3>3. UNCHANGED <<blocks, usages, headBest, told, flushing, late>>
      BY <1>0 DEF Nothing
    <3>4. QED
      BY <1>2, <3>1, <3>2, <3>3 DEF LegacyTypeOK
  <2>2. Seen' = Seen \cup {b}
    BY <1>0 DEF Seen
  <2>3. \A c \in Seen' : Line[c] \subseteq Seen'
    BY <1>0, <2>2 DEF HeadsInv, SeenInv
  <2>4. \A c \in All : pending'[c] # "no" \/ asks'[c] > 0 => c \in Seen'
    BY <1>0, <1>1, <1>2, <2>2 DEF HeadsInv, SeenInv
  <2>5. b \notin old
    BY <1>0 DEF Seen
  <2>6. /\ old' \cap headsHeard' = {} /\ early' \subseteq headsHeard' /\ First \in old'
        /\ blocks' \subseteq Seen'
    BY <1>0, <2>2, <2>5 DEF HeadsInv, SeenInv, Nothing
  <2>7. \A t \in Tokens : /\ told'[t] \subseteq Seen' /\ released'[t] \subseteq told'[t]
                          /\ goneFor'[t] \subseteq Seen'
    BY <1>0, <2>2 DEF HeadsInv, SeenInv, Nothing
  <2>8. QED
    BY <2>1, <2>3, <2>4, <2>6, <2>7 DEF SeenInv
<1>4. PendingInv'
  <2>0. /\ \A q \in All : \A c \in kids[q] :
             c # Genesis /\ Parent(c) = q /\ pending[c] = "known" /\ pending[q] # "no"
        /\ \A q \in blocks :
             /\ pending[q] # "no" => q = First
             /\ \A c \in kids[q] : c \in early /\ asks[c] = 0
    BY DEF HeadsInv, PendingInv
  <2>1. ASSUME NEW q \in All, NEW c \in kids'[q]
        PROVE  c # Genesis /\ Parent(c) = q /\ pending'[c] = "known" /\ pending'[q] # "no"
    <3>1. CASE c = b
      <4>1. q = p
        BY <1>1, <1>2, <2>0, <2>1, <3>1
      <4>2. QED
        BY <1>0, <1>2, <3>1, <4>1, HeadsNumbered DEF p
    <3>2. CASE c # b
      <4>1. c \in kids[q] /\ c \in All
        BY <1>2, <2>1, <3>2
      <4>2. QED
        BY <1>2, <2>0, <4>1
    <3>3. QED
      BY <3>1, <3>2
  <2>2. ASSUME NEW q \in blocks
        PROVE  /\ pending'[q] # "no" => q = First
               /\ \A c \in kids'[q] : c \in early' /\ asks'[c] = 0
    <3>1. q # p /\ q # b /\ q \in All
      BY <1>0, <1>1 DEF HeadsInv, SeenInv, LegacyTypeOK
    <3>2. pending'[q] = pending[q] /\ kids'[q] = kids[q] /\ kids[q] \subseteq All
      BY <1>2, <3>1
    <3>3. \A c \in kids[q] : asks'[c] = asks[c]
      <4>1. \A c \in kids[q] : c \in All /\ pending[c] = "known"
        BY <2>0, <3>1, <3>2
      <4>2. QED
        BY <1>2, <4>1
    <3>4. QED
      BY <1>0, <2>0, <3>2, <3>3
  <2>3. blocks' = blocks
    BY <1>0 DEF Nothing
  <2>4. QED
    BY <2>1, <2>2, <2>3 DEF PendingInv
<1>5. UnreadyInv'
  <2> SUFFICES ASSUME ~Ready' PROVE UnreadyInv'
    BY DEF UnreadyInv
  <2>1. ~Ready
    BY <1>0 DEF Nothing, Ready
  <2>2. /\ headsHeard = early
        /\ \A c \in early : pending[c] = "known" /\ asks[c] = 0
        /\ \A q \in All : kids[q] \subseteq early
    BY <2>1 DEF HeadsInv, UnreadyInv
  <2>3. early' = early \cup {b} /\ early \subseteq All
    BY <1>0, <2>1 DEF HeadsInv, SeenInv, LegacyTypeOK
  <2>4. \A c \in early' : pending'[c] = "known" /\ asks'[c] = 0
    BY <1>0, <1>1, <1>2, <2>2, <2>3
  <2>5. \A q \in All : kids'[q] \subseteq early'
    BY <1>2, <2>2, <2>3
  <2>6. On' = On
    BY <1>0 DEF On
  <2>7. QED
    BY <1>0, <2>1, <2>2, <2>3, <2>4, <2>5, <2>6 DEF HeadsInv, UnreadyInv, Nothing
<1>6. FinalInv' /\ TreeInv' /\ PinInv'
  <2>1. Hasty \subseteq Hasty'
    BY <1>0 DEF Hasty
  <2>2. Ready => \A c \in trimmed' \ Hasty' : headFinal \notin Line[c]
    BY <1>0, <2>1 DEF HeadsInv, TreeInv
  <2>3. QED
    BY <1>0, <2>2, NothingKeeps
<1>7. QED
  BY <1>3, <1>4, <1>5, <1>6 DEF HeadsInv

\* The parent is pending too.
LEMMA HeaderGoesOnKeeps ==
  ASSUME HeadsInv, NEW r \in All, HeaderGoesOn(r)
  PROVE  HeadsInv'
<1> DEFINE p == Parent(r)
<1>0. r # Genesis
  <2>1. headFinal \in All /\ Height(headFinal) \in Int /\ Height(Genesis) \in Int
    BY HeadHeights, HeadsNumbered DEF HeadsInv, SeenInv, LegacyTypeOK
  <2>2. Height(Genesis) <= Height(headFinal)
    BY <2>1, HeadHeights, HeadLines, HeadsNumbered
  <2>3. QED
    BY <2>1, <2>2 DEF HeaderGoesOn
<1>1. /\ r \in Heads /\ p \in All /\ p # r /\ p \notin blocks /\ Line[r] = {r} \cup Line[p]
      /\ Nothing /\ Ready /\ asks[r] > 0 /\ asks[p] < MaxAsks /\ pending[r] # "no"
      /\ pending' = [pending EXCEPT ![r] = "known", ![p] = IF @ = "no" THEN "asked" ELSE @]
      /\ kids' = [kids EXCEPT ![p] = @ \cup {r}]
      /\ asks' = [asks EXCEPT ![r] = @ - 1, ![p] = IF pending[p] = "no" THEN @ + 1 ELSE @]
      /\ p \in Line[p] /\ p = Parent(r)
      /\ UNCHANGED <<old, headsHeard, sentFin, headFinal, headsWaiting, dead, viewPhase, goneFor,
                     released, trimmed, early>>
  <2>1. r \in Heads /\ p \in All /\ p # r /\ Line[r] = {r} \cup Line[p] /\ p \in Line[p]
    BY <1>0, HeadParents, HeadLines, HeadsNumbered
  <2>2. QED
    BY <2>1 DEF HeaderGoesOn, oldNodeVars
<1> HIDE DEF p
<1>2. /\ \A c \in All :
           /\ pending'[c] = IF c = r THEN "known"
                            ELSE IF c = p /\ pending[c] = "no" THEN "asked" ELSE pending[c]
           /\ kids'[c] = IF c = p THEN kids[c] \cup {r} ELSE kids[c]
           /\ asks'[c] = IF c = r THEN asks[c] - 1
                         ELSE IF c = p /\ pending[p] = "no" THEN asks[c] + 1 ELSE asks[c]
           /\ kids[c] \subseteq All /\ asks[c] \in Nat
      /\ pending' \in [All -> {"no", "asked", "known"}]
      /\ kids' \in [All -> SUBSET All]
      /\ asks' \in [All -> 0 .. MaxAsks]
  <2>0. /\ pending \in [All -> {"no", "asked", "known"}]
        /\ kids \in [All -> SUBSET All]
        /\ asks \in [All -> 0 .. MaxAsks]
        /\ MaxAsks \in Nat
    BY HeadsNumbered DEF HeadsInv, SeenInv, LegacyTypeOK
  <2>1. /\ pending' \in [All -> {"no", "asked", "known"}]
        /\ \A c \in All : pending'[c] = IF c = r THEN "known"
                            ELSE IF c = p /\ pending[c] = "no" THEN "asked" ELSE pending[c]
    BY <1>1, <2>0
  <2>2. /\ kids' \in [All -> SUBSET All]
        /\ \A c \in All : /\ kids'[c] = IF c = p THEN kids[c] \cup {r} ELSE kids[c]
                          /\ kids[c] \subseteq All
    BY <1>1, <2>0
  <2>3. /\ asks' \in [All -> 0 .. MaxAsks]
        /\ \A c \in All : /\ asks'[c] = IF c = r THEN asks[c] - 1
                               ELSE IF c = p /\ pending[p] = "no" THEN asks[c] + 1 ELSE asks[c]
                          /\ asks[c] \in Nat
    BY <1>1, <2>0
  <2>4. QED
    BY <2>1, <2>2, <2>3
<1>3. SeenInv'
  <2>1. LegacyTypeOK'
    BY <1>1, <1>2 DEF Nothing, HeadsInv, SeenInv, LegacyTypeOK
  <2>2. r \in Seen
    BY <1>1 DEF HeadsInv, SeenInv
  <2>3. p \in Seen
    BY <1>1, <2>2 DEF HeadsInv, SeenInv
  <2>4. \A c \in All : pending'[c] # "no" \/ asks'[c] > 0 => c \in Seen
    BY <1>2, <2>2, <2>3 DEF HeadsInv, SeenInv
  <2>5. Seen' = Seen
    BY <1>1 DEF Seen
  <2>6. QED
    BY <1>1, <2>1, <2>4, <2>5 DEF HeadsInv, SeenInv, Nothing
<1>4. PendingInv'
  <2>0. /\ \A q \in All : \A c \in kids[q] :
             c # Genesis /\ Parent(c) = q /\ pending[c] = "known" /\ pending[q] # "no"
        /\ \A q \in blocks :
             /\ pending[q] # "no" => q = First
             /\ \A c \in kids[q] : c \in early /\ asks[c] = 0
    BY DEF HeadsInv, PendingInv
  <2>1. ASSUME NEW q \in All, NEW c \in kids'[q]
        PROVE  c # Genesis /\ Parent(c) = q /\ pending'[c] = "known" /\ pending'[q] # "no"
    <3>1. CASE c \in kids[q]
      BY <1>2, <2>0, <3>1
    <3>2. CASE c \notin kids[q]
      BY <1>0, <1>1, <1>2, <2>1, <3>2
    <3>3. QED
      BY <3>1, <3>2
  <2>2. ASSUME NEW q \in blocks
        PROVE  /\ pending'[q] # "no" => q = First
               /\ \A c \in kids'[q] : c \in early' /\ asks'[c] = 0
    <3>1. q # p /\ q \in All
      BY <1>1 DEF HeadsInv, SeenInv, LegacyTypeOK
    <3>2. kids'[q] = kids[q] /\ kids[q] \subseteq All /\ (pending'[q] # "no" => pending[q] # "no")
      BY <1>1, <1>2, <3>1
    <3>3. \A c \in kids[q] : asks'[c] = 0
      <4>1. \A c \in kids[q] : c # r /\ pending[c] # "no" /\ asks[c] = 0
        BY <1>1, <2>0, <3>1
      <4>2. QED
        BY <1>2, <3>2, <4>1
    <3>4. QED
      BY <1>1, <2>0, <3>2, <3>3
  <2>3. blocks' = blocks
    BY <1>1 DEF Nothing
  <2>4. QED
    BY <2>1, <2>2, <2>3 DEF PendingInv
<1>5. UnreadyInv'
  BY <1>1 DEF UnreadyInv, Ready, Nothing
<1>6. FinalInv' /\ TreeInv' /\ PinInv'
  <2>2. Ready => \A c \in trimmed' \ Hasty' : headFinal \notin Line[c]
    BY <1>1 DEF HeadsInv, TreeInv, Hasty
  <2>3. QED
    BY <1>1, <2>2, NothingKeeps
<1>7. QED
  BY <1>3, <1>4, <1>5, <1>6 DEF HeadsInv

\* The header of a block that was forgotten.
LEMMA NotPendingKeeps ==
  ASSUME HeadsInv, NEW r \in All, HeaderEnds(r), NotPending(r)
  PROVE  HeadsInv'
<1>0. /\ Nothing /\ Ready /\ asks[r] > 0 /\ asks' = [asks EXCEPT ![r] = @ - 1]
      /\ UNCHANGED <<old, headsHeard, sentFin, headFinal, headsWaiting, dead, viewPhase,
                     goneFor, released, early, pending, kids, trimmed>>
  BY DEF HeaderEnds, NotPending, oldNodeVars
<1>1. /\ asks' \in [All -> 0 .. MaxAsks]
      /\ \A b \in All : asks[b] = 0 => asks'[b] = 0
      /\ \A b \in All : asks'[b] > 0 => asks[b] > 0
  BY <1>0, EndedAsks
<1>2. SeenInv'
  <2>1. LegacyTypeOK'
    BY <1>0, <1>1 DEF Nothing, HeadsInv, SeenInv, LegacyTypeOK
  <2>2. Seen' = Seen
    BY <1>0 DEF Seen
  <2>3. QED
    BY <1>0, <1>1, <2>1, <2>2 DEF HeadsInv, SeenInv, Nothing
<1>3. PendingInv'
  <2>1. \A b \in blocks : \A c \in kids[b] : b \in All /\ c \in All
    BY DEF HeadsInv, SeenInv, LegacyTypeOK
  <2>2. QED
    BY <1>0, <1>1, <2>1 DEF HeadsInv, PendingInv, Nothing
<1>4. UnreadyInv'
  BY <1>0 DEF UnreadyInv, Ready, Nothing
<1>5. FinalInv' /\ TreeInv' /\ PinInv'
  <2>1. Ready => \A b \in trimmed' \ Hasty' : headFinal \notin Line[b]
    BY <1>0 DEF HeadsInv, TreeInv, Hasty
  <2>2. QED
    BY <1>0, <2>1, NothingKeeps
<1>6. QED
  BY <1>2, <1>3, <1>4, <1>5 DEF HeadsInv

\* What hangs from x is given up; nothing of it could be finalized, but for hasty heads.
LEMMA TrimKeeps ==
  ASSUME HeadsInv, Ready, NEW r \in All, asks[r] > 0, asks' = [asks EXCEPT ![r] = @ - 1],
         NEW x \in All, Trim(x), x = Genesis \/ x \notin kids[Parent(x)], Nothing,
         UNCHANGED <<old, headsHeard, sentFin, headFinal, headsWaiting, dead, viewPhase,
                     goneFor, released, early>>,
         \A b \in (Hanging(x) \cap headsHeard) \ Hasty : headFinal \notin Line[b]
  PROVE  HeadsInv'
<1>0. Forget(Hanging(x)) /\ trimmed' = trimmed \cup (Hanging(x) \cap headsHeard)
  BY DEF Trim
<1>1. /\ asks' \in [All -> 0 .. MaxAsks]
      /\ \A b \in All : asks[b] = 0 => asks'[b] = 0
      /\ \A b \in All : asks'[b] > 0 => asks[b] > 0
  BY EndedAsks
<1>2. /\ pending' \in [All -> {"no", "asked", "known"}]
      /\ kids' \in [All -> SUBSET All]
      /\ \A b \in All : kids'[b] \subseteq kids[b] /\ (pending'[b] # "no" => pending[b] # "no")
      /\ \A p \in All : \A c \in kids'[p] :
           c # Genesis /\ Parent(c) = p /\ pending'[c] = "known" /\ pending'[p] # "no"
  BY <1>0, ForgetKeeps
<1>3. SeenInv'
  <2>1. LegacyTypeOK'
    <3>1. Hanging(x) \subseteq All
      BY HangingFacts
    <3>2. trimmed' \subseteq All
      BY <1>0, <3>1 DEF HeadsInv, SeenInv, LegacyTypeOK
    <3>3. QED
      BY <1>1, <1>2, <3>2 DEF Nothing, HeadsInv, SeenInv, LegacyTypeOK
  <2>2. Seen' = Seen
    BY DEF Seen
  <2>3. QED
    BY <1>1, <1>2, <2>1, <2>2 DEF HeadsInv, SeenInv, Nothing
<1>4. PendingInv'
  <2>1. \A b \in blocks : b \in All /\ kids[b] \subseteq All
    BY DEF HeadsInv, SeenInv, LegacyTypeOK
  <2>2. blocks' = blocks
    BY DEF Nothing
  <2>3. ASSUME NEW b \in blocks
        PROVE  /\ pending'[b] # "no" => b = First
               /\ \A c \in kids'[b] : c \in early' /\ asks'[c] = 0
    BY <1>1, <1>2, <2>1 DEF HeadsInv, PendingInv
  <2>4. QED
    BY <1>2, <2>2, <2>3 DEF PendingInv
<1>5. UnreadyInv'
  BY DEF UnreadyInv, Ready, Nothing
<1>6. FinalInv' /\ TreeInv' /\ PinInv'
  <2>1. Hasty' = Hasty
    BY DEF Hasty
  <2>2. \A b \in trimmed' \ Hasty' : headFinal \notin Line[b]
    BY <1>0, <2>1 DEF HeadsInv, TreeInv
  <2>3. QED
    BY <2>2, NothingKeeps
<1>7. QED
  BY <1>3, <1>4, <1>5, <1>6 DEF HeadsInv

\* The top of what r hangs from is below the finalized block: of what hangs from it, only
\* hasty heads are above that block.
LEMMA TooLowKeeps ==
  ASSUME HeadsInv, NEW r \in All, HeaderEnds(r), TooLow(r)
  PROVE  HeadsInv'
<1> DEFINE x == PendingTop(r)
<1>0. /\ Nothing /\ Ready /\ asks[r] > 0 /\ asks' = [asks EXCEPT ![r] = @ - 1]
      /\ UNCHANGED <<old, headsHeard, sentFin, headFinal, headsWaiting, dead, viewPhase,
                     goneFor, released, early>>
      /\ pending[r] # "no" /\ Height(r) <= Height(headFinal) /\ Trim(x)
  BY DEF HeaderEnds, TooLow, oldNodeVars
<1>1. /\ x \in Line[r] /\ pending[x] # "no"
      /\ x = Genesis \/ pending[Parent(x)] = "no" \/ pending[x] # "known"
  BY <1>0, TopFacts
<1> HIDE DEF x
<1>2. x \in All /\ Parent(x) \in All /\ headFinal \in All /\ headFinal \in blocks
  BY <1>0, <1>1, HeadLines, HeadsNumbered DEF HeadsInv, SeenInv, LegacyTypeOK, FinalInv
<1>3. x = Genesis \/ x \notin kids[Parent(x)]
  BY <1>1, <1>2 DEF HeadsInv, PendingInv
<1>4. ASSUME NEW c \in Hanging(x), c \in headsHeard, headFinal \in Line[c]
      PROVE  c \in Hasty
  <2>0. /\ c \in All /\ x \in Line[c] /\ \A d \in Line[c] \ Line[x] : d \in kids[Parent(d)]
        /\ c # x => c \in Heads /\ c \in kids[Parent(c)]
    BY <1>2, HangingFacts
  <2>1. x \in Line[headFinal]
    <3>1. x \in Line[headFinal] \/ (headFinal \in Line[x] /\ headFinal # x)
      BY <1>2, <1>4, <2>0, HeadLines
    <3>2. headFinal \in Line[x] /\ headFinal # x => Height(headFinal) < Height(r)
      <4>1. Height(x) <= Height(r)
        BY <1>1, <1>2, HeadHeights
      <4>2. headFinal \in Line[x] /\ headFinal # x => Height(headFinal) < Height(x)
        BY <1>2, HeadHeights
      <4>3. Height(x) \in Int /\ Height(r) \in Int /\ Height(headFinal) \in Int
        BY <1>2, HeadHeights
      <4>4. QED
        BY <4>1, <4>2, <4>3
    <3>3. Height(r) \in Int /\ Height(headFinal) \in Int
      BY <1>2, HeadHeights
    <3>4. QED
      BY <1>0, <3>1, <3>2, <3>3
  <2>2. c # headFinal
    <3>1. SUFFICES ASSUME c = headFinal PROVE FALSE
      OBVIOUS
    <3>2. pending[c] # "no"
      BY <1>1, <2>0, HeadsNumbered DEF HeadsInv, PendingInv
    <3>3. c = First
      BY <1>2, <3>1, <3>2 DEF HeadsInv, PendingInv
    <3>4. QED
      BY <1>4, <3>3 DEF HeadsInv, SeenInv
  <2>3. PICK d \in Heads : d \in Line[c] /\ Parent(d) = headFinal
    BY <1>2, <1>4, <2>0, <2>2, HeadParents
  <2>4. d \notin Line[x]
    <3>1. d \in All
      BY HeadsNumbered
    <3>2. d \in Line[x] => d \in Line[headFinal]
      BY <1>2, <2>1, <3>1, HeadLines
    <3>3. QED
      BY <2>3, <3>2, HeadParents
  <2>5. d \in kids[headFinal]
    BY <2>0, <2>3, <2>4
  <2>6. d \in early
    BY <1>2, <2>5 DEF HeadsInv, PendingInv
  <2>7. QED
    BY <2>0, <2>3, <2>6 DEF Hasty
<1>5. QED
  BY <1>0, <1>2, <1>3, <1>4, TrimKeeps

\* Its parent is in the tree.
LEMMA JoinsTreeKeeps ==
  ASSUME HeadsInv, NEW r \in All, HeaderEnds(r), JoinsTree(r)
  PROVE  HeadsInv'
<1> DEFINE H == Hanging(r)
<1>0. /\ Ready /\ asks[r] > 0 /\ asks' = [asks EXCEPT ![r] = @ - 1]
      /\ UNCHANGED <<old, headsHeard, sentFin, headFinal, headsWaiting, dead, viewPhase,
                     goneFor, released, early>>
      /\ pending[r] # "no" /\ Height(r) > Height(headFinal) /\ Parent(r) \in blocks
      /\ IF headFinal \in Line[r]
           THEN Forget(H) /\ Connect(H) /\ UNCHANGED trimmed
           ELSE Trim(r) /\ Nothing
  BY DEF HeaderEnds, JoinsTree, oldNodeVars
<1>1. r \notin kids[Parent(r)]
  <2>1. asks[r] # 0
    BY <1>0
  <2>2. QED
    BY <1>0, <2>1 DEF HeadsInv, PendingInv
<1>2. /\ headFinal \in All /\ headFinal \in blocks /\ blocks \subseteq All
      /\ Height(headFinal) \in Int /\ Height(r) \in Int
  BY <1>0, HeadHeights DEF HeadsInv, SeenInv, LegacyTypeOK, FinalInv
<1>a. r \notin Line[headFinal]
  BY <1>0, <1>2, HeadHeights
<1>b. r \in Heads /\ Line[r] = {r} \cup Line[Parent(r)]
  <2>1. r # Genesis
    BY <1>2, <1>a, HeadLines
  <2>2. QED
    BY <2>1, HeadParents, HeadsNumbered
<1> HIDE DEF H
<1>3. CASE headFinal \notin Line[r]
  <2>1. ASSUME NEW c \in Hanging(r), headFinal \in Line[c] PROVE FALSE
    <3>1. r \in Line[c] /\ c \in All
      BY HangingFacts
    <3>2. QED
      BY <1>2, <1>3, <1>a, <2>1, <3>1, HeadLines
  <2>2. QED
    BY <1>0, <1>1, <1>3, <2>1, TrimKeeps
<1>4. CASE headFinal \in Line[r]
  <2>0. Forget(Hanging(r)) /\ Connect(H) /\ UNCHANGED trimmed
    BY <1>0, <1>4 DEF H
  <2>1. /\ asks' \in [All -> 0 .. MaxAsks]
        /\ \A b \in All : asks[b] = 0 => asks'[b] = 0
        /\ \A b \in All : asks'[b] > 0 => asks[b] > 0
    BY <1>0, EndedAsks
  <2>2. /\ pending' \in [All -> {"no", "asked", "known"}]
        /\ kids' \in [All -> SUBSET All]
        /\ \A b \in All : kids'[b] \subseteq kids[b] /\ (pending'[b] # "no" => pending[b] # "no")
        /\ \A b \in H : kids'[b] = {} /\ pending'[b] = "no"
        /\ \A p \in All : \A c \in kids'[p] :
             c # Genesis /\ Parent(c) = p /\ pending'[c] = "known" /\ pending'[p] # "no"
    BY <1>1, <2>0, ForgetKeeps DEF H
  <2>3. /\ H \subseteq All /\ r \in H
        /\ \A c \in H : r \in Line[c] /\ Line[c] \ Line[r] \subseteq H /\ pending[c] # "no"
    <3>1. /\ H \subseteq All /\ r \in H
          /\ \A c \in H : r \in Line[c] /\ Line[c] \ Line[r] \subseteq H
          /\ \A c \in H \ {r} : c \in kids[Parent(c)]
      BY HangingFacts DEF H
    <3>2. \A c \in H \ {r} : pending[c] # "no"
      BY <3>1, HeadsNumbered DEF HeadsInv, PendingInv
    <3>3. QED
      BY <1>0, <3>1, <3>2
  <2>4. \A c \in H : headFinal \in Line[c] /\ c # headFinal /\ c \notin Line[headFinal]
    <3>1. SUFFICES ASSUME NEW c \in H
                   PROVE  headFinal \in Line[c] /\ c # headFinal /\ c \notin Line[headFinal]
      OBVIOUS
    <3>2. c \in All /\ r \in Line[c]
      BY <2>3
    <3>3. headFinal \in Line[c] /\ c \notin Line[headFinal]
      BY <1>2, <1>4, <1>a, <3>2, HeadLines
    <3>4. QED
      BY <1>2, <3>3, HeadLines
  <2>5. H \cap blocks = {}
    <3>1. SUFFICES ASSUME NEW c \in H, c \in blocks PROVE FALSE
      OBVIOUS
    <3>2. c = First
      BY <2>3, <3>1 DEF HeadsInv, PendingInv
    <3>3. QED
      BY <1>0, <2>4, <3>2 DEF HeadsInv, FinalInv
  <2>6. \A t \in Tokens : H \cap (released[t] \cup goneFor[t]) = {}
    BY <1>0, <2>4 DEF HeadsInv, PinInv
  <2>7. \A a, c \in blocks \cup H : a \in Line[c] => Line[c] \ Line[a] \subseteq blocks \cup H
    <3>0. \A a, c \in blocks : a \in Line[c] => Line[c] \ Line[a] \subseteq blocks
      BY DEF HeadsInv, TreeInv
    <3>1. ASSUME NEW c \in H, NEW a \in blocks, a \in Line[c]
          PROVE  Line[c] \ Line[a] \subseteq blocks \cup H
      <4>0. c \in All /\ a \in All /\ Parent(r) \in All
        BY <1>0, <1>2, <2>3
      <4>1. r \notin Line[a]
        <5>1. SUFFICES ASSUME r \in Line[a] PROVE FALSE
          OBVIOUS
        <5>2. headFinal \in Line[a] /\ Line[a] \ Line[headFinal] \subseteq blocks
          BY <1>2, <1>4, <3>0, <4>0, <5>1, HeadLines
        <5>3. QED
          BY <1>a, <2>3, <2>5, <5>1, <5>2
      <4>2. a \in Line[r]
        BY <2>3, <3>1, <4>0, <4>1, HeadLines
      <4>3. a \in Line[Parent(r)]
        BY <1>b, <2>3, <2>5, <4>2
      <4>4. Line[Parent(r)] \ Line[a] \subseteq blocks
        BY <1>0, <3>0, <4>3
      <4>5. QED
        BY <1>b, <2>3, <4>4
    <3>2. ASSUME NEW c \in blocks, NEW a \in H, a \in Line[c] PROVE FALSE
      <4>0. c \in All /\ a \in All
        BY <1>2, <2>3
      <4>1. headFinal \in Line[c]
        BY <1>2, <2>4, <3>2, <4>0, HeadLines
      <4>2. a \in Line[c] \ Line[headFinal]
        BY <2>4, <3>2
      <4>3. QED
        BY <1>2, <2>5, <3>0, <4>1, <4>2
    <3>3. ASSUME NEW c \in H, NEW a \in H, a \in Line[c] PROVE Line[c] \ Line[a] \subseteq H
      <4>1. Line[r] \subseteq Line[a]
        BY <2>3, HeadLines
      <4>2. QED
        BY <2>3, <4>1
    <3>4. QED
      BY <3>0, <3>1, <3>2, <3>3
  <2>8. SeenInv'
    <3>1. LegacyTypeOK'
      <4>1. headBest' \in All
        BY <2>0, <2>3 DEF Connect, Highest, HeadsInv, SeenInv, LegacyTypeOK
      <4>2. /\ usages' \in [All -> SUBSET Tokens]
            /\ told' \in [Tokens -> SUBSET All]
        BY <2>0, <2>3 DEF Connect, HeadsInv, SeenInv, LegacyTypeOK, On
      <4>3. blocks' \subseteq All /\ late' \subseteq All /\ flushing' \in BOOLEAN
        BY <2>0, <2>3 DEF Connect, HeadsInv, SeenInv, LegacyTypeOK
      <4>4. QED
        BY <1>0, <2>0, <2>1, <2>2, <4>1, <4>2, <4>3 DEF HeadsInv, SeenInv, LegacyTypeOK
    <3>2. Seen' = Seen
      BY <1>0 DEF Seen
    <3>3. H \subseteq Seen
      BY <2>3 DEF HeadsInv, SeenInv
    <3>4. blocks' = blocks \cup H /\ \A t \in Tokens : told'[t] \subseteq told[t] \cup H /\ told[t] \subseteq told'[t]
      BY <2>0 DEF Connect
    <3>5. QED
      BY <1>0, <2>1, <2>2, <3>1, <3>2, <3>3, <3>4 DEF HeadsInv, SeenInv
  <2>9. PendingInv'
    <3>1. \A b \in blocks : b \in All /\ kids[b] \subseteq All
      BY DEF HeadsInv, SeenInv, LegacyTypeOK
    <3>2. blocks' = blocks \cup H
      BY <2>0 DEF Connect
    <3>3. ASSUME NEW b \in blocks \cup H
          PROVE  /\ pending'[b] # "no" => b = First
                 /\ \A c \in kids'[b] : c \in early' /\ asks'[c] = 0
      BY <1>0, <2>1, <2>2, <3>1 DEF HeadsInv, PendingInv
    <3>4. QED
      BY <2>2, <3>2, <3>3 DEF PendingInv
  <2>10. UnreadyInv' /\ FinalInv' /\ TreeInv' /\ PinInv'
    <3>1. H \in SUBSET All
      BY <2>3
    <3>2. QED
      BY <1>0, <2>0, <2>5, <2>6, <2>7, <3>1, ConnectKeeps
  <2>11. QED
    BY <2>8, <2>9, <2>10 DEF HeadsInv
<1>5. QED
  BY <1>3, <1>4

-------------------------------------------------------------------------------
LEMMA HeadsInvNext == HeadsInv /\ [LegacyNext]_legacyVars => HeadsInv'
<1> SUFFICES ASSUME HeadsInv, [LegacyNext]_legacyVars PROVE HeadsInv'
  OBVIOUS
<1>1. CASE \E b \in All : HeadComes(b) \/ HeaderEnds(b) \/ HeaderGoesOn(b) \/ HeaderFails(b)
  <2>1. PICK b \in All : HeadComes(b) \/ HeaderEnds(b) \/ HeaderGoesOn(b) \/ HeaderFails(b)
    BY <1>1
  <2>2. CASE HeadComes(b)
    BY <2>2, HeadConnects, HeadWaits
  <2>3. CASE HeaderEnds(b)
    <3>1. NotPending(b) \/ TooLow(b) \/ JoinsTree(b)
      BY <2>3 DEF HeaderEnds
    <3>2. QED
      BY <2>3, <3>1, NotPendingKeeps, TooLowKeeps, JoinsTreeKeeps
  <2>4. QED
    BY <2>1, <2>2, <2>3, HeaderGoesOnKeeps, HeaderFailsKeeps
<1>2. CASE FirstFinalized \/ FinalizedComes \/ Finalizes
  BY <1>2, FirstFinalizedKeeps, FinalizedComesKeeps, HeadsFinalizesKeeps
<1>3. CASE Consumer
  <2>1. PICK t \in Tokens : FollowHead(t) \/ UnfollowHead(t) \/ \E b \in All : UnpinHead(t, b)
    BY <1>3 DEF Consumer
  <2>2. QED
    BY <2>1, FollowHeadKeeps, UnfollowHeadKeeps, UnpinHeadKeeps
<1>4. CASE UNCHANGED legacyVars
  <2> USE <1>4 DEF legacyVars, oldNodeVars, treeVars, pendingVars, finVars, viewVars, histVars
  <2>1. SeenInv'
    BY DEF HeadsInv, SeenInv, LegacyTypeOK, Seen
  <2>2. PendingInv' /\ FinalInv'
    BY DEF HeadsInv, PendingInv, FinalInv, Ready
  <2>3. UnreadyInv'
    BY DEF HeadsInv, UnreadyInv, Ready, On
  <2>4. TreeInv'
    BY DEF HeadsInv, TreeInv, Ready, Hasty
  <2>5. PinInv'
    BY DEF HeadsInv, PinInv, Ready, On, NothingUselessKept
  <2>6. QED
    BY <2>1, <2>2, <2>3, <2>4, <2>5 DEF HeadsInv
<1>5. QED
  BY <1>1, <1>2, <1>3, <1>4 DEF LegacyNext, Node

LEMMA HeadsInvSuffices == HeadsInv => HeadsAreRight
<1> SUFFICES ASSUME HeadsInv PROVE HeadsAreRight
  OBVIOUS
<1>1. LegacyTypeOK /\ NothingUselessKept
  BY DEF HeadsInv, SeenInv, PinInv
<1>2. PinsAgree
  BY DEF HeadsInv, PinInv, PinsAgree, On
<1>3. ASSUME On # {} PROVE Ready
  BY <1>3 DEF HeadsInv, UnreadyInv
<1>4. ViewIsWhole
  <2> SUFFICES ASSUME NEW t \in On
               PROVE  /\ Above(headFinal, blocks) \subseteq told[t]
                      /\ \A b \in told[t] : b \in Above(headFinal, All) =>
                           Line[b] \ Line[headFinal] \subseteq told[t] \cap blocks
                      /\ headFinal \in blocks
    BY DEF ViewIsWhole
  <2>1. Ready /\ t \in Tokens
    BY <1>3 DEF On
  <2>2. headFinal \in blocks /\ headFinal \in All /\ blocks \subseteq All
    BY <2>1 DEF HeadsInv, SeenInv, LegacyTypeOK, FinalInv
  <2>3. Above(headFinal, blocks) = Above(headFinal, told[t])
    BY <2>1 DEF HeadsInv, PinInv
  <2>4. ASSUME NEW b \in told[t], headFinal \in Line[b]
        PROVE  Line[b] \ Line[headFinal] \subseteq told[t] \cap blocks
    <3>1. b \in blocks /\ b \in All
      BY <2>2, <2>3, <2>4 DEF Above
    <3>2. Line[b] \ Line[headFinal] \subseteq blocks
      BY <2>2, <2>4, <3>1 DEF HeadsInv, TreeInv
    <3>3. \A c \in Line[b] \ Line[headFinal] : headFinal \in Line[c]
      BY <2>2, <2>4, <3>1, HeadLines
    <3>4. QED
      BY <2>3, <3>2, <3>3 DEF Above
  <2>5. QED
    BY <2>2, <2>3, <2>4 DEF Above
<1>5. BestIsRight
  BY DEF HeadsInv, TreeInv, BestIsRight, Highest
<1>6. PruningIsRight
  <2> SUFFICES ASSUME NEW t \in On
               PROVE  /\ \A b \in told[t] \ late :
                           b \notin Line[headFinal] /\ headFinal \notin Line[b] => b \in goneFor[t]
                      /\ goneFor[t] \cap Line[headFinal] = {}
                      /\ goneFor[t] \subseteq told[t]
    BY DEF PruningIsRight
  <2>1. Ready /\ t \in Tokens
    BY <1>3 DEF On
  <2>2. QED
    BY <2>1 DEF HeadsInv, PinInv
<1>7. GivenUpIsPruned
  BY DEF HeadsInv, TreeInv, UnreadyInv, GivenUpIsPruned
<1>8. QED
  BY <1>1, <1>2, <1>4, <1>5, <1>6, <1>7 DEF HeadsAreRight

\* connectedBlocks, pendingBlocks and chain-head.ts, on any tree of blocks, however heads,
\* finalized heads and headers come in: each subscription is told of the whole tree, what
\* it did not unpin is kept and nothing useless is, the best block is one of the highest,
\* what was pruned was reported and no head is given up that could be finalized.
THEOREM HeadsStayRight == LegacySpec => []HeadsAreRight
<1>1. HeadsInv /\ [LegacyNext]_legacyVars => HeadsInv'
  BY HeadsInvNext
<1>2. QED
  BY HeadsInvInit, <1>1, HeadsInvSuffices, PTL DEF LegacySpec
===============================================================================
