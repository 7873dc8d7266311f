-------------------------- MODULE JsonRpcProxyProofs --------------------------
(***************************************************************************)
(* What JsonRpcProxy guarantees for any set of requests and any number of  *)
(* connections, and LegacyRequests for any operations and pages.           *)
(***************************************************************************)
EXTENDS SyncProvider, LegacyRequests, SequenceLemmas

\* The proxy's variables always have values of their types.
LEMMA TypeCorrect == Spec => []TypeOK
<1>1. Init => TypeOK
  <2> SUFFICES ASSUME Init PROVE TypeOK
    OBVIOUS
  <2>1. /\ upToken \in [Broadcasts -> Nat]
        /\ target \in [Operations -> SUBSET Subs]
        /\ replies \in [Ids -> Nat]
    BY DEF Init
  <2>2. gone \in BOOLEAN
    BY DEF Init
  <2>3. QED
    BY <2>1, <2>2 DEF Init, TypeOK
<1>2. TypeOK /\ [Next]_vars => TypeOK'
  <2> SUFFICES ASSUME TypeOK, [Next]_vars
               PROVE  TypeOK'
    OBVIOUS
  <2> USE DEF TypeOK, Requests, Ids, Subs, TxTokens, broadcastVars, sendVars,
              loopVars, serverVars, consumerVars
  <2>1. ASSUME NEW r \in Requests, Request(r) PROVE TypeOK'
    BY <2>1 DEF Request, Send
  <2>2. ASSUME NEW o \in Operations, NEW s \in live, Unfollow(o, s) PROVE TypeOK'
    BY <2>2 DEF Unfollow, Send
  <2>3. ASSUME NEW b \in Broadcasts, Broadcast(b) PROVE TypeOK'
    BY <2>3 DEF Broadcast, Deliver
  <2>4. ASSUME NEW b \in Broadcasts, StopBroadcast(b) PROVE TypeOK'
    BY <2>4 DEF StopBroadcast
  <2>5. ASSUME Disconnect PROVE TypeOK'
    BY <2>5 DEF Disconnect, DropLink
  <2>6. ASSUME Connect PROVE TypeOK'
    BY <2>6 DEF Connect, Rebroadcast, Flushed
  <2>7. ASSUME Halt PROVE TypeOK'
    BY <2>7 DEF Halt, DropLink, LostSubs
  <2>8. ASSUME NEW r \in toFlush, Flush(r) PROVE TypeOK'
    BY <2>8 DEF Flush, Send, Ended
  <2>9. ASSUME NEW s \in toStop, DeliverStop(s) PROVE TypeOK'
    BY <2>9 DEF DeliverStop, Stop
  <2>10. ASSUME NEW r \in toSettle, Settle(r) PROVE TypeOK'
    BY <2>10 DEF Settle, Resolve, Deliver, Send
  <2>11. ASSUME NEW f \in Follows, AnswerFollow(f) PROVE TypeOK'
    BY <2>11 DEF AnswerFollow, Answered, Deliver
  <2>12. ASSUME NEW r \in Requests, AnswerRequest(r) PROVE TypeOK'
    BY <2>12 DEF AnswerRequest, Answered, Deliver, Ended
  <2>13. ASSUME NEW b \in Broadcasts, AnswerBroadcast(b) PROVE TypeOK'
    BY <2>13 DEF AnswerBroadcast, KeepToken
  <2>14. ASSUME NEW b \in Broadcasts, RefuseBroadcast(b) PROVE TypeOK'
    BY <2>14 DEF RefuseBroadcast
  <2>15. ASSUME NEW t \in txStops, AnswerTxStop(t) PROVE TypeOK'
    BY <2>15 DEF AnswerTxStop
  <2>16. ASSUME NEW s \in serverSubs, ServerStop(s) PROVE TypeOK'
    BY <2>16 DEF ServerStop, Stop
  <2>17. CASE UNCHANGED vars
    BY <2>17 DEF vars
  <2>18. QED
    BY <2>1, <2>2, <2>3, <2>4, <2>5, <2>6, <2>7, <2>8, <2>9, <2>10, <2>11,
       <2>12, <2>13, <2>14, <2>15, <2>16, <2>17
       DEF Next, Consumer, Link, Loops, Server
<1>3. QED
  BY <1>1, <1>2, PTL DEF Spec

-------------------------------------------------------------------------------
(***************************************************************************)
(* The inductive invariant of the requests: who owes which answer.         *)
(***************************************************************************)
Unanswered == {r \in Requests : r \in asked /\ replies[r] = 0}

Phases ==
    /\ state = "Done" => gone
    /\ state = "Connected" => ~gone /\ toStop = {} /\ toSettle = {} /\ pending = {}
    /\ state # "Connected" => upstream = {} /\ txStops = {} /\ serverSubs = {}
    /\ toSettle = {} \/ onGoingRequests = {}
    /\ ~gone /\ state # "Connected" => onGoingRequests = {}

Counted ==
    /\ \A i \in Ids : replies[i] <= 1
    /\ \A i \in Ids \ asked : replies[i] = 0

Owing ==
    /\ onGoingRequests \cup toSettle \subseteq Unanswered
    /\ ~gone =>
         /\ pending \cup toFlush \cup toSettle \cup onGoingRequests = Unanswered
         /\ pending \cap toFlush = {}
         /\ pending \cap toSettle = {}
         /\ pending \cap onGoingRequests = {}
         /\ toFlush \cap toSettle = {}
         /\ toFlush \cap onGoingRequests = {}

RequestInv == Phases /\ Counted /\ Owing /\ AnswersAreExpected

LEMMA RequestInvInit == Init => RequestInv
  BY DEF Init, RequestInv, Phases, Counted, Owing, Unanswered, AnswersAreExpected

LEMMA RequestInvNext == TypeOK /\ RequestInv /\ [Next]_vars => RequestInv'
  <1> SUFFICES ASSUME TypeOK, RequestInv, [Next]_vars
               PROVE  RequestInv'
    OBVIOUS
  <1> USE IdsAssumption
      DEF TypeOK, RequestInv, Phases, Counted, Owing, Unanswered,
          AnswersAreExpected, Requests, Ids, broadcastVars, sendVars, loopVars,
          serverVars, consumerVars
  <1>1. ASSUME NEW r \in Requests, Request(r) PROVE RequestInv'
    BY <1>1 DEF Request, Send
  <1>2. ASSUME NEW o \in Operations, NEW s \in live, Unfollow(o, s)
        PROVE  RequestInv'
    BY <1>2 DEF Unfollow, Send
  <1>3. ASSUME NEW b \in Broadcasts, Broadcast(b) PROVE RequestInv'
    BY <1>3 DEF Broadcast, Deliver
  <1>4. ASSUME NEW b \in Broadcasts, StopBroadcast(b) PROVE RequestInv'
    BY <1>4 DEF StopBroadcast
  <1>5. ASSUME Disconnect PROVE RequestInv'
    BY <1>5 DEF Disconnect, DropLink
  <1>6. ASSUME Connect PROVE RequestInv'
    BY <1>6 DEF Connect, Rebroadcast, Flushed, InLoop
  <1>7. ASSUME Halt PROVE RequestInv'
    BY <1>7 DEF Halt, DropLink, LostSubs
  <1>8. ASSUME NEW r \in toFlush, Flush(r) PROVE RequestInv'
    BY <1>8 DEF Flush, Send, Ended
  <1>9. ASSUME NEW s \in toStop, DeliverStop(s) PROVE RequestInv'
    BY <1>9 DEF DeliverStop, Stop
  <1>10. ASSUME NEW r \in toSettle, Settle(r) PROVE RequestInv'
    BY <1>10 DEF Settle, Resolve, Deliver, Send
  <1>11. ASSUME NEW f \in Follows, AnswerFollow(f) PROVE RequestInv'
    BY <1>11 DEF AnswerFollow, Answered, Deliver
  <1>12. ASSUME NEW r \in Requests, AnswerRequest(r) PROVE RequestInv'
    BY <1>12 DEF AnswerRequest, Answered, Deliver, Ended
  <1>13. ASSUME NEW b \in Broadcasts, AnswerBroadcast(b) PROVE RequestInv'
    BY <1>13 DEF AnswerBroadcast, KeepToken
  <1>14. ASSUME NEW b \in Broadcasts, RefuseBroadcast(b) PROVE RequestInv'
    BY <1>14 DEF RefuseBroadcast
  <1>15. ASSUME NEW t \in txStops, AnswerTxStop(t) PROVE RequestInv'
    BY <1>15 DEF AnswerTxStop
  <1>16. ASSUME NEW s \in serverSubs, ServerStop(s) PROVE RequestInv'
    BY <1>16 DEF ServerStop, Stop
  <1>17. CASE UNCHANGED vars
    BY <1>17 DEF vars
  <1>18. QED
    BY <1>1, <1>2, <1>3, <1>4, <1>5, <1>6, <1>7, <1>8, <1>9, <1>10, <1>11,
       <1>12, <1>13, <1>14, <1>15, <1>16, <1>17
       DEF Next, Consumer, Link, Loops, Server

LEMMA RequestsTracked == Spec => [](TypeOK /\ RequestInv)
  BY TypeCorrect, RequestInvInit, RequestInvNext, PTL DEF Spec

\* Whatever connections come and go, no request of the consumer is answered
\* twice.
THEOREM AnsweredAtMostOnce == Spec => []AtMostOneReply
<1>1. RequestInv => AtMostOneReply
  BY DEF RequestInv, Counted, AtMostOneReply
<1>2. QED
  BY RequestsTracked, <1>1, PTL

\* Until the consumer disconnects, each request it is still waiting on is in
\* exactly one of the places that will lead to its answer.
THEOREM NoRequestLostOrDoubled == Spec => []OwedExactlyOnce
<1>1. TypeOK /\ RequestInv => OwedExactlyOnce
  <2> SUFFICES ASSUME TypeOK, RequestInv, ~gone, NEW r \in Requests
               PROVE  (IF r \in pending THEN 1 ELSE 0)
                        + (IF r \in toFlush THEN 1 ELSE 0)
                        + (IF r \in toSettle THEN 1 ELSE 0)
                        + (IF r \in onGoingRequests THEN 1 ELSE 0)
                        = IF r \in asked /\ replies[r] = 0 THEN 1 ELSE 0
    BY DEF OwedExactlyOnce
  <2>1. r \in asked /\ replies[r] = 0 <=>
          \/ r \in pending
          \/ r \in toFlush
          \/ r \in toSettle
          \/ r \in onGoingRequests
    BY DEF RequestInv, Owing, Unanswered
  <2>2. /\ r \in pending => r \notin toFlush \cup toSettle \cup onGoingRequests
        /\ r \in toFlush => r \notin toSettle \cup onGoingRequests
        /\ r \in toSettle => r \notin onGoingRequests
    BY DEF RequestInv, Owing, Phases
  <2>3. QED
    BY <2>1, <2>2
<1>2. QED
  BY RequestsTracked, <1>1, PTL

\* A response of the server always finds the request it answers.
THEOREM ResponsesAreExpected == Spec => []AnswersAreExpected
<1>1. RequestInv => AnswersAreExpected
  BY DEF RequestInv
<1>2. QED
  BY RequestsTracked, <1>1, PTL

-------------------------------------------------------------------------------
(***************************************************************************)
(* The inductive invariant of the follow subscriptions.                    *)
(***************************************************************************)
\* A token the consumer knows comes from a follow that was answered, so the
\* next token is always a new one; a token given up is not held any more.
Known ==
    /\ \A s \in opened : replies[s[1]] = 1 /\ s[2] \in 1 .. connection
    /\ live \subseteq opened
    /\ \A o \in Operations : target[o] \subseteq opened \ live
    /\ \A o \in Operations \ asked : target[o] = {}

Followed ==
    /\ gone => live = {}
    /\ state = "Connected" => connection >= 1
    /\ connection <= MaxConnections
    /\ ~gone /\ state # "Connected" => activeChainHeads = {}
    /\ HeldSubsAreAlive
    /\ NoLeakedFollow

SubsInv == Known /\ Followed

LEMMA SubsInvInit == Init => SubsInv
  BY BoundAssumption
     DEF Init, SubsInv, Known, Followed, HeldSubsAreAlive, NoLeakedFollow

LEMMA SubsInvNext ==
    TypeOK /\ RequestInv /\ SubsInv /\ [Next]_vars => SubsInv'
  <1> SUFFICES ASSUME TypeOK, RequestInv, SubsInv, [Next]_vars
               PROVE  SubsInv'
    OBVIOUS
  <1> USE IdsAssumption, BoundAssumption
      DEF TypeOK, RequestInv, Phases, Counted, Owing, Unanswered,
          AnswersAreExpected, Requests, Ids, Subs, broadcastVars, sendVars,
          loopVars, serverVars, consumerVars, SubsInv, Known, Followed,
          HeldSubsAreAlive, NoLeakedFollow
  <1>1. ASSUME NEW r \in Requests, Request(r) PROVE SubsInv'
    BY <1>1 DEF Request, Send
  <1>2. ASSUME NEW o \in Operations, NEW s \in live, Unfollow(o, s) PROVE SubsInv'
    BY <1>2 DEF Unfollow, Send
  <1>3. ASSUME NEW b \in Broadcasts, Broadcast(b) PROVE SubsInv'
    BY <1>3 DEF Broadcast, Deliver
  <1>4. ASSUME NEW b \in Broadcasts, StopBroadcast(b) PROVE SubsInv'
    BY <1>4 DEF StopBroadcast
  <1>5. ASSUME Disconnect PROVE SubsInv'
    BY <1>5 DEF Disconnect, DropLink
  <1>6. ASSUME Connect PROVE SubsInv'
    BY <1>6 DEF Connect, Rebroadcast, Flushed, InLoop
  <1>7. ASSUME Halt PROVE SubsInv'
    BY <1>7 DEF Halt, DropLink, LostSubs
  <1>8. ASSUME NEW r \in toFlush, Flush(r) PROVE SubsInv'
    BY <1>8 DEF Flush, Send, Ended
  <1>9. ASSUME NEW s \in toStop, DeliverStop(s) PROVE SubsInv'
    BY <1>9 DEF DeliverStop, Stop
  <1>10. ASSUME NEW r \in toSettle, Settle(r) PROVE SubsInv'
    BY <1>10 DEF Settle, Resolve, Deliver, Send
  <1>11. ASSUME NEW f \in Follows, AnswerFollow(f) PROVE SubsInv'
    BY <1>11 DEF AnswerFollow, Answered, Deliver
  <1>12. ASSUME NEW r \in Requests, AnswerRequest(r) PROVE SubsInv'
    BY <1>12 DEF AnswerRequest, Answered, Deliver, Ended
  <1>13. ASSUME NEW b \in Broadcasts, AnswerBroadcast(b) PROVE SubsInv'
    BY <1>13 DEF AnswerBroadcast, KeepToken
  <1>14. ASSUME NEW b \in Broadcasts, RefuseBroadcast(b) PROVE SubsInv'
    BY <1>14 DEF RefuseBroadcast
  <1>15. ASSUME NEW t \in txStops, AnswerTxStop(t) PROVE SubsInv'
    BY <1>15 DEF AnswerTxStop
  <1>16. ASSUME NEW s \in serverSubs, ServerStop(s) PROVE SubsInv'
    BY <1>16 DEF ServerStop, Stop
  <1>17. CASE UNCHANGED vars
    BY <1>17 DEF vars
  <1>18. QED
    BY <1>1, <1>2, <1>3, <1>4, <1>5, <1>6, <1>7, <1>8, <1>9, <1>10, <1>11,
       <1>12, <1>13, <1>14, <1>15, <1>16, <1>17
       DEF Next, Consumer, Link, Loops, Server

LEMMA SubsTracked == Spec => [](TypeOK /\ RequestInv /\ SubsInv)
  BY RequestsTracked, SubsInvInit, SubsInvNext, PTL DEF Spec

\* The consumer never holds a subscription that is gone without a stop event
\* being on its way.
THEOREM NoDeadSubscription == Spec => []HeldSubsAreAlive
<1>1. SubsInv => HeldSubsAreAlive
  BY DEF SubsInv, Followed
<1>2. QED
  BY SubsTracked, <1>1, PTL

\* The server never serves a subscription the consumer gave up, but for the
\* time its unfollow takes to be processed.
THEOREM NoSubscriptionLeaks == Spec => []NoLeakedFollow
<1>1. SubsInv => NoLeakedFollow
  BY DEF SubsInv, Followed
<1>2. QED
  BY SubsTracked, <1>1, PTL

-------------------------------------------------------------------------------
(***************************************************************************)
(* The session. A provider that halts no more once it is disconnected      *)
(* leaves the proxy in the state Done, and then nothing is relayed.        *)
(***************************************************************************)
ClosedInv == ~LateHalts => (gone <=> state = "Done")

LEMMA ClosedTracked == Spec => []ClosedInv
<1>1. Init => ClosedInv
  BY DEF Init, ClosedInv
<1>2. TypeOK /\ ClosedInv /\ [Next]_vars => ClosedInv'
  <2> SUFFICES ASSUME TypeOK, ClosedInv, Consumer \/ Link \/ Loops \/ Server
               PROVE  ClosedInv'
    BY DEF Next, vars, consumerVars, ClosedInv
  <2> USE DEF TypeOK, ClosedInv, consumerVars
  <2>1. CASE Consumer
    BY <2>1 DEF Consumer, Request, Unfollow, Broadcast, StopBroadcast, Disconnect
  <2>2. CASE Link
    BY <2>2 DEF Link, Connect, Halt
  <2>3. CASE Loops
    BY <2>3 DEF Loops, Flush, DeliverStop, Settle
  <2>4. CASE Server
    BY <2>4 DEF Server, AnswerFollow, AnswerRequest, AnswerBroadcast,
                RefuseBroadcast, AnswerTxStop, ServerStop
  <2>5. QED
    BY <2>1, <2>2, <2>3, <2>4
<1>3. QED
  BY TypeCorrect, <1>1, <1>2, PTL DEF Spec

\* Once the consumer disconnected it hears nothing more, and nothing more is
\* sent upstream.
THEOREM QuietOnceDisconnected == ~LateHalts => (Spec => QuietAfterDisconnect)
<1> SUFFICES ASSUME ~LateHalts PROVE Spec => QuietAfterDisconnect
  OBVIOUS
<1>1. ASSUME TypeOK, RequestInv, ClosedInv, gone, [Next]_vars
      PROVE  UNCHANGED <<replies, opened, stopped, upstream, txStops>>
  <2> SUFFICES ASSUME Consumer \/ Link \/ Loops \/ Server
               PROVE  UNCHANGED <<replies, opened, stopped, upstream, txStops>>
    BY <1>1 DEF Next, vars, consumerVars, sendVars, serverVars
  <2> USE <1>1 DEF RequestInv, Phases, ClosedInv, consumerVars, sendVars, serverVars
  <2>1. CASE Consumer
    BY <2>1 DEF Consumer, Request, Unfollow, Broadcast, StopBroadcast, Disconnect
  <2>2. CASE Link
    BY <2>2 DEF Link, Connect, Halt
  <2>3. CASE Loops
    BY <2>3 DEF Loops, Flush, Send, DeliverStop, Stop, Settle, Resolve, Deliver
  <2>4. CASE Server
    BY <2>4 DEF Server, AnswerFollow, AnswerRequest, Answered, AnswerBroadcast,
                RefuseBroadcast, AnswerTxStop, ServerStop
  <2>5. QED
    BY <2>1, <2>2, <2>3, <2>4
<1>2. QED
  BY RequestsTracked, ClosedTracked, <1>1, PTL DEF Spec, QuietAfterDisconnect

\* Every step of the proxy is a step of the session it gives the consumer, or
\* one the consumer does not see.
THEOREM RefinesSession == ~LateHalts => (Spec => Session!Safety)
<1> SUFFICES ASSUME ~LateHalts PROVE Spec => Session!Safety
  OBVIOUS
<1>1. Init => Session!Init
  BY DEF Init, Session!Init
<1>2. ASSUME TypeOK, RequestInv, SubsInv, ClosedInv, TypeOK', SubsInv', [Next]_vars
      PROVE  [Session!Next]_(Session!sessionVars)
  <2> DEFINE Toks == Follows \X (1 .. MaxConnections)
  <2>a. opened \subseteq Toks /\ opened' \subseteq Toks
    BY <1>2, BoundAssumption DEF TypeOK, Subs, SubsInv, Known, Followed
  <2>b. /\ replies \in [Ids -> Nat]
        /\ Requests \subseteq Ids /\ Broadcasts \subseteq Ids
        /\ Follows \subseteq Requests /\ Operations \subseteq Requests
        /\ toSettle \subseteq Requests /\ toStop \subseteq Subs
    BY <1>2 DEF TypeOK, Ids, Requests
  <2>c. \A i \in Ids \ asked : replies[i] = 0
    BY <1>2 DEF RequestInv, Counted
  <2>d. \A r \in onGoingRequests \cup toSettle : r \in asked /\ replies[r] = 0
    BY <1>2 DEF RequestInv, Owing, Unanswered
  <2>e. /\ gone <=> state = "Done"
        /\ state # "Connected" => upstream = {} /\ serverSubs = {}
    BY <1>2 DEF ClosedInv, RequestInv, Phases
  <2>f. /\ live \subseteq opened
        /\ gone => live = {}
        /\ \A s \in opened : replies[s[1]] = 1
    BY <1>2 DEF SubsInv, Known, Followed
  <2> HIDE DEF Toks
  <2> USE <2>b, <2>e, <2>f DEF Session!sessionVars, consumerVars
  <2> SUFFICES ASSUME ~(UNCHANGED Session!sessionVars) PROVE Session!Next
    OBVIOUS
  <2>1. ASSUME NEW r \in Requests, Request(r) PROVE Session!Next
    <3>1. Session!Ask(r, {})
      BY <2>1 DEF Request, Session!Ask
    <3>2. QED
      BY <3>1 DEF Session!Next
  <2>2. ASSUME NEW o \in Operations, NEW s \in live, Unfollow(o, s)
        PROVE  Session!Next
    <3>1. Session!Ask(o, {s}) /\ s \in Toks
      BY <2>2, <2>a DEF Unfollow, Session!Ask
    <3>2. QED
      BY <3>1 DEF Session!Next, Toks
  <2>3. ASSUME NEW b \in Broadcasts, Broadcast(b) PROVE Session!Next
    <3>a. replies[b] = 0 /\ ~gone /\ Deliver(b)
      BY <2>3, <2>c DEF Broadcast
    <3>0. replies' = [replies EXCEPT ![b] = 1]
      BY <3>a DEF Deliver
    <3>1. Session!AskAndAnswer(b)
      BY <2>3, <3>a, <3>0 DEF Broadcast, Session!AskAndAnswer
    <3>2. QED
      BY <3>1 DEF Session!Next
  <2>4. ASSUME NEW b \in Broadcasts, StopBroadcast(b) PROVE UNCHANGED Session!sessionVars
    BY <2>4 DEF StopBroadcast
  <2>5. ASSUME Disconnect PROVE Session!Next
    <3>1. Session!Close
      BY <2>5 DEF Disconnect, Session!Close
    <3>2. QED
      BY <3>1 DEF Session!Next
  <2>6. ASSUME Connect PROVE UNCHANGED Session!sessionVars
    BY <2>6 DEF Connect
  <2>7. ASSUME Halt PROVE UNCHANGED Session!sessionVars
    BY <2>7 DEF Halt
  <2>8. ASSUME NEW r \in toFlush, Flush(r) PROVE UNCHANGED Session!sessionVars
    BY <2>8 DEF Flush
  <2>9. ASSUME NEW s \in toStop, DeliverStop(s), UNCHANGED Session!sessionVars => FALSE
        PROVE  Session!Next
    <3>0. s \in live /\ live' = live \ {s}
      BY <2>9 DEF DeliverStop, Stop
    <3>1. Session!Stop(s) /\ s \in Toks
      BY <2>9, <2>a, <3>0 DEF DeliverStop, Session!Stop
    <3>2. QED
      BY <3>1 DEF Session!Next, Toks
  <2>10. ASSUME NEW r \in toSettle, Settle(r), UNCHANGED Session!sessionVars => FALSE
         PROVE  Session!Next
    <3>1. Session!Answer(r, {})
      BY <2>10, <2>d DEF Settle, Resolve, Deliver, Session!Answer
    <3>2. QED
      BY <3>1 DEF Session!Next, Session!AnswerAny
  <2>11. ASSUME NEW f \in Follows, AnswerFollow(f) PROVE Session!Next
    <3> DEFINE sub == <<f, connection>>
    <3>a. /\ f \in asked /\ replies[f] = 0 /\ state = "Connected"
          /\ Deliver(f)
      BY <2>11, <2>d DEF AnswerFollow, Answered
    <3>0. replies' = [replies EXCEPT ![f] = 1]
      BY <3>a DEF Deliver
    <3>1. sub \in opened' /\ sub \notin opened
      BY <2>11, <3>a, <3>0 DEF AnswerFollow
    <3>2. Session!Answer(f, {sub})
      BY <2>11, <3>a, <3>0, <3>1 DEF AnswerFollow, Session!Answer
    <3>3. sub \in Toks
      BY <3>1, <2>a
    <3>4. QED
      BY <3>2, <3>3 DEF Session!Next, Session!AnswerAny, Toks
  <2>12. ASSUME NEW r \in Requests, AnswerRequest(r) PROVE Session!Next
    <3>a. /\ r \in asked /\ replies[r] = 0 /\ state = "Connected"
          /\ Deliver(r)
      BY <2>12, <2>d DEF AnswerRequest, Answered
    <3>0. replies' = [replies EXCEPT ![r] = 1]
      BY <3>a DEF Deliver
    <3>1. Session!Answer(r, {})
      BY <2>12, <3>a, <3>0 DEF AnswerRequest, Session!Answer
    <3>2. QED
      BY <3>1 DEF Session!Next, Session!AnswerAny
  <2>13. ASSUME NEW b \in Broadcasts, AnswerBroadcast(b) PROVE UNCHANGED Session!sessionVars
    BY <2>13 DEF AnswerBroadcast
  <2>14. ASSUME NEW b \in Broadcasts, RefuseBroadcast(b) PROVE UNCHANGED Session!sessionVars
    BY <2>14 DEF RefuseBroadcast
  <2>15. ASSUME NEW t \in txStops, AnswerTxStop(t) PROVE UNCHANGED Session!sessionVars
    BY <2>15 DEF AnswerTxStop
  <2>16. ASSUME NEW s \in serverSubs, ServerStop(s), UNCHANGED Session!sessionVars => FALSE
         PROVE  Session!Next
    <3>1. Session!Stop(s) /\ s \in Toks
      BY <2>16, <2>a DEF ServerStop, Stop, Session!Stop
    <3>2. QED
      BY <3>1 DEF Session!Next, Toks
  <2>17. ASSUME UNCHANGED vars PROVE UNCHANGED Session!sessionVars
    BY <2>17 DEF vars
  <2>18. QED
    BY <1>2, <2>1, <2>2, <2>3, <2>4, <2>5, <2>6, <2>7, <2>8, <2>9, <2>10, <2>11,
       <2>12, <2>13, <2>14, <2>15, <2>16, <2>17
       DEF Next, Consumer, Link, Loops, Server
<1>3. QED
  BY SubsTracked, ClosedTracked, <1>1, <1>2, PTL DEF Spec, Session!Safety
-------------------------------------------------------------------------------
\* Each request is answered exactly once, over any halts and reconnections and
\* with any calls from inside the replies (getProxy).
THEOREM RequestsStayRight == Spec => []RequestsAreRight
<1>1. AtMostOneReply /\ OwedExactlyOnce /\ AnswersAreExpected => RequestsAreRight
  BY DEF RequestsAreRight
<1>2. QED
  BY <1>1, AnsweredAtMostOnce, NoRequestLostOrDoubled, ResponsesAreExpected, PTL

\* Consumer and server agree on the subscriptions, or what tells them of the
\* difference is on its way (getProxy, activeChainHeads).
THEOREM SubscriptionsStayRight == Spec => []SubscriptionsAreRight
<1>1. HeldSubsAreAlive /\ NoLeakedFollow => SubscriptionsAreRight
  BY DEF SubscriptionsAreRight
<1>2. QED
  BY <1>1, NoDeadSubscription, NoSubscriptionLeaks, PTL

-------------------------------------------------------------------------------
(***************************************************************************)
(* The broadcasts: what the proxy, the server and the consumer each know   *)
(* of a transaction, and what is on its way between them.                  *)
(***************************************************************************)
\* Without a connection there is neither a transaction nor a token, and no
\* connection has a token of an earlier one.
TokensAreCurrent ==
    /\ state # "Connected" =>
         pendingBroadcasts = {} /\ serverTxs = {} /\ txStops = {}
    /\ state = "Connecting" => \A b \in Broadcasts : upToken[b] = 0
    /\ state = "Connected" =>
         /\ connection # 0
         /\ \A b \in Broadcasts : upToken[b] \in {0, connection}
    /\ \A t \in serverTxs : t[2] = connection
    /\ \A t \in txStops : t[2] = connection

\* A broadcast is asked for once, and a stopped one is never active again.
StoppedForGood ==
    /\ gone => activeBroadcasts = {}
    /\ activeBroadcasts \cup pendingBroadcasts \subseteq asked
    /\ \A t \in serverTxs : t[1] \in asked
    /\ \A t \in txStops : t[1] \in asked \ activeBroadcasts

\* A broadcast that was not answered has no token yet.
Unaccepted ==
    \A b \in Broadcasts :
        /\ b \notin asked => upToken[b] = 0
        /\ b \in pendingBroadcasts =>
             upToken[b] = 0 /\ <<b, connection>> \notin serverTxs

TxInv == /\ TokensAreCurrent /\ StoppedForGood /\ Unaccepted
         /\ NoOrphanBroadcast /\ BroadcastsAreCarried

LEMMA TxInvInit == Init => TxInv
  BY DEF Init, TxInv, TokensAreCurrent, StoppedForGood, Unaccepted,
         NoOrphanBroadcast, BroadcastsAreCarried

LEMMA TxInvNext == TypeOK /\ RequestInv /\ TxInv /\ [Next]_vars => TxInv'
  <1> SUFFICES ASSUME TypeOK, RequestInv, TxInv, [Next]_vars
               PROVE  TxInv'
    OBVIOUS
  <1>p. /\ state = "Done" => gone
        /\ state \in {"Connecting", "Connected", "Done"}
        /\ activeBroadcasts \subseteq Broadcasts
        /\ pendingBroadcasts \subseteq Broadcasts
        /\ refused \subseteq Broadcasts
        /\ serverTxs \subseteq Broadcasts \X Nat
        /\ txStops \subseteq Broadcasts \X Nat
        /\ upToken \in [Broadcasts -> Nat]
        /\ connection \in Nat
    BY DEF TypeOK, RequestInv, Phases, TxTokens
  <1> USE <1>p
      DEF TxInv, TokensAreCurrent, StoppedForGood, Unaccepted,
          NoOrphanBroadcast, BroadcastsAreCarried, broadcastVars, sendVars,
          loopVars, serverVars, consumerVars
  <1>1. ASSUME NEW r \in Requests, Request(r) PROVE TxInv'
    BY <1>1 DEF Request
  <1>2. ASSUME NEW o \in Operations, NEW s \in live, Unfollow(o, s) PROVE TxInv'
    BY <1>2 DEF Unfollow
  <1>3. ASSUME NEW b \in Broadcasts, Broadcast(b) PROVE TxInv'
    BY <1>3 DEF Broadcast
  <1>4. ASSUME NEW b \in Broadcasts, StopBroadcast(b) PROVE TxInv'
    BY <1>4 DEF StopBroadcast
  <1>5. ASSUME Disconnect PROVE TxInv'
    BY <1>5 DEF Disconnect, DropLink
  <1>6. ASSUME Connect PROVE TxInv'
    BY <1>6 DEF Connect, Rebroadcast
  <1>7. ASSUME Halt PROVE TxInv'
    BY <1>7 DEF Halt, DropLink
  <1>8. ASSUME NEW r \in toFlush, Flush(r) PROVE TxInv'
    BY <1>8 DEF Flush
  <1>9. ASSUME NEW s \in toStop, DeliverStop(s) PROVE TxInv'
    BY <1>9 DEF DeliverStop
  <1>10. ASSUME NEW r \in toSettle, Settle(r) PROVE TxInv'
    BY <1>10 DEF Settle
  <1>11. ASSUME NEW f \in Follows, AnswerFollow(f) PROVE TxInv'
    BY <1>11 DEF AnswerFollow
  <1>12. ASSUME NEW r \in Requests, AnswerRequest(r) PROVE TxInv'
    BY <1>12 DEF AnswerRequest
  <1>13. ASSUME NEW b \in Broadcasts, AnswerBroadcast(b) PROVE TxInv'
    BY <1>13 DEF AnswerBroadcast, KeepToken
  <1>14. ASSUME NEW b \in Broadcasts, RefuseBroadcast(b) PROVE TxInv'
    BY <1>14 DEF RefuseBroadcast
  <1>15. ASSUME NEW t \in txStops, AnswerTxStop(t) PROVE TxInv'
    BY <1>15 DEF AnswerTxStop
  <1>16. ASSUME NEW s \in serverSubs, ServerStop(s) PROVE TxInv'
    BY <1>16 DEF ServerStop
  <1>17. CASE UNCHANGED vars
    BY <1>17 DEF vars
  <1>18. QED
    BY <1>1, <1>2, <1>3, <1>4, <1>5, <1>6, <1>7, <1>8, <1>9, <1>10, <1>11,
       <1>12, <1>13, <1>14, <1>15, <1>16, <1>17
       DEF Next, Consumer, Link, Loops, Server

\* Exactly the broadcasts the consumer did not stop go on, over any number of
\* halts and reconnections and whenever it stops them (getProxy,
\* activeBroadcasts).
THEOREM BroadcastsStayRight == Spec => []BroadcastsAreRight
<1>1. TxInv => BroadcastsAreRight
  BY DEF TxInv, BroadcastsAreRight
<1>2. QED
  BY RequestsTracked, TxInvInit, TxInvNext, <1>1, PTL DEF Spec

-------------------------------------------------------------------------------
(***************************************************************************)
(* getSyncProvider: what it guarantees however often the inner provider    *)
(* fails to start or halts, and however many times it reports a halt.      *)
(***************************************************************************)
\* Every step is a step of the proxy, or none: what holds of the proxy over any
\* inner provider holds of it here.
THEOREM DrivesTheProxy == SyncSpec => Spec
<1>1. SyncInit => Init
  BY DEF SyncInit
<1>2. [SyncNext]_allVars => [Next]_vars
  <2> SUFFICES ASSUME [SyncNext]_allVars PROVE [Next]_vars
    OBVIOUS
  <2>1. CASE Timers
    BY <2>1 DEF Timers, StartNow, CallInput
  <2>2. CASE InputFails
    BY <2>2 DEF InputFails
  <2>3. CASE InputSucceeds
    BY <2>3 DEF InputSucceeds, Next, Link
  <2>4. CASE InnerHalt
    BY <2>4 DEF InnerHalt, Next, Link
  <2>5. CASE StartAfterHalt
    BY <2>5 DEF StartAfterHalt
  <2>6. CASE SyncDisconnect
    BY <2>6 DEF SyncDisconnect, Next, Consumer
  <2>7. CASE ConsumerCall
    BY <2>7 DEF ConsumerCall, Next, Consumer
  <2>8. CASE ProxyStep
    BY <2>8 DEF ProxyStep, Next
  <2>9. CASE UNCHANGED allVars
    BY <2>9 DEF allVars
  <2>10. QED
    BY <2>1, <2>2, <2>3, <2>4, <2>5, <2>6, <2>7, <2>8, <2>9 DEF SyncNext
<1>3. QED
  BY <1>1, <1>2, PTL DEF SyncSpec, Spec

-------------------------------------------------------------------------------
(***************************************************************************)
(* What the proxy's own steps leave alone.                                 *)
(***************************************************************************)
LEMMA CallsKeepLink ==
  ASSUME ConsumerCall
  PROVE  UNCHANGED <<state, gone>>
BY DEF ConsumerCall, Request, Unfollow, Broadcast, StopBroadcast, consumerVars

LEMMA ProxyKeepsLink ==
  ASSUME ProxyStep
  PROVE  UNCHANGED <<state, gone>>
<1>1. CASE Loops
  BY <1>1 DEF Loops, Flush, DeliverStop, Settle, consumerVars
<1>2. CASE Server
  BY <1>2 DEF Server, AnswerFollow, AnswerRequest, AnswerBroadcast,
              RefuseBroadcast, AnswerTxStop, ServerStop, consumerVars
<1>3. QED
  BY <1>1, <1>2 DEF ProxyStep

-------------------------------------------------------------------------------
(***************************************************************************)
(* The inductive invariant: one way to the next connection at a time,      *)
(* which `stop` cancels, or a connection, as the proxy sees it too.        *)
(***************************************************************************)
Flags ==
    /\ gone \in BOOLEAN
    /\ isOn \in BOOLEAN
    /\ hasConnection \in BOOLEAN
    /\ afterHalt \in BOOLEAN
    /\ inCallback \in BOOLEAN

Counters ==
    /\ startTimers \in Nat
    /\ zeroTimers \in Nat
    /\ attempts \in Nat
    /\ stop \in {"noop", "clearZero", "abort"}

SameLink == ~gone => state = IF isOn THEN "Connected" ELSE "Connecting"

Ways == Counters /\ OneAttempt /\ StopIsCurrent /\ SameLink

SyncInv == Flags /\ Ways

LEMMA SyncInvInit == SyncInit => SyncInv
<1>1. SyncInit => Flags
  BY DEF SyncInit, Init, Flags
<1>2. SyncInit => Ways
  BY DEF SyncInit, Init, Ways, Counters, OneAttempt, StopIsCurrent, SameLink, Running
<1>3. QED
  BY <1>1, <1>2 DEF SyncInv

LEMMA FlagsNext == Flags /\ [SyncNext]_allVars => Flags'
  <1> SUFFICES ASSUME Flags, [SyncNext]_allVars PROVE Flags'
    OBVIOUS
  <1> USE DEF Flags, vars, consumerVars
  <1>1. CASE StartNow
    BY <1>1 DEF StartNow
  <1>2. CASE CallInput
    BY <1>2 DEF CallInput
  <1>3. CASE InputFails
    BY <1>3 DEF InputFails
  <1>4. CASE InputSucceeds
    BY <1>4 DEF InputSucceeds, Connect
  <1>5. CASE InnerHalt
    BY <1>5 DEF InnerHalt, Halt
  <1>6. CASE StartAfterHalt
    BY <1>6 DEF StartAfterHalt
  <1>7. CASE SyncDisconnect
    BY <1>7, LateHaltsAssumption DEF SyncDisconnect, Disconnect
  <1>8. CASE ConsumerCall
    BY <1>8, CallsKeepLink DEF ConsumerCall, syncVars
  <1>9. CASE ProxyStep
    BY <1>9, ProxyKeepsLink DEF ProxyStep
  <1>10. CASE UNCHANGED allVars
    BY <1>10 DEF allVars, syncVars
  <1>11. QED
    BY <1>1, <1>2, <1>3, <1>4, <1>5, <1>6, <1>7, <1>8, <1>9, <1>10
       DEF SyncNext, Timers

LEMMA WaysNext == SyncInv /\ Flags' /\ [SyncNext]_allVars => Ways'
  <1> SUFFICES ASSUME SyncInv, Flags', [SyncNext]_allVars PROVE Ways'
    OBVIOUS
  <1> USE DEF SyncInv, Flags, Ways, Counters, OneAttempt, StopIsCurrent, SameLink,
              Running, timerVars
  <1>1. CASE StartNow
    BY <1>1 DEF StartNow, vars, consumerVars
  <1>2. CASE CallInput
    BY <1>2 DEF CallInput, vars, consumerVars
  <1>3. CASE InputFails
    BY <1>3 DEF InputFails, vars, consumerVars
  <1>4. CASE InputSucceeds
    BY <1>4 DEF InputSucceeds, Connect, vars, consumerVars
  <1>5. CASE InnerHalt
    BY <1>5 DEF InnerHalt, Halt, vars, consumerVars
  <1>6. CASE StartAfterHalt
    BY <1>6 DEF StartAfterHalt, vars, consumerVars
  <1>7. CASE SyncDisconnect
    BY <1>7 DEF SyncDisconnect, Disconnect
  <1>8. CASE ConsumerCall
    BY <1>8, CallsKeepLink DEF ConsumerCall, syncVars
  <1>9. CASE ProxyStep
    BY <1>9, ProxyKeepsLink DEF ProxyStep
  <1>10. CASE UNCHANGED allVars
    BY <1>10 DEF allVars, syncVars, vars, consumerVars
  <1>11. QED
    BY <1>1, <1>2, <1>3, <1>4, <1>5, <1>6, <1>7, <1>8, <1>9, <1>10
       DEF SyncNext, Timers

LEMMA SyncInvNext == SyncInv /\ [SyncNext]_allVars => SyncInv'
  BY FlagsNext, WaysNext DEF SyncInv

LEMMA SyncTracked == SyncSpec => []SyncInv
  BY SyncInvInit, SyncInvNext, PTL DEF SyncSpec

\* The timers, the attempts and the proxy they drive have their types.
THEOREM SyncTypeCorrect == SyncSpec => []SyncTypeOK
<1>1. SyncInv /\ TypeOK => SyncTypeOK
  BY DEF SyncInv, Flags, Ways, Counters, SyncTypeOK
<1>2. QED
  BY <1>1, SyncTracked, DrivesTheProxy, TypeCorrect, PTL

\* However often the inner provider fails or repeats itself, there is one
\* connection or one way to the next one.
THEOREM OneAttemptAtATime == SyncSpec => []OneAttempt
<1>1. SyncInv => OneAttempt
  BY DEF SyncInv, Ways
<1>2. QED
  BY <1>1, SyncTracked, PTL

\* connect never meets a proxy that is connected already, so it does not throw.
THEOREM ConnectNeverThrows == SyncSpec => []ConnectIsLegal
<1>1. SyncInv => ConnectIsLegal
  <2> SUFFICES ASSUME SyncInv, ~gone, Running > 0 PROVE state = "Connecting"
    BY DEF ConnectIsLegal
  <2>1. ~isOn
    BY DEF SyncInv, Flags, Ways, Counters, OneAttempt, Running
  <2>2. QED
    BY <2>1 DEF SyncInv, Ways, SameLink
<1>2. QED
  BY <1>1, SyncTracked, PTL

\* The variable `stop` always cancels the timer or the attempt under way.
THEOREM StopCancelsWhatRuns == SyncSpec => []StopIsCurrent
<1>1. SyncInv => StopIsCurrent
  BY DEF SyncInv, Ways
<1>2. QED
  BY <1>1, SyncTracked, PTL

\* A disconnection leaves neither timer nor attempt behind, unless it comes from
\* inside onHalt.
THEOREM DisconnectionCancels == SyncSpec => DisconnectCancels
<1>1. SyncInv /\ [SyncNext]_allVars
        => [~gone /\ gone' /\ ~afterHalt => Running' = 0]_allVars
  <2> SUFFICES ASSUME SyncInv, SyncNext, ~gone, gone', ~afterHalt
               PROVE  Running' = 0
    OBVIOUS
  <2>1. SyncDisconnect
    <3>1. ~(Timers \/ InputFails \/ InputSucceeds \/ InnerHalt \/ StartAfterHalt)
      BY DEF Timers, StartNow, CallInput, InputFails, InputSucceeds, Connect,
             InnerHalt, Halt, StartAfterHalt, vars, consumerVars
    <3>2. ~(ConsumerCall \/ ProxyStep)
      BY CallsKeepLink, ProxyKeepsLink
    <3>3. QED
      BY <3>1, <3>2 DEF SyncNext
  <2>2. QED
    BY <2>1 DEF SyncDisconnect, SyncInv, Flags, Ways, Counters, OneAttempt,
                StopIsCurrent, Running
<1>2. QED
  BY <1>1, SyncTracked, PTL DEF SyncSpec, DisconnectCancels

\* The provider a consumer is given implements the safety part of the session it
\* is promised, if the inner one reports no halt after the disconnection.
THEOREM SyncImplementsSession == ~LateHalts => (SyncSpec => Session!Safety)
BY DrivesTheProxy, RefinesSession

\* There is a connection, or one way to the next one, which `stop` cancels and
\* the proxy waits for (getSyncProvider).
THEOREM OneWayBackAlways == SyncSpec => []OneWayBack
<1>1. OneAttempt /\ ConnectIsLegal /\ StopIsCurrent => OneWayBack
  BY DEF OneWayBack
<1>2. QED
  BY <1>1, OneAttemptAtATime, ConnectNeverThrows, StopCancelsWhatRuns, PTL

-----------------------------------------------------------------------------
(***************************************************************************)
(* What becomes of the operations of a client of the old API.              *)
(***************************************************************************)
\* The client on its own.
LegacySpec == LegacyInit /\ [][LegacyNext]_legacyVars

\* What may be asked, said and sent.
AskedItems == {"call", "value", "hash", "absent", "descendants"}
ItemLists  == {s \in Seq(AskedItems) :
                 \A i, j \in DOMAIN s : s[i] = "descendants" /\ s[j] = "descendants" => i = j}
Whats      == {"call", "value", "hash", "absent", "page", "values"}
OldAsks    == [op : Nat, item : Nat, what : Whats, from : 0 .. NKeys,
               keys : Seq(1 .. NKeys), splits : Nat]
Messages   == {Key(k) : k \in 0 .. NKeys} \cup Ends
CastPhases     == {"sent", "waiting", "accepted", "over"}

\* The followers are numbered, two at most; who asks is one of them, the archive or nobody.
OwnersInv ==
    /\ nFollows \in 0 .. MaxFollows /\ followers \subseteq 1 .. nFollows
    /\ IsFiniteSet(followers) /\ Cardinality(followers) <= 2
    /\ operations \in Seq([owner : 0 .. MaxFollows + 1, items : ItemLists])
    /\ running \subseteq DOMAIN operations
    /\ casts \in Seq(CastPhases)
    /\ repeats \in BOOLEAN
    /\ link \in {"on", "failed", "halted", "left"}
    /\ \A o \in Tracked : operations[o].owner \in followers \cup {Archive}
    /\ link \in {"halted", "left"} =>
          /\ Tracked = {} /\ followers = {}
          /\ \A c \in DOMAIN casts : casts[c] \in {"accepted", "over"}

\* What is asked for an item.
Fits(what, item) ==
    /\ item = "descendants" <=> what \in {"page", "values"}
    /\ item = "hash" => what \in {"hash", "value"}
    /\ item \in {"call", "value", "absent"} => what = item

\* A log without an end, and one whose last message is its only end.
GoesOnIn(log) == \A i \in DOMAIN log : log[i] \notin Ends
EndsIn(log)   == /\ log # <<>> /\ log[Len(log)] \in Ends
                 /\ \A i \in DOMAIN log : log[i] \in Ends => i = Len(log)

\* What is asked is asked for an operation that goes on. One that goes on asks, and has
\* not heard its end; the last thing that one hears that does not is its end.
LogsInv ==
    /\ logs \in Seq(Seq(Messages)) /\ Len(logs) = Len(operations)
    /\ asking \subseteq OldAsks
    /\ \A r \in asking :
         /\ r.op \in running /\ r.item \in DOMAIN operations[r.op].items
         /\ Fits(r.what, operations[r.op].items[r.item])
         /\ r.what = "values" => IsInjective(r.keys)
    /\ \A o \in running : (\E r \in asking : r.op = o) /\ GoesOnIn(logs[o])
    /\ \A o \in DOMAIN operations \ running : EndsIn(logs[o])

\* A key was heard; a request waits for it; a message comes at most once.
Got(o, k)   == Key(k) \in Range(logs[o])
Waits(r, k) == \/ r.what = "page" /\ k > r.from
               \/ r.what = "values" /\ k \in Range(r.keys)
Once(s, e)  == \A i, j \in DOMAIN s : s[i] = e /\ s[j] = e => i = j
Wants(o)    == Contains(operations[o].items, "descendants")
IsDone(o)   == End("done") \in Range(logs[o])

\* A key is heard, or one request waits for it.
KeysInv ==
    \A k \in 1 .. NKeys :
        /\ \A r \in asking : Waits(r, k) => ~Got(r.op, k)
        /\ \A r, q \in asking : r.op = q.op /\ Waits(r, k) /\ Waits(q, k) => r = q
        /\ \A o \in DOMAIN operations :
             /\ Once(logs[o], Key(k))
             /\ o \in running /\ Wants(o) => Got(o, k) \/ \E r \in asking : r.op = o /\ Waits(r, k)
             /\ IsDone(o) /\ Wants(o) => Got(o, k)

\* The items whose single value is still to come.
Open(o)     == {k \in Values(o) : \E r \in asking : r.op = o /\ r.item = k}
Count(s, e) == Cardinality({i \in DOMAIN s : s[i] = e})

\* A single value is heard, or one request waits for it.
SinglesInv ==
    /\ \A r, q \in asking :
         r.op = q.op /\ r.item = q.item /\ r.what \notin {"page", "values"} => r = q
    /\ \A o \in DOMAIN operations :
         /\ o \in running => Count(logs[o], Key(0)) + Cardinality(Open(o)) = Cardinality(Values(o))
         /\ IsDone(o) => Count(logs[o], Key(0)) = Cardinality(Values(o))

LegacyInv == OwnersInv /\ LogsInv /\ KeysInv /\ SinglesInv

\* What an answer to a request gives: it says what the request waited for, or more
\* requests do, each of them of the same item.
GoodAnswer(r, heard, more) ==
    /\ heard \in Seq({Key(k) : k \in 0 .. NKeys})
    /\ more \subseteq OldAsks
    /\ \A q \in more :
         /\ q.op = r.op /\ q.item = r.item
         /\ Fits(q.what, operations[r.op].items[r.item])
         /\ q.what = "values" => IsInjective(q.keys)
    /\ \A k \in 1 .. NKeys :
         /\ Once(heard, Key(k))
         /\ Key(k) \in Range(heard) => Waits(r, k)
         /\ Waits(r, k) => Key(k) \in Range(heard) \/ \E q \in more : Waits(q, k)
         /\ \A q \in more : Waits(q, k) => Waits(r, k) /\ Key(k) \notin Range(heard)
         /\ \A a, b \in more : Waits(a, k) /\ Waits(b, k) => a = b
    /\ IF r.what \in {"page", "values"} THEN Key(0) \notin Range(heard)
       ELSE \/ \E q \in OldAsks : more = {q} /\ heard = <<>>
            \/ /\ more = {}
               /\ heard = IF r.item \in Values(r.op) THEN <<Key(0)>> ELSE <<>>

\* Keys, values and ends are not taken for one another.
LEMMA MessagesDiffer ==
    /\ \A j, k : Key(j) = Key(k) => j = k
    /\ \A k : Key(k) \notin Ends
    /\ \A k, h : Key(k) # End(h)
    /\ End("done") # End("error") /\ End("done") # End("given up")
<1>1. \A k : Key(k)[1] = "key" /\ Key(k)[2] = k
  BY DEF Key
<1>2. \A h : End(h)[1] = "end" /\ End(h)[2] = h
  BY DEF End
<1>3. "key" # "end"
  OBVIOUS
<1>4. \A j, k : Key(j) = Key(k) => j = k
  BY <1>1
<1>5. \A k, h : Key(k) # End(h)
  BY <1>1, <1>2, <1>3
<1>6. End("done") # End("error") /\ End("done") # End("given up")
  <2>1. End("done")[2] = "done" /\ End("error")[2] = "error" /\ End("given up")[2] = "given up"
    BY <1>2
  <2>2. "done" # "error" /\ "done" # "given up"
    OBVIOUS
  <2>3. QED
    BY <2>1, <2>2
<1>7. QED
  BY <1>4, <1>5, <1>6 DEF Ends

\* A function over 1 .. n is a sequence of n elements.
LEMMA FunctionIsSequence ==
  ASSUME NEW S, NEW n \in Nat, NEW f \in [1 .. n -> S]
  PROVE  f \in Seq(S) /\ Len(f) = n
  OBVIOUS

\* A message that comes once in one of two logs comes once in both together.
LEMMA OnceConcat ==
  ASSUME NEW S, NEW s \in Seq(S), NEW u \in Seq(S), NEW e,
         Once(s, e), Once(u, e), e \notin Range(s) \/ e \notin Range(u)
  PROVE  Once(s \o u, e)
<1> DEFINE t == s \o u
<1>1. /\ t \in Seq(S) /\ Len(t) = Len(s) + Len(u)
      /\ \A i \in 1 .. Len(s) + Len(u) : t[i] = IF i <= Len(s) THEN s[i] ELSE u[i - Len(s)]
  BY ConcatProperties
<1>2. /\ Len(s) \in Nat /\ DOMAIN s = 1 .. Len(s) /\ Len(u) \in Nat /\ DOMAIN u = 1 .. Len(u)
      /\ DOMAIN t = 1 .. Len(t)
  BY <1>1, LenProperties
<1> HIDE DEF t
<1> SUFFICES ASSUME NEW i \in DOMAIN t, NEW j \in DOMAIN t, t[i] = e, t[j] = e PROVE i = j
  BY DEF Once, t
<1>3. CASE i <= Len(s) /\ j <= Len(s)
  BY <1>1, <1>2, <1>3 DEF Once
<1>4. CASE ~(i <= Len(s)) /\ ~(j <= Len(s))
  <2>1. i - Len(s) \in DOMAIN u /\ j - Len(s) \in DOMAIN u
    BY <1>1, <1>2, <1>4
  <2>2. u[i - Len(s)] = e /\ u[j - Len(s)] = e
    BY <1>1, <1>2, <1>4
  <2>3. i - Len(s) = j - Len(s)
    BY <2>1, <2>2 DEF Once
  <2>4. QED
    BY <2>3, <1>1, <1>2
<1>5. CASE (i <= Len(s) /\ ~(j <= Len(s))) \/ (~(i <= Len(s)) /\ j <= Len(s))
  <2>1. \E a \in DOMAIN s : s[a] = e
    BY <1>1, <1>2, <1>5
  <2>2. \E b \in DOMAIN u : u[b] = e
    <3>1. CASE ~(i <= Len(s))
      <4>1. i - Len(s) \in DOMAIN u /\ u[i - Len(s)] = e
        BY <1>1, <1>2, <3>1
      <4>2. QED
        BY <4>1
    <3>2. CASE ~(j <= Len(s))
      <4>1. j - Len(s) \in DOMAIN u /\ u[j - Len(s)] = e
        BY <1>1, <1>2, <3>2
      <4>2. QED
        BY <4>1
    <3>3. QED
      BY <1>5, <3>1, <3>2
  <2>3. QED
    BY <2>1, <2>2 DEF Range
<1>6. QED
  BY <1>3, <1>4, <1>5

\* How often a message comes is a number.
LEMMA CountFinite ==
  ASSUME NEW S, NEW s \in Seq(S), NEW e
  PROVE  /\ IsFiniteSet({i \in DOMAIN s : s[i] = e})
         /\ Count(s, e) \in Nat
<1>1. Len(s) \in Nat /\ DOMAIN s = 1 .. Len(s)
  BY LenProperties
<1>2. IsFiniteSet(1 .. Len(s))
  BY <1>1, FS_Interval
<1>3. {i \in DOMAIN s : s[i] = e} \in SUBSET (1 .. Len(s))
  BY <1>1
<1>4. IsFiniteSet({i \in DOMAIN s : s[i] = e})
  BY <1>2, <1>3, FS_Subset
<1>5. QED
  BY <1>4, FS_CardinalityType DEF Count

\* A message that does not come is counted zero times.
LEMMA CountNone ==
  ASSUME NEW s, NEW e, e \notin Range(s)
  PROVE  Count(s, e) = 0
<1>1. {i \in DOMAIN s : s[i] = e} = {}
  BY DEF Range
<1>2. QED
  BY <1>1, FS_EmptySet DEF Count

\* One that comes once is counted once.
LEMMA CountOnce ==
  ASSUME NEW s, NEW e, Once(s, e)
  PROVE  Count(s, e) = IF e \in Range(s) THEN 1 ELSE 0
<1>1. CASE e \in Range(s)
  <2>1. PICK i \in DOMAIN s : s[i] = e
    BY <1>1 DEF Range
  <2>2. {j \in DOMAIN s : s[j] = e} = {i}
    BY <2>1 DEF Once
  <2>3. QED
    BY <1>1, <2>2, FS_Singleton DEF Count
<1>2. CASE e \notin Range(s)
  BY <1>2, CountNone
<1>3. QED
  BY <1>1, <1>2

\* What two logs hold is counted in both together.
LEMMA CountConcat ==
  ASSUME NEW S, NEW s \in Seq(S), NEW u \in Seq(S), NEW e
  PROVE  Count(s \o u, e) = Count(s, e) + Count(u, e)
<1> DEFINE t == s \o u
           A == {i \in DOMAIN s : s[i] = e}
           B == {i \in DOMAIN u : u[i] = e}
           shift == [i \in B |-> Len(s) + i]
           C == {Len(s) + i : i \in B}
<1>1. /\ t \in Seq(S) /\ Len(t) = Len(s) + Len(u)
      /\ \A i \in 1 .. Len(s) + Len(u) : t[i] = IF i <= Len(s) THEN s[i] ELSE u[i - Len(s)]
  BY ConcatProperties
<1>2. /\ Len(s) \in Nat /\ DOMAIN s = 1 .. Len(s) /\ Len(u) \in Nat /\ DOMAIN u = 1 .. Len(u)
      /\ DOMAIN t = 1 .. Len(t)
  BY <1>1, LenProperties
<1> HIDE DEF t
<1>3. IsFiniteSet(A) /\ IsFiniteSet(B)
  BY CountFinite
<1>4. shift \in Bijection(B, C)
  BY <1>2 DEF Bijection, Injection, Surjection, IsInjective
<1>5. IsFiniteSet(C) /\ Cardinality(C) = Cardinality(B)
  BY <1>3, <1>4, FS_Bijection DEF ExistsBijection
<1>6. A \cap C = {}
  BY <1>2
<1>7. {i \in DOMAIN t : t[i] = e} = A \cup C
  <2>1. ASSUME NEW i \in DOMAIN t, t[i] = e PROVE i \in A \cup C
    <3>1. CASE i <= Len(s)
      BY <1>1, <1>2, <2>1, <3>1
    <3>2. CASE ~(i <= Len(s))
      <4>1. i - Len(s) \in B /\ i = Len(s) + (i - Len(s))
        BY <1>1, <1>2, <2>1, <3>2
      <4>2. QED
        BY <4>1
    <3>3. QED
      BY <3>1, <3>2
  <2>2. ASSUME NEW i \in A PROVE i \in DOMAIN t /\ t[i] = e
    BY <1>1, <1>2
  <2>3. ASSUME NEW i \in C PROVE i \in DOMAIN t /\ t[i] = e
    <3>1. PICK b \in B : i = Len(s) + b
      BY <2>3
    <3>2. i \in DOMAIN t /\ ~(i <= Len(s)) /\ i - Len(s) = b
      BY <1>1, <1>2, <3>1
    <3>3. QED
      BY <1>1, <1>2, <3>1, <3>2
  <2>4. QED
    BY <2>1, <2>2, <2>3
<1>8. Cardinality(A \cup C) = Cardinality(A) + Cardinality(B)
  <2>1. Cardinality(A) \in Nat /\ Cardinality(B) \in Nat
    BY <1>3, FS_CardinalityType
  <2>2. Cardinality(A \cap C) = 0
    BY <1>6, FS_EmptySet
  <2>3. Cardinality(A \cup C) = Cardinality(A) + Cardinality(C) - Cardinality(A \cap C)
    BY <1>3, <1>5, FS_Union
  <2>4. QED
    BY <1>5, <2>1, <2>2, <2>3
<1>9. QED
  BY <1>7, <1>8 DEF Count, t

\* A log that goes on goes on with more keys.
LEMMA GoesOnConcat ==
  ASSUME NEW s \in Seq(Messages), NEW u \in Seq({Key(k) : k \in 0 .. NKeys}), GoesOnIn(s)
  PROVE  s \o u \in Seq(Messages) /\ GoesOnIn(s \o u)
<1>1. u \in Seq(Messages)
  BY SeqMonotonic, {Key(k) : k \in 0 .. NKeys} \subseteq Messages DEF Messages
<1> DEFINE t == s \o u
<1>2. /\ t \in Seq(Messages) /\ Len(t) = Len(s) + Len(u)
      /\ \A i \in 1 .. Len(s) + Len(u) : t[i] = IF i <= Len(s) THEN s[i] ELSE u[i - Len(s)]
  BY <1>1, ConcatProperties
<1>3. /\ Len(s) \in Nat /\ DOMAIN s = 1 .. Len(s) /\ Len(u) \in Nat /\ DOMAIN u = 1 .. Len(u)
      /\ DOMAIN t = 1 .. Len(t)
  BY <1>1, <1>2, LenProperties
<1>4. \A j \in 1 .. Len(u) : u[j] \notin Ends
  <2>1. \A j \in 1 .. Len(u) : u[j] \in {Key(k) : k \in 0 .. NKeys}
    BY ElementOfSeq
  <2>2. SUFFICES ASSUME NEW j \in 1 .. Len(u) PROVE u[j] \notin Ends
    OBVIOUS
  <2>3. PICK k \in 0 .. NKeys : u[j] = Key(k)
    BY <2>1
  <2>4. QED
    BY <2>3, MessagesDiffer
<1> HIDE DEF t
<1>5. ASSUME NEW i \in DOMAIN t PROVE t[i] \notin Ends
  <2>1. CASE i <= Len(s)
    BY <1>2, <1>3, <2>1 DEF GoesOnIn
  <2>2. CASE ~(i <= Len(s))
    <3>1. i - Len(s) \in 1 .. Len(u) /\ t[i] = u[i - Len(s)]
      BY <1>2, <1>3, <2>2
    <3>2. QED
      BY <1>4, <3>1
  <2>3. QED
    BY <2>1, <2>2
<1>6. QED
  BY <1>2, <1>5 DEF GoesOnIn, t

\* An end closes a log, and changes nothing about what was heard before.
LEMMA EndAppended ==
  ASSUME NEW s \in Seq(Messages), NEW e \in Ends, GoesOnIn(s)
  PROVE  /\ Append(s, e) \in Seq(Messages)
         /\ Append(s, e) = s \o <<e>>
         /\ EndsIn(Append(s, e))
         /\ Range(Append(s, e)) = Range(s) \cup {e}
         /\ \A m : m \notin Ends => /\ Once(s, m) => Once(Append(s, e), m)
                                    /\ Count(Append(s, e), m) = Count(s, m)
<1>0. e \in Messages /\ <<e>> \in Seq(Messages)
  BY DEF Messages
<1> DEFINE t == Append(s, e)
<1>1. /\ t \in Seq(Messages) /\ Len(t) = Len(s) + 1
      /\ \A i \in 1 .. Len(s) : t[i] = s[i]
      /\ t[Len(s) + 1] = e
  BY <1>0, AppendProperties
<1>2. /\ Len(s) \in Nat /\ DOMAIN s = 1 .. Len(s) /\ DOMAIN t = 1 .. Len(t)
  BY <1>1, LenProperties
<1>3. Range(t) = Range(s) \cup {e} /\ t = s \o <<e>>
  BY <1>0, AppendElements, AppendIsConcat
<1> HIDE DEF t
<1>4. EndsIn(t)
  <2>1. t # <<>> /\ t[Len(t)] \in Ends
    BY <1>1, <1>2, EmptySeq
  <2>2. ASSUME NEW i \in DOMAIN t, t[i] \in Ends PROVE i = Len(t)
    BY <1>1, <1>2, <2>2 DEF GoesOnIn
  <2>3. QED
    BY <2>1, <2>2 DEF EndsIn
<1>5. ASSUME NEW m, m \notin Ends
      PROVE  /\ Once(s, m) => Once(t, m)
             /\ Count(t, m) = Count(s, m)
  <2>1. m # e
    BY <1>5
  <2>2. {i \in DOMAIN t : t[i] = m} = {i \in DOMAIN s : s[i] = m}
    BY <1>1, <1>2, <2>1
  <2>3. Once(s, m) => Once(t, m)
    BY <2>2 DEF Once
  <2>4. QED
    BY <2>2, <2>3 DEF Count
<1>6. QED
  BY <1>1, <1>3, <1>4, <1>5 DEF t

\* The log after an answer, and the end that the last one brings.
LEMMA AnswerLog ==
  ASSUME OwnersInv, LogsInv, NEW r \in asking, NEW heard, NEW more,
         GoodAnswer(r, heard, more), GoesOn(r, heard, more)
  PROVE  /\ r.op \in running /\ r.op \in DOMAIN operations
         /\ operations' = operations
         /\ asking' = (asking \ {r}) \cup more
         /\ logs' \in Seq(Seq(Messages)) /\ Len(logs') = Len(operations)
         /\ \A o \in DOMAIN operations \ {r.op} : logs'[o] = logs[o]
         /\ logs[r.op] \in Seq(Messages) /\ GoesOnIn(logs[r.op])
         /\ heard \in Seq(Messages)
         /\ logs[r.op] \o heard \in Seq(Messages) /\ GoesOnIn(logs[r.op] \o heard)
         /\ IF \E q \in asking' : q.op = r.op
            THEN logs'[r.op] = logs[r.op] \o heard /\ running' = running
            ELSE /\ logs'[r.op] = Append(logs[r.op] \o heard, End("done"))
                 /\ running' = running \ {r.op}
<1> DEFINE o == r.op
           l == logs[o] \o heard
           left == (asking \ {r}) \cup more
           over == ~\E q \in left : q.op = r.op
           new == l \o (IF over THEN <<End("done")>> ELSE <<>>)
<1>1. /\ o \in running /\ o \in DOMAIN operations
      /\ GoesOnIn(logs[o])
  BY DEF OwnersInv, LogsInv
<1>2. /\ Len(operations) \in Nat /\ DOMAIN operations = 1 .. Len(operations)
      /\ logs \in Seq(Seq(Messages)) /\ Len(logs) = Len(operations)
      /\ DOMAIN logs = 1 .. Len(logs)
  BY LenProperties DEF OwnersInv, LogsInv
<1>3. logs[o] \in Seq(Messages)
  BY <1>1, <1>2, ElementOfSeq
<1>4. heard \in Seq({Key(k) : k \in 0 .. NKeys})
  BY DEF GoodAnswer
<1>5. l \in Seq(Messages) /\ GoesOnIn(l)
  BY <1>1, <1>3, <1>4, GoesOnConcat
<1>6. heard \in Seq(Messages)
  BY <1>4, SeqMonotonic, {Key(k) : k \in 0 .. NKeys} \subseteq Messages DEF Messages
<1>7. /\ asking' = left
      /\ logs' = [logs EXCEPT ![o] = new]
      /\ running' = IF over THEN running \ {o} ELSE running
      /\ operations' = operations
  <2>1. [logs EXCEPT ![o] = logs[o] \o heard \o (IF over THEN <<End("done")>> ELSE <<>>)]
        = [logs EXCEPT ![o] = new]
    OBVIOUS
  <2>2. QED
    BY <2>1 DEF GoesOn
<1> HIDE DEF l
<1>8. /\ over => new = Append(l, End("done"))
      /\ ~over => new = l
      /\ new \in Seq(Messages)
  BY <1>5, EndAppended, ConcatEmptySeq DEF Ends
<1> HIDE DEF new
<1>9. /\ logs' \in Seq(Seq(Messages)) /\ Len(logs') = Len(logs)
      /\ \A j \in 1 .. Len(logs) : logs'[j] = IF j = o THEN new ELSE logs[j]
  BY <1>1, <1>2, <1>7, <1>8, ExceptSeq
<1>10. QED
  BY <1>1, <1>2, <1>3, <1>5, <1>6, <1>7, <1>8, <1>9 DEF l

\* After an answer an operation goes on with what it asks, or has ended.
LEMMA AnswerEnds ==
  ASSUME OwnersInv, LogsInv, NEW r \in asking, NEW heard, NEW more,
         GoodAnswer(r, heard, more), GoesOn(r, heard, more)
  PROVE  LogsInv'
<1> DEFINE o == r.op
           l == logs[o] \o heard
           goes == \E q \in asking' : q.op = o
<1>1. /\ o \in running /\ o \in DOMAIN operations
      /\ operations' = operations
      /\ asking' = (asking \ {r}) \cup more
      /\ logs' \in Seq(Seq(Messages)) /\ Len(logs') = Len(operations)
      /\ \A p \in DOMAIN operations \ {o} : logs'[p] = logs[p]
      /\ l \in Seq(Messages) /\ GoesOnIn(l)
      /\ goes => logs'[o] = l /\ running' = running
      /\ ~goes => logs'[o] = Append(l, End("done")) /\ running' = running \ {o}
  BY AnswerLog
<1> HIDE DEF l
<1>2. ASSUME NEW q \in asking'
      PROVE  /\ q \in OldAsks /\ q.op \in running
             /\ q.item \in DOMAIN operations[q.op].items
             /\ Fits(q.what, operations[q.op].items[q.item])
             /\ q.what = "values" => IsInjective(q.keys)
  <2>1. CASE q \in more
    <3>1. r \in asking /\ r.op \in running /\ r.item \in DOMAIN operations[r.op].items
      BY DEF LogsInv
    <3>2. QED
      BY <2>1, <3>1 DEF GoodAnswer
  <2>2. CASE q \in asking
    BY <2>2 DEF LogsInv
  <2>3. QED
    BY <1>1, <2>1, <2>2
<1>3. ASSUME NEW q \in asking' PROVE q.op \in running'
  BY <1>1, <1>2
<1>4. ASSUME NEW p \in running' PROVE (\E q \in asking' : q.op = p) /\ GoesOnIn(logs'[p])
  <2>1. p \in running
    BY <1>1
  <2>2. CASE p = o
    BY <1>1, <2>2
  <2>3. CASE p # o
    <3>1. PICK q \in asking : q.op = p
      BY <2>1 DEF LogsInv
    <3>2. q \in asking'
      BY <1>1, <2>3, <3>1
    <3>3. logs'[p] = logs[p] /\ GoesOnIn(logs[p])
      BY <1>1, <2>1, <2>3 DEF LogsInv, OwnersInv
    <3>4. QED
      BY <3>1, <3>2, <3>3
  <2>4. QED
    BY <2>2, <2>3
<1>5. ASSUME NEW p \in DOMAIN operations, p \notin running' PROVE EndsIn(logs'[p])
  <2>1. CASE p = o
    <3>1. ~goes
      BY <1>1, <1>5, <2>1
    <3>2. EndsIn(Append(l, End("done")))
      BY <1>1, EndAppended DEF Ends
    <3>3. QED
      BY <1>1, <2>1, <3>1, <3>2
  <2>2. CASE p # o
    BY <1>1, <1>5, <2>2 DEF LogsInv
  <2>3. QED
    BY <2>1, <2>2
<1>6. QED
  <2>1. asking' \subseteq OldAsks
    BY <1>2
  <2>2. QED
    BY <1>1, <1>2, <1>3, <1>4, <1>5, <2>1 DEF LogsInv

\* What the client heard after an answer, its end left aside.
LEMMA AnswerHeard ==
  ASSUME OwnersInv, LogsInv, NEW r \in asking, NEW heard, NEW more,
         GoodAnswer(r, heard, more), GoesOn(r, heard, more)
  PROVE  /\ r.op \in running /\ r.op \in DOMAIN operations
         /\ operations' = operations
         /\ asking' = (asking \ {r}) \cup more
         /\ \A o \in DOMAIN operations \ {r.op} : logs'[o] = logs[o] /\ (o \in running' <=> o \in running)
         /\ running' \subseteq running
         /\ IsDone(r.op)' => ~\E q \in asking' : q.op = r.op
         /\ \A m : m \notin Ends =>
              /\ m \in Range(logs'[r.op]) <=> m \in Range(logs[r.op]) \cup Range(heard)
              /\ Once(logs[r.op], m) /\ Once(heard, m)
                   /\ (m \notin Range(logs[r.op]) \/ m \notin Range(heard)) => Once(logs'[r.op], m)
              /\ Count(logs'[r.op], m) = Count(logs[r.op], m) + Count(heard, m)
<1> DEFINE o == r.op
           l == logs[o] \o heard
           goes == \E q \in asking' : q.op = o
<1>1. /\ o \in running /\ o \in DOMAIN operations
      /\ operations' = operations
      /\ asking' = (asking \ {r}) \cup more
      /\ \A p \in DOMAIN operations \ {o} : logs'[p] = logs[p]
      /\ logs[o] \in Seq(Messages) /\ heard \in Seq(Messages)
      /\ l \in Seq(Messages) /\ GoesOnIn(l)
      /\ goes => logs'[o] = l /\ running' = running
      /\ ~goes => logs'[o] = Append(l, End("done")) /\ running' = running \ {o}
  BY AnswerLog
<1>2. Range(l) = Range(logs[o]) \cup Range(heard)
  BY <1>1, ConcatElements
<1>3. End("done") \in Ends /\ End("done") \notin Range(l)
  <2>1. End("done") \in Ends
    BY DEF Ends
  <2>2. QED
    BY <1>1, <2>1 DEF GoesOnIn, Range
<1>4. ASSUME NEW m, m \notin Ends
      PROVE  /\ Once(logs[o], m) /\ Once(heard, m)
                  /\ (m \notin Range(logs[o]) \/ m \notin Range(heard)) => Once(l, m)
             /\ Count(l, m) = Count(logs[o], m) + Count(heard, m)
  BY <1>1, OnceConcat, CountConcat
<1> HIDE DEF l
<1>5. CASE goes
  <2>1. logs'[o] = l /\ running' = running
    BY <1>1, <1>5
  <2>2. ~IsDone(o)'
    <3>1. o' = o
      OBVIOUS
    <3>2. QED
      BY <1>3, <2>1 DEF IsDone
  <2>3. QED
    BY <1>1, <1>2, <1>4, <2>1, <2>2
<1>6. CASE ~goes
  <2>1. logs'[o] = Append(l, End("done")) /\ running' = running \ {o}
    BY <1>1, <1>6
  <2>2. /\ Range(logs'[o]) = Range(l) \cup {End("done")}
        /\ \A m : m \notin Ends => /\ Once(l, m) => Once(logs'[o], m)
                                   /\ Count(logs'[o], m) = Count(l, m)
    <3> DEFINE t == Append(l, End("done"))
    <3>1. l \in Seq(Messages) /\ GoesOnIn(l) /\ End("done") \in Ends
      BY <1>1, <1>3
    <3>2. /\ Range(t) = Range(l) \cup {End("done")}
          /\ \A m : m \notin Ends => /\ Once(l, m) => Once(t, m)
                                     /\ Count(t, m) = Count(l, m)
      BY <3>1, EndAppended
    <3> HIDE DEF t
    <3>3. logs'[o] = t
      BY <2>1 DEF t
    <3>4. QED
      BY <3>2, <3>3
  <2>3. ASSUME NEW m, m \notin Ends
        PROVE  m \in Range(logs'[o]) <=> m \in Range(logs[o]) \cup Range(heard)
    BY <1>2, <1>3, <2>2, <2>3
  <2>4. ASSUME NEW m, m \notin Ends
        PROVE  /\ Once(logs[o], m) /\ Once(heard, m)
                    /\ (m \notin Range(logs[o]) \/ m \notin Range(heard)) => Once(logs'[o], m)
               /\ Count(logs'[o], m) = Count(logs[o], m) + Count(heard, m)
    BY <1>4, <2>2, <2>4
  <2>5. QED
    BY <1>1, <1>6, <2>1, <2>3, <2>4
<1>7. QED
  BY <1>5, <1>6

\* An answer gives the keys it was waited for, or leaves them to other requests.
LEMMA AnswerKeys ==
  ASSUME OwnersInv, LogsInv, KeysInv, NEW r \in asking, NEW heard, NEW more,
         GoodAnswer(r, heard, more), GoesOn(r, heard, more)
  PROVE  KeysInv'
<1> DEFINE o == r.op
<1>1. /\ o \in running /\ o \in DOMAIN operations
      /\ operations' = operations
      /\ asking' = (asking \ {r}) \cup more
      /\ \A p \in DOMAIN operations \ {o} : logs'[p] = logs[p] /\ (p \in running' <=> p \in running)
      /\ running' \subseteq running
      /\ IsDone(r.op)' => ~\E q \in asking' : q.op = r.op
      /\ \A m : m \notin Ends =>
           /\ m \in Range(logs'[o]) <=> m \in Range(logs[o]) \cup Range(heard)
           /\ Once(logs[o], m) /\ Once(heard, m)
                /\ (m \notin Range(logs[o]) \/ m \notin Range(heard)) => Once(logs'[o], m)
  BY AnswerHeard
<1>2. \A q \in more : q.op = o
  BY DEF GoodAnswer
<1>3. \A q \in asking : q.op \in DOMAIN operations
  BY DEF LogsInv, OwnersInv
<1> SUFFICES ASSUME NEW k \in 1 .. NKeys
             PROVE  /\ \A q \in asking' : Waits(q, k) => ~Got(q.op, k)'
                    /\ \A a, b \in asking' : a.op = b.op /\ Waits(a, k) /\ Waits(b, k) => a = b
                    /\ \A p \in DOMAIN operations :
                         /\ Once(logs'[p], Key(k))
                         /\ p \in running' /\ Wants(p) =>
                               Got(p, k)' \/ \E q \in asking' : q.op = p /\ Waits(q, k)
                         /\ IsDone(p)' /\ Wants(p) => Got(p, k)'
  <2>1. \A p : Wants(p)' <=> Wants(p)
    BY <1>1 DEF Wants
  <2>2. QED
    BY <1>1, <2>1 DEF KeysInv
<1>4. /\ \A q \in asking : Waits(q, k) => ~Got(q.op, k)
      /\ \A a, b \in asking : a.op = b.op /\ Waits(a, k) /\ Waits(b, k) => a = b
      /\ \A p \in DOMAIN operations :
           /\ Once(logs[p], Key(k))
           /\ p \in running /\ Wants(p) => Got(p, k) \/ \E q \in asking : q.op = p /\ Waits(q, k)
           /\ IsDone(p) /\ Wants(p) => Got(p, k)
  BY DEF KeysInv
<1>5. /\ Once(heard, Key(k))
      /\ Key(k) \in Range(heard) => Waits(r, k)
      /\ Waits(r, k) => Key(k) \in Range(heard) \/ \E q \in more : Waits(q, k)
      /\ \A q \in more : Waits(q, k) => Waits(r, k) /\ Key(k) \notin Range(heard)
      /\ \A a, b \in more : Waits(a, k) /\ Waits(b, k) => a = b
  BY DEF GoodAnswer
<1>6. Key(k) \notin Ends
  BY MessagesDiffer
<1>7. /\ Got(o, k)' <=> Got(o, k) \/ Key(k) \in Range(heard)
      /\ \A p \in DOMAIN operations \ {o} : (Got(p, k)' <=> Got(p, k)) /\ (IsDone(p)' <=> IsDone(p))
  BY <1>1, <1>6 DEF Got, IsDone
<1>8. ASSUME NEW q \in asking', Waits(q, k) PROVE ~Got(q.op, k)'
  <2>1. CASE q \in more
    BY <1>2, <1>4, <1>5, <1>7, <1>8, <2>1
  <2>2. CASE q \in asking /\ q # r /\ q.op = o
    <3>1. ~Waits(r, k)
      BY <1>4, <1>8, <2>2
    <3>2. QED
      BY <1>4, <1>5, <1>7, <1>8, <2>2, <3>1
  <2>3. CASE q \in asking /\ q # r /\ q.op # o
    BY <1>3, <1>4, <1>7, <1>8, <2>3
  <2>4. QED
    BY <1>1, <2>1, <2>2, <2>3
<1>9. ASSUME NEW a \in asking', NEW b \in asking', a.op = b.op, Waits(a, k), Waits(b, k)
      PROVE  a = b
  <2>1. \A q \in more : Waits(q, k) => ~\E p \in asking \ {r} : p.op = o /\ Waits(p, k)
    BY <1>4, <1>5
  <2>2. QED
    BY <1>1, <1>2, <1>4, <1>5, <1>9, <2>1
<1>10. ASSUME NEW p \in DOMAIN operations
       PROVE  /\ Once(logs'[p], Key(k))
              /\ p \in running' /\ Wants(p) =>
                    Got(p, k)' \/ \E q \in asking' : q.op = p /\ Waits(q, k)
              /\ IsDone(p)' /\ Wants(p) => Got(p, k)'
  <2>1. CASE p # o
    <3>1. p \in running' /\ Wants(p) => Got(p, k)' \/ \E q \in asking' : q.op = p /\ Waits(q, k)
      BY <1>1, <1>4, <1>7, <2>1
    <3>2. QED
      BY <1>1, <1>4, <1>7, <2>1, <3>1
  <2>2. CASE p = o
    <3>1. Once(logs'[p], Key(k))
      BY <1>1, <1>4, <1>5, <1>6, <2>2 DEF Got
    <3>2. Wants(p) => Got(p, k)' \/ \E q \in asking' : q.op = p /\ Waits(q, k)
      BY <1>1, <1>2, <1>4, <1>5, <1>7, <2>2
    <3>3. IsDone(p)' => ~\E q \in asking' : q.op = p
      BY <1>1, <2>2
    <3>4. QED
      BY <3>1, <3>2, <3>3
  <2>3. QED
    BY <2>1, <2>2
<1>11. QED
  BY <1>8, <1>9, <1>10

\* The items of an operation are finitely many.
LEMMA ItemsFinite ==
  ASSUME OwnersInv, NEW o \in DOMAIN operations
  PROVE  /\ operations[o].owner \in 0 .. MaxFollows + 1
         /\ operations[o].items \in ItemLists
         /\ IsFiniteSet(Values(o)) /\ IsFiniteSet(Open(o))
         /\ Cardinality(Values(o)) \in Nat /\ Cardinality(Open(o)) \in Nat
<1>1. operations \in Seq([owner : 0 .. MaxFollows + 1, items : ItemLists])
  BY DEF OwnersInv
<1>2. operations[o] \in [owner : 0 .. MaxFollows + 1, items : ItemLists]
  BY <1>1, ElementOfSeq, LenProperties
<1>3. operations[o].items \in Seq(AskedItems)
  BY <1>2 DEF ItemLists
<1>4. /\ Len(operations[o].items) \in Nat
      /\ DOMAIN operations[o].items = 1 .. Len(operations[o].items)
  BY <1>3, LenProperties
<1>5. IsFiniteSet(DOMAIN operations[o].items)
  BY <1>4, FS_Interval
<1>6. Values(o) \in SUBSET (DOMAIN operations[o].items) /\ Open(o) \in SUBSET (DOMAIN operations[o].items)
  BY DEF Values, Open
<1>7. IsFiniteSet(Values(o)) /\ IsFiniteSet(Open(o))
  BY <1>5, <1>6, FS_Subset
<1>8. QED
  BY <1>2, <1>7, FS_CardinalityType

\* An answer gives the single value of its item, or leaves it to another request.
LEMMA AnswerSingles ==
  ASSUME OwnersInv, LogsInv, SinglesInv, NEW r \in asking, NEW heard, NEW more,
         GoodAnswer(r, heard, more), GoesOn(r, heard, more)
  PROVE  SinglesInv'
<1> DEFINE o == r.op
           item == operations[o].items[r.item]
<1>1. /\ o \in running /\ o \in DOMAIN operations
      /\ operations' = operations
      /\ asking' = (asking \ {r}) \cup more
      /\ \A p \in DOMAIN operations \ {o} : logs'[p] = logs[p] /\ (p \in running' <=> p \in running)
      /\ running' \subseteq running
      /\ IsDone(r.op)' => ~\E q \in asking' : q.op = r.op
      /\ \A m : m \notin Ends => Count(logs'[o], m) = Count(logs[o], m) + Count(heard, m)
  BY AnswerHeard
<1>2. \A q \in more : q.op = o /\ q.item = r.item /\ Fits(q.what, item)
  BY DEF GoodAnswer
<1>3. Fits(r.what, item) /\ r.item \in DOMAIN operations[o].items
  BY DEF LogsInv
<1>4. \A a, b \in asking :
         a.op = b.op /\ a.item = b.item /\ a.what \notin {"page", "values"} => a = b
  BY DEF SinglesInv
<1>5. ASSUME NEW a \in asking', NEW b \in asking', a.op = b.op, a.item = b.item,
             a.what \notin {"page", "values"}
      PROVE  a = b
  <2>1. CASE a \in asking \ {r} /\ b \in asking \ {r}
    BY <1>4, <1>5, <2>1
  <2>2. CASE a \in asking \ {r} /\ b \in more
    BY <1>2, <1>4, <1>5, <2>2
  <2>3. CASE a \in more
    <3>1. r.what \notin {"page", "values"}
      BY <1>2, <1>3, <1>5, <2>3 DEF Fits
    <3>2. \A p \in asking \ {r} : ~(p.op = o /\ p.item = r.item)
      BY <1>4, <3>1
    <3>3. b \in more
      BY <1>1, <1>2, <1>5, <2>3, <3>2
    <3>4. \E q : more = {q}
      BY <2>3, <3>1 DEF GoodAnswer
    <3>5. QED
      BY <2>3, <3>3, <3>4
  <2>4. QED
    BY <1>1, <2>1, <2>2, <2>3
<1>6. \A p : Values(p)' = Values(p)
  BY <1>1 DEF Values
<1>7. Key(0) \notin Ends
  BY MessagesDiffer
<1>8. ASSUME NEW p \in DOMAIN operations, p # o
      PROVE  /\ p \in running' =>
                   Count(logs'[p], Key(0)) + Cardinality(Open(p)') = Cardinality(Values(p))
             /\ IsDone(p)' => Count(logs'[p], Key(0)) = Cardinality(Values(p))
  <2>1. Open(p)' = Open(p)
    <3>1. \A k : (\E q \in asking' : q.op = p /\ q.item = k) <=> (\E q \in asking : q.op = p /\ q.item = k)
      BY <1>1, <1>2, <1>8
    <3>2. QED
      BY <1>6, <3>1 DEF Open
  <2>2. logs'[p] = logs[p] /\ (p \in running' <=> p \in running)
    BY <1>1, <1>8
  <2>3. IsDone(p)' <=> IsDone(p)
    BY <2>2 DEF IsDone
  <2>4. /\ p \in running => Count(logs[p], Key(0)) + Cardinality(Open(p)) = Cardinality(Values(p))
        /\ IsDone(p) => Count(logs[p], Key(0)) = Cardinality(Values(p))
    BY DEF SinglesInv
  <2>5. QED
    BY <2>1, <2>2, <2>3, <2>4
<1>9. Count(logs'[o], Key(0)) + Cardinality(Open(o)') = Cardinality(Values(o))
  <2>1. Count(logs[o], Key(0)) + Cardinality(Open(o)) = Cardinality(Values(o))
    BY <1>1 DEF SinglesInv
  <2>2. Count(logs'[o], Key(0)) = Count(logs[o], Key(0)) + Count(heard, Key(0))
    BY <1>1, <1>7
  <2>3. /\ logs[o] \in Seq(Messages)
        /\ Count(logs[o], Key(0)) \in Nat
    BY AnswerLog, CountFinite
  <2>4. /\ IsFiniteSet(Open(o)) /\ Cardinality(Open(o)) \in Nat
    BY <1>1, ItemsFinite
  <2>5. Open(o)' = {k \in Values(o) : \E q \in asking' : q.op = o /\ q.item = k}
    BY <1>6 DEF Open
  <2>6. Values(o) = {k \in DOMAIN operations[o].items : operations[o].items[k] \in {"value", "hash"}}
    BY DEF Values
  <2>7. CASE r.what \in {"page", "values"}
    <3>1. Key(0) \notin Range(heard)
      BY <2>7 DEF GoodAnswer
    <3>2. Count(heard, Key(0)) = 0
      BY <3>1, CountNone
    <3>3. item = "descendants"
      BY <1>3, <2>7 DEF Fits
    <3>4. r.item \notin Values(o)
      BY <2>6, <3>3
    <3>5. \A k \in Values(o) :
             (\E q \in asking' : q.op = o /\ q.item = k) <=> (\E q \in asking : q.op = o /\ q.item = k)
      BY <1>1, <1>2, <3>4
    <3>6. Open(o)' = Open(o)
      BY <2>5, <3>5 DEF Open
    <3>7. QED
      BY <2>1, <2>2, <2>3, <3>2, <3>6
  <2>8. CASE r.what \notin {"page", "values"} /\ \E q \in OldAsks : more = {q} /\ heard = <<>>
    <3>1. \A k : (\E q \in asking' : q.op = o /\ q.item = k) <=> (\E q \in asking : q.op = o /\ q.item = k)
      BY <1>1, <1>2, <2>8
    <3>2. Open(o)' = Open(o)
      BY <2>5, <3>1 DEF Open
    <3>3. Count(heard, Key(0)) = 0
      <4>1. Key(0) \notin Range(heard)
        BY <2>8 DEF Range
      <4>2. QED
        BY <4>1, CountNone
    <3>4. QED
      BY <2>1, <2>2, <2>3, <3>2, <3>3
  <2>9. CASE /\ r.what \notin {"page", "values"} /\ more = {}
             /\ heard = IF r.item \in Values(o) THEN <<Key(0)>> ELSE <<>>
    <3>1. \A k : (\E q \in asking' : q.op = o /\ q.item = k)
                 <=> k # r.item /\ \E q \in asking : q.op = o /\ q.item = k
      BY <1>1, <1>4, <2>9
    <3>2. Open(o)' = Open(o) \ {r.item}
      BY <2>5, <3>1 DEF Open
    <3>3. r.item \in Open(o) <=> r.item \in Values(o)
      BY DEF Open
    <3>4. Cardinality(Open(o)') = IF r.item \in Open(o) THEN Cardinality(Open(o)) - 1 ELSE Cardinality(Open(o))
      BY <2>4, <3>2, FS_RemoveElement
    <3>5. CASE r.item \in Values(o)
      <4>1. heard = <<Key(0)>>
        BY <2>9, <3>5
      <4>2. DOMAIN heard = {1} /\ heard[1] = Key(0)
        BY <4>1
      <4>3. Once(heard, Key(0)) /\ Key(0) \in Range(heard)
        BY <4>2 DEF Once, Range
      <4>4. Count(heard, Key(0)) = 1
        BY <4>3, CountOnce
      <4>5. QED
        BY <2>1, <2>2, <2>3, <2>4, <3>3, <3>4, <3>5, <4>4
    <3>6. CASE r.item \notin Values(o)
      <4>1. Key(0) \notin Range(heard)
        BY <2>9, <3>6 DEF Range
      <4>2. Count(heard, Key(0)) = 0
        BY <4>1, CountNone
      <4>3. QED
        BY <2>1, <2>2, <2>3, <2>4, <3>3, <3>4, <3>6, <4>2
    <3>7. QED
      BY <3>5, <3>6
  <2>10. QED
    BY <2>7, <2>8, <2>9 DEF GoodAnswer
<1>10. IsDone(r.op)' => Cardinality(Open(o)') = 0 /\ Count(logs'[o], Key(0)) \in Nat
  <2>1. logs' \in Seq(Seq(Messages)) /\ Len(logs') = Len(operations) /\ o \in DOMAIN operations
    BY AnswerLog
  <2>2. logs'[o] \in Seq(Messages)
    BY <2>1, ElementOfSeq, LenProperties DEF OwnersInv
  <2>3. Count(logs'[o], Key(0)) \in Nat
    BY <2>2, CountFinite
  <2>4. IsDone(r.op)' => Open(o)' = {}
    BY <1>1 DEF Open
  <2>5. QED
    BY <2>3, <2>4, FS_EmptySet
<1>11. IsDone(r.op)' => Count(logs'[o], Key(0)) = Cardinality(Values(o))
  BY <1>9, <1>10
<1>12. ASSUME NEW p \in DOMAIN operations
       PROVE  /\ p \in running' =>
                    Count(logs'[p], Key(0)) + Cardinality(Open(p)') = Cardinality(Values(p))
              /\ IsDone(p)' => Count(logs'[p], Key(0)) = Cardinality(Values(p))
  BY <1>8, <1>9, <1>11
<1>13. QED
  BY <1>1, <1>5, <1>6, <1>12 DEF SinglesInv

-----------------------------------------------------------------------------
(* The answers *)

\* getValues asks once for what it is given, and not at all for nothing.
LEMMA ValuesAsked ==
  ASSUME NEW r \in OldAsks, NEW keys \in Seq(1 .. NKeys), NEW splits \in Nat
  PROVE  /\ \A q \in AskValues(r, keys, splits) :
              /\ q \in OldAsks /\ q.op = r.op /\ q.item = r.item
              /\ q.what = "values" /\ q.keys = keys /\ q.splits = splits /\ q.from = 0
         /\ \A a, b \in AskValues(r, keys, splits) : a = b
         /\ \A k \in Range(keys) : \E q \in AskValues(r, keys, splits) : q.keys = keys
<1> DEFINE q == [r EXCEPT !.what = "values", !.from = 0, !.keys = keys, !.splits = splits]
<1>1. /\ q \in OldAsks /\ q.op = r.op /\ q.item = r.item
      /\ q.what = "values" /\ q.keys = keys /\ q.splits = splits /\ q.from = 0
  <2>1. "values" \in Whats /\ 0 \in 0 .. NKeys
    BY PagesAssumption DEF Whats
  <2>2. q \in OldAsks
    BY <2>1 DEF OldAsks
  <2>3. q.op = r.op /\ q.item = r.item
    BY DEF OldAsks
  <2>4. q.what = "values" /\ q.keys = keys /\ q.splits = splits /\ q.from = 0
    BY DEF OldAsks
  <2>5. QED
    BY <2>2, <2>3, <2>4
<1>2. AskValues(r, keys, splits) = IF keys = <<>> THEN {} ELSE {q}
  BY DEF AskValues
<1>3. keys = <<>> => Range(keys) = {}
  BY DEF Range
<1> HIDE DEF q
<1>4. QED
  BY <1>1, <1>2, <1>3

\* The two halves of the keys are all of them, and none twice.
LEMMA HalvesOfKeys ==
  ASSUME NEW S, NEW s \in Seq(S), IsInjective(s), NEW mid \in 0 .. Len(s)
  PROVE  /\ SubSeq(s, 1, mid) \in Seq(S) /\ IsInjective(SubSeq(s, 1, mid))
         /\ SubSeq(s, mid + 1, Len(s)) \in Seq(S) /\ IsInjective(SubSeq(s, mid + 1, Len(s)))
         /\ Range(s) = Range(SubSeq(s, 1, mid)) \cup Range(SubSeq(s, mid + 1, Len(s)))
         /\ Range(SubSeq(s, 1, mid)) \cap Range(SubSeq(s, mid + 1, Len(s))) = {}
<1> DEFINE a == SubSeq(s, 1, mid)
           b == SubSeq(s, mid + 1, Len(s))
<1>1. /\ Len(s) \in Nat /\ DOMAIN s = 1 .. Len(s) /\ \A i \in 1 .. Len(s) : s[i] \in S
  BY LenProperties, ElementOfSeq
<1>2. /\ a \in Seq(S) /\ Len(a) = mid /\ \A i \in 1 .. mid : a[i] = s[i]
  <2>1. \A i \in 1 .. mid : s[i] \in S
    BY <1>1
  <2>2. /\ a \in Seq(S) /\ Len(a) = (IF 1 <= mid THEN mid - 1 + 1 ELSE 0)
        /\ \A i \in 1 .. mid - 1 + 1 : a[i] = s[1 + i - 1]
    BY <1>1, <2>1, SubSeqProperties
  <2>3. QED
    BY <1>1, <2>2
<1>3. /\ b \in Seq(S) /\ Len(b) = Len(s) - mid /\ \A i \in 1 .. Len(s) - mid : b[i] = s[mid + i]
  <2>1. \A i \in mid + 1 .. Len(s) : s[i] \in S
    BY <1>1
  <2>2. mid + 1 \in Int /\ Len(s) \in Int
    BY <1>1
  <2>3. /\ b \in Seq(S) /\ Len(b) = (IF mid + 1 <= Len(s) THEN Len(s) - (mid + 1) + 1 ELSE 0)
        /\ \A i \in 1 .. Len(s) - (mid + 1) + 1 : b[i] = s[(mid + 1) + i - 1]
    BY <2>1, <2>2, SubSeqProperties
  <2>4. Len(s) \in Nat /\ mid \in Nat /\ mid <= Len(s)
    BY <1>1
  <2>5. Len(b) = Len(s) - mid
    BY <2>3, <2>4
  <2>6. ASSUME NEW i \in 1 .. Len(s) - mid PROVE b[i] = s[mid + i]
    <3>1. i \in 1 .. Len(s) - (mid + 1) + 1 /\ (mid + 1) + i - 1 = mid + i
      BY <2>4
    <3>2. QED
      BY <2>3, <3>1
  <2>7. QED
    BY <2>3, <2>5, <2>6
<1>4. DOMAIN a = 1 .. mid /\ DOMAIN b = 1 .. Len(s) - mid
  BY <1>2, <1>3, LenProperties
<1> HIDE DEF a, b
<1>5. IsInjective(a)
  BY <1>1, <1>2, <1>4 DEF IsInjective
<1>6. IsInjective(b)
  <2>1. SUFFICES ASSUME NEW i \in 1 .. Len(s) - mid, NEW j \in 1 .. Len(s) - mid, b[i] = b[j] PROVE i = j
    BY <1>4 DEF IsInjective
  <2>2. mid + i \in DOMAIN s /\ mid + j \in DOMAIN s /\ s[mid + i] = s[mid + j]
    BY <1>1, <1>3, <2>1
  <2>3. mid + i = mid + j
    BY <2>2 DEF IsInjective
  <2>4. QED
    BY <2>3
<1>7. Range(s) \subseteq Range(a) \cup Range(b)
  <2>1. SUFFICES ASSUME NEW i \in 1 .. Len(s) PROVE s[i] \in Range(a) \cup Range(b)
    BY <1>1 DEF Range
  <2>2. CASE i <= mid
    <3>1. i \in DOMAIN a /\ a[i] = s[i]
      BY <1>2, <1>4, <2>2
    <3>2. QED
      BY <3>1 DEF Range
  <2>3. CASE ~(i <= mid)
    <3>1. i - mid \in DOMAIN b /\ b[i - mid] = s[mid + (i - mid)]
      BY <1>1, <1>3, <1>4, <2>3
    <3>2. mid + (i - mid) = i
      OBVIOUS
    <3>3. QED
      BY <3>1, <3>2 DEF Range
  <2>4. QED
    BY <2>2, <2>3
<1>8. Range(a) \cup Range(b) \subseteq Range(s)
  <2>1. \A i \in DOMAIN a : i \in DOMAIN s /\ a[i] = s[i]
    BY <1>1, <1>2, <1>4
  <2>2. \A i \in DOMAIN b : mid + i \in DOMAIN s /\ b[i] = s[mid + i]
    BY <1>1, <1>3, <1>4
  <2>3. QED
    BY <2>1, <2>2 DEF Range
<1>9. Range(a) \cap Range(b) = {}
  <2>1. SUFFICES ASSUME NEW i \in DOMAIN a, NEW j \in DOMAIN b, a[i] = b[j] PROVE FALSE
    BY DEF Range
  <2>2. i \in DOMAIN s /\ mid + j \in DOMAIN s /\ s[i] = s[mid + j]
    BY <1>1, <1>2, <1>3, <1>4, <2>1
  <2>3. i = mid + j
    BY <2>2 DEF IsInjective
  <2>4. QED
    BY <1>1, <1>4, <2>3
<1>10. QED
  BY <1>2, <1>3, <1>5, <1>6, <1>7, <1>8, <1>9 DEF a, b

\* Keys that count on from a number.
LEMMA ConsecutiveKeys ==
  ASSUME NEW from \in Nat, NEW m \in Nat, NEW keys, DOMAIN keys = 1 .. m,
         \A i \in 1 .. m : keys[i] = from + i
  PROVE  IsInjective(keys) /\ Range(keys) = from + 1 .. from + m
<1>1. \A i, j \in 1 .. m : keys[i] = keys[j] => i = j
  <2> SUFFICES ASSUME NEW i \in 1 .. m, NEW j \in 1 .. m, keys[i] = keys[j] PROVE i = j
    OBVIOUS
  <2>1. from + i = from + j
    OBVIOUS
  <2>2. QED
    BY <2>1
<1>2. ASSUME NEW i \in 1 .. m PROVE keys[i] \in from + 1 .. from + m
  <2>1. keys[i] = from + i
    OBVIOUS
  <2>2. QED
    BY <2>1
<1>3. ASSUME NEW k \in from + 1 .. from + m PROVE k \in Range(keys)
  <2>1. k - from \in 1 .. m /\ from + (k - from) = k
    OBVIOUS
  <2>2. keys[k - from] = k
    BY <2>1
  <2>3. QED
    BY <2>1, <2>2 DEF Range
<1>4. Range(keys) \subseteq from + 1 .. from + m
  BY <1>2, Zenon DEF Range
<1>5. from + 1 .. from + m \subseteq Range(keys)
  BY <1>3, Zenon
<1>6. IsInjective(keys)
  BY <1>1, Zenon DEF IsInjective
<1>7. QED
  BY <1>4, <1>5, <1>6, Zenon

\* The keys of a page, without the one it repeats: those that come next, and all that
\* are left if the page is not full.
LEMMA PageKeys ==
  ASSUME NEW from \in 0 .. NKeys, repeats \in BOOLEAN,
         NEW received, received = PageFrom(from),
         NEW keys, keys = IF received # <<>> /\ received[1] = from THEN Tail(received) ELSE received
  PROVE  /\ keys \in Seq(1 .. NKeys) /\ IsInjective(keys)
         /\ IF Len(received) < PageSize THEN Range(keys) = from + 1 .. NKeys
            ELSE /\ Last(received) \in from + 1 .. NKeys
                 /\ Range(keys) = from + 1 .. Last(received)
<1> DEFINE first == IF repeats /\ from > 0 THEN from ELSE from + 1
           left == NKeys + 1 - first
           n == IF left < PageSize THEN left ELSE PageSize
<1>1. /\ NKeys \in Nat /\ PageSize \in Nat /\ PageSize > 1
      /\ first \in 1 .. NKeys + 1 /\ (first = from \/ first = from + 1)
      /\ n \in Nat /\ first + n - 1 <= NKeys
      /\ n < PageSize => first + n - 1 = NKeys
  BY PagesAssumption
<1>2. received = [i \in 1 .. n |-> first + i - 1]
  BY DEF PageFrom
<1> HIDE DEF first, n
<1>3. received \in [1 .. n -> 1 .. NKeys]
  BY <1>1, <1>2
<1>4. received \in Seq(1 .. NKeys) /\ Len(received) = n
  BY <1>1, <1>3, FunctionIsSequence
<1>5. Last(received) = received[n]
  BY <1>4 DEF Last
<1>6. \A i \in 1 .. n : received[i] = first + i - 1
  BY <1>2
<1>7. \A m \in Nat : (DOMAIN keys = 1 .. m /\ \A i \in 1 .. m : keys[i] = from + i) =>
         IsInjective(keys) /\ Range(keys) = from + 1 .. from + m
  <2>1. from \in Nat
    BY <1>1
  <2>2. QED
    BY <2>1, ConsecutiveKeys
<1>8. CASE received # <<>> /\ received[1] = from
  <2>1. n > 0
    BY <1>1, <1>4, <1>8, EmptySeq
  <2>2. first = from
    <3>1. received[1] = first + 1 - 1
      BY <1>1, <1>6, <2>1
    <3>2. QED
      BY <1>1, <1>8, <3>1
  <2>3. keys = Tail(received)
    BY <1>8
  <2>4. /\ keys \in Seq(1 .. NKeys) /\ Len(keys) = n - 1
        /\ \A i \in 1 .. Len(keys) : keys[i] = received[i + 1]
    BY <1>4, <1>8, <2>3, HeadTailProperties
  <2>5. DOMAIN keys = 1 .. n - 1 /\ n - 1 \in Nat
    BY <1>1, <2>1, <2>4, LenProperties
  <2>6. ASSUME NEW i \in 1 .. n - 1 PROVE keys[i] = from + i
    <3>1. i + 1 \in 1 .. n
      BY <1>1
    <3>2. received[i + 1] = first + (i + 1) - 1
      BY <1>6, <3>1
    <3>3. QED
      BY <1>1, <2>2, <2>4, <3>2
  <2>7. IsInjective(keys) /\ Range(keys) = from + 1 .. from + (n - 1)
    BY <1>7, <2>5, <2>6
  <2>8. n >= PageSize => n > 1 /\ received[n] = from + (n - 1)
    BY <1>1, <1>6, <2>1, <2>2
  <2>9. CASE n < PageSize
    BY <1>1, <1>4, <2>2, <2>4, <2>7, <2>9
  <2>10. CASE ~(n < PageSize)
    <3>1. Len(received) >= PageSize /\ Last(received) = from + (n - 1) /\ n > 1
      BY <1>1, <1>4, <1>5, <2>8, <2>10
    <3>2. from + (n - 1) \in from + 1 .. NKeys
      BY <1>1, <2>2, <3>1
    <3>3. QED
      BY <1>1, <1>4, <2>4, <2>7, <2>10, <3>1, <3>2
  <2>11. QED
    BY <2>9, <2>10
<1>9. CASE ~(received # <<>> /\ received[1] = from)
  <2>1. keys = received
    BY <1>9
  <2>2. first = from + 1
    <3>1. CASE n = 0
      BY <1>1, <3>1
    <3>2. CASE n # 0
      <4>1. received[1] = first + 1 - 1 /\ Len(received) # 0
        BY <1>1, <1>4, <1>6, <3>2
      <4>2. received # <<>>
        BY <4>1, EmptySeq
      <4>3. QED
        BY <1>1, <1>9, <4>1, <4>2
    <3>3. QED
      BY <3>1, <3>2
  <2>3. ASSUME NEW i \in 1 .. n PROVE keys[i] = from + i
    BY <1>1, <1>6, <2>1, <2>2
  <2>4. IsInjective(keys) /\ Range(keys) = from + 1 .. from + n
    BY <1>1, <1>3, <1>7, <2>1, <2>3
  <2>5. CASE n < PageSize
    BY <1>1, <1>4, <2>1, <2>2, <2>4, <2>5
  <2>6. CASE ~(n < PageSize)
    <3>1. Last(received) = from + n /\ n > 1
      BY <1>1, <1>5, <2>1, <2>3, <2>6
    <3>2. from + n \in from + 1 .. NKeys
      BY <1>1, <2>2, <3>1
    <3>3. QED
      BY <1>1, <1>4, <2>1, <2>4, <2>6, <3>1, <3>2
  <2>7. QED
    BY <2>5, <2>6
<1>10. QED
  BY <1>8, <1>9

\* Nothing is no message.
LEMMA NothingHeard ==
  /\ <<>> \in Seq({Key(k) : k \in 0 .. NKeys})
  /\ Range(<<>>) = {}
  /\ \A e : Once(<<>>, e)
<1>1. DOMAIN <<>> = {}
  OBVIOUS
<1>2. QED
  BY <1>1 DEF Range, Once

\* An answer that is not heard leaves all it waited for to other requests.
LEMMA SplitIsGood ==
  ASSUME LogsInv, NEW r \in asking, r.what \in {"page", "values"},
         NEW more \in SUBSET OldAsks,
         \A q \in more : /\ q.op = r.op /\ q.item = r.item /\ q.what \in {"page", "values"}
                         /\ q.what = "values" => IsInjective(q.keys),
         \A k \in 1 .. NKeys :
            /\ Waits(r, k) <=> \E q \in more : Waits(q, k)
            /\ \A a, b \in more : Waits(a, k) /\ Waits(b, k) => a = b
  PROVE  GoodAnswer(r, <<>>, more)
<1>1. operations[r.op].items[r.item] = "descendants"
  BY DEF LogsInv, Fits
<1>2. \A q \in more : Fits(q.what, operations[r.op].items[r.item])
  <2>1. \A w \in {"page", "values"} : Fits(w, "descendants")
    BY DEF Fits
  <2>2. \A q \in more : q.what \in {"page", "values"}
    OBVIOUS
  <2>3. QED
    BY <1>1, <2>1, <2>2
<1>3. \A k \in 1 .. NKeys :
        /\ Once(<<>>, Key(k))
        /\ Key(k) \in Range(<<>>) => Waits(r, k)
        /\ Waits(r, k) => Key(k) \in Range(<<>>) \/ \E q \in more : Waits(q, k)
        /\ \A q \in more : Waits(q, k) => Waits(r, k) /\ Key(k) \notin Range(<<>>)
        /\ \A a, b \in more : Waits(a, k) /\ Waits(b, k) => a = b
  BY NothingHeard
<1>4. \A q \in more :
        /\ q.op = r.op /\ q.item = r.item
        /\ Fits(q.what, operations[r.op].items[r.item])
        /\ q.what = "values" => IsInjective(q.keys)
  BY <1>2
<1>5. Key(0) \notin Range(<<>>)
  BY NothingHeard
<1>6. QED
  BY <1>3, <1>4, <1>5, NothingHeard DEF GoodAnswer

\* A page: its keys are asked for, and the ones after it if it was full.
LEMMA PageIsGood ==
  ASSUME OwnersInv, LogsInv, NEW r \in asking, PageComes(r)
  PROVE  \E heard, more : GoodAnswer(r, heard, more) /\ GoesOn(r, heard, more)
<1> DEFINE received == PageFrom(r.from)
           keys == IF received # <<>> /\ received[1] = r.from THEN Tail(received) ELSE received
           vals == AskValues(r, keys, 0)
           next == [r EXCEPT !.from = Last(received)]
           more == vals \cup IF Len(received) < PageSize THEN {} ELSE {next}
<1>1. r.what = "page" /\ GoesOn(r, <<>>, more)
  BY DEF PageComes
<1>2. r \in OldAsks /\ r.from \in 0 .. NKeys
  BY DEF LogsInv, OldAsks
<1>3. /\ keys \in Seq(1 .. NKeys) /\ IsInjective(keys)
      /\ IF Len(received) < PageSize THEN Range(keys) = r.from + 1 .. NKeys
         ELSE /\ Last(received) \in r.from + 1 .. NKeys
              /\ Range(keys) = r.from + 1 .. Last(received)
  BY <1>2, PageKeys DEF OwnersInv
<1> HIDE DEF received, keys
<1>4. /\ \A q \in vals : /\ q \in OldAsks /\ q.op = r.op /\ q.item = r.item
                         /\ q.what = "values" /\ q.keys = keys
      /\ \A a, b \in vals : a = b
      /\ \A k \in Range(keys) : \E q \in vals : q.keys = keys
  BY <1>2, <1>3, ValuesAsked
<1> HIDE DEF vals
<1>5. CASE Len(received) < PageSize
  <2>1. more = vals
    BY <1>5
  <2>2. more \in SUBSET OldAsks
    BY <1>4, <2>1
  <2>3. \A q \in more : /\ q.op = r.op /\ q.item = r.item /\ q.what \in {"page", "values"}
                        /\ q.what = "values" => IsInjective(q.keys)
    BY <1>3, <1>4, <2>1
  <2>4. ASSUME NEW k \in 1 .. NKeys
        PROVE  /\ Waits(r, k) <=> \E q \in more : Waits(q, k)
               /\ \A a, b \in more : Waits(a, k) /\ Waits(b, k) => a = b
    <3>1. Waits(r, k) <=> k \in Range(keys)
      BY <1>1, <1>2, <1>3, <1>5 DEF Waits
    <3>2. \A q \in more : Waits(q, k) <=> k \in Range(keys)
      BY <1>4, <2>1 DEF Waits
    <3>3. QED
      BY <1>4, <2>1, <3>1, <3>2
  <2> HIDE DEF more
  <2>5. GoodAnswer(r, <<>>, more)
    BY <1>1, <2>2, <2>3, <2>4, SplitIsGood
  <2>6. QED
    BY <1>1, <2>5
<1>6. CASE ~(Len(received) < PageSize)
  <2>1. more = vals \cup {next}
    BY <1>6
  <2>2. Last(received) \in r.from + 1 .. NKeys /\ Range(keys) = r.from + 1 .. Last(received)
    BY <1>3, <1>6
  <2>3. /\ next \in OldAsks /\ next.op = r.op /\ next.item = r.item
        /\ next.what = "page" /\ next.from = Last(received)
    <3>1. Last(received) \in 0 .. NKeys
      BY <1>2, <2>2
    <3>2. next \in OldAsks
      BY <1>2, <3>1 DEF OldAsks
    <3>3. next.op = r.op /\ next.item = r.item /\ next.what = r.what /\ next.from = Last(received)
      BY <1>2 DEF OldAsks
    <3>4. QED
      BY <1>1, <3>2, <3>3
  <2> HIDE DEF next
  <2>4. more \in SUBSET OldAsks
    BY <1>4, <2>1, <2>3
  <2>5. \A q \in more : /\ q.op = r.op /\ q.item = r.item /\ q.what \in {"page", "values"}
                        /\ q.what = "values" => IsInjective(q.keys)
    BY <1>3, <1>4, <2>1, <2>3
  <2>6. ASSUME NEW k \in 1 .. NKeys
        PROVE  /\ Waits(r, k) <=> \E q \in more : Waits(q, k)
               /\ \A a, b \in more : Waits(a, k) /\ Waits(b, k) => a = b
    <3>1. Waits(r, k) <=> k > r.from
      BY <1>1 DEF Waits
    <3>2. \A q \in vals : Waits(q, k) <=> k \in Range(keys)
      BY <1>4 DEF Waits
    <3>3. Waits(next, k) <=> k > Last(received)
      BY <2>3 DEF Waits
    <3>4. k \in Range(keys) <=> k > r.from /\ ~(k > Last(received))
      BY <1>2, <2>2
    <3>5. k > Last(received) => k > r.from
      BY <1>2, <2>2
    <3>6. (\E q \in vals : Waits(q, k)) <=> k \in Range(keys)
      BY <1>4, <3>2
    <3>7. QED
      BY <1>4, <2>1, <3>1, <3>2, <3>3, <3>4, <3>5, <3>6
  <2> HIDE DEF more
  <2>7. GoodAnswer(r, <<>>, more)
    BY <1>1, <2>4, <2>5, <2>6, SplitIsGood
  <2>8. QED
    BY <1>1, <2>7
<1>7. QED
  BY <1>5, <1>6

\* A refusal: each key is asked for in one of the halves.
LEMMA HalvesAreGood ==
  ASSUME OwnersInv, LogsInv, NEW r \in asking, Halved(r)
  PROVE  \E heard, more : GoodAnswer(r, heard, more) /\ GoesOn(r, heard, more)
<1> DEFINE mid == Len(r.keys) \div 2
           a == SubSeq(r.keys, 1, mid)
           b == SubSeq(r.keys, mid + 1, Len(r.keys))
           asksA == AskValues(r, a, r.splits + 1)
           asksB == AskValues(r, b, r.splits + 1)
           more == asksA \cup asksB
<1>1. r.what = "values" /\ GoesOn(r, <<>>, more)
  BY DEF Halved
<1>2. r \in OldAsks /\ r.keys \in Seq(1 .. NKeys) /\ r.splits + 1 \in Nat
  BY DEF LogsInv, OldAsks
<1>3. IsInjective(r.keys)
  BY <1>1 DEF LogsInv
<1>4. mid \in 0 .. Len(r.keys)
  <2>1. Len(r.keys) \in Nat
    BY <1>2, LenProperties
  <2>2. \A n \in Nat : n \div 2 \in 0 .. n
    OBVIOUS
  <2>3. QED
    BY <2>1, <2>2
<1> HIDE DEF mid
<1>5. /\ a \in Seq(1 .. NKeys) /\ IsInjective(a)
      /\ b \in Seq(1 .. NKeys) /\ IsInjective(b)
      /\ Range(r.keys) = Range(a) \cup Range(b)
      /\ Range(a) \cap Range(b) = {}
  BY <1>2, <1>3, <1>4, HalvesOfKeys
<1> HIDE DEF a, b
<1>6. /\ \A q \in asksA : /\ q \in OldAsks /\ q.op = r.op /\ q.item = r.item
                          /\ q.what = "values" /\ q.keys = a
      /\ \A q, p \in asksA : q = p
      /\ \A k \in Range(a) : \E q \in asksA : q.keys = a
  BY <1>2, <1>5, ValuesAsked
<1>7. /\ \A q \in asksB : /\ q \in OldAsks /\ q.op = r.op /\ q.item = r.item
                          /\ q.what = "values" /\ q.keys = b
      /\ \A q, p \in asksB : q = p
      /\ \A k \in Range(b) : \E q \in asksB : q.keys = b
  BY <1>2, <1>5, ValuesAsked
<1> HIDE DEF asksA, asksB
<1>8. more \in SUBSET OldAsks
  BY <1>6, <1>7
<1>9. \A q \in more : /\ q.op = r.op /\ q.item = r.item /\ q.what \in {"page", "values"}
                      /\ q.what = "values" => IsInjective(q.keys)
  BY <1>5, <1>6, <1>7
<1>10. ASSUME NEW k \in 1 .. NKeys
       PROVE  /\ Waits(r, k) <=> \E q \in more : Waits(q, k)
              /\ \A q, p \in more : Waits(q, k) /\ Waits(p, k) => q = p
  <2>1. Waits(r, k) <=> k \in Range(r.keys)
    BY <1>1 DEF Waits
  <2>2. \A q \in asksA : Waits(q, k) <=> k \in Range(a)
    BY <1>6 DEF Waits
  <2>3. \A q \in asksB : Waits(q, k) <=> k \in Range(b)
    BY <1>7 DEF Waits
  <2>4. /\ (\E q \in asksA : Waits(q, k)) <=> k \in Range(a)
        /\ (\E q \in asksB : Waits(q, k)) <=> k \in Range(b)
    BY <1>6, <1>7, <2>2, <2>3
  <2>5. Waits(r, k) <=> \E q \in more : Waits(q, k)
    BY <1>5, <2>1, <2>4
  <2>6. QED
    BY <1>5, <1>6, <1>7, <2>2, <2>3, <2>5
<1> HIDE DEF more
<1>11. GoodAnswer(r, <<>>, more)
  BY <1>1, <1>8, <1>9, <1>10, SplitIsGood
<1>12. QED
  BY <1>1, <1>11

\* Values: each key that was asked for is heard once.
LEMMA ValuesAreGood ==
  ASSUME OwnersInv, LogsInv, NEW r \in asking, ValuesCome(r)
  PROVE  \E heard, more : GoodAnswer(r, heard, more) /\ GoesOn(r, heard, more)
<1> DEFINE heard == [k \in DOMAIN r.keys |-> Key(r.keys[k])]
<1>1. r.what = "values" /\ GoesOn(r, heard, {})
  BY DEF ValuesCome
<1>2. r \in OldAsks /\ r.keys \in Seq(1 .. NKeys) /\ IsInjective(r.keys)
  BY <1>1 DEF LogsInv, OldAsks
<1>3. /\ Len(r.keys) \in Nat /\ DOMAIN r.keys = 1 .. Len(r.keys)
      /\ \A i \in 1 .. Len(r.keys) : r.keys[i] \in 1 .. NKeys
  BY <1>2, LenProperties, ElementOfSeq
<1>4. heard \in [1 .. Len(r.keys) -> {Key(k) : k \in 0 .. NKeys}]
  BY <1>3
<1>5. heard \in Seq({Key(k) : k \in 0 .. NKeys})
  BY <1>3, <1>4, FunctionIsSequence
<1>6. DOMAIN heard = DOMAIN r.keys /\ \A i \in DOMAIN r.keys : heard[i] = Key(r.keys[i])
  OBVIOUS
<1> HIDE DEF heard
<1>7. \A k : Key(k) \in Range(heard) <=> k \in Range(r.keys)
  <2>1. SUFFICES ASSUME NEW k PROVE Key(k) \in Range(heard) <=> k \in Range(r.keys)
    OBVIOUS
  <2>2. \A i \in DOMAIN r.keys : heard[i] = Key(k) <=> r.keys[i] = k
    BY <1>6, MessagesDiffer
  <2>3. QED
    BY <1>6, <2>2 DEF Range
<1>8. ASSUME NEW k \in 1 .. NKeys PROVE Once(heard, Key(k))
  <2>1. SUFFICES ASSUME NEW i \in DOMAIN r.keys, NEW j \in DOMAIN r.keys,
                        heard[i] = Key(k), heard[j] = Key(k)
                 PROVE  i = j
    BY <1>6 DEF Once
  <2>2. r.keys[i] = k /\ r.keys[j] = k
    BY <1>6, <2>1, MessagesDiffer
  <2>3. QED
    BY <1>2, <2>2 DEF IsInjective
<1>9. Key(0) \notin Range(heard)
  <2>1. 0 \notin Range(r.keys)
    BY <1>3 DEF Range
  <2>2. QED
    BY <1>7, <2>1
<1>10. \A k : Waits(r, k) <=> k \in Range(r.keys)
  BY <1>1 DEF Waits
<1>11. GoodAnswer(r, heard, {})
  BY <1>1, <1>5, <1>7, <1>8, <1>9, <1>10 DEF GoodAnswer
<1>12. QED
  BY <1>1, <1>11

\* What is asked is one of the items of its operation.
LEMMA ItemWhats ==
  ASSUME OwnersInv, LogsInv, NEW r \in asking
  PROVE  LET item == operations[r.op].items[r.item]
         IN  item \in AskedItems /\ Fits(r.what, item)
<1>1. r.op \in DOMAIN operations /\ r.item \in DOMAIN operations[r.op].items
  BY DEF LogsInv, OwnersInv
<1>2. operations[r.op].items \in Seq(AskedItems)
  BY <1>1, ItemsFinite DEF ItemLists
<1>3. operations[r.op].items[r.item] \in AskedItems
  BY <1>1, <1>2, ElementOfSeq, LenProperties
<1>4. QED
  BY <1>3 DEF LogsInv

\* A single value is heard, and is no key of the descendants.
LEMMA SingleIsGood ==
  ASSUME OwnersInv, LogsInv, NEW r \in asking, ValueComes(r)
  PROVE  \E heard, more : GoodAnswer(r, heard, more) /\ GoesOn(r, heard, more)
<1> DEFINE heard == IF r.what \in {"value", "hash"} THEN <<Key(0)>> ELSE <<>>
           item == operations[r.op].items[r.item]
<1>1. r.what \in {"call", "value", "absent", "hash"} /\ GoesOn(r, heard, {})
  BY DEF ValueComes
<1>2. item \in AskedItems /\ Fits(r.what, item) /\ r.item \in DOMAIN operations[r.op].items
  BY ItemWhats DEF LogsInv
<1>3. r.what \in {"value", "hash"} <=> item \in {"value", "hash"}
  BY <1>1, <1>2 DEF Fits, AskedItems
<1>4. heard = IF r.item \in Values(r.op) THEN <<Key(0)>> ELSE <<>>
  BY <1>2, <1>3 DEF Values
<1>5. heard \in Seq({Key(k) : k \in 0 .. NKeys}) /\ Range(heard) \subseteq {Key(0)}
  <2>1. <<Key(0)>> \in Seq({Key(k) : k \in 0 .. NKeys})
    BY PagesAssumption
  <2>2. Range(<<Key(0)>>) = {Key(0)}
    BY DEF Range
  <2>3. QED
    BY <2>1, <2>2, NothingHeard
<1> HIDE DEF heard
<1>6. \A k \in 1 .. NKeys : Key(k) # Key(0)
  <2>1. \A k \in 1 .. NKeys : k # 0
    OBVIOUS
  <2>2. QED
    BY <2>1, MessagesDiffer
<1>7. \A k \in 1 .. NKeys : Key(k) \notin Range(heard)
  BY <1>5, <1>6
<1>8. \A k \in 1 .. NKeys : Once(heard, Key(k))
  BY <1>7 DEF Once, Range
<1>9. \A k : ~Waits(r, k)
  BY <1>1 DEF Waits
<1>10. GoodAnswer(r, heard, {})
  BY <1>1, <1>4, <1>5, <1>7, <1>8, <1>9 DEF GoodAnswer
<1>11. QED
  BY <1>1, <1>10

\* Where hashes are not known the value is asked for instead.
LEMMA ValueInsteadIsGood ==
  ASSUME OwnersInv, LogsInv, NEW r \in asking, NoSuchMethod(r)
  PROVE  \E heard, more : GoodAnswer(r, heard, more) /\ GoesOn(r, heard, more)
<1> DEFINE q == [r EXCEPT !.what = "value"]
           item == operations[r.op].items[r.item]
<1>1. r.what = "hash" /\ GoesOn(r, <<>>, {q})
  BY DEF NoSuchMethod
<1>2. r \in OldAsks
  BY DEF LogsInv
<1>3. q \in OldAsks /\ q.op = r.op /\ q.item = r.item /\ q.what = "value"
  <2>1. "value" \in Whats
    BY DEF Whats
  <2>2. q \in OldAsks
    BY <1>2, <2>1 DEF OldAsks
  <2>3. q.op = r.op /\ q.item = r.item /\ q.what = "value"
    BY <1>2 DEF OldAsks
  <2>4. QED
    BY <2>2, <2>3
<1> HIDE DEF q
<1>4. item \in AskedItems /\ Fits(r.what, item)
  BY ItemWhats
<1>5. item = "hash" /\ Fits(q.what, item)
  BY <1>1, <1>3, <1>4 DEF Fits, AskedItems
<1>6. \A k : ~Waits(r, k) /\ ~Waits(q, k)
  BY <1>1, <1>3 DEF Waits
<1>7. GoodAnswer(r, <<>>, {q})
  BY <1>1, <1>3, <1>5, <1>6, NothingHeard DEF GoodAnswer
<1>8. QED
  BY <1>1, <1>7

-----------------------------------------------------------------------------
(* Beginnings and ends *)

\* Operations that end before they are done take their requests with them.
LEMMA EndsStep ==
  ASSUME OwnersInv, LogsInv, KeysInv, SinglesInv, NEW ends \in SUBSET running, NEW last,
         \A o \in ends : last[o] \in {End("error"), End("given up")},
         operations' = operations,
         asking' = {q \in asking : q.op \notin ends},
         logs' = [o \in DOMAIN logs |-> IF o \in ends THEN Append(logs[o], last[o]) ELSE logs[o]],
         running' = running \ ends
  PROVE  LogsInv' /\ KeysInv' /\ SinglesInv'
<1>1. /\ Len(operations) \in Nat /\ DOMAIN operations = 1 .. Len(operations)
      /\ logs \in Seq(Seq(Messages)) /\ Len(logs) = Len(operations)
      /\ DOMAIN logs = 1 .. Len(operations)
      /\ running \subseteq DOMAIN operations
      /\ \A o \in DOMAIN operations : logs[o] \in Seq(Messages)
  <2>1. /\ Len(operations) \in Nat /\ DOMAIN operations = 1 .. Len(operations)
        /\ logs \in Seq(Seq(Messages)) /\ Len(logs) = Len(operations)
        /\ running \subseteq DOMAIN operations
    BY LenProperties DEF OwnersInv, LogsInv
  <2>2. DOMAIN logs = 1 .. Len(logs)
    BY <2>1, LenProperties
  <2>3. \A o \in 1 .. Len(logs) : logs[o] \in Seq(Messages)
    BY <2>1, ElementOfSeq
  <2>4. QED
    BY <2>1, <2>2, <2>3
<1>2. /\ \A o \in DOMAIN operations \ ends : logs'[o] = logs[o]
      /\ \A o \in ends : logs'[o] = Append(logs[o], last[o])
  BY <1>1
<1>3. ASSUME NEW o \in ends
      PROVE  /\ logs'[o] \in Seq(Messages) /\ EndsIn(logs'[o]) /\ ~IsDone(o)' /\ ~IsDone(o)
             /\ \A m : m \notin Ends => /\ m \in Range(logs'[o]) <=> m \in Range(logs[o])
                                        /\ Once(logs[o], m) => Once(logs'[o], m)
                                        /\ Count(logs'[o], m) = Count(logs[o], m)
  <2> DEFINE t == Append(logs[o], last[o])
  <2>1. o \in DOMAIN operations /\ logs[o] \in Seq(Messages) /\ GoesOnIn(logs[o])
    BY <1>1 DEF LogsInv
  <2>2. last[o] \in Ends /\ last[o] # End("done") /\ End("done") \in Ends
    BY MessagesDiffer DEF Ends
  <2>3. /\ t \in Seq(Messages) /\ EndsIn(t) /\ Range(t) = Range(logs[o]) \cup {last[o]}
        /\ \A m : m \notin Ends /\ Once(logs[o], m) => Once(t, m)
        /\ \A m : m \notin Ends => Count(t, m) = Count(logs[o], m)
    BY <2>1, <2>2, EndAppended
  <2>4. logs'[o] = t
    BY <1>2
  <2> HIDE DEF t
  <2>5. End("done") \notin Range(logs[o])
    BY <2>1, <2>2 DEF GoesOnIn, Range
  <2>6. ~IsDone(o)' /\ ~IsDone(o)
    BY <2>2, <2>3, <2>4, <2>5 DEF IsDone
  <2>7. QED
    BY <2>2, <2>3, <2>4, <2>6
<1>4. LogsInv'
  <2>1. ASSUME NEW o \in 1 .. Len(operations) PROVE logs'[o] \in Seq(Messages)
    BY <1>1, <1>2, <1>3
  <2>2. DOMAIN logs' = 1 .. Len(operations)
    BY <1>1
  <2>3. logs' \in [1 .. Len(operations) -> Seq(Messages)]
    BY <2>1, <2>2
  <2>4. logs' \in Seq(Seq(Messages)) /\ Len(logs') = Len(operations)
    BY <1>1, <2>3, FunctionIsSequence
  <2>5. \A r \in asking' :
           /\ r \in OldAsks /\ r.op \in running' /\ r.item \in DOMAIN operations[r.op].items
           /\ Fits(r.what, operations[r.op].items[r.item])
           /\ r.what = "values" => IsInjective(r.keys)
    BY DEF LogsInv
  <2>6. \A o \in running' : (\E r \in asking' : r.op = o) /\ GoesOnIn(logs'[o])
    BY <1>1, <1>2 DEF LogsInv
  <2>7. ASSUME NEW o \in DOMAIN operations, o \notin running' PROVE EndsIn(logs'[o])
    BY <1>2, <1>3, <2>7 DEF LogsInv
  <2>8. asking' \subseteq OldAsks
    BY <2>5
  <2>9. QED
    BY <2>4, <2>5, <2>6, <2>7, <2>8 DEF LogsInv
<1>5. ASSUME NEW o \in DOMAIN operations
      PROVE  /\ IsDone(o)' <=> IsDone(o)
             /\ \A m : m \notin Ends => /\ m \in Range(logs'[o]) <=> m \in Range(logs[o])
                                        /\ Once(logs[o], m) => Once(logs'[o], m)
                                        /\ Count(logs'[o], m) = Count(logs[o], m)
  <2>1. CASE o \in ends
    BY <1>3, <2>1
  <2>2. CASE o \notin ends
    BY <1>2, <2>2 DEF IsDone
  <2>3. QED
    BY <2>1, <2>2
<1>6. /\ \A q \in asking' : q \in asking /\ q.op \in DOMAIN operations
      /\ \A q \in asking : q.op \in running' => q \in asking'
      /\ \A o \in running' : o \in running /\ o \in DOMAIN operations
  BY <1>1 DEF LogsInv
<1>7. KeysInv'
  <2> SUFFICES ASSUME NEW k \in 1 .. NKeys
               PROVE  /\ \A r \in asking' : Waits(r, k) => ~Got(r.op, k)'
                      /\ \A r, q \in asking' : r.op = q.op /\ Waits(r, k) /\ Waits(q, k) => r = q
                      /\ \A o \in DOMAIN operations :
                           /\ Once(logs'[o], Key(k))
                           /\ o \in running' /\ Wants(o) =>
                                 Got(o, k)' \/ \E r \in asking' : r.op = o /\ Waits(r, k)
                           /\ IsDone(o)' /\ Wants(o) => Got(o, k)'
    <3>1. \A o : Wants(o)' <=> Wants(o)
      BY DEF Wants
    <3>2. QED
      BY <3>1 DEF KeysInv
  <2>1. /\ \A r \in asking : Waits(r, k) => ~Got(r.op, k)
        /\ \A r, q \in asking : r.op = q.op /\ Waits(r, k) /\ Waits(q, k) => r = q
        /\ \A o \in DOMAIN operations :
             /\ Once(logs[o], Key(k))
             /\ o \in running /\ Wants(o) => Got(o, k) \/ \E r \in asking : r.op = o /\ Waits(r, k)
             /\ IsDone(o) /\ Wants(o) => Got(o, k)
    BY DEF KeysInv
  <2>2. \A o \in DOMAIN operations :
           /\ Got(o, k)' <=> Got(o, k)
           /\ Once(logs[o], Key(k)) => Once(logs'[o], Key(k))
           /\ IsDone(o)' <=> IsDone(o)
    <3>1. Key(k) \notin Ends
      BY MessagesDiffer
    <3>2. QED
      BY <1>5, <3>1 DEF Got
  <2>3. ASSUME NEW o \in running', Wants(o)
        PROVE  Got(o, k)' \/ \E r \in asking' : r.op = o /\ Waits(r, k)
    <3>1. o \in running /\ o \in DOMAIN operations
      BY <1>6
    <3>2. Got(o, k) \/ \E r \in asking : r.op = o /\ Waits(r, k)
      BY <2>1, <2>3, <3>1, Zenon
    <3>3. CASE Got(o, k)
      BY <2>2, <3>1, <3>3, Zenon
    <3>4. CASE \E r \in asking : r.op = o /\ Waits(r, k)
      BY <1>6, <3>4, Zenon
    <3>5. QED
      BY <3>2, <3>3, <3>4
  <2>4. QED
    BY <1>6, <2>1, <2>2, <2>3
<1>8. SinglesInv'
  <2>1. \A o : Values(o)' = Values(o)
    BY DEF Values
  <2>2. ASSUME NEW o \in running'
        PROVE  Count(logs'[o], Key(0)) + Cardinality(Open(o)') = Cardinality(Values(o))
    <3>1. Open(o)' = Open(o)
      BY <1>6, <2>1, <2>2 DEF Open
    <3>2. Count(logs[o], Key(0)) + Cardinality(Open(o)) = Cardinality(Values(o))
      BY <1>6, <2>2 DEF SinglesInv
    <3>3. Count(logs'[o], Key(0)) = Count(logs[o], Key(0))
      BY <1>5, <1>6, <2>2, MessagesDiffer
    <3>4. QED
      BY <3>1, <3>2, <3>3
  <2>3. ASSUME NEW o \in DOMAIN operations, IsDone(o)'
        PROVE  Count(logs'[o], Key(0)) = Cardinality(Values(o))
    BY <1>5, <2>3, MessagesDiffer DEF SinglesInv
  <2>4. \A r, q \in asking' :
           r.op = q.op /\ r.item = q.item /\ r.what \notin {"page", "values"} => r = q
    BY <1>6 DEF SinglesInv
  <2>5. QED
    BY <2>1, <2>2, <2>3, <2>4 DEF SinglesInv
<1>9. QED
  BY <1>4, <1>7, <1>8

\* An operation of no items is done at once; another asks for each of its items.
LEMMA OperationStep ==
  ASSUME LegacyInv, NEW owner \in followers \cup {Archive, Nobody}, NEW items,
         Operation(owner, items)
  PROVE  LegacyInv'
<1>a. Len(operations) \in Nat
  BY LenProperties DEF LegacyInv, OwnersInv
<1>b. PICK o \in Nat : o = Len(operations) + 1
  BY <1>a
<1> DEFINE asks == {FirstAsk(o, k, items[k]) : k \in DOMAIN items}
           log == IF items = <<>> THEN <<End("done")>> ELSE <<>>
<1>0. OwnersInv /\ LogsInv /\ KeysInv /\ SinglesInv
  BY DEF LegacyInv
<1>1. /\ link \in {"on", "failed"} /\ o <= Len(Asked) /\ items \in Asked[o]
      /\ operations' = Append(operations, [owner |-> owner, items |-> items])
      /\ asking' = asking \cup asks
      /\ logs' = Append(logs, log)
      /\ running' = IF items = <<>> THEN running ELSE running \cup {o}
      /\ UNCHANGED <<followers, nFollows, casts, repeats, link>>
  BY <1>b DEF Operation
<1>2. /\ Len(operations) \in Nat /\ DOMAIN operations = 1 .. Len(operations)
      /\ logs \in Seq(Seq(Messages)) /\ Len(logs) = Len(operations)
      /\ DOMAIN logs = 1 .. Len(operations)
      /\ running \subseteq DOMAIN operations /\ o \notin DOMAIN operations
  BY <1>0, <1>b, LenProperties DEF OwnersInv, LogsInv
<1>3. items \in ItemLists
  <2>1. o \in 1 .. Len(Asked)
    BY <1>a, <1>b, <1>1, AskedAssumption, LenProperties
  <2>2. Asked[o] \in SUBSET Seq(AskedItems) /\ o \in DOMAIN Asked
    BY <2>1, AskedAssumption, ElementOfSeq, LenProperties DEF AskedItems
  <2>3. QED
    BY <1>1, <2>2, AskedAssumption DEF ItemLists
<1>4. items \in Seq(AskedItems) /\ Len(items) \in Nat /\ DOMAIN items = 1 .. Len(items)
      /\ \A k \in DOMAIN items : items[k] \in AskedItems
  BY <1>3, LenProperties, ElementOfSeq DEF ItemLists
<1>5. owner \in 0 .. MaxFollows + 1
  BY <1>0, AskedAssumption DEF OwnersInv, Archive, Nobody
<1>6. /\ operations' \in Seq([owner : 0 .. MaxFollows + 1, items : ItemLists])
      /\ Len(operations') = o /\ DOMAIN operations' = 1 .. o
      /\ \A p \in DOMAIN operations : operations'[p] = operations[p]
      /\ operations'[o] = [owner |-> owner, items |-> items]
  <2>1. [owner |-> owner, items |-> items] \in [owner : 0 .. MaxFollows + 1, items : ItemLists]
    BY <1>3, <1>5
  <2>2. operations \in Seq([owner : 0 .. MaxFollows + 1, items : ItemLists])
    BY <1>0 DEF OwnersInv
  <2>3. /\ operations' \in Seq([owner : 0 .. MaxFollows + 1, items : ItemLists])
        /\ Len(operations') = Len(operations) + 1
        /\ \A p \in 1 .. Len(operations) : operations'[p] = operations[p]
        /\ operations'[Len(operations) + 1] = [owner |-> owner, items |-> items]
    BY <1>1, <2>1, <2>2, AppendProperties
  <2>4. DOMAIN operations' = 1 .. Len(operations')
    BY <2>3, LenProperties
  <2>5. QED
    BY <1>b, <1>2, <2>3, <2>4
<1>7. /\ logs' \in Seq(Seq(Messages)) /\ Len(logs') = o
      /\ \A p \in DOMAIN operations : logs'[p] = logs[p]
      /\ logs'[o] = log
  <2>1. log \in Seq(Messages)
    <3>1. End("done") \in Messages
      BY DEF Messages, Ends
    <3>2. <<End("done")>> \in Seq(Messages) /\ <<>> \in Seq(Messages)
      BY <3>1
    <3>3. QED
      BY <3>2
  <2>2. /\ logs' \in Seq(Seq(Messages)) /\ Len(logs') = Len(logs) + 1
        /\ \A p \in 1 .. Len(logs) : logs'[p] = logs[p]
        /\ logs'[Len(logs) + 1] = log
    BY <1>1, <1>2, <2>1, AppendProperties
  <2>3. QED
    BY <1>b, <1>2, <2>2
<1>8. o \in Nat /\ DOMAIN operations' = DOMAIN operations \cup {o}
  BY <1>b, <1>2, <1>6
<1>9. \A k \in DOMAIN items :
        LET q == FirstAsk(o, k, items[k])
        IN  /\ q \in OldAsks /\ q.op = o /\ q.item = k /\ q.from = 0
            /\ q.what = IF items[k] = "descendants" THEN "page" ELSE items[k]
            /\ Fits(q.what, items[k]) /\ q.what # "values"
  <2> SUFFICES ASSUME NEW k \in DOMAIN items
               PROVE  LET q == FirstAsk(o, k, items[k])
                      IN  /\ q \in OldAsks /\ q.op = o /\ q.item = k /\ q.from = 0
                          /\ q.what = IF items[k] = "descendants" THEN "page" ELSE items[k]
                          /\ Fits(q.what, items[k]) /\ q.what # "values"
    OBVIOUS
  <2> DEFINE q == FirstAsk(o, k, items[k])
             what == IF items[k] = "descendants" THEN "page" ELSE items[k]
  <2>1. items[k] \in AskedItems /\ k \in Nat
    BY <1>4
  <2>2. what \in Whats /\ Fits(what, items[k]) /\ what # "values"
    BY <2>1 DEF AskedItems, Whats, Fits
  <2>3. q = [op |-> o, item |-> k, what |-> what, from |-> 0, keys |-> <<>>, splits |-> 0]
    BY DEF FirstAsk, Ask
  <2> HIDE DEF what, q
  <2>4. 0 \in 0 .. NKeys /\ <<>> \in Seq(1 .. NKeys) /\ 0 \in Nat
    BY PagesAssumption, EmptySeq
  <2>5. q \in OldAsks
    BY <1>8, <2>1, <2>2, <2>3, <2>4 DEF OldAsks
  <2>6. q.op = o /\ q.item = k /\ q.from = 0 /\ q.what = what
    BY <2>3
  <2>7. QED
    BY <2>2, <2>5, <2>6 DEF q, what
<1> HIDE DEF asks, log
<1>10. \A q \in asks : /\ q \in OldAsks /\ q.op = o /\ q.item \in DOMAIN items /\ q.from = 0
                       /\ q = FirstAsk(o, q.item, items[q.item])
                       /\ q.what = IF items[q.item] = "descendants" THEN "page" ELSE items[q.item]
                       /\ Fits(q.what, items[q.item]) /\ q.what # "values"
  BY <1>9 DEF asks
<1>11. \A k \in DOMAIN items : \E q \in asks : q.item = k
  BY <1>9 DEF asks
<1>12. items = <<>> => asks = {}
  <2>1. items = <<>> => DOMAIN items = {}
    OBVIOUS
  <2>2. QED
    BY <2>1 DEF asks
<1>13. items # <<>> => asks # {}
  <2>1. items # <<>> => 1 \in DOMAIN items
    BY <1>4, EmptySeq
  <2>2. QED
    BY <1>11, <2>1
<1>14. \A q \in asking : q \in OldAsks /\ q.op \in running /\ q.op \in DOMAIN operations /\ q.op # o
  BY <1>0, <1>2 DEF LogsInv
<1>15. OwnersInv'
  <2>1. running' \subseteq DOMAIN operations'
    BY <1>1, <1>2, <1>8
  <2>2. Tracked' \subseteq Tracked \cup {o}
    BY <1>1, <1>2, <1>6 DEF Tracked
  <2>3. \A p \in Tracked' : operations'[p].owner \in followers' \cup {Archive}
    <3>1. ASSUME NEW p \in Tracked' PROVE operations'[p].owner \in followers' \cup {Archive}
      <4>1. CASE p \in Tracked
        BY <1>0, <1>1, <1>2, <1>6, <4>1 DEF OwnersInv, Tracked
      <4>2. CASE p = o
        BY <1>1, <1>6, <4>2, <3>1 DEF Tracked
      <4>3. QED
        BY <2>2, <4>1, <4>2
    <3>2. QED
      BY <3>1
  <2>4. link' \notin {"halted", "left"}
    BY <1>1
  <2>5. QED
    BY <1>0, <1>1, <1>6, <2>1, <2>3, <2>4 DEF OwnersInv
<1>16. LogsInv'
  <2>1. ASSUME NEW r \in asking'
        PROVE  /\ r \in OldAsks /\ r.op \in running' /\ r.item \in DOMAIN operations'[r.op].items
               /\ Fits(r.what, operations'[r.op].items[r.item])
               /\ r.what = "values" => IsInjective(r.keys)
    <3>1. CASE r \in asking
      BY <1>0, <1>1, <1>6, <1>14, <3>1 DEF LogsInv
    <3>2. CASE r \in asks
      BY <1>1, <1>6, <1>10, <1>12, <3>2
    <3>3. QED
      BY <1>1, <3>1, <3>2
  <2>2. ASSUME NEW p \in running' PROVE (\E r \in asking' : r.op = p) /\ GoesOnIn(logs'[p])
    <3>1. CASE p \in running
      BY <1>0, <1>1, <1>2, <1>7, <3>1 DEF LogsInv
    <3>2. CASE p = o /\ items # <<>>
      <4>1. logs'[p] = <<>>
        BY <1>7, <3>2 DEF log
      <4>2. GoesOnIn(logs'[p])
        BY <4>1 DEF GoesOnIn
      <4>3. QED
        BY <1>1, <1>10, <1>13, <3>2, <4>2
    <3>3. QED
      BY <1>1, <3>1, <3>2
  <2>3. ASSUME NEW p \in DOMAIN operations', p \notin running' PROVE EndsIn(logs'[p])
    <3>1. CASE p \in DOMAIN operations
      BY <1>0, <1>1, <1>7, <2>3, <3>1 DEF LogsInv
    <3>2. CASE p = o
      <4>1. logs'[p] = <<End("done")>>
        BY <1>1, <1>7, <2>3, <3>2 DEF log
      <4>2. Len(logs'[p]) = 1 /\ DOMAIN logs'[p] = {1} /\ logs'[p][1] = End("done") /\ logs'[p] # <<>>
        BY <4>1
      <4>3. QED
        BY <4>2 DEF EndsIn, Ends
    <3>3. QED
      BY <1>8, <3>1, <3>2
  <2>4. asking' \subseteq OldAsks
    BY <2>1
  <2>5. QED
    BY <1>6, <1>7, <2>1, <2>2, <2>3, <2>4 DEF LogsInv
<1>17. /\ \A p \in DOMAIN operations : /\ Values(p)' = Values(p)
                                       /\ Wants(p)' <=> Wants(p)
                                       /\ IsDone(p)' <=> IsDone(p)
                                       /\ p \in running' <=> p \in running
       /\ Wants(o)' <=> Contains(items, "descendants")
       /\ Values(o)' = {k \in DOMAIN items : items[k] \in {"value", "hash"}}
       /\ IsDone(o)' => items = <<>>
       /\ \A m : m \notin Ends => m \notin Range(logs'[o])
  <2>1. \A p \in DOMAIN operations : operations'[p] = operations[p] /\ logs'[p] = logs[p]
    BY <1>6, <1>7
  <2>2. operations'[o].items = items
    BY <1>6
  <2>3. Range(log) = IF items = <<>> THEN {End("done")} ELSE {}
    BY DEF log, Range
  <2>4. IsDone(o)' => items = <<>>
    <3>1. End("done") \in Range(log) => items = <<>>
      BY <2>3
    <3>2. QED
      BY <1>7, <3>1 DEF IsDone
  <2>5. \A m : m \notin Ends => m \notin Range(logs'[o])
    BY <1>7, <2>3 DEF Ends
  <2>6. Wants(o)' <=> Contains(items, "descendants")
    BY <2>2 DEF Wants
  <2>7. Values(o)' = {k \in DOMAIN items : items[k] \in {"value", "hash"}}
    BY <2>2 DEF Values
  <2>8. \A p \in DOMAIN operations : p \in running' <=> p \in running
    BY <1>1, <1>2
  <2>9. QED
    BY <2>1, <2>4, <2>5, <2>6, <2>7, <2>8 DEF Values, Wants, IsDone
<1>18. KeysInv'
  <2> SUFFICES ASSUME NEW k \in 1 .. NKeys
               PROVE  /\ \A r \in asking' : Waits(r, k) => ~Got(r.op, k)'
                      /\ \A r, q \in asking' : r.op = q.op /\ Waits(r, k) /\ Waits(q, k) => r = q
                      /\ \A p \in DOMAIN operations' :
                           /\ Once(logs'[p], Key(k))
                           /\ p \in running' /\ Wants(p)' =>
                                 Got(p, k)' \/ \E r \in asking' : r.op = p /\ Waits(r, k)
                           /\ IsDone(p)' /\ Wants(p)' => Got(p, k)'
    BY DEF KeysInv
  <2>1. /\ \A r \in asking : Waits(r, k) => ~Got(r.op, k)
        /\ \A r, q \in asking : r.op = q.op /\ Waits(r, k) /\ Waits(q, k) => r = q
        /\ \A p \in DOMAIN operations :
             /\ Once(logs[p], Key(k))
             /\ p \in running /\ Wants(p) => Got(p, k) \/ \E r \in asking : r.op = p /\ Waits(r, k)
             /\ IsDone(p) /\ Wants(p) => Got(p, k)
    BY <1>0 DEF KeysInv
  <2>2. \A p \in DOMAIN operations : Got(p, k)' <=> Got(p, k)
    BY <1>7 DEF Got
  <2>3. ~Got(o, k)'
    BY <1>17, MessagesDiffer DEF Got
  <2>4. ASSUME NEW r \in asking', Waits(r, k) PROVE ~Got(r.op, k)'
    <3>1. CASE r \in asking
      BY <1>14, <2>1, <2>2, <2>4, <3>1
    <3>2. CASE r \in asks
      BY <1>10, <2>3, <3>2
    <3>3. QED
      BY <1>1, <3>1, <3>2
  <2>5. ASSUME NEW r \in asks, NEW q \in asks, Waits(r, k), Waits(q, k) PROVE r = q
    <3>1. r.what = "page" /\ q.what = "page"
      BY <1>10, <2>5 DEF Waits
    <3>2. items[r.item] = "descendants" /\ items[q.item] = "descendants"
      BY <1>4, <1>10, <3>1 DEF AskedItems
    <3>3. r.item = q.item
      BY <1>3, <1>10, <3>2 DEF ItemLists
    <3>4. QED
      BY <1>10, <3>3
  <2>6. ASSUME NEW r \in asking', NEW q \in asking', r.op = q.op, Waits(r, k), Waits(q, k) PROVE r = q
    BY <1>1, <1>10, <1>14, <2>1, <2>5, <2>6
  <2>7. ASSUME NEW p \in DOMAIN operations
        PROVE  /\ Once(logs'[p], Key(k))
               /\ p \in running' /\ Wants(p)' =>
                     Got(p, k)' \/ \E r \in asking' : r.op = p /\ Waits(r, k)
               /\ IsDone(p)' /\ Wants(p)' => Got(p, k)'
    <3>1. Once(logs'[p], Key(k)) /\ (IsDone(p)' /\ Wants(p)' => Got(p, k)')
      BY <1>7, <1>17, <2>1, <2>2
    <3>2. ASSUME p \in running', Wants(p)'
          PROVE  Got(p, k)' \/ \E r \in asking' : r.op = p /\ Waits(r, k)
      BY <1>1, <1>17, <2>1, <2>2, <3>2
    <3>3. QED
      BY <3>1, <3>2
  <2>8. Once(logs'[o], Key(k))
    <3>1. Key(k) \notin Range(logs'[o])
      BY <1>17, MessagesDiffer
    <3>2. QED
      BY <3>1 DEF Once, Range
  <2>9. Wants(o)' => items # <<>> /\ \E r \in asking' : r.op = o /\ Waits(r, k)
    <3> SUFFICES ASSUME Wants(o)' PROVE items # <<>> /\ \E r \in asking' : r.op = o /\ Waits(r, k)
      OBVIOUS
    <3>1. PICK i \in 1 .. Len(items) : items[i] = "descendants"
      BY <1>17 DEF Contains
    <3>2. PICK r \in asks : r.item = i
      BY <1>4, <1>11, <3>1
    <3>3. r.what = "page" /\ r.from = 0 /\ r.op = o
      BY <1>10, <3>1, <3>2
    <3>4. Waits(r, k)
      BY <3>3 DEF Waits
    <3>5. QED
      BY <1>1, <1>12, <3>2, <3>3, <3>4
  <2>10. QED
    BY <1>8, <1>17, <2>4, <2>6, <2>7, <2>8, <2>9
<1>19. SinglesInv'
  <2>1. \A r, q \in asking :
           r.op = q.op /\ r.item = q.item /\ r.what \notin {"page", "values"} => r = q
    BY <1>0 DEF SinglesInv
  <2>2. ASSUME NEW r \in asking', NEW q \in asking', r.op = q.op, r.item = q.item,
               r.what \notin {"page", "values"}
        PROVE  r = q
    BY <1>1, <1>10, <1>14, <2>1, <2>2
  <2>3. ASSUME NEW p \in DOMAIN operations
        PROVE  /\ p \in running' =>
                     Count(logs'[p], Key(0)) + Cardinality(Open(p)') = Cardinality(Values(p)')
               /\ IsDone(p)' => Count(logs'[p], Key(0)) = Cardinality(Values(p)')
    <3>1. Open(p)' = Open(p)
      <4>1. \A k : (\E q \in asking' : q.op = p /\ q.item = k) <=> (\E q \in asking : q.op = p /\ q.item = k)
        BY <1>1, <1>2, <1>10
      <4>2. Open(p)' = {k \in Values(p) : \E q \in asking' : q.op = p /\ q.item = k}
        BY <1>17 DEF Open
      <4>3. QED
        BY <4>1, <4>2 DEF Open
    <3>2. logs'[p] = logs[p]
      BY <1>7
    <3>3. /\ p \in running => Count(logs[p], Key(0)) + Cardinality(Open(p)) = Cardinality(Values(p))
          /\ IsDone(p) => Count(logs[p], Key(0)) = Cardinality(Values(p))
      BY <1>0 DEF SinglesInv
    <3>4. QED
      BY <1>17, <3>1, <3>2, <3>3
  <2>4. Count(logs'[o], Key(0)) = 0
    BY <1>17, CountNone, MessagesDiffer
  <2>5. Open(o)' = Values(o)'
    <3>1. \A k \in DOMAIN items : \E q \in asking' : q.op = o /\ q.item = k
      BY <1>1, <1>10, <1>11
    <3>2. Open(o)' = {k \in Values(o)' : \E q \in asking' : q.op = o /\ q.item = k}
      BY DEF Open
    <3>3. QED
      BY <1>17, <3>1, <3>2
  <2>6. Cardinality(Values(o)') \in Nat
    <3>1. Values(o)' \in SUBSET (1 .. Len(items)) /\ IsFiniteSet(1 .. Len(items))
      BY <1>4, <1>17, FS_Interval
    <3>2. QED
      BY <3>1, FS_Subset, FS_CardinalityType
  <2>7. IsDone(o)' => Cardinality(Values(o)') = 0
    <3>1. items = <<>> => DOMAIN items = {}
      OBVIOUS
    <3>2. IsDone(o)' => Values(o)' = {}
      BY <1>17, <3>1
    <3>3. QED
      BY <3>2, FS_EmptySet
  <2>8. QED
    BY <1>8, <2>2, <2>3, <2>4, <2>5, <2>6, <2>7 DEF SinglesInv
<1>20. QED
  BY <1>15, <1>16, <1>18, <1>19 DEF LegacyInv

-----------------------------------------------------------------------------
(* Every step *)

\* No operation, no request.
LEMMA LegacyInvStart == LegacyInit => LegacyInv
<1> SUFFICES ASSUME LegacyInit PROVE LegacyInv
  OBVIOUS
<1>1. /\ followers = {} /\ nFollows = 0 /\ operations = <<>> /\ running = {} /\ logs = <<>>
      /\ asking = {} /\ casts = <<>> /\ repeats \in BOOLEAN /\ link = "on"
  BY DEF LegacyInit
<1>2. DOMAIN operations = {} /\ Len(operations) = 0 /\ Len(logs) = 0
  BY <1>1
<1>3. Tracked = {}
  BY <1>1 DEF Tracked
<1>4. OwnersInv
  <2>1. IsFiniteSet(followers) /\ Cardinality(followers) = 0
    BY <1>1, FS_EmptySet
  <2>2. /\ operations \in Seq([owner : 0 .. MaxFollows + 1, items : ItemLists])
        /\ casts \in Seq(CastPhases)
    BY <1>1
  <2>3. nFollows \in 0 .. MaxFollows
    BY <1>1, AskedAssumption
  <2>4. QED
    BY <1>1, <1>3, <2>1, <2>2, <2>3 DEF OwnersInv
<1>5. LogsInv
  <2>1. logs \in Seq(Seq(Messages))
    BY <1>1
  <2>2. QED
    BY <1>1, <1>2, <2>1 DEF LogsInv
<1>6. KeysInv /\ SinglesInv
  BY <1>1, <1>2 DEF KeysInv, SinglesInv
<1>7. QED
  BY <1>4, <1>5, <1>6 DEF LegacyInv

\* A step that starts and ends no operation and hears nothing.
LEMMA OperationsUntouched ==
  ASSUME LogsInv, KeysInv, SinglesInv, UNCHANGED <<operations, running, logs, asking>>
  PROVE  LogsInv' /\ KeysInv' /\ SinglesInv'
<1>1. LogsInv'
  BY DEF LogsInv
<1>2. /\ \A o : (Wants(o)' <=> Wants(o)) /\ (IsDone(o)' <=> IsDone(o))
      /\ \A o, k : Got(o, k)' <=> Got(o, k)
      /\ \A o : Values(o)' = Values(o) /\ Open(o)' = Open(o)
  BY DEF Wants, IsDone, Got, Values, Open
<1>3. KeysInv'
  BY <1>2 DEF KeysInv
<1>4. SinglesInv'
  BY <1>2 DEF SinglesInv
<1>5. QED
  BY <1>1, <1>3, <1>4

\* What is left of the operations of the followers that are left.
LEMMA OwnersKept ==
  ASSUME OwnersInv, running' \subseteq running, followers' \subseteq followers,
         UNCHANGED <<nFollows, operations, repeats>>,
         casts' \in Seq(CastPhases), link' \in {"on", "failed", "halted", "left"},
         \A o \in Tracked' : operations[o].owner \in followers' \cup {Archive},
         link' \in {"halted", "left"} =>
            /\ Tracked' = {} /\ followers' = {}
            /\ \A c \in DOMAIN casts' : casts'[c] \in {"accepted", "over"}
  PROVE  OwnersInv'
<1>1. IsFiniteSet(followers) /\ Cardinality(followers) <= 2 /\ followers' \in SUBSET followers
  BY DEF OwnersInv
<1>2. IsFiniteSet(followers') /\ Cardinality(followers') <= Cardinality(followers)
  BY <1>1, FS_Subset
<1>3. Cardinality(followers') \in Nat /\ Cardinality(followers) \in Nat
  BY <1>1, <1>2, FS_CardinalityType
<1>4. Cardinality(followers') <= 2
  BY <1>1, <1>2, <1>3
<1>5. QED
  BY <1>2, <1>4 DEF OwnersInv

\* At the end no broadcast is on its way.
LEMMA CastsEnd ==
  ASSUME OwnersInv
  PROVE  CastsOver \in Seq(CastPhases) /\ \A c \in DOMAIN CastsOver : CastsOver[c] \in {"accepted", "over"}
<1>1. Len(casts) \in Nat /\ DOMAIN casts = 1 .. Len(casts)
  BY LenProperties DEF OwnersInv
<1>2. CastsOver \in [1 .. Len(casts) -> CastPhases]
  BY <1>1 DEF CastsOver, CastPhases
<1>3. CastsOver \in Seq(CastPhases)
  BY <1>1, <1>2, FunctionIsSequence
<1>4. QED
  BY <1>3 DEF CastsOver

\* A broadcast goes on, on a connection that is not lost or is over.
LEMMA CastStep ==
  ASSUME LegacyInv, NEW c \in DOMAIN casts, NEW phase \in CastPhases, Cast(c, phase),
         link \in {"on", "failed"} \/ casts[c] \notin {"accepted", "over"}
  PROVE  LegacyInv'
<1>0. OwnersInv /\ LogsInv /\ KeysInv /\ SinglesInv
  BY DEF LegacyInv
<1>1. /\ casts' = [casts EXCEPT ![c] = phase]
      /\ UNCHANGED <<followers, nFollows, operations, running, logs, asking, repeats, link>>
  BY DEF Cast
<1>2. casts \in Seq(CastPhases) /\ c \in 1 .. Len(casts)
  BY <1>0, LenProperties DEF OwnersInv
<1>3. casts' \in Seq(CastPhases)
  BY <1>1, <1>2, ExceptSeq
<1>4. link' \notin {"halted", "left"}
  BY <1>0, <1>1 DEF OwnersInv
<1>5. Tracked' = Tracked
  BY <1>1 DEF Tracked
<1>6. OwnersInv'
  BY <1>0, <1>1, <1>3, <1>4, <1>5 DEF OwnersInv
<1>7. QED
  BY <1>0, <1>1, <1>6, OperationsUntouched DEF LegacyInv

\* Operations end, with the followers they belong to or without them.
LEMMA EndAllStep ==
  ASSUME LegacyInv, NEW ends \in SUBSET running, NEW how \in {"error", "given up"},
         EndAll(ends, how), operations' = operations
  PROVE  /\ LogsInv' /\ KeysInv' /\ SinglesInv'
         /\ running' = running \ ends
         /\ Tracked' = Tracked \ ends
<1> DEFINE last == [o \in ends |-> End(how)]
<1>1. \A o \in ends : last[o] \in {End("error"), End("given up")}
  OBVIOUS
<1>2. logs' = [o \in DOMAIN logs |-> IF o \in ends THEN Append(logs[o], last[o]) ELSE logs[o]]
  BY DEF EndAll
<1>3. asking' = {q \in asking : q.op \notin ends} /\ running' = running \ ends
  BY DEF EndAll
<1> HIDE DEF last
<1>4. LogsInv' /\ KeysInv' /\ SinglesInv'
  BY <1>1, <1>2, <1>3, EndsStep DEF LegacyInv
<1>5. Tracked' = Tracked \ ends
  BY <1>3 DEF Tracked
<1>6. QED
  BY <1>3, <1>4, <1>5

\* Every answer keeps the invariant.
LEMMA AnswerStep ==
  ASSUME LegacyInv, link \in {"on", "failed"}, NEW r \in asking, NEW heard, NEW more,
         GoodAnswer(r, heard, more), GoesOn(r, heard, more)
  PROVE  LegacyInv'
<1>0. OwnersInv /\ LogsInv /\ KeysInv /\ SinglesInv
  BY DEF LegacyInv
<1>1. LogsInv' /\ KeysInv' /\ SinglesInv'
  BY <1>0, AnswerEnds, AnswerKeys, AnswerSingles
<1>2. UNCHANGED <<followers, nFollows, operations, casts, repeats, link>>
  BY DEF GoesOn
<1>3. running' \subseteq running
  BY <1>0, AnswerHeard
<1>4. Tracked' \subseteq Tracked
  BY <1>2, <1>3 DEF Tracked
<1>5. OwnersInv'
  BY <1>0, <1>2, <1>3, <1>4, OwnersKept DEF OwnersInv
<1>6. QED
  BY <1>1, <1>5 DEF LegacyInv

\* One step per action.
LEMMA LegacyInvStep == LegacyInv /\ [LegacyNext]_legacyVars => LegacyInv'
<1> SUFFICES ASSUME LegacyInv, [LegacyNext]_legacyVars PROVE LegacyInv'
  OBVIOUS
<1>0. OwnersInv /\ LogsInv /\ KeysInv /\ SinglesInv
  BY DEF LegacyInv
<1>1. CASE UNCHANGED legacyVars
  <2>1. UNCHANGED <<followers, nFollows, operations, running, logs, asking, casts, repeats, link>>
    BY <1>1 DEF legacyVars
  <2>2. Tracked' = Tracked
    BY <2>1 DEF Tracked
  <2>3. OwnersInv'
    BY <1>0, <2>1, <2>2 DEF OwnersInv
  <2>4. QED
    BY <1>0, <2>1, <2>3, OperationsUntouched DEF LegacyInv
<1>2. ASSUME link \in {"on", "failed"}, NEW r \in asking,
             \/ ValueComes(r) \/ PageComes(r) \/ ValuesCome(r) \/ NoSuchMethod(r) \/ Halved(r)
      PROVE  LegacyInv'
  <2>1. \E heard, more : GoodAnswer(r, heard, more) /\ GoesOn(r, heard, more)
    BY <1>0, <1>2, SingleIsGood, PageIsGood, ValuesAreGood, ValueInsteadIsGood, HalvesAreGood
  <2>2. QED
    BY <1>2, <2>1, AnswerStep
<1>3. ASSUME NEW r \in asking, Fails(r) PROVE LegacyInv'
  <2>1. /\ EndAll({r.op}, "error")
        /\ UNCHANGED <<followers, nFollows, operations, casts, repeats, link>>
    BY <1>3 DEF Fails
  <2>2. {r.op} \in SUBSET running
    BY <1>0 DEF LogsInv
  <2>3. LogsInv' /\ KeysInv' /\ SinglesInv' /\ running' = running \ {r.op} /\ Tracked' = Tracked \ {r.op}
    BY <2>1, <2>2, EndAllStep
  <2>4. OwnersInv'
    BY <1>0, <2>1, <2>3, OwnersKept DEF OwnersInv
  <2>5. QED
    BY <2>3, <2>4 DEF LegacyInv
<1>4. CASE NewFollower
  <2>1. /\ link = "on" /\ nFollows < MaxFollows /\ Cardinality(followers) # 2
        /\ nFollows' = nFollows + 1 /\ followers' = followers \cup {nFollows'}
        /\ UNCHANGED <<operations, running, logs, asking, casts, repeats, link>>
    BY <1>4 DEF NewFollower
  <2>2. /\ IsFiniteSet(followers) /\ Cardinality(followers) <= 2
        /\ nFollows \in 0 .. MaxFollows /\ followers \subseteq 1 .. nFollows
    BY <1>0 DEF OwnersInv
  <2>3. IsFiniteSet(followers') /\ Cardinality(followers') <= 2
    <3>1. Cardinality(followers) \in Nat
      BY <2>2, FS_CardinalityType
    <3>2. /\ IsFiniteSet(followers')
          /\ Cardinality(followers') = IF nFollows' \in followers THEN Cardinality(followers)
                                       ELSE Cardinality(followers) + 1
      BY <2>1, <2>2, FS_AddElement
    <3>3. QED
      BY <2>1, <2>2, <3>1, <3>2
  <2>4. nFollows' \in 0 .. MaxFollows /\ followers' \subseteq 1 .. nFollows'
    BY <2>1, <2>2, AskedAssumption
  <2>5. Tracked' = Tracked
    BY <2>1 DEF Tracked
  <2>6. OwnersInv'
    BY <1>0, <2>1, <2>3, <2>4, <2>5 DEF OwnersInv
  <2>7. QED
    BY <1>0, <2>1, <2>6, OperationsUntouched DEF LegacyInv
<1>5. ASSUME NEW f \in followers, EndFollower(f) PROVE LegacyInv'
  <2>1. /\ link \in {"on", "failed"} /\ followers' = followers \ {f}
        /\ EndAll(OperationsOf(f), "given up")
        /\ UNCHANGED <<nFollows, operations, casts, repeats, link>>
    BY <1>5 DEF EndFollower
  <2>2. OperationsOf(f) \in SUBSET running
    BY DEF OperationsOf
  <2>3. /\ LogsInv' /\ KeysInv' /\ SinglesInv'
        /\ running' = running \ OperationsOf(f) /\ Tracked' = Tracked \ OperationsOf(f)
    BY <2>1, <2>2, EndAllStep
  <2>4. \A o \in Tracked' : operations[o].owner \in followers' \cup {Archive}
    BY <1>0, <2>1, <2>3 DEF OwnersInv, OperationsOf, Tracked
  <2>5. OwnersInv'
    BY <1>0, <2>1, <2>3, <2>4, OwnersKept DEF OwnersInv
  <2>6. QED
    BY <2>3, <2>5 DEF LegacyInv
<1>6. ASSUME NEW owner \in followers \cup {Archive}, NEW items, Operation(owner, items) PROVE LegacyInv'
  BY <1>6, OperationStep
<1>7. CASE Operation(Nobody, <<"call">>)
  BY <1>7, OperationStep
<1>8. ASSUME NEW o \in Tracked, StopOperation(o) PROVE LegacyInv'
  <2>1. /\ EndAll({o}, "given up")
        /\ UNCHANGED <<followers, nFollows, operations, casts, repeats, link>>
    BY <1>8 DEF StopOperation
  <2>2. {o} \in SUBSET running
    BY DEF Tracked
  <2>3. LogsInv' /\ KeysInv' /\ SinglesInv' /\ running' = running \ {o} /\ Tracked' = Tracked \ {o}
    BY <2>1, <2>2, EndAllStep
  <2>4. OwnersInv'
    BY <1>0, <2>1, <2>3, OwnersKept DEF OwnersInv
  <2>5. QED
    BY <2>3, <2>4 DEF LegacyInv
<1>9. CASE Submit
  <2>1. /\ link = "on" /\ casts' = Append(casts, "sent")
        /\ UNCHANGED <<followers, nFollows, operations, running, logs, asking, repeats, link>>
    BY <1>9 DEF Submit
  <2>2. casts' \in Seq(CastPhases)
    <3>1. casts \in Seq(CastPhases) /\ "sent" \in CastPhases
      BY <1>0 DEF OwnersInv, CastPhases
    <3>2. QED
      BY <2>1, <3>1, AppendProperties
  <2>3. Tracked' = Tracked /\ link' \notin {"halted", "left"}
    BY <2>1 DEF Tracked
  <2>4. OwnersInv'
    BY <1>0, <2>1, <2>2, <2>3 DEF OwnersInv
  <2>5. QED
    BY <1>0, <2>1, <2>4, OperationsUntouched DEF LegacyInv
<1>10. ASSUME NEW c \in DOMAIN casts,
              SubmitAnswered(c) \/ SubmitFails(c) \/ SubmitAgain(c) \/ StopSubmit(c)
       PROVE  LegacyInv'
  <2>1. \E phase \in CastPhases :
           Cast(c, phase) /\ (link \in {"on", "failed"} \/ casts[c] \notin {"accepted", "over"})
    BY <1>10 DEF SubmitAnswered, SubmitFails, SubmitAgain, StopSubmit, CastPhases
  <2>2. QED
    BY <2>1, CastStep
<1>11. CASE BlocksFail
  <2> DEFINE ends == {o \in running : operations[o].owner \in followers}
  <2>1. /\ link' = "failed" /\ followers' = {} /\ EndAll(ends, "given up")
        /\ casts' = CastsOver
        /\ UNCHANGED <<nFollows, operations, repeats>>
    BY <1>11 DEF BlocksFail
  <2>2. /\ LogsInv' /\ KeysInv' /\ SinglesInv'
        /\ running' = running \ ends /\ Tracked' = Tracked \ ends
    BY <2>1, EndAllStep
  <2>3. \A o \in Tracked' : operations[o].owner \in followers' \cup {Archive}
    BY <1>0, <2>1, <2>2 DEF OwnersInv, Tracked
  <2>4. casts' \in Seq(CastPhases)
    BY <1>0, <2>1, CastsEnd
  <2>5. OwnersInv'
    BY <1>0, <2>1, <2>2, <2>3, <2>4, OwnersKept
  <2>6. QED
    BY <2>2, <2>5 DEF LegacyInv
<1>12. CASE LinkHalts
  <2>1. /\ link' = "halted" /\ followers' = {} /\ EndAll(Tracked, "given up")
        /\ casts' = CastsOver
        /\ UNCHANGED <<nFollows, operations, repeats>>
    BY <1>12 DEF LinkHalts, CleanedUp
  <2>2. Tracked \in SUBSET running
    BY DEF Tracked
  <2>3. /\ LogsInv' /\ KeysInv' /\ SinglesInv'
        /\ running' = running \ Tracked /\ Tracked' = Tracked \ Tracked
    BY <2>1, <2>2, EndAllStep
  <2>4. Tracked' = {} /\ running' \subseteq running
    BY <2>3
  <2>5. casts' \in Seq(CastPhases) /\ \A c \in DOMAIN casts' : casts'[c] \in {"accepted", "over"}
    BY <1>0, <2>1, CastsEnd
  <2>6. OwnersInv'
    BY <1>0, <2>1, <2>4, <2>5, OwnersKept
  <2>7. QED
    BY <2>3, <2>6 DEF LegacyInv
<1>13. CASE LeaveNode
  <2> DEFINE last == [o \in running |-> IF o \in Tracked THEN End("given up") ELSE End("error")]
  <2>1. /\ link' = "left" /\ followers' = {} /\ casts' = CastsOver /\ asking' = {} /\ running' = {}
        /\ UNCHANGED <<nFollows, operations, repeats>>
        /\ logs' = [o \in DOMAIN logs |->
                       CASE o \in Tracked -> Append(logs[o], End("given up"))
                         [] o \in running \ Tracked -> Append(logs[o], End("error"))
                         [] OTHER -> logs[o]]
    BY <1>13 DEF LeaveNode, CleanedUp
  <2>2. Tracked \subseteq running
    BY DEF Tracked
  <2>3. logs' = [o \in DOMAIN logs |-> IF o \in running THEN Append(logs[o], last[o]) ELSE logs[o]]
    BY <2>1, <2>2
  <2>4. asking' = {q \in asking : q.op \notin running} /\ running' = running \ running
    BY <1>0, <2>1 DEF LogsInv
  <2>5. \A o \in running : last[o] \in {End("error"), End("given up")}
    OBVIOUS
  <2> HIDE DEF last
  <2>6. LogsInv' /\ KeysInv' /\ SinglesInv'
    BY <1>0, <2>1, <2>3, <2>4, <2>5, EndsStep
  <2>7. Tracked' = {} /\ running' \subseteq running
    BY <2>1 DEF Tracked
  <2>8. casts' \in Seq(CastPhases) /\ \A c \in DOMAIN casts' : casts'[c] \in {"accepted", "over"}
    BY <1>0, <2>1, CastsEnd
  <2>9. OwnersInv'
    BY <1>0, <2>1, <2>7, <2>8, OwnersKept
  <2>10. QED
    BY <2>6, <2>9 DEF LegacyInv
<1>14. QED
  BY <1>1, <1>2, <1>3, <1>4, <1>5, <1>6, <1>7, <1>8, <1>9, <1>10, <1>11, <1>12, <1>13
     DEF LegacyNext

\* The invariant says what the client is promised.
LEMMA LegacyInvImplies == LegacyInv => OperationsAreRight
<1> SUFFICES ASSUME LegacyInv PROVE OperationsAreRight
  OBVIOUS
<1>0. OwnersInv /\ LogsInv /\ KeysInv /\ SinglesInv
  BY DEF LegacyInv
<1>1. /\ DOMAIN operations = 1 .. Len(operations) /\ running \subseteq DOMAIN operations
      /\ \A o \in DOMAIN operations : logs[o] \in Seq(Messages)
  <2>1. /\ DOMAIN operations = 1 .. Len(operations) /\ running \subseteq DOMAIN operations
        /\ logs \in Seq(Seq(Messages)) /\ Len(logs) = Len(operations)
    BY <1>0, LenProperties DEF OwnersInv, LogsInv
  <2>2. \A o \in 1 .. Len(logs) : logs[o] \in Seq(Messages)
    BY <2>1, ElementOfSeq
  <2>3. QED
    BY <2>1, <2>2
<1>2. EndsOnce
  <2>1. SUFFICES ASSUME NEW o \in DOMAIN operations
                 PROVE  /\ \A i \in DOMAIN logs[o] : logs[o][i] \in Ends => i = Len(logs[o])
                        /\ (o \in running) <=> ~\E i \in DOMAIN logs[o] : logs[o][i] \in Ends
    BY DEF EndsOnce
  <2>2. CASE o \in running
    BY <1>0, <2>2 DEF LogsInv, GoesOnIn
  <2>3. CASE o \notin running
    <3>1. EndsIn(logs[o])
      BY <1>0, <2>3 DEF LogsInv
    <3>2. Len(logs[o]) \in DOMAIN logs[o]
      BY <1>1, <3>1, LenProperties, EmptySeq DEF EndsIn
    <3>3. QED
      BY <2>3, <3>1, <3>2 DEF EndsIn
  <2>4. QED
    BY <2>2, <2>3
<1>3. RunningAsks
  BY <1>0 DEF RunningAsks, LogsInv
<1>4. KeysComeOnce
  <2>1. SUFFICES ASSUME NEW o \in DOMAIN operations
                 PROVE  /\ \A k \in 1 .. NKeys : Heard(o, Key(k)) <= 1
                        /\ Heard(o, End("done")) = 1 =>
                             /\ Heard(o, Key(0)) = Cardinality(Values(o))
                             /\ Contains(operations[o].items, "descendants") =>
                                  \A k \in 1 .. NKeys : Heard(o, Key(k)) = 1
    BY DEF KeysComeOnce
  <2>2. \A m : Heard(o, m) = Count(logs[o], m)
    BY DEF Heard, Count
  <2>3. \A k \in 1 .. NKeys : Heard(o, Key(k)) = IF Got(o, k) THEN 1 ELSE 0
    BY <1>0, <2>2, CountOnce DEF KeysInv, Got
  <2>4. Heard(o, End("done")) = 1 => IsDone(o)
    BY <2>2, CountNone DEF IsDone
  <2>5. IsDone(o) => /\ Heard(o, Key(0)) = Cardinality(Values(o))
                     /\ Wants(o) => \A k \in 1 .. NKeys : Got(o, k)
    BY <1>0, <2>2 DEF KeysInv, SinglesInv
  <2>6. QED
    BY <2>3, <2>4, <2>5 DEF Wants
<1>5. NothingOutlives
  BY <1>0 DEF OwnersInv, NothingOutlives
<1>6. QED
  BY <1>2, <1>3, <1>4, <1>5 DEF OperationsAreRight

\* withLegacy: whatever the node answers, refuses or repeats, and whenever followers stop,
\* blocks fail or the connection ends, each operation comes to one end with every key and
\* value it asked for once, and nothing of it is left afterwards.
THEOREM OperationsStayRight == LegacySpec => []OperationsAreRight
<1>1. LegacyInit => LegacyInv
  BY LegacyInvStart
<1>2. LegacyInv /\ [LegacyNext]_legacyVars => LegacyInv'
  BY LegacyInvStep
<1>3. LegacyInv => OperationsAreRight
  BY LegacyInvImplies
<1>4. QED
  BY <1>1, <1>2, <1>3, PTL DEF LegacySpec
===============================================================================
