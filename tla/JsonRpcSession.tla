---------------------------- MODULE JsonRpcSession ----------------------------
(***************************************************************************)
(* What a JSON-RPC consumer is promised by a provider, whatever happens to *)
(* the connections underneath: every request is answered exactly once, a   *)
(* follow subscription is opened at most once and never comes back after   *)
(* it ended, and nothing is delivered once the consumer disconnected.      *)
(* This is the abstract specification that JsonRpcProxy implements.        *)
(***************************************************************************)
EXTENDS Naturals

CONSTANTS Ids,      \* the ids of the consumer's requests
          Tokens    \* the tokens of follow subscriptions

VARIABLES open,     \* the consumer did not disconnect
          asked,    \* ids the consumer used
          replies,  \* how many replies each id received
          opened,   \* subscriptions the consumer was ever given
          live      \* subscriptions the consumer holds

sessionVars == <<open, asked, replies, opened, live>>

Init ==
    /\ open = TRUE
    /\ asked = {}
    /\ replies = [i \in Ids |-> 0]
    /\ opened = {}
    /\ live = {}

\* The consumer sends a request; an unfollow also gives up a subscription.
Ask(i, given) ==
    /\ open
    /\ i \notin asked
    /\ given \subseteq live
    /\ asked' = asked \cup {i}
    /\ live' = live \ given
    /\ UNCHANGED <<open, replies, opened>>

\* A request is answered once; the answer may hand over new subscriptions.
Answer(i, new) ==
    /\ open
    /\ i \in asked
    /\ replies[i] = 0
    /\ new \cap opened = {}
    /\ replies' = [replies EXCEPT ![i] = 1]
    /\ opened' = opened \cup new
    /\ live' = live \cup new
    /\ UNCHANGED <<open, asked>>

\* A transaction broadcast is answered on the spot.
AskAndAnswer(i) ==
    /\ open
    /\ i \notin asked
    /\ asked' = asked \cup {i}
    /\ replies' = [replies EXCEPT ![i] = 1]
    /\ UNCHANGED <<open, opened, live>>

Stop(s) ==
    /\ open
    /\ s \in live
    /\ live' = live \ {s}
    /\ UNCHANGED <<open, asked, replies, opened>>

Close ==
    /\ open
    /\ open' = FALSE
    /\ live' = {}
    /\ UNCHANGED <<asked, replies, opened>>

AnswerAny(i) == \E new \in {{}} \cup {{s} : s \in Tokens} : Answer(i, new)

Next ==
    \/ \E i \in Ids, given \in {{}} \cup {{s} : s \in Tokens} : Ask(i, given)
    \/ \E i \in Ids : AnswerAny(i) \/ AskAndAnswer(i)
    \/ \E s \in Tokens : Stop(s)
    \/ Close

Safety == Init /\ [][Next]_sessionVars

\* Every request is eventually answered while the session is open.
Spec == Safety /\ \A i \in Ids : WF_sessionVars(AnswerAny(i))
===============================================================================
