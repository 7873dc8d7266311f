-------------------------- MODULE MCChainHeadFollow ---------------------------
(***************************************************************************)
(* The subscription of a client, and the queue of the operations of one.   *)
(* A behaviour is about the subscription; once that was given up before    *)
(* anything else happened, it is about the queue.                          *)
(***************************************************************************)
EXTENDS ChainHeadFollow, OperationQueue

GivenUp ==
    /\ isDone /\ disturbances = 0 /\ phase = "expecting"
    /\ timers = <<>> /\ toServer = <<>> /\ toClient = <<>>
    /\ \A o \in Op : stage[o] = "idle"

SubscriptionInit == Init /\ QueueInit

SubscriptionNext ==
    \/ QueueInit /\ Next /\ UNCHANGED queueVars
    \/ GivenUp /\ QueueNext /\ UNCHANGED vars

SubscriptionSpec ==
    /\ SubscriptionInit
    /\ [][SubscriptionNext]_<<vars, queueVars>>
    /\ Fairness /\ QueueFairness
===============================================================================
