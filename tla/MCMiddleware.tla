---------------------------- MODULE MCMiddleware ------------------------------
(***************************************************************************)
(* The websocket middleware. A node of the new API has one kind of fault   *)
(* at a time, in the order of its blocks or in that of its follows; a node *)
(* of the old API has heads only.                                          *)
(***************************************************************************)
EXTENDS BlockOrder, FollowFixes, LegacyBlocks

\* A chain 1, 2, 4 and a fork 3.
MCParents == <<0, 1, 0, 2>>

\* Block 1 is finalized; 2, 3, 4 and 5 are two branches above it.
MCHeadParents == <<0, 1, 2, 3, 1>>

VARIABLE fault \* what a behaviour is about

MiddlewareInit ==
    /\ fault \in {"blocks", "follows", "heads"}
    /\ BlockInit /\ FollowInit /\ LegacyInit
    /\ fault # "heads" => old = {Genesis, First}

MiddlewareNext ==
    /\ UNCHANGED fault
    /\ \/ fault = "blocks" /\ BlockNext /\ UNCHANGED <<followVars, legacyVars>>
       \/ fault = "follows" /\ FollowNext /\ UNCHANGED <<blockVars, legacyVars>>
       \/ fault = "heads" /\ LegacyNext /\ UNCHANGED <<blockVars, followVars>>

MiddlewareSpec ==
    /\ MiddlewareInit
    /\ [][MiddlewareNext]_<<fault, blockVars, followVars, legacyVars>>
    /\ BlockFairness /\ LegacyFairness

\* A subscription gets a best block even if the node reports none, and every head and
\* finalized block of an old node comes through.
ChainComesThrough == []<>(~NoBestYet /\ ChainIsThrough)
===============================================================================
