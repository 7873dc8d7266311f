---------------------------- MODULE MCBlockQueries ----------------------------
(***************************************************************************)
(* Pinned blocks, and what is asked of them: a behaviour is about the      *)
(* blocks, or about the queries of two consumers.                          *)
(***************************************************************************)
EXTENDS MCPinnedBlocks, BlockQueries

CONSTANTS c1, c2

\* Two branches of one block each.
MCAbove == <<0, 0>>

MCPresent == <<{1}, {2}>> @@ (0 :> {1, 2})

\* Two queries of one value share its operation; the best block may change during
\* the query of several.
MCWanted == (c1 :> {[kind |-> "value", at |-> 1], [kind |-> "values", at |-> AtBest]})
                @@ (c2 :> {[kind |-> "value", at |-> 1]})

NoPins  == Init
NoQuery == QueryInit

BlocksInit == NoPins /\ NoQuery

BlocksNext == \/ NoQuery /\ Next /\ UNCHANGED queryVars
              \/ NoPins /\ QueryNext /\ UNCHANGED vars

BlocksSpec == BlocksInit /\ [][BlocksNext]_<<vars, queryVars>> /\ QueryFairness
===============================================================================
