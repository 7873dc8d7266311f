---------------------------- MODULE MCPinnedBlocks ----------------------------
(***************************************************************************)
(* A chain for PinnedBlocks: root <- m1 <- m2 <- m3, with a fork m1 <- s2. *)
(***************************************************************************)
EXTENDS PinnedBlocks, TLC

CONSTANTS root, m1, m2, m3, s2, old, new

MCBlock == {root, m1, m2, m3, s2}

MCParent == root :> root @@ m1 :> root @@ m2 :> m1 @@ m3 :> m2 @@ s2 :> m1

MCHeight == root :> 0 @@ m1 :> 1 @@ m2 :> 2 @@ m3 :> 3 @@ s2 :> 2

\* No upgrade; the same upgrade in both branches.
OneCode == [x \in MCBlock |-> old]
TwinUpgrade == [x \in MCBlock |-> IF x \in {m2, m3, s2} THEN new ELSE old]
===============================================================================
