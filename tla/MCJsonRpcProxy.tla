---------------------------- MODULE MCJsonRpcProxy ----------------------------
(***************************************************************************)
(* What becomes of the requests of a client, where connections come and go *)
(* and where the node only knows the old API: a behaviour is about one of  *)
(* them, and the other one has not begun.                                  *)
(***************************************************************************)
EXTENDS JsonRpcProxy, LegacyRequests, TLC

Symmetry == Permutations(Follows) \cup Permutations(Operations)
                \cup Permutations(Broadcasts)

\* Three keys, two to a page: the first operation may ask for all of them.
MCAsked == << {<<>>, <<"call">>, <<"descendants">>}, {<<"hash", "absent">>} >>

NoProxy  == Init
NoLegacy == LegacyInit /\ ~repeats

RequestsInit == NoProxy /\ LegacyInit

RequestsNext == \/ NoLegacy /\ Next /\ UNCHANGED legacyVars
                \/ NoProxy /\ LegacyNext /\ UNCHANGED vars

RequestsSpec == RequestsInit /\ [][RequestsNext]_<<vars, legacyVars>>
===============================================================================
