----------------------------- MODULE LegacyBlocks -----------------------------
(***************************************************************************)
(* The chainHead group that ws-middleware offers on top of a node that     *)
(* only has the legacy functions: the tree of blocks it puts together from *)
(* the heads and the finalized heads of the node, two subscriptions that   *)
(* know nothing of each other, and the follow subscriptions it serves from *)
(* that tree, with their pins.                                             *)
(***************************************************************************)
EXTENDS Naturals, Sequences, FiniteSets, FiniteSetsExt

CONSTANTS HeadParent,   \* the parent of each block; block 0 is the genesis
          First,      \* the first finalized block that the node sends
          Tokens,     \* follow subscriptions
          MaxInitial, \* finalized blocks of an initialized event (10)
          MaxAsks,    \* requests for the same header at the same time
          MaxWaiting  \* finalized heads that wait for their block

Genesis == 0
Heads  == DOMAIN HeadParent
All     == Heads \cup {Genesis}

\* A block and its ancestors.
Line[b \in All] == {b} \cup IF b = Genesis THEN {} ELSE Line[HeadParent[b]]
Height(b)       == Cardinality(Line[b]) - 1
Parent(b)       == IF b = Genesis THEN Genesis ELSE HeadParent[b]
Above(b, S)     == {c \in S : b \in Line[c]}

ASSUME LegacyAssumption ==
    /\ HeadParent \in Seq(Nat)
    /\ \A b \in Heads : HeadParent[b] < b
    /\ First \in Heads
    /\ {MaxInitial, MaxAsks, MaxWaiting} \subseteq Nat \ {0}

VARIABLES
    \* the node
    old,        \* blocks it had when the subscriptions started
    headsHeard,      \* blocks whose head it sent
    sentFin,    \* the latest finalized head it sent, or none: 0
    \* connectedBlocks
    blocks,     \* the blocks of the tree
    usages,     \* the subscriptions that pin each of them
    headFinal, headBest,
    \* pendingBlocks
    pending,    \* no, asked (header: null) or known
    kids,       \* the children of each pending block
    asks,       \* requests for each header
    headsWaiting,    \* finalized heads that _finalized$ has not let through
    flushing,   \* the first of them has its block: debounceTime(0)
    dead,       \* _newBlocks$ has ended with an error
    \* chain-head.ts
    viewPhase,      \* of each subscription: off, early, on, over
    told,       \* blocks it was told of
    goneFor,    \* blocks it was told to be pruned
    released,   \* blocks it unpinned
    \* what happened
    late,       \* blocks that joined the tree on a branch that was pruned
    trimmed,    \* heads that were given up
    early       \* heads that came before the first finalized one

oldNodeVars    == <<old, headsHeard, sentFin>>
treeVars    == <<blocks, usages, headFinal, headBest>>
pendingVars == <<pending, kids, asks>>
finVars     == <<headsWaiting, flushing>>
viewVars  == <<viewPhase, told, goneFor, released>>
histVars    == <<late, trimmed, early>>
legacyVars == <<oldNodeVars, treeVars, pendingVars, finVars, dead, viewVars, histVars>>

LegacyTypeOK ==
    /\ old \subseteq All /\ headsHeard \subseteq All /\ blocks \subseteq All
    /\ late \subseteq All /\ trimmed \subseteq All /\ early \subseteq All
    /\ sentFin \in All /\ headFinal \in All /\ headBest \in All
    /\ usages \in [All -> SUBSET Tokens]
    /\ pending \in [All -> {"no", "asked", "known"}]
    /\ kids \in [All -> SUBSET All]
    /\ asks \in [All -> 0 .. MaxAsks]
    /\ headsWaiting \in Seq(All) /\ Len(headsWaiting) <= MaxWaiting
    /\ flushing \in BOOLEAN /\ dead \in BOOLEAN
    /\ viewPhase \in [Tokens -> {"off", "early", "on", "over"}]
    /\ told \in [Tokens -> SUBSET All]
    /\ goneFor \in [Tokens -> SUBSET All]
    /\ released \in [Tokens -> SUBSET All]

LegacyInit ==
    /\ old \in {S \in SUBSET All : First \in S /\ \A b \in S : Line[b] \subseteq S}
    /\ headsHeard = {} /\ sentFin = Genesis
    /\ blocks = {} /\ headFinal = Genesis /\ headBest = Genesis
    /\ usages = [b \in All |-> {}]
    /\ pending = [b \in All |-> "no"]
    /\ kids = [b \in All |-> {}]
    /\ asks = [b \in All |-> 0]
    /\ headsWaiting = <<>> /\ flushing = FALSE /\ dead = FALSE
    /\ viewPhase = [t \in Tokens |-> "off"]
    /\ told = [t \in Tokens |-> {}]
    /\ goneFor = told /\ released = told
    /\ late = {} /\ trimmed = {} /\ early = {}

Ready == blocks # {}
On    == {t \in Tokens : viewPhase[t] = "on"}

\* What _finalized$ lets through is handled before anything else comes in.
Settled == headsWaiting # <<>> => flushing \/ Head(headsWaiting) \notin blocks

Highest(S) == {b \in S : \A c \in S : Height(c) <= Height(b)}

-------------------------------------------------------------------------------
(***************************************************************************)
(* New blocks.                                                             *)
(***************************************************************************)

\* addBlock, _newBlocks$ and the newBlock events of updates$, parents first,
\* with the best block that follows from the heights.
Connect(S) ==
    /\ blocks' = blocks \cup S
    /\ usages' = [b \in All |-> IF b \in S THEN On ELSE usages[b]]
    /\ headBest' \in IF \E b \in S : Height(b) > Height(headBest) THEN Highest(S) ELSE {headBest}
    /\ told' = [t \in Tokens |-> IF t \in On THEN told[t] \cup S ELSE told[t]]
    /\ flushing' = (flushing \/ (headsWaiting # <<>> /\ Head(headsWaiting) \in S))
    /\ late' = late \cup {b \in S : headFinal \notin Line[b]}

Nothing ==
    UNCHANGED <<blocks, usages, headBest, told, flushing, late>>

\* The pending blocks that hang from b.
Hanging(b) ==
    {c \in Above(b, All) : \A d \in Line[c] \ Line[b] : d \in kids[Parent(d)]}

Forget(S) ==
    /\ pending' = [b \in All |-> IF b \in S THEN "no" ELSE pending[b]]
    /\ kids' = [b \in All |-> IF b \in S THEN {} ELSE kids[b]]

\* trimPending
Trim(b) ==
    /\ Forget(Hanging(b))
    /\ trimmed' = trimmed \cup (Hanging(b) \cap headsHeard)

\* A head of the node, each after its parent. It waits if its parent is not in
\* the tree, and the first that waits for it asks for the header of the parent.
HeadComes(b) ==
    /\ Settled /\ ~dead
    /\ b \in Heads \ (old \cup headsHeard)
    /\ HeadParent[b] \in old \cup headsHeard
    /\ headsHeard' = headsHeard \cup {b}
    /\ IF HeadParent[b] \in blocks
         THEN Connect({b}) /\ UNCHANGED pendingVars
         ELSE LET p == HeadParent[b]
              IN  /\ Nothing
                  /\ asks[p] < MaxAsks
                  /\ pending' = [pending EXCEPT ![b] = "known",
                                   ![p] = IF @ = "no" THEN "asked" ELSE @]
                  /\ kids' = [kids EXCEPT ![p] = @ \cup {b}, ![b] = {}]
                  /\ asks' = IF pending[p] = "no" THEN [asks EXCEPT ![p] = @ + 1]
                                                  ELSE asks
    /\ early' = IF Ready THEN early ELSE early \cup {b}
    /\ UNCHANGED <<old, sentFin, headFinal, headsWaiting, dead, viewPhase, goneFor,
                   released, trimmed>>

(***************************************************************************)
(* The header of r comes. getRecursiveHeader ends, or asks for the parent. *)
(***************************************************************************)

\* The highest pending block that r is known to hang from.
PendingTop(r) ==
    LET top[b \in All] ==
          IF /\ b = r \/ pending[b] = "known"
             /\ b # Genesis
             /\ pending[Parent(b)] # "no"
            THEN top[Parent(b)] ELSE b
    IN  top[r]

\* It was trimmed before.
NotPending(r) ==
    /\ pending[r] = "no"
    /\ Nothing
    /\ UNCHANGED <<pending, kids, trimmed>>

TooLow(r) ==
    /\ pending[r] # "no"
    /\ Height(r) <= Height(headFinal)
    /\ Trim(PendingTop(r))
    /\ Nothing

\* Its parent is in the tree, on a branch that was not pruned, or was it.
JoinsTree(r) ==
    /\ pending[r] # "no"
    /\ Height(r) > Height(headFinal)
    /\ Parent(r) \in blocks
    /\ IF headFinal \in Line[r]
         THEN Forget(Hanging(r)) /\ Connect(Hanging(r)) /\ UNCHANGED trimmed
         ELSE Trim(r) /\ Nothing

HeaderEnds(r) ==
    /\ Settled /\ ~dead /\ Ready
    /\ asks[r] > 0
    /\ asks' = [asks EXCEPT ![r] = @ - 1]
    /\ NotPending(r) \/ TooLow(r) \/ JoinsTree(r)
    /\ UNCHANGED <<oldNodeVars, headFinal, headsWaiting, dead, viewPhase, goneFor, released,
                   early>>

\* Mutant: the recursion ends at the first header.
HeaderGoesOnUnasked(r) ==
    /\ Settled /\ ~dead /\ Ready
    /\ asks[r] > 0
    /\ pending[r] # "no"
    /\ Height(r) > Height(headFinal)
    /\ Parent(r) \notin blocks
    /\ LET p == Parent(r)
       IN  /\ pending' = [pending EXCEPT ![r] = "known",
                            ![p] = IF @ = "no" THEN "asked" ELSE @]
           /\ kids' = [kids EXCEPT ![p] = @ \cup {r}]
           /\ asks' = [asks EXCEPT ![r] = @ - 1]
    /\ Nothing
    /\ UNCHANGED <<oldNodeVars, headFinal, headsWaiting, dead, viewPhase, goneFor, released,
                   trimmed, early>>

\* The parent is pending too: if nobody asked for it yet, it is asked for.
HeaderGoesOn(r) ==
    /\ Settled /\ ~dead /\ Ready
    /\ asks[r] > 0
    /\ pending[r] # "no"
    /\ Height(r) > Height(headFinal)
    /\ Parent(r) \notin blocks
    /\ LET p == Parent(r)
       IN  /\ asks[p] < MaxAsks
           /\ pending' = [pending EXCEPT ![r] = "known",
                            ![p] = IF @ = "no" THEN "asked" ELSE @]
           /\ kids' = [kids EXCEPT ![p] = @ \cup {r}]
           /\ asks' = [asks EXCEPT ![r] = @ - 1,
                         ![p] = IF pending[p] = "no" THEN @ + 1 ELSE @]
    /\ Nothing
    /\ UNCHANGED <<oldNodeVars, headFinal, headsWaiting, dead, viewPhase, goneFor, released,
                   trimmed, early>>

\* The node refuses, or does not know the block any more: every subscription is
\* stopped, and so is each one that starts after that.
HeaderFails(r) ==
    /\ Settled /\ ~dead /\ Ready
    /\ asks[r] > 0
    /\ asks' = [asks EXCEPT ![r] = @ - 1]
    /\ dead' = TRUE
    /\ viewPhase' = [t \in Tokens |-> IF t \in On THEN "over" ELSE viewPhase[t]]
    /\ UNCHANGED <<oldNodeVars, treeVars, pending, kids, finVars, told, goneFor,
                   released, histVars>>

-------------------------------------------------------------------------------
(***************************************************************************)
(* Finality.                                                               *)
(***************************************************************************)

\* The initialized event and those after it: t pins the latest finalized blocks,
\* and every subscription pins the rest of the tree (again).
HeadInitialized(chain, descendants, ts) ==
    /\ told' = [t \in Tokens |-> IF t \in ts THEN chain \cup descendants ELSE told[t]]
    /\ usages' = [b \in All |->
                    CASE b \in chain       -> usages[b] \cup ts
                      [] b \in descendants -> usages[b] \cup On \cup ts
                      [] OTHER             -> usages[b]]

\* The first finalized head, after the heads that were held back for its hasher.
FirstFinalized ==
    /\ ~Ready /\ ~dead
    /\ sentFin' = First
    /\ blocks' = {First} /\ headFinal' = First /\ headBest' = First
    /\ LET soon == {t \in Tokens : viewPhase[t] = "early"}
       IN  /\ viewPhase' = [t \in Tokens |-> IF t \in soon THEN "on" ELSE viewPhase[t]]
           /\ HeadInitialized({First}, {}, soon)
    /\ UNCHANGED <<old, headsHeard, pendingVars, finVars, dead, goneFor, released,
                   histVars>>

\* A finalized head waits in concatMap for its turn and for its block.
FinalizedComes ==
    /\ Settled /\ ~dead /\ Ready
    /\ Len(headsWaiting) < MaxWaiting
    /\ sentFin' \in Above(sentFin, Heads) \ {sentFin}
    /\ headsWaiting' = Append(headsWaiting, sentFin')
    /\ UNCHANGED <<old, headsHeard, treeVars, pendingVars, flushing, dead, viewVars,
                   histVars>>

\* Mutant: pruned branches are searched for below the new finalized block only,
\* and the best block stays.
FinalizesShort ==
    /\ ~dead
    /\ headsWaiting # <<>> /\ Head(headsWaiting) \in blocks
    /\ headsWaiting' = Tail(headsWaiting) /\ flushing' = FALSE
    /\ LET f    == Head(headsWaiting)
           gone == {b \in Above(Parent(f), blocks) : b \notin Line[f] /\ f \notin Line[b]}
       IN  /\ headFinal' = f
           /\ headBest' = IF Height(f) > Height(headBest) THEN f ELSE headBest
           /\ goneFor' = [t \in Tokens |-> IF t \in On THEN goneFor[t] \cup gone
                                                       ELSE goneFor[t]]
    /\ UNCHANGED <<oldNodeVars, blocks, usages, pendingVars, dead, viewPhase, told,
                   released, histVars>>

\* updates$ of a finalized block: at once if it was in the tree, or when the
\* timer of debounceTime(0) fires. What hangs from the previous one and not from
\* this one is pruned.
Finalizes ==
    /\ ~dead
    /\ headsWaiting # <<>> /\ Head(headsWaiting) \in blocks
    /\ headsWaiting' = Tail(headsWaiting) /\ flushing' = FALSE
    /\ LET f    == Head(headsWaiting)
           gone == {b \in Above(headFinal, blocks) : b \notin Line[f] /\ f \notin Line[b]}
       IN  /\ headFinal' = f
           /\ headBest' \in Highest(Above(f, blocks))
           /\ goneFor' = [t \in Tokens |-> IF t \in On THEN goneFor[t] \cup gone
                                                       ELSE goneFor[t]]
    /\ UNCHANGED <<oldNodeVars, blocks, usages, pendingVars, dead, viewPhase, told,
                   released, histVars>>

-------------------------------------------------------------------------------
(***************************************************************************)
(* The consumers of chainHead.                                             *)
(***************************************************************************)

\* The finalized blocks that are still there, at most MaxInitial of them.
InitialChain ==
    {b \in Line[headFinal] : /\ Height(headFinal) - Height(b) < MaxInitial
                             /\ Line[headFinal] \ Line[b] \subseteq blocks
                             /\ b \in blocks}

FollowHead(t) ==
    /\ Settled
    /\ viewPhase[t] = "off"
    /\ viewPhase' = [viewPhase EXCEPT ![t] = IF ~Ready THEN "early"
                                              ELSE IF dead THEN "over" ELSE "on"]
    /\ IF Ready
         THEN HeadInitialized(InitialChain, Above(headFinal, blocks) \ {headFinal}, {t})
         ELSE UNCHANGED <<usages, told>>
    /\ UNCHANGED <<oldNodeVars, blocks, headFinal, headBest, pendingVars, finVars, dead,
                   goneFor, released, histVars>>

\* Its pins stay.
UnfollowHead(t) ==
    /\ Settled
    /\ viewPhase[t] \in {"early", "on"}
    /\ viewPhase' = [viewPhase EXCEPT ![t] = "over"]
    /\ UNCHANGED <<oldNodeVars, treeVars, pendingVars, finVars, dead, told, goneFor,
                   released, histVars>>

\* tryRemove: the unused blocks below x, with x itself, if there is nothing used
\* down to the end of the tree; else the branches above x that are not used.
Removed(x, used) ==
    LET reach(b) == (Line[b] \ Line[x]) \cap used = {}
        unused   == {b \in Above(x, blocks) :
                       reach(b) /\ Above(b, blocks) \cap used = {}}
        below    == {b \in Line[x] \cap blocks : Line[x] \ Line[b] \subseteq blocks}
    IN  IF x \in used THEN {}
        ELSE IF below \cap used = {} THEN unused \cup below ELSE unused

\* Mutant: a block goes when one subscription unpins it.
UnpinRemoves(t, b) ==
    /\ Settled
    /\ viewPhase[t] = "on"
    /\ b \in told[t] \ released[t] /\ headFinal \notin Line[b]
    /\ released' = [released EXCEPT ![t] = @ \cup {b}]
    /\ blocks' = blocks \ {b}
    /\ usages' = [usages EXCEPT ![b] = {}]
    /\ UNCHANGED <<oldNodeVars, headFinal, headBest, pendingVars, finVars, dead, viewPhase,
                   told, goneFor, histVars>>

\* Consumers unpin what is pruned, and what is below the finalized block.
UnpinHead(t, b) ==
    /\ Settled
    /\ viewPhase[t] = "on"
    /\ b \in told[t] \ released[t] /\ headFinal \notin Line[b]
    /\ released' = [released EXCEPT ![t] = @ \cup {b}]
    /\ usages' = [usages EXCEPT ![b] = @ \ {t}]
    /\ blocks' = blocks \ Removed(b, {c \in blocks : usages[c] \ (IF c = b THEN {t} ELSE {}) # {}})
    /\ UNCHANGED <<oldNodeVars, headFinal, headBest, pendingVars, finVars, dead, viewPhase,
                   told, goneFor, histVars>>

-------------------------------------------------------------------------------
Node ==
    \/ \E b \in All : \/ HeadComes(b) \/ HeaderEnds(b) \/ HeaderGoesOn(b)
                      \/ HeaderFails(b)
    \/ FirstFinalized \/ FinalizedComes

Consumer ==
    \E t \in Tokens : FollowHead(t) \/ UnfollowHead(t) \/ \E b \in All : UnpinHead(t, b)

LegacyNext == Node \/ Finalizes \/ Consumer

\* Headers are answered, timers fire. The chain may stand still.
LegacyFairness ==
    WF_legacyVars(Finalizes \/ \E b \in All : HeaderEnds(b) \/ HeaderGoesOn(b))

LegacySpec == LegacyInit /\ [][LegacyNext]_legacyVars /\ LegacyFairness

-------------------------------------------------------------------------------
\* What a subscription was told of and did not unpin is pinned for it, and
\* nothing else is: isPinned.
PinsAgree ==
    \A t \in On : \A b \in All :
        /\ t \in usages[b] <=> b \in told[t] \ released[t]
        /\ usages[b] # {} => b \in blocks

\* A subscription knows the whole tree above the finalized block, down to it.
ViewIsWhole ==
    \A t \in On :
        /\ Above(headFinal, blocks) \subseteq told[t]
        /\ \A b \in told[t] : b \in Above(headFinal, All) =>
             Line[b] \ Line[headFinal] \subseteq told[t] \cap blocks
        /\ headFinal \in blocks

\* The best block is one of the highest above the finalized one.
BestIsRight ==
    Ready /\ headBest \notin late => headBest \in Highest(Above(headFinal, blocks) \ late)

\* What was told and does not lead to the finalized block any more was reported
\* as pruned, and nothing else was.
PruningIsRight ==
    \A t \in On :
        /\ \A b \in told[t] \ late :
             b \notin Line[headFinal] /\ headFinal \notin Line[b] => b \in goneFor[t]
        /\ goneFor[t] \cap Line[headFinal] = {}
        /\ goneFor[t] \subseteq told[t]

\* The heads that came before the first finalized one, and what hangs from them:
\* those that hang from the first finalized block are given up with it.
Hasty == {b \in All : Line[b] \cap early # {}}

\* Other heads are given up only if they were pruned.
GivenUpIsPruned == \A b \in trimmed \ Hasty : headFinal \notin Line[b]

\* What was unpinned is kept only below or above a pinned block.
NothingUselessKept ==
    \A b \in blocks :
        (\E t \in Tokens : b \in released[t]) =>
            \E c \in blocks : usages[c] # {} /\ (b \in Line[c] \/ c \in Line[b])

\* The tree holds what the subscriptions have pinned and what joins it; each of them
\* is told of the chain as the legacy subscriptions of heads and of finalized heads
\* report it, whenever it started.
HeadsAreRight ==
    /\ LegacyTypeOK
    /\ PinsAgree /\ NothingUselessKept
    /\ ViewIsWhole /\ BestIsRight /\ PruningIsRight /\ GivenUpIsPruned

\* No head that could be finalized is waiting for its parents, and the latest finalized
\* block is reported, unless the heads that lead to it came too early.
ChainIsThrough ==
    dead \/ ~Ready \/
        /\ \A b \in Above(headFinal, All) \ (Hasty \cup {headFinal}) : pending[b] = "no"
        /\ headFinal = sentFin \/ Above(sentFin, headsHeard) \subseteq Hasty
===============================================================================
