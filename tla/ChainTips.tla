------------------------------ MODULE ChainTips -------------------------------
(***************************************************************************)
(* Which nonce a transaction gets while the chain moves.                   *)
(*                                                                         *)
(* client.ts makes of the pinned blocks a stream of tips: the first        *)
(* snapshot block by block, then what each snapshot changes. withNonce     *)
(* asks for the nonce of the account at the highest tips, follows each of  *)
(* them by one block while it waits, and takes the greatest answer.        *)
(***************************************************************************)
EXTENDS Integers, Sequences, SequencesExt, FiniteSets, FiniteSetsExt

CONSTANTS
    ParentAt,     \* the parent of each block; block 0 is the first finalized one
    NonceAt,      \* the nonce of the account after each block
    MaxLeaps,     \* recoveries, after which several blocks come in one snapshot
    MaxRefusals   \* calls that the node refuses

ASSUME ChainTipsAssumption ==
    /\ ParentAt \in Seq(Nat)
    /\ \A b \in DOMAIN ParentAt : ParentAt[b] \in 0 .. (b - 1)
    /\ NonceAt \in [0 .. Len(ParentAt) -> Nat]
    /\ MaxLeaps \in Nat /\ MaxRefusals \in Nat

VARIABLES
    tree,      \* the blocks of the last snapshot
    offChain,  \* those of them that are on an abandoned branch
    treeFinal, \* its finalized block
    creation,  \* "no", "asking", "decided" or "failed"
    tips,      \* of the subscription of the enhancer, oldest first
    emitted,   \* the blocks it was told of, each as a new tip
    unparented,\* those of them whose parent it was not told of before
    asks,      \* head |-> [at: the block asked about, moved, open: a call waits,
               \*           state: "none", "ok" or "failed", from: where the answer is from]
    nonce,     \* what was decided, or -1
    leaps, refusals

streamVars == <<creation, tips, emitted, unparented, asks, nonce>>
tipVars == <<tree, offChain, treeFinal, streamVars, leaps, refusals>>

ChainBlock == DOMAIN NonceAt

HeightOf[b \in ChainBlock] == IF b = 0 THEN 0 ELSE HeightOf[ParentAt[b]] + 1

AncestorsOf[b \in ChainBlock] == IF b = 0 THEN {0} ELSE {b} \cup AncestorsOf[ParentAt[b]]

Above(b, known) == {c \in known : b \in AncestorsOf[c]}

\* A block that is unpinned is taken from the children of its parent.
ChildrenIn(b, known) == {c \in known \ {0} : ParentAt[c] = b}

Leaves(known) == {b \in known : ChildrenIn(b, known) = {}}

Highest(bs) == {b \in bs : \A c \in bs : HeightOf[c] <= HeightOf[b]}

-----------------------------------------------------------------------------
(* The stream of tips *)

\* Those of the tips that stay, in their order.
Staying(ts, bs) == FoldLeft(LAMBDA kept, t : IF t \in bs THEN Append(kept, t) ELSE kept, <<>>, ts)

\* One newTip: its parent is a tip no more.
WithTip(ts, b) == Append(Staying(ts, {t \in ChainBlock : b = 0 \/ t # ParentAt[b]}), b)

\* A newTip for each block, in the order in which they came.
WithTips(ts, bs) == MapThenFoldSet(LAMBDA b, sofar : WithTip(sofar, b), ts, LAMBDA b : b, Max, bs)

\* The first snapshot: the finalized block and what is above it, parents first.
FirstTips(known, fin) == WithTips(<<>>, Above(fin, known))

\* Another block is finalized: what was pruned or unpinned is no tip.
TipsKept(ts, fin, known, gone) ==
    IF fin = treeFinal THEN ts ELSE Staying(ts, known \ gone)

\* The leaves that are no tips yet.
NewTips(ts, known, gone) == (Leaves(known) \ gone) \ Range(ts)

\* A head moves to the first new tip on top of it, once; the call for it is given up.
Moved(ask, fresh) ==
    LET next == ChildrenIn(ask.at, fresh)
    IN  IF ask.moved \/ ask.state = "failed" \/ next = {} THEN ask
        ELSE [ask EXCEPT !.at = Min(next), !.moved = TRUE, !.open = TRUE]

\* A snapshot of the pinned blocks, and what it means to the enhancer.
Snapshot(known, gone, fin) ==
    /\ tree' = known /\ offChain' = gone /\ treeFinal' = fin
    /\ IF creation # "asking" THEN UNCHANGED streamVars
       ELSE LET kept  == TipsKept(tips, fin, known, gone)
                fresh == NewTips(kept, known, gone)
            IN  /\ tips' = WithTips(kept, fresh)
                /\ emitted' = emitted \cup fresh
                /\ unparented' = unparented \cup
                        {t \in fresh : t = 0 \/ ParentAt[t] \notin emitted}
                /\ asks' = [h \in DOMAIN asks |-> Moved(asks[h], fresh)]
                /\ UNCHANGED <<creation, nonce>>

-----------------------------------------------------------------------------
(* The chain, as the pinned blocks tell of it *)

BlockArrives(b) ==
    /\ b > Max(tree) /\ ParentAt[b] \in tree /\ treeFinal \in AncestorsOf[b]
    /\ Snapshot(tree \cup {b}, offChain, treeFinal)
    /\ UNCHANGED <<leaps, refusals>>

FinalityMoves(b) ==
    /\ b \in Above(treeFinal, tree) \ {treeFinal}
    /\ Snapshot(tree, {c \in tree : c \notin AncestorsOf[b] /\ b \notin AncestorsOf[c]}, b)
    /\ UNCHANGED <<leaps, refusals>>

\* What is pruned or below the finalized block is unpinned, unless somebody holds it.
TreeCleanUp ==
    /\ \E free \in SUBSET {b \in tree : b \in offChain \/ HeightOf[b] < HeightOf[treeFinal]} :
          free # {} /\ Snapshot(tree \ free, offChain \ free, treeFinal)
    /\ UNCHANGED <<leaps, refusals>>

\* A recovery: the node announces what is above its finalized block.
Leap(b) ==
    /\ leaps < MaxLeaps /\ leaps' = leaps + 1
    /\ b > Max(tree)
    /\ \E fin \in Above(treeFinal, AncestorsOf[b]) :
           Snapshot(AncestorsOf[b] \cap Above(fin, ChainBlock), {}, fin)
    /\ UNCHANGED refusals

-----------------------------------------------------------------------------
(* The enhancer *)

\* With the first "finalized" of the stream the tips are complete; the highest ones
\* are asked about.
AskNonce ==
    /\ creation = "no"
    /\ creation' = "asking"
    /\ tips' = FirstTips(tree, treeFinal)
    /\ emitted' = Above(treeFinal, tree)
    /\ asks' = [h \in Highest(Range(tips')) |->
                    [at |-> h, moved |-> FALSE, open |-> TRUE, state |-> "none", from |-> h]]
    /\ UNCHANGED <<tree, offChain, treeFinal, unparented, nonce, leaps, refusals>>

Succeeded(as) == {h \in DOMAIN as : as[h].state = "ok"}

\* Mutant: an error of one head is an error of the transaction.
SettleNonceStrictly(as) ==
    /\ asks' = as
    /\ IF \E h \in DOMAIN as : as[h].state = "none"
       THEN UNCHANGED <<creation, nonce>>
       ELSE IF Succeeded(as) # DOMAIN as
       THEN creation' = "failed" /\ UNCHANGED nonce
       ELSE /\ creation' = "decided"
            /\ nonce' = Max({NonceAt[as[h].from] : h \in Succeeded(as)})

\* Once there is something of every head, the greatest nonce is taken; it is an error
\* if there is none.
SettleNonce(as) ==
    /\ asks' = as
    /\ IF \E h \in DOMAIN as : as[h].state = "none"
       THEN UNCHANGED <<creation, nonce>>
       ELSE IF Succeeded(as) = {}
       THEN creation' = "failed" /\ UNCHANGED nonce
       ELSE /\ creation' = "decided"
            /\ nonce' = Max({NonceAt[as[h].from] : h \in Succeeded(as)})

NonceComes(h) ==
    /\ creation = "asking" /\ asks[h].open
    /\ SettleNonce([asks EXCEPT ![h].open = FALSE, ![h].state = "ok", ![h].from = asks[h].at])
    /\ UNCHANGED <<tree, offChain, treeFinal, tips, emitted, unparented, leaps, refusals>>

\* The block is not pinned any more, or the node has no answer. The head is not
\* followed any further.
NonceRefused(h) ==
    /\ creation = "asking" /\ asks[h].open
    /\ \/ asks[h].at \notin tree /\ UNCHANGED refusals
       \/ refusals < MaxRefusals /\ refusals' = refusals + 1
    /\ SettleNonce([asks EXCEPT ![h].open = FALSE, ![h].state = "failed"])
    /\ UNCHANGED <<tree, offChain, treeFinal, tips, emitted, unparented, leaps>>

-----------------------------------------------------------------------------
TipInit ==
    /\ tree = {0} /\ offChain = {} /\ treeFinal = 0
    /\ creation = "no" /\ tips = <<>> /\ emitted = {} /\ unparented = {}
    /\ asks = <<>> /\ nonce = -1
    /\ leaps = 0 /\ refusals = 0

TipNext ==
    \/ \E b \in ChainBlock \ {0} : BlockArrives(b) \/ FinalityMoves(b) \/ Leap(b)
    \/ TreeCleanUp
    \/ AskNonce
    \/ \E h \in DOMAIN asks : NonceComes(h) \/ NonceRefused(h)

\* Calls get an answer.
TipFairness == WF_tipVars(\E h \in DOMAIN asks : NonceComes(h) \/ NonceRefused(h))

TipSpec == TipInit /\ [][TipNext]_tipVars /\ TipFairness

-----------------------------------------------------------------------------
(* Properties *)

TipTypeOK ==
    /\ offChain \subseteq tree /\ treeFinal \in tree
    /\ creation \in {"no", "asking", "decided", "failed"}
    /\ Range(tips) \subseteq emitted /\ unparented \subseteq emitted
    /\ DOMAIN asks \subseteq emitted

\* While the enhancer listens, and unless the client had to recover, the tips are the
\* leaves of the tree; next to them only blocks below the finalized one, that are held.
\* The highest tips are the highest blocks.
TipsAreLeaves ==
    creation = "asking" /\ leaps = 0 =>
        LET live == Above(treeFinal, tree)
        IN  /\ IsInjective(tips)
            /\ Leaves(live) \subseteq Range(tips)
            /\ \A t \in Range(tips) \ Leaves(live) : HeightOf[t] < HeightOf[treeFinal]
            /\ Highest(Range(tips)) = Highest(live)

\* The nonce is that of one of the blocks asked about or of one right above it, and no
\* other answer was greater: of no head that answered was the nonce passed over.
NonceIsRight ==
    nonce >= 0 =>
        /\ \E h \in DOMAIN asks : \E b \in {h} \cup ChildrenIn(h, ChainBlock) : nonce = NonceAt[b]
        /\ \A h \in Succeeded(asks) : nonce >= NonceAt[h] /\ nonce >= NonceAt[asks[h].from]

\* An account is not told that there is no nonce while one of the heads had one.
FailedForAReason ==
    creation = "failed" => \A h \in DOMAIN asks : asks[h].state = "failed"

NoncesAreRight == TipsAreLeaves /\ NonceIsRight /\ FailedForAReason

\* tx-creator/src/types.ts: the parent of every new tip was emitted before.
ParentIsEmittedFirst == unparented = {}
===============================================================================
