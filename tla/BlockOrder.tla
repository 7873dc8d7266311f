------------------------------ MODULE BlockOrder ------------------------------
(***************************************************************************)
(* One follow subscription through the fixes of ws-middleware for nodes    *)
(* that announce blocks out of order: fixPrematureBlocks ("premature"      *)
(* blocks wait for their parent), fixUnorderedBlocks (best blocks wait for *)
(* their announcement) and fixMissingInitialBest (a best block is made up  *)
(* if the node sends none). Messages go through the three at once; only    *)
(* the best blocks that waited are delivered by a microtask later.         *)
(***************************************************************************)
EXTENDS Integers, Sequences, SequencesExt

CONSTANTS ParentOf,   \* the parent of each block; Root has none
          MaxBests    \* best blocks the node reports, at most

Root   == 0
Blocks == DOMAIN ParentOf
NoBlock == Len(ParentOf) + 1

ASSUME BlockAssumption ==
    /\ ParentOf \in Seq(Nat)
    /\ \A b \in Blocks : ParentOf[b] \in 0 .. b - 1
    /\ MaxBests \in Nat

VARIABLES
    phase,     \* of the subscription: idle, asked, following or over
    \* the node
    started,   \* it sent "initialized"
    sent,      \* the blocks it announced
    nodeBest, nodeFinalized, nodePruned,
    bests,     \* how many best blocks it reported
    \* the middleware
    pinned,    \* pinnedBlocksInSub of fixPrematureBlocks
    waiting,   \* prematureBlocks: what waits for each block
    known,     \* pinnedBlocksInSub of fixUnorderedBlocks
    held,      \* uknownBlocksNotifications: best blocks that wait
    micro,     \* microtasks: best blocks about to be delivered
    timer,     \* fixMissingInitialBest: off, noted, armed, or armed and orphan
    \* the consumer
    announced, best, finalized,
    mayUnpin,  \* blocks it was told to unpin
    \* history
    overtaken, \* a best block was reported while another one waited
    deep       \* blocks that waited for a block that waited itself

nodeVars     == <<started, sent, nodeBest, nodeFinalized, nodePruned, bests>>
fixVars      == <<pinned, waiting, known, held, micro, timer>>
consumerVars == <<announced, best, finalized, mayUnpin>>
blockVars == <<phase, nodeVars, fixVars, consumerVars, overtaken, deep>>

Waits == [Blocks \cup {Root} -> Seq(Blocks)]

BlockTypeOK ==
    /\ phase \in {"idle", "asked", "following", "over"}
    /\ started \in BOOLEAN /\ overtaken \in BOOLEAN
    /\ {sent, nodePruned, deep} \subseteq SUBSET Blocks
    /\ {pinned, known, held, mayUnpin} \subseteq SUBSET (Blocks \cup {Root})
    /\ {nodeBest, best} \subseteq Blocks \cup {Root, NoBlock}
    /\ {nodeFinalized, finalized} \subseteq Blocks \cup {Root}
    /\ bests \in 0 .. MaxBests
    /\ waiting \in Waits
    /\ {micro, announced} \subseteq Seq(Blocks \cup {Root})
    /\ timer \in {"off", "noted", "armed", "orphan"}

NoneWait == [b \in Blocks \cup {Root} |-> <<>>]

BlockInit ==
    /\ phase = "idle"
    /\ started = FALSE
    /\ sent = {} /\ nodePruned = {} /\ bests = 0
    /\ nodeBest = NoBlock /\ nodeFinalized = Root
    /\ pinned = {} /\ known = {} /\ held = {}
    /\ waiting = NoneWait
    /\ micro = <<>>
    /\ timer = "off"
    /\ announced = <<>> /\ best = NoBlock /\ finalized = Root /\ mayUnpin = {}
    /\ overtaken = FALSE /\ deep = {}

-------------------------------------------------------------------------------
\* The chain from a block down to Root.
Ancestors[b \in Blocks \cup {Root}] ==
    IF b = Root THEN {} ELSE {ParentOf[b]} \cup Ancestors[ParentOf[b]]

OnChain(a, b) == a = b \/ a \in Ancestors[b]

\* A message of the node is a task of its own: the microtasks of the previous
\* one have run.
Task == micro = <<>> /\ phase = "following"

Cancelled == IF timer = "orphan" THEN timer ELSE "off"

-------------------------------------------------------------------------------
(***************************************************************************)
(* The node.                                                               *)
(***************************************************************************)
FollowResponse ==
    /\ phase = "asked"
    /\ phase' = "following"
    /\ timer' = "noted"
    /\ UNCHANGED <<nodeVars, pinned, waiting, known, held, micro, consumerVars,
                   overtaken, deep>>

\* Mutant: "initialized" cancels the timer, like the events after it.
InitializedCancels ==
    /\ Task /\ ~started
    /\ started' = TRUE
    /\ pinned' = {Root}
    /\ known' = {Root}
    /\ timer' = Cancelled
    /\ UNCHANGED <<phase, sent, nodeBest, nodeFinalized, nodePruned, bests,
                   waiting, held, micro, consumerVars, overtaken, deep>>

Initialized ==
    /\ Task /\ ~started
    /\ started' = TRUE
    /\ pinned' = {Root}
    /\ known' = {Root}
    /\ timer' = IF timer = "noted" THEN "armed" ELSE timer
    /\ UNCHANGED <<phase, sent, nodeBest, nodeFinalized, nodePruned, bests,
                   waiting, held, micro, consumerVars, overtaken, deep>>

\* The best blocks among these that were held back, in the same order.
HeldAmong(blocks) ==
    LET upTo[n \in 0 .. Len(blocks)] ==
            IF n = 0 THEN <<>>
            ELSE IF blocks[n] \in held THEN Append(upTo[n - 1], blocks[n])
            ELSE upTo[n - 1]
    IN  upTo[Len(blocks)]

\* fixUnorderedBlocks and fixMissingInitialBest get blocks, in this order.
Announce(blocks) ==
    /\ announced' = announced \o blocks
    /\ known' = known \cup Range(blocks)
    /\ held' = held \ Range(blocks)
    /\ micro' = micro \o HeldAmong(blocks)
    /\ timer' = Cancelled

\* Mutant: children come out before the block.
NewBlockLast(b) ==
    IF ParentOf[b] \notin pinned
      THEN /\ waiting' = [waiting EXCEPT ![ParentOf[b]] = Append(@, b)]
           /\ deep' = deep
           /\ UNCHANGED <<pinned, known, held, micro, timer, announced>>
      ELSE /\ waiting' = [waiting EXCEPT ![b] = <<>>]
           /\ pinned' = pinned \cup {b} \cup Range(waiting[b])
           /\ Announce(waiting[b] \o <<b>>)
           /\ UNCHANGED deep

\* fixPrematureBlocks: a block waits for its parent. With the parent come the
\* blocks that wait for it, but not those that wait for these.
NewBlock(b) ==
    IF ParentOf[b] \notin pinned
      THEN /\ waiting' = [waiting EXCEPT ![ParentOf[b]] = Append(@, b)]
           /\ deep' = IF ParentOf[b] \in sent
                        THEN deep \cup {b}
                        ELSE deep \cup Range(waiting[b])
           /\ UNCHANGED <<pinned, known, held, micro, timer, announced>>
      ELSE /\ waiting' = [waiting EXCEPT ![b] = <<>>]
           /\ pinned' = pinned \cup {b} \cup Range(waiting[b])
           /\ Announce(<<b>> \o waiting[b])
           /\ UNCHANGED deep

NodeAnnounces ==
    /\ Task /\ started
    /\ \E b \in Blocks \ (sent \cup nodePruned) :
        /\ sent' = sent \cup {b}
        /\ NewBlock(b)
    /\ UNCHANGED <<phase, started, nodeBest, nodeFinalized, nodePruned, bests,
                   best, finalized, mayUnpin, overtaken>>

\* fixUnorderedBlocks: a best block waits for its announcement.
BestBlock(b) ==
    IF b \in known
      THEN /\ best' = b
           /\ timer' = Cancelled
           /\ overtaken' = (overtaken \/ held # {})
           /\ UNCHANGED held
      ELSE /\ held' = held \cup {b}
           /\ overtaken' = (overtaken \/ held \ {b} # {})
           /\ UNCHANGED <<best, timer>>

NodeReportsBest ==
    /\ Task /\ started
    /\ bests < MaxBests
    /\ bests' = bests + 1
    /\ \E b \in (Blocks \cup {Root}) \ nodePruned :
        /\ OnChain(nodeFinalized, b)
        /\ nodeBest' = b
        /\ BestBlock(b)
    /\ UNCHANGED <<phase, started, sent, nodeFinalized, nodePruned, pinned,
                   waiting, known, micro, announced, finalized, mayUnpin, deep>>

\* Finalized blocks are announced blocks on the best chain. Pruned blocks that
\* are not known are left out.
NodeFinalizes ==
    /\ Task /\ started
    /\ nodeBest # NoBlock
    /\ \E b \in sent :
        /\ ParentOf[b] = nodeFinalized
        /\ OnChain(b, nodeBest)
        /\ nodeFinalized' = b
        /\ finalized' = b
        /\ nodePruned' = {c \in Blocks : ~OnChain(b, c) /\ ~OnChain(c, b)}
        /\ mayUnpin' =
             mayUnpin \cup ((nodePruned' \cup Ancestors[b]) \cap known)
    /\ UNCHANGED <<phase, started, sent, nodeBest, bests, fixVars,
                   announced, best, overtaken, deep>>

\* Mutant: the timer goes on.
StopEventKeepTimer ==
    /\ Task
    /\ phase' = "over"
    /\ waiting' = NoneWait
    /\ held' = {}
    /\ UNCHANGED <<nodeVars, pinned, known, micro, timer, consumerVars,
                   overtaken, deep>>

\* "stop" forgets what waits, but not what is pinned.
StopEvent ==
    /\ Task
    /\ phase' = "over"
    /\ waiting' = NoneWait
    /\ held' = {}
    /\ timer' = Cancelled
    /\ UNCHANGED <<nodeVars, pinned, known, micro, consumerVars, overtaken, deep>>

\* withClear: the maps are emptied, the timer of fixMissingInitialBest goes on.
Clear ==
    /\ phase' = "over"
    /\ pinned' = {} /\ known' = {} /\ held' = {}
    /\ waiting' = NoneWait
    /\ timer' = IF timer = "armed" THEN "orphan" ELSE Cancelled
    /\ UNCHANGED <<nodeVars, micro, consumerVars, overtaken, deep>>

\* The connection is lost.
HaltEvent == micro = <<>> /\ phase \in {"asked", "following"} /\ Clear

-------------------------------------------------------------------------------
(***************************************************************************)
(* Timers, microtasks and the consumer, which may call at once from the    *)
(* message it gets.                                                        *)
(***************************************************************************)
Microtask ==
    /\ micro # <<>>
    /\ micro' = Tail(micro)
    /\ best' = Head(micro)
    /\ timer' = Cancelled
    /\ UNCHANGED <<phase, nodeVars, pinned, waiting, known, held, announced,
                   finalized, mayUnpin, overtaken, deep>>

\* 500 ms after "initialized"
MakeUpBest ==
    /\ micro = <<>>
    /\ timer \in {"armed", "orphan"}
    /\ timer' = "off"
    /\ best' = Root
    /\ UNCHANGED <<phase, nodeVars, pinned, waiting, known, held, micro,
                   announced, finalized, mayUnpin, overtaken, deep>>

Follow ==
    /\ phase = "idle"
    /\ phase' = "asked"
    /\ UNCHANGED <<nodeVars, fixVars, consumerVars, overtaken, deep>>

Unpin ==
    /\ phase = "following"
    /\ \E b \in mayUnpin :
        /\ mayUnpin' = mayUnpin \ {b}
        /\ pinned' = pinned \ {b}
        /\ known' = known \ {b}
        /\ held' = held \ {b}
        /\ waiting' = [waiting EXCEPT ![b] = <<>>]
    /\ UNCHANGED <<phase, nodeVars, micro, timer, announced, best, finalized,
                   overtaken, deep>>

Unfollow ==
    /\ phase = "following"
    /\ phase' = "over"
    /\ pinned' = {} /\ known' = {} /\ held' = {}
    /\ waiting' = NoneWait
    /\ timer' = Cancelled
    /\ UNCHANGED <<nodeVars, micro, consumerVars, overtaken, deep>>

Disconnect == phase \in {"asked", "following"} /\ Clear

BlockNext ==
    \/ FollowResponse \/ Initialized
    \/ NodeAnnounces \/ NodeReportsBest \/ NodeFinalizes
    \/ StopEvent \/ HaltEvent
    \/ Microtask \/ MakeUpBest
    \/ Follow \/ Unpin \/ Unfollow \/ Disconnect

\* Microtasks and timers run; nothing is assumed of the node.
BlockFairness == WF_blockVars(Microtask \/ MakeUpBest)

BlockSpec == BlockInit /\ [][BlockNext]_blockVars /\ BlockFairness

-------------------------------------------------------------------------------
\* A block is announced to the consumer once, after its parent.
ParentsFirst ==
    \A i \in DOMAIN announced :
        /\ ParentOf[announced[i]] = Root
           \/ \E j \in 1 .. i - 1 : announced[j] = ParentOf[announced[i]]
        /\ \A j \in 1 .. i - 1 : announced[j] # announced[i]

\* A block the node announced reaches the consumer as soon as its ancestors are
\* announced, unless it waited for a block that had to wait itself.
BlocksComeThrough ==
    phase = "following" =>
        \A b \in sent :
            \/ b \in Range(announced)
            \/ \E a \in {b} \cup Ancestors[b] : a \in Blocks \ sent \/ a \in deep

\* The best block of the consumer is one it was told of, and the latest one the
\* node reported, unless that waits for its announcement or one overtook another.
BestIsCurrent ==
    /\ best # NoBlock => best \in Range(announced) \cup {Root}
    /\ phase = "following" /\ micro = <<>> /\ ~overtaken =>
         \/ best = nodeBest
         \/ nodeBest \in held
         \/ nodeBest = NoBlock /\ best = Root

\* Whatever order the node chooses, the consumer hears of each block once, after
\* its parent and as soon as possible, and of the current best block.
BlocksAreRight == BlockTypeOK /\ ParentsFirst /\ BlocksComeThrough /\ BestIsCurrent

\* A subscription that is initialized waits for its first best block.
NoBestYet == phase = "following" /\ started /\ best = NoBlock /\ announced = <<>>

HearsLittle ==
    phase = "over" =>
        /\ UNCHANGED <<announced, finalized>>
        /\ best' # best => micro # <<>> \/ timer = "orphan"

\* Once the subscription is over the consumer hears at most of a best block that
\* was on its way, and of a made-up one after a halt or a disconnection, which
\* do not clear the timer.
EndsQuietly == [][HearsLittle]_blockVars
===============================================================================
