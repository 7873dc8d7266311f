----------------------------- MODULE PinnedBlocks -----------------------------
(***************************************************************************)
(* getPinnedBlocks$ of observable-client: the blocks a chainHead follow    *)
(* subscription pinned, as the client knows them, over subscriptions that  *)
(* the server stops and the client opens again.                            *)
(*                                                                         *)
(* The client is one reducer: every event (of the subscription, of a user  *)
(* that holds or releases a block, of the clean-up timer) is one step.     *)
(* The reducer's accumulator is the record `acc`, and every event handler  *)
(* an operator from an accumulator to the next one.                        *)
(***************************************************************************)
EXTENDS Integers, Sequences, FiniteSets, SequencesExt

CONSTANTS Block,     \* hashes of the blocks of the chain, every fork of it
          Genesis,   \* its root
          Parent,    \* function: block -> parent, the root's is itself
          Height,    \* function: block -> number
          Code,      \* function: block -> code hash of its runtime
          NoBlock,   \* the hash "", of no block
          NoCode,    \* the code hash of no runtime
          Held,      \* blocks that users hold
          MaxHolds,  \* bound: uses of a block at a time
          MaxStops,  \* bound: stop events of a behaviour
          MaxWindow, \* bound: finalized blocks of an initialized event
          MayLag     \* a new subscription may be behind the previous one

Codes == {Code[b] : b \in Block}

ASSUME ChainAssumption ==
    /\ Genesis \in Block
    /\ NoBlock \notin Block
    /\ NoCode \notin Codes
    /\ Parent \in [Block -> Block]
    /\ Height \in [Block -> Nat]
    /\ \A b \in Block \ {Genesis} : Height[b] = Height[Parent[b]] + 1
    /\ Parent[Genesis] = Genesis

ASSUME BoundsAssumption ==
    /\ Held \subseteq Block
    /\ MaxHolds \in Nat
    /\ MaxStops \in Nat
    /\ MaxWindow \in Nat \ {0}
    /\ MayLag \in BOOLEAN

\* The blocks from the root to a block.
Path[b \in Block] ==
    IF b = Genesis THEN <<b>> ELSE Append(Path[Parent[b]], b)

\* A block and its ancestors.
Line[b \in Block] == {b} \cup IF b = Genesis THEN {} ELSE Line[Parent[b]]

Below(a, b) == a # b /\ a \in Line[b]
Aligned(a, b) == a \in Line[b] \/ b \in Line[a]

VARIABLES
    acc,        \* the accumulator of the client's reducer
    cleanup,    \* the clean-up timer is armed
    releasing,  \* block -> releases waiting for their timer
    holds,      \* block -> number of users that hold it
    \* the server
    session,    \* the subscription: "none", "initialized", "live" once it has a
                \* best block, "advanced" once it finalized one
    seen,       \* blocks it reported in this subscription
    pinned,     \* blocks it keeps pinned for this subscription
    sFinalized, \* its finalized block
    sBest,      \* its best block
    top,        \* the highest finalized block of all subscriptions
    stops,      \* how many subscriptions it stopped
    badUnpin,   \* it was asked to unpin a block that was not pinned
    mishaps,    \* what happened so far: a subscription "behind" the previous
                \* one, a subscription "cut" before the client was ready
    remade      \* the blocks whose runtime a later block made anew

userVars   == <<releasing, holds>>
serverVars == <<session, seen, sFinalized, sBest, top, stops>>
vars == <<acc, cleanup, userVars, serverVars, pinned, badUnpin, mishaps, remade>>

Initial ==
    [phase      |-> "Initializing",
     target     |-> -1,
     pending    |-> <<>>,
     blocks     |-> {},
     children   |-> [b \in Block |-> {}],
     refCount   |-> [b \in Block |-> 0],
     recovering |-> {},
     pruned     |-> {},
     best       |-> NoBlock,
     finalized  |-> NoBlock,
     runtime    |-> [b \in Block |-> NoCode],
     usages     |-> [c \in Codes |-> {}],
     finRuntime |-> NoCode,
     emitted    |-> {},
     unpins     |-> {}]

Live == {"live", "advanced"}

Phases == {"Initializing", "Ready", "RecoveringInit", "RecoveringFin", "Failed"}

Accumulator ==
    [phase      : Phases,
     target     : Int,
     pending    : Seq(Block),
     blocks     : SUBSET Block,
     children   : [Block -> SUBSET Block],
     refCount   : [Block -> Int],
     recovering : SUBSET Block,
     pruned     : SUBSET Block,
     best       : Block \cup {NoBlock},
     finalized  : Block \cup {NoBlock},
     runtime    : [Block -> Codes \cup {NoCode}],
     usages     : [Codes -> SUBSET Block],
     finRuntime : Codes \cup {NoCode},
     emitted    : SUBSET Block,
     unpins     : SUBSET Block]

TypeOK ==
    /\ acc \in Accumulator
    /\ acc.recovering \cup acc.pruned \subseteq acc.blocks
    /\ acc.unpins = {}
    /\ cleanup \in BOOLEAN
    /\ releasing \in [Block -> Nat]
    /\ holds \in [Block -> Nat]
    /\ session \in {"none", "initialized"} \cup Live
    /\ pinned \subseteq seen /\ seen \subseteq Block
    /\ {sFinalized, sBest, top} \subseteq Block \cup {NoBlock}
    /\ stops \in 0 .. MaxStops
    /\ badUnpin \in BOOLEAN
    /\ mishaps \subseteq {"behind", "cut"}
    /\ remade \subseteq Block

-------------------------------------------------------------------------------
(***************************************************************************)
(* The handlers. `runtimes` is the set of codes with a usage: an entry     *)
(* goes with its last one. An entry of a block that is not in `blocks` has *)
(* no children, no reference and no runtime. A handler that reads a        *)
(* property of undefined throws, and the stream ends: Fail.                *)
(***************************************************************************)
Fail(a) == [a EXCEPT !.phase = "Failed"]

DeleteBlocks(a, gone) ==
    [a EXCEPT
        !.blocks     = @ \ gone,
        !.recovering = @ \ gone,
        !.pruned     = @ \ gone,
        !.children   = [b \in Block |-> IF b \in gone THEN {} ELSE @[b] \ gone],
        !.refCount   = [b \in Block |-> IF b \in gone THEN 0 ELSE @[b]],
        !.runtime    = [b \in Block |-> IF b \in gone THEN NoCode ELSE @[b]],
        !.usages     = [c \in Codes |-> @[c] \ gone]]

\* newBlocks$ keeps its subscribers.
ResetState(a) == [Initial EXCEPT !.emitted = a.emitted]

SetToReady(a) ==
    [DeleteBlocks(a, a.recovering) EXCEPT
        !.phase   = "Ready",
        !.pending = <<>>,
        !.target  = -1,
        !.emitted = @ \cup Range(a.pending)]

NumberOf(a, b) == IF b \in a.blocks THEN Height[b] ELSE -1

\* Mutants: the uses of a block, or that it belongs to the previous subscription,
\* do not matter.
UnpinnableInUse(a, b) ==
    /\ b \notin a.recovering
    /\ b \in a.pruned \/ Height[b] < NumberOf(a, a.finalized)

UnpinnableOfBefore(a, b) ==
    /\ a.refCount[b] = 0
    /\ b \in a.pruned \/ Height[b] < NumberOf(a, a.finalized)

Unpinnable(a, b) ==
    /\ a.refCount[b] = 0
    /\ b \notin a.recovering
    /\ b \in a.pruned \/ Height[b] < NumberOf(a, a.finalized)

TryToUnpin(a, targets) ==
    LET gone == {b \in targets : Unpinnable(a, b)}
    IN  [DeleteBlocks(a, gone) EXCEPT !.unpins = gone]

\* runtimeChanges: the first block of the window, and those that changed.
ChangesRuntime(window, i) ==
    i = 1 \/ Code[window[i]] # Code[window[i - 1]]

\* The child that the window gives to its i-th block.
NextOf(window, i) == IF i = Len(window) THEN {} ELSE {window[i + 1]}

(***************************************************************************)
(* initialized: known blocks of the window are recovered, the others are   *)
(* added, and only those above the latest finalized one are new. (The      *)
(* latest runtime of the loop is the finalized one: they change together.) *)
(***************************************************************************)
AddFinalized(a, window, i, latestHeight) ==
    LET hash     == window[i]
        isNew    == Height[hash] > latestHeight
        requires == /\ ChangesRuntime(window, i)
                    /\ a.usages[Code[hash]] = {}
                    /\ isNew
        runtime  == IF requires THEN Code[hash] ELSE a.finRuntime
    IN  IF hash \in a.blocks
          THEN [a EXCEPT !.recovering = @ \ {hash}]
          ELSE IF runtime = NoCode \/ (~requires /\ a.usages[runtime] = {})
          THEN Fail(a)
          ELSE [a EXCEPT
                 !.blocks     = @ \cup {hash},
                 !.children[hash]  = NextOf(window, i),
                 !.runtime[hash]   = runtime,
                 !.usages[runtime] = @ \cup {hash},
                 !.finRuntime = runtime,
                 !.pending    = IF isNew THEN Append(@, hash) ELSE @]

AddWindow(a, window, latestHeight) ==
    LET added[i \in 0 .. Len(window)] ==
            IF i = 0 THEN a ELSE AddFinalized(added[i - 1], window, i, latestHeight)
    IN  added[Len(window)]

\* Nothing of the previous subscription is left: newBlocks$ completes.
\* (Mutant: it goes on.)
StartOverSilently(a) == ResetState(a)
StartOver(a) == [ResetState(a) EXCEPT !.emitted = {}]

OnInitialized(a, window) ==
    LET last  == window[Len(window)]
        known == \E i \in 1 .. Len(window) : window[i] \in a.blocks
        b     == IF a.phase = "RecoveringInit" /\ ~known
                   THEN StartOver(a)
                   ELSE a
        latestHeight == NumberOf(b, b.finalized)
        lags  == latestHeight > Height[last]
        start == [b EXCEPT
                    !.phase     = IF lags THEN "RecoveringFin" ELSE "Initializing",
                    !.target    = IF lags THEN latestHeight ELSE -1,
                    !.pending   = <<>>,
                    !.finalized = IF lags THEN @ ELSE last]
        hasRuntime == b.finRuntime # NoCode \/ b.finalized = NoBlock
    IN  IF a.phase \in {"Initializing", "RecoveringInit"} /\ hasRuntime
          THEN AddWindow(start, window, latestHeight)
          ELSE Fail(a)

OnStop(a) ==
    IF a.phase = "Initializing"
      THEN ResetState(a)
      ELSE [a EXCEPT !.phase      = "RecoveringInit",
                     !.pending    = <<>>,
                     !.target     = -1,
                     !.recovering = a.blocks]

\* Mutant: every block makes a new runtime.
RuntimesAnew(a, hash, newRuntime) == [a.usages EXCEPT ![Code[hash]] = {hash}]

\* A runtime upgrade makes a new runtime, with this block as its only usage.
RuntimesWith(a, hash, newRuntime) ==
    IF newRuntime THEN [a.usages EXCEPT ![Code[hash]] = {hash}] ELSE a.usages

RuntimeFor(a, hash, newRuntime) ==
    IF newRuntime THEN Code[hash] ELSE a.runtime[Parent[hash]]

OnNewBlock(a, hash, newRuntime) ==
    LET parent  == Parent[hash]
        runtime == RuntimeFor(a, hash, newRuntime)
        usages  == RuntimesWith(a, hash, newRuntime)
    IN  IF hash \in a.blocks
          THEN [a EXCEPT !.recovering = @ \ {hash}]
          ELSE IF parent \notin a.blocks \/ usages[runtime] = {}
          THEN Fail(a)
          ELSE [a EXCEPT
                 !.blocks   = @ \cup {hash},
                 !.children[parent] = @ \cup {hash},
                 !.runtime[hash]    = runtime,
                 !.usages   = [usages EXCEPT ![runtime] = usages[runtime] \cup {hash}],
                 !.pending  = IF a.phase = "Ready" THEN @ ELSE Append(@, hash),
                 !.emitted  = IF a.phase = "Ready" THEN @ \cup {hash} ELSE @]

\* Mutant: the first best block only ends the initialization.
OnBestBlockUnrecorded(a, hash) ==
    CASE a.phase = "RecoveringFin" -> a
      [] a.phase = "Initializing"  -> SetToReady(a)
      [] OTHER                     -> [a EXCEPT !.best = hash]

OnBestBlockChanged(a, hash) ==
    IF a.phase = "RecoveringFin" THEN a
    ELSE LET b == [a EXCEPT !.best = hash]
         IN  IF a.phase = "Initializing" THEN SetToReady(b) ELSE b

OnFinalized(a, hash, prunedHashes) ==
    LET best == IF NumberOf(a, a.best) < Height[hash] THEN hash ELSE a.best
        b    == [a EXCEPT
                   !.finalized  = hash,
                   !.best       = best,
                   !.finRuntime = IF a.usages[a.runtime[hash]] = {} THEN NoCode
                                  ELSE a.runtime[hash],
                   !.pruned     = @ \cup (prunedHashes \cap a.blocks)]
    IN  IF hash \notin a.blocks THEN Fail(a)
        ELSE IF a.phase = "RecoveringFin" /\ Height[hash] < a.target THEN a
        ELSE IF a.best \notin a.blocks THEN Fail(a)
        ELSE IF a.phase = "RecoveringFin" THEN SetToReady(b) ELSE b

\* Mutant: a second hold of a block does not count.
OnBlockUsageOnce(a, hash, delta) ==
    IF hash \notin a.blocks THEN a
    ELSE TryToUnpin([a EXCEPT !.refCount[hash] = IF delta = 1 THEN 1 ELSE @ - 1], {hash})

OnBlockUsage(a, hash, delta) ==
    IF hash \notin a.blocks THEN a
    ELSE TryToUnpin([a EXCEPT !.refCount[hash] = @ + delta], {hash})
-------------------------------------------------------------------------------
(***************************************************************************)
(* The events. An event of the server is delivered as it is sent: stops    *)
(* cut the stream anywhere, and what was in flight was never sent.         *)
(***************************************************************************)
Init ==
    /\ acc = Initial
    /\ cleanup = FALSE
    /\ releasing = [b \in Block |-> 0]
    /\ holds = [b \in Block |-> 0]
    /\ session = "none"
    /\ seen = {} /\ pinned = {}
    /\ sFinalized = NoBlock /\ sBest = NoBlock /\ top = NoBlock
    /\ stops = 0
    /\ badUnpin = FALSE
    /\ mishaps = {}
    /\ remade = {}

\* The client unpins what its reducer chose, in a subscription that has `pins`.
Reduce(next, pins) ==
    /\ acc' = [next EXCEPT !.unpins = {}]
    /\ pinned' = pins \ next.unpins
    /\ badUnpin' = (badUnpin \/ ~(next.unpins \subseteq pins))

\* A stream that failed is not observed any more.
Observed == acc.phase # "Failed"

Known(b) == b \in seen

Behind(b) == top # NoBlock /\ Height[b] < Height[top]

Initialize(b, n) ==
    /\ Observed
    /\ session = "none"
    /\ n <= Len(Path[b])
    /\ top # NoBlock => Aligned(b, top)
    /\ Behind(b) => MayLag
    /\ LET window == SubSeq(Path[b], Len(Path[b]) - n + 1, Len(Path[b]))
       IN  /\ Reduce(OnInitialized(acc, window), Range(window))
           /\ seen' = Range(window)
    /\ session' = "initialized"
    /\ sFinalized' = b /\ sBest' = b
    /\ top' = IF top = NoBlock \/ Height[b] > Height[top] THEN b ELSE top
    /\ mishaps' = IF Behind(b) THEN mishaps \cup {"behind"} ELSE mishaps
    /\ UNCHANGED <<cleanup, userVars, stops, remade>>

NewBlock(b) ==
    /\ Observed
    /\ session # "none"
    /\ ~Known(b) /\ Known(Parent[b])
    /\ Below(sFinalized, b)
    /\ Reduce(OnNewBlock(acc, b, Code[b] # Code[Parent[b]]), pinned \cup {b})
    /\ seen' = seen \cup {b}
    /\ remade' = IF b \notin acc.blocks /\ Code[b] # Code[Parent[b]]
                   THEN remade \cup acc.usages[Code[b]]
                   ELSE remade
    /\ UNCHANGED <<cleanup, userVars, session, sFinalized, sBest, top, stops, mishaps>>

\* The first one ends what the server reports at the start.
BestBlockChanged(b) ==
    /\ Observed
    /\ session # "none"
    /\ Known(b) /\ sFinalized \in Line[b]
    /\ session \in Live => b # sBest
    /\ Reduce(OnBestBlockChanged(acc, b), pinned)
    /\ session' = IF session \in Live THEN session ELSE "live"
    /\ sBest' = b
    /\ UNCHANGED <<cleanup, userVars, seen, sFinalized, top, stops, mishaps, remade>>

NewlyPruned(b) == {x \in seen : Aligned(sFinalized, x) /\ ~Aligned(b, x)}

Finalize(b) ==
    /\ Observed
    /\ session \in Live
    /\ Known(b) /\ Below(sFinalized, b)
    /\ b \in Line[sBest]
    /\ Aligned(b, top)
    /\ LET next == OnFinalized(acc, b, NewlyPruned(b))
       IN  /\ Reduce(next, pinned)
           /\ cleanup' = (cleanup \/ next.phase = "Ready")
    /\ session' = "advanced"
    /\ sFinalized' = b
    /\ top' = IF Height[b] > Height[top] THEN b ELSE top
    /\ UNCHANGED <<userVars, seen, sBest, stops, mishaps, remade>>

Stop ==
    /\ Observed
    /\ session # "none"
    /\ stops < MaxStops
    /\ Reduce(OnStop(acc), {})
    /\ session' = "none"
    /\ seen' = {}
    /\ stops' = stops + 1
    /\ mishaps' = IF acc.phase # "Ready" THEN mishaps \cup {"cut"} ELSE mishaps
    /\ UNCHANGED <<cleanup, userVars, sFinalized, sBest, top, remade>>

CleanUp ==
    /\ Observed
    /\ cleanup
    /\ cleanup' = FALSE
    /\ Reduce(TryToUnpin(acc, acc.blocks), pinned)
    /\ UNCHANGED <<userVars, serverVars, mishaps, remade>>

\* usingBlock: a user subscribes to something of a block that is there.
Hold(b) ==
    /\ Observed
    /\ b \in acc.blocks
    /\ holds[b] + releasing[b] < MaxHolds
    /\ holds' = [holds EXCEPT ![b] = @ + 1]
    /\ Reduce(OnBlockUsage(acc, b, 1), pinned)
    /\ UNCHANGED <<cleanup, releasing, serverVars, mishaps, remade>>

\* and unsubscribes: the release comes with a timer.
Release(b) ==
    /\ Observed
    /\ holds[b] > 0
    /\ holds' = [holds EXCEPT ![b] = @ - 1]
    /\ releasing' = [releasing EXCEPT ![b] = @ + 1]
    /\ UNCHANGED <<acc, pinned, badUnpin, cleanup, serverVars, mishaps, remade>>

ReleaseFires(b) ==
    /\ Observed
    /\ releasing[b] > 0
    /\ releasing' = [releasing EXCEPT ![b] = @ - 1]
    /\ Reduce(OnBlockUsage(acc, b, -1), pinned)
    /\ UNCHANGED <<cleanup, holds, serverVars, mishaps, remade>>

Server ==
    \/ \E b \in Block :
          \/ \E n \in 1 .. MaxWindow : Initialize(b, n)
          \/ NewBlock(b) \/ BestBlockChanged(b) \/ Finalize(b)
    \/ Stop

User == \E b \in Held : Hold(b) \/ Release(b) \/ ReleaseFires(b)

Next == Server \/ CleanUp \/ User

Spec == Init /\ [][Next]_vars

-------------------------------------------------------------------------------
Ready == acc.phase = "Ready"

InTime == "behind" \notin mishaps

\* Unless a subscription is behind the previous one, no event of a server that
\* follows the protocol makes a handler read a property of undefined, which ends
\* the stream of blocks for good.
NeverThrows == InTime => Observed

\* The client and the server agree on the pinned blocks: nothing is unpinned
\* twice, nor in another subscription than the one that pinned it, and no pin
\* is forgotten.
PinsAgree ==
    /\ ~badUnpin
    /\ Observed /\ session # "none" => pinned = acc.blocks \ acc.recovering

\* bestBlocks$ walks from the best block down to the finalized one, without
\* a look at what is missing.
BestChain ==
    /\ {acc.best, acc.finalized} \subseteq acc.blocks
    /\ acc.finalized \in Line[acc.best]
    /\ {b \in Line[acc.best] : Below(acc.finalized, b)} \subseteq acc.blocks

\* It is there after a stop, if the next subscription is not behind,
BestChainIsThere == Ready /\ InTime => BestChain

\* and in any case.
BestChainSurvivesLag == Ready => BestChain

\* The count of a block is the number of its users, the ones whose release is
\* on its way included.
UsersAreCounted ==
    Observed =>
        \A b \in acc.blocks : acc.refCount[b] = holds[b] + releasing[b]

\* A block is not unpinned while somebody uses it.
UsedStaysPinned ==
    [][\A b \in pinned : holds[b] > 0 /\ session' = session => b \in pinned']_vars

\* Once the server finalized a block, every pinned block that is pruned or below
\* the finalized one has users, but until the next clean-up.
NothingUselessPinned ==
    Ready /\ session = "advanced" /\ ~cleanup =>
        \A b \in acc.blocks :
            b \in acc.pruned \/ Below(b, acc.finalized) => holds[b] + releasing[b] > 0

\* The calls on a block are encoded for the runtime of that block, and the one
\* on which the current runtime of the client is based is the finalized one's, or
\* none if that runtime, made anew by another block, is gone.
RuntimesAreRight ==
    /\ \A b \in acc.blocks : acc.runtime[b] = Code[b]
    /\ Ready => \/ acc.finRuntime = Code[acc.finalized]
                \/ acc.finRuntime = NoCode /\ acc.finalized \in remade

\* A runtime is there as long as a block needs it, and only as long, even if several
\* branches have the same upgrade: but for the blocks that had it before the last of
\* these upgrades, which makes it anew.
RuntimesCoverBlocks ==
    /\ \A b \in acc.blocks \ remade : b \in acc.usages[Code[b]]
    /\ \A c \in Codes : \A b \in acc.usages[c] : b \in acc.blocks /\ Code[b] = c

\* The stream of blocks fails only for want of a runtime that was made anew and is gone
\* before the blocks that had it before.
FailsForOutlivedRuntime ==
    ~Observed => \E b \in acc.blocks \cap remade : acc.usages[Code[b]] = {}

\* trackTx walks down from a block through `children`: a pinned block is a
\* child of its parent.
ChildrenAreComplete ==
    Ready =>
        \A b \in acc.blocks \ {Genesis} :
            Parent[b] \in acc.blocks => b \in acc.children[Parent[b]]

\* newBlocks$ has no gap: its subscribers were told of the parent of every block
\* they were told of but the first one; otherwise the stream completes.
NewBlocksAreContinuous ==
    LET first == {b \in acc.emitted : b = Genesis \/ Parent[b] \notin acc.emitted}
    IN  Cardinality(first) <= 1

\* So it is unless a subscription was behind the previous one or cut before the
\* client was ready,
ContinuousUnlessMishap == mishaps = {} => NewBlocksAreContinuous

\* and no block above the finalized one is kept from its subscribers.
NothingKeptFromSubscribers ==
    Ready /\ "cut" \notin mishaps =>
        \A b \in acc.blocks : Below(acc.finalized, b) => b \in acc.emitted

\* Within a subscription: the count of each block is the number of its users, and
\* what nobody uses is unpinned once it is pruned or below the finalized block.
PinsAreCounted == UsersAreCounted /\ NothingUselessPinned

\* Within a subscription over a fork with the same upgrade in both branches: each
\* block has its runtime, which stays while it is used, and its children.
RuntimesServe ==
    FailsForOutlivedRuntime /\ RuntimesAreRight /\ RuntimesCoverBlocks /\ ChildrenAreComplete

\* After any stop, nothing that is read is missing.
StopsAreSurvived == TypeOK /\ NeverThrows /\ BestChainIsThere

\* After any stop that comes in time, newBlocks$ says everything, or completes.
NewBlocksAreRight == ContinuousUnlessMishap /\ NothingKeptFromSubscribers
===============================================================================
