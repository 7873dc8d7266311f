----------------------------- MODULE EventStreams -----------------------------
(***************************************************************************)
(* The events of a pallet, block by block, for a consumer of the client:   *)
(* watchBest reports the blocks of the best chain as new, as dropped by a  *)
(* reorganisation and as finalized, watch those that become finalized.     *)
(* Both ask for the events of several blocks at a time and report them in  *)
(* the order of the asking (concatMapEager). One step is one change of the *)
(* pinned blocks, as PinnedBlocks tells of them, or one answer.            *)
(***************************************************************************)
EXTENDS Integers, Sequences, SequencesExt, FiniteSetsExt

CONSTANTS ParentIn, \* the parent of each block; 0 has none
          MaxTurns, \* changes of the best block, at most
          MaxJumps  \* recoveries that find both another finalized and another best block

Known == DOMAIN ParentIn \cup {0}

\* From the first block to b.
Trail[b \in Known] == Append(IF b = 0 THEN <<>> ELSE Trail[ParentIn[b]], b)
Level(b)           == Len(Trail[b]) - 1
Under(a, b)        == a \in Range(Trail[b])

\* From a finalized block f up to b: a value of bestBlocks$, the other way round.
Span(f, b) == SubSeq(Trail[b], Len(Trail[f]), Len(Trail[b]))

ASSUME EventAssumption ==
    /\ ParentIn \in Seq(Nat)
    /\ \A b \in DOMAIN ParentIn : ParentIn[b] \in 0 .. b - 1
    /\ MaxTurns \in Nat /\ MaxJumps \in Nat

VARIABLES
    bestNow, finalNow,  \* of the pinned blocks
    turns, jumps,       \* how often they changed
    fetched,            \* blocks whose events are cached
    \* watchBest
    inners,             \* subscriptions of concatMapEager, from observerIdx on
    pending,
    blocksEmitted,
    \* watch
    finalInners,
    \* the consumers
    view,               \* blocks reported new and not dropped since
    settled,            \* those reported finalized
    watched,            \* blocks reported by watch
    late,               \* an answer was kept for a block that left the best chain
    failed              \* the streams ended with an error

chainOfEvents == <<bestNow, finalNow, turns, jumps>>
bestStream    == <<inners, pending, blocksEmitted, view, settled>>
eventVars     == <<chainOfEvents, fetched, bestStream, finalInners, watched, late, failed>>

Waits(b) == [block |-> b, answer |-> "waits"]

EventTypeOK ==
    /\ {bestNow, finalNow} \subseteq Known /\ Under(finalNow, bestNow)
    /\ turns \in 0 .. MaxTurns /\ jumps \in 0 .. MaxJumps
    /\ {fetched, pending, settled} \subseteq SUBSET Known
    /\ {inners, finalInners} \subseteq
            Seq([block : Known, answer : {"waits", "there", "cut"}])
    /\ {blocksEmitted, view, watched} \subseteq Seq(Known)
    /\ late \in BOOLEAN /\ failed \in BOOLEAN

-------------------------------------------------------------------------------
(***************************************************************************)
(* concatMapEager: all the inner observables run, and the first one that   *)
(* has not answered keeps back the answers of the later ones.              *)
(***************************************************************************)
Waiting(queue) == {i \in DOMAIN queue : queue[i].answer = "waits"}

\* What goes on, and what stays behind.
Ready(queue) ==
    IF Waiting(queue) = {} THEN queue
    ELSE SubSeq(queue, 1, (CHOOSE i \in Waiting(queue) :
                              \A j \in Waiting(queue) : i <= j) - 1)

Behind(queue) == SubSeq(queue, Len(Ready(queue)) + 1, Len(queue))

BlocksOf(queue) == [i \in DOMAIN queue |-> queue[i].block]

\* Cached events are there at once.
Asked(blocks) ==
    [i \in DOMAIN blocks |->
        [block |-> blocks[i], answer |-> IF blocks[i] \in fetched THEN "there" ELSE "waits"]]

-------------------------------------------------------------------------------
(***************************************************************************)
(* watchBest. `s` holds its variables, and a consumer applies each report. *)
(***************************************************************************)
Stream ==
    [inners |-> inners, pending |-> pending, emitted |-> blocksEmitted,
     view |-> view, settled |-> settled]

\* A consumer drops the last block that it has.
Dropped(s, b) ==
    IF s.view # <<>> /\ Last(s.view) = b THEN [s EXCEPT !.view = Front(@)] ELSE s

\* An inner observable is over: unless it was cut, the events of its block are there.
Deliver(s, x, f) ==
    LET b   == x.block
        new == [s EXCEPT !.pending = @ \ {b}, !.view = Append(@, b)]
    IN  IF x.answer = "cut" \/ b \notin s.pending THEN s
        ELSE IF Level(f) < Level(b)
          THEN [new EXCEPT !.emitted = Append(@, b)]
          ELSE [new EXCEPT !.settled = @ \cup {b}]

Flush(s, f) ==
    FoldLeft(LAMBDA t, x : Deliver(t, x, f),
             [s EXCEPT !.inners = Behind(@)], Ready(s.inners))

Ask(s, blocks, f) ==
    Flush([s EXCEPT !.pending = @ \cup Range(blocks),
                    !.inners = @ \o Asked(blocks)], f)

Common(p, q) == Len(LongestCommonPrefix({p, q}))

\* Mutant: the blocks are dropped in the order in which they were emitted.
DivergeUpwards(s, prev, next, f) ==
    LET kept    == Common(s.emitted, Tail(next))
        drops   == SubSeq(s.emitted, kept + 1, Len(s.emitted))
        cleared == FoldLeft(Dropped, [s EXCEPT !.emitted = SubSeq(@, 1, kept),
                                      !.pending = @ \ Range(drops)], drops)
    IN  Ask(cleared, SubSeq(next, Common(prev, next) + 1, Len(next)), f)

\* bestBlocks$ has another best block on the same finalized one: what is not on
\* its way any more is dropped, the later blocks first, and the rest is asked for.
Diverge(s, prev, next, f) ==
    LET kept    == Common(s.emitted, Tail(next))
        drops   == Reverse(SubSeq(s.emitted, kept + 1, Len(s.emitted)))
        cleared == FoldLeft(Dropped,
                            [s EXCEPT !.emitted = SubSeq(@, 1, kept),
                                      !.pending = @ \ Range(drops)], drops)
    IN  Ask(cleared, SubSeq(next, Common(prev, next) + 1, Len(next)), f)

\* Where slice cuts a sequence: a negative index counts from its end.
SliceAt(seq, n) == IF n < 0 THEN Max({Len(seq) + n, 0}) ELSE Min({n, Len(seq)})

\* bestBlocks$ has another finalized block: as many blocks as that one is above
\* the first emitted one are finalized.
Settle(s, f) ==
    LET n == SliceAt(s.emitted, Level(f) - Level(s.emitted[1]) + 1)
    IN  IF s.emitted = <<>> THEN s
        ELSE [s EXCEPT !.settled = @ \cup Range(SubSeq(s.emitted, 1, n)),
                       !.emitted = SubSeq(@, n + 1, Len(@))]

\* isBestOrFinalizedBlock: what the pinned blocks say of b, where only the height
\* counts below the finalized block.
Standing(b, f, top) ==
    IF Level(b) > Level(top) THEN "none"
    ELSE IF Level(b) <= Level(f) THEN "finalized"
    ELSE IF Under(b, top) THEN "best" ELSE "none"

\* A block that is not canonical is not asked about any more.
Cut(s, f, top) ==
    Flush([s EXCEPT !.inners =
              [i \in DOMAIN @ |->
                  IF @[i].answer = "waits" /\ Standing(@[i].block, f, top) = "none"
                    THEN [@[i] EXCEPT !.answer = "cut"] ELSE @[i]]], f)

Becomes(s) ==
    /\ inners' = s.inners
    /\ pending' = s.pending
    /\ blocksEmitted' = s.emitted
    /\ view' = s.view
    /\ settled' = s.settled

\* An answer that is kept back goes on in its turn, wherever the best chain is:
\* only a block that was emitted is dropped.
Lagging(top) ==
    \E i \in DOMAIN inners :
        /\ inners[i].answer = "there" /\ inners[i].block \in pending
        /\ ~Under(inners[i].block, top)

-------------------------------------------------------------------------------
\* best$ and bestBlocks$. A best block that becomes one of its own ancestors is
\* compared with nothing, which throws.
BestTurns ==
    /\ ~failed /\ turns < MaxTurns
    /\ turns' = turns + 1
    /\ \E b \in Known \ {bestNow} :
        /\ Under(finalNow, b)
        /\ bestNow' = b
        /\ LET prev == Span(finalNow, bestNow)
               next == Span(finalNow, b)
               s    == Cut(Diverge(Stream, prev, next, finalNow), finalNow, b)
           IN  IF Under(b, bestNow)
                 THEN failed' = TRUE /\ UNCHANGED <<bestStream, late>>
                 ELSE Becomes(s) /\ late' = (late \/ Lagging(b)) /\ UNCHANGED failed
    /\ UNCHANGED <<finalNow, jumps, fetched, finalInners, watched>>

\* finalized$: each block from the one after the latest up to the new one; after a
\* recovery, from the first one that is pinned.
ChainHeadFinalized(last, f) == SubSeq(Trail[f], Level(last) + 2, Len(Trail[f]))

\* None of these is cut.
Watch(blocks) ==
    LET queue == finalInners \o Asked(blocks)
    IN  /\ watched' = watched \o BlocksOf(Ready(queue))
        /\ finalInners' = Behind(queue)

BlocksFinalize ==
    /\ ~failed
    /\ \E f \in Range(Span(finalNow, bestNow)) \ {finalNow} :
        /\ finalNow' = f
        /\ Becomes(Settle(Stream, f))
        /\ Watch(ChainHeadFinalized(finalNow, f))
    /\ UNCHANGED <<bestNow, turns, jumps, fetched, late, failed>>

\* After a recovery. A query for a block that is gone is turned away.
BothJump ==
    /\ ~failed /\ jumps < MaxJumps
    /\ jumps' = jumps + 1
    /\ \E f \in Known : \E b \in Known \ {bestNow} :
        /\ Under(finalNow, f) /\ f # finalNow /\ Under(f, b)
        /\ bestNow' = b /\ finalNow' = f
        /\ \E lost \in 0 .. Level(f) - Level(finalNow) - 1 :
               Watch(SubSeq(ChainHeadFinalized(finalNow, f), lost + 1,
                            Level(f) - Level(finalNow)))
        /\ failed' = \E i \in Waiting(inners) : ~Under(inners[i].block, b)
        /\ Becomes(Cut(Settle(Stream, f), f, b))
        /\ UNCHANGED late
    /\ UNCHANGED <<turns, fetched>>

Put(queue, b) ==
    [i \in DOMAIN queue |->
        IF queue[i].block = b /\ queue[i].answer = "waits"
          THEN [queue[i] EXCEPT !.answer = "there"] ELSE queue[i]]

\* The node sends the events of a block to those who share the query.
EventBlocksCome ==
    /\ ~failed
    /\ \E b \in {inners[i].block : i \in Waiting(inners)}
                \cup {finalInners[i].block : i \in Waiting(finalInners)} :
        LET queue == Put(finalInners, b)
            s     == Flush([Stream EXCEPT !.inners = Put(inners, b)], finalNow)
        IN  /\ fetched' = fetched \cup {b}
            /\ Becomes(s)
            /\ watched' = watched \o BlocksOf(Ready(queue))
            /\ finalInners' = Behind(queue)
    /\ UNCHANGED <<chainOfEvents, late, failed>>

\* Incompatible events.
EventsFail ==
    /\ ~failed /\ Waiting(inners) \cup Waiting(finalInners) # {}
    /\ failed' = TRUE
    /\ UNCHANGED <<chainOfEvents, fetched, bestStream, finalInners, watched, late>>

\* A consumer comes when the client has some best chain.
EventInit ==
    /\ finalNow \in Known
    /\ bestNow \in {b \in Known : Under(finalNow, b)}
    /\ turns = 0 /\ jumps = 0 /\ fetched = {}
    /\ pending = Range(Span(finalNow, bestNow))
    /\ inners = [i \in DOMAIN Span(finalNow, bestNow) |-> Waits(Span(finalNow, bestNow)[i])]
    /\ finalInners = <<Waits(finalNow)>>
    /\ blocksEmitted = <<>> /\ view = <<>> /\ settled = {} /\ watched = <<>>
    /\ late = FALSE /\ failed = FALSE

EventNext == BestTurns \/ BlocksFinalize \/ BothJump \/ EventBlocksCome \/ EventsFail

EventSpec == EventInit /\ [][EventNext]_eventVars

-------------------------------------------------------------------------------
\* What watchBest keeps of its reports is what its consumer has, but for the
\* finalized blocks, which come first.
ConsumerAgrees ==
    ~late /\ jumps = 0 =>
        LET first == Len(view) - Len(blocksEmitted)
        IN  /\ first >= 0 /\ view = SubSeq(view, 1, first) \o blocksEmitted
            /\ \A i \in DOMAIN view : view[i] \in settled <=> i <= first

IsTrail(path) == \A i \in 2 .. Len(path) : ParentIn[path[i]] = path[i - 1]

\* watchBest drops all the blocks that dropped from the best chain.
DroppedBlocksAreDropped ==
    ~failed /\ jumps = 0 => Range(view) \subseteq Range(Trail[bestNow])

\* The consumer has a path of the chain, its finalized blocks are finalized, and
\* what it still lacks of the best chain is on its way, whatever the order of the
\* answers and however often the best chain changes.
ViewIsBestChain ==
    ~late /\ jumps = 0 =>
        /\ IsTrail(view)
        /\ DroppedBlocksAreDropped
        /\ settled \subseteq Range(Trail[finalNow])
        /\ \A b \in Range(view) : Level(b) <= Level(finalNow) => b \in settled
        /\ ~failed /\ Waiting(inners) = {} => view # <<>> /\ Last(view) = bestNow

\* watch reports every finalized block, in order, once; a recovery may skip some.
FinalsAreInOrder ==
    /\ \A i \in 2 .. Len(watched) :
            /\ watched[i] # watched[i - 1] /\ Under(watched[i - 1], watched[i])
            /\ jumps = 0 => ParentIn[watched[i]] = watched[i - 1]
    /\ Range(watched) \subseteq Range(Trail[finalNow])
    /\ finalInners = <<>> => Last(watched) = finalNow

EventsAreRight == EventTypeOK /\ ConsumerAgrees /\ ViewIsBestChain /\ FinalsAreInOrder

===============================================================================
