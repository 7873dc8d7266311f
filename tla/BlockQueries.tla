------------------------------ MODULE BlockQueries ------------------------------
(***************************************************************************)
(* What the client asks of a block: one storage value (getValue, through   *)
(* storage$) or several (getValues, through storageQueries$), at a block   *)
(* of its choice or at the best or finalized one. The observables recover  *)
(* when the subscription stops, ask again for what the node refused,       *)
(* discarded or could not reach, share one operation for one value of one  *)
(* block, and turn to the archive for a block that is not pinned. The      *)
(* pinned blocks are those of PinnedBlocks, the queue of refused           *)
(* operations that of OperationQueue, both only as far as seen from here.  *)
(***************************************************************************)
EXTENDS Integers, Sequences, FiniteSets

CONSTANTS Consumer,   \* calls of the typed API
          Above,      \* Above[b] is the parent of block b, block 0 the first one
          Present,    \* Present[b] are the keys that have a value at block b
          NKeys,      \* getValues asks for 1 .. NKeys, getValue for 1
          Wanted,     \* Wanted[c]: what [kind, at] consumer c may ask for
          Watched,    \* somebody keeps best$ and finalized$ subscribed: they replay
          MaxFaults   \* bound: stops, refusals and failures of the node

Blocks  == 0 .. Len(Above)
Nowhere == -1
Up(b)   == IF b = 0 THEN Nowhere ELSE Above[b]
Rank[b \in Blocks] == IF b = 0 THEN 0 ELSE Rank[Up(b)] + 1
Roots[b \in Blocks] == {b} \cup IF b = 0 THEN {} ELSE Roots[Up(b)]

ASSUME QueryAssumption ==
    /\ Above \in Seq(Nat) /\ Above # <<>>
    /\ \A b \in 1 .. Len(Above) : Above[b] \in 0 .. b - 1
    /\ NKeys \in Nat \ {0} /\ Present \in [Blocks -> SUBSET (1 .. NKeys)]
    /\ Watched \in BOOLEAN

VARIABLES
    pins,      \* pinnedBlocks$.state: [ready, initialized, blocks, recovering, finalized, best]
    shown,     \* what best$ and finalized$ emitted last
    asks,      \* what each consumer asked: [kind, at, phase, on, of, results, mixed]
    streams,   \* the observables of _storage$ and recoveralStorage$, by who created them
    cache,     \* of upsertCachedStream: block -> None, a stream, or Stored
    toRelease, \* blocks with holds that a setTimeout will release
    faults,    \* stops, refusals and failures so far
    wasReset   \* history: the blocks were dropped between two subscriptions

queryVars == <<pins, shown, asks, streams, cache, toRelease, wasReset, faults>>

None   == "none"
Stored == "stored"

\* What may be asked for instead of a block.
AtBest      == -2
AtFinalized == -3
Dynamic     == {AtBest, AtFinalized}

ASSUME WantedAssumption ==
    /\ {None, Stored} \cap Consumer = {}
    /\ \A c \in Consumer : Wanted[c] \subseteq [kind : {"value", "values"},
                                               at   : Blocks \cup Dynamic]

Errors  == {"notPinned", "inaccessible"}
Working == {"waits", "queued", "asked", "runs"}
Settled == {"done", "failed", "left"}

NoAsk == [kind |-> "value", at |-> Nowhere, phase |-> "idle", on |-> Nowhere, of |-> Nowhere,
          results |-> [k \in 1 .. NKeys |-> Nowhere], mixed |-> FALSE]

NoStream == [st |-> "off", block |-> Nowhere, all |-> <<>>, seen |-> FALSE,
             keys |-> <<>>, rest |-> <<>>, due |-> {}, got |-> {}, to |-> {}]

KeysOf(kind) == IF kind = "value" THEN <<1>> ELSE [k \in 1 .. NKeys |-> k]
AsSet(keys)  == {keys[i] : i \in DOMAIN keys}

\* Who unsubscribed, and hears it of its stream in a microtask (delayUnsubscription).
Leaving == {c \in Consumer : asks[c].phase = "left" /\ \E s \in Consumer : c \in streams[s].to}
Quiet   == Leaving = {}

InUse(b) == \E c \in Consumer : asks[c].on = b

QueryInit ==
    /\ pins = [ready |-> TRUE, initialized |-> TRUE, blocks |-> Blocks, recovering |-> {},
               finalized |-> 0, best |-> 1]
    /\ shown = [best |-> 1, finalized |-> 0]
    /\ asks = [c \in Consumer |-> NoAsk]
    /\ streams = [s \in Consumer |-> NoStream]
    /\ cache = [b \in Blocks |-> None]
    /\ toRelease = {}
    /\ wasReset = FALSE
    /\ faults = 0

-------------------------------------------------------------------------------
(***************************************************************************)
(* Streams                                                                 *)
(***************************************************************************)
\* A storage operation for `keys`; what it discards is asked for when it is done.
Request(x, keys) ==
    [x EXCEPT !.st = "asked", !.seen = TRUE, !.keys = keys, !.rest = <<>>, !.due = {}]

\* Mutation: it gives up as soon as the block is missing.
OnPinnedHasty(p, x) ==
    CASE x.st = "off"                                 -> x
      [] x.st # "off" /\ ~p.ready                     -> [x EXCEPT !.st = "waits"]
      [] p.ready /\ x.st \in Working \ {"waits"}      -> x
      [] p.ready /\ x.st = "waits" /\ x.block \in p.blocks -> Request(x, x.all)
      [] OTHER -> [x EXCEPT !.st = "notPinned"]

\* withStopRecovery: the operation is dropped when the subscription stops. Once
\* there is another one, it waits for the block, as long as that may come.
OnPinned(p, x) ==
    CASE x.st = "off"                                 -> x
      [] x.st # "off" /\ ~p.ready                     -> [x EXCEPT !.st = "waits"]
      [] p.ready /\ x.st \in Working \ {"waits"}      -> x
      [] p.ready /\ x.st = "waits" /\ x.block \in p.blocks -> Request(x, x.all)
      [] OTHER ->
           IF x.seen /\ Rank[p.finalized] < Rank[x.block] THEN x
           ELSE [x EXCEPT !.st = "notPinned"]

\* withOptionalHash$, withOperationInaccessibleRetry and withArchive: a consumer that
\* named its block holds it while it waits 750 ms, and tries the archive if it is gone;
\* the others take the block that is best or finalized by then.
AfterError(a, why) ==
    CASE why = "inaccessible" /\ a.at \in Blocks -> [a EXCEPT !.phase = "retrying"]
      [] why = "inaccessible" /\ a.at \in Dynamic ->
             [a EXCEPT !.phase = "retrying", !.on = Nowhere]
      [] why = "notPinned" /\ a.at \in Blocks  -> [a EXCEPT !.phase = "archive", !.on = Nowhere]
      [] why = "notPinned" /\ a.at \in Dynamic -> [a EXCEPT !.phase = "resolving", !.on = Nowhere]

\* Errors of streams reach those who listen; share() lets others subscribe anew.
\* `kept` is the cache without the blocks that were deleted.
Publish(ss, kept) ==
    LET failed == {s \in Consumer : ss[s].st \in Errors}
        after  == [c \in Consumer |->
                     IF asks[c].phase = "asking" /\ \E s \in failed : c \in ss[s].to
                       THEN AfterError(asks[c], ss[CHOOSE s \in failed : c \in ss[s].to].st)
                       ELSE asks[c]]
    IN  /\ streams' = [s \in Consumer |-> IF s \in failed THEN NoStream ELSE ss[s]]
        /\ asks' = after
        /\ cache' = [b \in Blocks |-> IF kept[b] \in failed THEN None ELSE kept[b]]
        /\ toRelease' = toRelease \cup
             {asks[c].on : c \in {d \in Consumer : after[d].on # asks[d].on}}

\* pinnedBlocks$ emits p, from which the blocks `deleted` are missing.
Emit(p, deleted) ==
    /\ pins' = p
    /\ shown' = IF p.ready THEN [best |-> p.best, finalized |-> p.finalized] ELSE shown
    /\ Publish([s \in Consumer |-> OnPinned(p, streams[s])],
               [b \in Blocks |-> IF b \in deleted THEN None ELSE cache[b]])

-------------------------------------------------------------------------------
(***************************************************************************)
(* The consumers                                                           *)
(***************************************************************************)
\* The call waits for the promise of the compatibility first.
AskFor(c, want) ==
    /\ asks[c].phase = "idle"
    /\ asks' = [asks EXCEPT ![c] = [@ EXCEPT !.kind = want.kind, !.at = want.at,
                                            !.phase = "resolving"]]
    /\ UNCHANGED <<pins, shown, streams, cache, toRelease, wasReset, faults>>

Answer(a, b, keys) ==
    [a EXCEPT !.phase = "done", !.on = Nowhere, !.of = b,
              !.results = [k \in 1 .. NKeys |-> IF k \in keys THEN b ELSE @[k]]]

\* withInMemory, usingBlock, and upsertCachedStream for a single value.
Query(c, b) ==
    LET a == [asks[c] EXCEPT !.phase = "asking", !.on = b,
                 !.mixed = @ \/ \E k \in 1 .. NKeys : asks[c].results[k] \notin {Nowhere, b}]
        shared == a.kind = "value"
    IN  IF shared /\ cache[b] = Stored
          THEN /\ asks' = [asks EXCEPT ![c] = Answer(a, b, Present[b] \cap {1})]
               /\ toRelease' = toRelease \cup {b}
               /\ UNCHANGED <<streams, cache>>
          ELSE /\ asks' = [asks EXCEPT ![c] = a]
               /\ IF shared /\ cache[b] # None
                    THEN /\ streams' = [streams EXCEPT ![cache[b]].to = @ \cup {c}]
                         /\ UNCHANGED cache
                    ELSE /\ streams' = [streams EXCEPT ![c] = OnPinned(pins,
                               [NoStream EXCEPT !.st = "waits", !.block = b, !.to = {c},
                                                !.all = KeysOf(a.kind)])]
                         /\ cache' = IF shared THEN [cache EXCEPT ![b] = c] ELSE cache
               /\ UNCHANGED toRelease

\* The block of a dynamic query is what best$ or finalized$ has to replay, if that is
\* no longer among the blocks until the stack is full; without anything to replay it
\* is what comes next.
Resolve(c) ==
    /\ asks[c].phase = "resolving"
    /\ asks[c].at \in Dynamic => Watched \/ pins.ready
    /\ LET b == CASE asks[c].at = AtBest      -> shown.best
                  [] asks[c].at = AtFinalized -> shown.finalized
                  [] OTHER                    -> asks[c].at
       IN  CASE b \in pins.blocks -> Query(c, b)
             [] b \notin pins.blocks /\ asks[c].at \in Dynamic ->
                  /\ asks' = [asks EXCEPT ![c].phase = "failed"]
                  /\ UNCHANGED <<streams, cache, toRelease>>
             [] OTHER ->
                  /\ asks' = [asks EXCEPT ![c] = AfterError(@, "notPinned")]
                  /\ UNCHANGED <<streams, cache, toRelease>>
    /\ UNCHANGED <<pins, shown, wasReset, faults>>

\* withOperationInaccessibleRetry, after 750 ms.
RetryAfter(c) ==
    /\ Quiet /\ asks[c].phase = "retrying"
    /\ asks' = [asks EXCEPT ![c].phase = "resolving"]
    /\ UNCHANGED <<pins, shown, streams, cache, toRelease, wasReset, faults>>

ArchiveAnswers(c) ==
    /\ Quiet /\ asks[c].phase = "archive"
    /\ \/ asks' = [asks EXCEPT ![c] = Answer(@, @.at, Present[@.at] \cap AsSet(KeysOf(@.kind)))]
       \/ asks' = [asks EXCEPT ![c].phase = "failed"]
    /\ UNCHANGED <<pins, shown, streams, cache, toRelease, wasReset, faults>>

\* Nothing tells the node that the storageSubscription of a getValues is not wanted.
Leave(c) ==
    /\ asks[c].phase \in {"resolving", "asking", "retrying", "archive"}
    /\ asks' = [asks EXCEPT ![c].phase = "left", ![c].on = Nowhere]
    /\ toRelease' = IF asks[c].on = Nowhere THEN toRelease
                    ELSE toRelease \cup {asks[c].on}
    /\ streams' = [s \in Consumer |->
          IF s = c /\ asks[c].kind = "values" THEN NoStream ELSE streams[s]]
    /\ UNCHANGED <<pins, shown, cache, wasReset, faults>>

\* delayUnsubscription, share: the last one to leave ends the operation.
Microtask(c) ==
    \E s \in Consumer :
       /\ asks[c].phase = "left" /\ c \in streams[s].to
       /\ IF streams[s].to = {c}
            THEN /\ streams' = [streams EXCEPT ![s] = NoStream]
                 /\ cache' = [b \in Blocks |-> IF cache[b] = s THEN None ELSE cache[b]]
            ELSE /\ streams' = [streams EXCEPT ![s].to = @ \ {c}]
                 /\ UNCHANGED cache
       /\ UNCHANGED <<pins, shown, asks, toRelease, wasReset, faults>>

-------------------------------------------------------------------------------
(***************************************************************************)
(* Operations of the node                                                  *)
(***************************************************************************)
Fault == /\ faults + Cardinality({c \in Consumer : asks[c].phase # "idle"}) <= MaxFaults
         /\ faults' = faults + 1

\* limitReached, or all items discarded: OperationLimitError.
Refuses(s) ==
    /\ Quiet /\ streams[s].st = "asked" /\ Fault
    /\ streams' = [streams EXCEPT ![s].st = "queued"]
    /\ UNCHANGED <<pins, shown, asks, cache, toRelease, wasReset>>

SlotFrees(s) ==
    /\ Quiet /\ streams[s].st = "queued"
    /\ streams' = [streams EXCEPT ![s].st = "asked"]
    /\ UNCHANGED <<pins, shown, asks, cache, toRelease, wasReset, faults>>

\* Mutation: slice(0, nDiscarded).
DiscardedFirst(keys, n) == SubSeq(keys, 1, n)

\* The items the node discards are the last ones of the request.
Taken(keys, n)     == SubSeq(keys, 1, Len(keys) - n)
Discarded(keys, n) == SubSeq(keys, Len(keys) - n + 1, Len(keys))

Starts(s) ==
    /\ Quiet /\ streams[s].st = "asked"
    /\ LET x == streams[s]
       IN  \E n \in 0 .. Len(x.keys) - 1 :
              streams' = [streams EXCEPT ![s] = [@ EXCEPT !.st = "runs",
                             !.rest = Discarded(x.keys, n),
                             !.due = AsSet(Taken(x.keys, n)) \cap Present[x.block]]]
    /\ UNCHANGED <<pins, shown, asks, cache, toRelease, wasReset, faults>>

\* operationStorageItems: getValues takes what comes, getValue waits for the end.
Items(s, k) ==
    /\ Quiet /\ streams[s].st = "runs" /\ k \in streams[s].due
    /\ streams' = [streams EXCEPT ![s].due = @ \ {k}, ![s].got = @ \cup {k}]
    /\ asks' = IF asks[s].kind = "values" /\ asks[s].phase = "asking"
                 THEN [asks EXCEPT ![s].results[k] = streams[s].block] ELSE asks
    /\ UNCHANGED <<pins, shown, cache, toRelease, wasReset, faults>>

\* operationStorageDone: what was discarded is asked for now. Otherwise the stream
\* completes; a shared one leaves its value in the cache, unless the block was deleted.
Done(s) ==
    /\ Quiet /\ streams[s].st = "runs" /\ streams[s].due = {}
    /\ LET x  == streams[s]
           to == {c \in x.to : asks[c].phase = "asking"}
       IN  IF x.rest # <<>>
             THEN /\ streams' = [streams EXCEPT ![s] = Request(@, x.rest)]
                  /\ UNCHANGED <<asks, cache, toRelease>>
             ELSE /\ streams' = [streams EXCEPT ![s] = NoStream]
                  /\ asks' = [c \in Consumer |->
                       IF c \in to THEN Answer(asks[c], x.block, x.got) ELSE asks[c]]
                  /\ cache' = [b \in Blocks |-> IF cache[b] = s THEN Stored ELSE cache[b]]
                  /\ toRelease' = IF to = {} THEN toRelease ELSE toRelease \cup {x.block}
    /\ UNCHANGED <<pins, shown, wasReset, faults>>

\* operationInaccessible
Inaccessible(s) ==
    /\ Quiet /\ streams[s].st = "runs" /\ Fault
    /\ Publish([streams EXCEPT ![s].st = "inaccessible"], cache)
    /\ UNCHANGED <<pins, shown, wasReset>>

-------------------------------------------------------------------------------
(***************************************************************************)
(* The subscription, as far as queries depend on it                        *)
(***************************************************************************)
There == pins.blocks \ pins.recovering

Announce(b) ==
    /\ Quiet /\ pins.initialized /\ b \notin There
    /\ Up(b) \in There /\ pins.finalized \in Roots[b]
    /\ Emit([pins EXCEPT !.blocks = @ \cup {b}, !.recovering = @ \ {b}], {})
    /\ UNCHANGED <<wasReset, faults>>

\* The first best block of a subscription makes the blocks ready: those of the one
\* before that were not seen again are deleted, held or not.
BestBlock(b) ==
    /\ Quiet /\ pins.initialized /\ b \in There /\ pins.finalized \in Roots[b]
    /\ ~pins.ready \/ b > pins.best
    /\ Emit([pins EXCEPT !.best = b, !.ready = TRUE, !.blocks = There, !.recovering = {}],
            pins.recovering)
    /\ UNCHANGED <<wasReset, faults>>

FinalizeBlock(b) ==
    /\ Quiet /\ pins.ready /\ b \in There \ {0} /\ Up(b) = pins.finalized
    /\ Emit([pins EXCEPT !.finalized = b, !.best = IF b \in Roots[@] THEN @ ELSE b], {})
    /\ UNCHANGED <<wasReset, faults>>

\* tryToUnpin: what is below the finalized block or pruned, and not held.
Unpinned(b) ==
    b \in pins.blocks \ pins.recovering /\ pins.finalized \notin Roots[b]

\* The timer of cleanup$, after the finalized block moved.
CleanUpBlocks ==
    /\ Quiet /\ pins.ready
    /\ LET gone == {b \in Blocks : Unpinned(b) /\ ~InUse(b) /\ b \notin toRelease}
       IN  gone # {} /\ Emit([pins EXCEPT !.blocks = @ \ gone], gone)
    /\ UNCHANGED <<wasReset, faults>>

\* usingBlock: the setTimeouts after the subscriptions to a block ended.
ReleaseBlock(b) ==
    /\ Quiet /\ b \in toRelease
    /\ LET gone == IF Unpinned(b) /\ ~InUse(b) THEN {b} ELSE {}
       IN  /\ pins' = [pins EXCEPT !.blocks = @ \ gone]
           /\ cache' = [x \in Blocks |-> IF x \in gone THEN None ELSE cache[x]]
           /\ toRelease' = toRelease \ {b}
    /\ UNCHANGED <<shown, asks, streams, wasReset, faults>>

\* A stop, or a failure upon which getFollow$ follows again: stop-error.
StopFollow ==
    /\ Quiet /\ pins.initialized /\ Fault
    /\ IF pins.ready
         THEN /\ Emit([pins EXCEPT !.ready = FALSE, !.initialized = FALSE,
                                   !.recovering = pins.blocks], {})
              /\ UNCHANGED wasReset
         ELSE /\ Emit([pins EXCEPT !.initialized = FALSE, !.blocks = {}, !.recovering = {}],
                      pins.blocks)
              /\ wasReset' = TRUE

\* The new subscription begins at a block that was finalized meanwhile.
FollowAgain(b) ==
    /\ Quiet /\ ~pins.initialized /\ pins.finalized \in Roots[b]
    /\ LET known == b \in pins.blocks
       IN  /\ Emit([pins EXCEPT !.initialized = TRUE, !.finalized = b,
                      !.blocks = IF known THEN @ ELSE {b},
                      !.recovering = IF known THEN @ \ {b} ELSE {}],
                   IF known THEN {} ELSE pins.blocks)
           /\ wasReset' = (wasReset \/ ~known)
    /\ UNCHANGED faults

-------------------------------------------------------------------------------
\* Bound: the chain goes on, and stops, only while somebody waits for an answer.
Busy == \E c \in Consumer : asks[c].phase \notin Settled \cup {"idle"}

QueryNext ==
    \/ \E c \in Consumer :
          \/ \E want \in Wanted[c] : AskFor(c, want)
          \/ Resolve(c) \/ RetryAfter(c) \/ ArchiveAnswers(c) \/ Leave(c) \/ Microtask(c)
          \/ Refuses(c) \/ SlotFrees(c) \/ Starts(c) \/ Done(c) \/ Inaccessible(c)
          \/ \E k \in 1 .. NKeys : Items(c, k)
    \/ \E b \in Blocks : ReleaseBlock(b)
    \/ Busy /\ \/ \E b \in Blocks : Announce(b) \/ BestBlock(b) \/ FinalizeBlock(b) \/ FollowAgain(b)
                \/ CleanUpBlocks \/ StopFollow


\* What the timers, the microtasks, the node and the chain owe to those who wait: not
\* each of them is fair, only that some of it happens.
Owed ==
    Busy /\ \/ \E c \in Consumer :
                 \/ Resolve(c) \/ RetryAfter(c) \/ ArchiveAnswers(c) \/ Microtask(c)
                 \/ SlotFrees(c) \/ Starts(c) \/ Done(c) \/ \E k \in 1 .. NKeys : Items(c, k)
            \/ \E b \in Blocks : Announce(b) \/ FinalizeBlock(b) \/ FollowAgain(b)
            \/ ~pins.ready /\ \E b \in Blocks : BestBlock(b)

QueryFairness == WF_queryVars(Owed)

QuerySpec == QueryInit /\ [][QueryNext]_queryVars /\ QueryFairness

-------------------------------------------------------------------------------
(***************************************************************************)
(* Properties                                                              *)
(***************************************************************************)
\* A call answers with what one block has for each of its keys, and with nothing for
\* a key that block does not have: the block that was asked for, if one was. A call
\* of getValues whose best or finalized block changed after items had come is
\* excepted: what the new block does not overwrite stays.
AnswersAreRight ==
    \A c \in Consumer :
       LET a == asks[c]
       IN  a.phase = "done" =>
             /\ a.at \in Blocks => a.of = a.at
             /\ a.mixed \/ \A k \in AsSet(KeysOf(a.kind)) :
                   a.results[k] = IF k \in Present[a.of] THEN a.of ELSE Nowhere

\* Whoever waits for a stream listens to one, and it works on the block it holds.
AskersAreServed ==
    \A c \in Consumer : asks[c].phase = "asking" =>
       \E s \in Consumer :
          /\ c \in streams[s].to /\ streams[s].st \in Working
          /\ streams[s].block = asks[c].on

\* An operation runs for somebody, on a block that is pinned: neither the microtask of
\* delayUnsubscription nor the timer of usingBlock comes too late or too early.
OperationsAreOnPinned ==
    \A s \in Consumer : streams[s].st \in {"asked", "runs"} =>
       streams[s].to # {} /\ streams[s].block \in pins.blocks

\* A call for the best or finalized block does not fail for want of a block, except
\* that blocks which were dropped leave best$ and finalized$ with one that is gone.
DynamicFindsABlock ==
    \A c \in Consumer :
       asks[c].at \in Dynamic /\ asks[c].phase = "failed" => wasReset

QueriesAreRight ==
    AnswersAreRight /\ AskersAreServed /\ OperationsAreOnPinned /\ DynamicFindsABlock

\* A query is turned away from its block only when that is gone for good: the
\* subscription is ready without it and, if the block had been there before, finality
\* has come to its height.
TurnsAwayRightly ==
    \A c \in Consumer :
       asks[c].phase = "asking" /\ asks'[c].phase \in {"archive", "resolving"} =>
          /\ pins'.ready /\ asks[c].on \notin pins'.blocks
          /\ (\E s \in Consumer : c \in streams[s].to /\ streams[s].seen) =>
                Rank[pins'.finalized] >= Rank[asks[c].on]

TurnedAwayRightly == [][TurnsAwayRightly]_queryVars

\* Every call ends, however often the node stops, refuses, discards or fails.
QueriesEnd == Busy ~> ~Busy

QueriesComeThrough == TurnedAwayRightly /\ QueriesEnd
===============================================================================
