# polkadot-api: models, checks and proofs

TLA+ models of the stateful core of polkadot-api and of those of its pure
algorithms that are hard to get right, the TLC runs that check them on small
instances, and proofs, checked by TLAPS, of what holds for every instance. Paths
below are relative to the repository.

The program is a TypeScript library with no threads. What makes it hard is that
every message, timer, promise and observer is a callback in which anybody may
call anything: a subscriber unsubscribes while an event is being delivered, a
consumer disconnects while a halt is being reported, an answer arrives for
something that was given up. Underneath, connections come and go, and the server
stops subscriptions whenever it likes.

## The system

A client is a tower. Each layer calls the one below and is called back by it.

| component | state it keeps | operations |
|---|---|---|
| `client` (`packages/client`) | the typed API; the entries watched, the events kept back, the progress of a transaction, the tips shown to creators of transactions | `submit$`, `watchEntries`, `watchBest`, `getValue(s)` |
| `observable-client` (`packages/observable-client`) | pinned blocks, best and finalized, runtimes, holds of blocks, shared storage operations, the queue of refused operations | the reducer of `getPinnedBlocks$`, `getFollow$`, `getWithRecovery`, `storage$`, `trackTx` |
| `substrate-client` (`packages/substrate-client`) | one follow subscription, its operations and their listeners | `chainHead()`, `createOperationPromise`, `unfollow` |
| `raw-client` (`packages/raw-client`) | pending responses by id, subscribers by token | `request`, `onMessage` |
| `json-rpc-provider-proxy` (`packages/json-rpc/json-rpc-provider-proxy`) | state of the link, pending and ongoing requests, subscriptions, broadcasts | `send`, `disconnect`, `connect`, `onHalt`; timers of `getSyncProvider` |
| `ws-middleware` (`packages/json-rpc/ws-middleware`) | blocks, best blocks and notifications held back for their order, a made-up best block; for nodes of the old API a tree of blocks with pins, and operations made of old requests | one enhancer for each fault of a node |
| `ws-provider` (`packages/json-rpc/ws-provider`) | sockets with listeners and timers, the endpoint, the status | start, halt, `switch`, `getStatus` |
| `signers`, `tx-utils` | a nonce under way, the cache and the transport of a device | enhancers, creators, `sign` |
| `metadata-builders`, `metadata-compatibility`, `merkleize-metadata` | caches of what was compared and hashed | checksums, compatibility levels, digest and proofs |
| `sm-provider`, `logs-provider` | smoldot's queue; logs | start, halt |
| codecs, code generation, CLI | none between calls | pure functions |

How they interact: a request of `substrate-client` goes through `raw-client`,
which gives it an id, to the proxy, which keeps it until it is answered and
sends it again on the next connection; the answer comes back through the same
callbacks, and on a websocket through the middleware. A follow subscription that
is lost is reported as a `stop` event by the proxy, upon which `substrate-client`
rejects its operations and `getFollow$` follows again, with a `stop-error` event
that tells `getPinnedBlocks$` to compare the next subscription with what it
knows. Queries, watched entries, events and transactions are observables over the
pinned blocks; each of them recovers from a stop by itself.

Hard behaviours, and what makes each component correct:

- *Proxy.* A halt while requests, subscriptions and broadcasts are in flight, or
  inside `connect`; calls from inside the callbacks of the two loops of `onHalt`.
  Every request is answered once; subscriptions are neither leaked nor left
  without a stop event; broadcasts survive; nothing is delivered after
  `disconnect`.
- *Sync provider.* Three ways of being under way (two timers, one attempt),
  halts reported several times. There is always exactly one of them, or a
  connection.
- *Sockets.* A status callback that disconnects or switches inside the code that
  reports; a heartbeat that fires for a socket which does not say that it closed.
  One socket is in use, the status is about it, and messages keep their order.
- *Middleware.* Blocks announced before their parent, best blocks before their
  announcement, notifications before their operation, stops before their follow;
  a node of the old API, whose heads and finalized heads know nothing of each
  other. What the client hears is complete, in order, and ends with the
  subscription.
- *Follow.* Subscriptions given up before the server answered; stops, refusals
  and failed inner requests in any order, each with a retry of its own. One
  subscription at a time; none leaks; operations of a lost one are rejected; the
  client recovers; nothing is followed after `unfollow`.
- *Pinned blocks.* A new subscription may be ahead of, behind, or disjoint from
  the previous one. Client and server agree on the pins; no pin is forgotten or
  given back while used; runtimes are counted right; `bestBlocks$` and
  `newBlocks$` are continuous.
- *Operation queue.* Refusals, ends and unsubscriptions racing with each other.
  A waiting task is woken; no operation of the server is forgotten.
- *Queries.* Stops, refused and discarded items, unreachable blocks, one operation
  shared by several consumers of whom each may leave, a best block that changes
  meanwhile. Each answer is of one block; a query is turned away from its block
  only if that is gone; it ends.
- *Transactions.* Forks, an inclusion in several branches, a validity that changes
  from branch to branch; answers that come out of order; a nonce asked for at
  several tips; signatories who approve at the same time. The user hears what the
  chain decided, and the chain accepts what was signed.
- *Types.* Graphs with cycles walked with a cache and with assumptions. A level,
  a checksum or a proof depends on the types and on nothing that was asked before.

## Modules

| module | models | extends or instantiates |
|---|---|---|
| `JsonRpcSession` | what a JSON-RPC consumer is promised (abstract) | |
| `JsonRpcProxy` | `get-proxy.ts` | `JsonRpcSession` (refinement) |
| `SyncProvider` | `get-sync-provider.ts`, driving the proxy | `JsonRpcProxy` |
| `WsSocket` | `ws-provider`: `with-socket.ts`, `provider.ts`, `get-async-provider.ts` | |
| `BlockOrder` | `ws-middleware`, modern nodes: `fix-premature-blocks`, `fix-unordered-blocks`, `fix-missing-initial-best` | |
| `FollowFixes` | the same: `fix-unordered-events`, `fix-follow` | |
| `LegacyBlocks` | `ws-middleware`, old nodes: the tree of blocks and its followers | |
| `LegacyRequests` | the same: operations, archive, broadcasts | |
| `ChainHeadFollow` | `getFollow$` (`follow.ts`) over `getChainHead` (`chainhead.ts`) and a server | |
| `OperationQueue` | `operationLimitRecovery.ts` over `operation-promise.ts` and a server | |
| `PinnedBlocks` | `pinned-blocks.ts`, with `holdBlock` and a server | |
| `BlockQueries` | `storage$`, `storageQueries$`, `withStopRecovery`, the fallback to the archive, `getValue` and `getValues` | |
| `TrackTx` | `submit-fns.ts` over `track-tx.ts` | |
| `WatchEntries` | `watch-entries.ts` | |
| `EventStreams` | `event.ts` over `concatMapEager` | |
| `TxExtensions` | `signers-common`, the creators for v4, v5, Ledger and injected wallets, `tx-utils` | |
| `ChainTips` | the tips of `client.ts`, `withNonce` | |
| `MultisigCalls` | `meta-signers` | |
| `LedgerDevice` | `ledger-signer.ts` | |
| `StaticCompat` | `isStaticCompatible`, `isCompatible` | |
| `TypeChecksums` | `checksum-builder.ts` | |
| `MetadataProof` | `merkleize-metadata` | |
| `*Proofs` | the proofs about the module they are named after; `JsonRpcProxyProofs` also those about `SyncProvider` and `LegacyRequests`, `ChainHeadFollowProofs` about `OperationQueue`, `BlockQueriesProofs` about `EventStreams`, `MiddlewareProofs` about `FollowFixes`, `BlockOrder` and `LegacyBlocks`, `TransactionsProofs` about `LedgerDevice`, `MultisigCalls`, `TrackTx`, `ChainTips`, `WatchEntries` and `TxExtensions` | those modules |
| `SequenceLemmas` | what the proofs need of sequences, numbers, recursion, folds and flattening | |
| `MC*` | instances for TLC | the modules below |

An MC module that extends several components is the sum of them: each behaviour is
about one component and leaves the variables of the others as they began, so
that one run asks one kind of question of several parts. `MCJsonRpcProxy` is about
the proxy or about the requests of an old node, `MCChainHeadFollow` about the
subscription or, once that was given up before anything happened, about the
queue, `MCBlockQueries` about the pinned blocks or queries of them,
`MCMiddleware` (variable `fault`), `MCTransactions` (`topic`) and `MCTypes` about
one of their parts. `MCPinnedBlocks`, `MCSyncProvider` and `MCWsSocket` are
about one module each.

Definitions named *Mutant* or *Mutation* in a comment belong to no specification:
each is the bug that one property is there to catch, in place of the definition
below it, and the property fails with it.

### JsonRpcProxy

Variables have the names of the source (`state`, `pending`, `onGoingRequests`,
`activeChainHeads`, ...). The server at the other end is `upstream` (what it
received), `serverSubs`, `serverTxs` and `txStops`. A step of the server and the
delivery of its message are one action; a message in flight when a link breaks is
one that was not sent.

The loops `onHalt: activeChainHeads.forEach`, `onHalt: onGoingRequests` and
`connect: pending.forEach(send)` are broken up into steps (`DeliverStop`,
`Settle`, `Flush`; what is left is `toStop`, `toSettle`, `toFlush`), because each
calls the consumer or the inner provider: any call of the consumer, and a halt,
may come between two of them. The loop over `activeBroadcasts` sends only, and
a halt inside it has the same outcome as one after it. Requests are sets: their
order is not modelled, since each has its own id and none depends on another
but an unfollow on its follow, which it can only name after it was answered.
Operations that a halt catches are answered with an error, which is counted as an
answer, as everything else that reaches `onMsg`.

`LateHalts` says whether the inner provider may report a halt after the consumer
disconnected. It may in the code: `ws-provider` calls `onStatusChanged`, in which
an application may disconnect, before `onHalt`.

### SyncProvider

`start()`, `startNow()`, the call of `input` and its results are actions, as are
the report of a halt (`InnerHalt`, any number of times) and the `start()` that
follows `onHalt(e)`. `stop` is what the variable of that name would cancel.
`inCallback` says that the consumer was just handed a message, so that it may
call although the loop that handed it is not over.

### ChainHeadFollow

Each call of `chainHead()` is a number. `sub[i]` is its `followSubscription`: the
promise is `"waiting"`, the string `"active"`, null `"null"`; `abandoned` are
those for which `followSubscription.then(unfollow)` is pending. `follower`,
`token` and the two kinds of 250 ms timers belong to `getFollow$`; all timers
wait the same time, so they fire in the order they were armed, and `token` is the
last one armed. `phase` is what the enhancer does with the `initialized` event:
`"inner"` while its requests run, `"broken"` if two of them reach the reducer
without a stop in between, where `pinned-blocks.ts` throws.

Left out: errors of the subscription itself (`onAllFollowEventsError`), answers
that come synchronously (`bufferMessages`), and the requests that other events
trigger. Promises resolve before the next message. `crossed` is a history
variable: a follower that `reset` had given up was refused afterwards.

### OperationQueue

`status` follows a task from `withRecovery` to its end; `pendingTasks` is the
linked list as a sequence; a task left by its subscriber before its response came
is in `aborted`. Both directions of the connection are queues, so that a
`stopOperation` and a `started`, or a `limitReached` and a `done`, cross.

### PinnedBlocks

The reducer is one operator from `acc` to `acc` for each event, with the helpers
of the source (`DeleteBlocks`, `ResetState`, `SetToReady`, `TryToUnpin`). `acc`
is a record with the fields of `PinnedBlocks`; a handler that would read a
property of undefined moves to the phase `"Failed"`. The server reports blocks of
a fixed tree (`Parent`, `Height`, `Code`) in any order that `chainHead_v1` allows:
a new block after its parent, best blocks above the finalized one, and after a
stop an `initialized` with a window of finalized blocks, ahead of, or (`MayLag`)
behind, what it finalized before. Holds of users are released in a timer as
`usingBlock` does. What a runtime contains is left out, not which block has which.

### BlockQueries

`asks[c]` is what a consumer waits for, `streams[s]` an observable of `storage$`
or `storageQueries$` with its listeners (`to`), `cache` the map of
`upsertCachedStream`, `pins` what is visible of the pinned blocks, `shown` what
`best$` and `finalized$` emitted last. A stop sends every running stream to wait
for the next subscription (`withStopRecovery`); when that is ready those whose
block is gone fail and their consumers turn to the archive. Refusals of the queue,
discarded items, inaccessible blocks and the 750 ms retry are steps of the node or
a timer. `wasReset` and `mixed` are history: blocks were dropped between two
subscriptions; a query of several values went on at another block.

Left out: the wait for a runtime, `withHodl`, `waitingForContinue`, operation
errors, duplicates.

### WsSocket

A socket is a record of its WHATWG state, the listeners it has and its heartbeat
timer. `driver` is as much of `getSyncProvider` as calls the provider, `cur` the
socket whose `onHalt` is not a noop yet, `latest` is `latestSocket`; `connection`
and `pending` are the variables of `getAsyncProvider`. A status callback is a
choice of the consumer (nothing, `disconnect`, `switch`) inside the action that
reports. Sockets are assumed to follow the standard, and one client to be
connected at a time. `hybrid.ts` and the choice of the middleware are left out.

### BlockOrder, FollowFixes

The three fixes of `BlockOrder` are one pipeline: a message passes through all of
them in one step, and only the best blocks that waited for their announcement are
delivered by a microtask (`micro`). The node announces blocks in any order, may
send a best block before announcing it, and never one it pruned. `deep` and
`overtaken` are history: blocks that waited for one that waited itself, and a best
block reported while another waited.

`FollowFixes` numbers the follow requests; a subscription has the name of its
request. `crossing` are those whose stop may cross their unfollow, `onGoing`
contains `Undefined` once the node refused. Notifications of an operation are
counted, so that a lost or doubled one shows.

### LegacyBlocks, LegacyRequests

`blocks` and `usages` are the tree, `pending`, `kids` and `asks` the headers that
are asked for where a parent is missing, `headsWaiting` the finalized heads that
wait for their block. `told`, `goneFor` and `released` are what each follower was
told, and unpinned. `late`, `trimmed` and `early` name what may go wrong: a head
that joins a pruned branch, heads given up, heads before the first finalized one.

In `LegacyRequests` an operation is the set of requests of the old API that it
still waits for (`asking`), with `logs` of what the client was told. Pages overlap
if the node starts with the key it continues from (`repeats`); refused batches are
halved. Merkle values and hashes of descendants and `chainSpec` are left out.

### TrackTx, WatchEntries, EventStreams

Each has the pinned blocks as far as it sees them, on a tree whose blocks are
numbered after their parent. `TrackTx`: the transaction is included in the blocks
of `included` and invalid where `invalid` says, both chosen in the beginning;
`track[b]` is the analysis of each block, `latest` is `latestAnalyzed`. A stop without
recovery ends it. `held` is `heldBlocks`, which is one map for all the transactions of
a client: another transaction may start and end at any time (`other`) and is seen as
the holds it adds to the map and takes from it (`Theirs`). A block that arrives while
both are tracked is held twice and the map keeps one of the holds (`leaked`); the end of
the other transaction releases all that are in the map, those of the first one included
(`robbed`). `WatchEntries`: each block
has a fixed content; a best and a finalized watcher share one memory of blocks,
with deltas between them. `EventStreams`: a request per block, answered in any
order, and `concatMapEager` that keeps back what is not its turn.

### TxExtensions, ChainTips, MultisigCalls, LedgerDevice

`TxExtensions` builds one transaction per behaviour: the enhancers one by one, the
creator's choice of a pipeline, the signature, the bytes; or, for a wallet, the
payload in JSON and what `tx-utils` makes of it. Encoded data is a sequence of
atoms; the decoder of the chain reads the values one after the other, each as long
as the metadata and what it begins with say (`ValueEnds`). `ChainTips` is the
stream of tips and the nonces asked for at them; a leap is a recovery in which the
client finds itself blocks ahead. `MultisigCalls` gives each signatory a reading
of the approvals and a submission that are two steps apart. `LedgerDevice` has the
exchanges of each call, one at a time on the transport.

### StaticCompat, TypeChecksums, MetadataProof

Recursive algorithms over graphs of types, beside a definition of what they are to
compute: the greatest assignment of levels that agrees with the forms of the types,
equality of the infinite trees, and the digest over a tree made of all types.
`StaticCompat` keeps the cache between queries and lets types change to a new
runtime; hashes are injective in the other two.

## Runs

| run | question | bounds |
|---|---|---|
| `ProxySafety` | What becomes of requests, over any inner provider? On a node of the old API? | 2 follows, 2 operations, 1 other request, 1 broadcast, 3 connections, late halts: 3 connections give a halt during the replay of what a first halt caught. Old node: 3 keys, pages of 2 (1000 in the code), 1 split (3 in the code), 3 follows, 1 broadcast, so that there is a last page, a split and a token that is not current |
| `SyncProvider` | Does it with `getSyncProvider`, and is the whole the abstract session, liveness included? | 1 of each, 3 connections, no late halts |
| `ChainHeadFollow` | Does the client recover from stops, refusals and failures with one subscription and no operation left waiting? Does the queue serve every task? | 1 operation, 4 disturbances: the crossing of a refusal with `reset` takes 3. 3 tasks, one urgent, 1 slot |
| `PinnedForks` | Are pins, counts, runtimes and children right within a subscription? Does each query end with the values of one block? | 5 blocks with a fork and the same upgrade in both branches, up to 2 uses of 3 of them. Queries: 2 consumers, 3 blocks in two branches, 2 keys, 2 faults |
| `PinnedStops` | What holds over several subscriptions, behind each other or not? | 2 stops, windows of up to 2, 1 user |
| `WsSocket` | Is there one socket, with its messages in order and a truthful status, and does it come through? | 2 endpoints, 3 uris, 2 sockets at a time, 2 messages |
| `Middleware` | What does the client hear through the middleware? | A chain of 3 and a fork, 3 best blocks; 3 follows (more than the limit), 2 operations, 2 notifications. Old node: 5 blocks with a fork, 2 followers, 2 heads in the beginning (10 in the code), 2 tries for a header, 2 finalized heads waiting |
| `Transactions` | What does the client make of the chain, and of transactions? | fate: 4 blocks in two branches, 2 inclusions and 3 invalidities, 1 other transaction. Entries: 5 blocks, 1 loss. Events: 4 blocks, 2 reorganisations, 1 recovery. Extensions: 4 metadatas, all requests over 5 signers. Nonce: 5 blocks, 1 leap, 1 refusal. Multisig: 4 signatories, thresholds 1 and 3, 2 attempts each, so that a threshold of 3 can be passed without the call being run; 9 creators, 7 of them wrapped in others. Device: 5 calls, 1 refusal by the user |
| `Types` | Are levels, checksums and proofs right whatever was asked before? | every pair of graphs of 3 types, 1 change, 2 queries; every graph of 4 types; every 4 definitions, inputs of up to 5 values |

The bounds limit how often the environment acts and never what the client does
then. The last connection of `JsonRpcProxy` does not halt, for otherwise the
liveness properties would say nothing. Deadlock is not an error in any run: once
the environment's budget is used and the consumer has nothing more to ask, the
system rests. `ProxySafety` uses the symmetry of follows, operations and
broadcasts; it checks no liveness.

Three runs end in a counterexample: the code does not do what the repository says
of it.

- `EventsAfterReorg`: the events of a block that left the best chain, while they
  were kept back behind those of its parent, are reported as new all the same
  (`packages/client/src/event.ts:254` against line 75).
- `TypeCollision`: two enums that differ only below their first level, where they lead
  into cycles of one type, get one checksum (`checksum-builder.ts:279` against its
  tests).
- `TipsOutOfOrder`: clean-up frees the child of a block that somebody holds, which
  becomes a leaf again and is announced as a tip although its parent never was
  (`packages/client/src/client.ts:109` against `tx-creator/src/types.ts:207`).

Where the code does something else in a case that is rare and known, the passing
runs exclude just that case, by an antecedent that names it: `InTime`, `mishaps`,
`crossed`, `Stopped`, `overtaken`, `deep`, `late`, `stuck`, `missed`, `mixed`,
`lateApprovals`, `interleaved`, `remade`, `leaked`, `robbed`. They are listed under
*Known disagreements*.

## Fairness

- `JsonRpcProxy!Fairness`: the loops are synchronous code, so they go on; the
  server answers each request it received on a connection that lasts. Halts, stop
  events and the consumer owe nothing.
- `SyncFairSpec`: timers fire and attempts end. Strong fairness of
  `InputSucceeds` says that a provider that is tried again for ever is found at
  last; without it nothing could be live.
- `ChainHeadFollow!FairSpec` and `QueueFairness`: messages arrive, timers fire, the
  server takes requests in order and an operation it runs ends. No fairness is
  assumed of users, stops or refusals, which are bounded instead.
- `WsSocket!Fairness`: timers fire; nothing is assumed of the network, not even
  that a closed socket ever says so.
- `BlockFairness`: microtasks and the timer of `fix-missing-initial-best` run.
  `LegacyFairness`: requests for headers are answered, and finalized heads pass on.
- `TrackTx!Fairness`, `TipFairness`, `LedgerFairness`: one weak fairness each of
  the answers and timers that are owed. Blocks, faults and users owe nothing.
- `QueryFairness`: of all that moves a query while somebody waits, answers, timers,
  and a chain that goes on and a subscription that gets ready again, something
  happens. Stops and refusals owe nothing; `MaxFaults` bounds them.

The other specifications are for safety only: nothing in them must happen but
what the environment does.

## Proofs

A theorem holds for every value of the constants: any sets of requests, tasks,
blocks, consumers and sockets, any bounds. What is assumed of them is what the
modules state and TLC evaluates: the kinds of requests are disjoint
(`IdsAssumption`), bounds are numbers (`BoundAssumption`, `BoundsAssumption`,
`WsAssumption`), operations and tasks are finitely many (`OpAssumption`,
`TaskAssumption`) and a server runs at least one of them (`LimitAssumption`), a
block comes after its parent (`ChainAssumption`, `QueryAssumption`,
`BlockAssumption`, `TrackAssumption`, `LegacyAssumption`, `ChainTipsAssumption`,
`EventAssumption`, `WatchAssumption`, which also has the entries of a block a function),
consumers and calls are not named like what else a cache or a transport may hold (`WantedAssumption`, `LedgerAssumption`), signatories are
finitely many and creators are wrapped in proxies and multisigs only
(`MultisigAssumption`), a pipeline has no extension twice and the signature is not for
the user to give (`TxAssumption`), pages hold at least two keys (`PagesAssumption`) and an
operation asks for the descendants of one key at most once (`AskedAssumption`: the
keys of `LegacyRequests` are the descendants of one). What an inner provider
may do at worst is not an assumption but the constant `LateHalts`; the theorems
that hold only without it say so in their statement, as do those that hold only
of a chain without upgrades, or whose lines do not go back to a runtime they left
(`NoReturn`: `setCode` asks for a greater `spec_version`), of a server that never stops,
or of an account whose nonce does not fall (`NoncesGrow`; it would if it were reaped).

| theorem | states | from |
|---|---|---|
| `JsonRpcProxyProofs!TypeCorrect` | `TypeOK` | itself |
| `AnsweredAtMostOnce`, `NoRequestLostOrDoubled`, `ResponsesAreExpected`; together `RequestsStayRight` | `AtMostOneReply`, `OwedExactlyOnce`, `AnswersAreExpected`; `RequestsAreRight` | `RequestInv` |
| `NoDeadSubscription`, `NoSubscriptionLeaks`; together `SubscriptionsStayRight` | `HeldSubsAreAlive`, `NoLeakedFollow`; `SubscriptionsAreRight` | `SubsInv` with `RequestInv` |
| `BroadcastsStayRight` | `BroadcastsAreRight` | `TxInv` with `RequestInv` |
| `QuietOnceDisconnected` | `~LateHalts => (Spec => QuietAfterDisconnect)` | `ClosedInv` |
| `RefinesSession` | `~LateHalts => (Spec => Session!Safety)` | all of these |
| `JsonRpcProxyProofs!DrivesTheProxy` | `SyncSpec => Spec` | step by step |
| `SyncTypeCorrect`, `OneAttemptAtATime`, `ConnectNeverThrows`, `StopCancelsWhatRuns`; together `OneWayBackAlways` | `SyncTypeOK`, `OneAttempt`, `ConnectIsLegal`, `StopIsCurrent`; `OneWayBack` | `SyncInv` |
| `DisconnectionCancels` | `DisconnectCancels`, an action property | `SyncInv` |
| `SyncImplementsSession` | `~LateHalts => (SyncSpec => Session!Safety)` | `DrivesTheProxy`, `RefinesSession` |
| `WsSocketProofs!SocketStaysRight` | `SocketIsRight` | `SocketInv` |
| `JsonRpcProxyProofs!OperationsStayRight` | `OperationsAreRight` of `LegacyRequests` | `LegacyInv` |
| `ChainHeadFollowProofs!TypeCorrect` | `TypeOK` | `Inv` |
| `OneSubscription`, `NoSubscriptionLeaks`, `NobodyWaitsForTheGone`; together `SubscriptionsStayRight` | `OneFollow`, `NoLeakedSubscription`, `OperationsAreAttached`; `SubscriptionsAreRight` | `Inv` |
| `StaysQuietAfterUnfollow` | `NoFollowUnlessCrossed`, an action property | `Inv` |
| `ChainHeadFollowProofs!QueueTypeCorrect` | `QueueTypeOK` | itself |
| `QueueHoldsWhoWaits`, `NoOperationLeaks` | `QueueIsRight`, `NoLeakedOperation` | `QueueInv` |
| `SomebodyAlwaysWakes`; with the former `QueueKeepsMoving` | `SomebodyWillWake`; `QueueMoves` | `WakeInv` with `QueueInv` |
| `PinnedBlocksProofs!TypeCorrect` | `TypeOK` | itself |
| `PinsStayAgreed` | `PinsAgree`, over any number of stops | `PinsInv` |
| `PinsStayCounted` | `PinsAreCounted`, until the first stop | `FirstInv` |
| `RuntimesStayRight` | `RuntimesServe`, if `NoReturn` | `FirstInv` |
| `UsedStaysPinnedAlways` | `UsedStaysPinned`, an action property, if `MaxStops = 0` | `FirstInv` |
| `NewBlocksStayRight` | `NewBlocksAreRight`, over any number of stops | `StopsInv` |
| `StopsStaySurvived` | `StopsAreSurvived`, over any number of stops, if `OneRuntime` | `StopsInv`, `RuntimeInv` |
| `BestChainStaysThere` | `BestChainIsThere`, the part of it that needs no assumption | `StopsInv` |
| `BlockQueriesProofs!QueriesStayRight` | `QueriesAreRight` | `QueryInv` |
| `TurnedAwayAlways` | `TurnedAwayRightly`, an action property | `QueryInv` |
| `EventsStayRight` | `EventsAreRight` of `EventStreams` | `EventInv` |
| `MiddlewareProofs!FollowsStayRight` | `FollowsAreRight` | `FollowInv` |
| `BlocksStayRight` | `BlocksAreRight` | `BlockInv` |
| `EndsQuietlyAlways` | `EndsQuietly`, an action property | `BlockInv` |
| `HeadsStayRight` | `HeadsAreRight` of `LegacyBlocks` | `HeadsInv` |
| `TransactionsProofs!LedgerStaysRight` | `LedgerIsRight` | `LedgerInv` |
| `MultisigsStayRight` | `MultisigsAreRight` | `MultisigInv`, `OriginIsAccount` |
| `FateStaysRight` | `FateIsRight` | `FateInv` |
| `NoncesStayRight` | `NoncesAreRight`, if `NoncesGrow` | `NonceInv` |
| `EntriesStayRight` | `EntriesAreRight` | `WatchInv` |
| `TransactionsStayRight` | `TransactionsAreRight` of `TxExtensions` | `TxInv` |

The arguments, and why the properties are not inductive by themselves:

- *Requests of the proxy.* That a request is answered at most once follows only if
  one without an answer is never in two places. `RequestInv` therefore says, for
  each request, in which of `pending`, `onGoingRequests`, `toSettle` and `toFlush`
  it is in each phase of the proxy (`Phases`, `Owing`), how many answers it had
  (`Counted`), and that the server works on what `onGoingRequests` holds.
- *Subscriptions of the proxy.* `SubsInv` adds what each end knows: what is served
  is in `activeChainHeads` unless its unfollow is pending, and what the consumer
  holds is there, or among the stops to deliver.
- *Session.* Each action of the proxy is an action of `JsonRpcSession` or a stutter
  of it, given these invariants and, since nothing may be delivered to a consumer
  that left, `ClosedInv`: without late halts, a proxy once Done stays so.
- *Sync provider.* `SyncInv` counts the timers and attempts under way, and links
  them to the state of the proxy: Connected, or Connecting with exactly one of
  them, unless a callback of the consumer is on the stack.
- *Follow.* Even the types need all of `Inv`: `setFollower` takes the next number,
  and that there is one left is an argument about the whole history. `Counted`
  keeps the balance: the calls made, and those still owed to a stop, a refusal or
  a timer, are no more than the disturbances and one. `FollowerAt` and `OpAt` say
  where the messages about each subscription and operation may be, given what each
  end knows of it; this is what no leak and no abandoned operation follow from.
  `Control` links `follower`, the timers and `phase`: only the last timer follows
  again, `token` is armed then, and no subscription is alive. The refusal of a
  subscription that was given up breaks `Control`, which is why it is claimed
  until `crossed` only; the rest of `Inv` holds for ever.
- *Operation queue.* `QueueInv` says where the messages of each task may be
  (`Whereabouts`), in each of its statuses, and that neither the queue nor a channel
  holds anything twice, which makes `Tail` and `RemoveAt` remove for good.
- *Somebody wakes the queue.* It is not enough that some task was active when the
  server refused another one: that one may be over before the refusal arrives.
  `WakeInv` says that behind each refusal in the channel there is the end of an
  active task, unless that task still has its slot. The order of messages makes
  it inductive; a task stopped by its user breaks it (`Stopped`, see *Known
  disagreements*).
- *Broadcasts of the proxy.* `TxInv` says which tokens there are: only those of the
  current connection, none for a broadcast that was not answered on it, none for
  good once it was stopped, and that one in `onGoingRequests` has a request on its way.
- *Sockets.* `ConnectionFollowsSocket` links `connection` to the listeners of the
  current socket, and says that no other has any, but one that opened while its
  client left: `Halt` of any other socket is then known to do nothing.
- *Pinned blocks.* `PinsAgree` needs that what is `recovering` is not pinned in the
  subscription that is open, which holds over any stops because `initialized`
  and `stop-error` move blocks between the two. Within a subscription, `OpenInv`
  follows each block: its place in the tree (`Standing`), its users against
  its count (`Counted`), what the server may still report (`Reported`), that
  children and runtimes go with their blocks (`Descending`, `Running`), and that the
  clean-up is armed if anything is useless (`Cleaned`). A stop can lose the hold of a
  deleted block and give a wrong runtime, which is why three theorems
  end there. Branches may share an upgrade: `remade` remembers the blocks whose runtime
  was made anew by a later branch, and which it therefore no longer counts
  (`CodesBut`). Either the stream goes on (`Running`), or it ended because such a block
  was read when its runtime had gone (`Outlived`). `NoReturn` is needed for the window of
  the beginning only: a finalized block whose code is known there takes the runtime of
  its parent.
- *Pinned blocks over stops.* `OpenInv` does not outlive a subscription. `StopsInv` says
  what does. `Served`: what the server reports has no gap from its finalized block
  upwards. `Phased`: which phases go with which messages, and what each leaves empty.
  `Based`: the finalized block of the client is there, at or below the highest that
  ever was, nothing above it is pruned, and nothing reported above it is missing.
  `Timely`: if no subscription was behind, client and server have the same finalized
  and best block. It follows that the walk from the best to the finalized block finds
  each parent (`StopsChain`). `Kept` and `Whole` relate the blocks to what
  was told of them, or waits in `pending`: unless a window was cut nothing above the
  finalized block was left out, and unless anything happened what was told is one tree.
  That no handler throws then needs the runtime of each block; `RuntimeInv` has it
  on a chain of one runtime. With an upgrade it is false: see *Known disagreements*.
- *Queries.* That an answer is of one block is a fact about the whole path to it.
  `QueryInv` has eight parts: `PinsOk` and `ShownOk` on the blocks and what streams
  last emitted, `AskOk` on each consumer, `StreamOk` on each operation (which keys
  are asked, due and got, at which block), `ListenersOk` that who waits is in
  exactly one stream of the same block and kind, `CacheOk` that the cache names a
  stream that runs there, and `FailuresOk` that who is turned away lost the block.
  Emissions are nested: a change of the best block is seen by queries that
  subscribe again at once, so the lemmas about `Publish` and `Emit` are
  about functions of a whole state. No bound on faults is used.
- *Events.* That the consumer of `watchBest` has a path of the best chain says nothing
  of what is still to come, and the queue of `concatMapEager` decides that.
  `EventsShown` says both: what the consumer has is the best chain from some position
  to some other (`Has`), and what is in the queue and was not cut is the rest of
  it, in order, each once (`OnTheirWay`). An answer can let any number of items
  through, and a new best block cuts the items of another branch, so the lemmas are
  about the folds over the queue (`FoldExists`), step by step. The first item of the
  queue is always one that waits. `EventsShown` is claimed as far as the property is:
  until an answer is kept for a block that left the best chain (`late`), or a
  recovery jumps. Once the streams failed the best block may move on without them.
  For `watch`, `LeadsTo` says that what it reported and what it asked for are
  together one line to the finalized block.

- *Operations behind the middleware.* `SubscriptionAt` and `OperationAt` say what the
  node, the middleware and the consumer each know of a subscription and of an
  operation. The order of events is that the notifications kept before the response,
  and those heard after it, are all that were sent.
- *Operations of old nodes.* An operation is done when its last request is answered,
  so that what it was told by then is a fact about all of its pages, batches and
  halves of batches. `LogsInv` says that who runs waits for something and heard no end,
  and that who does not run heard one, last. `KeysInv` says of each key that it was
  told or exactly one request of the operation waits for it (`Waits`: a page for all
  keys after the one it starts from, a batch for its own), and `SinglesInv` that the
  values told and the items open (`Open`) add up to the values asked for. An answer is
  good (`GoodAnswer`) if what it tells, and what the requests that follow it wait for,
  are together what it waited for, each once. Each kind of answer is, a page that
  starts with the key it continues from because of the filter.
- *Order of blocks.* That a block comes out once and after its parent is a fact about
  all that was ever sent: in `BlockInv`, `Queued` says that a block that did not come
  out waits for a parent the node did not send, or is above one that was flushed one
  level only (`deep`); `Ordered` that what was announced is pinned and known until
  the node is done with it (`Gone`); `Finalizing` that the node speaks of nothing
  that is `Gone`; `BestFollows` that the best block of the node was delivered, is
  held, or is in the queue of microtasks, alone. Which steps may still speak after
  the end (`EndsQuietly`) follows from `Phased`.
- *Tree of an old node.* `HeadsInv` has six parts. `SeenInv`: blocks become known after
  their parent. `PendingInv`: what hangs from a pending block is known; the tree has a
  pending block only if heads came before the first finalized one, and what hangs from
  the tree then is hasty and was not asked for. `UnreadyInv` is what holds before that
  block. `FinalInv`: the heads that wait are in the order of the chain. `TreeInv`: the
  tree has no gaps, which is what makes `tryRemove` safe, and what was pruned or given up
  never leads to a finalized block again. `PinInv`: what each follower pins, knows and
  heard of. That a head which could be finalized is not given up needs all of the
  links from a pending block down to the top (`TopFacts`, `HangingFacts`).
- *Device.* That no exchange starts during another one needs to be known of all who
  wait at once: who is woken looks again, so `TransportIsHeld` says that `busy` is who
  waits for an answer. `AppIsKnown` keeps every call behind the one question for the
  app, and `ChunksAreOwn` makes what the device has of a message a prefix of it, for
  who signs alone.
- *Multisig.* `UpToDate` says that what no other transaction crossed, a reading or a
  transaction on the way, is as the chain has it, and so would be accepted. An attempt
  to prove that nothing is wasted failed before it was restricted: of four
  signatories with a threshold of 3 three may leave the call approved and not run, and
  the fourth is refused though nothing crossed it. The run has such signatories since.
  `OriginIsAccount` is an induction over the wraps of a creator.
- *Fate of a transaction.* What is known of a block depends on what was finalized
  when the transaction was broadcast, which no variable remembers: `FateInv` says that
  there is such a block `f` (`Before`). Above it a block is analysed once every block
  below it was (`Analyses`), and held from its arrival until then, or until one below
  it settled the matter (`Holding`), unless another transaction released it (`robbed`).
  What the other one gives back by itself is not among what the first one waits for
  (`TheirHolds`), or was held twice (`leaked`), so that only its end can do harm
  (`OthersKeep`). `BranchesArePruned` says which blocks are pinned in
  any case. It follows that what is not analysed on the best chain is pinned
  (`OpenIsPinned`), so that `computeNextState` always finds the highest analysed block
  (`FirstAnalyzedIsHighest`) and ends the transaction as soon as a finalized block
  settles it (`UpToDateReport`). That the blocks are a tree is an induction over their
  numbers (`LineFacts`).
- *Nonce.* `NonceInv` says how the tree grows (`Grown`: closed towards the finalized
  block, and nothing on an abandoned branch is above it), that until a recovery the
  tips are its leaves and otherwise only blocks that fell below the finalized one
  (`LeafTips`), and of each head where it is asked about and where its answer is from,
  itself or a child (`AskOk`). What the folds over tips and blocks leave is an
  induction over their length (`KeptElements`) and over the highest block
  (`WithTipsElements`).
- *Watched entries.* A memory block has the entries of its block and, if there was one
  before it in memory, the difference to that one, which is below it on the chain
  (`MemoryBlockOk`). The walk from a block to what a watcher showed before goes through
  such links (`SinceWalks`), so that the deltas on the way compose (`ReplayIsRight`),
  and forgetting old blocks cuts it only below what the finalized watcher still needs
  (`MemoryRestricts`): this is not inductive for the reports alone, because a job
  carries a memory block along that may be forgotten meanwhile (`JobOk`). `Following`
  says that a best block which is not in memory is the one of the job or the queued
  one, `BestShown` that the best watcher showed it if it is. That the blocks of the
  best chain above the finalized one are pinned (`PinsOk`) is needed where one of them
  is finalized.
- *Transactions.* That the chain decodes what was signed rests on each value being
  one the decoder takes whole, whatever follows it (`Fits`): then it finds every value
  where it was put (`ReadsBack`), and the signature covers those after its own place
  (`SignedCovers`, `GeneralCovers`). `PayloadInv` says of what was found so far that it is
  such a value, is what the options ask for and has the implicit part the runtime
  computes (`GoodPayload`), and that the enhancers which already ran missed nothing that
  was theirs to add: no enhancer loses what another one adds only in a certain order
  (`InOrder`). Then each kind of creator makes the transaction or has a reason to refuse
  (`Answers`). A wallet knows only the JSON payload: its fields are what the request
  means (`Gathered`), and each extension can be rebuilt from them (`RebuiltIsPart`). The
  encoding of an era is inverted for each power of two from 4 to 4096 (`EraDecodes`), and
  every block of an era has the same birth (`BirthIsStart`).

`SequenceLemmas` has what these proofs need of sequences without repetitions. It
also has two ways around the library's induction theorems, whose operator
parameter the provers cannot instantiate: `InductionOverNat`, for a set instead of an
operator, from the pigeonhole principle of `FiniteSetTheorems`; and `RecursionByRank`,
which gives a recursive function its defining equation if each argument it uses
is of a smaller rank. The heights and ancestors of the trees of blocks rest on
them, and `FoldExists`: a fold over a set, and so over the positions of a sequence,
has its equation. `FlattenExists` is that equation for sequences of sequences.

Only model-checked:

- liveness under fairness, and the fairness part of the refinement: the prover
  does not handle ENABLED (`NothingWaitsForever`, `ImplementsSession`,
  `FollowComesThrough`, `EveryTaskEnds`, `SocketComesThrough`,
  `ChainComesThrough`, `TransactionsComeThrough`, `QueriesComeThrough`);
- `StaticCompat`, `TypeChecksums`, `MetadataProof`: they declare RECURSIVE operators,
  for which the prover has no arithmetic, and are inductions over graphs
  (`LevelsAreRight`, `ChecksumsTellTypes`, `ProofsAreRight`).

## Known disagreements without a run

Met while modelling: the code does something that its documents, or its other
half, do not expect, but in a case that no line of the repository speaks of, or
that one of the three runs above stands for. Each is excluded from the properties
that hold, or left out of the model where it says so. `(u)` marks a property that
is defined next to the model and violated by it, or would be.

`observable-client`:

- Two branches with the same upgrade: the second overwrites the entry of the first
  in `runtimes`, which is deleted too early, and a later block reads a property of
  undefined (`pinned-blocks.ts:246-249`; `FailsForOutlivedRuntime` says that this is
  the only reason, for a block of `remade`; `NeverThrows` (u)).
- A block of the first window whose code an earlier block of it had, with another
  one between them, takes the runtime of the block before it
  (`pinned-blocks.ts:177-179`; excluded by `NoReturn`).
- A stop before the client is ready drops the blocks waiting for `newBlocks$` and
  does not complete it (`pinned-blocks.ts:213`; `NewBlocksAreContinuous` (u)).
- A held block deleted after a stop, then announced again, starts without its
  hold (`pinned-blocks.ts:80`).
- After a subscription that was behind, the best block of the client may be one
  that is gone (`pinned-blocks.ts:259`; `BestChainSurvivesLag` (u)).
- After a stop, a new block of the window whose runtime code is known takes the
  runtime of the latest finalized block, even if an upgrade lies in between
  (`pinned-blocks.ts:166-206`). The runtime of the finalized block may then be
  one that no block uses, and the window of the next subscription reads a
  property of undefined, which ends the stream: one upgrade and two stops are enough.
  `StopsAreSurvived` is run, and proved, on a chain of one runtime.
- After a stop, a known block followed in the window by an unseen one does not get
  it as a child (`pinned-blocks.ts:171-172`).
- A subscription that is behind may announce a fork whose parent was unpinned:
  `newBlock` reads a property of undefined (`pinned-blocks.ts:228-229`).
- A task refused after the running operation was unsubscribed from is never tried
  again, nor is any later one (`operationLimitRecovery.ts:132`;
  `NobodyWaitsForever` (u)).
- The refusal of a subscription that `reset` gave up arms a second timer;
  `unfollow` clears one, the other follows again (`follow.ts:256`;
  `NoFollowAfterUnfollow` (u)).
- `storageQueries$` has no teardown (`storage-queries.ts:19-51`); `getValues` keeps
  the items of the old block if a best or finalized block changes after a stop
  (`storage.ts:465`; `mixed`), and takes the runtime and the values at different
  times (`storage.ts:442-470`). `best$` and `finalized$` that replay a block which is
  gone are subscribed to again at once, for ever (`wasReset`). A query started while
  its block is recovering is turned away if that is not in the next window.
- `body$` releases its hold during the 750 ms before it tries again.
- Blocks above a settled block stay held until the transaction ends
  (`track-tx.ts`).
- `heldBlocks` is one map for all transactions: of a block that arrives while two are
  tracked the first hold is overwritten and never given back (`track-tx.ts:54`, against
  the comments at 62 and 76), so that it stays pinned for the rest of the subscription
  (`leaked`). The transaction that ends first releases what the other waits for
  (`track-tx.ts:77`): a block that is unpinned before it is analysed leaves
  `computeNextState` without an answer, or ends the search in its branch (`robbed`).

`client`:

- `submit-fns.ts:266` compares `curr.hash` with the finalized hash where it means
  `b.hash`: an analysis is not cancelled with its branch (CHANGELOG of the
  client, line 598; `PrunedIsCancelled` (u)).
- A slow answer for one block while best and finalized move on makes
  `watchEntries` report deltas against the wrong memory (`watch-entries.ts:222`;
  `stuck`); a change of the best block before the first memory, or while it starts
  over, is fetched with the next one only (`missed`). With no finalized watcher the
  memory is never pruned. Entries whose raw value is the same keep what an older
  runtime decoded.
- A best block that becomes an ancestor of itself makes `event.ts:238` read
  `next[i].hash` of undefined. An emission that changes best and finalized takes the
  finalized branch only (`event.ts:213-224` against line 78). `isBestOrFinalizedBlock`
  says "finalized" of a pruned block that is held (`block-operations.ts:27`).
  `finalized$` may skip blocks after a recovery.
- `getPaymentInfo` takes the call and the decoder at the best block of different
  times (`tx.ts:150-190`).

`substrate-client`, proxy and `ws-provider`:

- An operation called before the response to follow, on a subscription given up
  before it, neither settles nor rejects (`chainhead.ts:183-186`).
- `operationError` and `operationInaccessible` leave their listener behind
  (`operation-promise.ts:64-67`).
- `onHalt` after `disconnect` puts the proxy back to Connecting and delivers stop
  events (`get-proxy.ts:222`).
- The `start()` after an `onHalt(e)` in which the consumer disconnected runs one
  more attempt, which then finds `proxy` null (`get-sync-provider.ts:41`).
- `disconnect` or `send` inside the CONNECTING callback meets a `state.connection`
  that is null (`get-proxy.ts:262`), `switch` there takes effect with the next
  reconnection only, and the status is never CLOSE after `disconnect`.
- In `hybrid.ts` the count of references keeps the base socket after a forced
  disconnection of `fix-follow`: a leaked socket, and ERROR reported twice. A -32800
  disables `chainHead_v1` there. Not modelled.

`ws-middleware`:

- Premature blocks are flushed one level deep (`deep`); `pinnedBlocks.delete` is given
  the subscription instead of the block; a held best block may be delivered after a
  newer one (`overtaken`); a made-up best block after a halt or a disconnection
  (`orphan`). Notifications of a stopped operation are kept for ever, a premature
  stop is forwarded twice, and a refused follow adds undefined to `onGoing`.
- Old nodes: a late head joins a pruned branch (`late`); `unfollow` releases no
  pins; heads before the first finalized one are trimmed (`early`); a climb that is cut
  too low can trim the wrong tree; a header that is null ends `_newBlocks$`; the
  initialization of a second follower adds usages again.
  `archive_v1_stopStorage` is not answered if it succeeds (`archive.ts:115`). A refused
  batch of one key is asked again `MaxSplits` times.

Transactions and signers:

- `fromPjsAssetIdToSigExt` gives numbers and locations an option prefix twice, and
  "here" none (`from-pjs-to-tx-data.ts:113,142`).
- The last approval is recognised by `approvals.length === threshold - 1`
  (`multisig-signer.ts:23-26`): two late approvals of a threshold of 3 or more leave
  the call approved and never run (README of `meta-signers`, line 50;
  `lateApprovals`): whoever is left sends an approval, not the call, and is refused. Whether somebody approved already is decided by the public key and
  not the account: a proxied signatory may approve twice, and is refused. With
  threshold 1 only synchronous errors are swallowed.
- `createMockedExtrinsic` gives no extensions, so that a mocked v5 transaction may
  take another version of them than the real one. The mortality "at least `period`
  blocks after best" is off by one if the difference and the period add up to a power
  of two (`extensions/index.ts:148`). Custom values of common extensions are ignored.
  Injected wallets refuse optional extensions whose None is not empty.
- Promises of a Ledger that were rejected are cached for ever; two signatures at
  a time mix their chunks (`ledger-signer` README, line 29; `SignaturesDoNotClash` (u)).

Types:

- `isStaticCompatible` takes the first level of an assumption (about line 40 of its
  source: "TODO check this assumption is fine"). A sized binary is accepted for an
  unsized one whatever it holds (`isCompatible.ts:43`); an option of itself recurs for
  ever; void accepts anything.
- Checksums: besides `TypeCollision`, separate cyclic groups may collide, a
  checksum depends on where the builder was asked first
  (`checksum-builder.spec.ts:72`, a skipped test), and a falsely mirrored first node
  recurs without end.

## Not modelled, and why

- Codecs, view builder, code generation, CLI, comparison of runtimes, React
  builder: pure functions over large data, which tests reach well and TLC does not.
- `sm-provider` and `logs-provider`: thin adapters of what is modelled.
- The maps of `raw-client`: `ChainHeadFollow` models what they give, a message for
  whom it is meant.
- The search for upgrades in a finalized window (`follow.ts:39-95`), the error of a
  subscription itself (`onAllFollowEventsError`), `hybrid.ts`.
- How long timers wait, opaque tokens as strings, wording, logs.

## Plan

Done: the proxy and its abstract session, the sync provider, sockets, both
middlewares, the follow subscription, the operation queue, pinned blocks, queries,
transactions from signer to finality, watched entries, events, and the three
algorithms on types; proofs of the proxy, the sync provider, sockets, the
subscription, the queue, pinned blocks, queries, the middleware of modern nodes, the
tree and the operations of old nodes, the device, multisigs, what is signed,
the fate of transactions and their nonces, watched entries, events.

Left:

1. Models: `RuntimeChanges`, the binary search for upgrades (`follow.ts:39-95`),
   right only if no upgrade returns to an earlier code; the choice of `hybrid.ts` and
   the maps of `raw-client`; a composition of `ChainHeadFollow` with `PinnedBlocks`
   through `stop-error`.
2. Proofs: the three algorithms on types, if they are stated without RECURSIVE
   operators.
