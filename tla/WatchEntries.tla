----------------------------- MODULE WatchEntries -----------------------------
(***************************************************************************)
(* watchEntries of client: the entries of a storage map, block by block,   *)
(* with what changed since the last report. getMemoryBlocks$ remembers the *)
(* entries of some blocks; one watcher follows the best block, another one *)
(* the finalized block, over the same memory. The pinned blocks are those  *)
(* of PinnedBlocks, as far as they concern the best chain. One step is one *)
(* event of the chain, one answer of the node or one timer.                *)
(***************************************************************************)
EXTENDS Naturals, Sequences, SequencesExt, FiniteSetsExt, Functions

CONSTANTS Parent,    \* the parent of each block; Genesis has none
          Content,   \* the entries of each block: from some keys to values
          MaxLosses  \* subscriptions lost for good, at most

Genesis == 0
Chain   == DOMAIN Parent \cup {Genesis}
Nothing == Len(Parent) + 1

\* A block and its ancestors.
Path[b \in Chain] == {b} \cup IF b = Genesis THEN {} ELSE Path[Parent[b]]
Number(b)         == Cardinality(Path[b]) - 1

ASSUME WatchAssumption ==
    /\ Parent \in Seq(Nat)
    /\ \A b \in DOMAIN Parent : Parent[b] \in 0 .. b - 1
    /\ \A b \in Chain : Content[b] \in [DOMAIN Content[b] -> Range(Content[b])]
    /\ MaxLosses \in Nat

VARIABLES
    \* the pinned blocks
    pins, top, final,  \* the blocks, the best one, the finalized one
    losses,
    \* getMemoryBlocks$
    memory,    \* blocks (a memory block each) and finalized; empty at first
    job,       \* what getNextMemoryBlock$ works on
    queued,    \* queuedValue of lossLessExhaustMap
    missed,    \* the latest best block came before there was a memory, made it
               \* start over from the finalized block, or was in the one before
    stuck,     \* lossLessExhaustMap threw while a job was its inner subscription
    \* getBestOrFinalized
    watchers,  \* in the order of their subscription
    shown,     \* the latest update of each: none at first
    reports    \* what the latest update made each of them report

pinsVars   == <<pins, top, final, losses>>
memoryVars == <<memory, job, queued, missed, stuck>>
watchVars  == <<pinsVars, memoryVars, watchers, shown, reports>>

Idle == [kind |-> "none"]
Busy == job # Idle

WatchTypeOK ==
    /\ pins \subseteq Chain /\ {top, final} \subseteq pins
    /\ losses \in 0 .. MaxLosses
    /\ memory # <<>> => DOMAIN memory.blocks \subseteq Chain
    /\ job.kind \in {"none", "initial", "update", "restart"}
    /\ queued # <<>> => {queued.best, queued.finalized} \subseteq Chain
    /\ missed \in BOOLEAN /\ stuck \in BOOLEAN
    /\ \A w \in Range(watchers) : \A i \in DOMAIN reports[w] :
            reports[w][i].block \in Chain

-------------------------------------------------------------------------------
(***************************************************************************)
(* Entries and what changed in them.                                       *)
(***************************************************************************)
NoDeltas == [upserted |-> <<>>, deleted |-> {}]

Upserted(prev, current) ==
    {k \in DOMAIN current : k \notin DOMAIN prev \/ prev[k] # current[k]}

\* getDiff
Deltas(prev, current) ==
    [upserted |-> Restrict(current, Upserted(prev, current)),
     deleted  |-> DOMAIN prev \ DOMAIN current]

\* What a consumer has, once it applied them to what it had.
Apply(deltas, entries) ==
    [k \in (DOMAIN entries \ deltas.deleted) \cup DOMAIN deltas.upserted |->
        IF k \in DOMAIN deltas.upserted THEN deltas.upserted[k] ELSE entries[k]]

-------------------------------------------------------------------------------
(***************************************************************************)
(* The watchers.                                                           *)
(***************************************************************************)

\* findPrevious: the closest block in memory, from a block up to the first one
\* that is not pinned.
Closest(b, blocks, pinned) ==
    LET Walk[t \in Chain] ==
          IF t \in DOMAIN blocks THEN t
          ELSE IF t \in pinned \ {Genesis} THEN Walk[Parent[t]]
          ELSE Nothing
    IN  Walk[b]

\* The blocks in memory from `number` on up to b, and the one they stand on.
Since(b, blocks, number) ==
    LET Walk[t \in Chain \cup {Nothing}] ==
          IF t \notin DOMAIN blocks \/ Number(t) <= number THEN <<>>
          ELSE Append(Walk[blocks[t].prev], t)
    IN  Walk[b]

Below(b, blocks, number) ==
    LET Walk[t \in Chain \cup {Nothing}] ==
          IF t \notin DOMAIN blocks THEN Nothing
          ELSE IF Number(t) <= number THEN t
          ELSE Walk[blocks[t].prev]
    IN  Walk[b]

\* What a consumer reports who applies the deltas of some memory blocks in turn.
Replay(had, blocks, updates) ==
    LET After[i \in 0 .. Len(updates)] ==
          IF i = 0 THEN had ELSE Apply(blocks[updates[i]].deltas, After[i - 1])
    IN  [i \in DOMAIN updates |-> [block |-> updates[i], entries |-> After[i]]]

\* Mutant: a reorganisation is not noticed.
ReportOnlyForward(prev, latest, blocks, updates, ancestor) ==
    Replay(prev.entries, blocks, updates)

\* The reports of an update: a block after the other, or for a reorganisation the
\* difference at once.
Report(prev, latest, blocks, updates, ancestor) ==
    IF ancestor # Nothing /\ blocks[ancestor] = prev
      THEN Replay(prev.entries, blocks, updates)
      ELSE <<[block   |-> latest.block,
              entries |-> Apply(Deltas(prev.entries, latest.entries), prev.entries)]>>

\* A watcher looks at the memory for its block. The finalized one also tidies up
\* the memory: what is older than its oldest update is forgotten.
Look(w, s, b, pinned) ==
    LET found   == Closest(b, s.memory.blocks, pinned)
        blocks  == s.memory.blocks
        latest  == blocks[found]
        prev    == s.shown[w]
        updates == Since(found, blocks, Number(prev.block))
        kept    == {c \in DOMAIN blocks : Number(c) >= Number(updates[1])}
    IN  IF found = Nothing \/ s.shown[w] = latest THEN s
        ELSE IF prev = <<>>
          THEN [s EXCEPT !.shown[w] = latest,
                         !.reports[w] = <<[block   |-> found,
                                           entries |-> latest.entries]>>]
        ELSE [memory |->
                IF w = "finalized"
                  THEN [blocks    |-> IF updates = <<>> THEN blocks
                                      ELSE Restrict(blocks, kept),
                        finalized |-> found]
                  ELSE s.memory,
              shown   |-> [s.shown EXCEPT ![w] = latest],
              reports |-> [s.reports EXCEPT ![w] =
                  Report(prev, latest, blocks, updates,
                         Below(found, blocks, Number(prev.block)))]]

Target(w, b, f) == IF w = "best" THEN b ELSE f

\* The watchers in `who` look in turn.
AllLook(who, mem, b, f, pinned) ==
    LET end == FoldLeft(LAMBDA s, w :
                          IF w \in who THEN Look(w, s, Target(w, b, f), pinned)
                          ELSE s,
                        [memory |-> mem, shown |-> shown, reports |-> reports],
                        watchers)
    IN  /\ memory' = end.memory
        /\ shown' = end.shown
        /\ reports' = end.reports

Silent(mem) == memory' = mem /\ UNCHANGED <<shown, reports>>

-------------------------------------------------------------------------------
(***************************************************************************)
(* The memory.                                                             *)
(***************************************************************************)

\* The next job, if any, for what lossLessExhaustMap was given, which is a best
\* block with the memory of that time. A best block that cannot be traced to the
\* memory makes it start over from the finalized block. `over`: the block is no
\* longer watched for being canonical.
StartJob(q, mem, pinned) ==
    LET above == Closest(Parent[q.best], mem.blocks, pinned)
    IN  IF q.best \in DOMAIN mem.blocks
          THEN Idle
        ELSE IF q.best \in pinned \ {Genesis} /\ above # Nothing
          THEN [kind |-> "update", block |-> q.best, prev |-> mem.blocks[above],
                base |-> <<>>, over |-> FALSE]
        ELSE [kind |-> "restart", block |-> q.finalized,
              prev |-> IF mem.finalized \in DOMAIN mem.blocks
                         THEN mem.blocks[mem.finalized] ELSE <<>>,
              base |-> <<>>, over |-> FALSE]

InitialJob(b) ==
    [kind |-> "initial", block |-> b, prev |-> <<>>, base |-> <<>>, over |-> FALSE]

\* The inner subscription is over: what is queued comes next. Starting over from
\* a block that is not pinned throws. `old`: the memory was replaced meanwhile.
NextJob(q, mem, old, pinned, late) ==
    LET next == IF q = <<>> THEN Idle
                ELSE IF mem = <<>> THEN InitialJob(q.finalized)
                ELSE StartJob(q, mem, pinned)
        throws == next.kind = "restart" /\ next.block \notin pinned
    IN  /\ job' = IF throws THEN Idle
                 ELSE IF old /\ next # Idle THEN [next EXCEPT !.base = mem]
                 ELSE next
        /\ stuck' = (stuck \/ throws)
        /\ missed' = (late \/ next.kind = "restart" \/ (old /\ q # <<>> /\ next = Idle))
        /\ queued' = <<>>

\* A chain event: the memory takes note of a new best block, or while there is
\* none of a new finalized block, then gives up a job for a block that is not
\* canonical, or that is gone for good.
Note(b, f, pinned) ==
    LET gone == /\ job.block \notin pinned
                /\ Number(job.block) <= Number(f)
        cut  == /\ job.block \in pinned
                /\ ~job.over
                /\ job.block \notin Path[b]
        news == IF memory = <<>> THEN f # final ELSE b # top
        q    == IF news THEN [best |-> b, finalized |-> f] ELSE queued
        late == IF b = top THEN missed ELSE memory = <<>>
    IN  IF stuck THEN UNCHANGED <<job, queued, missed, stuck>>
        ELSE IF Busy /\ ~gone /\ ~cut
          THEN /\ queued' = q
               /\ missed' = late
               /\ job' = [job EXCEPT !.over =
                             @ \/ job.block \notin pinned \/ job.block \in Path[f]]
               /\ UNCHANGED stuck
        ELSE NextJob(q, memory, FALSE, pinned, late)

MemoryBlock(b, prev) ==
    [block   |-> b,
     prev    |-> IF prev = <<>> THEN Nothing ELSE prev.block,
     entries |-> Content[b],
     deltas  |-> Deltas(IF prev = <<>> THEN <<>> ELSE prev.entries, Content[b])]

Learn(mem, x) ==
    [mem EXCEPT !.blocks = [b \in DOMAIN @ \cup {x.block} |->
                               IF b = x.block THEN x ELSE @[b]]]

\* The memory once the job is done.
Remembers(x) ==
    IF job.kind = "update"
      THEN Learn(IF job.base = <<>> THEN memory ELSE job.base, x)
      ELSE [blocks    |-> [b \in {x.block} |-> [x EXCEPT !.prev = Nothing]],
            finalized |-> x.block]

\* The node answers. What was queued meanwhile has the memory of that time.
JobEnds ==
    /\ Busy /\ job.block \in pins
    /\ AllLook(Range(watchers), Remembers(MemoryBlock(job.block, job.prev)),
               top, final, pins)
    /\ LET old == job.kind = "restart" \/ job.base # <<>>
       IN  IF job.kind = "initial"
             THEN job' = Idle /\ queued' = <<>> /\ UNCHANGED <<missed, stuck>>
             ELSE NextJob(queued, IF old THEN memory ELSE memory', old, pins, missed)
    /\ UNCHANGED <<pinsVars, watchers>>

-------------------------------------------------------------------------------
(***************************************************************************)
(* The chain.                                                              *)
(***************************************************************************)
\* The watchers whose block changed look; without a memory there is nothing yet.
ChainEvent(b, f, pinned) ==
    /\ pins' = pinned /\ top' = b /\ final' = f
    /\ Note(b, f, pinned)
    /\ IF memory = <<>> THEN Silent(memory)
       ELSE AllLook({w \in Range(watchers) : Target(w, b, f) # Target(w, top, final)},
                    memory, b, f, pinned)
    /\ UNCHANGED watchers

\* Blocks are announced, and the last one is the best one.
TopChanges ==
    /\ \E b \in Chain \ {top} :
        /\ final \in Path[b]
        /\ ChainEvent(b, final, pins \cup (Path[b] \ Path[final]))
    /\ UNCHANGED losses

FinalChanges ==
    /\ \E f \in Path[top] \ Path[final] : ChainEvent(top, f, pins)
    /\ UNCHANGED losses

\* The subscription was lost, and the next one has none of the known blocks.
Lose ==
    /\ losses < MaxLosses
    /\ losses' = losses + 1
    /\ \E f \in Chain \ pins : \E b \in Chain :
        /\ final \in Path[f] /\ f \in Path[b]
        /\ ChainEvent(b, f, {f} \cup (Path[b] \ Path[f]))

\* The timers of the clean-up and of the release of a block: what is pruned or
\* older than the finalized block goes, but not the block of the job.
Tidy ==
    LET old == {b \in pins : final \notin Path[b]}
    IN  /\ pins' = pins \ {b \in old : ~Busy \/ b # job.block}
        /\ pins' # pins
        /\ UNCHANGED <<top, final, losses, memoryVars, watchers, shown, reports>>

WatchInit ==
    /\ pins = {Genesis} /\ top = Genesis /\ final = Genesis
    /\ losses = 0
    /\ memory = <<>>
    /\ job = InitialJob(Genesis)
    /\ queued = <<>>
    /\ missed = TRUE /\ stuck = FALSE
    /\ watchers \in {<<"best">>, <<"finalized">>,
                     <<"best", "finalized">>, <<"finalized", "best">>}
    /\ shown = [w \in {"best", "finalized"} |-> <<>>]
    /\ reports = [w \in {"best", "finalized"} |-> <<>>]

WatchNext == JobEnds \/ TopChanges \/ FinalChanges \/ Lose \/ Tidy

WatchSpec == WatchInit /\ [][WatchNext]_watchVars

-------------------------------------------------------------------------------
\* Whoever applies the deltas to what it was told before has the entries of each
\* block that is reported, whatever was skipped, forgotten or reorganised.
DeltasAddUp ==
    \A w \in Range(watchers) : \A i \in DOMAIN reports[w] :
        reports[w][i].entries = Content[reports[w][i].block]

\* The finalized watcher reports finalized blocks, and the last one is the one it
\* will compare with.
FinalIsReported ==
    \A i \in DOMAIN reports["finalized"] :
        reports["finalized"][i].block \in Path[final]

\* When nothing is under way the best watcher has reported the best block, unless
\* that was `missed`, which the next best block makes up for, or
\* lossLessExhaustMap is stuck.
BestIsReported ==
    /\ "best" \in Range(watchers)
    /\ ~Busy /\ ~missed /\ ~stuck /\ memory # <<>>
    => reports["best"] # <<>> /\ Last(reports["best"]).block = top

\* Watched entries are those of the chain.
EntriesAreRight ==
    WatchTypeOK /\ DeltasAddUp /\ FinalIsReported /\ BestIsReported
===============================================================================
