-------------------------- MODULE BlockQueriesProofs --------------------------
(***************************************************************************)
(* What BlockQueries guarantees for any number of consumers and keys, any  *)
(* chain, and any number of stops, refusals and failures; what             *)
(* EventStreams does for any chain, any turns of it and any answers.       *)
(***************************************************************************)
EXTENDS BlockQueries, EventStreams, SequenceLemmas, TLAPS

Keys      == 1 .. NKeys
Somewhere == Blocks \cup {Nowhere}
Kinds     == {"value", "values"}

Pins == [ready : BOOLEAN, initialized : BOOLEAN, blocks : SUBSET Blocks,
         recovering : SUBSET Blocks, finalized : Blocks, best : Blocks]

AskRecord == [kind : Kinds, at : Somewhere \cup Dynamic,
              phase : {"idle", "resolving", "asking", "retrying", "archive"} \cup Settled,
              on : Somewhere, of : Somewhere,
              results : [Keys -> Somewhere], mixed : BOOLEAN]

StreamRecord == [st : {"off"} \cup Working \cup Errors, block : Somewhere,
                 all : Seq(Keys), seen : BOOLEAN, keys : Seq(Keys), rest : Seq(Keys),
                 due : SUBSET Keys, got : SUBSET Keys, to : SUBSET Consumer]

Typed ==
    /\ pins \in Pins
    /\ shown \in [best : Blocks, finalized : Blocks]
    /\ asks \in [Consumer -> AskRecord]
    /\ streams \in [Consumer -> StreamRecord]
    /\ cache \in [Blocks -> Consumer \cup {None, Stored}]
    /\ toRelease \subseteq Blocks
    /\ wasReset \in BOOLEAN

-------------------------------------------------------------------------------
(***************************************************************************)
(* The inductive invariant.                                                *)
(***************************************************************************)
\* The blocks p: what is ready begins at its finalized block, and nothing of a
\* subscription that is not ready yet is below it.
PinsOk(p) ==
    /\ p.ready => /\ p.initialized /\ p.recovering = {}
                  /\ p.best \in p.blocks /\ p.finalized \in Roots[p.best]
    /\ p.initialized => p.finalized \in p.blocks \ p.recovering
    /\ ~p.initialized => p.blocks = p.recovering
    /\ ~p.ready => \A b \in p.blocks \ p.recovering : p.finalized \in Roots[b]

\* best$ and finalized$ replay a block that is there, unless blocks were dropped.
ShownOk(p, s) ==
    /\ p.ready => s = [best |-> p.best, finalized |-> p.finalized]
    /\ ~wasReset => s.best \in p.blocks /\ s.finalized \in p.blocks

\* What a consumer heard is of the block it is about.
ResultsOk(a) ==
    \A k \in Keys :
        /\ a.results[k] # Nowhere => k \in Present[a.results[k]]
        /\ a.at \in Blocks => a.results[k] \in {Nowhere, a.at}
        /\ a.kind = "value" /\ a.phase # "done" => a.results[k] = Nowhere
        /\ a.phase = "asking" /\ ~a.mixed => a.results[k] \in {Nowhere, a.on}

AnswerOk(a) ==
    a.phase = "done" =>
        /\ a.of \in Blocks
        /\ a.at \in Blocks => a.of = a.at
        /\ a.mixed \/ \A k \in AsSet(KeysOf(a.kind)) :
              a.results[k] = IF k \in Present[a.of] THEN a.of ELSE Nowhere

AskOk(a) ==
    /\ a.phase = "idle" => a = NoAsk
    /\ a.phase # "idle" => a.at \in Blocks \cup Dynamic
    /\ a.phase = "archive" => a.at \in Blocks
    /\ a.phase = "asking" => a.on \in Blocks
    /\ a.at \in Blocks => a.on \in {Nowhere, a.at}
    /\ ResultsOk(a) /\ AnswerOk(a)

\* What an operation has left to do: every key of the query that has a value is
\* got, asked for, on its way, or asked for next.
WorkOk(x) ==
    /\ x.got \cup x.due \subseteq Present[x.block]
    /\ x.st \in {"asked", "queued"} =>
         AsSet(x.all) \cap Present[x.block] \subseteq x.got \cup AsSet(x.keys)
    /\ x.st = "runs" =>
         AsSet(x.all) \cap Present[x.block] \subseteq x.got \cup x.due \cup AsSet(x.rest)

\* The stream x that s created.
StreamOk(x, s, a, p) ==
    /\ x.st \notin Errors
    /\ x.st = "off" => x = NoStream
    /\ x.st # "off" =>
         /\ x.block \in Blocks /\ x.to # {}
         /\ x.all = KeysOf(a.kind)
         /\ a.phase \in {"asking", "left"} /\ (a.phase = "asking" => s \in x.to)
         /\ WorkOk(x)
    /\ x.st \in Working \ {"waits"} => p.ready /\ x.block \in p.blocks

\* Consumer c with the ask a listens to the stream x of s, whose ask is by.
ListensOk(c, s, x, a, by) ==
    c \in x.to =>
        /\ a.kind = by.kind /\ (a.kind = "values" => c = s)
        /\ \/ a.phase = "asking" /\ a.on = x.block
           \/ a.phase = "left" /\ a.kind = "value" /\ x.block \in toRelease

ListenersOk ==
    /\ \A c, s \in Consumer : ListensOk(c, s, streams[s], asks[c], asks[s])
    /\ \A c, s, t \in Consumer : c \in streams[s].to /\ c \in streams[t].to => s = t
    /\ \A c \in Consumer :
          asks[c].phase = "asking" => \E s \in Consumer : c \in streams[s].to

CacheOk(b) ==
    cache[b] \in Consumer =>
        /\ streams[cache[b]].st # "off" /\ streams[cache[b]].block = b
        /\ asks[cache[b]].kind = "value"

\* No call of the best or finalized block failed, unless blocks were dropped.
FailuresOk ==
    ~wasReset => \A c \in Consumer : ~(asks[c].at \in Dynamic /\ asks[c].phase = "failed")

QueryInv ==
    /\ Typed
    /\ PinsOk(pins)
    /\ ShownOk(pins, shown)
    /\ \A c \in Consumer : AskOk(asks[c])
    /\ \A s \in Consumer : StreamOk(streams[s], s, asks[s], pins)
    /\ ListenersOk
    /\ \A b \in Blocks : CacheOk(b)
    /\ FailuresOk

-------------------------------------------------------------------------------
(***************************************************************************)
(* The chain.                                                              *)
(***************************************************************************)
LEMMA ChainFacts ==
    /\ Len(Above) \in Nat /\ Len(Above) >= 1
    /\ 0 \in Blocks /\ 1 \in Blocks
    /\ Blocks \subseteq Nat
    /\ \A b \in Blocks : b # 0 => Up(b) \in Blocks /\ Up(b) < b
<1>1. Len(Above) \in Nat /\ Len(Above) >= 1
  BY QueryAssumption
<1>2. \A b \in 1 .. Len(Above) : Above[b] \in 0 .. b - 1
  BY QueryAssumption
<1>3. QED
  BY <1>1, <1>2 DEF Blocks, Up

LEMMA UpRanks ==
    Ranks([b \in Blocks |-> b], [b \in Blocks |-> IF b = 0 THEN 0 ELSE Up(b)],
          {0}, Blocks)
  BY ChainFacts DEF Ranks

LEMMA RankUnfolds ==
    Rank = [b \in Blocks |-> IF b = 0 THEN 0 ELSE Rank[Up(b)] + 1]
    /\ Rank \in [Blocks -> Nat]
<1> DEFINE below == [b \in Blocks |-> IF b = 0 THEN 0 ELSE Up(b)]
           start == [b \in Blocks |-> 0]
           F     == [b \in Blocks |-> [n \in Nat |-> n + 1]]
<1>1. Steps(start, F, Blocks, Nat)
  BY DEF Steps
<1>0. \A b \in Blocks : b # 0 => below[b] = Up(b) /\ below[b] \in Blocks
  BY ChainFacts
<1>r. Ranks([b \in Blocks |-> b], below, {0}, Blocks)
  BY UpRanks
<1> HIDE DEF start, F, below
<1>2. PICK g \in [Blocks -> Nat] : Solves(g, start, F, below, {0}, Blocks)
  BY <1>1, <1>r, RecursionByRank
<1>3. \A b \in Blocks : g[b] = IF b = 0 THEN 0 ELSE g[Up(b)] + 1
  BY <1>0, <1>2 DEF Solves, start, F
<1>4. g = [b \in Blocks |-> g[b]]
  OBVIOUS
<1>5. g = [b \in Blocks |-> IF b = 0 THEN 0 ELSE g[Up(b)] + 1]
  BY <1>3, <1>4, Zenon
<1>6. Rank = [b \in Blocks |-> IF b = 0 THEN 0 ELSE Rank[Up(b)] + 1]
  BY <1>5 DEF Rank
<1>7. \A b \in Blocks : Rank[b] = IF b = 0 THEN 0 ELSE Rank[Up(b)] + 1
  BY <1>6
<1> DEFINE N == {n \in Nat : \A b \in Blocks : b <= n => Rank[b] \in Nat}
<1>8. 0 \in N
  BY <1>7, ChainFacts
<1>9. ASSUME NEW n \in Nat, n \in N PROVE n + 1 \in N
  <2>0. \A b \in Blocks : b <= n => Rank[b] \in Nat
    BY <1>9
  <2>1. ASSUME NEW b \in Blocks, b <= n + 1, b # 0 PROVE Rank[b] \in Nat
    <3>0. Up(b) \in Blocks /\ Up(b) < b /\ b \in Nat /\ Up(b) \in Nat
      BY <2>1, ChainFacts
    <3>1. Up(b) <= n
      BY <2>1, <3>0
    <3>2. Rank[Up(b)] \in Nat
      BY <2>0, <3>0, <3>1
    <3>3. Rank[b] = Rank[Up(b)] + 1
      BY <1>7, <2>1
    <3>4. QED
      BY <3>2, <3>3
  <2>2. QED
    BY <1>7, <2>1
<1> HIDE DEF N
<1>10. Nat \subseteq N
  BY <1>8, <1>9, InductionOverNat
<1>11. \A b \in Blocks : Rank[b] \in Nat
  <2> SUFFICES ASSUME NEW b \in Blocks PROVE Rank[b] \in Nat
    OBVIOUS
  <2>1. b \in Nat /\ b <= b
    BY ChainFacts
  <2>2. b \in N
    BY <1>10, <2>1
  <2>3. QED
    BY <2>1, <2>2 DEF N
<1>12. QED
  BY <1>6, <1>11

LEMMA RootsUnfold ==
    \A b \in Blocks : Roots[b] = {b} \cup IF b = 0 THEN {} ELSE Roots[Up(b)]
<1> DEFINE below == [b \in Blocks |-> IF b = 0 THEN 0 ELSE Up(b)]
           start == [b \in Blocks |-> {b}]
           F     == [b \in Blocks |-> [s \in SUBSET Blocks |-> {b} \cup s]]
<1>1. Steps(start, F, Blocks, SUBSET Blocks)
  BY DEF Steps
<1>0. \A b \in Blocks : b # 0 => below[b] = Up(b) /\ below[b] \in Blocks
  BY ChainFacts
<1>r. Ranks([b \in Blocks |-> b], below, {0}, Blocks)
  BY UpRanks
<1> HIDE DEF start, F, below
<1>2. PICK g \in [Blocks -> SUBSET Blocks] : Solves(g, start, F, below, {0}, Blocks)
  BY <1>1, <1>r, RecursionByRank
<1>3. \A b \in Blocks : g[b] = {b} \cup IF b = 0 THEN {} ELSE g[Up(b)]
  BY <1>0, <1>2 DEF Solves, start, F
<1>4. g = [b \in Blocks |-> g[b]]
  OBVIOUS
<1>5. g = [b \in Blocks |-> {b} \cup IF b = 0 THEN {} ELSE g[Up(b)]]
  BY <1>3, <1>4, Zenon
<1>6. Roots = [b \in Blocks |-> {b} \cup IF b = 0 THEN {} ELSE Roots[Up(b)]]
  BY <1>5 DEF Roots
<1>7. QED
  BY <1>6

\* A block stands on itself, and on what the block below it stands on.
LEMMA RootsFacts ==
    ASSUME NEW b \in Blocks
    PROVE  /\ b \in Roots[b]
           /\ b # 0 => Roots[Up(b)] \subseteq Roots[b]
  BY RootsUnfold

-------------------------------------------------------------------------------
LEMMA QueryInvInit == QueryInit => QueryInv
<1> SUFFICES ASSUME QueryInit PROVE QueryInv
  OBVIOUS
<1> USE DEF QueryInit
<1>1. NoAsk \in AskRecord
  BY QueryAssumption DEF NoAsk, AskRecord, Kinds, Somewhere, Settled, Keys
<1>2. NoStream \in StreamRecord
  BY DEF NoStream, StreamRecord, Somewhere, Working, Errors
<1>3. Typed
  <2>1. pins \in Pins /\ shown \in [best : Blocks, finalized : Blocks]
    BY ChainFacts DEF Pins
  <2>2. asks \in [Consumer -> AskRecord] /\ streams \in [Consumer -> StreamRecord]
    BY <1>1, <1>2
  <2>3. QED
    BY <2>1, <2>2 DEF Typed
<1>4. PinsOk(pins) /\ ShownOk(pins, shown)
  <2>1. 0 \in Roots[1] /\ 0 \in Roots[0]
    <3>1. Up(1) = 0
      BY ChainFacts, QueryAssumption DEF Up, Blocks
    <3>2. QED
      BY <3>1, ChainFacts, RootsUnfold
  <2>2. QED
    BY <2>1, ChainFacts DEF PinsOk, ShownOk
<1>5. \A c \in Consumer : AskOk(asks[c])
  BY QueryAssumption, ChainFacts
     DEF AskOk, ResultsOk, AnswerOk, NoAsk, Dynamic, AtBest, AtFinalized, Nowhere, Keys
<1>6. \A s \in Consumer : StreamOk(streams[s], s, asks[s], pins)
  BY DEF StreamOk, NoStream, Errors, Working
<1>7. ListenersOk /\ FailuresOk
  BY DEF ListenersOk, ListensOk, NoStream, NoAsk, FailuresOk
<1>8. \A b \in Blocks : CacheOk(b)
  BY WantedAssumption DEF CacheOk
<1>9. QED
  BY <1>3, <1>4, <1>5, <1>6, <1>7, <1>8 DEF QueryInv

-------------------------------------------------------------------------------
(***************************************************************************)
(* The ways in which steps keep it: an ask changes that listens to no      *)
(* stream, a stream goes on with its work, or streams end.                 *)
(***************************************************************************)
\* Whoever neither waits for a stream nor just left one has none.
LEMMA NotListening ==
    ASSUME QueryInv, NEW c \in Consumer, asks[c].phase \notin {"asking", "left"}
    PROVE  /\ \A s \in Consumer : c \notin streams[s].to
           /\ streams[c].st = "off"
           /\ \A b \in Blocks : cache[b] # c
<1>1. \A s \in Consumer : c \notin streams[s].to
  BY DEF QueryInv, ListenersOk, ListensOk
<1>2. streams[c].st = "off"
  BY DEF QueryInv, StreamOk
<1>3. \A b \in Blocks : cache[b] # c
  BY <1>2 DEF QueryInv, CacheOk
<1>4. QED
  BY <1>1, <1>2, <1>3

\* While no consumer is leaving, who listens to a stream holds its block.
LEMMA ListenersHold ==
    ASSUME QueryInv, Quiet, NEW s \in Consumer
    PROVE  /\ \A c \in streams[s].to :
                c \in Consumer /\ asks[c].phase = "asking" /\ asks[c].on = streams[s].block
           /\ streams[s].st # "off" => InUse(streams[s].block)
<1>1. ASSUME NEW c \in streams[s].to
      PROVE  c \in Consumer /\ asks[c].phase = "asking" /\ asks[c].on = streams[s].block
  <2>1. c \in Consumer
    BY DEF QueryInv, Typed, StreamRecord
  <2>2. asks[c].phase # "left"
    BY <2>1 DEF Quiet, Leaving
  <2>3. QED
    BY <2>1, <2>2 DEF QueryInv, ListenersOk, ListensOk
<1>2. streams[s].st # "off" => streams[s].to # {}
  BY DEF QueryInv, StreamOk
<1>3. QED
  BY <1>1, <1>2 DEF InUse

LEMMA AskChanges ==
    ASSUME QueryInv, NEW c \in Consumer, asks[c].phase \notin {"asking", "left"},
           NEW a \in AskRecord, AskOk(a), a.phase # "asking",
           wasReset \/ ~(a.at \in Dynamic /\ a.phase = "failed"),
           asks' = [asks EXCEPT ![c] = a],
           toRelease \subseteq toRelease', toRelease' \subseteq Blocks,
           UNCHANGED <<pins, shown, streams, cache, wasReset>>
    PROVE  QueryInv'
<1>0. /\ \A s \in Consumer : c \notin streams[s].to
      /\ streams[c].st = "off"
      /\ \A b \in Blocks : cache[b] # c
  BY NotListening
<1>a. /\ asks \in [Consumer -> AskRecord]
      /\ asks'[c] = a
      /\ \A d \in Consumer : d # c => asks'[d] = asks[d]
  BY DEF QueryInv, Typed
<1>1. Typed'
  BY DEF QueryInv, Typed
<1>2. PinsOk(pins') /\ ShownOk(pins, shown)'
  BY DEF QueryInv, ShownOk
<1>3. \A d \in Consumer : AskOk(asks'[d])
  BY <1>a DEF QueryInv
<1>4. \A s \in Consumer : StreamOk(streams'[s], s, asks'[s], pins')
  <2>1. StreamOk(streams[c], c, asks'[c], pins)
    BY <1>0 DEF QueryInv, StreamOk, Working
  <2>2. QED
    BY <1>a, <2>1 DEF QueryInv
<1>5. ListenersOk'
  <2>1. \A d, s \in Consumer : ListensOk(d, s, streams[s], asks[d], asks[s])'
    <3> SUFFICES ASSUME NEW d \in Consumer, NEW s \in Consumer, d \in streams[s].to
                 PROVE  ListensOk(d, s, streams[s], asks[d], asks[s])'
      BY DEF ListensOk
    <3>1. d # c /\ s # c
      BY <1>0 DEF QueryInv, StreamOk, NoStream
    <3>2. QED
      BY <1>a, <3>1 DEF QueryInv, ListenersOk, ListensOk
  <2>2. QED
    BY <1>a, <2>1 DEF QueryInv, ListenersOk
<1>6. \A b \in Blocks : CacheOk(b)'
  BY <1>0, <1>a DEF QueryInv, CacheOk
<1>7. FailuresOk'
  BY <1>a DEF QueryInv, FailuresOk
<1>8. QED
  BY <1>1, <1>2, <1>3, <1>4, <1>5, <1>6, <1>7 DEF QueryInv

LEMMA StreamChanges ==
    ASSUME QueryInv, NEW s \in Consumer, streams[s].st # "off",
           NEW x \in StreamRecord, x.st # "off",
           x.to = streams[s].to, x.block = streams[s].block,
           StreamOk(x, s, asks[s], pins),
           NEW a \in AskRecord, AskOk(a),
           a.kind = asks[s].kind, a.at = asks[s].at, a.phase = asks[s].phase,
           a.on = asks[s].on,
           streams' = [streams EXCEPT ![s] = x],
           asks' = [asks EXCEPT ![s] = a],
           UNCHANGED <<pins, shown, cache, toRelease, wasReset>>
    PROVE  QueryInv'
<1>a. /\ asks'[s] = a
      /\ \A d \in Consumer : d # s => asks'[d] = asks[d]
      /\ streams'[s] = x
      /\ \A d \in Consumer : d # s => streams'[d] = streams[d]
  BY DEF QueryInv, Typed
<1>b. \A d \in Consumer : /\ asks'[d].kind = asks[d].kind /\ asks'[d].at = asks[d].at
                          /\ asks'[d].phase = asks[d].phase /\ asks'[d].on = asks[d].on
                          /\ streams'[d].to = streams[d].to
                          /\ streams'[d].block = streams[d].block
  BY <1>a
<1>1. Typed'
  BY DEF QueryInv, Typed
<1>2. PinsOk(pins') /\ ShownOk(pins, shown)'
  BY DEF QueryInv, ShownOk
<1>3. \A d \in Consumer : AskOk(asks'[d])
  BY <1>a DEF QueryInv
<1>4. \A d \in Consumer : StreamOk(streams'[d], d, asks'[d], pins')
  BY <1>a DEF QueryInv, StreamOk
<1>5. ListenersOk'
  BY <1>b DEF QueryInv, ListenersOk, ListensOk
<1>6. \A b \in Blocks : CacheOk(b)'
  BY <1>a, <1>b DEF QueryInv, CacheOk
<1>7. FailuresOk'
  BY <1>b DEF QueryInv, FailuresOk
<1>8. QED
  BY <1>1, <1>2, <1>3, <1>4, <1>5, <1>6, <1>7 DEF QueryInv

\* Nothing is between the ask of c and what it is after E's streams ended, unless
\* c waited for one of them.
Moved(c, E) ==
    \/ asks'[c] = asks[c]
    \/ /\ asks[c].phase = "asking" /\ asks'[c].phase # "asking"
       /\ asks'[c].kind = asks[c].kind
       /\ \E s \in E : c \in streams[s].to

SameStream(x, y) ==
    x.to = y.to /\ x.block = y.block /\ (x.st = "off" <=> y.st = "off")

LEMMA StreamsEnd ==
    ASSUME QueryInv,
           Typed', PinsOk(pins'), ShownOk(pins, shown)', wasReset => wasReset',
           NEW ss, NEW E \in SUBSET Consumer,
           \A s \in Consumer : SameStream(ss[s], streams[s]),
           \A s \in Consumer \ E : StreamOk(ss[s], s, asks[s], pins'),
           streams' = [s \in Consumer |-> IF s \in E THEN NoStream ELSE ss[s]],
           \A c \in Consumer : AskOk(asks'[c]),
           \A c \in Consumer : Moved(c, E),
           \A c \in Consumer, s \in E : c \in streams[s].to => asks'[c].phase # "asking",
           \A c \in Consumer : asks'[c].phase = "failed" => asks'[c] = asks[c],
           \A b \in Blocks : cache'[b] \in Consumer =>
               cache'[b] = cache[b] /\ cache[b] \notin E,
           toRelease \subseteq toRelease'
    PROVE  QueryInv'
<1>0. \A s \in E : s \in Consumer
  OBVIOUS
<1>a. \A s \in Consumer : streams'[s] = IF s \in E THEN NoStream ELSE ss[s]
  OBVIOUS
\* Who listens to a stream that goes on has the same ask as before.
<1>b. ASSUME NEW c \in Consumer, NEW s \in Consumer \ E, c \in streams[s].to
      PROVE  asks'[c] = asks[c]
  BY <1>0, <1>b DEF Moved, QueryInv, ListenersOk
<1>c. ASSUME NEW s \in Consumer \ E, streams[s].st # "off"
      PROVE  asks'[s] = asks[s]
  <2>1. asks[s].phase = "asking" => s \in streams[s].to
    BY <1>c DEF QueryInv, StreamOk
  <2>2. QED
    BY <1>b, <2>1 DEF Moved
<1>1. \A s \in Consumer : StreamOk(streams'[s], s, asks'[s], pins')
  <2>1. ASSUME NEW s \in E PROVE StreamOk(streams'[s], s, asks'[s], pins')
    BY <1>0, <1>a DEF StreamOk, NoStream, Errors, Working
  <2>2. ASSUME NEW s \in Consumer \ E, ss[s].st # "off"
        PROVE  StreamOk(streams'[s], s, asks'[s], pins')
    BY <1>a, <1>c, <2>2 DEF SameStream
  <2>3. ASSUME NEW s \in Consumer \ E, ss[s].st = "off"
        PROVE  StreamOk(streams'[s], s, asks'[s], pins')
    <3>1. streams'[s] = NoStream
      BY <1>a, <2>3 DEF StreamOk
    <3>2. QED
      BY <3>1 DEF StreamOk, NoStream, Errors, Working
  <2>4. QED
    BY <2>1, <2>2, <2>3
<1>2. ListenersOk'
  <2>0. ASSUME NEW c \in Consumer, NEW s \in Consumer, c \in streams'[s].to
        PROVE  s \notin E /\ c \in streams[s].to /\ streams'[s].block = streams[s].block
               /\ streams[s].st # "off"
    <3>1. s \notin E
      BY <1>a, <2>0 DEF NoStream
    <3>2. c \in streams[s].to /\ streams'[s].block = streams[s].block
      BY <1>a, <2>0, <3>1 DEF SameStream
    <3>3. streams[s].st # "off"
      BY <3>2 DEF QueryInv, StreamOk, NoStream
    <3>4. QED
      BY <3>1, <3>2, <3>3
  <2>1. ASSUME NEW c \in Consumer, NEW s \in Consumer
        PROVE  ListensOk(c, s, streams[s], asks[c], asks[s])'
    <3> SUFFICES ASSUME c \in streams'[s].to
                 PROVE  ListensOk(c, s, streams[s], asks[c], asks[s])'
      BY DEF ListensOk
    <3>1. asks'[c] = asks[c] /\ asks'[s] = asks[s]
      BY <1>b, <1>c, <2>0
    <3>2. QED
      BY <2>0, <3>1 DEF QueryInv, ListenersOk, ListensOk
  <2>2. \A c, s, t \in Consumer : c \in streams'[s].to /\ c \in streams'[t].to => s = t
    BY <2>0 DEF QueryInv, ListenersOk
  <2>3. ASSUME NEW c \in Consumer, asks'[c].phase = "asking"
        PROVE  \E s \in Consumer : c \in streams'[s].to
    <3>1. asks[c].phase = "asking"
      BY <2>3 DEF Moved
    <3>2. PICK s \in Consumer : c \in streams[s].to
      BY <3>1 DEF QueryInv, ListenersOk
    <3>3. s \notin E
      BY <2>3, <3>2
    <3>4. QED
      BY <1>a, <3>2, <3>3 DEF SameStream
  <2>4. QED
    BY <2>1, <2>2, <2>3 DEF ListenersOk
<1>3. ASSUME NEW b \in Blocks PROVE CacheOk(b)'
  <2> SUFFICES ASSUME cache'[b] \in Consumer PROVE CacheOk(b)'
    BY DEF CacheOk
  <2>1. cache'[b] = cache[b] /\ cache[b] \in Consumer \ E
    OBVIOUS
  <2>2. streams[cache[b]].st # "off" /\ streams[cache[b]].block = b
        /\ asks[cache[b]].kind = "value"
    BY <2>1 DEF QueryInv, CacheOk
  <2>3. QED
    BY <1>a, <1>c, <2>1, <2>2 DEF CacheOk, SameStream
<1>4. FailuresOk'
  BY DEF QueryInv, FailuresOk
<1>5. QED
  BY <1>1, <1>2, <1>3, <1>4 DEF QueryInv

-------------------------------------------------------------------------------
(***************************************************************************)
(* What pinnedBlocks$ emits, and the errors of streams.                    *)
(***************************************************************************)
\* An error sends a consumer to the archive, to another try, or to the block that
\* is best or finalized by then; what it heard stays right.
LEMMA AfterErrorFacts ==
    ASSUME NEW a \in AskRecord, AskOk(a), a.phase = "asking", NEW why \in Errors
    PROVE  /\ AfterError(a, why) \in AskRecord /\ AskOk(AfterError(a, why))
           /\ AfterError(a, why).phase \in {"retrying", "archive", "resolving"}
           /\ AfterError(a, why).kind = a.kind
           /\ AfterError(a, why).phase # "retrying" => why = "notPinned"
<1>1. a.at \in Blocks \/ a.at \in Dynamic
  BY DEF AskOk
<1>2. a.at \in Dynamic => a.at \notin Blocks
  BY ChainFacts DEF Dynamic, AtBest, AtFinalized
<1> DEFINE r == AfterError(a, why)
<1>3. r \in {[a EXCEPT !.phase = "retrying"],
             [a EXCEPT !.phase = "retrying", !.on = Nowhere],
             [a EXCEPT !.phase = "archive", !.on = Nowhere],
             [a EXCEPT !.phase = "resolving", !.on = Nowhere]}
      /\ (r.phase = "archive" => a.at \in Blocks)
      /\ (r.phase # "retrying" => why = "notPinned")
  <2>1. CASE why = "inaccessible" /\ a.at \in Blocks
    BY <1>1, <1>2, <2>1 DEF AfterError, AskRecord
  <2>2. CASE why = "inaccessible" /\ a.at \in Dynamic
    BY <1>1, <1>2, <2>2 DEF AfterError, AskRecord
  <2>3. CASE why = "notPinned" /\ a.at \in Blocks
    BY <1>1, <1>2, <2>3 DEF AfterError, AskRecord
  <2>4. CASE why = "notPinned" /\ a.at \in Dynamic
    BY <1>1, <1>2, <2>4 DEF AfterError, AskRecord
  <2>5. QED
    BY <1>1, <2>1, <2>2, <2>3, <2>4 DEF Errors
<1> HIDE DEF r
<1>4. r \in AskRecord
  <2>1. /\ [a EXCEPT !.phase = "retrying"] \in AskRecord
        /\ [a EXCEPT !.phase = "retrying", !.on = Nowhere] \in AskRecord
    BY DEF AskRecord, Somewhere
  <2>2. /\ [a EXCEPT !.phase = "archive", !.on = Nowhere] \in AskRecord
        /\ [a EXCEPT !.phase = "resolving", !.on = Nowhere] \in AskRecord
    BY DEF AskRecord, Somewhere
  <2>3. QED
    BY <1>3, <2>1, <2>2
<1>5. /\ r.phase \in {"retrying", "archive", "resolving"}
      /\ r.kind = a.kind /\ r.at = a.at /\ r.results = a.results
      /\ r.on \in {a.on, Nowhere}
  BY <1>3 DEF AskRecord
<1>6. AskOk(r)
  BY <1>1, <1>3, <1>5 DEF AskOk, ResultsOk, AnswerOk
<1>7. QED
  BY <1>3, <1>4, <1>5, <1>6 DEF r

\* Who loses its stream is asked after what the stream failed of.
LEMMA PublishFacts ==
    ASSUME QueryInv, Quiet,
           NEW ss \in [Consumer -> StreamRecord], NEW kept, Publish(ss, kept),
           \A s \in Consumer : SameStream(ss[s], streams[s])
    PROVE  /\ \A c \in Consumer :
                \/ /\ asks'[c] = asks[c]
                   /\ asks[c].phase = "asking" =>
                        \A s \in Consumer : ss[s].st \in Errors => c \notin streams[s].to
                \/ /\ asks[c].phase = "asking"
                   /\ \E s \in Consumer : /\ ss[s].st \in Errors /\ c \in streams[s].to
                                          /\ asks'[c] = AfterError(asks[c], ss[s].st)
           /\ asks' = [c \in Consumer |-> asks'[c]]
<1> DEFINE broken == {s \in Consumer : ss[s].st \in Errors}
           hit(c) == asks[c].phase = "asking" /\ \E s \in broken : c \in ss[s].to
           of(c)  == CHOOSE s \in broken : c \in ss[s].to
<1>1. asks' = [c \in Consumer |-> IF hit(c) THEN AfterError(asks[c], ss[of(c)].st)
                                            ELSE asks[c]]
  BY DEF Publish
<1>2. ASSUME NEW c \in Consumer, hit(c) PROVE of(c) \in broken /\ c \in ss[of(c)].to
  BY <1>2
<1>3. \A s \in Consumer : ss[s].to = streams[s].to
  BY DEF SameStream
<1>4. ASSUME NEW c \in Consumer
      PROVE  \/ /\ asks'[c] = asks[c]
                /\ asks[c].phase = "asking" =>
                     \A s \in Consumer : ss[s].st \in Errors => c \notin streams[s].to
             \/ /\ asks[c].phase = "asking"
                /\ \E s \in Consumer : /\ ss[s].st \in Errors /\ c \in streams[s].to
                                       /\ asks'[c] = AfterError(asks[c], ss[s].st)
  <2>1. CASE hit(c)
    <3>1. of(c) \in broken /\ c \in ss[of(c)].to
      BY <1>2, <2>1
    <3>2. asks'[c] = AfterError(asks[c], ss[of(c)].st)
      BY <1>1, <2>1
    <3> HIDE DEF of
    <3>3. QED
      BY <1>3, <2>1, <3>1, <3>2
  <2>2. CASE ~hit(c)
    <3>1. asks'[c] = asks[c]
      BY <1>1, <2>2
    <3>2. QED
      BY <1>3, <2>2, <3>1
  <2>3. QED
    BY <2>1, <2>2
<1>5. asks' = [c \in Consumer |-> asks'[c]]
  BY <1>1
<1>6. QED
  BY <1>4, <1>5

LEMMA PublishStep ==
    ASSUME QueryInv, Quiet,
           NEW ss \in [Consumer -> StreamRecord],
           NEW kept \in [Blocks -> Consumer \cup {None, Stored}],
           \A b \in Blocks : kept[b] \in {cache[b], None},
           Publish(ss, kept),
           \A s \in Consumer : SameStream(ss[s], streams[s]),
           \A s \in Consumer : ss[s].st \notin Errors =>
               StreamOk(ss[s], s, asks[s], pins'),
           pins' \in Pins, PinsOk(pins'),
           shown' \in [best : Blocks, finalized : Blocks], ShownOk(pins, shown)',
           wasReset' \in BOOLEAN, wasReset => wasReset'
    PROVE  QueryInv'
<1> DEFINE broken == {s \in Consumer : ss[s].st \in Errors}
<1>0. /\ asks \in [Consumer -> AskRecord]
      /\ toRelease \subseteq Blocks
      /\ \A c \in Consumer : AskOk(asks[c])
  BY DEF QueryInv, Typed
<1>1. ASSUME NEW c \in Consumer
      PROVE  /\ asks'[c] \in AskRecord /\ AskOk(asks'[c])
             /\ Moved(c, broken)
             /\ \A s \in broken : c \in streams[s].to => asks'[c].phase # "asking"
             /\ asks'[c].phase = "failed" => asks'[c] = asks[c]
  <2>1. CASE asks'[c] = asks[c] /\ (asks[c].phase = "asking" =>
               \A s \in Consumer : ss[s].st \in Errors => c \notin streams[s].to)
    BY <1>0, <2>1 DEF Moved
  <2>2. ASSUME asks[c].phase = "asking",
               NEW s \in Consumer, ss[s].st \in Errors, c \in streams[s].to,
               asks'[c] = AfterError(asks[c], ss[s].st)
        PROVE  /\ asks'[c] \in AskRecord /\ AskOk(asks'[c])
               /\ Moved(c, broken)
               /\ asks'[c].phase # "asking" /\ asks'[c].phase # "failed"
    <3>1. /\ AfterError(asks[c], ss[s].st) \in AskRecord
          /\ AskOk(AfterError(asks[c], ss[s].st))
          /\ AfterError(asks[c], ss[s].st).phase \in {"retrying", "archive", "resolving"}
          /\ AfterError(asks[c], ss[s].st).kind = asks[c].kind
      BY <1>0, <2>2, AfterErrorFacts
    <3>2. QED
      BY <2>2, <3>1 DEF Moved
  <2>3. QED
    BY <2>1, <2>2, PublishFacts
<1>2. asks' \in [Consumer -> AskRecord]
  BY <1>1, PublishFacts
<1>3. /\ streams' = [s \in Consumer |-> IF s \in broken THEN NoStream ELSE ss[s]]
      /\ cache' = [b \in Blocks |-> IF kept[b] \in broken THEN None ELSE kept[b]]
      /\ toRelease \subseteq toRelease'
  BY DEF Publish
<1>4. toRelease' \subseteq Blocks
  <2>1. ASSUME NEW c \in Consumer, asks'[c].on # asks[c].on PROVE asks[c].on \in Blocks
    <3>1. asks[c].phase = "asking"
      BY <2>1, PublishFacts
    <3>2. QED
      BY <1>0, <3>1 DEF AskOk
  <2>2. toRelease' = toRelease \cup {asks[c].on : c \in {d \in Consumer : asks'[d].on # asks[d].on}}
    BY DEF Publish
  <2>3. QED
    BY <1>0, <2>1, <2>2
<1>5. NoStream \in StreamRecord
  BY DEF NoStream, StreamRecord, Somewhere, Working, Errors
<1>6. cache' \in [Blocks -> Consumer \cup {None, Stored}]
      /\ \A b \in Blocks : cache'[b] \in Consumer =>
            cache'[b] = cache[b] /\ cache[b] \notin broken
  BY <1>3, WantedAssumption
<1>7. Typed'
  BY <1>2, <1>3, <1>4, <1>5, <1>6 DEF Typed
<1>8. \A s \in Consumer \ broken : StreamOk(ss[s], s, asks[s], pins')
  OBVIOUS
<1> HIDE DEF broken
<1>9. broken \in SUBSET Consumer
  BY DEF broken
<1>10. /\ \A c \in Consumer : AskOk(asks'[c])
       /\ \A c \in Consumer : Moved(c, broken)
       /\ \A c \in Consumer, s \in broken : c \in streams[s].to => asks'[c].phase # "asking"
       /\ \A c \in Consumer : asks'[c].phase = "failed" => asks'[c] = asks[c]
  BY <1>1
<1>11. /\ streams' = [s \in Consumer |-> IF s \in broken THEN NoStream ELSE ss[s]]
       /\ \A b \in Blocks : cache'[b] \in Consumer =>
            cache'[b] = cache[b] /\ cache[b] \notin broken
       /\ toRelease \subseteq toRelease'
  BY <1>3, <1>6
<1>12. QED
  BY <1>7, <1>8, <1>9, <1>10, <1>11, StreamsEnd

LEMMA RequestFacts ==
    ASSUME NEW x \in StreamRecord, NEW keys \in Seq(Keys)
    PROVE  /\ Request(x, keys) \in StreamRecord
           /\ Request(x, keys).st = "asked" /\ Request(x, keys).keys = keys
           /\ Request(x, keys).due = {} /\ Request(x, keys).got = x.got
           /\ Request(x, keys).to = x.to /\ Request(x, keys).block = x.block
           /\ Request(x, keys).all = x.all
<1>1. <<>> \in Seq(Keys)
  OBVIOUS
<1>2. Request(x, keys) \in StreamRecord
  <2>1. /\ "asked" \in {"off"} \cup Working \cup Errors
        /\ TRUE \in BOOLEAN /\ {} \in SUBSET Keys
    BY DEF Working
  <2>2. QED
    BY <1>1, <2>1 DEF Request, StreamRecord
<1>3. QED
  BY <1>2 DEF Request, StreamRecord

\* withStopRecovery keeps a query on its block, or turns it away from one that is gone.
LEMMA OnPinnedFacts ==
    ASSUME NEW p \in Pins, NEW x \in StreamRecord, NEW s \in Consumer, NEW a \in AskRecord,
           StreamOk(x, s, a, pins),
           p.ready /\ x.st \in Working \ {"waits"} => x.block \in p.blocks
    PROVE  /\ OnPinned(p, x) \in StreamRecord /\ SameStream(OnPinned(p, x), x)
           /\ OnPinned(p, x).st \notin Errors => StreamOk(OnPinned(p, x), s, a, p)
           /\ OnPinned(p, x).st \in Errors =>
                /\ OnPinned(p, x).st = "notPinned"
                /\ p.ready /\ x.block \notin p.blocks
<1> DEFINE y == OnPinned(p, x)
<1>0. x.st \in {"off"} \cup Working
  BY DEF StreamOk, StreamRecord
<1>1. CASE x.st = "off"
  <2>1. y = x
    BY <1>1 DEF OnPinned
  <2>2. StreamOk(x, s, a, p)
    BY <1>1 DEF StreamOk, Working
  <2>3. QED
    BY <1>1, <2>1, <2>2 DEF SameStream, Errors
<1>2. CASE x.st # "off" /\ ~p.ready
  <2>1. y = [x EXCEPT !.st = "waits"]
    BY <1>2 DEF OnPinned
  <2>2. /\ y \in StreamRecord /\ y.st = "waits"
        /\ y.to = x.to /\ y.block = x.block /\ y.all = x.all
        /\ y.got = x.got /\ y.due = x.due
    BY <2>1 DEF StreamRecord, Working
  <2> HIDE DEF y
  <2>3. StreamOk(y, s, a, p)
    BY <1>2, <2>2 DEF StreamOk, WorkOk, Errors, Working
  <2>4. QED
    BY <1>2, <2>2, <2>3 DEF SameStream, Errors, y
<1>3. CASE p.ready /\ x.st \in Working \ {"waits"}
  <2>1. y = x
    BY <1>3 DEF OnPinned, Working
  <2>2. StreamOk(x, s, a, p)
    BY <1>3 DEF StreamOk, Working
  <2>3. QED
    BY <1>3, <2>1, <2>2 DEF SameStream, StreamOk
<1>4. CASE p.ready /\ x.st = "waits" /\ x.block \in p.blocks
  <2>1. y = Request(x, x.all)
    BY <1>4 DEF OnPinned
  <2>2. x.all \in Seq(Keys)
    BY DEF StreamRecord
  <2>3. /\ y \in StreamRecord /\ y.st = "asked" /\ y.keys = x.all
        /\ y.due = {} /\ y.got = x.got
        /\ y.to = x.to /\ y.block = x.block /\ y.all = x.all
    BY <2>1, <2>2, RequestFacts
  <2> HIDE DEF y
  <2>4. StreamOk(y, s, a, p)
    BY <1>4, <2>3 DEF StreamOk, WorkOk, Errors, Working
  <2>5. QED
    BY <1>4, <2>3, <2>4 DEF SameStream, Errors, y
<1>5. CASE p.ready /\ x.st = "waits" /\ x.block \notin p.blocks
  <2>1. y = IF x.seen /\ Rank[p.finalized] < Rank[x.block] THEN x
            ELSE [x EXCEPT !.st = "notPinned"]
    BY <1>5 DEF OnPinned, Working
  <2>3. CASE x.seen /\ Rank[p.finalized] < Rank[x.block]
    <3>1. y = x
      BY <2>1, <2>3
    <3>2. StreamOk(x, s, a, p)
      BY <1>5 DEF StreamOk, Working
    <3>3. QED
      BY <1>5, <3>1, <3>2 DEF SameStream, StreamOk
  <2>4. CASE ~(x.seen /\ Rank[p.finalized] < Rank[x.block])
    <3>1. y = [x EXCEPT !.st = "notPinned"]
      BY <2>1, <2>4
    <3>2. /\ y \in StreamRecord /\ y.st = "notPinned"
          /\ y.to = x.to /\ y.block = x.block
      BY <3>1 DEF StreamRecord, Errors
    <3> HIDE DEF y
    <3>3. QED
      BY <1>5, <3>2 DEF SameStream, Errors, y
  <2>5. QED
    BY <2>3, <2>4
<1>6. QED
  BY <1>0, <1>1, <1>2, <1>3, <1>4, <1>5

\* A block that is in use stays, so that a running operation has its block.
KeepsUsed(p) == pins.ready /\ p.ready =>
                    \A b \in pins.blocks : InUse(b) => b \in p.blocks

LEMMA StreamsOnPinned ==
    ASSUME QueryInv, Quiet, NEW p \in Pins, KeepsUsed(p), NEW s \in Consumer
    PROVE  /\ streams[s] \in StreamRecord /\ asks[s] \in AskRecord
           /\ StreamOk(streams[s], s, asks[s], pins)
           /\ p.ready /\ streams[s].st \in Working \ {"waits"} =>
                streams[s].block \in p.blocks
<1>1. /\ streams[s] \in StreamRecord /\ asks[s] \in AskRecord
      /\ StreamOk(streams[s], s, asks[s], pins)
  BY DEF QueryInv, Typed
<1>2. ASSUME p.ready, streams[s].st \in Working \ {"waits"}
      PROVE  streams[s].block \in p.blocks
  <2>1. pins.ready /\ streams[s].block \in pins.blocks
    BY <1>1, <1>2 DEF StreamOk
  <2>2. InUse(streams[s].block)
    BY <1>2, ListenersHold DEF Working
  <2>3. QED
    BY <1>2, <2>1, <2>2 DEF KeepsUsed
<1>3. QED
  BY <1>1, <1>2

LEMMA EmitStep ==
    ASSUME QueryInv, Quiet, NEW p \in Pins, PinsOk(p), KeepsUsed(p),
           NEW deleted, Emit(p, deleted),
           wasReset' \in BOOLEAN, wasReset => wasReset',
           ~wasReset' => p.ready \/ (shown.best \in p.blocks /\ shown.finalized \in p.blocks)
    PROVE  QueryInv'
<1> DEFINE ss   == [s \in Consumer |-> OnPinned(p, streams[s])]
           kept == [b \in Blocks |-> IF b \in deleted THEN None ELSE cache[b]]
<1>1. /\ pins' = p
      /\ shown' = IF p.ready THEN [best |-> p.best, finalized |-> p.finalized] ELSE shown
      /\ Publish(ss, kept)
  BY DEF Emit
<1>2. kept \in [Blocks -> Consumer \cup {None, Stored}]
      /\ \A b \in Blocks : kept[b] \in {cache[b], None}
  BY DEF QueryInv, Typed
<1>3. ASSUME NEW s \in Consumer
      PROVE  /\ ss[s] \in StreamRecord /\ SameStream(ss[s], streams[s])
             /\ ss[s].st \notin Errors => StreamOk(ss[s], s, asks[s], pins')
  <2>1. ss[s] = OnPinned(p, streams[s])
    OBVIOUS
  <2> HIDE DEF ss
  <2>2. QED
    BY <1>1, <2>1, StreamsOnPinned, OnPinnedFacts
<1>4. ss \in [Consumer -> StreamRecord]
  BY <1>3
<1>5. shown' \in [best : Blocks, finalized : Blocks] /\ ShownOk(pins, shown)'
  <2>1. shown \in [best : Blocks, finalized : Blocks] /\ p.best \in Blocks /\ p.finalized \in Blocks
    BY DEF QueryInv, Typed, Pins
  <2>2. p.ready => p.best \in p.blocks /\ p.finalized \in p.blocks
    BY DEF PinsOk
  <2>3. QED
    BY <1>1, <2>1, <2>2 DEF ShownOk
<1> HIDE DEF ss, kept
<1>6. /\ \A s \in Consumer : SameStream(ss[s], streams[s])
      /\ \A s \in Consumer : ss[s].st \notin Errors => StreamOk(ss[s], s, asks[s], pins')
  BY <1>3
<1>7. pins' \in Pins /\ PinsOk(pins')
  BY <1>1
<1>8. QED
  BY <1>1, <1>2, <1>4, <1>5, <1>6, <1>7, PublishStep

-------------------------------------------------------------------------------
(***************************************************************************)
(* The subscription.                                                       *)
(***************************************************************************)
LEMMA PinsFacts ==
    ASSUME QueryInv
    PROVE  /\ pins.ready \in BOOLEAN /\ pins.initialized \in BOOLEAN
           /\ pins.blocks \subseteq Blocks /\ pins.recovering \subseteq Blocks
           /\ pins.finalized \in Blocks /\ pins.best \in Blocks
           /\ pins \in Pins /\ PinsOk(pins) /\ ShownOk(pins, shown) /\ wasReset \in BOOLEAN
  BY DEF QueryInv, Typed, Pins

LEMMA AnnounceStep ==
    ASSUME QueryInv, NEW b \in Blocks, Announce(b) PROVE QueryInv'
<1> DEFINE p == [pins EXCEPT !.blocks = @ \cup {b}, !.recovering = @ \ {b}]
<1>1. /\ Quiet /\ pins.initialized /\ pins.finalized \in Roots[b] /\ Emit(p, {})
      /\ wasReset' = wasReset
  BY DEF Announce
<1>2. /\ p \in Pins
      /\ p.blocks = pins.blocks \cup {b} /\ p.recovering = pins.recovering \ {b}
      /\ p.ready = pins.ready /\ p.initialized = pins.initialized
      /\ p.best = pins.best /\ p.finalized = pins.finalized
  BY PinsFacts DEF Pins
<1> HIDE DEF p
<1>3. PinsOk(p) /\ KeepsUsed(p)
  BY <1>1, <1>2, PinsFacts DEF PinsOk, KeepsUsed
<1>4. ~wasReset => shown.best \in p.blocks /\ shown.finalized \in p.blocks
  BY <1>2, PinsFacts DEF ShownOk
<1>5. QED
  BY <1>1, <1>2, <1>3, <1>4, PinsFacts, EmitStep

LEMMA BestBlockStep ==
    ASSUME QueryInv, NEW b \in Blocks, BestBlock(b) PROVE QueryInv'
<1> DEFINE p == [pins EXCEPT !.best = b, !.ready = TRUE, !.blocks = There, !.recovering = {}]
<1>1. /\ Quiet /\ pins.initialized /\ b \in There /\ pins.finalized \in Roots[b]
      /\ Emit(p, pins.recovering) /\ wasReset' = wasReset
  BY DEF BestBlock
<1>2. /\ p \in Pins
      /\ p.blocks = pins.blocks \ pins.recovering /\ p.recovering = {}
      /\ p.ready = TRUE /\ p.initialized = pins.initialized
      /\ p.best = b /\ p.finalized = pins.finalized
  BY PinsFacts DEF Pins, There
<1> HIDE DEF p
<1>3. PinsOk(p) /\ KeepsUsed(p)
  BY <1>1, <1>2, PinsFacts DEF PinsOk, KeepsUsed, There
<1>4. QED
  BY <1>1, <1>2, <1>3, PinsFacts, EmitStep

LEMMA FinalizeBlockStep ==
    ASSUME QueryInv, NEW b \in Blocks, FinalizeBlock(b) PROVE QueryInv'
<1> DEFINE best == IF b \in Roots[pins.best] THEN pins.best ELSE b
           p    == [pins EXCEPT !.finalized = b, !.best = best]
<1>1. /\ Quiet /\ pins.ready /\ b \in There
      /\ Emit(p, {}) /\ wasReset' = wasReset
  BY PinsFacts DEF FinalizeBlock, Pins
<1>2. /\ p \in Pins
      /\ p.blocks = pins.blocks /\ p.recovering = pins.recovering
      /\ p.ready = pins.ready /\ p.initialized = pins.initialized
      /\ p.best = best /\ p.finalized = b
  BY PinsFacts DEF Pins
<1>3. b \in Roots[b]
  BY RootsFacts
<1> HIDE DEF p
<1>4. PinsOk(p) /\ KeepsUsed(p)
  BY <1>1, <1>2, <1>3, PinsFacts DEF PinsOk, KeepsUsed, There
<1>5. QED
  BY <1>1, <1>2, <1>4, PinsFacts, EmitStep

\* What is unpinned is neither finalized nor best.
LEMMA UnpinnedFacts ==
    ASSUME QueryInv, NEW b \in Blocks, Unpinned(b)
    PROVE  /\ pins.ready /\ b \notin {pins.finalized, pins.best}
           /\ ~wasReset => b \notin {shown.finalized, shown.best}
<1>1. pins.finalized \in Roots[pins.finalized]
  BY PinsFacts, RootsFacts
<1>2. b # pins.finalized /\ pins.ready
  BY <1>1, PinsFacts DEF Unpinned, PinsOk
<1>3. b # pins.best
  BY <1>2, PinsFacts DEF Unpinned, PinsOk
<1>4. QED
  BY <1>2, <1>3, PinsFacts DEF ShownOk

LEMMA CleanUpStep ==
    ASSUME QueryInv, CleanUpBlocks PROVE QueryInv'
<1> DEFINE gone == {b \in Blocks : Unpinned(b) /\ ~InUse(b) /\ b \notin toRelease}
           p    == [pins EXCEPT !.blocks = @ \ gone]
<1>1. Quiet /\ pins.ready /\ Emit(p, gone) /\ wasReset' = wasReset
  BY DEF CleanUpBlocks
<1>2. /\ p \in Pins
      /\ p.blocks = pins.blocks \ gone /\ p.recovering = pins.recovering
      /\ p.ready = pins.ready /\ p.initialized = pins.initialized
      /\ p.best = pins.best /\ p.finalized = pins.finalized
  BY PinsFacts DEF Pins
<1>3. /\ pins.finalized \notin gone /\ pins.best \notin gone
      /\ \A b \in gone : ~InUse(b)
  BY UnpinnedFacts
<1> HIDE DEF p, gone
<1>4. PinsOk(p) /\ KeepsUsed(p)
  BY <1>1, <1>2, <1>3, PinsFacts DEF PinsOk, KeepsUsed
<1>5. QED
  BY <1>1, <1>2, <1>4, PinsFacts, EmitStep

LEMMA StopFollowStep ==
    ASSUME QueryInv, StopFollow PROVE QueryInv'
<1>1. CASE pins.ready
  <2> DEFINE p == [pins EXCEPT !.ready = FALSE, !.initialized = FALSE, !.recovering = pins.blocks]
  <2>1. Quiet /\ Emit(p, {}) /\ wasReset' = wasReset
    BY <1>1 DEF StopFollow
  <2>2. /\ p \in Pins
        /\ p.blocks = pins.blocks /\ p.recovering = pins.blocks
        /\ p.ready = FALSE /\ p.initialized = FALSE
    BY PinsFacts DEF Pins
  <2> HIDE DEF p
  <2>3. PinsOk(p) /\ KeepsUsed(p)
    BY <2>2 DEF PinsOk, KeepsUsed
  <2>4. ~wasReset => shown.best \in p.blocks /\ shown.finalized \in p.blocks
    BY <2>2, PinsFacts DEF ShownOk
  <2>5. QED
    BY <2>1, <2>2, <2>3, <2>4, PinsFacts, EmitStep
<1>2. CASE ~pins.ready
  <2> DEFINE p == [pins EXCEPT !.initialized = FALSE, !.blocks = {}, !.recovering = {}]
  <2>1. Quiet /\ Emit(p, pins.blocks) /\ wasReset' = TRUE
    BY <1>2 DEF StopFollow
  <2>2. /\ p \in Pins
        /\ p.blocks = {} /\ p.recovering = {}
        /\ p.ready = FALSE /\ p.initialized = FALSE
    BY <1>2, PinsFacts DEF Pins
  <2> HIDE DEF p
  <2>3. PinsOk(p) /\ KeepsUsed(p)
    BY <2>2 DEF PinsOk, KeepsUsed
  <2>4. QED
    BY <2>1, <2>2, <2>3, PinsFacts, EmitStep
<1>3. QED
  BY <1>1, <1>2, PinsFacts

LEMMA FollowAgainStep ==
    ASSUME QueryInv, NEW b \in Blocks, FollowAgain(b) PROVE QueryInv'
<1> DEFINE known == b \in pins.blocks
           p == [pins EXCEPT !.initialized = TRUE, !.finalized = b,
                      !.blocks = IF known THEN @ ELSE {b},
                      !.recovering = IF known THEN @ \ {b} ELSE {}]
<1>1. /\ Quiet /\ ~pins.initialized
      /\ Emit(p, IF known THEN {} ELSE pins.blocks)
      /\ wasReset' = (wasReset \/ ~known)
  BY DEF FollowAgain
<1>2. /\ p \in Pins
      /\ p.blocks = IF known THEN pins.blocks ELSE {b}
      /\ p.recovering = IF known THEN pins.recovering \ {b} ELSE {}
      /\ p.ready = pins.ready /\ p.initialized = TRUE
      /\ p.finalized = b
  BY PinsFacts DEF Pins
<1>3. b \in Roots[b]
  BY RootsFacts
<1>4. ~pins.ready /\ pins.blocks = pins.recovering
  BY <1>1, PinsFacts DEF PinsOk
<1> HIDE DEF p
<1>5. PinsOk(p) /\ KeepsUsed(p)
  BY <1>2, <1>3, <1>4 DEF PinsOk, KeepsUsed
<1>6. wasReset' \in BOOLEAN /\ (wasReset => wasReset')
  BY <1>1, PinsFacts
<1>7. ~wasReset' => shown.best \in p.blocks /\ shown.finalized \in p.blocks
  BY <1>1, <1>2, PinsFacts DEF ShownOk
<1>8. QED
  BY <1>1, <1>2, <1>5, <1>6, <1>7, EmitStep

-------------------------------------------------------------------------------
(***************************************************************************)
(* The consumers.                                                          *)
(***************************************************************************)
LEMMA AskFacts ==
    ASSUME QueryInv, NEW c \in Consumer
    PROVE  /\ asks \in [Consumer -> AskRecord] /\ asks[c] \in AskRecord /\ AskOk(asks[c])
           /\ asks[c].at \in Blocks => asks[c].at \notin Dynamic
           /\ toRelease \subseteq Blocks
<1>1. /\ asks \in [Consumer -> AskRecord] /\ asks[c] \in AskRecord /\ AskOk(asks[c])
      /\ toRelease \subseteq Blocks
  BY DEF QueryInv, Typed
<1>2. asks[c].at \in Blocks => asks[c].at \notin Dynamic
  BY ChainFacts DEF Dynamic, AtBest, AtFinalized
<1>3. QED
  BY <1>1, <1>2

\* What a kind of query asks for.
LEMMA KeysOfFacts ==
    ASSUME NEW kind \in Kinds
    PROVE  /\ KeysOf(kind) \in Seq(Keys) /\ AsSet(KeysOf(kind)) \subseteq Keys
           /\ kind = "value" => AsSet(KeysOf(kind)) = {1}
           /\ 1 \in Keys
<1>1. NKeys \in Nat /\ 1 \in Keys
  BY QueryAssumption DEF Keys
<1>2. CASE kind = "value"
  <2>1. KeysOf(kind) = <<1>>
    BY <1>2 DEF KeysOf
  <2>2. QED
    BY <1>1, <2>1 DEF AsSet
<1>3. CASE kind # "value"
  <2>1. KeysOf(kind) = [k \in 1 .. NKeys |-> k]
    BY <1>3 DEF KeysOf
  <2>2. KeysOf(kind) \in Seq(Keys)
    BY <1>1, <2>1 DEF Keys
  <2>3. DOMAIN KeysOf(kind) = 1 .. NKeys /\ \A k \in 1 .. NKeys : KeysOf(kind)[k] = k
    BY <2>1
  <2>4. AsSet(KeysOf(kind)) \subseteq Keys
    BY <2>3 DEF AsSet, Keys
  <2>5. QED
    BY <1>1, <1>3, <2>2, <2>4
<1>4. QED
  BY <1>2, <1>3

\* An answer of what block b has for the keys that were got, if those are the keys
\* of the query that b has a value for.
LEMMA AnswerFacts ==
    ASSUME NEW a \in AskRecord, AskOk(a), NEW b \in Blocks, a.at \in Blocks \cup Dynamic,
           a.at \in Blocks => b = a.at,
           a.phase # "done",
           a.mixed \/ \A k \in Keys : a.results[k] \in {Nowhere, b},
           NEW got \in SUBSET Keys, got \subseteq Present[b],
           AsSet(KeysOf(a.kind)) \cap Present[b] \subseteq got
    PROVE  /\ Answer(a, b, got) \in AskRecord /\ AskOk(Answer(a, b, got))
           /\ Answer(a, b, got).phase = "done" /\ Answer(a, b, got).at = a.at
           /\ Answer(a, b, got).kind = a.kind
<1> DEFINE r == Answer(a, b, got)
<1>1. /\ r.phase = "done" /\ r.on = Nowhere /\ r.of = b /\ r.mixed = a.mixed
      /\ r.kind = a.kind /\ r.at = a.at
      /\ r.results = [k \in Keys |-> IF k \in got THEN b ELSE a.results[k]]
  BY DEF Answer, AskRecord, Keys
<1>2. r \in AskRecord
  BY DEF Answer, AskRecord, Keys, Somewhere, Settled
<1>3. \A k \in Keys : r.results[k] = IF k \in got THEN b ELSE a.results[k]
  BY <1>1
<1>4. b # Nowhere
  BY ChainFacts DEF Nowhere
<1> HIDE DEF r
<1>5. ResultsOk(r)
  BY <1>1, <1>3 DEF AskOk, ResultsOk
<1>6. AnswerOk(r)
  <2>1. ASSUME ~a.mixed, NEW k \in AsSet(KeysOf(a.kind))
        PROVE  r.results[k] = IF k \in Present[b] THEN b ELSE Nowhere
    <3>1. k \in Keys
      BY KeysOfFacts DEF AskRecord
    <3>2. CASE k \in got
      BY <1>3, <3>1, <3>2
    <3>3. CASE k \notin got
      BY <1>3, <2>1, <3>1, <3>3 DEF AskOk, ResultsOk
    <3>4. QED
      BY <3>2, <3>3
  <2>2. QED
    BY <1>1, <2>1 DEF AnswerOk
<1>7. AskOk(r)
  BY <1>1, <1>5, <1>6 DEF AskOk
<1>8. QED
  BY <1>1, <1>2, <1>7 DEF r

LEMMA AskForStep ==
    ASSUME QueryInv, NEW c \in Consumer, NEW want \in Wanted[c], AskFor(c, want)
    PROVE  QueryInv'
<1> DEFINE a == [asks[c] EXCEPT !.kind = want.kind, !.at = want.at, !.phase = "resolving"]
<1>1. asks[c].phase = "idle" /\ asks' = [asks EXCEPT ![c] = a]
      /\ UNCHANGED <<pins, shown, streams, cache, toRelease, wasReset>>
  BY DEF AskFor
<1>2. want.kind \in Kinds /\ want.at \in Blocks \cup Dynamic
  BY WantedAssumption DEF Kinds
<1>3. /\ a \in AskRecord /\ a.phase = "resolving" /\ a.kind = want.kind /\ a.at = want.at
      /\ a.results = asks[c].results /\ a.on = asks[c].on
  BY <1>2, AskFacts DEF AskRecord, Somewhere
<1> HIDE DEF a
<1>4. asks[c].on = Nowhere /\ \A k \in Keys : asks[c].results[k] = Nowhere
  <2>1. asks[c] = NoAsk
    BY <1>1, AskFacts DEF AskOk
  <2>2. NoAsk.on = Nowhere /\ NoAsk.results = [k \in Keys |-> Nowhere]
    BY DEF NoAsk, Keys
  <2>3. QED
    BY <2>1, <2>2
<1>5. ResultsOk(a)
  BY <1>3, <1>4 DEF ResultsOk
<1>6. AskOk(a)
  BY <1>2, <1>3, <1>4, <1>5 DEF AskOk, AnswerOk
<1>7. QED
  BY <1>1, <1>3, <1>6, AskFacts, AskChanges

LEMMA RetryAfterStep ==
    ASSUME QueryInv, NEW c \in Consumer, RetryAfter(c) PROVE QueryInv'
<1> DEFINE a == [asks[c] EXCEPT !.phase = "resolving"]
<1>1. asks[c].phase = "retrying" /\ asks' = [asks EXCEPT ![c] = a]
      /\ UNCHANGED <<pins, shown, streams, cache, toRelease, wasReset>>
  BY AskFacts DEF RetryAfter
<1>2. /\ a \in AskRecord /\ a.phase = "resolving"
      /\ a.kind = asks[c].kind /\ a.at = asks[c].at
      /\ a.results = asks[c].results /\ a.on = asks[c].on
  BY AskFacts DEF AskRecord
<1> HIDE DEF a
<1>3. AskOk(a)
  BY <1>1, <1>2, AskFacts DEF AskOk, ResultsOk, AnswerOk
<1>4. QED
  BY <1>1, <1>2, <1>3, AskFacts, AskChanges

LEMMA ArchiveAnswersStep ==
    ASSUME QueryInv, NEW c \in Consumer, ArchiveAnswers(c) PROVE QueryInv'
<1>1. asks[c].phase = "archive" /\ asks[c].at \in Blocks
      /\ UNCHANGED <<pins, shown, streams, cache, toRelease, wasReset>>
  BY AskFacts DEF ArchiveAnswers, AskOk
<1>2. CASE asks' = [asks EXCEPT ![c] = Answer(asks[c], asks[c].at,
                      Present[asks[c].at] \cap AsSet(KeysOf(asks[c].kind)))]
  <2> DEFINE got == Present[asks[c].at] \cap AsSet(KeysOf(asks[c].kind))
             a   == Answer(asks[c], asks[c].at, got)
  <2>1. got \in SUBSET Keys
    BY <1>1, QueryAssumption DEF Keys
  <2>2. \A k \in Keys : asks[c].results[k] \in {Nowhere, asks[c].at}
    BY <1>1, AskFacts DEF AskOk, ResultsOk
  <2>3. got \subseteq Present[asks[c].at]
        /\ AsSet(KeysOf(asks[c].kind)) \cap Present[asks[c].at] \subseteq got
    OBVIOUS
  <2> HIDE DEF got
  <2>4. a \in AskRecord /\ AskOk(a) /\ a.phase = "done"
    BY <1>1, <2>1, <2>2, <2>3, AskFacts, AnswerFacts
  <2>5. asks' = [asks EXCEPT ![c] = a]
    BY <1>2 DEF got
  <2> HIDE DEF a
  <2>6. QED
    BY <1>1, <2>4, <2>5, AskFacts, AskChanges
<1>3. CASE asks' = [asks EXCEPT ![c].phase = "failed"]
  <2> DEFINE a == [asks[c] EXCEPT !.phase = "failed"]
  <2>1. asks' = [asks EXCEPT ![c] = a]
    BY <1>3, AskFacts
  <2>2. /\ a \in AskRecord /\ a.phase = "failed"
        /\ a.kind = asks[c].kind /\ a.at = asks[c].at
        /\ a.results = asks[c].results /\ a.on = asks[c].on
    BY AskFacts DEF AskRecord, Settled
  <2> HIDE DEF a
  <2>3. AskOk(a)
    BY <1>1, <2>2, AskFacts DEF AskOk, ResultsOk, AnswerOk
  <2>4. QED
    BY <1>1, <2>1, <2>2, <2>3, AskFacts, AskChanges
<1>4. QED
  BY <1>2, <1>3, AskFacts DEF ArchiveAnswers

\* A consumer begins to listen, to a stream there is or to its own new one.
LEMMA ListenStep ==
    ASSUME QueryInv, NEW c \in Consumer, asks[c].phase = "resolving",
           NEW b \in Blocks,
           NEW a \in AskRecord, AskOk(a), a.phase = "asking", a.on = b,
           a.kind = asks[c].kind,
           asks' = [asks EXCEPT ![c] = a],
           NEW s \in Consumer, asks[s].kind = a.kind, a.kind = "values" => s = c,
           s # c => streams[s].st # "off" /\ streams[s].block = b,
           NEW x \in StreamRecord, x.st # "off", x.block = b, x.to = streams[s].to \cup {c},
           StreamOk(x, s, asks'[s], pins),
           streams' = [streams EXCEPT ![s] = x],
           cache' \in {cache, [cache EXCEPT ![b] = s]},
           cache' # cache => a.kind = "value",
           UNCHANGED <<pins, shown, toRelease, wasReset>>
    PROVE  QueryInv'
<1>0. /\ \A t \in Consumer : c \notin streams[t].to
      /\ streams[c].st = "off" /\ streams[c] = NoStream
      /\ \A d \in Blocks : cache[d] # c
  BY NotListening DEF QueryInv, StreamOk
<1>a. /\ asks \in [Consumer -> AskRecord] /\ streams \in [Consumer -> StreamRecord]
      /\ cache \in [Blocks -> Consumer \cup {None, Stored}]
  BY DEF QueryInv, Typed
<1>b. /\ asks'[c] = a /\ \A d \in Consumer : d # c => asks'[d] = asks[d]
      /\ streams'[s] = x /\ \A d \in Consumer : d # s => streams'[d] = streams[d]
      /\ \A d \in Consumer : asks'[d].kind = asks[d].kind
  BY <1>a
\* What others hear of the stream is as before.
<1>c. ASSUME NEW d \in Consumer, d # c, NEW t \in Consumer
      PROVE  /\ d \in streams'[t].to <=> d \in streams[t].to
             /\ d \in streams[t].to => streams'[t].block = streams[t].block /\ t # c
  <2>1. CASE t = s
    BY <1>0, <1>b, <1>c, <2>1 DEF NoStream
  <2>2. CASE t # s
    BY <1>0, <1>b, <1>c, <2>2 DEF NoStream
  <2>3. QED
    BY <2>1, <2>2
<1>1. Typed'
  <2>1. cache' \in [Blocks -> Consumer \cup {None, Stored}]
    BY <1>a
  <2>2. QED
    BY <1>a, <2>1 DEF QueryInv, Typed
<1>2. PinsOk(pins') /\ ShownOk(pins, shown)'
  BY DEF QueryInv, ShownOk
<1>3. \A d \in Consumer : AskOk(asks'[d])
  BY <1>b DEF QueryInv
<1>4. \A t \in Consumer : StreamOk(streams'[t], t, asks'[t], pins')
  <2>1. ASSUME NEW t \in Consumer, t # s, t # c
        PROVE  StreamOk(streams'[t], t, asks'[t], pins')
    BY <1>b, <2>1 DEF QueryInv
  <2>2. ASSUME c # s PROVE StreamOk(streams'[c], c, asks'[c], pins')
    BY <1>0, <1>b, <2>2 DEF StreamOk, NoStream, Working, Errors
  <2>3. QED
    BY <1>b, <2>1, <2>2
<1>5. ListenersOk'
  <2>1. ASSUME NEW d \in Consumer, NEW t \in Consumer
        PROVE  ListensOk(d, t, streams[t], asks[d], asks[t])'
    <3> SUFFICES ASSUME d \in streams'[t].to
                 PROVE  ListensOk(d, t, streams[t], asks[d], asks[t])'
      BY DEF ListensOk
    <3>1. CASE d = c
      <4>1. t = s
        BY <1>0, <1>b, <3>1
      <4>2. QED
        BY <1>b, <3>1, <4>1 DEF ListensOk
    <3>2. CASE d # c
      <4>1. d \in streams[t].to /\ streams'[t].block = streams[t].block
        BY <1>c, <3>2
      <4>2. asks'[d] = asks[d] /\ asks'[t].kind = asks[t].kind
        BY <1>b, <3>2
      <4>3. QED
        BY <4>1, <4>2 DEF QueryInv, ListenersOk, ListensOk
    <3>3. QED
      BY <3>1, <3>2
  <2>2. ASSUME NEW d \in Consumer, NEW t \in Consumer, NEW u \in Consumer,
               d \in streams'[t].to, d \in streams'[u].to
        PROVE  t = u
    <3>1. CASE d = c
      BY <1>0, <1>b, <2>2, <3>1
    <3>2. CASE d # c
      BY <1>c, <2>2, <3>2 DEF QueryInv, ListenersOk
    <3>3. QED
      BY <3>1, <3>2
  <2>3. ASSUME NEW d \in Consumer, asks'[d].phase = "asking"
        PROVE  \E t \in Consumer : d \in streams'[t].to
    <3>1. CASE d = c
      BY <1>b, <3>1
    <3>2. CASE d # c
      BY <1>b, <1>c, <2>3, <3>2 DEF QueryInv, ListenersOk
    <3>3. QED
      BY <3>1, <3>2
  <2>4. QED
    BY <2>1, <2>2, <2>3 DEF ListenersOk
<1>6. ASSUME NEW d \in Blocks PROVE CacheOk(d)'
  <2> SUFFICES ASSUME cache'[d] \in Consumer PROVE CacheOk(d)'
    BY DEF CacheOk
  <2>1. CASE d = b /\ cache'[d] = s /\ cache' # cache
    BY <1>b, <2>1 DEF CacheOk
  <2>2. CASE cache'[d] = cache[d]
    <3>1. /\ streams[cache[d]].st # "off" /\ streams[cache[d]].block = d
          /\ asks[cache[d]].kind = "value" /\ cache[d] # c
      BY <1>0, <2>2 DEF QueryInv, CacheOk
    <3>2. CASE cache[d] = s
      BY <1>b, <2>2, <3>1, <3>2 DEF CacheOk
    <3>3. CASE cache[d] # s
      BY <1>b, <2>2, <3>1, <3>3 DEF CacheOk
    <3>4. QED
      BY <3>2, <3>3
  <2>3. QED
    BY <1>a, <2>1, <2>2
<1>7. FailuresOk'
  BY <1>b DEF QueryInv, FailuresOk
<1>8. QED
  BY <1>1, <1>2, <1>3, <1>4, <1>5, <1>6, <1>7 DEF QueryInv

LEMMA QueryStep ==
    ASSUME QueryInv, NEW c \in Consumer, asks[c].phase = "resolving",
           NEW b \in pins.blocks, asks[c].at \in Blocks => b = asks[c].at,
           Query(c, b), UNCHANGED <<pins, shown, wasReset>>
    PROVE  QueryInv'
<1> DEFINE mixed == asks[c].mixed \/ \E k \in 1 .. NKeys : asks[c].results[k] \notin {Nowhere, b}
           a == [asks[c] EXCEPT !.phase = "asking", !.on = b, !.mixed = mixed]
<1>1. b \in Blocks
  BY PinsFacts
<1>2. /\ a \in AskRecord /\ a.phase = "asking" /\ a.on = b /\ a.mixed = mixed
      /\ a.kind = asks[c].kind /\ a.at = asks[c].at /\ a.results = asks[c].results
      /\ a.kind \in Kinds /\ a.at \in Blocks \cup Dynamic
  <2>1. asks[c] \in AskRecord /\ AskOk(asks[c])
    BY AskFacts
  <2>2. mixed \in BOOLEAN
    BY <2>1 DEF AskRecord
  <2> HIDE DEF mixed
  <2>3. a \in AskRecord
    BY <1>1, <2>1, <2>2 DEF AskRecord, Somewhere
  <2>4. /\ a.phase = "asking" /\ a.on = b /\ a.mixed = mixed
        /\ a.kind = asks[c].kind /\ a.at = asks[c].at /\ a.results = asks[c].results
    BY <2>1 DEF AskRecord
  <2>5. asks[c].kind \in Kinds /\ asks[c].at \in Blocks \cup Dynamic
    BY <2>1 DEF AskRecord, AskOk
  <2>6. QED
    BY <2>3, <2>4, <2>5
<1>3. mixed \/ \A k \in Keys : asks[c].results[k] \in {Nowhere, b}
  BY DEF Keys
<1>4. /\ (a.kind = "value" /\ cache[b] = Stored =>
            /\ asks' = [asks EXCEPT ![c] = Answer(a, b, Present[b] \cap {1})]
            /\ toRelease' = toRelease \cup {b}
            /\ UNCHANGED <<streams, cache>>)
      /\ (~(a.kind = "value" /\ cache[b] = Stored) =>
            /\ asks' = [asks EXCEPT ![c] = a]
            /\ toRelease' = toRelease
            /\ a.kind = "value" /\ cache[b] # None =>
                 /\ streams' = [streams EXCEPT ![cache[b]].to = @ \cup {c}]
                 /\ cache' = cache
            /\ ~(a.kind = "value" /\ cache[b] # None) =>
                 /\ streams' = [streams EXCEPT ![c] = OnPinned(pins,
                      [NoStream EXCEPT !.st = "waits", !.block = b, !.to = {c},
                                       !.all = KeysOf(a.kind)])]
                 /\ cache' = IF a.kind = "value" THEN [cache EXCEPT ![b] = c] ELSE cache)
  BY DEF Query
<1> HIDE DEF a, mixed
<1>5. AskOk(a)
  BY <1>1, <1>2, <1>3, AskFacts DEF AskOk, ResultsOk, AnswerOk
<1>6. CASE a.kind = "value" /\ cache[b] = Stored
  <2> DEFINE got == Present[b] \cap {1}
  <2>1. got \in SUBSET Keys /\ got \subseteq Present[b]
        /\ AsSet(KeysOf(a.kind)) \cap Present[b] \subseteq got
    BY <1>1, <1>6, KeysOfFacts, QueryAssumption DEF Keys, Kinds
  <2> HIDE DEF got
  <2>2. a.mixed \/ \A k \in Keys : a.results[k] \in {Nowhere, b}
    BY <1>2, <1>3
  <2>3. Answer(a, b, got) \in AskRecord /\ AskOk(Answer(a, b, got))
        /\ Answer(a, b, got).phase = "done"
    BY <1>1, <1>2, <1>5, <2>1, <2>2, AnswerFacts
  <2>4. asks' = [asks EXCEPT ![c] = Answer(a, b, got)]
    BY <1>4, <1>6 DEF got
  <2>5. toRelease \subseteq toRelease' /\ toRelease' \subseteq Blocks
        /\ UNCHANGED <<streams, cache>>
    BY <1>1, <1>4, <1>6, AskFacts
  <2>6. QED
    BY <2>3, <2>4, <2>5, AskChanges
<1>7. CASE a.kind = "value" /\ cache[b] \notin {None, Stored}
  <2> DEFINE s == cache[b]
             x == [streams[s] EXCEPT !.to = @ \cup {c}]
  <2>1. s \in Consumer
    BY <1>1, <1>7 DEF QueryInv, Typed
  <2>2. streams[s].st # "off" /\ streams[s].block = b /\ asks[s].kind = "value"
    BY <1>1, <2>1 DEF QueryInv, CacheOk
  <2>3. streams' = [streams EXCEPT ![s] = x] /\ cache' = cache
        /\ toRelease' = toRelease /\ asks' = [asks EXCEPT ![c] = a]
    BY <1>4, <1>7
  <2> HIDE DEF s
  <2>4. streams[s] \in StreamRecord /\ StreamOk(streams[s], s, asks[s], pins) /\ s # c
    BY <1>1, <2>1, <2>2, NotListening DEF QueryInv, Typed
  <2>5. /\ x \in StreamRecord /\ x.st = streams[s].st /\ x.block = b
        /\ x.to = streams[s].to \cup {c} /\ x.all = streams[s].all
        /\ x.keys = streams[s].keys /\ x.rest = streams[s].rest
        /\ x.due = streams[s].due /\ x.got = streams[s].got
    BY <2>2, <2>4 DEF StreamRecord
  <2> HIDE DEF x
  <2>6. asks'[s] = asks[s]
    BY <2>1, <2>3, <2>4, AskFacts
  <2>7. StreamOk(x, s, asks[s], pins)
    BY <2>2, <2>4, <2>5 DEF StreamOk, WorkOk
  <2>8. QED
    BY <1>1, <1>2, <1>5, <1>7, <2>1, <2>2, <2>3, <2>5, <2>6, <2>7, ListenStep
<1>8. CASE ~(a.kind = "value" /\ cache[b] # None)
  <2> DEFINE y == [NoStream EXCEPT !.st = "waits", !.block = b, !.to = {c},
                                   !.all = KeysOf(a.kind)]
             x == OnPinned(pins, y)
  <2>1. /\ y.st = "waits" /\ y.block = b /\ y.to = {c} /\ y.all = KeysOf(a.kind)
        /\ y.due = {} /\ y.got = {} /\ y \in StreamRecord
    <3>1. KeysOf(a.kind) \in Seq(Keys) /\ <<>> \in Seq(Keys)
      BY <1>2, KeysOfFacts
    <3>2. b \in Somewhere /\ "waits" \in {"off"} \cup Working \cup Errors
      BY <1>1 DEF Somewhere, Working
    <3>3. NoStream \in StreamRecord /\ NoStream.due = {} /\ NoStream.got = {}
      BY <3>1 DEF NoStream, StreamRecord, Somewhere, Working
    <3>4. QED
      BY <3>1, <3>2, <3>3 DEF StreamRecord
  <2>2. /\ streams' = [streams EXCEPT ![c] = x]
        /\ cache' = IF a.kind = "value" THEN [cache EXCEPT ![b] = c] ELSE cache
        /\ toRelease' = toRelease /\ asks' = [asks EXCEPT ![c] = a]
    BY <1>4, <1>8 DEF None, Stored
  <2> HIDE DEF y
  <2>3. StreamOk(y, c, a, pins)
    BY <1>1, <1>2, <2>1 DEF StreamOk, WorkOk, Errors, Working
  <2>4. /\ x \in StreamRecord /\ SameStream(x, y)
        /\ x.st \notin Errors => StreamOk(x, c, a, pins)
        /\ x.st \in Errors => y.block \notin pins.blocks
    BY <1>2, <2>1, <2>3, PinsFacts, OnPinnedFacts
  <2> HIDE DEF x
  <2>5. StreamOk(x, c, a, pins) /\ x.st # "off" /\ x.block = b /\ x.to = {c}
    BY <2>1, <2>4 DEF SameStream
  <2>6. asks'[c] = a
    BY <2>2, AskFacts
  <2>7. streams[c] = NoStream
    BY NotListening DEF QueryInv, StreamOk
  <2>8. x.to = streams[c].to \cup {c}
    BY <2>5, <2>7 DEF NoStream
  <2>9. cache' \in {cache, [cache EXCEPT ![b] = c]} /\ (cache' # cache => a.kind = "value")
    BY <2>2
  <2>10. StreamOk(x, c, asks'[c], pins)
    BY <2>5, <2>6
  <2>11. /\ asks[c].kind = a.kind /\ (a.kind = "values" => c = c)
         /\ (c # c => streams[c].st # "off" /\ streams[c].block = b)
         /\ UNCHANGED <<pins, shown, toRelease, wasReset>>
    BY <1>2, <2>2
  <2>12. streams' = [streams EXCEPT ![c] = x] /\ asks' = [asks EXCEPT ![c] = a]
    BY <2>2
  <2>13. x \in StreamRecord /\ x.st # "off" /\ x.block = b
    BY <2>4, <2>5
  <2>14. QED
    BY <1>1, <1>2, <1>5, <2>8, <2>9, <2>10, <2>11, <2>12, <2>13, ListenStep
<1>9. QED
  BY <1>6, <1>7, <1>8

LEMMA ResolveStep ==
    ASSUME QueryInv, NEW c \in Consumer, Resolve(c) PROVE QueryInv'
<1> DEFINE b == CASE asks[c].at = AtBest      -> shown.best
                  [] asks[c].at = AtFinalized -> shown.finalized
                  [] OTHER                    -> asks[c].at
<1>1. /\ asks[c].phase = "resolving"
      /\ asks[c].at \in Dynamic => Watched \/ pins.ready
      /\ UNCHANGED <<pins, shown, wasReset>>
  BY DEF Resolve
<1>2. asks[c].at \in Blocks \cup Dynamic
  BY <1>1, AskFacts DEF AskOk
<1>3. asks[c].at \in Blocks => b = asks[c].at
  BY ChainFacts DEF AtBest, AtFinalized
<1>4. CASE b \in pins.blocks
  <2>1. Query(c, b)
    BY <1>4 DEF Resolve
  <2> HIDE DEF b
  <2>2. QED
    BY <1>1, <1>3, <1>4, <2>1, QueryStep
<1>5. CASE b \notin pins.blocks /\ asks[c].at \in Dynamic
  <2> DEFINE a == [asks[c] EXCEPT !.phase = "failed"]
  <2>1. asks' = [asks EXCEPT ![c].phase = "failed"] /\ UNCHANGED <<streams, cache, toRelease>>
    BY <1>5 DEF Resolve
  <2>2. asks' = [asks EXCEPT ![c] = a]
    BY <2>1, AskFacts
  <2>3. /\ a \in AskRecord /\ a.phase = "failed"
        /\ a.kind = asks[c].kind /\ a.at = asks[c].at
        /\ a.results = asks[c].results /\ a.on = asks[c].on
    BY AskFacts DEF AskRecord, Settled
  <2>4. wasReset
    <3>1. asks[c].at \in {AtBest, AtFinalized}
      BY <1>5 DEF Dynamic
    <3>2. b \in {shown.best, shown.finalized}
      BY <3>1
    <3> HIDE DEF b
    <3>3. QED
      BY <1>5, <3>2, PinsFacts DEF ShownOk
  <2> HIDE DEF a
  <2>5. AskOk(a)
    BY <1>1, <2>3, AskFacts DEF AskOk, ResultsOk, AnswerOk
  <2>6. QED
    BY <1>1, <2>1, <2>2, <2>3, <2>4, <2>5, AskFacts, AskChanges
<1>6. CASE b \notin pins.blocks /\ asks[c].at \in Blocks
  <2> DEFINE a == AfterError(asks[c], "notPinned")
  <2>0. asks[c].at \notin Dynamic
    BY <1>6, AskFacts
  <2>1. asks' = [asks EXCEPT ![c] = a] /\ UNCHANGED <<streams, cache, toRelease>>
    BY <1>6, <2>0 DEF Resolve
  <2>2. a = [asks[c] EXCEPT !.phase = "archive", !.on = Nowhere]
    BY <1>6, <2>0 DEF AfterError
  <2>3. /\ a \in AskRecord /\ a.phase = "archive" /\ a.on = Nowhere
        /\ a.kind = asks[c].kind /\ a.at = asks[c].at /\ a.results = asks[c].results
    BY <2>2, AskFacts DEF AskRecord, Somewhere
  <2> HIDE DEF a
  <2>4. AskOk(a)
    BY <1>1, <1>6, <2>3, AskFacts DEF AskOk, ResultsOk, AnswerOk
  <2>5. QED
    BY <1>1, <2>1, <2>3, <2>4, AskFacts, AskChanges
<1>7. QED
  BY <1>2, <1>4, <1>5, <1>6

\* Whoever leaves a shared stream is in it until the microtask.
LEMMA LeaveStep ==
    ASSUME QueryInv, NEW c \in Consumer, Leave(c) PROVE QueryInv'
<1> DEFINE a == [asks[c] EXCEPT !.phase = "left", !.on = Nowhere]
<1>1. /\ asks[c].phase \in {"resolving", "asking", "retrying", "archive"}
      /\ asks' = [asks EXCEPT ![c] = a]
      /\ toRelease' = IF asks[c].on = Nowhere THEN toRelease ELSE toRelease \cup {asks[c].on}
      /\ streams' = [s \in Consumer |->
            IF s = c /\ asks[c].kind = "values" THEN NoStream ELSE streams[s]]
      /\ UNCHANGED <<pins, shown, cache, wasReset>>
  BY AskFacts DEF Leave
<1>2. /\ a \in AskRecord /\ a.phase = "left" /\ a.on = Nowhere
      /\ a.kind = asks[c].kind /\ a.at = asks[c].at /\ a.results = asks[c].results
  BY AskFacts DEF AskRecord, Settled, Somewhere
<1> HIDE DEF a
<1>3. AskOk(a)
  BY <1>1, <1>2, AskFacts DEF AskOk, ResultsOk, AnswerOk
<1>4. toRelease \subseteq toRelease' /\ toRelease' \subseteq Blocks
      /\ (asks[c].on \in Blocks => asks[c].on \in toRelease')
  <2>1. asks[c].on \in Somewhere
    BY AskFacts DEF AskRecord
  <2>2. QED
    BY <1>1, <2>1, AskFacts, ChainFacts DEF Somewhere, Nowhere
<1>5. CASE asks[c].phase # "asking"
  <2>1. streams' = streams
    <3>1. streams[c] = NoStream
      BY <1>1, <1>5, NotListening DEF QueryInv, StreamOk
    <3>2. streams \in [Consumer -> StreamRecord]
      BY DEF QueryInv, Typed
    <3>3. QED
      BY <1>1, <3>1, <3>2
  <2>2. QED
    BY <1>1, <1>2, <1>3, <1>4, <1>5, <2>1, AskChanges
<1>6. CASE asks[c].phase = "asking"
  <2> DEFINE gone(s) == s = c /\ asks[c].kind = "values"
  <2>a. /\ asks \in [Consumer -> AskRecord] /\ streams \in [Consumer -> StreamRecord]
        /\ asks'[c] = a /\ \A d \in Consumer : d # c => asks'[d] = asks[d]
        /\ \A d \in Consumer : asks'[d].kind = asks[d].kind
        /\ \A s \in Consumer : streams'[s] = IF gone(s) THEN NoStream ELSE streams[s]
    BY <1>1, <1>2, AskFacts DEF QueryInv, Typed
  <2>b. NoStream \in StreamRecord
    BY DEF NoStream, StreamRecord, Somewhere, Working, Errors
  <2>1. Typed'
    <3>1. streams' \in [Consumer -> StreamRecord]
      BY <1>1, <2>a, <2>b
    <3>2. QED
      BY <1>1, <1>2, <1>4, <3>1 DEF QueryInv, Typed
  <2>2. PinsOk(pins') /\ ShownOk(pins, shown)'
    BY <1>1 DEF QueryInv, ShownOk
  <2>3. \A d \in Consumer : AskOk(asks'[d])
    BY <1>3, <2>a DEF QueryInv
  <2>4. \A s \in Consumer : StreamOk(streams'[s], s, asks'[s], pins')
    <3>1. ASSUME NEW s \in Consumer, gone(s) PROVE StreamOk(streams'[s], s, asks'[s], pins')
      <4>1. streams'[s] = NoStream
        BY <2>a, <3>1
      <4>2. QED
        BY <4>1 DEF StreamOk, NoStream, Working, Errors
    <3>2. ASSUME NEW s \in Consumer, s # c PROVE StreamOk(streams'[s], s, asks'[s], pins')
      BY <1>1, <2>a, <3>2 DEF QueryInv
    <3>3. ASSUME ~gone(c) PROVE StreamOk(streams'[c], c, asks'[c], pins')
      BY <1>1, <1>2, <2>a, <3>3 DEF QueryInv, StreamOk
    <3>4. QED
      BY <3>1, <3>2, <3>3
  <2>5. ListenersOk'
    <3>0. \A d, s \in Consumer : d \in streams'[s].to =>
             d \in streams[s].to /\ streams'[s].block = streams[s].block /\ ~gone(s)
      BY <2>a DEF NoStream
    <3>1. ASSUME NEW d \in Consumer, NEW s \in Consumer
          PROVE  ListensOk(d, s, streams[s], asks[d], asks[s])'
      <4> SUFFICES ASSUME d \in streams'[s].to
                   PROVE  ListensOk(d, s, streams[s], asks[d], asks[s])'
        BY DEF ListensOk
      <4>1. d \in streams[s].to /\ streams'[s].block = streams[s].block /\ ~gone(s)
        BY <3>0
      <4>2. ListensOk(d, s, streams[s], asks[d], asks[s])
        BY DEF QueryInv, ListenersOk
      <4>3. CASE d = c
        <5>1. a.kind = "value"
          BY <1>2, <4>1, <4>2, <4>3, AskFacts DEF ListensOk, AskRecord, Kinds
        <5>2. streams[s].block = asks[c].on /\ asks[c].on \in Blocks
          BY <1>6, <4>1, <4>2, <4>3, AskFacts DEF ListensOk, AskOk
        <5>3. QED
          BY <1>2, <1>4, <2>a, <4>1, <4>2, <4>3, <5>1, <5>2 DEF ListensOk
      <4>4. CASE d # c
        BY <1>4, <2>a, <4>1, <4>2, <4>4 DEF ListensOk
      <4>5. QED
        BY <4>3, <4>4
    <3>2. \A d, s, t \in Consumer : d \in streams'[s].to /\ d \in streams'[t].to => s = t
      BY <3>0 DEF QueryInv, ListenersOk
    <3>3. ASSUME NEW d \in Consumer, asks'[d].phase = "asking"
          PROVE  \E s \in Consumer : d \in streams'[s].to
      <4>1. d # c /\ asks[d].phase = "asking"
        BY <1>2, <2>a, <3>3
      <4>2. PICK s \in Consumer : d \in streams[s].to
        BY <4>1 DEF QueryInv, ListenersOk
      <4>3. ~gone(s)
        BY <4>1, <4>2 DEF QueryInv, ListenersOk, ListensOk
      <4>4. QED
        BY <2>a, <4>2, <4>3
    <3>4. QED
      BY <3>1, <3>2, <3>3 DEF ListenersOk
  <2>6. ASSUME NEW b \in Blocks PROVE CacheOk(b)'
    <3> SUFFICES ASSUME cache'[b] \in Consumer PROVE CacheOk(b)'
      BY DEF CacheOk
    <3>1. cache'[b] = cache[b] /\ streams[cache[b]].st # "off" /\ streams[cache[b]].block = b
          /\ asks[cache[b]].kind = "value"
      BY <1>1 DEF QueryInv, CacheOk
    <3>2. QED
      BY <2>a, <3>1 DEF CacheOk
  <2>7. FailuresOk'
    BY <1>1, <1>2, <2>a DEF QueryInv, FailuresOk
  <2>8. QED
    BY <2>1, <2>2, <2>3, <2>4, <2>5, <2>6, <2>7 DEF QueryInv
<1>7. QED
  BY <1>5, <1>6

\* delayUnsubscription: the last one to leave ends the stream.
LEMMA MicrotaskStep ==
    ASSUME QueryInv, NEW c \in Consumer, Microtask(c) PROVE QueryInv'
<1>1. PICK s \in Consumer :
        /\ asks[c].phase = "left" /\ c \in streams[s].to
        /\ IF streams[s].to = {c}
             THEN /\ streams' = [streams EXCEPT ![s] = NoStream]
                  /\ cache' = [b \in Blocks |-> IF cache[b] = s THEN None ELSE cache[b]]
             ELSE /\ streams' = [streams EXCEPT ![s].to = @ \ {c}]
                  /\ UNCHANGED cache
  BY DEF Microtask
<1>2. UNCHANGED <<pins, shown, asks, toRelease, wasReset>>
  BY DEF Microtask
<1>a. /\ asks \in [Consumer -> AskRecord] /\ streams \in [Consumer -> StreamRecord]
      /\ cache \in [Blocks -> Consumer \cup {None, Stored}]
      /\ \A d \in Consumer : AskOk(asks[d])
      /\ \A d \in Consumer : StreamOk(streams[d], d, asks[d], pins)
      /\ PinsOk(pins) /\ ShownOk(pins, shown)
  BY DEF QueryInv, Typed
<1>b. NoStream \in StreamRecord
  BY DEF NoStream, StreamRecord, Somewhere, Working, Errors
<1>c. PinsOk(pins') /\ ShownOk(pins, shown)'
  BY <1>2, <1>a DEF ShownOk
<1>3. CASE streams[s].to = {c}
  <2>1. /\ streams' = [d \in Consumer |-> IF d \in {s} THEN NoStream ELSE streams[d]]
        /\ cache' = [b \in Blocks |-> IF cache[b] = s THEN None ELSE cache[b]]
    BY <1>1, <1>3, <1>a
  <2>2. cache' \in [Blocks -> Consumer \cup {None, Stored}]
        /\ \A b \in Blocks : cache'[b] \in Consumer =>
              cache'[b] = cache[b] /\ cache[b] \notin {s}
    BY <1>a, <2>1, WantedAssumption
  <2>3. Typed'
    BY <1>2, <1>a, <1>b, <2>1, <2>2 DEF QueryInv, Typed
  <2>4. /\ {s} \in SUBSET Consumer
        /\ \A d \in Consumer : SameStream(streams[d], streams[d])
        /\ \A d \in Consumer \ {s} : StreamOk(streams[d], d, asks[d], pins')
        /\ \A d \in Consumer : AskOk(asks'[d])
        /\ \A d \in Consumer : Moved(d, {s})
        /\ \A d \in Consumer, t \in {s} : d \in streams[t].to => asks'[d].phase # "asking"
        /\ \A d \in Consumer : asks'[d].phase = "failed" => asks'[d] = asks[d]
    BY <1>1, <1>2, <1>3, <1>a DEF SameStream, Moved
  <2>5. QED
    BY <1>2, <1>c, <2>1, <2>2, <2>3, <2>4, StreamsEnd
<1>4. CASE streams[s].to # {c}
  <2> DEFINE x == [streams[s] EXCEPT !.to = @ \ {c}]
  <2>1. streams' = [streams EXCEPT ![s] = x] /\ cache' = cache
    BY <1>1, <1>4
  <2>2. /\ x \in StreamRecord /\ x.to = streams[s].to \ {c}
        /\ x.st = streams[s].st /\ x.block = streams[s].block /\ x.all = streams[s].all
        /\ x.keys = streams[s].keys /\ x.rest = streams[s].rest
        /\ x.due = streams[s].due /\ x.got = streams[s].got
    <3>1. streams[s] \in StreamRecord /\ streams[s].to \ {c} \in SUBSET Consumer
      BY <1>a DEF StreamRecord
    <3>2. QED
      BY <3>1 DEF StreamRecord
  <2> HIDE DEF x
  <2>b. /\ streams'[s] = x /\ \A d \in Consumer : d # s => streams'[d] = streams[d]
    BY <1>a, <2>1
  <2>3. Typed'
    BY <1>2, <1>a, <2>1, <2>2 DEF QueryInv, Typed
  <2>4. StreamOk(x, s, asks[s], pins)
    <3>1. streams[s].st # "off"
      BY <1>1, <1>a DEF StreamOk, NoStream
    <3>2. x.to # {}
      BY <1>1, <1>4, <2>2
    <3>3. asks[s].phase = "asking" => s \in x.to
      BY <1>1, <1>a, <2>2, <3>1 DEF StreamOk
    <3>4. QED
      BY <1>a, <2>2, <3>1, <3>2, <3>3 DEF StreamOk, WorkOk
  <2>5. \A d \in Consumer : StreamOk(streams'[d], d, asks'[d], pins')
    BY <1>2, <1>a, <2>b, <2>4
  <2>6. \A d, t \in Consumer : /\ d \in streams'[t].to => d \in streams[t].to
                               /\ d # c /\ d \in streams[t].to => d \in streams'[t].to
                               /\ streams'[t].block = streams[t].block
                               /\ streams'[t].st = streams[t].st
    BY <1>a, <2>b, <2>2
  <2>7. ListenersOk'
    <3>1. \A d, t \in Consumer : ListensOk(d, t, streams[t], asks[d], asks[t])'
      BY <1>2, <2>6 DEF QueryInv, ListenersOk, ListensOk
    <3>2. \A d, t, u \in Consumer : d \in streams'[t].to /\ d \in streams'[u].to => t = u
      BY <2>6 DEF QueryInv, ListenersOk
    <3>3. \A d \in Consumer :
            asks'[d].phase = "asking" => \E t \in Consumer : d \in streams'[t].to
      BY <1>1, <1>2, <2>6 DEF QueryInv, ListenersOk
    <3>4. QED
      BY <3>1, <3>2, <3>3 DEF ListenersOk
  <2>8. \A b \in Blocks : CacheOk(b)'
    BY <1>2, <2>1, <2>6 DEF QueryInv, CacheOk
  <2>9. FailuresOk' /\ \A d \in Consumer : AskOk(asks'[d])
    BY <1>2, <1>a DEF QueryInv, FailuresOk
  <2>10. QED
    BY <1>c, <2>3, <2>5, <2>7, <2>8, <2>9 DEF QueryInv
<1>5. QED
  BY <1>3, <1>4

-------------------------------------------------------------------------------
(***************************************************************************)
(* The operations.                                                         *)
(***************************************************************************)
LEMMA StreamFacts ==
    ASSUME QueryInv, NEW s \in Consumer
    PROVE  /\ streams \in [Consumer -> StreamRecord] /\ streams[s] \in StreamRecord
           /\ StreamOk(streams[s], s, asks[s], pins)
           /\ asks = [asks EXCEPT ![s] = asks[s]]
  BY DEF QueryInv, Typed

\* Only the state of the stream changes.
LEMMA RefusesStep ==
    ASSUME QueryInv, NEW s \in Consumer, Refuses(s) \/ SlotFrees(s) PROVE QueryInv'
<1>1. PICK st \in {"asked", "queued"} : streams' = [streams EXCEPT ![s].st = st]
  BY DEF Refuses, SlotFrees
<1>2. /\ streams[s].st \in {"asked", "queued"}
      /\ UNCHANGED <<pins, shown, asks, cache, toRelease, wasReset>>
  BY DEF Refuses, SlotFrees
<1> DEFINE x == [streams[s] EXCEPT !.st = st]
<1>3. streams' = [streams EXCEPT ![s] = x]
  BY <1>1, StreamFacts
<1>4. /\ x \in StreamRecord /\ x.st = st
      /\ x.to = streams[s].to /\ x.block = streams[s].block /\ x.all = streams[s].all
      /\ x.keys = streams[s].keys /\ x.rest = streams[s].rest
      /\ x.due = streams[s].due /\ x.got = streams[s].got
  <2>1. streams[s] \in StreamRecord /\ st \in {"off"} \cup Working \cup Errors
    BY StreamFacts DEF Working
  <2>2. QED
    BY <2>1 DEF StreamRecord
<1> HIDE DEF x
<1>5. StreamOk(x, s, asks[s], pins)
  BY <1>2, <1>4, StreamFacts DEF StreamOk, WorkOk, Errors, Working
<1>6. asks' = [asks EXCEPT ![s] = asks[s]]
  BY <1>2, StreamFacts
<1>7. QED
  BY <1>2, <1>3, <1>4, <1>5, <1>6, AskFacts, StreamChanges

\* The items that are discarded are those that are not taken.
LEMMA TakenFacts ==
    ASSUME NEW keys \in Seq(Keys), NEW n \in 0 .. Len(keys) - 1
    PROVE  /\ Taken(keys, n) \in Seq(Keys) /\ Discarded(keys, n) \in Seq(Keys)
           /\ AsSet(keys) = AsSet(Taken(keys, n)) \cup AsSet(Discarded(keys, n))
           /\ AsSet(keys) \subseteq Keys
<1>1. Len(keys) \in Nat /\ n \in Nat /\ n < Len(keys) /\ Len(keys) - n \in Nat
  OBVIOUS
<1>2. /\ Taken(keys, n) \in Seq(Keys) /\ Len(Taken(keys, n)) = Len(keys) - n
      /\ \A i \in 1 .. Len(keys) - n : Taken(keys, n)[i] = keys[i]
  BY <1>1 DEF Taken
<1>3. /\ Discarded(keys, n) \in Seq(Keys) /\ Len(Discarded(keys, n)) = n
      /\ \A i \in 1 .. n : Discarded(keys, n)[i] = keys[Len(keys) - n + i]
  BY <1>1 DEF Discarded
<1> DEFINE t == Taken(keys, n)
           d == Discarded(keys, n)
<1>4. /\ DOMAIN keys = 1 .. Len(keys)
      /\ DOMAIN t = 1 .. Len(keys) - n
      /\ DOMAIN d = 1 .. n
  BY <1>2, <1>3
<1> HIDE DEF t, d
<1>5. \A i \in 1 .. Len(keys) : keys[i] \in AsSet(t) \cup AsSet(d)
  <2> SUFFICES ASSUME NEW i \in 1 .. Len(keys)
               PROVE  keys[i] \in AsSet(t) \cup AsSet(d)
    OBVIOUS
  <2>1. CASE i <= Len(keys) - n
    <3>1. i \in 1 .. Len(keys) - n
      BY <1>1, <2>1
    <3>2. t[i] = keys[i] /\ i \in DOMAIN t
      BY <1>2, <1>4, <3>1 DEF t
    <3>3. QED
      BY <3>2 DEF AsSet
  <2>2. CASE i > Len(keys) - n
    <3>1. i - (Len(keys) - n) \in 1 .. n /\ Len(keys) - n + (i - (Len(keys) - n)) = i
      BY <1>1, <2>2
    <3>2. d[i - (Len(keys) - n)] = keys[i] /\ i - (Len(keys) - n) \in DOMAIN d
      BY <1>3, <1>4, <3>1 DEF d
    <3>3. QED
      BY <3>2 DEF AsSet
  <2>3. QED
    BY <1>1, <2>1, <2>2
<1>6. \A i \in DOMAIN t : t[i] \in AsSet(keys)
  <2> SUFFICES ASSUME NEW i \in DOMAIN t PROVE t[i] \in AsSet(keys)
    OBVIOUS
  <2>1. i \in 1 .. Len(keys) - n /\ i \in DOMAIN keys
    BY <1>1, <1>4
  <2>2. t[i] = keys[i]
    BY <1>2, <2>1 DEF t
  <2>3. QED
    BY <2>1, <2>2 DEF AsSet
<1>7. \A i \in DOMAIN d : d[i] \in AsSet(keys)
  <2> SUFFICES ASSUME NEW i \in DOMAIN d PROVE d[i] \in AsSet(keys)
    OBVIOUS
  <2>1. i \in 1 .. n /\ Len(keys) - n + i \in 1 .. Len(keys)
    BY <1>1, <1>4
  <2>2. d[i] = keys[Len(keys) - n + i] /\ Len(keys) - n + i \in DOMAIN keys
    BY <1>3, <1>4, <2>1 DEF d
  <2>3. QED
    BY <2>2 DEF AsSet
<1>8. AsSet(keys) \subseteq AsSet(t) \cup AsSet(d)
  BY <1>4, <1>5 DEF AsSet
<1>9. AsSet(t) \subseteq AsSet(keys) /\ AsSet(d) \subseteq AsSet(keys)
  BY <1>6, <1>7 DEF AsSet
<1>10. AsSet(keys) \subseteq Keys
  BY DEF AsSet
<1>11. QED
  BY <1>2, <1>3, <1>8, <1>9, <1>10 DEF t, d

LEMMA StartsStep ==
    ASSUME QueryInv, NEW s \in Consumer, Starts(s) PROVE QueryInv'
<1>1. PICK n \in 0 .. Len(streams[s].keys) - 1 :
        streams' = [streams EXCEPT ![s] = [@ EXCEPT !.st = "runs",
                       !.rest = Discarded(streams[s].keys, n),
                       !.due = AsSet(Taken(streams[s].keys, n)) \cap Present[streams[s].block]]]
  BY DEF Starts
<1>2. /\ streams[s].st = "asked"
      /\ UNCHANGED <<pins, shown, asks, cache, toRelease, wasReset>>
  BY DEF Starts
<1> DEFINE rest == Discarded(streams[s].keys, n)
           due  == AsSet(Taken(streams[s].keys, n)) \cap Present[streams[s].block]
           x    == [streams[s] EXCEPT !.st = "runs", !.rest = rest, !.due = due]
<1>3. streams' = [streams EXCEPT ![s] = x]
  BY <1>1, StreamFacts
<1>4. streams[s].keys \in Seq(Keys)
  BY StreamFacts DEF StreamRecord
<1>5. /\ rest \in Seq(Keys) /\ due \in SUBSET Keys /\ due \subseteq Present[streams[s].block]
      /\ AsSet(streams[s].keys) \cap Present[streams[s].block] \subseteq due \cup AsSet(rest)
  BY <1>4, TakenFacts
<1> HIDE DEF rest, due
<1>6. /\ x \in StreamRecord /\ x.st = "runs"
      /\ x.to = streams[s].to /\ x.block = streams[s].block /\ x.all = streams[s].all
      /\ x.rest = rest /\ x.due = due /\ x.got = streams[s].got
  <2>1. streams[s] \in StreamRecord /\ "runs" \in {"off"} \cup Working \cup Errors
    BY StreamFacts DEF Working
  <2>2. QED
    BY <1>5, <2>1 DEF StreamRecord
<1> HIDE DEF x
<1>7. WorkOk(x)
  <2>1. WorkOk(streams[s])
    BY <1>2, StreamFacts DEF StreamOk
  <2>2. x.got \cup x.due \subseteq Present[x.block]
    BY <1>5, <1>6, <2>1 DEF WorkOk
  <2>3. AsSet(x.all) \cap Present[x.block] \subseteq x.got \cup x.due \cup AsSet(x.rest)
    BY <1>2, <1>5, <1>6, <2>1 DEF WorkOk
  <2>4. QED
    BY <1>6, <2>2, <2>3 DEF WorkOk
<1>8. StreamOk(x, s, asks[s], pins)
  BY <1>2, <1>6, <1>7, StreamFacts DEF StreamOk, Errors, Working
<1>9. asks' = [asks EXCEPT ![s] = asks[s]]
  BY <1>2, StreamFacts
<1>10. streams[s].st # "off" /\ x.st # "off" /\ x.to = streams[s].to
       /\ x.block = streams[s].block
  BY <1>2, <1>6
<1>11. QED
  BY <1>2, <1>3, <1>6, <1>8, <1>9, <1>10, AskFacts, StreamChanges

LEMMA ItemsStep ==
    ASSUME QueryInv, NEW s \in Consumer, NEW k \in Keys, Items(s, k) PROVE QueryInv'
<1> DEFINE hears == asks[s].kind = "values" /\ asks[s].phase = "asking"
           x == [streams[s] EXCEPT !.due = @ \ {k}, !.got = @ \cup {k}]
           a == IF hears THEN [asks[s] EXCEPT !.results[k] = streams[s].block] ELSE asks[s]
<1>1. /\ streams[s].st = "runs" /\ k \in streams[s].due
      /\ UNCHANGED <<pins, shown, cache, toRelease, wasReset>>
  BY DEF Items
<1>2. streams' = [streams EXCEPT ![s] = x]
  BY StreamFacts DEF Items
<1>3. asks' = [asks EXCEPT ![s] = a]
  <2>1. CASE hears
    BY <2>1, AskFacts DEF Items
  <2>2. CASE ~hears
    BY <2>2, StreamFacts DEF Items
  <2>3. QED
    BY <2>1, <2>2
<1>4. /\ x \in StreamRecord /\ x.st = "runs"
      /\ x.to = streams[s].to /\ x.block = streams[s].block /\ x.all = streams[s].all
      /\ x.rest = streams[s].rest
      /\ x.due = streams[s].due \ {k} /\ x.got = streams[s].got \cup {k}
  <2>1. streams[s] \in StreamRecord
        /\ streams[s].due \ {k} \in SUBSET Keys /\ streams[s].got \cup {k} \in SUBSET Keys
    BY StreamFacts DEF StreamRecord
  <2>2. QED
    BY <1>1, <2>1 DEF StreamRecord
<1> HIDE DEF x
<1>5. WorkOk(x) /\ k \in Present[streams[s].block] /\ streams[s].block \in Blocks
  <2>1. WorkOk(streams[s]) /\ streams[s].block \in Blocks
    BY <1>1, StreamFacts DEF StreamOk
  <2>2. QED
    BY <1>1, <1>4, <2>1 DEF WorkOk
<1>6. StreamOk(x, s, asks[s], pins)
  BY <1>1, <1>4, <1>5, StreamFacts DEF StreamOk, Errors, Working
<1>7. hears => asks[s].on = streams[s].block
  <2>1. hears => s \in streams[s].to
    BY <1>1, StreamFacts DEF StreamOk
  <2>2. QED
    BY <2>1 DEF QueryInv, ListenersOk, ListensOk
<1>8. /\ a \in AskRecord /\ a.kind = asks[s].kind /\ a.at = asks[s].at
      /\ a.phase = asks[s].phase /\ a.on = asks[s].on /\ a.mixed = asks[s].mixed
      /\ \A i \in Keys : i # k => a.results[i] = asks[s].results[i]
      /\ hears => a.results[k] = streams[s].block
      /\ ~hears => a = asks[s]
  <2>1. asks[s] \in AskRecord /\ streams[s].block \in Somewhere
    BY <1>5, AskFacts DEF Somewhere
  <2>2. QED
    BY <2>1 DEF AskRecord
<1> HIDE DEF a
<1>9. AskOk(a)
  <2>1. CASE ~hears
    BY <1>8, <2>1, AskFacts
  <2>2. CASE hears
    <3>1. AskOk(asks[s]) /\ asks[s].phase = "asking" /\ asks[s].kind = "values"
          /\ (asks[s].at \in Blocks => streams[s].block = asks[s].at)
      <4>1. AskOk(asks[s])
        BY AskFacts
      <4>2. streams[s].block # Nowhere
        BY <1>5, ChainFacts DEF Nowhere
      <4>3. QED
        BY <1>7, <2>2, <4>1, <4>2 DEF AskOk
    <3>2. ResultsOk(a)
      BY <1>5, <1>7, <1>8, <2>2, <3>1 DEF AskOk, ResultsOk
    <3>3. QED
      BY <1>8, <3>1, <3>2 DEF AskOk, AnswerOk
  <2>3. QED
    BY <2>1, <2>2
<1>10. streams[s].st # "off" /\ x.st # "off" /\ x.to = streams[s].to
       /\ x.block = streams[s].block
  BY <1>1, <1>4
<1> HIDE DEF hears
<1>11. a.kind = asks[s].kind /\ a.at = asks[s].at /\ a.phase = asks[s].phase
       /\ a.on = asks[s].on
  BY <1>8
<1>12. QED
  BY <1>1, <1>2, <1>3, <1>4, <1>6, <1>8, <1>9, <1>10, <1>11, StreamChanges

\* What a stream that completes has got is all that its block has of the query.
LEMMA DoneStep ==
    ASSUME QueryInv, NEW s \in Consumer, Done(s) PROVE QueryInv'
<1> DEFINE to == {c \in streams[s].to : asks[c].phase = "asking"}
<1>1. /\ Quiet /\ streams[s].st = "runs" /\ streams[s].due = {}
      /\ UNCHANGED <<pins, shown, wasReset>>
      /\ (streams[s].rest # <<>> =>
            /\ streams' = [streams EXCEPT ![s] = Request(streams[s], streams[s].rest)]
            /\ UNCHANGED <<asks, cache, toRelease>>)
      /\ (streams[s].rest = <<>> =>
            /\ streams' = [streams EXCEPT ![s] = NoStream]
            /\ asks' = [c \in Consumer |-> IF c \in to
                          THEN Answer(asks[c], streams[s].block, streams[s].got) ELSE asks[c]]
            /\ cache' = [b \in Blocks |-> IF cache[b] = s THEN Stored ELSE cache[b]]
            /\ toRelease' = IF to = {} THEN toRelease
                            ELSE toRelease \cup {streams[s].block})
  BY StreamFacts DEF Done
<1>2. /\ streams[s] \in StreamRecord /\ WorkOk(streams[s]) /\ streams[s].block \in Blocks
      /\ streams[s].all = KeysOf(asks[s].kind) /\ streams[s].rest \in Seq(Keys)
      /\ streams[s].got \in SUBSET Keys
  BY <1>1, StreamFacts DEF StreamOk, StreamRecord
<1>3. CASE streams[s].rest # <<>>
  <2> DEFINE x == Request(streams[s], streams[s].rest)
  <2>1. /\ x \in StreamRecord /\ x.st = "asked" /\ x.keys = streams[s].rest
        /\ x.due = {} /\ x.got = streams[s].got
        /\ x.to = streams[s].to /\ x.block = streams[s].block /\ x.all = streams[s].all
    BY <1>2, RequestFacts
  <2>2. streams' = [streams EXCEPT ![s] = x] /\ UNCHANGED <<asks, cache, toRelease>>
    BY <1>1, <1>3
  <2> HIDE DEF x
  <2>3. WorkOk(x)
    BY <1>1, <1>2, <2>1 DEF WorkOk
  <2>4. StreamOk(x, s, asks[s], pins)
    BY <1>1, <2>1, <2>3, StreamFacts DEF StreamOk, Errors, Working
  <2>5. asks' = [asks EXCEPT ![s] = asks[s]]
    BY <2>2, StreamFacts
  <2>6. streams[s].st # "off" /\ x.st # "off" /\ x.to = streams[s].to
        /\ x.block = streams[s].block
    BY <1>1, <2>1
  <2>7. QED
    BY <1>1, <2>1, <2>2, <2>4, <2>5, <2>6, AskFacts, StreamChanges
<1>4. CASE streams[s].rest = <<>>
  <2>1. /\ streams' = [streams EXCEPT ![s] = NoStream]
        /\ asks' = [c \in Consumer |-> IF c \in to
                      THEN Answer(asks[c], streams[s].block, streams[s].got) ELSE asks[c]]
        /\ cache' = [b \in Blocks |-> IF cache[b] = s THEN Stored ELSE cache[b]]
        /\ toRelease' = IF to = {} THEN toRelease ELSE toRelease \cup {streams[s].block}
    BY <1>1, <1>4
  <2>a. /\ asks \in [Consumer -> AskRecord] /\ streams \in [Consumer -> StreamRecord]
        /\ cache \in [Blocks -> Consumer \cup {None, Stored}] /\ toRelease \subseteq Blocks
        /\ \A c \in Consumer : AskOk(asks[c])
    BY DEF QueryInv, Typed
  <2>2. AsSet(streams[s].all) \cap Present[streams[s].block] \subseteq streams[s].got
        /\ streams[s].got \subseteq Present[streams[s].block]
    <3>1. AsSet(streams[s].rest) = {}
      BY <1>4 DEF AsSet
    <3>2. QED
      BY <1>1, <1>2, <3>1 DEF WorkOk
  <2>3. ASSUME NEW c \in to
        PROVE  /\ c \in Consumer /\ asks[c].phase = "asking" /\ asks[c].on = streams[s].block
               /\ asks[c].kind = asks[s].kind /\ c \in streams[s].to
    <3>1. c \in Consumer /\ c \in streams[s].to /\ asks[c].phase = "asking"
      BY <1>2 DEF StreamRecord
    <3>2. QED
      BY <3>1 DEF QueryInv, ListenersOk, ListensOk
  <2>4. ASSUME NEW c \in to
        PROVE  /\ asks'[c] = Answer(asks[c], streams[s].block, streams[s].got)
               /\ asks'[c] \in AskRecord /\ AskOk(asks'[c])
               /\ asks'[c].phase = "done" /\ asks'[c].kind = asks[c].kind
    <3>1. /\ c \in Consumer /\ asks[c].phase = "asking" /\ asks[c].on = streams[s].block
          /\ asks[c].kind = asks[s].kind
      BY <2>3
    <3>2. asks'[c] = Answer(asks[c], streams[s].block, streams[s].got)
      BY <2>1, <3>1
    <3>3. asks[c] \in AskRecord /\ AskOk(asks[c])
      BY <2>a, <3>1
    <3>4. /\ asks[c].at \in Blocks \cup Dynamic
          /\ asks[c].at \in Blocks => streams[s].block = asks[c].at
          /\ asks[c].phase # "done"
          /\ asks[c].mixed \/ \A k \in Keys : asks[c].results[k] \in {Nowhere, streams[s].block}
      <4>1. streams[s].block # Nowhere
        BY <1>2, ChainFacts DEF Nowhere
      <4>2. QED
        BY <3>1, <3>3, <4>1 DEF AskOk, ResultsOk
    <3>5. AsSet(KeysOf(asks[c].kind)) \cap Present[streams[s].block] \subseteq streams[s].got
      BY <1>2, <2>2, <3>1
    <3>6. /\ Answer(asks[c], streams[s].block, streams[s].got) \in AskRecord
          /\ AskOk(Answer(asks[c], streams[s].block, streams[s].got))
          /\ Answer(asks[c], streams[s].block, streams[s].got).phase = "done"
          /\ Answer(asks[c], streams[s].block, streams[s].got).kind = asks[c].kind
      BY <1>2, <2>2, <3>3, <3>4, <3>5, AnswerFacts
    <3>7. QED
      BY <3>2, <3>6
  <2>5. \A c \in Consumer : c \notin to => asks'[c] = asks[c]
    BY <2>1
  <2> HIDE DEF to
  <2>6. asks' \in [Consumer -> AskRecord] /\ \A c \in Consumer : AskOk(asks'[c])
    <3>1. \A c \in Consumer : asks'[c] \in AskRecord /\ AskOk(asks'[c])
      BY <2>a, <2>4, <2>5
    <3>2. DOMAIN asks' = Consumer /\ asks' = [c \in Consumer |-> asks'[c]]
      BY <2>1
    <3>3. QED
      BY <3>1, <3>2
  <2>7. NoStream \in StreamRecord
    BY DEF NoStream, StreamRecord, Somewhere, Working, Errors
  <2>8. /\ cache' \in [Blocks -> Consumer \cup {None, Stored}]
        /\ \A b \in Blocks : cache'[b] \in Consumer =>
              cache'[b] = cache[b] /\ cache[b] \notin {s}
    BY <2>1, <2>a, WantedAssumption
  <2>9. toRelease \subseteq toRelease' /\ toRelease' \subseteq Blocks
    BY <1>2, <2>1, <2>a
  <2>10. Typed'
    BY <1>1, <2>1, <2>a, <2>6, <2>7, <2>8, <2>9 DEF QueryInv, Typed
  <2>11. PinsOk(pins') /\ ShownOk(pins, shown)' /\ (wasReset => wasReset')
    BY <1>1 DEF QueryInv, ShownOk
  <2>12. /\ {s} \in SUBSET Consumer
         /\ \A t \in Consumer : SameStream(streams[t], streams[t])
         /\ \A t \in Consumer \ {s} : StreamOk(streams[t], t, asks[t], pins')
    BY <1>1 DEF QueryInv, SameStream
  <2>13. streams' = [t \in Consumer |-> IF t \in {s} THEN NoStream ELSE streams[t]]
    BY <2>1, <2>a
  <2>14. \A c \in Consumer : Moved(c, {s})
    BY <2>3, <2>4, <2>5 DEF Moved
  <2>15. \A c \in Consumer, t \in {s} : c \in streams[t].to => asks'[c].phase # "asking"
    <3> SUFFICES ASSUME NEW c \in Consumer, c \in streams[s].to
                 PROVE  asks'[c].phase # "asking"
      OBVIOUS
    <3>1. CASE c \in to
      BY <2>4, <3>1
    <3>2. CASE c \notin to
      BY <2>5, <3>2 DEF to
    <3>3. QED
      BY <3>1, <3>2
  <2>16. \A c \in Consumer : asks'[c].phase = "failed" => asks'[c] = asks[c]
    BY <2>4, <2>5
  <2>17. QED
    BY <2>6, <2>8, <2>9, <2>10, <2>11, <2>12, <2>13, <2>14, <2>15, <2>16, StreamsEnd
<1>5. QED
  BY <1>3, <1>4

LEMMA InaccessibleStep ==
    ASSUME QueryInv, NEW s \in Consumer, Inaccessible(s) PROVE QueryInv'
<1> DEFINE x  == [streams[s] EXCEPT !.st = "inaccessible"]
           ss == [streams EXCEPT ![s] = x]
<1>1. /\ Quiet /\ streams[s].st = "runs" /\ UNCHANGED <<pins, shown, wasReset>>
      /\ Publish(ss, cache)
  BY StreamFacts DEF Inaccessible
<1>2. /\ x \in StreamRecord /\ x.st = "inaccessible"
      /\ x.to = streams[s].to /\ x.block = streams[s].block
  <2>1. streams[s] \in StreamRecord /\ "inaccessible" \in {"off"} \cup Working \cup Errors
    BY StreamFacts DEF Errors
  <2>2. QED
    BY <2>1 DEF StreamRecord
<1> HIDE DEF x
<1>3. ss \in [Consumer -> StreamRecord]
  BY <1>2, StreamFacts
<1>4. /\ ss[s] = x /\ \A t \in Consumer : t # s => ss[t] = streams[t]
  BY StreamFacts
<1> HIDE DEF ss
<1>5. \A t \in Consumer : SameStream(ss[t], streams[t])
  BY <1>1, <1>2, <1>4 DEF SameStream
<1>6. \A t \in Consumer : ss[t].st \notin Errors => StreamOk(ss[t], t, asks[t], pins')
  BY <1>1, <1>2, <1>4 DEF QueryInv, Errors
<1>7. cache \in [Blocks -> Consumer \cup {None, Stored}]
      /\ \A b \in Blocks : cache[b] \in {cache[b], None}
  BY DEF QueryInv, Typed
<1>8. /\ pins' \in Pins /\ PinsOk(pins') /\ wasReset' \in BOOLEAN /\ (wasReset => wasReset')
      /\ shown' \in [best : Blocks, finalized : Blocks] /\ ShownOk(pins, shown)'
  BY <1>1 DEF QueryInv, Typed, ShownOk
<1>9. QED
  BY <1>1, <1>3, <1>5, <1>6, <1>7, <1>8, PublishStep

\* The timer of a hold unpins only what nobody uses.
LEMMA ReleaseBlockStep ==
    ASSUME QueryInv, NEW b \in Blocks, ReleaseBlock(b) PROVE QueryInv'
<1> DEFINE gone == IF Unpinned(b) /\ ~InUse(b) THEN {b} ELSE {}
           p    == [pins EXCEPT !.blocks = @ \ gone]
<1>1. /\ Quiet /\ pins' = p
      /\ cache' = [x \in Blocks |-> IF x \in gone THEN None ELSE cache[x]]
      /\ toRelease' = toRelease \ {b}
      /\ UNCHANGED <<shown, asks, streams, wasReset>>
  BY DEF ReleaseBlock
<1>2. gone \subseteq {b} /\ (b \in gone => Unpinned(b) /\ ~InUse(b))
  OBVIOUS
<1> HIDE DEF gone
<1>3. /\ p \in Pins
      /\ p.blocks = pins.blocks \ gone /\ p.recovering = pins.recovering
      /\ p.ready = pins.ready /\ p.initialized = pins.initialized
      /\ p.best = pins.best /\ p.finalized = pins.finalized
  BY PinsFacts DEF Pins
<1> HIDE DEF p
<1>4. \A u \in gone : Unpinned(u)
  BY <1>2
<1>5. PinsOk(p) /\ ShownOk(p, shown)
  BY <1>3, <1>4, PinsFacts, UnpinnedFacts DEF PinsOk, ShownOk
<1>6. \A t \in Consumer : StreamOk(streams[t], t, asks[t], p)
  <2> SUFFICES ASSUME NEW t \in Consumer PROVE StreamOk(streams[t], t, asks[t], p)
    OBVIOUS
  <2>1. StreamOk(streams[t], t, asks[t], pins)
    BY DEF QueryInv
  <2>2. streams[t].st # "off" => InUse(streams[t].block)
    BY <1>1, ListenersHold
  <2>3. streams[t].st # "off" => streams[t].block \notin gone
    BY <1>2, <2>2
  <2>4. QED
    BY <1>3, <2>1, <2>3 DEF StreamOk, Working
<1>7. ListenersOk'
  <2>1. \A c, t \in Consumer : ListensOk(c, t, streams[t], asks[c], asks[t])'
    <3> SUFFICES ASSUME NEW c \in Consumer, NEW t \in Consumer, c \in streams[t].to
                 PROVE  ListensOk(c, t, streams[t], asks[c], asks[t])'
      BY <1>1 DEF ListensOk
    <3>1. asks[c].phase = "asking" /\ asks[c].on = streams[t].block
      BY <1>1, ListenersHold
    <3>2. ListensOk(c, t, streams[t], asks[c], asks[t])
      BY DEF QueryInv, ListenersOk
    <3>3. QED
      BY <1>1, <3>1, <3>2 DEF ListensOk
  <2>2. QED
    BY <1>1, <2>1 DEF QueryInv, ListenersOk
<1>8. \A x \in Blocks : CacheOk(x)'
  BY <1>1, WantedAssumption DEF QueryInv, CacheOk
<1>9. Typed'
  <2>1. cache' \in [Blocks -> Consumer \cup {None, Stored}]
    BY <1>1 DEF QueryInv, Typed
  <2>2. QED
    BY <1>1, <1>3, <2>1 DEF QueryInv, Typed
<1>10. FailuresOk' /\ \A c \in Consumer : AskOk(asks'[c])
  BY <1>1 DEF QueryInv, FailuresOk
<1>11. PinsOk(pins') /\ ShownOk(pins, shown)'
  BY <1>1, <1>5 DEF ShownOk
<1>12. \A t \in Consumer : StreamOk(streams'[t], t, asks'[t], pins')
  BY <1>1, <1>6
<1>13. QED
  BY <1>7, <1>8, <1>9, <1>10, <1>11, <1>12 DEF QueryInv

-------------------------------------------------------------------------------
(***************************************************************************)
(* The theorems.                                                           *)
(***************************************************************************)
LEMMA QueryInvNext ==
    QueryInv /\ [QueryNext]_queryVars => QueryInv'
<1> SUFFICES ASSUME QueryInv, [QueryNext]_queryVars PROVE QueryInv'
  OBVIOUS
<1>1. ASSUME NEW c \in Consumer,
             \/ \E want \in Wanted[c] : AskFor(c, want)
             \/ Resolve(c) \/ RetryAfter(c) \/ ArchiveAnswers(c) \/ Leave(c) \/ Microtask(c)
      PROVE  QueryInv'
  BY <1>1, AskForStep, ResolveStep, RetryAfterStep, ArchiveAnswersStep, LeaveStep,
     MicrotaskStep
<1>2. ASSUME NEW c \in Consumer,
             \/ Refuses(c) \/ SlotFrees(c) \/ Starts(c) \/ Done(c) \/ Inaccessible(c)
             \/ \E k \in 1 .. NKeys : Items(c, k)
      PROVE  QueryInv'
  BY <1>2, RefusesStep, StartsStep, DoneStep, InaccessibleStep, ItemsStep DEF Keys
<1>3. ASSUME NEW b \in Blocks,
             \/ Announce(b) \/ BestBlock(b) \/ FinalizeBlock(b) \/ FollowAgain(b)
             \/ ReleaseBlock(b)
      PROVE  QueryInv'
  BY <1>3, AnnounceStep, BestBlockStep, FinalizeBlockStep, FollowAgainStep, ReleaseBlockStep
<1>4. CASE CleanUpBlocks \/ StopFollow
  BY <1>4, CleanUpStep, StopFollowStep
<1>5. CASE UNCHANGED queryVars
  <2>1. /\ pins' = pins /\ shown' = shown /\ asks' = asks /\ streams' = streams
        /\ cache' = cache /\ toRelease' = toRelease /\ wasReset' = wasReset
    BY <1>5 DEF queryVars
  <2>2. Typed' /\ ListenersOk' /\ FailuresOk' /\ ShownOk(pins, shown)'
    BY <2>1 DEF QueryInv, Typed, ListenersOk, ListensOk, FailuresOk, ShownOk
  <2>3. \A b \in Blocks : CacheOk(b)'
    BY <2>1 DEF QueryInv, CacheOk
  <2>4. QED
    BY <2>1, <2>2, <2>3 DEF QueryInv
<1>6. QED
  BY <1>1, <1>2, <1>3, <1>4, <1>5 DEF QueryNext

LEMMA QueryInvAlways == QuerySpec => []QueryInv
<1>1. QED
  BY QueryInvInit, QueryInvNext, PTL DEF QuerySpec

LEMMA QueryInvSuffices == QueryInv => QueriesAreRight
<1> SUFFICES ASSUME QueryInv PROVE QueriesAreRight
  OBVIOUS
<1>1. AnswersAreRight
  BY DEF QueryInv, AskOk, AnswerOk, AnswersAreRight
<1>2. AskersAreServed
  <2> SUFFICES ASSUME NEW c \in Consumer, asks[c].phase = "asking"
               PROVE  \E s \in Consumer :
                         /\ c \in streams[s].to /\ streams[s].st \in Working
                         /\ streams[s].block = asks[c].on
    BY DEF AskersAreServed
  <2>1. PICK s \in Consumer : c \in streams[s].to
    BY DEF QueryInv, ListenersOk
  <2>2. streams[s].block = asks[c].on
    BY <2>1 DEF QueryInv, ListenersOk, ListensOk
  <2>3. streams[s] \in StreamRecord /\ StreamOk(streams[s], s, asks[s], pins)
    BY StreamFacts
  <2>4. streams[s].st # "off"
    BY <2>1, <2>3 DEF StreamOk, NoStream
  <2>5. streams[s].st \in Working
    BY <2>3, <2>4 DEF StreamOk, StreamRecord
  <2>6. QED
    BY <2>1, <2>2, <2>5
<1>3. OperationsAreOnPinned
  BY DEF QueryInv, StreamOk, OperationsAreOnPinned, Working
<1>4. DynamicFindsABlock
  BY DEF QueryInv, FailuresOk, DynamicFindsABlock
<1>5. QED
  BY <1>1, <1>2, <1>3, <1>4 DEF QueriesAreRight

\* Every answer is of one block, what runs for somebody works on a pinned block that
\* somebody holds, and a call of the best or finalized block finds one.
THEOREM QueriesStayRight == QuerySpec => []QueriesAreRight
<1>1. QED
  BY QueryInvAlways, QueryInvSuffices, PTL

-------------------------------------------------------------------------------
(***************************************************************************)
(* Whom withStopRecovery turns away.                                       *)
(***************************************************************************)
\* Only who waits is turned away, from a block that is gone, and if that was ever
\* there only after finality has come to its height.
LEMMA OnPinnedTurnsAway ==
    ASSUME NEW p \in Pins, NEW x \in StreamRecord, x.st \notin Errors,
           x.st # "off" => x.block \in Blocks
    PROVE  /\ OnPinned(p, x) \in StreamRecord /\ SameStream(OnPinned(p, x), x)
           /\ OnPinned(p, x).st \in Errors =>
                /\ p.ready /\ x.block \notin p.blocks
                /\ x.seen => Rank[p.finalized] >= Rank[x.block]
<1> DEFINE y == OnPinned(p, x)
<1>0. x.st \in {"off"} \cup Working
  BY DEF StreamRecord
<1>1. CASE x.st = "off" \/ (p.ready /\ x.st \in Working \ {"waits"})
  <2>1. y = x
    BY <1>1 DEF OnPinned, Working
  <2>2. QED
    BY <2>1 DEF SameStream
<1>2. CASE x.st # "off" /\ ~p.ready
  <2>1. y = [x EXCEPT !.st = "waits"]
    BY <1>2 DEF OnPinned
  <2>2. y \in StreamRecord /\ y.st = "waits" /\ y.to = x.to /\ y.block = x.block
    BY <2>1 DEF StreamRecord, Working
  <2> HIDE DEF y
  <2>3. QED
    BY <1>2, <2>2 DEF SameStream, Errors, y
<1>3. CASE p.ready /\ x.st = "waits" /\ x.block \in p.blocks
  <2>1. y = Request(x, x.all) /\ x.all \in Seq(Keys)
    BY <1>3 DEF OnPinned, StreamRecord
  <2>2. y \in StreamRecord /\ y.st = "asked" /\ y.to = x.to /\ y.block = x.block
    BY <2>1, RequestFacts
  <2> HIDE DEF y
  <2>3. QED
    BY <1>3, <2>2 DEF SameStream, Errors, y
<1>4. CASE p.ready /\ x.st = "waits" /\ x.block \notin p.blocks
  <2>1. y = IF x.seen /\ Rank[p.finalized] < Rank[x.block] THEN x
            ELSE [x EXCEPT !.st = "notPinned"]
    BY <1>4 DEF OnPinned, Working
  <2>2. CASE x.seen /\ Rank[p.finalized] < Rank[x.block]
    <3>1. y = x
      BY <2>1, <2>2
    <3>2. QED
      BY <3>1 DEF SameStream
  <2>3. CASE ~(x.seen /\ Rank[p.finalized] < Rank[x.block])
    <3>1. y = [x EXCEPT !.st = "notPinned"]
      BY <2>1, <2>3
    <3>2. y \in StreamRecord /\ y.st = "notPinned" /\ y.to = x.to /\ y.block = x.block
      BY <3>1 DEF StreamRecord, Errors
    <3>3. x.seen => Rank[p.finalized] >= Rank[x.block]
      <4>1. p.finalized \in Blocks /\ x.block \in Blocks
        BY <1>4 DEF Pins
      <4>2. Rank[p.finalized] \in Nat /\ Rank[x.block] \in Nat
        BY <4>1, RankUnfolds
      <4>3. QED
        BY <2>3, <4>2
    <3> HIDE DEF y
    <3>4. QED
      BY <1>4, <3>2, <3>3 DEF SameStream, Errors, y
  <2>4. QED
    BY <2>2, <2>3
<1>5. QED
  BY <1>0, <1>1, <1>2, <1>3, <1>4

LEMMA EmitTurnsAway ==
    ASSUME QueryInv, QueryInv', Quiet, NEW p, NEW deleted, Emit(p, deleted)
    PROVE  TurnsAwayRightly
<1> DEFINE ss   == [s \in Consumer |-> OnPinned(p, streams[s])]
           kept == [b \in Blocks |-> IF b \in deleted THEN None ELSE cache[b]]
<1>1. pins' = p /\ p \in Pins /\ Publish(ss, kept)
  BY DEF Emit, QueryInv, Typed
<1>2. ASSUME NEW s \in Consumer
      PROVE  /\ ss[s] \in StreamRecord /\ SameStream(ss[s], streams[s])
             /\ ss[s].st \in Errors =>
                  /\ p.ready /\ streams[s].block \notin p.blocks
                  /\ streams[s].seen => Rank[p.finalized] >= Rank[streams[s].block]
  <2>1. streams[s] \in StreamRecord /\ StreamOk(streams[s], s, asks[s], pins)
    BY StreamFacts
  <2>2. streams[s].st \notin Errors /\ (streams[s].st # "off" => streams[s].block \in Blocks)
    BY <2>1 DEF StreamOk
  <2>3. ss[s] = OnPinned(p, streams[s])
    OBVIOUS
  <2> HIDE DEF ss
  <2>4. QED
    BY <1>1, <2>1, <2>2, <2>3, OnPinnedTurnsAway
<1>3. ss \in [Consumer -> StreamRecord]
  BY <1>2
<1> HIDE DEF ss, kept
<1>4. \A s \in Consumer : SameStream(ss[s], streams[s])
  BY <1>2
<1> SUFFICES ASSUME NEW c \in Consumer, asks[c].phase = "asking",
                    asks'[c].phase \in {"archive", "resolving"}
             PROVE  /\ pins'.ready /\ asks[c].on \notin pins'.blocks
                    /\ (\E s \in Consumer : c \in streams[s].to /\ streams[s].seen) =>
                          Rank[pins'.finalized] >= Rank[asks[c].on]
  BY DEF TurnsAwayRightly
<1>5. PICK s \in Consumer : ss[s].st \in Errors /\ c \in streams[s].to
  BY <1>1, <1>3, <1>4, PublishFacts
<1>6. asks[c].on = streams[s].block
  BY <1>5 DEF QueryInv, ListenersOk, ListensOk
<1>7. \A t \in Consumer : c \in streams[t].to => t = s
  BY <1>5 DEF QueryInv, ListenersOk
<1>8. QED
  BY <1>1, <1>2, <1>5, <1>6, <1>7

\* An operation whose block was inaccessible is tried again.
LEMMA InaccessibleTurnsAway ==
    ASSUME QueryInv, NEW s \in Consumer, Inaccessible(s) PROVE TurnsAwayRightly
<1> DEFINE x  == [streams[s] EXCEPT !.st = "inaccessible"]
           ss == [streams EXCEPT ![s] = x]
<1>1. /\ Quiet /\ streams[s].st = "runs" /\ Publish(ss, cache)
  BY StreamFacts DEF Inaccessible
<1>2. /\ x \in StreamRecord /\ x.st = "inaccessible"
      /\ x.to = streams[s].to /\ x.block = streams[s].block
  <2>1. streams[s] \in StreamRecord /\ "inaccessible" \in {"off"} \cup Working \cup Errors
    BY StreamFacts DEF Errors
  <2>2. QED
    BY <2>1 DEF StreamRecord
<1> HIDE DEF x
<1>3. ss \in [Consumer -> StreamRecord]
  BY <1>2, StreamFacts
<1>4. /\ ss[s] = x /\ \A t \in Consumer : t # s => ss[t] = streams[t]
  BY StreamFacts
<1> HIDE DEF ss
<1>5. \A t \in Consumer : SameStream(ss[t], streams[t])
  BY <1>1, <1>2, <1>4 DEF SameStream
<1>6. \A t \in Consumer : ss[t].st \in Errors => ss[t].st = "inaccessible"
  BY <1>2, <1>4 DEF QueryInv, StreamOk
<1>7. ASSUME NEW c \in Consumer, asks[c].phase = "asking",
             asks'[c].phase \in {"archive", "resolving"}
      PROVE  FALSE
  <2>1. PICK t \in Consumer : ss[t].st \in Errors /\ asks'[c] = AfterError(asks[c], ss[t].st)
    BY <1>1, <1>3, <1>5, <1>7, PublishFacts
  <2>2. asks'[c] = AfterError(asks[c], "inaccessible") /\ "inaccessible" \in Errors
    BY <1>6, <2>1 DEF Errors
  <2>3. asks[c] \in AskRecord /\ AskOk(asks[c])
    BY AskFacts
  <2>4. AfterError(asks[c], "inaccessible").phase # "retrying" =>
            "inaccessible" = "notPinned"
    BY <1>7, <2>2, <2>3, AfterErrorFacts
  <2>5. QED
    BY <1>7, <2>2, <2>4
<1>8. QED
  BY <1>7 DEF TurnsAwayRightly

\* What the consumers and the other answers of the node do turns nobody away.
LEMMA OthersTurnNobodyAway ==
    ASSUME QueryInv, NEW c \in Consumer,
           \/ \E want \in Wanted[c] : AskFor(c, want)
           \/ Resolve(c) \/ RetryAfter(c) \/ ArchiveAnswers(c) \/ Leave(c) \/ Microtask(c)
           \/ Refuses(c) \/ SlotFrees(c) \/ Starts(c) \/ Done(c)
           \/ \E k \in Keys : Items(c, k)
    PROVE  TurnsAwayRightly
<1>a. asks \in [Consumer -> AskRecord]
  BY AskFacts
<1>1. CASE \/ Microtask(c) \/ Refuses(c) \/ SlotFrees(c) \/ Starts(c)
  <2>1. asks' = asks
    BY <1>1 DEF Microtask, Refuses, SlotFrees, Starts
  <2>2. QED
    BY <2>1 DEF TurnsAwayRightly
<1>2. CASE \/ \E want \in Wanted[c] : AskFor(c, want)
           \/ Resolve(c) \/ RetryAfter(c) \/ ArchiveAnswers(c)
  <2>1. asks[c].phase # "asking"
    BY <1>2 DEF AskFor, Resolve, RetryAfter, ArchiveAnswers
  <2>2. \A d \in Consumer : d # c => asks'[d] = asks[d]
    BY <1>2, <1>a DEF AskFor, Resolve, Query, RetryAfter, ArchiveAnswers
  <2>3. QED
    BY <2>1, <2>2 DEF TurnsAwayRightly
<1>3. CASE Leave(c)
  <2>1. /\ asks'[c].phase = "left" /\ \A d \in Consumer : d # c => asks'[d] = asks[d]
    BY <1>3, <1>a DEF Leave, AskRecord
  <2>2. QED
    BY <2>1 DEF TurnsAwayRightly
<1>4. CASE Done(c)
  <2>1. ASSUME NEW d \in Consumer
        PROVE  asks'[d] = asks[d] \/ \E b, got : asks'[d] = Answer(asks[d], b, got)
    BY <1>4, <1>a DEF Done
  <2>2. ASSUME NEW d \in Consumer, NEW b, NEW got, asks'[d] = Answer(asks[d], b, got)
        PROVE  asks'[d].phase = "done"
    BY <1>a, <2>2 DEF Answer, AskRecord
  <2>3. QED
    BY <2>1, <2>2 DEF TurnsAwayRightly
<1>5. ASSUME NEW k \in Keys, Items(c, k) PROVE TurnsAwayRightly
  <2>1. /\ \A d \in Consumer : d # c => asks'[d] = asks[d]
        /\ asks'[c].phase = asks[c].phase
    BY <1>5, <1>a DEF Items, AskRecord
  <2>2. QED
    BY <2>1 DEF TurnsAwayRightly
<1>6. QED
  BY <1>1, <1>2, <1>3, <1>4, <1>5

LEMMA StepsTurnAwayRightly ==
    QueryInv /\ QueryInv' /\ [QueryNext]_queryVars => TurnsAwayRightly
<1> SUFFICES ASSUME QueryInv, QueryInv', [QueryNext]_queryVars PROVE TurnsAwayRightly
  OBVIOUS
<1>1. CASE \E c \in Consumer :
             \/ \E want \in Wanted[c] : AskFor(c, want)
             \/ Resolve(c) \/ RetryAfter(c) \/ ArchiveAnswers(c) \/ Leave(c) \/ Microtask(c)
             \/ Refuses(c) \/ SlotFrees(c) \/ Starts(c) \/ Done(c) \/ Inaccessible(c)
             \/ \E k \in 1 .. NKeys : Items(c, k)
  BY <1>1, OthersTurnNobodyAway, InaccessibleTurnsAway DEF Keys
<1>2. ASSUME NEW b \in Blocks,
             Announce(b) \/ BestBlock(b) \/ FinalizeBlock(b) \/ FollowAgain(b)
      PROVE  Quiet /\ \E p, deleted : Emit(p, deleted)
  BY <1>2 DEF Announce, BestBlock, FinalizeBlock, FollowAgain
<1>3. CASE CleanUpBlocks \/ StopFollow
  <2>1. Quiet /\ \E p, deleted : Emit(p, deleted)
    BY <1>3 DEF CleanUpBlocks, StopFollow
  <2>2. QED
    BY <2>1, EmitTurnsAway
<1>4. ASSUME NEW b \in Blocks, ReleaseBlock(b) PROVE TurnsAwayRightly
  BY <1>4 DEF ReleaseBlock, TurnsAwayRightly
<1>5. CASE UNCHANGED queryVars
  BY <1>5 DEF queryVars, TurnsAwayRightly
<1>6. QED
  BY <1>1, <1>2, <1>3, <1>4, <1>5, EmitTurnsAway DEF QueryNext

\* However the node stops, a query is turned away only from a block that is gone for
\* good: finality passed it, or it was not there when it was asked for.
THEOREM TurnedAwayAlways == QuerySpec => TurnedAwayRightly
<1>1. QED
  BY QueryInvAlways, StepsTurnAwayRightly, PTL DEF QuerySpec, TurnedAwayRightly

-------------------------------------------------------------------------------
(***************************************************************************)
(* Events.                                                                 *)
(***************************************************************************)
Item == [block : Known, answer : {"waits", "there", "cut"}]

StreamSet == [inners : Seq(Item), pending : SUBSET Known, emitted : Seq(Known),
              view : Seq(Known), settled : SUBSET Known]

\* What is in the queue from position a on and is not cut is the best chain from
\* position m + 1 on, in its order, and pending.
OnTheirWay(queue, a, pend, b, m) ==
  /\ \A i \in a .. Len(queue) : queue[i].answer # "cut" =>
       queue[i].block \in pend /\ \E k \in m + 1 .. Len(Trail[b]) : queue[i].block = Trail[b][k]
  /\ \A k \in m + 1 .. Len(Trail[b]) :
       \E i \in a .. Len(queue) : queue[i].answer # "cut" /\ queue[i].block = Trail[b][k]
  /\ \A i, j \in a .. Len(queue) :
       i < j /\ queue[i].answer # "cut" /\ queue[j].answer # "cut" =>
         Level(queue[i].block) < Level(queue[j].block)

\* The consumer has the best chain from position n to m, settled up to the finalized
\* block and emitted above it.
Has(s, b, f, n, m) ==
  /\ n \in 1 .. Len(Trail[f]) /\ m \in n - 1 .. Len(Trail[b])
  /\ s.view = SubSeq(Trail[b], n, m)
  /\ s.emitted = SubSeq(Trail[b], Len(Trail[f]) + 1, m)
  /\ s.settled = {Trail[b][i] : i \in {j \in n .. m : j <= Len(Trail[f])}}

Shows(s, b, f, n, m) == Has(s, b, f, n, m) /\ OnTheirWay(s.inners, 1, s.pending, b, m)

\* Once the streams failed, what is the best block does not matter any more.
EventsShown ==
  \E b \in Known : \E n \in 1 .. Len(Trail[finalNow]), m \in 0 .. Len(Trail[b]) :
    /\ Under(finalNow, b) /\ (~failed => b = bestNow)
    /\ Shows(Stream, b, finalNow, n, m)

\* What watch reported and asked for leads to the finalized block.
LeadsTo(w, f, gaps) ==
  /\ Len(w) > 0 /\ w[Len(w)] = f
  /\ \A i \in 1 .. Len(w) : Under(w[i], f)
  /\ \A i \in 2 .. Len(w) :
       /\ w[i] # w[i - 1] /\ Under(w[i - 1], w[i])
       /\ ~gaps => ParentIn[w[i]] = w[i - 1]

EventInv ==
  /\ EventTypeOK
  /\ inners # <<>> => inners[1].answer = "waits"
  /\ LeadsTo(watched \o BlocksOf(finalInners), finalNow, jumps # 0)
  /\ ~late /\ jumps = 0 => EventsShown

LEMMA PieceAppend ==
  ASSUME NEW S, NEW s \in Seq(S), NEW a \in Nat, a >= 1, NEW z \in Nat, z + 1 <= Len(s), a <= z + 1
  PROVE  SubSeq(s, a, z + 1) = Append(SubSeq(s, a, z), s[z + 1])
<1> DEFINE p == SubSeq(s, a, z)
           q == SubSeq(s, a, z + 1)
           e == s[z + 1]
<1>1. Len(s) \in Nat /\ e \in S
  BY LenProperties, ElementOfSeq
<1>2. /\ p \in Seq(S) /\ Len(p) = z - a + 1
      /\ \A i \in 1 .. z - a + 1 : p[i] = s[a + i - 1]
  BY <1>1, Piece
<1>3. /\ q \in Seq(S) /\ Len(q) = z - a + 2
      /\ \A i \in 1 .. z - a + 2 : q[i] = s[a + i - 1]
  BY <1>1, Piece
<1> HIDE DEF p, q, e
<1>4. /\ Append(p, e) \in Seq(S) /\ Len(Append(p, e)) = z - a + 2
      /\ \A i \in 1 .. z - a + 1 : Append(p, e)[i] = p[i]
      /\ Append(p, e)[z - a + 2] = e
  BY <1>1, <1>2, AppendProperties
<1>5. \A i \in 1 .. z - a + 2 : q[i] = Append(p, e)[i]
  <2> SUFFICES ASSUME NEW i \in 1 .. z - a + 2 PROVE q[i] = Append(p, e)[i]
    OBVIOUS
  <2>1. CASE i = z - a + 2
    BY <1>3, <1>4, <2>1 DEF e
  <2>2. CASE i \in 1 .. z - a + 1
    BY <1>2, <1>3, <1>4, <2>2
  <2>3. i = z - a + 2 \/ i \in 1 .. z - a + 1
    OBVIOUS
  <2>4. QED
    BY <2>1, <2>2, <2>3
<1>6. q = Append(p, e)
  BY <1>3, <1>4, <1>5, SeqEqual
<1>7. QED
  BY <1>6 DEF p, q, e

LEMMA KnownNumbered ==
  /\ Len(ParentIn) \in Nat
  /\ DOMAIN ParentIn = 1 .. Len(ParentIn)
  /\ Known = 0 .. Len(ParentIn)
  /\ \A b \in Known : b = 0 \/ b \in DOMAIN ParentIn
  /\ \A b \in DOMAIN ParentIn : b \in Known /\ ParentIn[b] \in Known /\ ParentIn[b] < b
<1>1. Len(ParentIn) \in Nat /\ DOMAIN ParentIn = 1 .. Len(ParentIn)
  BY EventAssumption, LenProperties
<1>2. \A b \in DOMAIN ParentIn : ParentIn[b] \in 0 .. b - 1
  BY EventAssumption
<1>3. QED
  BY <1>1, <1>2 DEF Known

\* Induction from the root upwards.
LEMMA KnownInduction ==
  ASSUME NEW S, 0 \in S, \A b \in DOMAIN ParentIn : ParentIn[b] \in S => b \in S
  PROVE  Known \subseteq S
<1> DEFINE N == {n \in Nat : \A b \in Known : b <= n => b \in S}
<1>1. 0 \in N
  BY KnownNumbered
<1>2. ASSUME NEW n \in Nat, n \in N PROVE n + 1 \in N
  <2>1. ASSUME NEW b \in Known, b <= n + 1, b # 0 PROVE b \in S
    <3>1. b \in DOMAIN ParentIn /\ ParentIn[b] \in Known /\ ParentIn[b] <= n
      BY <2>1, KnownNumbered
    <3>2. QED
      BY <3>1, <1>2
  <2>2. QED
    BY <2>1
<1> HIDE DEF N
<1>3. Nat \subseteq N
  BY <1>1, <1>2, InductionOverNat
<1>4. \A b \in Known : b \in Nat /\ b <= b
  BY KnownNumbered
<1>5. QED
  BY <1>3, <1>4 DEF N

LEMMA TrailStep ==
  /\ Trail[0] = Append(<<>>, 0)
  /\ \A b \in DOMAIN ParentIn : Trail[b] = Append(Trail[ParentIn[b]], b)
<1> DEFINE V == Seq(Known)
           start == [b \in Known |-> Append(<<>>, b)]
           below == [b \in Known |-> IF b = 0 THEN 0 ELSE ParentIn[b]]
           F == [b \in Known |-> [v \in V |-> Append(v, b)]]
           rank == [b \in Known |-> b]
<1>0. /\ \A b \in Known : below[b] = IF b = 0 THEN 0 ELSE ParentIn[b]
      /\ \A b \in Known : start[b] = Append(<<>>, b)
      /\ \A b \in Known : \A v \in V : F[b][v] = Append(v, b)
  OBVIOUS
<1>b. below \in [Known -> Known]
  BY KnownNumbered
<1>1. Steps(start, F, Known, V)
  <2>1. \A b \in Known : F[b] \in [V -> V]
    OBVIOUS
  <2>2. start \in [Known -> V]
    OBVIOUS
  <2> HIDE DEF F, start
  <2>3. F \in [Known -> [V -> V]]
    BY <2>1 DEF F
  <2>4. QED
    BY <2>2, <2>3 DEF Steps
<1>r. Ranks(rank, below, {0}, Known)
  <2>1. rank \in [Known -> Nat]
    BY KnownNumbered
  <2>2. \A d \in Known : d \in {0} \/ rank[below[d]] < rank[d]
    BY KnownNumbered, <1>b
  <2>3. QED
    BY <1>b, <2>1, <2>2 DEF Ranks
<1> HIDE DEF start, F, below, rank, V
<1>2. PICK g \in [Known -> V] : Solves(g, start, F, below, {0}, Known)
  BY <1>1, <1>r, RecursionByRank
<1>3. \A b \in Known : g[b] = Append(IF b = 0 THEN <<>> ELSE g[ParentIn[b]], b)
  <2> SUFFICES ASSUME NEW b \in Known
               PROVE  g[b] = Append(IF b = 0 THEN <<>> ELSE g[ParentIn[b]], b)
    OBVIOUS
  <2>1. CASE b = 0
    BY <1>0, <1>2, <2>1 DEF Solves
  <2>2. CASE b # 0
    <3>1. g[b] = F[b][g[below[b]]]
      BY <1>2, <2>2 DEF Solves
    <3>2. below[b] = ParentIn[b] /\ below[b] \in Known
      BY <1>0, <1>b, <2>2
    <3>3. g[below[b]] \in V
      BY <1>2, <3>2
    <3>4. QED
      BY <1>0, <2>2, <3>1, <3>2, <3>3
  <2>3. QED
    BY <2>1, <2>2
<1>4. g = [b \in Known |-> g[b]]
  OBVIOUS
<1>5. g = [b \in Known |-> Append(IF b = 0 THEN <<>> ELSE g[ParentIn[b]], b)]
  BY <1>3, <1>4, Zenon
<1>6. Trail = [b \in Known |-> Append(IF b = 0 THEN <<>> ELSE Trail[ParentIn[b]], b)]
  BY <1>5 DEF Trail
<1>7. \A b \in Known : Trail[b] = Append(IF b = 0 THEN <<>> ELSE Trail[ParentIn[b]], b)
  BY <1>6
<1>8. QED
  BY <1>7, KnownNumbered

\* A trail has the trail of each of its blocks.
LEMMA TrailFacts ==
  \A b \in Known :
    /\ Trail[b] \in Seq(Known) /\ Len(Trail[b]) \in Nat /\ Len(Trail[b]) >= 1
    /\ Trail[b][Len(Trail[b])] = b
    /\ \A i \in 1 .. Len(Trail[b]) :
         /\ Trail[b][i] \in Known /\ Len(Trail[Trail[b][i]]) = i
         /\ \A j \in 1 .. i : Trail[Trail[b][i]][j] = Trail[b][j]
         /\ i > 1 => ParentIn[Trail[b][i]] = Trail[b][i - 1]
<1> DEFINE Fine(b) ==
      /\ Trail[b] \in Seq(Known) /\ Len(Trail[b]) \in Nat /\ Len(Trail[b]) >= 1
      /\ Trail[b][Len(Trail[b])] = b
      /\ \A i \in 1 .. Len(Trail[b]) :
           /\ Trail[b][i] \in Known /\ Len(Trail[Trail[b][i]]) = i
           /\ \A j \in 1 .. i : Trail[Trail[b][i]][j] = Trail[b][j]
           /\ i > 1 => ParentIn[Trail[b][i]] = Trail[b][i - 1]
           S == {b \in Known : Fine(b)}
<1>1. 0 \in S
  <2>1. Trail[0] = <<0>> /\ 0 \in Known
    BY TrailStep, KnownNumbered
  <2>2. Trail[0] \in Seq(Known) /\ Len(Trail[0]) = 1 /\ Trail[0][1] = 0
    BY <2>1
  <2>3. \A i \in 1 .. Len(Trail[0]) : i = 1
    BY <2>2
  <2>4. \A i \in 1 .. Len(Trail[0]) :
          /\ Trail[0][i] \in Known /\ Len(Trail[Trail[0][i]]) = i
          /\ \A j \in 1 .. i : Trail[Trail[0][i]][j] = Trail[0][j]
          /\ i > 1 => ParentIn[Trail[0][i]] = Trail[0][i - 1]
    <3> SUFFICES ASSUME NEW i \in 1 .. Len(Trail[0])
                 PROVE  /\ Trail[0][i] \in Known /\ Len(Trail[Trail[0][i]]) = i
                        /\ \A j \in 1 .. i : Trail[Trail[0][i]][j] = Trail[0][j]
                        /\ i > 1 => ParentIn[Trail[0][i]] = Trail[0][i - 1]
      OBVIOUS
    <3>1. i = 1 /\ Trail[0][i] = 0
      BY <2>2, <2>3
    <3>2. Trail[Trail[0][i]] = Trail[0] /\ 0 \in Known
      BY <2>1, <3>1
    <3> HIDE DEF S
    <3>3. QED
      BY <2>2, <3>1, <3>2
  <2>5. QED
    BY <2>1, <2>2, <2>4
<1>2. ASSUME NEW b \in DOMAIN ParentIn, ParentIn[b] \in S PROVE b \in S
  <2> DEFINE p == ParentIn[b]
             t == Trail[p]
             u == Trail[b]
             n == Len(t)
  <2>1. u = Append(t, b) /\ p \in Known /\ b \in Known /\ Fine(p)
    BY <1>2, TrailStep, KnownNumbered
  <2>2. /\ u \in Seq(Known) /\ Len(u) = n + 1 /\ u[n + 1] = b
        /\ \A i \in 1 .. n : u[i] = t[i]
    BY <2>1, AppendProperties
  <2>3. /\ n \in Nat /\ n >= 1 /\ t[n] = p
        /\ \A i \in 1 .. n :
             /\ t[i] \in Known /\ Len(Trail[t[i]]) = i
             /\ \A j \in 1 .. i : Trail[t[i]][j] = t[j]
             /\ i > 1 => ParentIn[t[i]] = t[i - 1]
    BY <2>1
  <2> HIDE DEF n, t, u, Fine
  <2>4. ASSUME NEW i \in 1 .. n + 1
        PROVE  /\ u[i] \in Known /\ Len(Trail[u[i]]) = i
               /\ \A j \in 1 .. i : Trail[u[i]][j] = u[j]
               /\ i > 1 => ParentIn[u[i]] = u[i - 1]
    <3>1. CASE i = n + 1
      <4>1. u[i] = b /\ Trail[u[i]] = u /\ u[i - 1] = p /\ ParentIn[b] = p
        BY <2>2, <2>3, <3>1 DEF u
      <4>2. QED
        BY <2>1, <2>2, <3>1, <4>1
    <3>2. CASE i \in 1 .. n
      <4>1. u[i] = t[i] /\ \A j \in 1 .. i : u[j] = t[j]
        BY <2>2, <2>3, <3>2
      <4>2. i > 1 => u[i - 1] = t[i - 1]
        BY <2>2, <2>3, <3>2
      <4>3. QED
        BY <2>3, <3>2, <4>1, <4>2
    <3>3. QED
      BY <2>3, <3>1, <3>2
  <2>5. Fine(b)
    BY <2>2, <2>3, <2>4 DEF Fine, u
  <2>6. QED
    BY <2>1, <2>5
<1> HIDE DEF S
<1>3. Known \subseteq S
  BY <1>1, <1>2, KnownInduction
<1>4. \A b \in Known : Fine(b)
  BY <1>3 DEF S
<1>5. QED
  BY <1>4

\* Who is below whom, by positions.
LEMMA UnderFacts ==
  /\ \A a, b \in Known :
       Under(a, b) <=> Len(Trail[a]) <= Len(Trail[b]) /\ Trail[b][Len(Trail[a])] = a
  /\ \A b \in Known : Under(b, b) /\ Level(b) = Len(Trail[b]) - 1
  /\ \A a, b, c \in Known : Under(a, b) /\ Under(b, c) => Under(a, c)
  /\ \A b \in Known : \A i \in 1 .. Len(Trail[b]) : Under(Trail[b][i], b)
  /\ \A b \in Known : \A a : Under(a, b) => a \in Known
  /\ \A b \in Known : Range(Trail[b]) = {Trail[b][i] : i \in 1 .. Len(Trail[b])}
<1>1. \A b \in Known : Range(Trail[b]) = {Trail[b][i] : i \in 1 .. Len(Trail[b])}
  BY TrailFacts, RangeEquality
<1>2. ASSUME NEW a \in Known, NEW b \in Known
      PROVE  Under(a, b) <=> Len(Trail[a]) <= Len(Trail[b]) /\ Trail[b][Len(Trail[a])] = a
  <2>1. Len(Trail[a]) \in Nat /\ Len(Trail[a]) >= 1 /\ Len(Trail[b]) \in Nat
    BY TrailFacts
  <2>2. ASSUME Under(a, b)
        PROVE  Len(Trail[a]) <= Len(Trail[b]) /\ Trail[b][Len(Trail[a])] = a
    <3>1. PICK i \in 1 .. Len(Trail[b]) : a = Trail[b][i]
      BY <1>1, <2>2 DEF Under
    <3>2. Len(Trail[a]) = i
      BY <3>1, TrailFacts
    <3>3. QED
      BY <2>1, <3>1, <3>2
  <2>3. ASSUME Len(Trail[a]) <= Len(Trail[b]), Trail[b][Len(Trail[a])] = a
        PROVE  Under(a, b)
    <3>1. Len(Trail[a]) \in 1 .. Len(Trail[b])
      BY <2>1, <2>3
    <3>2. a \in Range(Trail[b])
      BY <1>1, <2>3, <3>1
    <3>3. QED
      BY <3>2 DEF Under
  <2>4. QED
    BY <2>2, <2>3
<1>3. ASSUME NEW b \in Known PROVE Under(b, b) /\ Level(b) = Len(Trail[b]) - 1
  BY <1>2, TrailFacts DEF Level
<1>4. ASSUME NEW b \in Known, NEW i \in 1 .. Len(Trail[b]) PROVE Under(Trail[b][i], b)
  BY <1>1 DEF Under
<1>5. ASSUME NEW b \in Known, NEW a, Under(a, b) PROVE a \in Known
  <2>1. PICK i \in 1 .. Len(Trail[b]) : a = Trail[b][i]
    BY <1>1, <1>5 DEF Under
  <2>2. QED
    BY <2>1, TrailFacts
<1>6. ASSUME NEW a \in Known, NEW b \in Known, NEW c \in Known, Under(a, b), Under(b, c)
      PROVE  Under(a, c)
  <2> DEFINE i == Len(Trail[a])
             j == Len(Trail[b])
  <2>1. /\ i <= j /\ Trail[b][i] = a
        /\ j <= Len(Trail[c]) /\ Trail[c][j] = b
    BY <1>2, <1>6
  <2>2. i \in Nat /\ i >= 1 /\ j \in Nat /\ Len(Trail[c]) \in Nat
    BY TrailFacts
  <2>3. Trail[Trail[c][j]][i] = Trail[c][i]
    BY <2>1, <2>2, TrailFacts
  <2>4. QED
    BY <1>2, <2>1, <2>2, <2>3
<1>7. QED
  BY <1>1, <1>2, <1>3, <1>4, <1>5, <1>6

\* Two blocks above f have the same blocks up to some position above f, and none of the
\* blocks after it are below the other one.
ForkAt(p, b, c, f) ==
  /\ p \in Len(Trail[f]) .. Len(Trail[b]) /\ p <= Len(Trail[c])
  /\ \A i \in 1 .. p : Trail[b][i] = Trail[c][i]
  /\ p = Len(Trail[b]) \/ p = Len(Trail[c]) \/ Trail[b][p + 1] # Trail[c][p + 1]
  /\ \A i \in p + 1 .. Len(Trail[b]) : ~Under(Trail[b][i], c)
  /\ p = Len(Trail[c]) => Under(c, b)

LEMMA ForkFacts ==
  ASSUME NEW b \in Known, NEW c \in Known, NEW f \in Known, Under(f, b), Under(f, c)
  PROVE  \E p \in Nat : ForkAt(p, b, c, f)
<1> DEFINE hb == Len(Trail[b])
           hc == Len(Trail[c])
           h == Len(Trail[f])
           A == {i \in 1 .. hb : i <= hc /\ Trail[b][i] = Trail[c][i]}
<1>1. /\ hb \in Nat /\ hb >= 1 /\ hc \in Nat /\ hc >= 1 /\ h \in Nat /\ h >= 1
      /\ Trail[b] \in Seq(Known) /\ Trail[c] \in Seq(Known)
  BY TrailFacts
<1>2. h <= hb /\ h <= hc /\ Trail[b][h] = f /\ Trail[c][h] = f
  BY UnderFacts
<1>3. h \in A
  BY <1>1, <1>2
<1>4. IsFiniteSet(A) /\ A \subseteq Int
  <2>0. A \subseteq 1 .. hb
    OBVIOUS
  <2> HIDE DEF A, hb
  <2>1. IsFiniteSet(1 .. hb) /\ 1 .. hb \subseteq Int
    BY <1>1, FS_Interval
  <2>2. QED
    BY <2>0, <2>1, FS_Subset
<1> DEFINE p == Max(A)
<1>5. p \in A /\ \A i \in A : i <= p
  BY <1>3, <1>4, MaxIsHighest
<1> HIDE DEF p
<1>6. p \in 1 .. hb /\ p <= hc /\ Trail[b][p] = Trail[c][p] /\ p >= h
  BY <1>1, <1>3, <1>5
<1>7. ASSUME NEW i \in 1 .. p PROVE Trail[b][i] = Trail[c][i]
  <2>1. /\ Trail[Trail[b][p]][i] = Trail[b][i]
        /\ Trail[Trail[c][p]][i] = Trail[c][i]
    BY <1>1, <1>6, TrailFacts
  <2>2. QED
    BY <1>6, <2>1
<1>8. ASSUME NEW i \in p + 1 .. hb PROVE ~Under(Trail[b][i], c)
  <2> SUFFICES ASSUME Under(Trail[b][i], c) PROVE FALSE
    OBVIOUS
  <2>1. i \in 1 .. hb /\ Trail[b][i] \in Known /\ Len(Trail[Trail[b][i]]) = i
    BY <1>1, <1>6, TrailFacts
  <2>2. i <= hc /\ Trail[c][i] = Trail[b][i]
    BY <2>1, UnderFacts
  <2>3. i \in A
    BY <2>1, <2>2
  <2>4. QED
    BY <1>1, <1>5, <1>6, <2>3
<1>9. p = hb \/ p = hc \/ Trail[b][p + 1] # Trail[c][p + 1]
  <2> SUFFICES ASSUME p # hb, p # hc, Trail[b][p + 1] = Trail[c][p + 1] PROVE FALSE
    OBVIOUS
  <2>1. p + 1 \in A
    BY <1>1, <1>6
  <2>2. QED
    BY <1>5, <1>6, <2>1
<1>10. p = hc => Under(c, b)
  <2> SUFFICES ASSUME p = hc PROVE Under(c, b)
    OBVIOUS
  <2>1. Trail[b][hc] = c
    BY <1>6, TrailFacts
  <2>2. QED
    BY <1>1, <1>6, <2>1, UnderFacts
<1>11. p \in h .. hb
  BY <1>1, <1>6
<1>12. p \in Nat
  BY <1>6
<1>13. ForkAt(p, b, c, f)
  BY <1>6, <1>7, <1>8, <1>9, <1>10, <1>11 DEF ForkAt
<1>14. QED
  BY <1>12, <1>13

\* How long a common prefix is.
AgreeUpTo(p, q, k) ==
  /\ k <= Len(p) /\ k <= Len(q) /\ \A i \in 1 .. k : p[i] = q[i]
  /\ k = Len(p) \/ k = Len(q) \/ p[k + 1] # q[k + 1]

LEMMA CommonIs ==
  ASSUME NEW S, NEW p \in Seq(S), NEW q \in Seq(S), NEW k \in Nat, AgreeUpTo(p, q, k)
  PROVE  Common(p, q) = k
<1> DEFINE c == SubSeq(p, 1, k)
           L == LongestCommonPrefix({p, q})
           Longest(x) == \A y \in CommonPrefixes({p, q}) : Len(y) <= Len(x)
<1>1. Len(p) \in Nat /\ Len(q) \in Nat /\ DOMAIN p = 1 .. Len(p) /\ DOMAIN q = 1 .. Len(q)
  BY LenProperties
<1>2. \A l \in 0 .. Len(p) : /\ SubSeq(p, 1, l) \in Seq(S) /\ Len(SubSeq(p, 1, l)) = l
                             /\ \A i \in 1 .. l : SubSeq(p, 1, l)[i] = p[i]
  <2> SUFFICES ASSUME NEW l \in 0 .. Len(p)
               PROVE  /\ SubSeq(p, 1, l) \in Seq(S) /\ Len(SubSeq(p, 1, l)) = l
                      /\ \A i \in 1 .. l : SubSeq(p, 1, l)[i] = p[i]
    OBVIOUS
  <2>1. l \in Int /\ l <= Len(p) /\ l >= 0
    BY <1>1
  <2>2. QED
    BY <2>1, Piece
<1>3. \A l \in 0 .. Len(q) : /\ SubSeq(q, 1, l) \in Seq(S) /\ Len(SubSeq(q, 1, l)) = l
                             /\ \A i \in 1 .. l : SubSeq(q, 1, l)[i] = q[i]
  <2> SUFFICES ASSUME NEW l \in 0 .. Len(q)
               PROVE  /\ SubSeq(q, 1, l) \in Seq(S) /\ Len(SubSeq(q, 1, l)) = l
                      /\ \A i \in 1 .. l : SubSeq(q, 1, l)[i] = q[i]
    OBVIOUS
  <2>1. l \in Int /\ l <= Len(q) /\ l >= 0
    BY <1>1
  <2>2. QED
    BY <2>1, Piece
<1>4. c = SubSeq(q, 1, k) /\ Len(c) = k /\ c \in Seq(S)
  <2>0. k <= Len(p) /\ k <= Len(q) /\ \A i \in 1 .. k : p[i] = q[i]
    BY DEF AgreeUpTo
  <2>1. k \in 0 .. Len(p) /\ k \in 0 .. Len(q)
    BY <1>1, <2>0
  <2>2. c \in Seq(S) /\ SubSeq(q, 1, k) \in Seq(S) /\ Len(c) = k /\ Len(SubSeq(q, 1, k)) = k
    BY <1>2, <1>3, <2>1
  <2>3. \A i \in 1 .. k : c[i] = SubSeq(q, 1, k)[i]
    BY <1>2, <1>3, <2>0, <2>1
  <2> HIDE DEF c
  <2>4. c = SubSeq(q, 1, k)
    BY <2>2, <2>3, SeqEqual
  <2>5. QED
    BY <2>2, <2>4
<1>5. SubSeq(c, 1, k) = c
  BY <1>4, SubSeqFull
<1>6. c \in CommonPrefixes({p, q})
  <2>0. k <= Len(p) /\ k <= Len(q)
    BY DEF AgreeUpTo
  <2>1. c \in Prefixes(p)
    BY <1>1, <2>0 DEF Prefixes
  <2>2. IsPrefix(c, p) /\ IsPrefix(c, q)
    BY <1>4, <1>5, <2>0 DEF IsPrefix
  <2> HIDE DEF c
  <2>3. QED
    BY <2>1, <2>2 DEF CommonPrefixes
<1>7. ASSUME NEW x \in CommonPrefixes({p, q}) PROVE Len(x) \in Nat /\ Len(x) <= k
  <2>1. x \in Prefixes(p) \cup Prefixes(q) /\ IsPrefix(x, p) /\ IsPrefix(x, q)
    BY DEF CommonPrefixes
  <2> DEFINE n == Len(x)
  <2>2. n \in Nat
    BY <1>2, <1>3, <2>1 DEF Prefixes
  <2>3. n <= Len(p) /\ n <= Len(q) /\ SubSeq(p, 1, n) = SubSeq(q, 1, n)
    BY <2>1 DEF IsPrefix
  <2> HIDE DEF n
  <2>4. \A i \in 1 .. n : p[i] = q[i]
    <3>1. n \in 0 .. Len(p) /\ n \in 0 .. Len(q)
      BY <1>1, <2>2, <2>3
    <3>2. QED
      BY <1>2, <1>3, <2>3, <3>1
  <2>5. n <= k
    <3> SUFFICES ASSUME n > k PROVE FALSE
      BY <2>2
    <3> HIDE DEF c, L, Longest
    <3>0. n <= Len(p) /\ n <= Len(q) /\ Len(p) \in Nat /\ Len(q) \in Nat
      BY <1>1, <2>3
    <3>1. k + 1 \in 1 .. n /\ k # Len(p) /\ k # Len(q)
      BY <2>2, <3>0
    <3>2. k = Len(p) \/ k = Len(q) \/ p[k + 1] # q[k + 1]
      BY DEF AgreeUpTo
    <3>3. QED
      BY <2>4, <3>1, <3>2
  <2>6. QED
    BY <2>2, <2>5 DEF n
<1> HIDE DEF c
<1>8. Longest(c)
  BY <1>4, <1>7
<1>9. L \in CommonPrefixes({p, q}) /\ Longest(L)
  <2> HIDE DEF Longest
  <2>1. L = CHOOSE x \in CommonPrefixes({p, q}) : Longest(x)
    BY DEF LongestCommonPrefix, Longest
  <2> HIDE DEF L
  <2>2. QED
    BY <1>6, <1>8, <2>1
<1> HIDE DEF L
<1>10. Len(L) <= k /\ k <= Len(L) /\ Len(L) \in Nat
  BY <1>4, <1>6, <1>7, <1>9
<1>11. Common(p, q) = Len(L)
  BY DEF Common, L
<1>12. QED
  BY <1>10, <1>11

\* What goes on, and what stays behind.
LEMMA ReadyFacts ==
  ASSUME NEW q \in Seq(Item)
  PROVE  \E r \in 0 .. Len(q) :
           /\ Ready(q) \in Seq(Item) /\ Len(Ready(q)) = r
           /\ \A i \in 1 .. r : Ready(q)[i] = q[i] /\ q[i].answer # "waits"
           /\ Behind(q) \in Seq(Item) /\ Len(Behind(q)) = Len(q) - r
           /\ \A i \in 1 .. Len(q) - r : Behind(q)[i] = q[r + i]
           /\ Behind(q) # <<>> => Behind(q)[1].answer = "waits"
           /\ q # <<>> /\ q[1].answer = "waits" => r = 0
<1> DEFINE W == Waiting(q)
           n == Len(q)
           first == CHOOSE i \in W : \A j \in W : i <= j
           r == IF W = {} THEN n ELSE first - 1
<1>1. n \in Nat /\ DOMAIN q = 1 .. n /\ \A i \in 1 .. n : q[i] \in Item
  BY LenProperties
<1>2. W \subseteq 1 .. n /\ \A i \in 1 .. n : i \in W <=> q[i].answer = "waits"
  BY <1>1 DEF Waiting
<1> HIDE DEF W, n
<1>3. W # {} => first \in W /\ \A j \in W : first <= j
  <2> SUFFICES ASSUME NEW a \in W PROVE first \in W /\ \A j \in W : first <= j
    OBVIOUS
  <2> DEFINE N == {k \in Nat : \A j \in W : j <= k => \E i \in W : \A l \in W : i <= l}
  <2>1. 0 \in N
    BY <1>1, <1>2
  <2>2. ASSUME NEW k \in Nat, k \in N PROVE k + 1 \in N
    <3> SUFFICES ASSUME NEW j \in W, j <= k + 1 PROVE \E i \in W : \A l \in W : i <= l
      OBVIOUS
    <3>1. CASE \E i \in W : i <= k
      BY <2>2, <3>1
    <3>2. CASE ~\E i \in W : i <= k
      <4>1. \A l \in W : j <= l
        BY <1>1, <1>2, <3>2
      <4>2. QED
        BY <4>1
    <3>3. QED
      BY <3>1, <3>2
  <2> HIDE DEF N
  <2>3. a \in N /\ a <= a
    <3>1. Nat \subseteq N /\ a \in Nat
      BY <1>1, <1>2, <2>1, <2>2, InductionOverNat
    <3>2. QED
      BY <3>1
  <2>4. \E i \in W : \A l \in W : i <= l
    BY <2>3 DEF N
  <2>5. QED
    BY <2>4
<1> HIDE DEF first
<1>4. /\ r \in 0 .. n
      /\ \A i \in 1 .. r : q[i].answer # "waits"
      /\ r < n => q[r + 1].answer = "waits"
      /\ n > 0 /\ q[1].answer = "waits" => r = 0
  <2>1. CASE W = {}
    BY <1>1, <1>2, <2>1
  <2>2. CASE W # {}
    <3>1. r = first - 1 /\ first \in 1 .. n /\ q[first].answer = "waits"
      BY <1>2, <1>3, <2>2
    <3>2. \A i \in 1 .. n : q[i].answer = "waits" => first <= i
      BY <1>2, <1>3, <2>2
    <3>3. QED
      BY <1>1, <3>1, <3>2
  <2>3. QED
    BY <2>1, <2>2
<1>5. Ready(q) = SubSeq(q, 1, r)
  <2>1. CASE W = {}
    <3>1. Ready(q) = q /\ r = n
      BY <2>1 DEF Ready, W
    <3>2. QED
      BY <3>1, SubSeqFull DEF n
  <2>2. CASE W # {}
    <3>1. Ready(q) = SubSeq(q, 1, first - 1)
      BY <2>2 DEF Ready, W, first
    <3>2. QED
      BY <2>2, <3>1
  <2>3. QED
    BY <2>1, <2>2
<1> HIDE DEF r
<1>6. /\ Ready(q) \in Seq(Item) /\ Len(Ready(q)) = r
      /\ \A i \in 1 .. r : Ready(q)[i] = q[i]
  <2>1. r \in Int /\ r <= Len(q) /\ r >= 0
    BY <1>1, <1>4 DEF n
  <2>2. QED
    BY <1>5, <2>1, Piece
<1>7. /\ Behind(q) \in Seq(Item) /\ Len(Behind(q)) = n - r
      /\ \A i \in 1 .. n - r : Behind(q)[i] = q[r + i]
      /\ n - r = 0 => Behind(q) = <<>>
  <2>1. Behind(q) = SubSeq(q, r + 1, n) /\ n = Len(q) /\ r \in Nat /\ n \in Nat /\ r <= n
    BY <1>1, <1>4, <1>6 DEF Behind, n
  <2>2. QED
    BY <2>1, Piece
<1>8. q # <<>> => n > 0
  BY <1>1, EmptySeq DEF n
<1>9. Behind(q) # <<>> => Behind(q)[1].answer = "waits"
  <2> SUFFICES ASSUME Behind(q) # <<>> PROVE Behind(q)[1].answer = "waits"
    OBVIOUS
  <2>1. r < n /\ 1 \in 1 .. n - r
    BY <1>1, <1>4, <1>7
  <2>2. Behind(q)[1] = q[r + 1]
    BY <1>7, <2>1
  <2>3. QED
    BY <1>4, <2>1, <2>2
<1>10. q # <<>> /\ q[1].answer = "waits" => r = 0
  BY <1>4, <1>8
<1>11. QED
  BY <1>4, <1>6, <1>7, <1>9, <1>10 DEF n

\* What is reported is of the stream.
LEMMA DeliverTyped ==
  ASSUME NEW s \in StreamSet, NEW x \in Item, NEW f \in Known
  PROVE  Deliver(s, x, f) \in StreamSet /\ Deliver(s, x, f).inners = s.inners
<1> DEFINE b == x.block
           new == [s EXCEPT !.pending = @ \ {b}, !.view = Append(@, b)]
           above == [new EXCEPT !.emitted = Append(@, b)]
           done == [new EXCEPT !.settled = @ \cup {b}]
<1>1. b \in Known
  BY DEF Item
<1> HIDE DEF b
<1>2. s.view \in Seq(Known) /\ s.emitted \in Seq(Known)
  BY DEF StreamSet
<1>3. Append(s.view, b) \in Seq(Known) /\ Append(s.emitted, b) \in Seq(Known)
  BY <1>1, <1>2, AppendProperties
<1>4. new \in StreamSet /\ new.inners = s.inners /\ new.emitted = s.emitted
  BY <1>1, <1>3 DEF StreamSet
<1> HIDE DEF new
<1>6. above \in StreamSet /\ above.inners = s.inners
  BY <1>1, <1>3, <1>4 DEF StreamSet
<1>7. done \in StreamSet /\ done.inners = s.inners
  BY <1>1, <1>3, <1>4 DEF StreamSet
<1> HIDE DEF above, done
<1>8. Deliver(s, x, f) \in {s, above, done}
  BY DEF Deliver, above, done, new, b
<1>9. QED
  BY <1>6, <1>7, <1>8

\* The first one in the queue goes on.
LEMMA DeliverShows ==
  ASSUME NEW s \in StreamSet, NEW q \in Seq(Item), NEW a \in 1 .. Len(q),
         NEW b \in Known, NEW f \in Known, NEW n, NEW m,
         Has(s, b, f, n, m), OnTheirWay(q, a, s.pending, b, m)
  PROVE  \E k \in m .. Len(Trail[b]) :
           /\ Has(Deliver(s, q[a], f), b, f, n, k)
           /\ OnTheirWay(q, a + 1, Deliver(s, q[a], f).pending, b, k)
<1> DEFINE t == Trail[b]
           h == Len(Trail[f])
           x == q[a]
           e == Deliver(s, x, f)
<1>1. /\ t \in Seq(Known) /\ Len(t) \in Nat /\ h \in Nat /\ h >= 1
      /\ \A i \in 1 .. Len(t) : t[i] \in Known /\ Level(t[i]) = i - 1
      /\ Level(f) = h - 1
  BY TrailFacts, UnderFacts DEF Level
<1>2. /\ Len(q) \in Nat /\ x \in Item
      /\ \A i \in 1 .. Len(q) : q[i] \in Item
  BY ElementOfSeq, LenProperties
<1>3. /\ n \in 1 .. h /\ m \in n - 1 .. Len(t)
      /\ s.view = SubSeq(t, n, m) /\ s.emitted = SubSeq(t, h + 1, m)
      /\ s.settled = {t[i] : i \in {j \in n .. m : j <= h}}
  BY DEF Has
<1>4. /\ \A i \in a .. Len(q) : q[i].answer # "cut" =>
           q[i].block \in s.pending /\ \E k \in m + 1 .. Len(t) : q[i].block = t[k]
      /\ \A k \in m + 1 .. Len(t) :
           \E i \in a .. Len(q) : q[i].answer # "cut" /\ q[i].block = t[k]
      /\ \A i, j \in a .. Len(q) :
           i < j /\ q[i].answer # "cut" /\ q[j].answer # "cut" =>
             Level(q[i].block) < Level(q[j].block)
  BY DEF OnTheirWay
<1> HIDE DEF t, h
<1>5. CASE x.answer = "cut"
  <2>1. e = s
    BY <1>5 DEF Deliver
  <2>2. /\ \A i \in a + 1 .. Len(q) : i \in a .. Len(q)
        /\ \A i \in a .. Len(q) : q[i].answer # "cut" => i \in a + 1 .. Len(q)
    BY <1>2, <1>5
  <2>3. OnTheirWay(q, a + 1, s.pending, b, m)
    <3> HIDE DEF x, e
    <3>1. /\ \A i \in a + 1 .. Len(q) : q[i].answer # "cut" =>
               q[i].block \in s.pending /\ \E k \in m + 1 .. Len(t) : q[i].block = t[k]
          /\ \A k \in m + 1 .. Len(t) :
               \E i \in a + 1 .. Len(q) : q[i].answer # "cut" /\ q[i].block = t[k]
          /\ \A i, j \in a + 1 .. Len(q) :
               i < j /\ q[i].answer # "cut" /\ q[j].answer # "cut" =>
                 Level(q[i].block) < Level(q[j].block)
      BY <1>4, <2>2
    <3>2. QED
      BY <3>1 DEF OnTheirWay, t
  <2>4. m \in m .. Len(t)
    BY <1>1, <1>3
  <2>5. QED
    BY <2>1, <2>3, <2>4 DEF t
<1>6. CASE x.answer # "cut"
  <2>1. a \in a .. Len(q) /\ x.block \in s.pending /\ \E k \in m + 1 .. Len(t) : x.block = t[k]
    BY <1>2, <1>4, <1>6
  <2>2. PICK k \in m + 1 .. Len(t) : x.block = t[k]
    BY <2>1
  <2>3. k = m + 1 /\ m + 1 \in 1 .. Len(t)
    <3>1. m + 1 \in m + 1 .. Len(t) /\ m + 1 \in 1 .. Len(t) /\ k \in 1 .. Len(t)
      BY <1>1, <1>3, <2>2
    <3>2. PICK i \in a .. Len(q) : q[i].answer # "cut" /\ q[i].block = t[m + 1]
      BY <1>4, <3>1
    <3>3. CASE i = a
      <4>1. Level(t[k]) = Level(t[m + 1])
        BY <2>2, <3>2, <3>3
      <4>2. QED
        BY <1>1, <3>1, <4>1
    <3>4. CASE i # a
      <4>1. a < i
        BY <1>2, <3>4
      <4>2. Level(t[k]) < Level(t[m + 1])
        BY <1>4, <1>6, <2>1, <2>2, <3>2, <4>1
      <4>3. k - 1 < m
        BY <1>1, <3>1, <4>2
      <4>4. QED
        BY <1>1, <1>3, <2>2, <4>3
    <3>5. QED
      BY <3>3, <3>4
  <2> DEFINE c == t[m + 1]
  <2>4. /\ x.block = c /\ c \in Known /\ Level(c) = m /\ c \in s.pending
        /\ m \in Nat /\ n \in Nat /\ n >= 1 /\ n <= m + 1
    BY <1>1, <1>3, <2>1, <2>2, <2>3
  <2>0. t \in Seq(Known) /\ m + 1 <= Len(t) /\ h \in Nat /\ h >= 1
    BY <1>1, <2>3
  <2>5. SubSeq(t, n, m + 1) = Append(SubSeq(t, n, m), c)
    BY <2>0, <2>4, PieceAppend
  <2>6. /\ e.inners = s.inners /\ e.pending = s.pending \ {c} /\ e.view = Append(s.view, c)
        /\ e.emitted = IF h <= m THEN Append(s.emitted, c) ELSE s.emitted
        /\ e.settled = IF h <= m THEN s.settled ELSE s.settled \cup {c}
    <3>1. Level(f) < Level(c) <=> h <= m
      BY <1>1, <2>4
    <3> HIDE DEF c
    <3>2. QED
      BY <1>6, <2>4, <3>1 DEF Deliver, StreamSet
  <2>7. e.emitted = SubSeq(t, h + 1, m + 1)
    <3>1. CASE h <= m
      <4>1. SubSeq(t, h + 1, m + 1) = Append(SubSeq(t, h + 1, m), c)
        <5>1. h + 1 \in Nat /\ h + 1 >= 1 /\ h + 1 <= m + 1
          BY <2>0, <2>4, <3>1
        <5>2. QED
          BY <2>0, <2>4, <5>1, PieceAppend
      <4>2. QED
        BY <1>3, <2>6, <3>1, <4>1
    <3>2. CASE ~(h <= m)
      <4>0. h + 1 \in Int /\ m \in Int /\ m + 1 \in Int /\ m < h + 1 /\ m + 1 < h + 1
        BY <2>0, <2>4, <3>2
      <4>1. SubSeq(t, h + 1, m + 1) = <<>> /\ SubSeq(t, h + 1, m) = <<>>
        BY <4>0, SubSeqEmpty
      <4>2. QED
        BY <1>3, <2>6, <3>2, <4>1
    <3>3. QED
      BY <3>1, <3>2
  <2>8. e.settled = {t[i] : i \in {j \in n .. m + 1 : j <= h}}
    <3>1. CASE h <= m
      <4>1. {j \in n .. m + 1 : j <= h} = {j \in n .. m : j <= h}
        BY <1>1, <2>4, <3>1
      <4>2. QED
        BY <1>3, <2>6, <3>1, <4>1
    <3>2. CASE ~(h <= m)
      <4>1. {j \in n .. m + 1 : j <= h} = {j \in n .. m : j <= h} \cup {m + 1}
        BY <1>1, <2>4, <3>2
      <4>2. {t[i] : i \in {j \in n .. m + 1 : j <= h}}
              = {t[i] : i \in {j \in n .. m : j <= h}} \cup {c}
        BY <4>1
      <4>3. QED
        BY <1>3, <2>6, <3>2, <4>2
    <3>3. QED
      BY <3>1, <3>2
  <2>9. Has(e, b, f, n, m + 1)
    <3>1. n \in 1 .. h /\ m + 1 \in n - 1 .. Len(t)
      BY <1>1, <1>3, <2>3, <2>4
    <3> HIDE DEF e
    <3>2. QED
      BY <1>3, <2>5, <2>6, <2>7, <2>8, <3>1 DEF Has, t, h
  <2>10. OnTheirWay(q, a + 1, e.pending, b, m + 1)
    <3>1. ASSUME NEW i \in a + 1 .. Len(q), q[i].answer # "cut"
          PROVE  q[i].block \in e.pending /\ \E l \in m + 2 .. Len(t) : q[i].block = t[l]
      <4>1. i \in a .. Len(q) /\ a < i
        BY <1>2
      <4>2. PICK l \in m + 1 .. Len(t) : q[i].block = t[l]
        BY <1>4, <3>1, <4>1
      <4>3. Level(c) < Level(t[l])
        BY <1>4, <1>6, <2>1, <2>4, <3>1, <4>1, <4>2
      <4>4. l \in m + 2 .. Len(t) /\ q[i].block # c
        BY <1>1, <2>4, <4>2, <4>3
      <4>5. QED
        BY <1>4, <2>6, <3>1, <4>1, <4>2, <4>4
    <3>2. ASSUME NEW l \in m + 2 .. Len(t)
          PROVE  \E i \in a + 1 .. Len(q) : q[i].answer # "cut" /\ q[i].block = t[l]
      <4>1. l \in m + 1 .. Len(t) /\ l \in 1 .. Len(t) /\ l # m + 1
        BY <1>1, <2>4
      <4>2. PICK i \in a .. Len(q) : q[i].answer # "cut" /\ q[i].block = t[l]
        BY <1>4, <4>1
      <4>3. i # a
        <5> SUFFICES ASSUME i = a PROVE FALSE
          OBVIOUS
        <5>1. Level(t[l]) = m
          BY <2>4, <4>2
        <5>2. QED
          BY <1>1, <2>4, <4>1, <5>1
      <4>4. QED
        BY <1>2, <4>2, <4>3
    <3>3. \A i, j \in a + 1 .. Len(q) :
            i < j /\ q[i].answer # "cut" /\ q[j].answer # "cut" =>
              Level(q[i].block) < Level(q[j].block)
      <4>1. \A i \in a + 1 .. Len(q) : i \in a .. Len(q)
        BY <1>2
      <4>2. QED
        BY <1>4, <4>1
    <3>4. m + 1 + 1 = m + 2
      BY <2>4
    <3> HIDE DEF e, c, x
    <3>5. QED
      BY <3>1, <3>2, <3>3, <3>4 DEF OnTheirWay, t
  <2>11. m + 1 \in m .. Len(t)
    BY <1>1, <2>3, <2>4
  <2>12. QED
    BY <2>9, <2>10, <2>11 DEF t
<1>7. QED
  BY <1>5, <1>6

\* The numbers up to i + 1 are those up to i and the highest one.
LEMMA UpToHighest ==
  ASSUME NEW n \in Nat
  PROVE  /\ \A d \in SUBSET (1 .. n) : d # {} => Max(d) \in d
         /\ \A i \in 0 .. n : 1 .. i \in SUBSET (1 .. n)
         /\ 1 .. 0 = {}
         /\ \A i \in 1 .. n : /\ 1 .. i # {} /\ Max(1 .. i) = i
                              /\ 1 .. i \ {i} = 1 .. i - 1
<1>1. IsFiniteSet(1 .. n) /\ 1 .. n \subseteq Int
  BY FS_Interval
<1>2. ASSUME NEW d \in SUBSET (1 .. n), d # {} PROVE Max(d) \in d /\ \A i \in d : i <= Max(d)
  <2>1. IsFiniteSet(d) /\ d \subseteq Int
    BY <1>1, FS_Subset
  <2>2. QED
    BY <1>2, <2>1, MaxIsHighest
<1>3. ASSUME NEW i \in 1 .. n
      PROVE  1 .. i # {} /\ Max(1 .. i) = i /\ 1 .. i \ {i} = 1 .. i - 1
  <2> DEFINE d == 1 .. i
  <2>1. d \in SUBSET (1 .. n) /\ i \in d /\ \A j \in d : j \in Int /\ j <= i
    OBVIOUS
  <2>2. d \ {i} = 1 .. i - 1
    OBVIOUS
  <2> HIDE DEF d
  <2>3. Max(d) \in d /\ i <= Max(d)
    BY <1>2, <2>1
  <2>4. Max(d) <= i /\ Max(d) \in Int /\ i \in Int
    BY <2>1, <2>3
  <2>5. Max(d) = i /\ d # {}
    BY <2>1, <2>3, <2>4
  <2>6. QED
    BY <2>2, <2>5 DEF d
<1>4. QED
  BY <1>2, <1>3

\* at[i] is the stream when i items of its queue went on.
FlushedBy(at, s, f) ==
  /\ at[0] = [s EXCEPT !.inners = Behind(@)]
  /\ \A i \in 0 .. Len(Ready(s.inners)) :
        at[i] \in StreamSet /\ at[i].inners = Behind(s.inners)
  /\ \A i \in 1 .. Len(Ready(s.inners)) :
        at[i] = Deliver(at[i - 1], Ready(s.inners)[i], f)
  /\ Flush(s, f) = at[Len(Ready(s.inners))]

\* How a queue goes on, one item after the other.
LEMMA FlushSteps ==
  ASSUME NEW s \in StreamSet, NEW f \in Known
  PROVE  \E at : FlushedBy(at, s, f)
<1> DEFINE r == Ready(s.inners)
           n == Len(r)
           V == StreamSet
           base == [s EXCEPT !.inners = Behind(@)]
           With(v, i) == Deliver(v, r[i], f)
           Is(g) == g = [d \in SUBSET (1 .. n) |->
                           IF d = {} THEN base ELSE With(g[d \ {Max(d)}], Max(d))]
           it == CHOOSE g : Is(g)
<1>1. s.inners \in Seq(Item) /\ r \in Seq(Item) /\ Behind(s.inners) \in Seq(Item)
  <2>1. s.inners \in Seq(Item)
    BY DEF StreamSet
  <2>2. QED
    BY <2>1, ReadyFacts
<1> HIDE DEF r
<1>2. n \in Nat /\ DOMAIN r = 1 .. n /\ \A i \in 1 .. n : r[i] \in Item
  BY <1>1, LenProperties
<1>3. base \in V /\ base.inners = Behind(s.inners)
  BY <1>1 DEF StreamSet
<1> HIDE DEF n, base
<1>0. IsFiniteSet(1 .. n) /\ 1 .. n \subseteq Int
  BY <1>2, FS_Interval
<1>4. \A i \in 1 .. n : \A v \in V : With(v, i) \in V /\ With(v, i).inners = v.inners
  BY <1>2, DeliverTyped
<1>5. \A d \in SUBSET (1 .. n) : d # {} => Max(d) \in 1 .. n
  BY <1>2, UpToHighest
<1>6. \E g : Is(g)
  <2> DEFINE G == [i \in 1 .. n |-> [v \in V |-> With(v, i)]]
  <2> HIDE DEF With, V
  <2>3. \A i \in 1 .. n : \A v \in V : G[i][v] = With(v, i)
    OBVIOUS
  <2> HIDE DEF G
  <2>4. \A i \in 1 .. n : \A v \in V : G[i][v] \in V
    BY <1>4, <2>3
  <2>5. Applicable(1 .. n, V, base, G)
    BY <1>0, <1>3, <2>4 DEF Applicable
  <2>6. PICK g \in [SUBSET (1 .. n) -> V] : FoldsUp(g, 1 .. n, base, G)
    BY <2>5, FoldExists
  <2>7. \A d \in SUBSET (1 .. n) :
           g[d] = IF d = {} THEN base ELSE With(g[d \ {Max(d)}], Max(d))
    <3> SUFFICES ASSUME NEW d \in SUBSET (1 .. n)
                 PROVE  g[d] = IF d = {} THEN base ELSE With(g[d \ {Max(d)}], Max(d))
      OBVIOUS
    <3>1. g[d] = IF d = {} THEN base ELSE G[Max(d)][g[d \ {Max(d)}]]
      BY <2>6 DEF FoldsUp
    <3>2. g[d \ {Max(d)}] \in V
      OBVIOUS
    <3>3. QED
      BY <1>5, <2>3, <3>1, <3>2
  <2>8. g = [d \in SUBSET (1 .. n) |-> g[d]]
    OBVIOUS
  <2>9. Is(g)
    BY <2>7, <2>8, Zenon
  <2>10. QED
    BY <2>9
<1>7. \A d \in SUBSET (1 .. n) :
         it[d] = IF d = {} THEN base ELSE With(it[d \ {Max(d)}], Max(d))
  <2>1. Is(it)
    BY <1>6
  <2> HIDE DEF it, With
  <2>2. QED
    BY <2>1
<1>8. Flush(s, f) = it[1 .. n]
  BY <1>2 DEF Flush, FoldLeft, MapThenFoldSet, r, base
<1> HIDE DEF it, With
<1> DEFINE at == [i \in 0 .. n |-> it[1 .. i]]
<1>9. at[0] = base
  <2>1. 1 .. 0 = {} /\ 1 .. 0 \in SUBSET (1 .. n) /\ 0 \in 0 .. n
    BY <1>2
  <2>2. it[1 .. 0] = base
    BY <1>7, <2>1
  <2>3. QED
    BY <2>1, <2>2
<1>10. \A i \in 1 .. n : at[i] = With(at[i - 1], i)
  <2> SUFFICES ASSUME NEW i \in 1 .. n PROVE at[i] = With(at[i - 1], i)
    OBVIOUS
  <2> DEFINE d == 1 .. i
  <2>0. d \in SUBSET (1 .. n) /\ d # {} /\ Max(d) = i
    BY <1>2, UpToHighest
  <2> HIDE DEF d
  <2>1. it[d] = With(it[d \ {i}], i)
    BY <1>7, <2>0
  <2>2. 1 .. i \ {i} = 1 .. i - 1 /\ i - 1 \in 0 .. n /\ i \in 0 .. n
    BY <1>2
  <2>3. QED
    BY <2>1, <2>2 DEF d
<1>11. at[n] = it[1 .. n]
  BY <1>2
<1> HIDE DEF at
<1> DEFINE Good(i) == at[i] \in V /\ at[i].inners = Behind(s.inners)
           N == {i \in Nat : i <= n => Good(i)}
<1>12. 0 \in N
  BY <1>3, <1>9
<1>13. ASSUME NEW i \in Nat, i \in N PROVE i + 1 \in N
  <2> SUFFICES ASSUME i + 1 <= n PROVE Good(i + 1)
    OBVIOUS
  <2>1. Good(i) /\ i + 1 \in 1 .. n /\ i + 1 - 1 = i
    BY <1>2, <1>13
  <2>2. at[i + 1] = With(at[i], i + 1)
    BY <1>10, <2>1
  <2>3. QED
    BY <1>4, <2>1, <2>2
<1> HIDE DEF N, Good
<1>14. \A i \in 0 .. n : Good(i)
  <2>1. Nat \subseteq N
    BY <1>12, <1>13, InductionOverNat
  <2>2. QED
    BY <1>2, <2>1 DEF N
<1>15. FlushedBy(at, s, f)
  BY <1>8, <1>9, <1>10, <1>11, <1>14 DEF Good, base, With, r, n, FlushedBy
<1>16. QED
  BY <1>15

LEMMA FlushTyped ==
  ASSUME NEW s \in StreamSet, NEW f \in Known
  PROVE  /\ Flush(s, f) \in StreamSet /\ Flush(s, f).inners = Behind(s.inners)
         /\ Flush(s, f).inners # <<>> => Flush(s, f).inners[1].answer = "waits"
<1>1. s.inners \in Seq(Item)
  BY DEF StreamSet
<1>2. Len(Ready(s.inners)) \in 0 .. Len(Ready(s.inners))
  <2>1. Len(Ready(s.inners)) \in Nat
    BY <1>1, ReadyFacts, LenProperties
  <2>2. QED
    BY <2>1
<1>3. Flush(s, f) \in StreamSet /\ Flush(s, f).inners = Behind(s.inners)
  <2>1. PICK at : FlushedBy(at, s, f)
    BY FlushSteps
  <2>2. QED
    BY <1>2, <2>1 DEF FlushedBy
<1>4. Behind(s.inners) # <<>> => Behind(s.inners)[1].answer = "waits"
  BY <1>1, ReadyFacts
<1>5. QED
  BY <1>3, <1>4

\* What is there goes on to the consumer, and the rest stays on its way.
LEMMA FlushShows ==
  ASSUME NEW s \in StreamSet, NEW b \in Known, NEW f \in Known, NEW n, NEW m,
         Shows(s, b, f, n, m)
  PROVE  \E k \in m .. Len(Trail[b]) : Shows(Flush(s, f), b, f, n, k)
<1> DEFINE q == s.inners
           t == Trail[b]
<1>1. q \in Seq(Item) /\ Len(q) \in Nat /\ Len(t) \in Nat
  BY TrailFacts, LenProperties DEF StreamSet
<1>2. PICK r \in 0 .. Len(q) :
         /\ Len(Ready(q)) = r
         /\ \A i \in 1 .. r : Ready(q)[i] = q[i]
         /\ Behind(q) \in Seq(Item) /\ Len(Behind(q)) = Len(q) - r
         /\ \A i \in 1 .. Len(q) - r : Behind(q)[i] = q[r + i]
  BY <1>1, ReadyFacts
<1>f. PICK at : FlushedBy(at, s, f)
  BY FlushSteps
<1>3. /\ at[0] = [s EXCEPT !.inners = Behind(@)]
      /\ \A i \in 0 .. r : at[i] \in StreamSet /\ at[i].inners = Behind(q)
      /\ \A i \in 1 .. r : at[i] = Deliver(at[i - 1], Ready(q)[i], f)
      /\ Flush(s, f) = at[r]
  <2>1. Len(Ready(q)) = r
    BY <1>2
  <2>2. QED
    BY <1>f, <2>1 DEF FlushedBy
<1>4. Has(s, b, f, n, m) /\ OnTheirWay(q, 1, s.pending, b, m)
  BY DEF Shows
<1>5. m \in Int
  BY <1>4, TrailFacts DEF Has
<1> HIDE DEF q, t
<1> DEFINE Good(i) == \E k \in m .. Len(t) :
                        /\ Has(at[i], b, f, n, k)
                        /\ OnTheirWay(q, i + 1, at[i].pending, b, k)
           N == {i \in Nat : i <= r => Good(i)}
<1>6. 0 \in N
  <2>1. /\ at[0].view = s.view /\ at[0].emitted = s.emitted /\ at[0].settled = s.settled
        /\ at[0].pending = s.pending
    BY <1>3 DEF StreamSet
  <2>2. Has(at[0], b, f, n, m) /\ m \in m .. Len(t)
    <3>1. m <= Len(t)
      BY <1>1, <1>4, TrailFacts DEF Has, t
    <3>2. QED
      BY <1>1, <1>4, <1>5, <2>1, <3>1 DEF Has
  <2>3. OnTheirWay(q, 0 + 1, at[0].pending, b, m)
    BY <1>4, <2>1
  <2>4. QED
    BY <2>2, <2>3
<1>7. ASSUME NEW i \in Nat, i \in N PROVE i + 1 \in N
  <2> SUFFICES ASSUME i + 1 <= r PROVE Good(i + 1)
    OBVIOUS
  <2>1. Good(i) /\ i + 1 \in 1 .. r /\ i \in 0 .. r /\ i + 1 - 1 = i /\ i + 1 \in 1 .. Len(q)
    BY <1>1, <1>7
  <2>2. PICK k \in m .. Len(t) :
          Has(at[i], b, f, n, k) /\ OnTheirWay(q, i + 1, at[i].pending, b, k)
    BY <2>1
  <2>3. at[i + 1] = Deliver(at[i], q[i + 1], f) /\ at[i] \in StreamSet
    BY <1>2, <1>3, <2>1
  <2>4. PICK l \in k .. Len(t) :
          /\ Has(Deliver(at[i], q[i + 1], f), b, f, n, l)
          /\ OnTheirWay(q, i + 1 + 1, Deliver(at[i], q[i + 1], f).pending, b, l)
    <3> HIDE DEF N, Good
    <3>1. \E l \in k .. Len(Trail[b]) :
          /\ Has(Deliver(at[i], q[i + 1], f), b, f, n, l)
          /\ OnTheirWay(q, i + 1 + 1, Deliver(at[i], q[i + 1], f).pending, b, l)
      BY <1>1, <2>1, <2>2, <2>3, DeliverShows
    <3>2. QED
      BY <3>1 DEF t
  <2>5. l \in m .. Len(t)
    BY <1>1, <1>5
  <2>6. QED
    BY <2>3, <2>4, <2>5
<1>8. Good(r)
  <2> HIDE DEF N, Good
  <2>1. Nat \subseteq N
    BY <1>6, <1>7, InductionOverNat
  <2>2. QED
    BY <1>1, <2>1 DEF N
<1>9. PICK k \in m .. Len(t) : Has(at[r], b, f, n, k) /\ OnTheirWay(q, r + 1, at[r].pending, b, k)
  BY <1>8
<1>10. OnTheirWay(Behind(q), 1, at[r].pending, b, k)
  <2> DEFINE w == Behind(q)
             p == at[r].pending
  <2>1. /\ \A i \in r + 1 .. Len(q) : q[i].answer # "cut" =>
              q[i].block \in p /\ \E l \in k + 1 .. Len(t) : q[i].block = t[l]
        /\ \A l \in k + 1 .. Len(t) :
              \E i \in r + 1 .. Len(q) : q[i].answer # "cut" /\ q[i].block = t[l]
        /\ \A i, j \in r + 1 .. Len(q) :
              i < j /\ q[i].answer # "cut" /\ q[j].answer # "cut" =>
                Level(q[i].block) < Level(q[j].block)
    BY <1>9 DEF OnTheirWay, t
  <2> HIDE DEF w, p, N, Good
  <2>2. \A i \in 1 .. Len(w) : r + i \in r + 1 .. Len(q) /\ w[i] = q[r + i]
    BY <1>1, <1>2 DEF w
  <2>3. \A i \in r + 1 .. Len(q) : i - r \in 1 .. Len(w) /\ w[i - r] = q[i]
    <3> SUFFICES ASSUME NEW i \in r + 1 .. Len(q) PROVE i - r \in 1 .. Len(w) /\ w[i - r] = q[i]
      OBVIOUS
    <3>1. i - r \in 1 .. Len(q) - r /\ r + (i - r) = i
      BY <1>1
    <3>2. QED
      BY <1>2, <3>1 DEF w
  <2>4. \A i \in 1 .. Len(w) : w[i].answer # "cut" =>
              w[i].block \in p /\ \E l \in k + 1 .. Len(t) : w[i].block = t[l]
    BY <2>1, <2>2
  <2>5. ASSUME NEW l \in k + 1 .. Len(t)
        PROVE  \E i \in 1 .. Len(w) : w[i].answer # "cut" /\ w[i].block = t[l]
    <3>1. PICK i \in r + 1 .. Len(q) : q[i].answer # "cut" /\ q[i].block = t[l]
      BY <2>1
    <3>2. i - r \in 1 .. Len(w) /\ w[i - r] = q[i]
      BY <2>3
    <3>3. QED
      BY <3>1, <3>2
  <2>6. ASSUME NEW i \in 1 .. Len(w), NEW j \in 1 .. Len(w), i < j,
               w[i].answer # "cut", w[j].answer # "cut"
        PROVE  Level(w[i].block) < Level(w[j].block)
    <3>1. r + i < r + j
      BY <1>1, <1>2, <2>6
    <3>2. r + i \in r + 1 .. Len(q) /\ w[i] = q[r + i]
      BY <2>2
    <3>3. r + j \in r + 1 .. Len(q) /\ w[j] = q[r + j]
      BY <2>2
    <3>4. Level(q[r + i].block) < Level(q[r + j].block)
      BY <2>1, <2>6, <3>1, <3>2, <3>3
    <3>5. QED
      BY <3>2, <3>3, <3>4
  <2>7. QED
    BY <2>4, <2>5, <2>6 DEF OnTheirWay, t, w, p
<1>11. Flush(s, f).inners = Behind(q) /\ Flush(s, f) = at[r]
  BY <1>1, <1>3
<1>12. QED
  BY <1>9, <1>10, <1>11 DEF Shows, t

LEMMA OfTwo ==
  ASSUME NEW a \in Int, NEW b \in Int
  PROVE  Min({a, b}) = (IF a <= b THEN a ELSE b) /\ Max({a, b}) = (IF a <= b THEN b ELSE a)
<1> DEFINE A == {a, b}
<1>1. \E x \in A : \A c \in A : x <= c
  OBVIOUS
<1>2. \E x \in A : \A c \in A : x >= c
  OBVIOUS
<1>3. Min(A) \in A /\ \A c \in A : Min(A) <= c
  BY <1>1 DEF Min
<1>4. Max(A) \in A /\ \A c \in A : Max(A) >= c
  BY <1>2 DEF Max
<1>5. QED
  BY <1>3, <1>4

\* Where slice cuts is in the sequence.
LEMMA SliceFacts ==
  ASSUME NEW s \in Seq(Known), NEW n \in Int
  PROVE  /\ SliceAt(s, n) \in 0 .. Len(s)
         /\ n >= 0 => SliceAt(s, n) = IF n <= Len(s) THEN n ELSE Len(s)
<1>1. Len(s) \in Nat /\ Len(s) + n \in Int
  BY LenProperties
<1>2. /\ Max({Len(s) + n, 0}) = IF Len(s) + n <= 0 THEN 0 ELSE Len(s) + n
      /\ Min({n, Len(s)}) = IF n <= Len(s) THEN n ELSE Len(s)
  <2>1. Max({Len(s) + n, 0}) = IF Len(s) + n <= 0 THEN 0 ELSE Len(s) + n
    <3> DEFINE a == Len(s) + n
    <3>1. a \in Int /\ 0 \in Int
      BY <1>1
    <3> HIDE DEF a
    <3>2. Max({a, 0}) = IF a <= 0 THEN 0 ELSE a
      BY <3>1, OfTwo
    <3>3. QED
      BY <3>2 DEF a
  <2>2. Len(s) \in Int
    BY <1>1
  <2>3. Min({n, Len(s)}) = IF n <= Len(s) THEN n ELSE Len(s)
    BY <2>2, OfTwo
  <2>4. QED
    BY <2>1, <2>3
<1>3. SliceAt(s, n) = IF n < 0 THEN Max({Len(s) + n, 0}) ELSE Min({n, Len(s)})
  BY DEF SliceAt
<1>4. QED
  BY <1>1, <1>2, <1>3

LEMMA SettleTyped ==
  ASSUME NEW s \in StreamSet, NEW f \in Known
  PROVE  Settle(s, f) \in StreamSet /\ Settle(s, f).inners = s.inners
<1> DEFINE n == SliceAt(s.emitted, Level(f) - Level(s.emitted[1]) + 1)
<1>1. s.emitted \in Seq(Known) /\ Len(s.emitted) \in Nat
  BY LenProperties DEF StreamSet
<1>2. CASE s.emitted = <<>>
  BY <1>2 DEF Settle
<1>3. CASE s.emitted # <<>>
  <2>1. s.emitted[1] \in Known
    BY <1>1, <1>3, EmptySeq, ElementOfSeq
  <2>2. Level(f) - Level(s.emitted[1]) + 1 \in Int
    BY <2>1, TrailFacts DEF Level
  <2>3. n \in 0 .. Len(s.emitted)
    BY <1>1, <2>2, SliceFacts
  <2>4. Settle(s, f) = [s EXCEPT !.settled = @ \cup Range(SubSeq(s.emitted, 1, n)),
                                 !.emitted = SubSeq(@, n + 1, Len(@))]
    BY <1>3 DEF Settle
  <2> HIDE DEF n
  <2>5. n \in Nat /\ n + 1 >= 1 /\ n <= Len(s.emitted) /\ Len(s.emitted) <= Len(s.emitted)
    BY <1>1, <2>3
  <2>6. SubSeq(s.emitted, 1, n) \in Seq(Known)
    BY <1>1, <2>5, Piece
  <2>7. SubSeq(s.emitted, n + 1, Len(s.emitted)) \in Seq(Known)
    BY <1>1, <2>5, Piece
  <2>8. Range(SubSeq(s.emitted, 1, n)) \subseteq Known
    <3> DEFINE p == SubSeq(s.emitted, 1, n)
    <3> HIDE DEF p
    <3>1. p \in Seq(Known)
      BY <2>6 DEF p
    <3>2. /\ Range(p) = {p[i] : i \in 1 .. Len(p)}
          /\ \A i \in 1 .. Len(p) : p[i] \in Known
      BY <3>1, RangeEquality, ElementOfSeq
    <3>3. QED
      BY <3>2 DEF p
  <2>9. QED
    BY <2>4, <2>7, <2>8 DEF StreamSet
<1>4. QED
  BY <1>2, <1>3

\* Another finalized block settles the emitted blocks up to it.
LEMMA SettleShows ==
  ASSUME NEW s \in StreamSet, NEW b \in Known, NEW f \in Known, NEW g \in Known, NEW n, NEW m,
         Under(f, g), Under(g, b), Shows(s, b, f, n, m)
  PROVE  Shows(Settle(s, g), b, g, n, m)
<1> DEFINE t == Trail[b]
           h == Len(Trail[f])
           i == Len(Trail[g])
           e == Settle(s, g)
<1>1. /\ t \in Seq(Known) /\ Len(t) \in Nat /\ h \in Nat /\ h >= 1 /\ i \in Nat
      /\ \A k \in 1 .. Len(t) : t[k] \in Known /\ Level(t[k]) = k - 1
      /\ Level(g) = i - 1
  BY TrailFacts, UnderFacts DEF Level
<1>2. h <= i /\ i <= Len(t)
  BY UnderFacts
<1>3. /\ n \in 1 .. h /\ m \in n - 1 .. Len(t)
      /\ s.view = SubSeq(t, n, m) /\ s.emitted = SubSeq(t, h + 1, m)
      /\ s.settled = {t[k] : k \in {j \in n .. m : j <= h}}
      /\ OnTheirWay(s.inners, 1, s.pending, b, m)
  BY DEF Shows, Has
<1> HIDE DEF t, h, i
<1>4. n \in Nat /\ m \in Int /\ m <= Len(t) /\ h + 1 \in Int /\ h + 1 >= 1 /\ n \in 1 .. i
  BY <1>1, <1>2, <1>3
<1>5. /\ s.emitted \in Seq(Known) /\ Len(s.emitted) = (IF h + 1 <= m THEN m - h ELSE 0)
      /\ \A k \in 1 .. m - h : s.emitted[k] = t[h + k]
  <2>1. /\ Len(s.emitted) = (IF h + 1 <= m THEN m - (h + 1) + 1 ELSE 0)
        /\ s.emitted \in Seq(Known)
        /\ \A k \in 1 .. m - (h + 1) + 1 : s.emitted[k] = t[h + 1 + k - 1]
    BY <1>1, <1>3, <1>4, Piece
  <2>2. m - (h + 1) + 1 = m - h /\ \A k \in 1 .. m - h : h + 1 + k - 1 = h + k
    BY <1>1, <1>4
  <2>3. QED
    BY <2>1, <2>2
<1>6. CASE m <= h
  <2>1. s.emitted = <<>>
    BY <1>1, <1>3, <1>4, <1>6, SubSeqEmpty
  <2>2. e = s
    BY <2>1 DEF Settle
  <2>3. SubSeq(t, i + 1, m) = <<>>
    BY <1>1, <1>2, <1>4, <1>6, SubSeqEmpty
  <2>4. {j \in n .. m : j <= h} = {j \in n .. m : j <= i}
    BY <1>1, <1>2, <1>4, <1>6
  <2> HIDE DEF e
  <2>5. Has(e, b, g, n, m)
    BY <1>3, <1>4, <2>1, <2>2, <2>3, <2>4 DEF Has, t, i
  <2>6. QED
    BY <1>3, <2>2, <2>5 DEF Shows, e
<1>7. CASE h < m
  <2> DEFINE c == IF i <= m THEN i ELSE m
             k == c - h
  <2>1. /\ Len(s.emitted) = m - h /\ s.emitted # <<>> /\ s.emitted[1] = t[h + 1]
        /\ h + 1 \in 1 .. Len(t)
    BY <1>1, <1>4, <1>5, <1>7, EmptySeq
  <2>2. Level(g) - Level(s.emitted[1]) + 1 = i - h
    BY <1>1, <2>1
  <2>3. SliceAt(s.emitted, i - h) = k
    <3>1. i - h \in Int /\ i - h >= 0
      BY <1>1, <1>2
    <3>2. SliceAt(s.emitted, i - h) = IF i - h <= m - h THEN i - h ELSE m - h
      BY <1>5, <2>1, <3>1, SliceFacts
    <3>3. QED
      BY <1>1, <1>4, <3>2
  <2>4. e = [s EXCEPT !.settled = @ \cup Range(SubSeq(s.emitted, 1, k)),
                      !.emitted = SubSeq(@, k + 1, Len(@))]
    BY <2>1, <2>2, <2>3 DEF Settle
  <2>5. /\ k \in Nat /\ k <= m - h /\ c \in Int /\ c <= m /\ h <= c /\ c <= i
        /\ k + 1 \in Int /\ k + 1 >= 1
    BY <1>1, <1>2, <1>4, <1>7
  <2> HIDE DEF c, k, e
  <2>6. /\ e.inners = s.inners /\ e.pending = s.pending /\ e.view = s.view
        /\ e.settled = s.settled \cup Range(SubSeq(s.emitted, 1, k))
        /\ e.emitted = SubSeq(s.emitted, k + 1, m - h)
    BY <2>1, <2>4 DEF StreamSet
  <2>7. e.emitted = SubSeq(t, i + 1, m)
    <3> DEFINE p == SubSeq(s.emitted, k + 1, m - h)
               q == SubSeq(t, i + 1, m)
    <3>1. CASE c = m
      <4>1. m - h < k + 1 /\ m < i + 1
        BY <1>1, <1>4, <2>5, <3>1 DEF k
      <4>2. p = <<>> /\ q = <<>>
        BY <1>1, <1>4, <2>5, <4>1, SubSeqEmpty
      <4>3. QED
        BY <2>6, <4>2
    <3>2. CASE c # m
      <4>1. c = i /\ i < m /\ k = i - h
        BY <1>1, <1>4, <2>5, <3>2 DEF c, k
      <4>0. m \in Int /\ h \in Int /\ i \in Int /\ i >= 1 /\ m <= Len(t)
        BY <1>1, <1>4
      <4>i. m - h \in Int /\ m - h <= m - h /\ i + 1 \in Int /\ i + 1 >= 1
        BY <4>0
      <4>2. m - h \in Int /\ m - h <= Len(s.emitted) /\ i + 1 \in Int /\ i + 1 >= 1
        BY <2>1, <4>i
      <4>t. t \in Seq(Known) /\ m \in Int /\ m <= Len(t) /\ i + 1 \in Int /\ i + 1 >= 1
        BY <1>1, <4>0, <4>i
      <4>3. /\ p \in Seq(Known) /\ Len(p) = (IF k + 1 <= m - h THEN m - h - (k + 1) + 1 ELSE 0)
            /\ \A l \in 1 .. m - h - (k + 1) + 1 : p[l] = s.emitted[k + 1 + l - 1]
        BY <1>5, <2>5, <4>2, Piece
      <4>4. /\ q \in Seq(Known) /\ Len(q) = (IF i + 1 <= m THEN m - (i + 1) + 1 ELSE 0)
            /\ \A l \in 1 .. m - (i + 1) + 1 : q[l] = t[i + 1 + l - 1]
        BY <4>t, Piece
      <4> HIDE DEF p, q
      <4>5. Len(p) = m - i /\ Len(q) = m - i
        BY <1>1, <1>4, <4>1, <4>3, <4>4
      <4>6. \A l \in 1 .. m - i : p[l] = t[i + l]
        <5> SUFFICES ASSUME NEW l \in 1 .. m - i PROVE p[l] = t[i + l]
          OBVIOUS
        <5>1. l \in 1 .. m - h - (k + 1) + 1 /\ k + 1 + l - 1 = k + l /\ k + l \in 1 .. m - h
          BY <1>1, <1>4, <2>5, <4>1
        <5>2. p[l] = s.emitted[k + l]
          BY <4>3, <5>1
        <5>3. h + (k + l) = i + l
          BY <1>1, <4>1
        <5>4. QED
          BY <1>5, <5>1, <5>2, <5>3
      <4>7. \A l \in 1 .. m - i : q[l] = t[i + l]
        <5> SUFFICES ASSUME NEW l \in 1 .. m - i PROVE q[l] = t[i + l]
          OBVIOUS
        <5>1. l \in 1 .. m - (i + 1) + 1 /\ i + 1 + l - 1 = i + l
          BY <1>1, <1>4
        <5>2. QED
          BY <4>4, <5>1
      <4>8. p = q
        BY <4>3, <4>4, <4>5, <4>6, <4>7, SeqEqual
      <4>9. QED
        BY <2>6, <4>8 DEF p, q
    <3>3. QED
      BY <3>1, <3>2
  <2>8. Range(SubSeq(s.emitted, 1, k)) = {t[j] : j \in h + 1 .. c}
    <3> DEFINE p == SubSeq(s.emitted, 1, k)
    <3>1. /\ p \in Seq(Known) /\ Len(p) = (IF 1 <= k THEN k - 1 + 1 ELSE 0)
          /\ \A l \in 1 .. k - 1 + 1 : p[l] = s.emitted[1 + l - 1]
      BY <1>5, <2>1, <2>5, Piece
    <3> HIDE DEF p
    <3>2. Len(p) = k
      BY <2>5, <3>1
    <3>3. \A l \in 1 .. k : p[l] = t[h + l]
      <4> SUFFICES ASSUME NEW l \in 1 .. k PROVE p[l] = t[h + l]
        OBVIOUS
      <4>1. l \in 1 .. k - 1 + 1 /\ 1 + l - 1 = l /\ l \in 1 .. m - h
        BY <1>1, <1>4, <2>5
      <4>2. QED
        BY <1>5, <3>1, <4>1
    <3>4. Range(p) = {p[l] : l \in 1 .. k}
      BY <3>1, <3>2, RangeEquality
    <3>5. \A l \in 1 .. k : h + l \in h + 1 .. c
      BY <1>1, <2>5 DEF k
    <3>6. \A j \in h + 1 .. c : j - h \in 1 .. k /\ h + (j - h) = j
      BY <1>1, <2>5 DEF k
    <3>7. ASSUME NEW x \in Range(p) PROVE x \in {t[j] : j \in h + 1 .. c}
      <4>1. PICK l \in 1 .. k : x = p[l]
        BY <3>4
      <4>2. QED
        BY <3>3, <3>5, <4>1
    <3>8. ASSUME NEW j \in h + 1 .. c PROVE t[j] \in Range(p)
      <4>1. p[j - h] = t[j] /\ j - h \in 1 .. k
        BY <3>3, <3>6
      <4>2. QED
        BY <3>4, <4>1
    <3>9. Range(p) = {t[j] : j \in h + 1 .. c}
      BY <3>7, <3>8
    <3>10. QED
      BY <3>9 DEF p
  <2>9. e.settled = {t[l] : l \in {j \in n .. m : j <= i}}
    <3>1. {j \in n .. m : j <= i} = {j \in n .. m : j <= h} \cup (h + 1 .. c)
      BY <1>1, <1>2, <1>3, <1>4, <1>7 DEF c
    <3>2. {t[l] : l \in {j \in n .. m : j <= i}}
            = {t[l] : l \in {j \in n .. m : j <= h}} \cup {t[j] : j \in h + 1 .. c}
      BY <3>1
    <3>3. QED
      BY <1>3, <2>6, <2>8, <3>2
  <2>10. Has(e, b, g, n, m)
    BY <1>3, <1>4, <2>6, <2>7, <2>9 DEF Has, t, i
  <2>11. QED
    BY <1>3, <2>6, <2>10 DEF Shows, e
<1>8. QED
  BY <1>1, <1>4, <1>6, <1>7

\* A drop shortens what the consumer has by its last block.
LEMMA DroppedTyped ==
  ASSUME NEW s \in StreamSet, NEW b \in Known
  PROVE  /\ Dropped(s, b) \in StreamSet
         /\ Dropped(s, b).inners = s.inners /\ Dropped(s, b).pending = s.pending
         /\ Dropped(s, b).emitted = s.emitted /\ Dropped(s, b).settled = s.settled
         /\ Dropped(s, b).view =
              IF s.view # <<>> /\ Last(s.view) = b THEN Front(s.view) ELSE s.view
<1>1. s.view \in Seq(Known)
  BY DEF StreamSet
<1>2. s.view # <<>> => Front(s.view) \in Seq(Known)
  BY <1>1, FrontElements
<1>3. QED
  BY <1>2 DEF Dropped, StreamSet

\* What is alike in two streams that differ in what their consumers have.
AsAsked(x, s) ==
  /\ x.inners = s.inners /\ x.pending = s.pending
  /\ x.emitted = s.emitted /\ x.settled = s.settled

\* at[i] is the stream when the first i blocks of r were dropped.
DroppedBy(at, s, r) ==
  /\ at[0] = s
  /\ \A i \in 0 .. Len(r) : at[i] \in StreamSet /\ AsAsked(at[i], s)
  /\ \A i \in 1 .. Len(r) : at[i] = Dropped(at[i - 1], r[i])
  /\ FoldLeft(Dropped, s, r) = at[Len(r)]

\* The consumer takes one drop after the other.
LEMMA DropSteps ==
  ASSUME NEW s \in StreamSet, NEW r \in Seq(Known)
  PROVE  \E at : DroppedBy(at, s, r)
<1> DEFINE n == Len(r)
           V == StreamSet
           With(v, i) == Dropped(v, r[i])
           Is(g) == g = [d \in SUBSET (1 .. n) |->
                           IF d = {} THEN s ELSE With(g[d \ {Max(d)}], Max(d))]
           it == CHOOSE g : Is(g)
<1>2. n \in Nat /\ DOMAIN r = 1 .. n /\ \A i \in 1 .. n : r[i] \in Known
  BY LenProperties
<1>3. s \in V
  OBVIOUS
<1> HIDE DEF n
<1>0. IsFiniteSet(1 .. n) /\ 1 .. n \subseteq Int
  BY <1>2, FS_Interval
<1>4. \A i \in 1 .. n : \A v \in V : With(v, i) \in V /\ AsAsked(With(v, i), v)
  BY <1>2, DroppedTyped DEF AsAsked
<1>5. \A d \in SUBSET (1 .. n) : d # {} => Max(d) \in 1 .. n
  BY <1>2, UpToHighest
<1>6. \E g : Is(g)
  <2> DEFINE G == [i \in 1 .. n |-> [v \in V |-> With(v, i)]]
  <2> HIDE DEF With, V
  <2>3. \A i \in 1 .. n : \A v \in V : G[i][v] = With(v, i)
    OBVIOUS
  <2> HIDE DEF G
  <2>4. \A i \in 1 .. n : \A v \in V : G[i][v] \in V
    BY <1>4, <2>3
  <2>5. Applicable(1 .. n, V, s, G)
    BY <1>0, <1>3, <2>4 DEF Applicable
  <2>6. PICK g \in [SUBSET (1 .. n) -> V] : FoldsUp(g, 1 .. n, s, G)
    BY <2>5, FoldExists
  <2>7. \A d \in SUBSET (1 .. n) :
           g[d] = IF d = {} THEN s ELSE With(g[d \ {Max(d)}], Max(d))
    <3> SUFFICES ASSUME NEW d \in SUBSET (1 .. n)
                 PROVE  g[d] = IF d = {} THEN s ELSE With(g[d \ {Max(d)}], Max(d))
      OBVIOUS
    <3>1. g[d] = IF d = {} THEN s ELSE G[Max(d)][g[d \ {Max(d)}]]
      BY <2>6 DEF FoldsUp
    <3>2. g[d \ {Max(d)}] \in V
      OBVIOUS
    <3>3. QED
      BY <1>5, <2>3, <3>1, <3>2
  <2>8. g = [d \in SUBSET (1 .. n) |-> g[d]]
    OBVIOUS
  <2>9. Is(g)
    BY <2>7, <2>8, Zenon
  <2>10. QED
    BY <2>9
<1>7. \A d \in SUBSET (1 .. n) :
         it[d] = IF d = {} THEN s ELSE With(it[d \ {Max(d)}], Max(d))
  <2>1. Is(it)
    BY <1>6
  <2> HIDE DEF it, With
  <2>2. QED
    BY <2>1
<1>8. FoldLeft(Dropped, s, r) = it[1 .. n]
  BY <1>2 DEF FoldLeft, MapThenFoldSet
<1> HIDE DEF it, With
<1> DEFINE at == [i \in 0 .. n |-> it[1 .. i]]
<1>9. at[0] = s
  <2>1. 1 .. 0 = {} /\ 1 .. 0 \in SUBSET (1 .. n) /\ 0 \in 0 .. n
    BY <1>2
  <2>2. it[1 .. 0] = s
    BY <1>7, <2>1
  <2>3. QED
    BY <2>1, <2>2
<1>10. \A i \in 1 .. n : at[i] = With(at[i - 1], i)
  <2> SUFFICES ASSUME NEW i \in 1 .. n PROVE at[i] = With(at[i - 1], i)
    OBVIOUS
  <2> DEFINE d == 1 .. i
  <2>0. d \in SUBSET (1 .. n) /\ d # {} /\ Max(d) = i
    BY <1>2, UpToHighest
  <2> HIDE DEF d
  <2>1. it[d] = With(it[d \ {i}], i)
    BY <1>7, <2>0
  <2>2. 1 .. i \ {i} = 1 .. i - 1 /\ i - 1 \in 0 .. n /\ i \in 0 .. n
    BY <1>2
  <2>3. QED
    BY <2>1, <2>2 DEF d
<1>11. at[n] = it[1 .. n]
  BY <1>2
<1> HIDE DEF at
<1> DEFINE Good(i) == at[i] \in V /\ AsAsked(at[i], s)
           N == {i \in Nat : i <= n => Good(i)}
<1>12. 0 \in N
  BY <1>9 DEF AsAsked
<1>13. ASSUME NEW i \in Nat, i \in N PROVE i + 1 \in N
  <2> SUFFICES ASSUME i + 1 <= n PROVE Good(i + 1)
    OBVIOUS
  <2>1. Good(i) /\ i + 1 \in 1 .. n /\ i + 1 - 1 = i
    BY <1>2, <1>13
  <2>2. at[i + 1] = With(at[i], i + 1)
    BY <1>10, <2>1
  <2>3. at[i + 1] \in V /\ AsAsked(at[i + 1], at[i])
    BY <1>4, <2>1, <2>2
  <2>4. QED
    BY <2>1, <2>3 DEF AsAsked
<1> HIDE DEF N, Good
<1>14. \A i \in 0 .. n : Good(i)
  <2>1. Nat \subseteq N
    BY <1>12, <1>13, InductionOverNat
  <2>2. QED
    BY <1>2, <2>1 DEF N
<1>15. DroppedBy(at, s, r)
  BY <1>8, <1>9, <1>10, <1>11, <1>14 DEF Good, With, n, DroppedBy
<1>16. QED
  BY <1>15

\* r goes down the path t from position m on.
Descends(r, t, m) == \A i \in 1 .. Len(r) : r[i] = t[m - i + 1]

\* The last blocks of a path, the highest one first, are dropped from it.
LEMMA DropsShorten ==
  ASSUME NEW s \in StreamSet, NEW r \in Seq(Known), NEW t \in Seq(Known),
         NEW n \in Nat, NEW m \in Int, n >= 1, n + Len(r) <= m + 1, m <= Len(t),
         s.view = SubSeq(t, n, m), Descends(r, t, m)
  PROVE  FoldLeft(Dropped, s, r).view = SubSeq(t, n, m - Len(r))
<1>0. PICK at : DroppedBy(at, s, r)
  BY DropSteps
<1>1. /\ at[0] = s
      /\ \A i \in 0 .. Len(r) : at[i] \in StreamSet /\ AsAsked(at[i], s)
      /\ \A i \in 1 .. Len(r) : at[i] = Dropped(at[i - 1], r[i])
      /\ FoldLeft(Dropped, s, r) = at[Len(r)]
  BY <1>0 DEF DroppedBy
<1>2. Len(r) \in Nat /\ Len(t) \in Nat /\ \A i \in 1 .. Len(r) : r[i] \in Known
  BY LenProperties
<1> DEFINE N == {i \in Nat : i <= Len(r) => at[i].view = SubSeq(t, n, m - i)}
<1>3. 0 \in N
  <2>1. m - 0 = m
    OBVIOUS
  <2>2. QED
    BY <1>1, <2>1
<1>4. ASSUME NEW i \in Nat, i \in N PROVE i + 1 \in N
  <2> SUFFICES ASSUME i + 1 <= Len(r) PROVE at[i + 1].view = SubSeq(t, n, m - (i + 1))
    OBVIOUS
  <2> DEFINE v == at[i].view
             w == SubSeq(t, n, m - (i + 1))
  <2>1. /\ i + 1 \in 1 .. Len(r) /\ i + 1 - 1 = i /\ i \in 0 .. Len(r)
        /\ m - i \in Int /\ m - i <= Len(t) /\ n <= m - i
        /\ m - (i + 1) \in Int /\ m - (i + 1) <= Len(t) /\ m - i - n + 1 \in Nat
        /\ m - (i + 1) + 1 = m - i
    BY <1>2
  <2>2. v = SubSeq(t, n, m - i)
    BY <1>4, <2>1
  <2>a. r[i + 1] = t[m - (i + 1) + 1]
    BY <2>1 DEF Descends
  <2>3. at[i + 1] = Dropped(at[i], t[m - i]) /\ r[i + 1] = t[m - i] /\ at[i] \in StreamSet
    BY <1>1, <2>1, <2>a
  <2>4. /\ v \in Seq(Known) /\ Len(v) = m - i - n + 1
        /\ \A j \in 1 .. m - i - n + 1 : v[j] = t[n + j - 1]
    <3> DEFINE z == m - i
    <3>1. z \in Int /\ z <= Len(t) /\ n <= z
      BY <2>1
    <3> HIDE DEF z, v
    <3>0. n \in Int /\ n >= 1 /\ t \in Seq(Known)
      OBVIOUS
    <3>2. /\ SubSeq(t, n, z) \in Seq(Known)
          /\ Len(SubSeq(t, n, z)) = IF n <= z THEN z - n + 1 ELSE 0
          /\ \A j \in 1 .. z - n + 1 : SubSeq(t, n, z)[j] = t[n + j - 1]
      BY <3>0, <3>1, Piece
    <3>3. Len(SubSeq(t, n, z)) = z - n + 1
      BY <3>1, <3>2
    <3>4. QED
      BY <2>2, <3>2, <3>3 DEF z
  <2>5. v # <<>> /\ Last(v) = t[m - i]
    <3>0. Len(v) = m - i - n + 1 /\ n <= m - i
      BY <2>1, <2>4
    <3>1. Len(v) \in 1 .. Len(v) /\ n + Len(v) - 1 = m - i
      <4> HIDE DEF v, w
      <4>1. QED
        BY <3>0
    <3>2. v[Len(v)] = t[m - i]
      BY <2>4, <3>1
    <3>3. v # <<>>
      BY <2>4, <3>1, EmptySeq
    <3>4. QED
      BY <3>2, <3>3 DEF Last
  <2>6. at[i + 1].view = Front(v)
    <3>1. t[m - i] \in Known
      BY <1>2, <2>1, <2>3
    <3>2. Dropped(at[i], t[m - i]).view =
            IF v # <<>> /\ Last(v) = t[m - i] THEN Front(v) ELSE v
      BY <2>3, <3>1, DroppedTyped
    <3>3. QED
      BY <2>3, <2>5, <3>2
  <2>7. Front(v) = w
    <3>1. /\ w \in Seq(Known) /\ Len(w) = (IF n <= m - (i + 1) THEN m - (i + 1) - n + 1 ELSE 0)
          /\ \A j \in 1 .. m - (i + 1) - n + 1 : w[j] = t[n + j - 1]
      BY <2>1, Piece
    <3>2. /\ Front(v) \in Seq(Known) /\ Len(Front(v)) = Len(v) - 1
          /\ \A j \in 1 .. Len(v) - 1 : Front(v)[j] = v[j]
      BY <2>4, <2>5, FrontElements
    <3> HIDE DEF v, w
    <3>3. Len(v) - 1 = m - (i + 1) - n + 1 /\ Len(w) = Len(v) - 1
      BY <2>1, <2>4, <3>1
    <3>4. \A j \in 1 .. Len(v) - 1 : Front(v)[j] = w[j]
      <4> SUFFICES ASSUME NEW j \in 1 .. Len(v) - 1 PROVE Front(v)[j] = w[j]
        OBVIOUS
      <4>1. j \in 1 .. m - (i + 1) - n + 1 /\ j \in 1 .. m - i - n + 1
        BY <2>1, <2>4, <3>3
      <4>2. QED
        BY <2>4, <3>1, <3>2, <4>1
    <3>5. QED
      BY <3>1, <3>2, <3>3, <3>4, SeqEqual
  <2>8. QED
    BY <2>6, <2>7
<1> HIDE DEF N
<1>5. Nat \subseteq N
  BY <1>3, <1>4, InductionOverNat
<1>6. QED
  BY <1>1, <1>2, <1>5 DEF N

LEMMA DropsTyped ==
  ASSUME NEW s \in StreamSet, NEW r \in Seq(Known)
  PROVE  /\ FoldLeft(Dropped, s, r) \in StreamSet
         /\ AsAsked(FoldLeft(Dropped, s, r), s)
<1>1. PICK at : DroppedBy(at, s, r)
  BY DropSteps
<1>2. Len(r) \in 0 .. Len(r)
  <2>1. Len(r) \in Nat
    BY LenProperties
  <2>2. QED
    BY <2>1
<1>3. QED
  BY <1>1, <1>2 DEF DroppedBy

LEMMA CommonFacts ==
  ASSUME NEW S, NEW p \in Seq(S), NEW q \in Seq(S)
  PROVE  Common(p, q) \in 0 .. Len(p) /\ AgreeUpTo(p, q, Common(p, q))
<1> DEFINE A == {k \in 0 .. Len(p) : k <= Len(q) /\ \A i \in 1 .. k : p[i] = q[i]}
           k == Max(A)
<1>1. Len(p) \in Nat /\ Len(q) \in Nat
  BY LenProperties
<1>2. 0 \in A
  BY <1>1
<1>3. IsFiniteSet(A) /\ A \subseteq Int
  <2>0. A \subseteq 0 .. Len(p)
    OBVIOUS
  <2> HIDE DEF A
  <2>1. IsFiniteSet(0 .. Len(p)) /\ 0 .. Len(p) \subseteq Int
    BY <1>1, FS_Interval
  <2>2. QED
    BY <2>0, <2>1, FS_Subset
<1>4. k \in A /\ \A i \in A : i <= k
  BY <1>2, <1>3, MaxIsHighest
<1> HIDE DEF k
<1>5. k \in 0 .. Len(p) /\ k <= Len(q) /\ \A i \in 1 .. k : p[i] = q[i]
  BY <1>4
<1>6. k = Len(p) \/ k = Len(q) \/ p[k + 1] # q[k + 1]
  <2> SUFFICES ASSUME k # Len(p), k # Len(q), p[k + 1] = q[k + 1] PROVE FALSE
    OBVIOUS
  <2>1. k + 1 \in 0 .. Len(p) /\ k + 1 <= Len(q)
    BY <1>1, <1>5
  <2>2. \A i \in 1 .. k + 1 : i \in 1 .. k \/ i = k + 1
    BY <1>5
  <2>3. k + 1 \in A
    BY <1>5, <2>1, <2>2
  <2>4. QED
    BY <1>4, <1>5, <2>3
<1>7. AgreeUpTo(p, q, k) /\ k \in Nat
  BY <1>5, <1>6 DEF AgreeUpTo
<1>8. Common(p, q) = k
  BY <1>7, CommonIs
<1>9. QED
  BY <1>5, <1>7, <1>8

\* From a finalized block up to another one.
LEMMA SpanFacts ==
  ASSUME NEW f \in Known, NEW b \in Known, Under(f, b)
  PROVE  /\ Span(f, b) \in Seq(Known) /\ Span(f, b) # <<>>
         /\ Len(Span(f, b)) = Len(Trail[b]) - Len(Trail[f]) + 1
         /\ \A i \in 1 .. Len(Trail[b]) - Len(Trail[f]) + 1 :
              Span(f, b)[i] = Trail[b][Len(Trail[f]) + i - 1]
         /\ Tail(Span(f, b)) \in Seq(Known)
         /\ Len(Tail(Span(f, b))) = Len(Trail[b]) - Len(Trail[f])
         /\ \A i \in 1 .. Len(Trail[b]) - Len(Trail[f]) :
              Tail(Span(f, b))[i] = Trail[b][Len(Trail[f]) + i]
<1> DEFINE t == Trail[b]
           h == Len(Trail[f])
           s == Span(f, b)
<1>1. t \in Seq(Known) /\ Len(t) \in Nat /\ h \in Nat /\ h >= 1 /\ h <= Len(t)
  BY TrailFacts, UnderFacts
<1>2. s = SubSeq(t, h, Len(t))
  BY DEF Span
<1> HIDE DEF s, t, h
<1>3. /\ s \in Seq(Known) /\ Len(s) = Len(t) - h + 1
      /\ \A i \in 1 .. Len(t) - h + 1 : s[i] = t[h + i - 1]
  BY <1>1, <1>2, Piece
<1>4. s # <<>>
  BY <1>1, <1>3, EmptySeq
<1>5. /\ Tail(s) \in Seq(Known) /\ Len(Tail(s)) = Len(t) - h
      /\ \A i \in 1 .. Len(t) - h : Tail(s)[i] = s[i + 1]
  <2>1. /\ Tail(s) \in Seq(Known) /\ Len(Tail(s)) = Len(s) - 1
        /\ \A i \in 1 .. Len(Tail(s)) : Tail(s)[i] = s[i + 1]
    BY <1>3, <1>4, HeadTailProperties
  <2>2. Len(s) - 1 = Len(t) - h
    BY <1>1, <1>3
  <2>3. QED
    BY <2>1, <2>2
<1>6. \A i \in 1 .. Len(t) - h : Tail(s)[i] = t[h + i]
  <2> SUFFICES ASSUME NEW i \in 1 .. Len(t) - h PROVE Tail(s)[i] = t[h + i]
    OBVIOUS
  <2>1. i + 1 \in 1 .. Len(t) - h + 1 /\ h + (i + 1) - 1 = h + i
    BY <1>1
  <2>2. QED
    BY <1>3, <1>5, <2>1
<1>7. QED
  BY <1>3, <1>4, <1>5, <1>6 DEF s, t, h

LEMMA ReverseFacts ==
  ASSUME NEW S, NEW s \in Seq(S)
  PROVE  /\ Reverse(s) \in Seq(S) /\ Len(Reverse(s)) = Len(s)
         /\ \A i \in 1 .. Len(s) : Reverse(s)[i] = s[Len(s) - i + 1]
         /\ Range(Reverse(s)) = {s[i] : i \in 1 .. Len(s)}
<1> DEFINE n == Len(s)
           r == Reverse(s)
<1>1. n \in Nat /\ \A i \in 1 .. n : s[i] \in S
  BY LenProperties, ElementOfSeq
<1>2. r = [i \in 1 .. n |-> s[n - i + 1]]
  BY DEF Reverse
<1> HIDE DEF n, r
<1>3. \A i \in 1 .. n : n - i + 1 \in 1 .. n /\ n - (n - i + 1) + 1 = i
  BY <1>1
<1>4. r \in [1 .. n -> S]
  BY <1>1, <1>2, <1>3
<1>5. r \in Seq(S) /\ Len(r) = n /\ DOMAIN r = 1 .. n
  BY <1>1, <1>4
<1>6. \A i \in 1 .. n : r[i] = s[n - i + 1]
  BY <1>2
<1>7. Range(r) = {r[i] : i \in 1 .. n}
  BY <1>5, RangeEquality
<1>8. {r[i] : i \in 1 .. n} = {s[i] : i \in 1 .. n}
  <2>1. \A i \in 1 .. n : r[i] = s[n - i + 1] /\ n - i + 1 \in 1 .. n
    BY <1>3, <1>6
  <2>2. \A i \in 1 .. n : s[i] = r[n - i + 1] /\ n - i + 1 \in 1 .. n
    BY <1>3, <1>6
  <2>3. \A x \in {r[i] : i \in 1 .. n} : x \in {s[i] : i \in 1 .. n}
    BY <2>1
  <2>4. \A x \in {s[i] : i \in 1 .. n} : x \in {r[i] : i \in 1 .. n}
    BY <2>2
  <2>5. QED
    BY <2>3, <2>4
<1>9. QED
  BY <1>5, <1>6, <1>7, <1>8 DEF n, r

LEMMA AskedFacts ==
  ASSUME NEW blocks \in Seq(Known)
  PROVE  /\ Asked(blocks) \in Seq(Item) /\ Len(Asked(blocks)) = Len(blocks)
         /\ \A i \in 1 .. Len(blocks) :
              /\ Asked(blocks)[i].block = blocks[i]
              /\ Asked(blocks)[i].answer \in {"waits", "there"}
<1>1. /\ Len(blocks) \in Nat /\ DOMAIN blocks = 1 .. Len(blocks)
      /\ \A i \in 1 .. Len(blocks) : blocks[i] \in Known
  BY LenProperties, ElementOfSeq
<1>2. \A i \in 1 .. Len(blocks) :
        /\ Asked(blocks)[i] \in Item /\ Asked(blocks)[i].block = blocks[i]
        /\ Asked(blocks)[i].answer \in {"waits", "there"}
  BY <1>1 DEF Asked, Item
<1>3. Asked(blocks) \in [1 .. Len(blocks) -> Item]
  BY <1>1, <1>2 DEF Asked
<1>4. Asked(blocks) \in Seq(Item) /\ Len(Asked(blocks)) = Len(blocks)
  BY <1>1, <1>3
<1>5. QED
  BY <1>2, <1>4

-------------------------------------------------------------------------------
\* The steps of another best chain.
Kept(s, next)    == Common(s.emitted, Tail(next))
Drops(s, next)   == Reverse(SubSeq(s.emitted, Kept(s, next) + 1, Len(s.emitted)))
Cleared(s, next) ==
  FoldLeft(Dropped, [s EXCEPT !.emitted = SubSeq(@, 1, Kept(s, next)),
                              !.pending = @ \ Range(Drops(s, next))], Drops(s, next))
Added(prev, next) == SubSeq(next, Common(prev, next) + 1, Len(next))

Cutting(q, f, top) ==
  [i \in DOMAIN q |->
     IF q[i].answer = "waits" /\ Standing(q[i].block, f, top) = "none"
       THEN [q[i] EXCEPT !.answer = "cut"] ELSE q[i]]

LEMMA CuttingFacts ==
  ASSUME NEW q \in Seq(Item), NEW f, NEW top
  PROVE  /\ Cutting(q, f, top) \in Seq(Item) /\ Len(Cutting(q, f, top)) = Len(q)
         /\ \A i \in 1 .. Len(q) :
              /\ Cutting(q, f, top)[i].block = q[i].block
              /\ Cutting(q, f, top)[i].answer
                   = IF q[i].answer = "waits" /\ Standing(q[i].block, f, top) = "none"
                       THEN "cut" ELSE q[i].answer
<1> DEFINE w == Cutting(q, f, top)
<1>1. Len(q) \in Nat /\ DOMAIN q = 1 .. Len(q) /\ \A i \in 1 .. Len(q) : q[i] \in Item
  BY LenProperties, ElementOfSeq
<1>2. DOMAIN w = 1 .. Len(q)
      /\ \A i \in 1 .. Len(q) :
           w[i] = IF q[i].answer = "waits" /\ Standing(q[i].block, f, top) = "none"
                    THEN [q[i] EXCEPT !.answer = "cut"] ELSE q[i]
  BY <1>1 DEF Cutting
<1>3. ASSUME NEW i \in 1 .. Len(q)
      PROVE  /\ w[i] \in Item /\ w[i].block = q[i].block
             /\ w[i].answer = IF q[i].answer = "waits" /\ Standing(q[i].block, f, top) = "none"
                                THEN "cut" ELSE q[i].answer
  <2> DEFINE x == q[i]
  <2>1. x \in Item
    BY <1>1
  <2> HIDE DEF x
  <2>2. /\ [x EXCEPT !.answer = "cut"] \in Item
        /\ [x EXCEPT !.answer = "cut"].block = x.block
        /\ [x EXCEPT !.answer = "cut"].answer = "cut"
    BY <2>1 DEF Item
  <2>3. w[i] = IF x.answer = "waits" /\ Standing(x.block, f, top) = "none"
                 THEN [x EXCEPT !.answer = "cut"] ELSE x
    BY <1>2 DEF x
  <2> HIDE DEF w
  <2>4. QED
    BY <2>1, <2>2, <2>3 DEF x
<1>4. w \in [1 .. Len(q) -> Item]
  BY <1>1, <1>2, <1>3 DEF Cutting
<1>5. w \in Seq(Item) /\ Len(w) = Len(q)
  BY <1>1, <1>4
<1>6. QED
  BY <1>3, <1>5

LEMMA ClearedTyped ==
  ASSUME NEW s \in StreamSet, NEW next \in Seq(Known), next # <<>>
  PROVE  /\ Cleared(s, next) \in StreamSet /\ Cleared(s, next).inners = s.inners
         /\ Cleared(s, next).settled = s.settled
         /\ Cleared(s, next).emitted = SubSeq(s.emitted, 1, Kept(s, next))
         /\ Cleared(s, next).pending = s.pending \ Range(Drops(s, next))
         /\ Drops(s, next) \in Seq(Known) /\ Kept(s, next) \in 0 .. Len(s.emitted)
<1> DEFINE k == Kept(s, next)
           d == Drops(s, next)
           x == [s EXCEPT !.emitted = SubSeq(@, 1, k), !.pending = @ \ Range(d)]
<1>1. s.emitted \in Seq(Known) /\ Len(s.emitted) \in Nat
  BY LenProperties DEF StreamSet
<1>2. Tail(next) \in Seq(Known)
  BY HeadTailProperties
<1>3. k \in 0 .. Len(s.emitted)
  BY <1>1, <1>2, CommonFacts DEF Kept
<1>4. d = Reverse(SubSeq(s.emitted, k + 1, Len(s.emitted)))
  BY DEF Drops
<1>5. Cleared(s, next) = FoldLeft(Dropped, x, d)
  BY DEF Cleared
<1> HIDE DEF k, d
<1>6. /\ k \in Int /\ k <= Len(s.emitted) /\ k + 1 \in Int /\ k + 1 >= 1
      /\ Len(s.emitted) \in Int /\ Len(s.emitted) <= Len(s.emitted)
  BY <1>1, <1>3
<1>7. SubSeq(s.emitted, k + 1, Len(s.emitted)) \in Seq(Known)
  BY <1>1, <1>6, Piece
<1>8. d \in Seq(Known)
  BY <1>4, <1>7, ReverseFacts
<1>9. SubSeq(s.emitted, 1, k) \in Seq(Known)
  BY <1>1, <1>6, Piece
<1>10. /\ x \in StreamSet /\ x.inners = s.inners /\ x.settled = s.settled
       /\ x.emitted = SubSeq(s.emitted, 1, k) /\ x.pending = s.pending \ Range(d)
  BY <1>9 DEF StreamSet
<1> HIDE DEF x
<1>11. FoldLeft(Dropped, x, d) \in StreamSet /\ AsAsked(FoldLeft(Dropped, x, d), x)
  BY <1>8, <1>10, DropsTyped
<1>12. QED
  BY <1>3, <1>5, <1>8, <1>10, <1>11 DEF AsAsked, k, d

LEMMA AskTyped ==
  ASSUME NEW s \in StreamSet, NEW blocks \in Seq(Known), NEW f \in Known
  PROVE  Ask(s, blocks, f) \in StreamSet
<1> DEFINE x == [s EXCEPT !.pending = @ \cup Range(blocks), !.inners = @ \o Asked(blocks)]
<1>1. s.inners \in Seq(Item) /\ Asked(blocks) \in Seq(Item)
  BY AskedFacts DEF StreamSet
<1>2. s.inners \o Asked(blocks) \in Seq(Item)
  BY <1>1, ConcatProperties
<1>3. Range(blocks) \subseteq Known
  BY RangeEquality, ElementOfSeq
<1>4. x \in StreamSet
  BY <1>2, <1>3 DEF StreamSet
<1>5. Ask(s, blocks, f) = Flush(x, f)
  BY DEF Ask
<1> HIDE DEF x
<1>6. QED
  BY <1>4, <1>5, FlushTyped

LEMMA DivergeTyped ==
  ASSUME NEW s \in StreamSet, NEW prev \in Seq(Known), NEW next \in Seq(Known), next # <<>>,
         NEW f \in Known
  PROVE  /\ Diverge(s, prev, next, f) \in StreamSet
         /\ Diverge(s, prev, next, f) = Ask(Cleared(s, next), Added(prev, next), f)
         /\ Added(prev, next) \in Seq(Known)
<1>1. Diverge(s, prev, next, f) = Ask(Cleared(s, next), Added(prev, next), f)
  BY DEF Diverge, Cleared, Added, Drops, Kept
<1>2. Cleared(s, next) \in StreamSet
  BY ClearedTyped
<1>3. AgreeUpTo(prev, next, Common(prev, next)) /\ Common(prev, next) \in Nat /\ Len(next) \in Nat
  BY CommonFacts, LenProperties
<1>4. Common(prev, next) + 1 \in Int /\ Common(prev, next) + 1 >= 1 /\ Len(next) \in Int
      /\ Len(next) <= Len(next)
  BY <1>3
<1>5. Added(prev, next) \in Seq(Known)
  BY <1>4, Piece DEF Added
<1>6. QED
  BY <1>1, <1>2, <1>5, AskTyped

LEMMA CutTyped ==
  ASSUME NEW s \in StreamSet, NEW f \in Known, NEW top
  PROVE  /\ Cut(s, f, top) \in StreamSet
         /\ Cut(s, f, top).inners # <<>> => Cut(s, f, top).inners[1].answer = "waits"
         /\ Cut(s, f, top) = Flush([s EXCEPT !.inners = Cutting(@, f, top)], f)
         /\ [s EXCEPT !.inners = Cutting(@, f, top)] \in StreamSet
<1> DEFINE x == [s EXCEPT !.inners = Cutting(@, f, top)]
<1>1. Cutting(s.inners, f, top) \in Seq(Item)
  BY CuttingFacts DEF StreamSet
<1>2. x \in StreamSet
  BY <1>1 DEF StreamSet
<1>3. Cut(s, f, top) = Flush(x, f)
  BY DEF Cut, Cutting
<1> HIDE DEF x
<1>4. QED
  BY <1>2, <1>3, FlushTyped DEF x

\* The same blocks up to a position are the same path up to it.
LEMMA SamePiece ==
  ASSUME NEW t \in Seq(Known), NEW u \in Seq(Known), NEW a \in Int, a >= 1,
         NEW q \in Int, q <= Len(t), q <= Len(u), \A i \in 1 .. q : t[i] = u[i]
  PROVE  SubSeq(t, a, q) = SubSeq(u, a, q)
<1> DEFINE v == SubSeq(t, a, q)
           w == SubSeq(u, a, q)
           n == IF a <= q THEN q - a + 1 ELSE 0
<1>1. v \in Seq(Known) /\ Len(v) = n /\ \A i \in 1 .. q - a + 1 : v[i] = t[a + i - 1]
  BY Piece
<1>2. w \in Seq(Known) /\ Len(w) = n /\ \A i \in 1 .. q - a + 1 : w[i] = u[a + i - 1]
  BY Piece
<1> HIDE DEF v, w
<1>3. ASSUME NEW i \in 1 .. n PROVE v[i] = w[i]
  <2>1. i \in 1 .. q - a + 1 /\ a + i - 1 \in 1 .. q
    OBVIOUS
  <2>2. QED
    BY <1>1, <1>2, <2>1
<1>4. v = w
  BY <1>1, <1>2, <1>3, SeqEqual
<1>5. QED
  BY <1>4 DEF v, w

\* Another best chain takes from the consumer what is not on it.
LEMMA ClearedShows ==
  ASSUME NEW s \in StreamSet, NEW b \in Known, NEW c \in Known, NEW f \in Known,
         NEW n, NEW m, NEW p, NEW q,
         Under(f, b), Under(f, c), ForkAt(p, b, c, f), Has(s, b, f, n, m),
         q = IF m <= p THEN m ELSE p
  PROVE  /\ Has(Cleared(s, Span(f, c)), c, f, n, q)
         /\ Cleared(s, Span(f, c)).pending = s.pending \ {Trail[b][i] : i \in q + 1 .. m}
<1> DEFINE t == Trail[b]
           u == Trail[c]
           h == Len(Trail[f])
           e == s.emitted
           next == Span(f, c)
           L == IF h + 1 <= m THEN m - h ELSE 0
           g == IF h + 1 <= m THEN q - h ELSE 0
           x == Cleared(s, next)
<1>1. /\ t \in Seq(Known) /\ Len(t) \in Nat /\ u \in Seq(Known) /\ Len(u) \in Nat
      /\ h \in Nat /\ h >= 1
  BY TrailFacts
<1>2. /\ n \in 1 .. h /\ m \in n - 1 .. Len(t)
      /\ s.view = SubSeq(t, n, m) /\ e = SubSeq(t, h + 1, m)
      /\ s.settled = {t[i] : i \in {j \in n .. m : j <= h}}
  BY DEF Has
<1>3. /\ p \in h .. Len(t) /\ p <= Len(u)
      /\ \A i \in 1 .. p : t[i] = u[i]
      /\ p = Len(t) \/ p = Len(u) \/ t[p + 1] # u[p + 1]
  BY DEF ForkAt
<1>4. /\ next \in Seq(Known) /\ next # <<>>
      /\ Tail(next) \in Seq(Known) /\ Len(Tail(next)) = Len(u) - h
      /\ \A i \in 1 .. Len(u) - h : Tail(next)[i] = u[h + i]
  BY SpanFacts
<1> HIDE DEF t, u, h, next
<1>5. /\ n \in Nat /\ n >= 1 /\ m \in Int /\ m <= Len(t) /\ p \in Int /\ q \in Int
      /\ q <= m /\ q <= p /\ q <= Len(t) /\ q <= Len(u) /\ n - 1 <= q /\ n <= h
      /\ h + 1 \in Int /\ h + 1 >= 1
  BY <1>1, <1>2, <1>3
<1>6. /\ e \in Seq(Known) /\ Len(e) = L /\ \A i \in 1 .. L : e[i] = t[h + i]
  <2>1. /\ e \in Seq(Known) /\ Len(e) = (IF h + 1 <= m THEN m - (h + 1) + 1 ELSE 0)
        /\ \A i \in 1 .. m - (h + 1) + 1 : e[i] = t[h + 1 + i - 1]
    BY <1>1, <1>2, <1>5, Piece
  <2> HIDE DEF e
  <2>2. Len(e) = L
    BY <1>1, <1>5, <2>1
  <2>3. \A i \in 1 .. L : i \in 1 .. m - (h + 1) + 1 /\ h + 1 + i - 1 = h + i
    BY <1>1, <1>5
  <2>4. QED
    BY <2>1, <2>2, <2>3
<1> HIDE DEF e
<1>7. /\ L \in Nat /\ g \in Nat /\ g <= L /\ L - g = m - q
      /\ g <= Len(u) - h /\ \A i \in 1 .. g : h + i \in 1 .. q
      /\ g = IF h + 1 <= q THEN q - h ELSE 0
  BY <1>1, <1>3, <1>5
<1>8. Kept(s, next) = g
  <2>1. \A i \in 1 .. g : e[i] = Tail(next)[i]
    <3> SUFFICES ASSUME NEW i \in 1 .. g PROVE e[i] = Tail(next)[i]
      OBVIOUS
    <3>1. i \in 1 .. L /\ i \in 1 .. Len(u) - h /\ h + i \in 1 .. p
      BY <1>1, <1>5, <1>7
    <3>2. e[i] = t[h + i] /\ Tail(next)[i] = u[h + i] /\ t[h + i] = u[h + i]
      BY <1>3, <1>4, <1>6, <3>1
    <3>3. QED
      BY <3>2
  <2>2. g = L \/ g = Len(u) - h \/ e[g + 1] # Tail(next)[g + 1]
    <3> SUFFICES ASSUME g # L, g # Len(u) - h PROVE e[g + 1] # Tail(next)[g + 1]
      OBVIOUS
    <3>1. h + 1 <= m /\ p < m /\ q = p /\ g = p - h /\ p # Len(u) /\ p # Len(t)
      BY <1>1, <1>3, <1>5, <1>7
    <3>2. g + 1 \in 1 .. L /\ g + 1 \in 1 .. Len(u) - h /\ h + (g + 1) = p + 1
      BY <1>1, <1>5, <1>7, <3>1
    <3>3. e[g + 1] = t[p + 1] /\ Tail(next)[g + 1] = u[p + 1]
      BY <1>4, <1>6, <3>2
    <3>4. QED
      BY <1>3, <3>1, <3>3
  <2>3. AgreeUpTo(e, Tail(next), g)
    BY <1>4, <1>6, <1>7, <2>1, <2>2 DEF AgreeUpTo
  <2> HIDE DEF g
  <2>4. QED
    <3>1. e \in Seq(Known) /\ Tail(next) \in Seq(Known) /\ g \in Nat
      BY <1>4, <1>6, <1>7
    <3>2. Common(e, Tail(next)) = g
      BY <2>3, <3>1, CommonIs
    <3>3. QED
      BY <3>2 DEF Kept, e
<1> DEFINE w == SubSeq(e, g + 1, L)
           d == Drops(s, next)
<1>9. d = Reverse(w)
  BY <1>6, <1>8 DEF Drops, e
<1>q. h + g = q \/ g = L
  BY <1>1, <1>5
<1> HIDE DEF g, L, d
<1>10. /\ w \in Seq(Known) /\ Len(w) = m - q /\ \A i \in 1 .. m - q : w[i] = t[q + i]
  <2>1. g + 1 \in Int /\ g + 1 >= 1 /\ L \in Int /\ L <= Len(e)
    BY <1>6, <1>7
  <2>2. /\ w \in Seq(Known) /\ Len(w) = (IF g + 1 <= L THEN L - (g + 1) + 1 ELSE 0)
        /\ \A i \in 1 .. L - (g + 1) + 1 : w[i] = e[g + 1 + i - 1]
    BY <1>6, <2>1, Piece
  <2> HIDE DEF w
  <2>3. Len(w) = m - q
    BY <1>5, <1>7, <2>2
  <2>4. ASSUME NEW i \in 1 .. m - q PROVE w[i] = t[q + i]
    <3>0. L \in Nat /\ g \in Nat /\ g <= L /\ L - g = m - q /\ m \in Int /\ q \in Int /\ h \in Nat
      BY <1>1, <1>5, <1>7
    <3>1. i \in 1 .. L - (g + 1) + 1 /\ g + 1 + i - 1 = g + i /\ g + i \in 1 .. L
      BY <3>0
    <3>2. w[i] = t[h + (g + i)]
      BY <1>6, <2>2, <3>1
    <3>i. i \in Int /\ m - q >= 1 /\ L # g
      BY <3>0
    <3>3. h + (g + i) = q + i
      <4>1. h + g = q
        BY <1>q, <3>i
      <4>2. h + (g + i) = (h + g) + i
        BY <3>0, <3>i
      <4>3. QED
        BY <4>1, <4>2
    <3>4. QED
      BY <3>2, <3>3
  <2>5. QED
    BY <2>2, <2>3, <2>4
<1> HIDE DEF w
<1>11. /\ d \in Seq(Known) /\ Len(d) = m - q
       /\ \A i \in 1 .. m - q : d[i] = t[m - i + 1]
       /\ Range(d) = {t[i] : i \in q + 1 .. m}
  <2>1. /\ d \in Seq(Known) /\ Len(d) = m - q
        /\ \A i \in 1 .. m - q : d[i] = w[m - q - i + 1]
        /\ Range(d) = {w[i] : i \in 1 .. m - q}
    BY <1>9, <1>10, ReverseFacts
  <2>2. ASSUME NEW i \in 1 .. m - q PROVE d[i] = t[m - i + 1]
    <3>1. m - q - i + 1 \in 1 .. m - q /\ q + (m - q - i + 1) = m - i + 1
      BY <1>5
    <3>2. d[i] = w[m - q - i + 1]
      BY <2>1
    <3>3. w[m - q - i + 1] = t[q + (m - q - i + 1)]
      BY <1>10, <3>1
    <3>4. QED
      BY <3>1, <3>2, <3>3
  <2>3. \A i \in 1 .. m - q : q + i \in q + 1 .. m
    BY <1>5
  <2>4. \A i \in q + 1 .. m : i - q \in 1 .. m - q /\ q + (i - q) = i
    BY <1>5
  <2>5. \A i \in q + 1 .. m : t[i] = w[i - q]
    BY <1>10, <2>4
  <2>6. {w[i] : i \in 1 .. m - q} = {t[i] : i \in q + 1 .. m}
    <3>1. \A z \in {w[i] : i \in 1 .. m - q} : z \in {t[i] : i \in q + 1 .. m}
      BY <1>10, <2>3
    <3>2. \A z \in {t[i] : i \in q + 1 .. m} : z \in {w[i] : i \in 1 .. m - q}
      BY <2>4, <2>5
    <3>3. QED
      BY <3>1, <3>2
  <2>7. QED
    BY <2>1, <2>2, <2>6
<1> DEFINE y == [s EXCEPT !.emitted = SubSeq(@, 1, g), !.pending = @ \ Range(d)]
<1>12. x = FoldLeft(Dropped, y, d)
  BY <1>8 DEF Cleared, d
<1>13. y \in StreamSet /\ y.view = s.view
  <2>1. SubSeq(s.emitted, 1, g) \in Seq(Known)
    BY <1>6, <1>7, Piece DEF e
  <2>2. QED
    BY <2>1 DEF StreamSet
<1> HIDE DEF y
<1>14. x.view = SubSeq(t, n, q)
  <2>1. n + Len(d) <= m + 1 /\ m - Len(d) = q /\ Descends(d, t, m)
    <3>1. Len(d) = m - q /\ \A i \in 1 .. m - q : d[i] = t[m - i + 1]
      BY <1>11
    <3>2. Descends(d, t, m)
      BY <3>1 DEF Descends
    <3>3. n + (m - q) <= m + 1 /\ m - (m - q) = q
      BY <1>5
    <3>4. QED
      BY <3>1, <3>2, <3>3
  <2>2. y.view = SubSeq(t, n, m)
    BY <1>2, <1>13
  <2>3. FoldLeft(Dropped, y, d).view = SubSeq(t, n, m - Len(d))
    <3>1. /\ y \in StreamSet /\ d \in Seq(Known) /\ t \in Seq(Known) /\ n \in Nat
          /\ m \in Int /\ n >= 1 /\ n + Len(d) <= m + 1 /\ m <= Len(t)
          /\ y.view = SubSeq(t, n, m) /\ Descends(d, t, m)
      BY <1>1, <1>5, <1>11, <1>13, <2>1, <2>2
    <3>2. QED
      BY <3>1, DropsShorten
  <2>4. QED
    BY <1>12, <2>1, <2>3
<1>15. /\ x.inners = s.inners /\ x.settled = s.settled
       /\ x.emitted = SubSeq(e, 1, g) /\ x.pending = s.pending \ Range(d)
  BY <1>4, <1>8, ClearedTyped DEF d, e
<1> HIDE DEF x
<1>16. \A i \in 1 .. q : t[i] = u[i]
  BY <1>3, <1>5
<1>17. x.view = SubSeq(u, n, q)
  BY <1>1, <1>5, <1>14, <1>16, SamePiece
<1>18. x.emitted = SubSeq(u, h + 1, q)
  <2> DEFINE v == SubSeq(u, h + 1, q)
             z == SubSeq(e, 1, g)
  <2>1. /\ v \in Seq(Known) /\ Len(v) = (IF h + 1 <= q THEN q - (h + 1) + 1 ELSE 0)
        /\ \A i \in 1 .. q - (h + 1) + 1 : v[i] = u[h + 1 + i - 1]
    BY <1>1, <1>5, Piece
  <2>2. /\ z \in Seq(Known) /\ Len(z) = (IF 1 <= g THEN g - 1 + 1 ELSE 0)
        /\ \A i \in 1 .. g - 1 + 1 : z[i] = e[1 + i - 1]
    BY <1>6, <1>7, Piece
  <2> HIDE DEF v, z
  <2>3. Len(v) = g /\ Len(z) = g
    BY <1>1, <1>5, <1>7, <2>1, <2>2
  <2>4. ASSUME NEW i \in 1 .. g PROVE v[i] = z[i]
    <3>1. /\ i \in 1 .. q - (h + 1) + 1 /\ h + 1 + i - 1 = h + i
          /\ i \in 1 .. g - 1 + 1 /\ 1 + i - 1 = i /\ i \in 1 .. L /\ h + i \in 1 .. q
      BY <1>1, <1>5, <1>7
    <3>2. v[i] = u[h + i] /\ z[i] = e[i] /\ e[i] = t[h + i]
      BY <1>6, <2>1, <2>2, <3>1
    <3>3. QED
      BY <1>16, <3>1, <3>2
  <2>5. v = z
    BY <2>1, <2>2, <2>3, <2>4, SeqEqual
  <2>6. QED
    BY <1>15, <2>5 DEF v, z
<1>19. x.settled = {u[i] : i \in {j \in n .. q : j <= h}}
  <2>1. {j \in n .. m : j <= h} = {j \in n .. q : j <= h}
    BY <1>1, <1>3, <1>5
  <2>2. \A i \in {j \in n .. q : j <= h} : t[i] = u[i]
    BY <1>5, <1>16
  <2>3. {t[i] : i \in {j \in n .. q : j <= h}} = {u[i] : i \in {j \in n .. q : j <= h}}
    BY <2>2
  <2>4. QED
    BY <1>2, <1>15, <2>1, <2>3
<1>20. n \in 1 .. h /\ q \in n - 1 .. Len(u)
  BY <1>1, <1>2, <1>5
<1>21. Has(x, c, f, n, q)
  BY <1>17, <1>18, <1>19, <1>20 DEF Has, u, h
<1>22. QED
  BY <1>11, <1>15, <1>21 DEF x, next, t

\* A first one that waits keeps everything back.
LEMMA FlushNothing ==
  ASSUME NEW s \in StreamSet, NEW f \in Known, s.inners # <<>>, s.inners[1].answer = "waits"
  PROVE  /\ Flush(s, f).inners = s.inners /\ Flush(s, f).pending = s.pending
         /\ Flush(s, f).emitted = s.emitted /\ Flush(s, f).view = s.view
         /\ Flush(s, f).settled = s.settled
<1> DEFINE q == s.inners
<1>1. q \in Seq(Item) /\ Len(q) \in Nat
  BY LenProperties DEF StreamSet
<1>2. PICK r \in 0 .. Len(q) :
         /\ Len(Ready(q)) = r
         /\ Behind(q) \in Seq(Item) /\ Len(Behind(q)) = Len(q) - r
         /\ \A i \in 1 .. Len(q) - r : Behind(q)[i] = q[r + i]
         /\ q # <<>> /\ q[1].answer = "waits" => r = 0
  BY <1>1, ReadyFacts
<1>3. r = 0
  BY <1>2
<1>f. PICK at : FlushedBy(at, s, f)
  BY FlushSteps
<1>4. at[0] = [s EXCEPT !.inners = Behind(@)] /\ Flush(s, f) = at[r]
  <2>1. Len(Ready(q)) = r
    BY <1>2
  <2>2. QED
    BY <1>f, <2>1 DEF FlushedBy
<1>5. Behind(q) = q
  <2> DEFINE w == Behind(q)
  <2>1. w \in Seq(Item) /\ Len(w) = Len(q) /\ \A i \in 1 .. Len(w) : w[i] = q[0 + i]
    BY <1>1, <1>2, <1>3
  <2> HIDE DEF w, q
  <2>2. \A i \in 1 .. Len(w) : w[i] = q[i]
    BY <2>1
  <2>3. w = q
    BY <1>1, <2>1, <2>2, SeqEqual
  <2>4. QED
    BY <2>3 DEF w
<1>6. QED
  BY <1>3, <1>4, <1>5 DEF StreamSet

\* What is on the best chain stands, what is above the finalized block and not on it
\* does not.
LEMMA StandingFacts ==
  ASSUME NEW f \in Known, NEW c \in Known
  PROVE  /\ \A i \in 1 .. Len(Trail[c]) : Standing(Trail[c][i], f, c) # "none"
         /\ \A x \in Known :
              Level(x) > Level(f) /\ ~Under(x, c) => Standing(x, f, c) = "none"
<1>1. ASSUME NEW i \in 1 .. Len(Trail[c]) PROVE Standing(Trail[c][i], f, c) # "none"
  <2>1. /\ Trail[c][i] \in Known /\ Under(Trail[c][i], c)
        /\ Level(Trail[c][i]) = i - 1 /\ Level(c) = Len(Trail[c]) - 1 /\ Len(Trail[c]) \in Nat
    BY TrailFacts, UnderFacts DEF Level
  <2>2. ~(Level(Trail[c][i]) > Level(c))
    BY <2>1
  <2>3. QED
    BY <2>1, <2>2 DEF Standing
<1>2. ASSUME NEW x \in Known, Level(x) > Level(f), ~Under(x, c)
      PROVE  Standing(x, f, c) = "none"
  <2>1. Level(x) \in Int /\ Level(f) \in Int
    BY TrailFacts DEF Level
  <2>2. ~(Level(x) <= Level(f))
    BY <1>2, <2>1
  <2>3. QED
    BY <1>2, <2>2 DEF Standing
<1>3. QED
  BY <1>1, <1>2

\* Nothing on its way to the best block is cut.
LEMMA CuttingKeeps ==
  ASSUME NEW q \in Seq(Item), NEW c \in Known, NEW f \in Known, NEW pend, NEW m \in Int, m >= 0,
         OnTheirWay(q, 1, pend, c, m)
  PROVE  OnTheirWay(Cutting(q, f, c), 1, pend, c, m)
<1> DEFINE w == Cutting(q, f, c)
           u == Trail[c]
<1>1. Len(u) \in Nat
  BY TrailFacts
<1>2. /\ \A i \in 1 .. Len(q) : q[i].answer # "cut" =>
           q[i].block \in pend /\ \E k \in m + 1 .. Len(u) : q[i].block = u[k]
      /\ \A k \in m + 1 .. Len(u) :
           \E i \in 1 .. Len(q) : q[i].answer # "cut" /\ q[i].block = u[k]
      /\ \A i, j \in 1 .. Len(q) :
           i < j /\ q[i].answer # "cut" /\ q[j].answer # "cut" =>
             Level(q[i].block) < Level(q[j].block)
  BY DEF OnTheirWay
<1>3. /\ w \in Seq(Item) /\ Len(w) = Len(q)
      /\ \A i \in 1 .. Len(q) :
           /\ w[i].block = q[i].block
           /\ w[i].answer = IF q[i].answer = "waits" /\ Standing(q[i].block, f, c) = "none"
                              THEN "cut" ELSE q[i].answer
  BY CuttingFacts
<1>4. \A k \in m + 1 .. Len(u) : Standing(u[k], f, c) # "none"
  BY StandingFacts
<1> HIDE DEF w, u
<1>5. \A i \in 1 .. Len(q) : w[i].block = q[i].block /\ w[i].answer = q[i].answer
  <2> SUFFICES ASSUME NEW i \in 1 .. Len(q) PROVE w[i].block = q[i].block /\ w[i].answer = q[i].answer
    OBVIOUS
  <2>1. q[i].answer # "cut" => Standing(q[i].block, f, c) # "none"
    BY <1>2, <1>4
  <2>2. QED
    BY <1>3, <2>1
<1>6. Len(w) = Len(q)
  BY <1>3
<1>7. ASSUME NEW i \in 1 .. Len(w), w[i].answer # "cut"
      PROVE  w[i].block \in pend /\ \E k \in m + 1 .. Len(u) : w[i].block = u[k]
  <2>1. i \in 1 .. Len(q) /\ w[i].block = q[i].block /\ q[i].answer # "cut"
    BY <1>5, <1>6, <1>7
  <2>2. q[i].block \in pend /\ \E k \in m + 1 .. Len(u) : q[i].block = u[k]
    BY <1>2, <2>1
  <2>3. QED
    BY <2>1, <2>2
<1>8. \A k \in m + 1 .. Len(u) :
         \E i \in 1 .. Len(w) : w[i].answer # "cut" /\ w[i].block = u[k]
  <2> SUFFICES ASSUME NEW k \in m + 1 .. Len(u)
               PROVE  \E i \in 1 .. Len(w) : w[i].answer # "cut" /\ w[i].block = u[k]
    OBVIOUS
  <2>1. PICK i \in 1 .. Len(q) : q[i].answer # "cut" /\ q[i].block = u[k]
    BY <1>2
  <2>2. QED
    BY <1>5, <1>6, <2>1
<1>9. ASSUME NEW i \in 1 .. Len(w), NEW j \in 1 .. Len(w), i < j,
             w[i].answer # "cut", w[j].answer # "cut"
      PROVE  Level(w[i].block) < Level(w[j].block)
  BY <1>2, <1>5, <1>6, <1>9
<1>10. QED
  BY <1>7, <1>8, <1>9 DEF OnTheirWay, w, u

\* No answer that is kept back is off the way to c.
NoneLags(q, pend, c) ==
  \A i \in 1 .. Len(q) :
    q[i].answer = "there" /\ q[i].block \in pend => Under(q[i].block, c)

\* From position p + 1 on up to the block c.
LeadsUp(A, c, p) ==
  /\ Len(A) = Len(Trail[c]) - p
  /\ \A i \in 1 .. Len(Trail[c]) - p : A[i] = Trail[c][p + i]

\* What another best chain adds.
LEMMA AddedFacts ==
  ASSUME NEW b \in Known, NEW c \in Known, NEW f \in Known, NEW p \in Nat,
         Under(f, b), Under(f, c), ForkAt(p, b, c, f)
  PROVE  /\ Added(Span(f, b), Span(f, c)) \in Seq(Known)
         /\ LeadsUp(Added(Span(f, b), Span(f, c)), c, p)
<1> DEFINE t == Trail[b]
           u == Trail[c]
           h == Len(Trail[f])
           prev == Span(f, b)
           next == Span(f, c)
           g == p - h + 1
           A == Added(prev, next)
<1>1. Len(t) \in Nat /\ Len(u) \in Nat /\ h \in Nat /\ h >= 1
  BY TrailFacts
<1>2. /\ p \in h .. Len(t) /\ p <= Len(u)
      /\ \A i \in 1 .. p : t[i] = u[i]
      /\ p = Len(t) \/ p = Len(u) \/ t[p + 1] # u[p + 1]
  BY DEF ForkAt
<1>3. /\ prev \in Seq(Known) /\ Len(prev) = Len(t) - h + 1
      /\ \A i \in 1 .. Len(t) - h + 1 : prev[i] = t[h + i - 1]
  BY SpanFacts
<1>4. /\ next \in Seq(Known) /\ Len(next) = Len(u) - h + 1
      /\ \A i \in 1 .. Len(u) - h + 1 : next[i] = u[h + i - 1]
  BY SpanFacts
<1> HIDE DEF t, u, h, prev, next
<1>5. g \in Nat /\ g <= Len(prev) /\ g <= Len(next)
  BY <1>1, <1>2, <1>3, <1>4
<1>6. \A i \in 1 .. g : prev[i] = next[i]
  <2> SUFFICES ASSUME NEW i \in 1 .. g PROVE prev[i] = next[i]
    OBVIOUS
  <2>1. i \in 1 .. Len(t) - h + 1 /\ i \in 1 .. Len(u) - h + 1 /\ h + i - 1 \in 1 .. p
    BY <1>1, <1>2
  <2>2. QED
    BY <1>2, <1>3, <1>4, <2>1
<1>7. g = Len(prev) \/ g = Len(next) \/ prev[g + 1] # next[g + 1]
  <2> SUFFICES ASSUME g # Len(prev), g # Len(next) PROVE prev[g + 1] # next[g + 1]
    OBVIOUS
  <2>0. p < Len(t) /\ p < Len(u)
    <3>1. p # Len(t) /\ p # Len(u)
      BY <1>3, <1>4
    <3>2. QED
      BY <1>1, <1>2, <3>1
  <2>1. p # Len(t) /\ p # Len(u) /\ h + (g + 1) - 1 = p + 1
        /\ g + 1 \in 1 .. Len(t) - h + 1 /\ g + 1 \in 1 .. Len(u) - h + 1
    BY <1>1, <1>2, <2>0
  <2>2. prev[g + 1] = t[p + 1] /\ next[g + 1] = u[p + 1]
    BY <1>3, <1>4, <2>1
  <2>3. QED
    BY <1>2, <2>1, <2>2
<1>8. AgreeUpTo(prev, next, g)
  BY <1>5, <1>6, <1>7 DEF AgreeUpTo
<1> HIDE DEF g
<1>9. Common(prev, next) = g
  BY <1>3, <1>4, <1>5, <1>8, CommonIs
<1>10. A = SubSeq(next, g + 1, Len(next))
  BY <1>9 DEF Added
<1> HIDE DEF A
<1>11. g + 1 \in Int /\ g + 1 >= 1 /\ Len(next) \in Int /\ Len(next) <= Len(next)
  BY <1>1, <1>4, <1>5
<1>12. /\ A \in Seq(Known) /\ Len(A) = (IF g + 1 <= Len(next) THEN Len(next) - (g + 1) + 1 ELSE 0)
       /\ \A i \in 1 .. Len(next) - (g + 1) + 1 : A[i] = next[g + 1 + i - 1]
  BY <1>4, <1>10, <1>11, Piece
<1>13. Len(A) = Len(u) - p
  BY <1>1, <1>2, <1>4, <1>12 DEF g
<1>14. ASSUME NEW i \in 1 .. Len(u) - p PROVE A[i] = u[p + i]
  <2>1. i \in 1 .. Len(next) - (g + 1) + 1
    BY <1>1, <1>2, <1>4 DEF g
  <2>2. g + 1 + i - 1 = g + i /\ g + i \in 1 .. Len(u) - h + 1 /\ h + (g + i) - 1 = p + i
    BY <1>1, <1>2 DEF g
  <2>3. A[i] = next[g + i]
    BY <1>12, <2>1, <2>2
  <2>4. next[g + i] = u[h + (g + i) - 1]
    BY <1>4, <2>2
  <2>5. QED
    BY <2>2, <2>3, <2>4
<1>15. QED
  BY <1>12, <1>13, <1>14 DEF LeadsUp, A, u, prev, next

\* Once what waits off the best chain is cut, the old and the new ones lead up to it.
LEMMA TurnKeepsWay ==
  ASSUME NEW q \in Seq(Item), NEW A \in Seq(Known), NEW b \in Known, NEW c \in Known,
         NEW f \in Known, NEW p \in Nat, NEW m \in Int, m >= 0, m <= Len(Trail[b]),
         NEW z \in Int, NEW pend,
         ForkAt(p, b, c, f), z = IF m <= p THEN m ELSE p,
         OnTheirWay(q, 1, pend, b, m), NoneLags(q, pend, c), LeadsUp(A, c, p)
  PROVE  OnTheirWay(Cutting(q \o Asked(A), f, c), 1,
                    (pend \ {Trail[b][i] : i \in z + 1 .. m}) \cup Range(A), c, z)
<1> DEFINE t == Trail[b]
           u == Trail[c]
           h == Len(Trail[f])
           n == Len(q)
           Q == q \o Asked(A)
           W == Cutting(Q, f, c)
           P == (pend \ {t[i] : i \in z + 1 .. m}) \cup Range(A)
<1>1. /\ Len(t) \in Nat /\ Len(u) \in Nat /\ h \in Nat /\ h >= 1 /\ n \in Nat
      /\ Level(f) = h - 1
      /\ \A i \in 1 .. Len(t) : t[i] \in Known /\ Level(t[i]) = i - 1
      /\ \A i \in 1 .. Len(u) : u[i] \in Known /\ Level(u[i]) = i - 1
  BY TrailFacts, LenProperties DEF Level
<1>2. /\ p \in h .. Len(t) /\ p <= Len(u)
      /\ \A i \in 1 .. p : t[i] = u[i]
      /\ \A i \in p + 1 .. Len(t) : ~Under(t[i], c)
  BY DEF ForkAt
<1>3. /\ \A i \in 1 .. n : q[i].answer # "cut" =>
           q[i].block \in pend /\ \E k \in m + 1 .. Len(t) : q[i].block = t[k]
      /\ \A k \in m + 1 .. Len(t) :
           \E i \in 1 .. n : q[i].answer # "cut" /\ q[i].block = t[k]
      /\ \A i, j \in 1 .. n :
           i < j /\ q[i].answer # "cut" /\ q[j].answer # "cut" =>
             Level(q[i].block) < Level(q[j].block)
  BY DEF OnTheirWay
<1>a. Len(A) = Len(u) - p /\ \A i \in 1 .. Len(u) - p : A[i] = u[p + i]
  BY DEF LeadsUp
<1>b. \A i \in 1 .. n :
         q[i].answer = "there" /\ q[i].block \in pend => Under(q[i].block, c)
  BY DEF NoneLags
<1> HIDE DEF t, u, h, n
<1>4. /\ Asked(A) \in Seq(Item) /\ Len(Asked(A)) = Len(u) - p
      /\ \A i \in 1 .. Len(u) - p :
           Asked(A)[i].block = u[p + i] /\ Asked(A)[i].answer \in {"waits", "there"}
  BY <1>a, AskedFacts
<1>5. /\ Q \in Seq(Item) /\ Len(Q) = n + (Len(u) - p)
      /\ \A i \in 1 .. n + (Len(u) - p) : Q[i] = IF i <= n THEN q[i] ELSE Asked(A)[i - n]
  <2>1. /\ Q \in Seq(Item) /\ Len(Q) = Len(q) + Len(Asked(A))
        /\ \A i \in 1 .. Len(q) + Len(Asked(A)) : Q[i] = IF i <= Len(q) THEN q[i] ELSE Asked(A)[i - Len(q)]
    <3> DEFINE y == Asked(A)
    <3>1. y \in Seq(Item)
      BY <1>4
    <3> HIDE DEF y
    <3>2. /\ q \o y \in Seq(Item) /\ Len(q \o y) = Len(q) + Len(y)
          /\ \A i \in 1 .. Len(q) + Len(y) : (q \o y)[i] = IF i <= Len(q) THEN q[i] ELSE y[i - Len(q)]
      BY <3>1, ConcatProperties
    <3>3. QED
      BY <3>2 DEF y
  <2>2. QED
    BY <1>4, <2>1 DEF n
<1>6. \A i \in 1 .. Len(u) - p : u[p + i] \in Range(A)
  <2>1. Range(A) = {A[i] : i \in 1 .. Len(A)}
    BY RangeEquality
  <2>2. QED
    BY <1>a, <2>1
<1>7. /\ W \in Seq(Item) /\ Len(W) = Len(Q)
      /\ \A i \in 1 .. Len(Q) :
           /\ W[i].block = Q[i].block
           /\ W[i].answer = IF Q[i].answer = "waits" /\ Standing(Q[i].block, f, c) = "none"
                              THEN "cut" ELSE Q[i].answer
  <2> HIDE DEF Q
  <2>1. QED
    BY <1>5, CuttingFacts
<1>8. /\ \A i \in 1 .. Len(u) : Standing(u[i], f, c) # "none"
      /\ \A x \in Known :
           Level(x) > Level(f) /\ ~Under(x, c) => Standing(x, f, c) = "none"
  BY StandingFacts DEF u
<1> HIDE DEF Q, W
<1>9. \A i \in 1 .. n :
         /\ W[i].block = q[i].block
         /\ W[i].answer = IF q[i].answer = "waits" /\ Standing(q[i].block, f, c) = "none"
                            THEN "cut" ELSE q[i].answer
  <2> SUFFICES ASSUME NEW i \in 1 .. n
               PROVE  /\ W[i].block = q[i].block
                      /\ W[i].answer = IF q[i].answer = "waits" /\ Standing(q[i].block, f, c) = "none"
                                         THEN "cut" ELSE q[i].answer
    OBVIOUS
  <2>1. i \in 1 .. Len(Q) /\ i \in 1 .. n + (Len(u) - p) /\ i <= n
    BY <1>1, <1>2, <1>5
  <2>2. Q[i] = q[i]
    BY <1>5, <2>1
  <2>3. QED
    BY <1>7, <2>1, <2>2
<1>10. \A i \in 1 .. Len(u) - p :
         n + i \in 1 .. Len(W) /\ W[n + i].block = u[p + i] /\ W[n + i].answer # "cut"
  <2> SUFFICES ASSUME NEW i \in 1 .. Len(u) - p
               PROVE  n + i \in 1 .. Len(W) /\ W[n + i].block = u[p + i] /\ W[n + i].answer # "cut"
    OBVIOUS
  <2>1. /\ n + i \in 1 .. Len(Q) /\ n + i \in 1 .. n + (Len(u) - p) /\ ~(n + i <= n)
        /\ n + i - n = i /\ p + i \in 1 .. Len(u)
    BY <1>1, <1>2, <1>5
  <2>2. Q[n + i] = Asked(A)[i]
    <3> DEFINE j == n + i
    <3>1. j \in 1 .. n + (Len(u) - p) /\ ~(j <= n) /\ j - n = i
      BY <1>1, <2>1
    <3> HIDE DEF j
    <3>2. Q[j] = Asked(A)[i]
      BY <1>5, <3>1
    <3>3. QED
      BY <3>2 DEF j
  <2>3. Standing(Q[n + i].block, f, c) # "none" /\ Q[n + i].block = u[p + i]
        /\ Q[n + i].answer # "cut"
    BY <1>4, <1>8, <2>1, <2>2
  <2>4. QED
    BY <1>7, <2>1, <2>3
<1>11. ASSUME NEW i \in 1 .. n, W[i].answer # "cut"
       PROVE  /\ q[i].answer # "cut" /\ z = m /\ q[i].block \in pend
              /\ \E k \in m + 1 .. p : q[i].block = u[k]
  <2>1. q[i].answer # "cut" /\ ~(q[i].answer = "waits" /\ Standing(q[i].block, f, c) = "none")
    BY <1>9, <1>11
  <2>2. PICK k \in m + 1 .. Len(t) : q[i].block \in pend /\ q[i].block = t[k]
    BY <1>3, <2>1
  <2>3. k \in 1 .. Len(t) /\ t[k] \in Known /\ Level(t[k]) = k - 1
    BY <1>1, <2>2
  <2>4. k <= p
    <3> SUFFICES ASSUME k > p PROVE FALSE
      BY <1>2, <2>3
    <3>1. k \in p + 1 .. Len(t) /\ Level(t[k]) > Level(f)
      BY <1>1, <1>2, <2>3
    <3>2. ~Under(t[k], c)
      BY <1>2, <3>1
    <3>3. Standing(t[k], f, c) = "none"
      BY <1>8, <2>3, <3>1, <3>2
    <3>4. q[i].answer = "there"
      <4>1. q[i] \in Item
        BY ElementOfSeq DEF n
      <4>2. q[i].answer \in {"waits", "there", "cut"}
        BY <4>1 DEF Item
      <4>3. QED
        BY <2>1, <2>2, <3>3, <4>2
    <3>5. Under(q[i].block, c)
      BY <1>b, <2>2, <3>4
    <3>6. QED
      BY <2>2, <3>2, <3>5
  <2>5. k \in m + 1 .. p /\ m <= p /\ k \in 1 .. p
    BY <1>2, <2>2, <2>3, <2>4
  <2>6. QED
    BY <1>2, <2>1, <2>2, <2>5
<1>12. z \in 0 .. Len(u) /\ z <= p /\ z <= m
  BY <1>1, <1>2
<1>13. ASSUME NEW i \in 1 .. Len(W), W[i].answer # "cut"
       PROVE  W[i].block \in P /\ \E k \in z + 1 .. Len(u) : W[i].block = u[k]
  <2>1. CASE i <= n
    <3>1. i \in 1 .. n /\ W[i].block = q[i].block
      BY <1>9, <2>1
    <3>2. z = m /\ q[i].block \in pend /\ \E k \in m + 1 .. p : q[i].block = u[k]
      BY <1>11, <1>13, <3>1
    <3>3. z + 1 .. m = {}
      BY <3>2
    <3>4. q[i].block \in P
      BY <3>2, <3>3
    <3>5. \A k \in m + 1 .. p : k \in z + 1 .. Len(u)
      BY <1>1, <1>2, <3>2
    <3>6. QED
      BY <3>1, <3>2, <3>4, <3>5
  <2>2. CASE ~(i <= n)
    <3>1. i - n \in 1 .. Len(u) - p /\ n + (i - n) = i /\ p + (i - n) \in z + 1 .. Len(u)
      BY <1>1, <1>2, <1>5, <1>7, <1>12, <2>2
    <3>2. W[i].block = u[p + (i - n)]
      BY <1>10, <3>1
    <3>3. W[i].block \in P
      BY <1>6, <3>1, <3>2
    <3>4. QED
      BY <3>1, <3>2, <3>3
  <2>3. QED
    BY <2>1, <2>2
<1>14. ASSUME NEW k \in z + 1 .. Len(u)
       PROVE  \E i \in 1 .. Len(W) : W[i].answer # "cut" /\ W[i].block = u[k]
  <2>1. CASE k <= p
    <3>1. z = m /\ k \in m + 1 .. Len(t) /\ k \in 1 .. p /\ k \in 1 .. Len(u)
      BY <1>1, <1>2, <1>12, <2>1
    <3>2. PICK i \in 1 .. n : q[i].answer # "cut" /\ q[i].block = t[k]
      BY <1>3, <3>1
    <3>3. q[i].block = u[k] /\ Standing(u[k], f, c) # "none"
      BY <1>2, <1>8, <3>1, <3>2
    <3>4. W[i].answer # "cut" /\ W[i].block = u[k]
      BY <1>9, <3>2, <3>3
    <3>5. i \in 1 .. Len(W)
      BY <1>1, <1>2, <1>5, <1>7
    <3>6. QED
      BY <3>4, <3>5
  <2>2. CASE ~(k <= p)
    <3>1. k - p \in 1 .. Len(u) - p /\ p + (k - p) = k
      BY <1>1, <1>2, <1>12, <2>2
    <3>2. QED
      BY <1>10, <3>1
  <2>3. QED
    BY <2>1, <2>2
<1>15. ASSUME NEW i \in 1 .. Len(W), NEW j \in 1 .. Len(W), i < j,
              W[i].answer # "cut", W[j].answer # "cut"
       PROVE  Level(W[i].block) < Level(W[j].block)
  <2>1. CASE j <= n
    <3>1. i \in 1 .. n /\ j \in 1 .. n
      BY <1>1, <1>15, <2>1
    <3>2. q[i].answer # "cut" /\ q[j].answer # "cut"
      BY <1>11, <1>15, <3>1
    <3>3. W[i].block = q[i].block /\ W[j].block = q[j].block
      BY <1>9, <3>1
    <3>4. QED
      BY <1>3, <1>15, <3>1, <3>2, <3>3
  <2>2. CASE ~(j <= n)
    <3>1. /\ j - n \in 1 .. Len(u) - p /\ n + (j - n) = j /\ p + (j - n) \in 1 .. Len(u)
          /\ j - n >= 1
      BY <1>1, <1>2, <1>5, <1>7, <2>2
    <3>2. W[j].block = u[p + (j - n)]
      BY <1>10, <3>1
    <3>3. Level(W[j].block) = p + (j - n) - 1
      <4> DEFINE k == p + (j - n)
      <4>1. k \in 1 .. Len(u) /\ W[j].block = u[k]
        BY <3>1, <3>2
      <4> HIDE DEF k
      <4>2. Level(W[j].block) = k - 1
        BY <1>1, <4>1
      <4>3. QED
        BY <1>1, <3>1, <4>2 DEF k
    <3>4. CASE i <= n
      <4>1. i \in 1 .. n /\ W[i].block = q[i].block
        BY <1>9, <3>4
      <4>2. PICK k \in m + 1 .. p : q[i].block = u[k]
        BY <1>11, <1>15, <4>1
      <4>3. k \in 1 .. Len(u) /\ k <= p
        BY <1>1, <1>2, <4>2
      <4>4. Level(W[i].block) = k - 1
        BY <1>1, <4>1, <4>2, <4>3
      <4>5. k - 1 < p + (j - n) - 1
        BY <1>1, <1>2, <3>1, <4>3
      <4>6. QED
        BY <3>3, <4>4, <4>5
    <3>5. CASE ~(i <= n)
      <4>1. i - n \in 1 .. Len(u) - p /\ n + (i - n) = i /\ p + (i - n) \in 1 .. Len(u)
        BY <1>1, <1>2, <1>5, <1>7, <3>5
      <4>2. W[i].block = u[p + (i - n)]
        BY <1>10, <4>1
      <4>3. Level(W[i].block) = p + (i - n) - 1
        <5> DEFINE k == p + (i - n)
        <5>1. k \in 1 .. Len(u) /\ W[i].block = u[k]
          BY <4>1, <4>2
        <5> HIDE DEF k
        <5>2. Level(W[i].block) = k - 1
          BY <1>1, <5>1
        <5>3. QED
          BY <1>1, <4>1, <5>2 DEF k
      <4>4. p + (i - n) - 1 < p + (j - n) - 1
        BY <1>1, <1>15
      <4>5. QED
        BY <3>3, <4>3, <4>4
    <3>6. QED
      BY <3>4, <3>5
  <2>3. QED
    BY <2>1, <2>2
<1> HIDE DEF P
<1>16. OnTheirWay(W, 1, P, c, z)
  BY <1>13, <1>14, <1>15 DEF OnTheirWay, u
<1>17. QED
  BY <1>16 DEF W, Q, P, t

\* Another best chain: what the consumer lacks of it is on its way.
LEMMA TurnShows ==
  ASSUME NEW s \in StreamSet, NEW b \in Known, NEW c \in Known, NEW f \in Known,
         NEW n, NEW m, Under(f, b), Under(f, c), Shows(s, b, f, n, m),
         s.inners # <<>> => s.inners[1].answer = "waits",
         NoneLags(s.inners, s.pending, c)
  PROVE  \E k \in 0 .. Len(Trail[c]) :
           Shows(Cut(Diverge(s, Span(f, b), Span(f, c), f), f, c), c, f, n, k)
<1> DEFINE t == Trail[b]
           u == Trail[c]
           h == Len(Trail[f])
           prev == Span(f, b)
           next == Span(f, c)
           x == Cleared(s, next)
           A == Added(prev, next)
           y == [x EXCEPT !.pending = @ \cup Range(A), !.inners = @ \o Asked(A)]
           d == Flush(y, f)
           w == [d EXCEPT !.inners = Cutting(@, f, c)]
<1>1. Len(t) \in Nat /\ Len(u) \in Nat /\ h \in Nat /\ h >= 1
  BY TrailFacts
<1>2. Has(s, b, f, n, m) /\ OnTheirWay(s.inners, 1, s.pending, b, m)
  BY DEF Shows
<1>3. n \in 1 .. h /\ m \in n - 1 .. Len(t)
  BY <1>2 DEF Has
<1>4. PICK p \in Nat : ForkAt(p, b, c, f)
  BY ForkFacts
<1>5. p \in h .. Len(t) /\ p <= Len(u)
  BY <1>4 DEF ForkAt
<1> DEFINE q == IF m <= p THEN m ELSE p
<1>6. q \in Int /\ q >= 0 /\ q <= Len(u) /\ m \in Int /\ m >= 0 /\ m <= Len(t)
  BY <1>1, <1>3, <1>5
<1>7. prev \in Seq(Known) /\ next \in Seq(Known) /\ next # <<>>
  BY SpanFacts
<1>8. Diverge(s, prev, next, f) = Ask(x, A, f)
  <2> HIDE DEF prev, next, x, A
  <2>1. QED
    BY <1>7, DivergeTyped DEF x, A
<1>9. Ask(x, A, f) = d
  BY DEF Ask
<1>10. /\ Has(x, c, f, n, q)
       /\ x.pending = s.pending \ {t[i] : i \in q + 1 .. m}
  <2> HIDE DEF q
  <2>1. q = IF m <= p THEN m ELSE p
    BY DEF q
  <2>2. QED
    BY <1>2, <1>4, <2>1, ClearedShows
<1>11. x \in StreamSet /\ x.inners = s.inners
  <2> HIDE DEF next
  <2>1. QED
    BY <1>7, ClearedTyped
<1>12. A \in Seq(Known) /\ LeadsUp(A, c, p)
  BY <1>4, AddedFacts
<1> HIDE DEF x, A, prev, next
<1>13. /\ s.inners \in Seq(Item) /\ Asked(A) \in Seq(Item)
       /\ s.inners \o Asked(A) \in Seq(Item) /\ Range(A) \subseteq Known
  <2>1. s.inners \in Seq(Item) /\ Asked(A) \in Seq(Item)
    BY <1>12, AskedFacts DEF StreamSet
  <2>2. s.inners \o Asked(A) \in Seq(Item)
    BY <2>1, ConcatProperties
  <2>3. Range(A) \subseteq Known
    BY <1>12, RangeEquality, ElementOfSeq
  <2>4. QED
    BY <2>1, <2>2, <2>3
<1>14. /\ y \in StreamSet /\ y.pending = x.pending \cup Range(A)
       /\ y.inners = s.inners \o Asked(A) /\ y.view = x.view /\ y.emitted = x.emitted
       /\ y.settled = x.settled
  BY <1>11, <1>13 DEF StreamSet
<1> HIDE DEF y
<1>15. Has(y, c, f, n, q)
  BY <1>10, <1>14 DEF Has
<1>16. d \in StreamSet
  BY <1>14, FlushTyped
<1> HIDE DEF d
<1>17. OnTheirWay(Cutting(s.inners \o Asked(A), f, c), 1, y.pending, c, q)
  <2> HIDE DEF q
  <2>1. q = IF m <= p THEN m ELSE p
    BY DEF q
  <2>2. OnTheirWay(Cutting(s.inners \o Asked(A), f, c), 1,
                   (s.pending \ {Trail[b][i] : i \in q + 1 .. m}) \cup Range(A), c, q)
    <3> HIDE DEF t
    <3>1. m <= Len(Trail[b])
      BY <1>6 DEF t
    <3>2. QED
      BY <1>2, <1>4, <1>6, <1>12, <1>13, <2>1, <3>1, TurnKeepsWay
  <2>3. QED
    BY <1>10, <1>14, <2>2
<1> HIDE DEF q
<1>18. /\ w \in StreamSet /\ w.inners = Cutting(d.inners, f, c) /\ w.pending = d.pending
       /\ w.view = d.view /\ w.emitted = d.emitted /\ w.settled = d.settled
       /\ Cut(d, f, c) = Flush(w, f)
  <2>1. w \in StreamSet /\ Cut(d, f, c) = Flush(w, f)
    BY <1>16, CutTyped
  <2>2. QED
    BY <1>16, <2>1 DEF StreamSet
<1> HIDE DEF w
<1>19. \E k \in q .. Len(u) : Shows(w, c, f, n, k)
  <2>1. CASE s.inners # <<>>
    <3>1. y.inners # <<>> /\ y.inners[1].answer = "waits"
      <4> DEFINE v == s.inners
                 a == Asked(A)
      <4>1. v \in Seq(Item) /\ a \in Seq(Item) /\ v # <<>> /\ v[1].answer = "waits"
        BY <1>13, <2>1
      <4> HIDE DEF v, a
      <4>2. /\ Len(v \o a) = Len(v) + Len(a) /\ Len(v) \in Nat /\ Len(a) \in Nat /\ Len(v) # 0
            /\ \A i \in 1 .. Len(v) + Len(a) : (v \o a)[i] = IF i <= Len(v) THEN v[i] ELSE a[i - Len(v)]
            /\ v \o a \in Seq(Item)
        BY <4>1, ConcatProperties, LenProperties, EmptySeq
      <4>3. 1 \in 1 .. Len(v) + Len(a) /\ 1 <= Len(v) /\ Len(v \o a) # 0
        BY <4>2
      <4>4. (v \o a)[1] = v[1]
        BY <4>2, <4>3
      <4>5. v \o a # <<>>
        BY <4>2, <4>3, EmptySeq
      <4>6. QED
        BY <1>14, <4>1, <4>4, <4>5 DEF v, a
    <3>2. /\ d.inners = y.inners /\ d.pending = y.pending /\ d.emitted = y.emitted
          /\ d.view = y.view /\ d.settled = y.settled
      BY <1>14, <3>1, FlushNothing DEF d
    <3>3. Has(w, c, f, n, q)
      BY <1>15, <1>18, <3>2 DEF Has
    <3>4. OnTheirWay(w.inners, 1, w.pending, c, q)
      BY <1>14, <1>17, <1>18, <3>2
    <3>5. q \in q .. Len(u)
      BY <1>1, <1>6
    <3>6. QED
      BY <3>3, <3>4, <3>5 DEF Shows
  <2>2. CASE s.inners = <<>>
    <3>1. y.inners = Asked(A)
      BY <1>13, <1>14, <2>2, ConcatEmptySeq
    <3>2. m = Len(t)
      <4> SUFFICES ASSUME m # Len(t) PROVE FALSE
        OBVIOUS
      <4>1. Len(t) \in m + 1 .. Len(t)
        BY <1>1, <1>6
      <4>2. \E i \in 1 .. Len(s.inners) : TRUE
        BY <1>2, <4>1 DEF OnTheirWay
      <4>3. Len(s.inners) = 0
        BY <2>2
      <4>4. QED
        BY <4>2, <4>3
    <3>3. q = p
      BY <1>1, <1>5, <3>2 DEF q
    <3>4. OnTheirWay(y.inners, 1, y.pending, c, q)
      <4> DEFINE a == Asked(A)
      <4>1. /\ Len(A) = Len(u) - p /\ \A i \in 1 .. Len(u) - p : A[i] = u[p + i]
        BY <1>12 DEF LeadsUp
      <4>2. /\ Len(a) = Len(u) - p
            /\ \A i \in 1 .. Len(u) - p : a[i].block = u[p + i] /\ a[i].answer # "cut"
        <5>1. /\ Len(a) = Len(A)
              /\ \A i \in 1 .. Len(A) : a[i].block = A[i] /\ a[i].answer \in {"waits", "there"}
          BY <1>12, AskedFacts
        <5>2. QED
          BY <4>1, <5>1
      <4>3. \A i \in 1 .. Len(u) - p : u[p + i] \in y.pending
        <5>1. Range(A) = {A[i] : i \in 1 .. Len(A)}
          BY <1>12, RangeEquality
        <5>2. \A i \in 1 .. Len(u) - p : u[p + i] \in Range(A)
          BY <4>1, <5>1
        <5>3. QED
          BY <1>14, <5>2
      <4>4. \A i \in 1 .. Len(u) : Level(u[i]) = i - 1
        BY TrailFacts DEF Level
      <4> HIDE DEF a, u
      <4>5. \A i \in 1 .. Len(u) - p : p + i \in p + 1 .. Len(u) /\ p + i \in 1 .. Len(u)
        BY <1>1, <1>5
      <4>6. \A i \in 1 .. Len(a) : a[i].answer # "cut" =>
              a[i].block \in y.pending /\ \E k \in p + 1 .. Len(u) : a[i].block = u[k]
        BY <4>2, <4>3, <4>5
      <4>7. ASSUME NEW k \in p + 1 .. Len(u)
            PROVE  \E i \in 1 .. Len(a) : a[i].answer # "cut" /\ a[i].block = u[k]
        <5>1. k - p \in 1 .. Len(u) - p /\ p + (k - p) = k
          BY <1>1, <1>5
        <5>2. QED
          BY <4>2, <5>1
      <4>8. ASSUME NEW i \in 1 .. Len(a), NEW j \in 1 .. Len(a), i < j
            PROVE  Level(a[i].block) < Level(a[j].block)
        <5>1. a[i].block = u[p + i] /\ a[j].block = u[p + j]
          BY <4>2
        <5>2. Level(u[p + i]) = p + i - 1 /\ Level(u[p + j]) = p + j - 1
          BY <4>2, <4>4, <4>5
        <5>3. p + i - 1 < p + j - 1
          BY <4>2, <4>8, <1>1, <1>5
        <5>4. QED
          BY <5>1, <5>2, <5>3
      <4>9. OnTheirWay(a, 1, y.pending, c, p)
        BY <4>6, <4>7, <4>8 DEF OnTheirWay, u
      <4>10. QED
        BY <3>1, <3>3, <4>9 DEF a
    <3>5. PICK k \in q .. Len(u) : Shows(d, c, f, n, k)
      <4>1. Shows(y, c, f, n, q)
        BY <1>15, <3>4 DEF Shows
      <4>2. QED
        BY <1>14, <4>1, FlushShows DEF d
    <3>6. Has(d, c, f, n, k) /\ OnTheirWay(d.inners, 1, d.pending, c, k)
      BY <3>5 DEF Shows
    <3>7. OnTheirWay(Cutting(d.inners, f, c), 1, d.pending, c, k)
      <4>1. k \in Int /\ k >= 0 /\ d.inners \in Seq(Item)
        BY <1>6, <1>16, <3>5 DEF StreamSet
      <4>2. QED
        BY <3>6, <4>1, CuttingKeeps
    <3>8. Has(w, c, f, n, k) /\ OnTheirWay(w.inners, 1, w.pending, c, k)
      BY <1>18, <3>6, <3>7 DEF Has
    <3>9. QED
      BY <3>5, <3>8 DEF Shows
  <2>3. QED
    BY <2>1, <2>2
<1>20. PICK k \in q .. Len(u) : Shows(w, c, f, n, k)
  BY <1>19
<1>21. \E l \in k .. Len(u) : Shows(Flush(w, f), c, f, n, l)
  BY <1>18, <1>20, FlushShows
<1>22. \A l \in k .. Len(u) : l \in 0 .. Len(u)
  BY <1>1, <1>6, <1>20
<1>23. QED
  BY <1>8, <1>9, <1>18, <1>21, <1>22 DEF prev, next

\* The blocks of a queue.
LEMMA BlocksFacts ==
  ASSUME NEW q \in Seq(Item)
  PROVE  /\ BlocksOf(q) \in Seq(Known) /\ Len(BlocksOf(q)) = Len(q)
         /\ \A i \in 1 .. Len(q) : BlocksOf(q)[i] = q[i].block
<1>1. Len(q) \in Nat /\ DOMAIN q = 1 .. Len(q) /\ \A i \in 1 .. Len(q) : q[i] \in Item
  BY LenProperties, ElementOfSeq
<1>2. \A i \in 1 .. Len(q) : q[i].block \in Known
  BY <1>1 DEF Item
<1>3. BlocksOf(q) \in [1 .. Len(q) -> Known] /\ \A i \in 1 .. Len(q) : BlocksOf(q)[i] = q[i].block
  BY <1>1, <1>2 DEF BlocksOf
<1>4. QED
  BY <1>1, <1>3

\* What goes on and what stays behind are the queue.
LEMMA BlocksGoOn ==
  ASSUME NEW w \in Seq(Known), NEW q \in Seq(Item)
  PROVE  /\ w \o BlocksOf(Ready(q)) \in Seq(Known) /\ Behind(q) \in Seq(Item)
         /\ (w \o BlocksOf(Ready(q))) \o BlocksOf(Behind(q)) = w \o BlocksOf(q)
<1> DEFINE x == BlocksOf(Ready(q))
           y == BlocksOf(Behind(q))
           z == BlocksOf(q)
<1>1. PICK r \in 0 .. Len(q) :
         /\ Ready(q) \in Seq(Item) /\ Len(Ready(q)) = r
         /\ \A i \in 1 .. r : Ready(q)[i] = q[i]
         /\ Behind(q) \in Seq(Item) /\ Len(Behind(q)) = Len(q) - r
         /\ \A i \in 1 .. Len(q) - r : Behind(q)[i] = q[r + i]
  BY ReadyFacts
<1>2. Len(q) \in Nat
  BY LenProperties
<1>3. /\ x \in Seq(Known) /\ Len(x) = r /\ \A i \in 1 .. r : x[i] = q[i].block
  <2>1. /\ x \in Seq(Known) /\ Len(x) = Len(Ready(q))
        /\ \A i \in 1 .. Len(Ready(q)) : x[i] = Ready(q)[i].block
    BY <1>1, BlocksFacts
  <2>2. QED
    BY <1>1, <2>1
<1>4. /\ y \in Seq(Known) /\ Len(y) = Len(q) - r
      /\ \A i \in 1 .. Len(q) - r : y[i] = q[r + i].block
  <2>1. /\ y \in Seq(Known) /\ Len(y) = Len(Behind(q))
        /\ \A i \in 1 .. Len(Behind(q)) : y[i] = Behind(q)[i].block
    BY <1>1, BlocksFacts
  <2>2. QED
    BY <1>1, <2>1
<1>5. z \in Seq(Known) /\ Len(z) = Len(q) /\ \A i \in 1 .. Len(q) : z[i] = q[i].block
  BY BlocksFacts
<1> HIDE DEF x, y, z
<1>6. x \o y = z
  <2>1. /\ x \o y \in Seq(Known) /\ Len(x \o y) = Len(x) + Len(y)
        /\ \A i \in 1 .. Len(x) + Len(y) : (x \o y)[i] = IF i <= Len(x) THEN x[i] ELSE y[i - Len(x)]
    BY <1>3, <1>4, ConcatProperties
  <2>2. Len(x \o y) = Len(q) /\ Len(x) + Len(y) = Len(q) /\ Len(x) = r
    BY <1>2, <1>3, <1>4, <2>1
  <2>3. ASSUME NEW i \in 1 .. Len(q) PROVE (x \o y)[i] = z[i]
    <3>0. (x \o y)[i] = IF i <= r THEN x[i] ELSE y[i - r]
      BY <2>1, <2>2
    <3>1. CASE i <= r
      <4>1. i \in 1 .. r
        BY <3>1
      <4>2. QED
        BY <1>3, <1>5, <3>0, <3>1, <4>1
    <3>2. CASE ~(i <= r)
      <4>1. i - r \in 1 .. Len(q) - r /\ r + (i - r) = i
        BY <1>2, <3>2
      <4>2. y[i - r] = q[r + (i - r)].block
        BY <1>4, <4>1
      <4>3. QED
        BY <1>5, <3>0, <3>2, <4>1, <4>2
    <3>3. QED
      BY <3>1, <3>2
  <2>4. QED
    BY <1>5, <2>1, <2>2, <2>3, SeqEqual
<1>7. (w \o x) \o y = w \o (x \o y) /\ w \o x \in Seq(Known)
  <2>1. w \in Seq(Known) /\ x \in Seq(Known) /\ y \in Seq(Known)
    BY <1>3, <1>4
  <2>2. (w \o x) \o y = w \o (x \o y)
    BY <2>1, ConcatAssociative
  <2>3. w \o x \in Seq(Known)
    BY <2>1, ConcatProperties
  <2>4. QED
    BY <2>2, <2>3
<1>8. QED
  BY <1>1, <1>6, <1>7 DEF x, y, z

\* Asking for further blocks.
LEMMA BlocksAsked ==
  ASSUME NEW q \in Seq(Item), NEW A \in Seq(Known)
  PROVE  q \o Asked(A) \in Seq(Item) /\ BlocksOf(q \o Asked(A)) = BlocksOf(q) \o A
<1> DEFINE a == Asked(A)
           x == BlocksOf(q \o a)
           y == BlocksOf(q)
<1>1. /\ Len(q) \in Nat /\ Len(A) \in Nat
  BY LenProperties
<1>2. a \in Seq(Item) /\ Len(a) = Len(A) /\ \A i \in 1 .. Len(A) : a[i].block = A[i]
  BY AskedFacts
<1> HIDE DEF a
<1>3. /\ q \o a \in Seq(Item) /\ Len(q \o a) = Len(q) + Len(a)
      /\ \A i \in 1 .. Len(q) + Len(a) : (q \o a)[i] = IF i <= Len(q) THEN q[i] ELSE a[i - Len(q)]
  <2>1. q \in Seq(Item) /\ a \in Seq(Item)
    BY <1>2
  <2>2. QED
    BY <2>1, ConcatProperties
<1>4. x \in Seq(Known) /\ Len(x) = Len(q \o a) /\ \A i \in 1 .. Len(q \o a) : x[i] = (q \o a)[i].block
  BY <1>3, BlocksFacts
<1>5. y \in Seq(Known) /\ Len(y) = Len(q) /\ \A i \in 1 .. Len(q) : y[i] = q[i].block
  BY BlocksFacts
<1> HIDE DEF x, y
<1>6. /\ y \o A \in Seq(Known) /\ Len(y \o A) = Len(y) + Len(A)
      /\ \A i \in 1 .. Len(y) + Len(A) : (y \o A)[i] = IF i <= Len(y) THEN y[i] ELSE A[i - Len(y)]
  BY <1>5, ConcatProperties
<1>7. ASSUME NEW i \in 1 .. Len(q) + Len(A) PROVE x[i] = (y \o A)[i]
  <2>1. x[i] = (q \o a)[i].block /\ (q \o a)[i] = (IF i <= Len(q) THEN q[i] ELSE a[i - Len(q)])
        /\ (y \o A)[i] = IF i <= Len(q) THEN y[i] ELSE A[i - Len(q)]
    BY <1>2, <1>3, <1>4, <1>5, <1>6
  <2>2. CASE i <= Len(q)
    BY <1>1, <1>5, <2>1, <2>2
  <2>3. CASE ~(i <= Len(q))
    <3>1. i - Len(q) \in 1 .. Len(A)
      BY <1>1, <2>3
    <3>2. QED
      BY <1>2, <2>1, <2>3, <3>1
  <2>4. QED
    BY <2>2, <2>3
<1>8. x = y \o A
  <2>1. Len(x) = Len(q) + Len(A) /\ Len(y \o A) = Len(q) + Len(A)
    BY <1>2, <1>3, <1>4, <1>5, <1>6
  <2>2. QED
    BY <1>4, <1>6, <1>7, <2>1, SeqEqual
<1>9. QED
  BY <1>3, <1>8 DEF x, y, a

LEMMA PutFacts ==
  ASSUME NEW q \in Seq(Item), NEW b
  PROVE  /\ Put(q, b) \in Seq(Item) /\ Len(Put(q, b)) = Len(q)
         /\ \A i \in 1 .. Len(q) :
              /\ Put(q, b)[i].block = q[i].block
              /\ Put(q, b)[i].answer = "cut" <=> q[i].answer = "cut"
         /\ BlocksOf(Put(q, b)) = BlocksOf(q)
<1> DEFINE w == Put(q, b)
<1>1. Len(q) \in Nat /\ DOMAIN q = 1 .. Len(q) /\ \A i \in 1 .. Len(q) : q[i] \in Item
  BY LenProperties, ElementOfSeq
<1>2. DOMAIN w = 1 .. Len(q)
      /\ \A i \in 1 .. Len(q) :
           w[i] = IF q[i].block = b /\ q[i].answer = "waits"
                    THEN [q[i] EXCEPT !.answer = "there"] ELSE q[i]
  BY <1>1 DEF Put
<1>3. ASSUME NEW i \in 1 .. Len(q)
      PROVE  /\ w[i] \in Item /\ w[i].block = q[i].block
             /\ w[i].answer = "cut" <=> q[i].answer = "cut"
  <2> DEFINE x == q[i]
  <2>1. x \in Item
    BY <1>1
  <2> HIDE DEF x
  <2>2. /\ [x EXCEPT !.answer = "there"] \in Item
        /\ [x EXCEPT !.answer = "there"].block = x.block
        /\ [x EXCEPT !.answer = "there"].answer = "there"
    BY <2>1 DEF Item
  <2>3. w[i] = IF x.block = b /\ x.answer = "waits"
                 THEN [x EXCEPT !.answer = "there"] ELSE x
    BY <1>2 DEF x
  <2> HIDE DEF w
  <2>4. QED
    BY <2>1, <2>2, <2>3 DEF x
<1>4. w \in [1 .. Len(q) -> Item]
  BY <1>1, <1>2, <1>3 DEF Put
<1>5. w \in Seq(Item) /\ Len(w) = Len(q)
  BY <1>1, <1>4
<1> HIDE DEF w
<1>6. BlocksOf(w) = BlocksOf(q)
  <2>1. /\ BlocksOf(w) \in Seq(Known) /\ Len(BlocksOf(w)) = Len(w)
        /\ \A i \in 1 .. Len(w) : BlocksOf(w)[i] = w[i].block
    BY <1>5, BlocksFacts
  <2>2. /\ BlocksOf(q) \in Seq(Known) /\ Len(BlocksOf(q)) = Len(q)
        /\ \A i \in 1 .. Len(q) : BlocksOf(q)[i] = q[i].block
    BY BlocksFacts
  <2>3. \A i \in 1 .. Len(q) : BlocksOf(w)[i] = BlocksOf(q)[i]
    BY <1>3, <1>5, <2>1, <2>2
  <2>4. QED
    BY <1>5, <2>1, <2>2, <2>3, SeqEqual
<1>7. QED
  BY <1>3, <1>5, <1>6 DEF w

LEMMA PutKeepsWay ==
  ASSUME NEW q \in Seq(Item), NEW b, NEW pend, NEW c \in Known, NEW m,
         OnTheirWay(q, 1, pend, c, m)
  PROVE  OnTheirWay(Put(q, b), 1, pend, c, m)
<1> DEFINE w == Put(q, b)
           u == Trail[c]
<1>1. /\ Len(w) = Len(q)
      /\ \A i \in 1 .. Len(q) :
           w[i].block = q[i].block /\ (w[i].answer = "cut" <=> q[i].answer = "cut")
  BY PutFacts
<1>2. /\ \A i \in 1 .. Len(q) : q[i].answer # "cut" =>
           q[i].block \in pend /\ \E k \in m + 1 .. Len(u) : q[i].block = u[k]
      /\ \A k \in m + 1 .. Len(u) :
           \E i \in 1 .. Len(q) : q[i].answer # "cut" /\ q[i].block = u[k]
      /\ \A i, j \in 1 .. Len(q) :
           i < j /\ q[i].answer # "cut" /\ q[j].answer # "cut" =>
             Level(q[i].block) < Level(q[j].block)
  BY DEF OnTheirWay
<1> HIDE DEF w, u
<1>3. ASSUME NEW i \in 1 .. Len(w), w[i].answer # "cut"
      PROVE  w[i].block \in pend /\ \E k \in m + 1 .. Len(u) : w[i].block = u[k]
  <2>1. i \in 1 .. Len(q) /\ w[i].block = q[i].block /\ q[i].answer # "cut"
    BY <1>1, <1>3
  <2>2. q[i].block \in pend /\ \E k \in m + 1 .. Len(u) : q[i].block = u[k]
    BY <1>2, <2>1
  <2>3. QED
    BY <2>1, <2>2
<1>4. \A k \in m + 1 .. Len(u) :
         \E i \in 1 .. Len(w) : w[i].answer # "cut" /\ w[i].block = u[k]
  <2> SUFFICES ASSUME NEW k \in m + 1 .. Len(u)
               PROVE  \E i \in 1 .. Len(w) : w[i].answer # "cut" /\ w[i].block = u[k]
    OBVIOUS
  <2>1. PICK i \in 1 .. Len(q) : q[i].answer # "cut" /\ q[i].block = u[k]
    BY <1>2
  <2>2. QED
    BY <1>1, <2>1
<1>5. ASSUME NEW i \in 1 .. Len(w), NEW j \in 1 .. Len(w), i < j,
             w[i].answer # "cut", w[j].answer # "cut"
      PROVE  Level(w[i].block) < Level(w[j].block)
  BY <1>1, <1>2, <1>5
<1>6. QED
  BY <1>3, <1>4, <1>5 DEF OnTheirWay, w, u

\* A path to f goes on to a block above it.
LEMMA LeadsOn ==
  ASSUME NEW w \in Seq(Known), NEW f \in Known, NEW g \in Known, NEW gaps, NEW more,
         LeadsTo(w, f, gaps), Under(f, g), gaps => more,
         NEW a \in Len(Trail[f]) + 1 .. Len(Trail[g]), ~more => a = Len(Trail[f]) + 1
  PROVE  LeadsTo(w \o SubSeq(Trail[g], a, Len(Trail[g])), g, more)
<1> DEFINE t == Trail[g]
           h == Len(Trail[f])
           n == Len(w)
           A == SubSeq(t, a, Len(t))
           x == w \o A
<1>1. /\ t \in Seq(Known) /\ Len(t) \in Nat /\ h \in Nat /\ h >= 1 /\ n \in Nat
      /\ t[Len(t)] = g
      /\ \A i \in 1 .. Len(t) : /\ t[i] \in Known /\ Under(t[i], g) /\ Len(Trail[t[i]]) = i
                                /\ i > 1 => ParentIn[t[i]] = t[i - 1]
  BY TrailFacts, UnderFacts, LenProperties
<1>2. h <= Len(t) /\ t[h] = f
  BY UnderFacts
<1>3. /\ n > 0 /\ w[n] = f
      /\ \A i \in 1 .. n : Under(w[i], f) /\ w[i] \in Known
      /\ \A i \in 2 .. n :
           /\ w[i] # w[i - 1] /\ Under(w[i - 1], w[i])
           /\ ~gaps => ParentIn[w[i]] = w[i - 1]
  BY ElementOfSeq DEF LeadsTo
<1> HIDE DEF t, h, n, A
<1>4. a \in Int /\ a >= 1 /\ a <= Len(t) /\ h + 1 <= a
  BY <1>1 DEF t, h
<1>5. /\ A \in Seq(Known) /\ Len(A) = Len(t) - a + 1
      /\ \A i \in 1 .. Len(t) - a + 1 : A[i] = t[a + i - 1]
  BY <1>1, <1>4, Piece DEF A
<1>6. /\ x \in Seq(Known) /\ Len(x) = n + Len(A)
      /\ \A i \in 1 .. n + Len(A) : x[i] = IF i <= n THEN w[i] ELSE A[i - n]
  BY <1>5, ConcatProperties DEF n
<1> HIDE DEF x
<1> DEFINE l == n + (Len(t) - a + 1)
<1>7. /\ Len(x) = l /\ l \in Nat
      /\ \A i \in 1 .. n : x[i] = w[i]
  BY <1>1, <1>4, <1>5, <1>6
<1>8. ASSUME NEW i \in n + 1 .. l
      PROVE  /\ x[i] = t[a + (i - n) - 1] /\ a + (i - n) - 1 \in a .. Len(t)
             /\ i - 1 > n => x[i - 1] = t[a + (i - n) - 2]
  <2>1. i - n \in 1 .. Len(t) - a + 1 /\ i \in 1 .. n + Len(A) /\ ~(i <= n)
    BY <1>1, <1>4, <1>5
  <2>2. x[i] = A[i - n]
    BY <1>6, <2>1
  <2>3. A[i - n] = t[a + (i - n) - 1]
    BY <1>5, <2>1
  <2>4. ASSUME i - 1 > n PROVE x[i - 1] = t[a + (i - n) - 2]
    <3> DEFINE j == i - 1
    <3>1. j - n \in 1 .. Len(t) - a + 1 /\ j \in 1 .. n + Len(A) /\ ~(j <= n)
      BY <1>1, <1>4, <2>1, <2>4
    <3> HIDE DEF j
    <3>2. x[j] = A[j - n]
      BY <1>6, <3>1
    <3>3. A[j - n] = t[a + (j - n) - 1]
      BY <1>5, <3>1
    <3>4. a + (j - n) - 1 = a + (i - n) - 2
      BY <1>1, <1>4 DEF j
    <3>5. QED
      BY <3>2, <3>3, <3>4 DEF j
  <2>5. a + (i - n) - 1 \in a .. Len(t)
    BY <1>1, <1>4, <2>1
  <2>6. QED
    BY <2>2, <2>3, <2>4, <2>5
<1>9. l \in n + 1 .. l /\ l > 0 /\ a + (l - n) - 1 = Len(t)
  BY <1>1, <1>4
<1> HIDE DEF l
<1>10. x[l] = g
  BY <1>1, <1>8, <1>9
<1>11. ASSUME NEW i \in 1 .. l PROVE Under(x[i], g)
  <2>1. CASE i <= n
    <3>1. i \in 1 .. n
      BY <1>1, <2>1
    <3>2. x[i] = w[i] /\ Under(w[i], f) /\ w[i] \in Known
      BY <1>3, <1>7, <3>1
    <3>3. QED
      BY <3>2, UnderFacts
  <2>2. CASE ~(i <= n)
    <3>1. i \in n + 1 .. l
      BY <1>1, <1>7, <2>2
    <3>2. x[i] = t[a + (i - n) - 1] /\ a + (i - n) - 1 \in 1 .. Len(t)
      BY <1>1, <1>4, <1>8, <3>1
    <3>3. QED
      BY <1>1, <3>2
  <2>3. QED
    BY <2>1, <2>2
<1>12. ASSUME NEW i \in 2 .. l
       PROVE  /\ x[i] # x[i - 1] /\ Under(x[i - 1], x[i])
              /\ ~more => ParentIn[x[i]] = x[i - 1]
  <2>1. CASE i <= n
    <3>1. i \in 2 .. n /\ i \in 1 .. n /\ i - 1 \in 1 .. n
      BY <1>1, <2>1
    <3>2. x[i] = w[i] /\ x[i - 1] = w[i - 1]
      BY <1>7, <3>1
    <3>3. QED
      BY <1>3, <3>1, <3>2
  <2>2. CASE i = n + 1
    <3>1. i \in n + 1 .. l /\ a + (i - n) - 1 = a /\ i - 1 = n /\ n \in 1 .. n
      BY <1>1, <1>3, <1>4, <1>7, <2>2
    <3>2. x[i] = t[a] /\ x[i - 1] = f /\ a \in 1 .. Len(t) /\ h \in 1 .. Len(t)
      BY <1>1, <1>2, <1>3, <1>4, <1>7, <1>8, <3>1
    <3>3. Len(Trail[t[a]]) = a /\ Len(Trail[f]) = h /\ t[a] \in Known
      BY <1>1, <3>2 DEF h
    <3>4. x[i] # x[i - 1]
      BY <1>1, <1>4, <3>2, <3>3
    <3>5. Under(f, t[a])
      <4>1. Trail[t[a]][h] = t[h]
        <5>1. h \in 1 .. a
          BY <1>1, <1>4
        <5>2. QED
          BY <3>2, <5>1, TrailFacts DEF t
      <4>2. Len(Trail[f]) <= Len(Trail[t[a]]) /\ Trail[t[a]][Len(Trail[f])] = f
        BY <1>1, <1>2, <1>4, <3>3, <4>1
      <4>3. QED
        BY <3>3, <4>2, UnderFacts
    <3>6. ~more => ParentIn[t[a]] = f
      <4>1. ~more => a = h + 1
        BY DEF h
      <4>2. a > 1 /\ ParentIn[t[a]] = t[a - 1]
        BY <1>1, <1>4, <3>2
      <4>3. a = h + 1 => a - 1 = h
        BY <1>1
      <4>4. QED
        BY <1>2, <4>1, <4>2, <4>3
    <3>7. QED
      BY <3>2, <3>4, <3>5, <3>6
  <2>3. CASE i > n + 1
    <3> DEFINE k == a + (i - n) - 1
    <3>1. i \in n + 1 .. l /\ i - 1 > n /\ k - 1 = a + (i - n) - 2
      BY <1>1, <1>4, <1>7, <2>3
    <3>2. x[i] = t[k] /\ x[i - 1] = t[k - 1] /\ k \in 1 .. Len(t) /\ k - 1 \in 1 .. Len(t) /\ k > 1
      BY <1>1, <1>4, <1>8, <2>3, <3>1
    <3> HIDE DEF k
    <3>3. Len(Trail[t[k]]) = k /\ Len(Trail[t[k - 1]]) = k - 1 /\ ParentIn[t[k]] = t[k - 1]
          /\ t[k] \in Known /\ t[k - 1] \in Known
      BY <1>1, <3>2
    <3>4. Trail[t[k]][k - 1] = t[k - 1]
      <4>1. k - 1 \in 1 .. k
        BY <3>2
      <4>2. QED
        BY <3>2, <4>1, TrailFacts DEF t
    <3>5. Under(t[k - 1], t[k]) /\ t[k] # t[k - 1]
      <4>1. k - 1 <= k /\ k # k - 1
        BY <3>2
      <4>2. Len(Trail[t[k - 1]]) <= Len(Trail[t[k]]) /\ Trail[t[k]][Len(Trail[t[k - 1]])] = t[k - 1]
        BY <3>3, <3>4, <4>1
      <4>3. Under(t[k - 1], t[k])
        BY <3>3, <4>2, UnderFacts
      <4>4. QED
        BY <3>3, <4>1, <4>3
    <3>6. QED
      BY <3>2, <3>3, <3>5
  <2>4. QED
    BY <1>1, <1>7, <2>1, <2>2, <2>3
<1>13. LeadsTo(x, g, more)
  BY <1>7, <1>9, <1>10, <1>11, <1>12 DEF LeadsTo
<1>14. QED
  BY <1>13 DEF x, A, t

-------------------------------------------------------------------------------
LEMMA StreamTyped ==
  ASSUME EventTypeOK
  PROVE  /\ Stream \in StreamSet
         /\ Stream.inners = inners /\ Stream.pending = pending
         /\ Stream.emitted = blocksEmitted /\ Stream.view = view /\ Stream.settled = settled
         /\ inners \in Seq(Item) /\ finalInners \in Seq(Item) /\ watched \in Seq(Known)
  BY DEF EventTypeOK, Stream, StreamSet, Item

\* What becomes of the stream shows what s shows.
LEMMA BecomesFacts ==
  ASSUME NEW s \in StreamSet, Becomes(s)
  PROVE  /\ inners' \in Seq(Item) /\ pending' \in SUBSET Known /\ blocksEmitted' \in Seq(Known)
         /\ view' \in Seq(Known) /\ settled' \in SUBSET Known
         /\ inners' = s.inners
         /\ \A b, f, n, m : Shows(s, b, f, n, m) => Shows(Stream', b, f, n, m)
<1>1. /\ Stream'.inners = s.inners /\ Stream'.pending = s.pending
      /\ Stream'.emitted = s.emitted /\ Stream'.view = s.view
      /\ Stream'.settled = s.settled
  BY DEF Becomes, Stream
<1>2. /\ inners' \in Seq(Item) /\ pending' \in SUBSET Known /\ blocksEmitted' \in Seq(Known)
      /\ view' \in Seq(Known) /\ settled' \in SUBSET Known /\ inners' = s.inners
  BY DEF Becomes, StreamSet
<1>3. \A b, f, n, m : Shows(s, b, f, n, m) => Shows(Stream', b, f, n, m)
  BY <1>1 DEF Shows, Has
<1>4. QED
  BY <1>2, <1>3

\* What the typed parts of a step are.
LEMMA EventTyped ==
  ASSUME EventTypeOK,
         finalNow' \in Known, bestNow' \in Known, Under(finalNow', bestNow'),
         turns' \in 0 .. MaxTurns, jumps' \in 0 .. MaxJumps,
         fetched' \in SUBSET Known,
         inners' \in Seq(Item), pending' \in SUBSET Known, blocksEmitted' \in Seq(Known),
         view' \in Seq(Known), settled' \in SUBSET Known,
         finalInners' \in Seq(Item), watched' \in Seq(Known),
         late' \in BOOLEAN, failed' \in BOOLEAN
  PROVE  EventTypeOK'
<1>1. {bestNow', finalNow'} \subseteq Known
  OBVIOUS
<1>2. {fetched', pending', settled'} \subseteq SUBSET Known
  OBVIOUS
<1>3. {inners', finalInners'} \subseteq Seq([block : Known, answer : {"waits", "there", "cut"}])
  BY DEF Item
<1>4. {blocksEmitted', view', watched'} \subseteq Seq(Known)
  OBVIOUS
<1>5. QED
  BY <1>1, <1>2, <1>3, <1>4 DEF EventTypeOK

LEMMA EventInvInit ==
  ASSUME EventInit
  PROVE  EventInv
<1> DEFINE f == finalNow
           b == bestNow
           t == Trail[b]
           h == Len(Trail[f])
           s == Span(f, b)
<1>1. f \in Known /\ b \in Known /\ Under(f, b)
  BY DEF EventInit
<1>2. /\ t \in Seq(Known) /\ Len(t) \in Nat /\ h \in Nat /\ h >= 1
      /\ \A i \in 1 .. Len(t) : t[i] \in Known /\ Level(t[i]) = i - 1
  BY <1>1, TrailFacts DEF Level
<1>3. h <= Len(t)
  BY <1>1, UnderFacts
<1>4. /\ s \in Seq(Known) /\ Len(s) = Len(t) - h + 1
      /\ \A i \in 1 .. Len(t) - h + 1 : s[i] = t[h + i - 1]
      /\ Range(s) = {s[i] : i \in 1 .. Len(s)} /\ DOMAIN s = 1 .. Len(s)
  <2>1. /\ s \in Seq(Known) /\ Len(s) = Len(t) - h + 1
        /\ \A i \in 1 .. Len(t) - h + 1 : s[i] = t[h + i - 1]
    BY <1>1, SpanFacts
  <2> HIDE DEF s, t, h
  <2>2. Range(s) = {s[i] : i \in 1 .. Len(s)}
    BY <2>1, RangeEquality
  <2>3. DOMAIN s = 1 .. Len(s)
    BY <2>1, LenProperties
  <2>4. QED
    BY <2>1, <2>2, <2>3
<1>5. /\ inners = [i \in DOMAIN s |-> Waits(s[i])] /\ pending = Range(s)
      /\ finalInners = <<Waits(f)>> /\ blocksEmitted = <<>> /\ view = <<>> /\ settled = {}
      /\ watched = <<>> /\ jumps = 0 /\ turns = 0 /\ fetched = {} /\ ~failed /\ ~late
      /\ late \in BOOLEAN /\ failed \in BOOLEAN
  BY DEF EventInit
<1> HIDE DEF s, t, h
<1>6. /\ inners \in Seq(Item) /\ Len(inners) = Len(t) - h + 1
      /\ \A i \in 1 .. Len(t) - h + 1 : inners[i].block = t[h + i - 1] /\ inners[i].answer = "waits"
  <2>1. \A i \in 1 .. Len(s) : Waits(s[i]) \in Item
    BY <1>4, ElementOfSeq DEF Waits, Item
  <2>2. inners \in [1 .. Len(s) -> Item] /\ Len(s) \in Nat
    BY <1>4, <1>5, <2>1, LenProperties
  <2>3. inners \in Seq(Item) /\ Len(inners) = Len(s)
    BY <2>2
  <2>4. \A i \in 1 .. Len(s) : inners[i] = Waits(s[i])
    BY <1>4, <1>5
  <2>5. QED
    BY <1>4, <2>3, <2>4 DEF Waits
<1>7. Waits(f) \in Item /\ Waits(f).block = f
  BY <1>1 DEF Waits, Item
<1>8. /\ finalInners \in Seq(Item) /\ Len(finalInners) = 1
      /\ finalInners[1].block = f
  BY <1>5, <1>7
<1>9. pending \in SUBSET Known
  BY <1>4, <1>5, ElementOfSeq
<1>10. EventTypeOK
  <2>1. {inners, finalInners} \subseteq Seq([block : Known, answer : {"waits", "there", "cut"}])
    BY <1>6, <1>8 DEF Item
  <2>2. {blocksEmitted, view, watched} \subseteq Seq(Known)
    BY <1>5
  <2>3. {fetched, pending, settled} \subseteq SUBSET Known
    BY <1>5, <1>9
  <2>4. turns \in 0 .. MaxTurns /\ jumps \in 0 .. MaxJumps
    BY <1>5, EventAssumption
  <2>5. QED
    BY <1>1, <1>5, <2>1, <2>2, <2>3, <2>4 DEF EventTypeOK
<1>11. inners # <<>> => inners[1].answer = "waits"
  <2>1. 1 \in 1 .. Len(t) - h + 1
    BY <1>2, <1>3
  <2>2. QED
    BY <1>6, <2>1
<1>12. LeadsTo(watched \o BlocksOf(finalInners), f, jumps # 0)
  <2> DEFINE w == watched \o BlocksOf(finalInners)
  <2>1. /\ BlocksOf(finalInners) \in Seq(Known) /\ Len(BlocksOf(finalInners)) = 1
        /\ BlocksOf(finalInners)[1] = f
    BY <1>8, BlocksFacts
  <2>2. w = BlocksOf(finalInners)
    BY <1>5, <2>1, ConcatEmptySeq
  <2>3. Under(f, f)
    BY <1>1, UnderFacts
  <2> HIDE DEF w
  <2>4. Len(w) = 1 /\ w[1] = f
    BY <2>1, <2>2
  <2>5. \A i \in 1 .. Len(w) : i = 1
    BY <2>4
  <2>6. \A i \in 2 .. Len(w) : FALSE
    BY <2>4
  <2>7. QED
    BY <2>3, <2>4, <2>5, <2>6 DEF LeadsTo, w
<1>13. OnTheirWay(inners, 1, pending, b, h - 1)
  <2>1. \A i \in 1 .. Len(t) - h + 1 : h + i - 1 \in h - 1 + 1 .. Len(t) /\ h + i - 1 \in 1 .. Len(t)
    BY <1>2
  <2>2. \A i \in 1 .. Len(t) - h + 1 : t[h + i - 1] \in pending
    BY <1>4, <1>5
  <2>3. ASSUME NEW i \in 1 .. Len(inners)
        PROVE  inners[i].block \in pending /\ \E k \in h - 1 + 1 .. Len(t) : inners[i].block = t[k]
    BY <1>6, <2>1, <2>2
  <2>4. ASSUME NEW k \in h - 1 + 1 .. Len(t)
        PROVE  \E i \in 1 .. Len(inners) : inners[i].answer # "cut" /\ inners[i].block = t[k]
    <3>1. k - h + 1 \in 1 .. Len(t) - h + 1 /\ h + (k - h + 1) - 1 = k
      BY <1>2
    <3>2. QED
      BY <1>6, <3>1
  <2>5. ASSUME NEW i \in 1 .. Len(inners), NEW j \in 1 .. Len(inners), i < j
        PROVE  Level(inners[i].block) < Level(inners[j].block)
    <3>1. i \in 1 .. Len(t) - h + 1 /\ j \in 1 .. Len(t) - h + 1
      BY <1>6
    <3>2. inners[i].block = t[h + i - 1] /\ inners[j].block = t[h + j - 1]
      BY <1>6, <3>1
    <3>3. Level(t[h + i - 1]) = h + i - 1 - 1 /\ Level(t[h + j - 1]) = h + j - 1 - 1
      BY <1>2, <2>1, <3>1
    <3>4. h + i - 1 - 1 < h + j - 1 - 1
      BY <1>2, <2>5
    <3>5. QED
      BY <3>2, <3>3, <3>4
  <2>6. QED
    BY <2>3, <2>4, <2>5 DEF OnTheirWay, t
<1>14. Stream \in StreamSet /\ Stream.inners = inners /\ Stream.pending = pending
       /\ Stream.emitted = blocksEmitted /\ Stream.view = view /\ Stream.settled = settled
  BY <1>10, StreamTyped
<1>15. Has(Stream, b, f, h, h - 1)
  <2>1. h \in 1 .. h /\ h - 1 \in h - 1 .. Len(t)
    BY <1>2, <1>3
  <2>2. SubSeq(t, h, h - 1) = <<>> /\ SubSeq(t, h + 1, h - 1) = <<>>
    BY <1>2, SubSeqEmpty
  <2>3. h .. h - 1 = {}
    BY <1>2
  <2>4. {t[i] : i \in {j \in h .. h - 1 : j <= h}} = {}
    BY <2>3
  <2>5. QED
    BY <1>5, <1>14, <2>1, <2>2, <2>4 DEF Has, t, h
<1>16. EventsShown
  <2>1. h \in 1 .. Len(Trail[finalNow]) /\ h - 1 \in 0 .. Len(Trail[b])
    BY <1>2, <1>3 DEF h, t
  <2>2. Shows(Stream, b, finalNow, h, h - 1)
    BY <1>13, <1>14, <1>15 DEF Shows
  <2>3. QED
    BY <1>1, <2>1, <2>2 DEF EventsShown
<1>17. QED
  BY <1>10, <1>11, <1>12, <1>16 DEF EventInv

-------------------------------------------------------------------------------
LEMMA BestTurnsKeeps ==
  ASSUME EventInv, BestTurns
  PROVE  EventInv'
<1>1. EventTypeOK /\ ~failed
  BY DEF EventInv, BestTurns
<1>2. PICK b \in Known \ {bestNow} :
        /\ Under(finalNow, b)
        /\ bestNow' = b
        /\ LET prev == Span(finalNow, bestNow)
               next == Span(finalNow, b)
               s    == Cut(Diverge(Stream, prev, next, finalNow), finalNow, b)
           IN  IF Under(b, bestNow)
                 THEN failed' = TRUE /\ UNCHANGED <<bestStream, late>>
                 ELSE Becomes(s) /\ late' = (late \/ Lagging(b)) /\ UNCHANGED failed
  BY DEF BestTurns
<1> DEFINE prev == Span(finalNow, bestNow)
           next == Span(finalNow, b)
           s == Cut(Diverge(Stream, prev, next, finalNow), finalNow, b)
<1>3. /\ turns' = turns + 1 /\ turns < MaxTurns
      /\ UNCHANGED <<finalNow, jumps, fetched, finalInners, watched>>
  BY DEF BestTurns
<1>4. /\ bestNow \in Known /\ finalNow \in Known /\ Under(finalNow, bestNow)
      /\ turns \in 0 .. MaxTurns /\ jumps \in 0 .. MaxJumps /\ fetched \in SUBSET Known
      /\ finalInners \in Seq(Item) /\ watched \in Seq(Known) /\ Stream \in StreamSet
      /\ Stream.inners = inners /\ Stream.pending = pending
      /\ late \in BOOLEAN /\ failed \in BOOLEAN
  BY <1>1, StreamTyped DEF EventTypeOK
<1>5. turns' \in 0 .. MaxTurns
  BY <1>3, <1>4, EventAssumption
<1>6. LeadsTo(watched \o BlocksOf(finalInners), finalNow, jumps # 0)'
  BY <1>3 DEF EventInv
<1>7. CASE Under(b, bestNow)
  <2>1. failed' = TRUE /\ UNCHANGED <<bestStream, late>>
    BY <1>2, <1>7
  <2>2. UNCHANGED <<inners, pending, blocksEmitted, view, settled>>
    BY <2>1 DEF bestStream
  <2>3. EventTypeOK'
    BY <1>1, <1>2, <1>3, <1>5, <2>1, <2>2 DEF EventTypeOK
  <2>4. (inners # <<>> => inners[1].answer = "waits")'
    BY <2>2 DEF EventInv
  <2>5. Stream' = Stream
    BY <2>2 DEF Stream
  <2>6. (~late /\ jumps = 0 => EventsShown)'
    <3> SUFFICES ASSUME ~late', jumps' = 0 PROVE EventsShown'
      OBVIOUS
    <3>1. EventsShown
      BY <1>3, <2>1 DEF EventInv
    <3>2. QED
      BY <1>3, <2>1, <2>5, <3>1 DEF EventsShown
  <2>7. QED
    BY <1>6, <2>3, <2>4, <2>6 DEF EventInv
<1>8. CASE ~Under(b, bestNow)
  <2>1. Becomes(s) /\ late' = (late \/ Lagging(b)) /\ failed' = failed
    BY <1>2, <1>8
  <2>2. prev \in Seq(Known) /\ next \in Seq(Known) /\ next # <<>>
    BY <1>2, <1>4, SpanFacts
  <2>3. Diverge(Stream, prev, next, finalNow) \in StreamSet
    <3> HIDE DEF prev, next
    <3>1. QED
      BY <1>4, <2>2, DivergeTyped
  <2>4. s \in StreamSet /\ (s.inners # <<>> => s.inners[1].answer = "waits")
    <3> DEFINE d == Diverge(Stream, prev, next, finalNow)
    <3> HIDE DEF d
    <3>1. d \in StreamSet
      BY <2>3 DEF d
    <3>2. Cut(d, finalNow, b) \in StreamSet
          /\ (Cut(d, finalNow, b).inners # <<>> => Cut(d, finalNow, b).inners[1].answer = "waits")
      BY <1>4, <3>1, CutTyped
    <3>3. QED
      BY <3>2 DEF d
  <2> HIDE DEF s
  <2>5. /\ inners' \in Seq(Item) /\ pending' \in SUBSET Known /\ blocksEmitted' \in Seq(Known)
        /\ view' \in Seq(Known) /\ settled' \in SUBSET Known
        /\ inners' = s.inners
        /\ \A c, f, n, m : Shows(s, c, f, n, m) => Shows(Stream', c, f, n, m)
    BY <2>1, <2>4, BecomesFacts
  <2>6. late' \in BOOLEAN
    BY <2>1 DEF Lagging
  <2>7. EventTypeOK'
    <3>1. finalNow' \in Known /\ bestNow' \in Known /\ Under(finalNow', bestNow')
          /\ jumps' \in 0 .. MaxJumps /\ fetched' \in SUBSET Known
          /\ finalInners' \in Seq(Item) /\ watched' \in Seq(Known) /\ failed' \in BOOLEAN
      BY <1>2, <1>3, <1>4, <2>1
    <3>2. QED
      BY <1>1, <1>5, <2>5, <2>6, <3>1, EventTyped
  <2>8. (inners # <<>> => inners[1].answer = "waits")'
    BY <2>4, <2>5
  <2>9. (~late /\ jumps = 0 => EventsShown)'
    <3> SUFFICES ASSUME ~late', jumps' = 0 PROVE EventsShown'
      OBVIOUS
    <3>1. EventsShown /\ ~Lagging(b)
      BY <1>3, <2>1 DEF EventInv
    <3>2. PICK n \in 1 .. Len(Trail[finalNow]), m \in 0 .. Len(Trail[bestNow]) :
            Shows(Stream, bestNow, finalNow, n, m)
      BY <1>1, <3>1 DEF EventsShown
    <3>3. NoneLags(Stream.inners, Stream.pending, b)
      <4>1. DOMAIN inners = 1 .. Len(inners)
        BY <1>1, StreamTyped, LenProperties
      <4>2. QED
        BY <1>4, <3>1, <4>1 DEF Lagging, NoneLags
    <3>4. Stream.inners # <<>> => Stream.inners[1].answer = "waits"
      BY <1>4 DEF EventInv
    <3>5. PICK k \in 0 .. Len(Trail[b]) : Shows(s, b, finalNow, n, k)
      BY <1>2, <1>4, <3>2, <3>3, <3>4, TurnShows DEF s
    <3>6. Shows(Stream', b, finalNow', n, k) /\ n \in 1 .. Len(Trail[finalNow'])
          /\ Under(finalNow', b) /\ b = bestNow' /\ b \in Known
      BY <1>2, <1>3, <2>5, <3>5
    <3>7. QED
      BY <3>5, <3>6 DEF EventsShown
  <2>10. QED
    BY <1>6, <2>7, <2>8, <2>9 DEF EventInv
<1>9. QED
  BY <1>7, <1>8

LEMMA WatchFacts ==
  ASSUME EventTypeOK, NEW A \in Seq(Known), Watch(A)
  PROVE  /\ watched' \in Seq(Known) /\ finalInners' \in Seq(Item)
         /\ watched' \o BlocksOf(finalInners') = (watched \o BlocksOf(finalInners)) \o A
         /\ watched \o BlocksOf(finalInners) \in Seq(Known)
<1> DEFINE q == finalInners \o Asked(A)
<1>1. finalInners \in Seq(Item) /\ watched \in Seq(Known)
  BY StreamTyped
<1>2. q \in Seq(Item) /\ BlocksOf(q) = BlocksOf(finalInners) \o A
  BY <1>1, BlocksAsked
<1>3. watched' = watched \o BlocksOf(Ready(q)) /\ finalInners' = Behind(q)
  BY DEF Watch
<1> HIDE DEF q
<1>4. /\ watched \o BlocksOf(Ready(q)) \in Seq(Known) /\ Behind(q) \in Seq(Item)
      /\ (watched \o BlocksOf(Ready(q))) \o BlocksOf(Behind(q)) = watched \o BlocksOf(q)
  BY <1>1, <1>2, BlocksGoOn
<1>5. BlocksOf(finalInners) \in Seq(Known)
  BY <1>1, BlocksFacts
<1>6. watched \o (BlocksOf(finalInners) \o A) = (watched \o BlocksOf(finalInners)) \o A
  BY <1>1, <1>5, ConcatAssociative
<1>7. watched \o BlocksOf(finalInners) \in Seq(Known)
  BY <1>1, <1>5, ConcatProperties
<1>8. QED
  BY <1>2, <1>3, <1>4, <1>6, <1>7

\* Where the finalized blocks are on their trail.
LEMMA FinalizedFacts ==
  ASSUME NEW f \in Known, NEW g \in Known, Under(f, g), f # g
  PROVE  /\ ChainHeadFinalized(f, g) = SubSeq(Trail[g], Len(Trail[f]) + 1, Len(Trail[g]))
         /\ ChainHeadFinalized(f, g) \in Seq(Known)
         /\ Len(Trail[f]) \in Nat /\ Len(Trail[g]) \in Nat /\ Len(Trail[f]) < Len(Trail[g])
         /\ Level(f) = Len(Trail[f]) - 1 /\ Level(g) = Len(Trail[g]) - 1
<1> DEFINE t == Trail[g]
           h == Len(Trail[f])
<1>1. /\ t \in Seq(Known) /\ Len(t) \in Nat /\ h \in Nat /\ h >= 1 /\ t[Len(t)] = g
      /\ Level(f) = h - 1 /\ Level(g) = Len(t) - 1
  BY TrailFacts DEF Level
<1>2. h <= Len(t) /\ t[h] = f
  BY UnderFacts
<1> HIDE DEF t, h
<1>3. h < Len(t)
  <2>1. h # Len(t)
    BY <1>1, <1>2
  <2>2. QED
    BY <1>1, <1>2, <2>1
<1>4. ChainHeadFinalized(f, g) = SubSeq(t, h + 1, Len(t))
  <2>1. Level(f) + 2 = h + 1
    BY <1>1
  <2>2. QED
    BY <2>1 DEF ChainHeadFinalized, t
<1>5. SubSeq(t, h + 1, Len(t)) \in Seq(Known)
  <2>1. h + 1 \in Int /\ h + 1 >= 1 /\ Len(t) \in Int /\ Len(t) <= Len(t)
    BY <1>1
  <2>2. QED
    BY <1>1, <2>1, Piece
<1>6. QED
  BY <1>1, <1>3, <1>4, <1>5 DEF t, h

LEMMA BlocksFinalizeKeeps ==
  ASSUME EventInv, BlocksFinalize
  PROVE  EventInv'
<1>1. EventTypeOK /\ ~failed
  BY DEF EventInv, BlocksFinalize
<1>2. PICK f \in Range(Span(finalNow, bestNow)) \ {finalNow} :
        /\ finalNow' = f
        /\ Becomes(Settle(Stream, f))
        /\ Watch(ChainHeadFinalized(finalNow, f))
  BY DEF BlocksFinalize
<1>3. UNCHANGED <<bestNow, turns, jumps, fetched, late, failed>>
  BY DEF BlocksFinalize
<1>4. /\ bestNow \in Known /\ finalNow \in Known /\ Under(finalNow, bestNow)
      /\ turns \in 0 .. MaxTurns /\ jumps \in 0 .. MaxJumps /\ fetched \in SUBSET Known
      /\ finalInners \in Seq(Item) /\ watched \in Seq(Known) /\ Stream \in StreamSet
      /\ Stream.inners = inners
      /\ late \in BOOLEAN /\ failed \in BOOLEAN
  BY <1>1, StreamTyped DEF EventTypeOK
<1>5. f \in Known /\ Under(finalNow, f) /\ Under(f, bestNow) /\ f # finalNow
  <2> DEFINE s == Span(finalNow, bestNow)
             t == Trail[bestNow]
             h == Len(Trail[finalNow])
  <2>1. /\ s \in Seq(Known) /\ Len(s) = Len(t) - h + 1
        /\ \A i \in 1 .. Len(t) - h + 1 : s[i] = t[h + i - 1]
    BY <1>4, SpanFacts
  <2>2. /\ Len(t) \in Nat /\ h \in Nat /\ h >= 1
        /\ \A i \in 1 .. Len(t) : t[i] \in Known /\ Under(t[i], bestNow) /\ Len(Trail[t[i]]) = i
    BY <1>4, TrailFacts, UnderFacts
  <2>3. Range(s) = {s[i] : i \in 1 .. Len(s)}
    BY <2>1, RangeEquality
  <2>0. h <= Len(t) /\ t[h] = finalNow
    BY <1>4, UnderFacts
  <2> HIDE DEF s
  <2>4. PICK i \in 1 .. Len(s) : f = s[i]
    BY <1>2, <2>3 DEF s
  <2> HIDE DEF t, h
  <2>5. f = t[h + i - 1] /\ h + i - 1 \in 1 .. Len(t) /\ h <= h + i - 1
    BY <2>1, <2>2, <2>4
  <2> DEFINE j == h + i - 1
  <2>6. f = t[j] /\ j \in 1 .. Len(t) /\ h <= j /\ h \in 1 .. j
    BY <2>2, <2>5
  <2> HIDE DEF j
  <2>7. f \in Known /\ Under(f, bestNow) /\ Len(Trail[f]) = j
    BY <2>2, <2>6
  <2>8. Trail[f][h] = t[h]
    BY <1>4, <2>6, TrailFacts DEF t
  <2>9. Under(finalNow, f)
    <3>1. Len(Trail[finalNow]) <= Len(Trail[f]) /\ Trail[f][Len(Trail[finalNow])] = finalNow
      BY <2>6, <2>7, <2>8, <2>0 DEF h
    <3>2. QED
      BY <1>4, <2>7, <3>1, UnderFacts
  <2>10. f # finalNow
    BY <1>2
  <2>11. QED
    BY <2>7, <2>9, <2>10
<1> DEFINE s == Settle(Stream, f)
<1>6. s \in StreamSet /\ s.inners = inners
  BY <1>4, <1>5, SettleTyped
<1> HIDE DEF s
<1>7. /\ inners' \in Seq(Item) /\ pending' \in SUBSET Known /\ blocksEmitted' \in Seq(Known)
      /\ view' \in Seq(Known) /\ settled' \in SUBSET Known
      /\ inners' = s.inners
      /\ \A c, g, n, m : Shows(s, c, g, n, m) => Shows(Stream', c, g, n, m)
  BY <1>2, <1>6, BecomesFacts DEF s
<1> DEFINE A == ChainHeadFinalized(finalNow, f)
<1>8. /\ A \in Seq(Known) /\ A = SubSeq(Trail[f], Len(Trail[finalNow]) + 1, Len(Trail[f]))
      /\ Len(Trail[finalNow]) + 1 \in Len(Trail[finalNow]) + 1 .. Len(Trail[f])
  <2>1. /\ A \in Seq(Known) /\ A = SubSeq(Trail[f], Len(Trail[finalNow]) + 1, Len(Trail[f]))
        /\ Len(Trail[finalNow]) \in Nat /\ Len(Trail[f]) \in Nat
        /\ Len(Trail[finalNow]) < Len(Trail[f])
    BY <1>4, <1>5, FinalizedFacts
  <2>2. QED
    BY <2>1
<1>9. /\ watched' \in Seq(Known) /\ finalInners' \in Seq(Item)
      /\ watched' \o BlocksOf(finalInners') = (watched \o BlocksOf(finalInners)) \o A
      /\ watched \o BlocksOf(finalInners) \in Seq(Known)
  <2> HIDE DEF A
  <2>1. Watch(A)
    BY <1>2 DEF A
  <2>2. QED
    BY <1>1, <1>8, <2>1, WatchFacts
<1>10. EventTypeOK'
  <2>1. finalNow' \in Known /\ bestNow' \in Known /\ Under(finalNow', bestNow')
        /\ turns' \in 0 .. MaxTurns /\ jumps' \in 0 .. MaxJumps /\ fetched' \in SUBSET Known
        /\ late' \in BOOLEAN /\ failed' \in BOOLEAN
    BY <1>2, <1>3, <1>4, <1>5
  <2>2. QED
    BY <1>1, <1>7, <1>9, <2>1, EventTyped
<1>11. (inners # <<>> => inners[1].answer = "waits")'
  BY <1>6, <1>7 DEF EventInv
<1>12. LeadsTo(watched \o BlocksOf(finalInners), finalNow, jumps # 0)'
  <2> DEFINE w == watched \o BlocksOf(finalInners)
             more == jumps # 0
             a == Len(Trail[finalNow]) + 1
  <2>1. LeadsTo(w, finalNow, more) /\ w \in Seq(Known)
    BY <1>9 DEF EventInv
  <2>6. a \in Len(Trail[finalNow]) + 1 .. Len(Trail[f])
    BY <1>8
  <2>7. a = Len(Trail[finalNow]) + 1
    OBVIOUS
  <2> HIDE DEF w, more, a
  <2>8. /\ w \in Seq(Known) /\ finalNow \in Known /\ f \in Known /\ LeadsTo(w, finalNow, more)
        /\ Under(finalNow, f) /\ a \in Len(Trail[finalNow]) + 1 .. Len(Trail[f])
        /\ (more => more) /\ (~more => a = Len(Trail[finalNow]) + 1)
    BY <1>4, <1>5, <2>1, <2>6, <2>7
  <2>2. LeadsTo(w \o SubSeq(Trail[f], a, Len(Trail[f])), f, more)
    BY <2>8, LeadsOn
  <2>3. LeadsTo(watched' \o BlocksOf(finalInners'), f, more)
    BY <1>8, <1>9, <2>2 DEF w, a
  <2>4. more = (jumps' # 0)
    BY <1>3 DEF more
  <2>5. QED
    BY <1>2, <2>3, <2>4
<1>13. (~late /\ jumps = 0 => EventsShown)'
  <2> SUFFICES ASSUME ~late', jumps' = 0 PROVE EventsShown'
    OBVIOUS
  <2>1. EventsShown
    BY <1>3 DEF EventInv
  <2>2. PICK n \in 1 .. Len(Trail[finalNow]), m \in 0 .. Len(Trail[bestNow]) :
          Shows(Stream, bestNow, finalNow, n, m)
    BY <1>1, <2>1 DEF EventsShown
  <2>3. Shows(s, bestNow, f, n, m)
    BY <1>4, <1>5, <2>2, SettleShows DEF s
  <2>4. n \in 1 .. Len(Trail[finalNow'])
    BY <1>2, <2>3 DEF Shows, Has
  <2>5. /\ Shows(Stream', bestNow', finalNow', n, m) /\ m \in 0 .. Len(Trail[bestNow'])
        /\ Under(finalNow', bestNow') /\ bestNow' \in Known
    BY <1>2, <1>3, <1>4, <1>5, <1>7, <2>2, <2>3
  <2>6. QED
    BY <2>4, <2>5 DEF EventsShown
<1>14. QED
  BY <1>10, <1>11, <1>12, <1>13 DEF EventInv

LEMMA BothJumpKeeps ==
  ASSUME EventInv, BothJump
  PROVE  EventInv'
<1>1. EventTypeOK
  BY DEF EventInv
<1>2. PICK f \in Known, b \in Known \ {bestNow} :
        /\ Under(finalNow, f) /\ f # finalNow /\ Under(f, b)
        /\ bestNow' = b /\ finalNow' = f
        /\ \E lost \in 0 .. Level(f) - Level(finalNow) - 1 :
               Watch(SubSeq(ChainHeadFinalized(finalNow, f), lost + 1,
                            Level(f) - Level(finalNow)))
        /\ failed' = \E i \in Waiting(inners) : ~Under(inners[i].block, b)
        /\ Becomes(Cut(Settle(Stream, f), f, b))
        /\ UNCHANGED late
  BY DEF BothJump
<1>3. jumps' = jumps + 1 /\ jumps < MaxJumps /\ UNCHANGED <<turns, fetched>>
  BY DEF BothJump
<1>4. /\ bestNow \in Known /\ finalNow \in Known /\ Under(finalNow, bestNow)
      /\ turns \in 0 .. MaxTurns /\ jumps \in 0 .. MaxJumps /\ fetched \in SUBSET Known
      /\ finalInners \in Seq(Item) /\ watched \in Seq(Known) /\ Stream \in StreamSet
      /\ late \in BOOLEAN /\ failed \in BOOLEAN
  BY <1>1, StreamTyped DEF EventTypeOK
<1>5. jumps' \in 0 .. MaxJumps /\ jumps' # 0
  BY <1>3, <1>4, EventAssumption
<1> DEFINE d == Settle(Stream, f)
           s == Cut(d, f, b)
<1>6. d \in StreamSet
  BY <1>4, SettleTyped
<1> HIDE DEF d
<1>7. s \in StreamSet /\ (s.inners # <<>> => s.inners[1].answer = "waits")
  BY <1>6, CutTyped
<1> HIDE DEF s
<1>8. /\ inners' \in Seq(Item) /\ pending' \in SUBSET Known /\ blocksEmitted' \in Seq(Known)
      /\ view' \in Seq(Known) /\ settled' \in SUBSET Known
      /\ inners' = s.inners
  BY <1>2, <1>7, BecomesFacts DEF s, d
<1>9. PICK lost \in 0 .. Level(f) - Level(finalNow) - 1 :
         Watch(SubSeq(ChainHeadFinalized(finalNow, f), lost + 1, Level(f) - Level(finalNow)))
  BY <1>2
<1> DEFINE h == Len(Trail[finalNow])
           t == Trail[f]
           A == SubSeq(ChainHeadFinalized(finalNow, f), lost + 1, Level(f) - Level(finalNow))
<1>10. /\ A \in Seq(Known) /\ A = SubSeq(t, h + 1 + lost, Len(t))
       /\ h + 1 + lost \in h + 1 .. Len(t)
  <2> DEFINE c == ChainHeadFinalized(finalNow, f)
  <2>1. /\ c \in Seq(Known) /\ c = SubSeq(t, h + 1, Len(t))
        /\ h \in Nat /\ Len(t) \in Nat /\ h < Len(t)
        /\ Level(finalNow) = h - 1 /\ Level(f) = Len(t) - 1
    BY <1>2, <1>4, FinalizedFacts
  <2>2. t \in Seq(Known)
    BY TrailFacts
  <2>3. A = SubSeq(c, lost + 1, Len(t) - h)
    <3>1. Level(f) - Level(finalNow) = Len(t) - h
      BY <2>1
    <3>2. QED
      BY <3>1
  <2>4. lost \in 0 .. Len(t) - h - 1
    <3>1. Level(f) - Level(finalNow) - 1 = Len(t) - h - 1
      BY <2>1
    <3>2. QED
      BY <3>1
  <2> HIDE DEF t, h, c, A
  <2>5. SubSeq(SubSeq(t, h + 1, Len(t)), lost + 1, Len(t) - h) = SubSeq(t, h + 1 + lost, Len(t))
    <3> DEFINE i == h + 1
               j == Len(t)
               m == lost + 1
               n == Len(t) - h
    <3>1. /\ i \in 1 .. Len(t) /\ j \in i .. Len(t)
          /\ m \in 1 .. j - i + 1 /\ n \in m .. j - i + 1
      BY <2>1, <2>4
    <3>2. i + m - 1 = h + 1 + lost /\ i + n - 1 = Len(t)
      BY <2>1, <2>4
    <3> HIDE DEF i, j, m, n
    <3>3. SubSeq(SubSeq(t, i, j), m, n) = SubSeq(t, i + m - 1, i + n - 1)
      BY <2>2, <3>1, SubSeqOfSubSeq
    <3>4. SubSeq(SubSeq(t, i, j), m, n) = SubSeq(t, h + 1 + lost, Len(t))
      BY <3>2, <3>3
    <3>5. QED
      BY <3>4 DEF i, j, m, n
  <2>8. A = SubSeq(t, h + 1 + lost, Len(t))
    BY <2>1, <2>3, <2>5
  <2>9. h + 1 + lost \in h + 1 .. Len(t) /\ h + 1 + lost >= 1 /\ Len(t) <= Len(t)
    BY <2>1, <2>4
  <2>10. A \in Seq(Known)
    BY <2>1, <2>2, <2>8, <2>9, Piece
  <2>11. QED
    BY <2>8, <2>9, <2>10
<1>11. /\ watched' \in Seq(Known) /\ finalInners' \in Seq(Item)
       /\ watched' \o BlocksOf(finalInners') = (watched \o BlocksOf(finalInners)) \o A
       /\ watched \o BlocksOf(finalInners) \in Seq(Known)
  <2>1. Watch(A)
    BY <1>9
  <2> HIDE DEF A
  <2>2. QED
    BY <1>1, <1>10, <2>1, WatchFacts
<1>12. EventTypeOK'
  <2>1. failed' \in BOOLEAN
    BY <1>2
  <2>2. finalNow' \in Known /\ bestNow' \in Known /\ Under(finalNow', bestNow')
        /\ turns' \in 0 .. MaxTurns /\ fetched' \in SUBSET Known /\ late' \in BOOLEAN
    BY <1>2, <1>3, <1>4
  <2>3. QED
    BY <1>1, <1>5, <1>8, <1>11, <2>1, <2>2, EventTyped
<1>13. LeadsTo(watched \o BlocksOf(finalInners), finalNow, jumps # 0)'
  <2> DEFINE w == watched \o BlocksOf(finalInners)
             gaps == jumps # 0
             more == jumps' # 0
             a == h + 1 + lost
  <2>1. LeadsTo(w, finalNow, gaps) /\ w \in Seq(Known) /\ more
    BY <1>5, <1>11 DEF EventInv
  <2>2. a \in Len(Trail[finalNow]) + 1 .. Len(Trail[f])
    BY <1>10
  <2> HIDE DEF w, gaps, more, a
  <2>3. LeadsTo(w \o SubSeq(Trail[f], a, Len(Trail[f])), f, more)
    BY <1>2, <1>4, <2>1, <2>2, LeadsOn
  <2>4. LeadsTo(watched' \o BlocksOf(finalInners'), f, more)
    BY <1>10, <1>11, <2>3 DEF w, a
  <2>5. QED
    BY <1>2, <2>4 DEF more
<1>14. QED
  BY <1>5, <1>7, <1>8, <1>12, <1>13 DEF EventInv

LEMMA EventBlocksComeKeeps ==
  ASSUME EventInv, EventBlocksCome
  PROVE  EventInv'
<1>1. EventTypeOK /\ ~failed
  BY DEF EventInv, EventBlocksCome
<1>2. PICK b \in {inners[i].block : i \in Waiting(inners)}
                 \cup {finalInners[i].block : i \in Waiting(finalInners)} :
        LET queue == Put(finalInners, b)
            s     == Flush([Stream EXCEPT !.inners = Put(inners, b)], finalNow)
        IN  /\ fetched' = fetched \cup {b}
            /\ Becomes(s)
            /\ watched' = watched \o BlocksOf(Ready(queue))
            /\ finalInners' = Behind(queue)
  BY DEF EventBlocksCome
<1>3. UNCHANGED <<bestNow, finalNow, turns, jumps, late, failed>>
  BY DEF EventBlocksCome, chainOfEvents
<1>4. /\ bestNow \in Known /\ finalNow \in Known /\ Under(finalNow, bestNow)
      /\ turns \in 0 .. MaxTurns /\ jumps \in 0 .. MaxJumps /\ fetched \in SUBSET Known
      /\ finalInners \in Seq(Item) /\ watched \in Seq(Known) /\ Stream \in StreamSet
      /\ inners \in Seq(Item)
      /\ Stream.inners = inners /\ Stream.pending = pending
      /\ late \in BOOLEAN /\ failed \in BOOLEAN
  BY <1>1, StreamTyped DEF EventTypeOK
<1> DEFINE x == [Stream EXCEPT !.inners = Put(inners, b)]
           s == Flush(x, finalNow)
           q == Put(finalInners, b)
<1>5. /\ fetched' = fetched \cup {b} /\ Becomes(s)
      /\ watched' = watched \o BlocksOf(Ready(q)) /\ finalInners' = Behind(q)
  BY <1>2
<1>6. b \in Known
  <2>1. CASE b \in {inners[i].block : i \in Waiting(inners)}
    <3>1. PICK i \in DOMAIN inners : b = inners[i].block
      BY <2>1 DEF Waiting
    <3>2. inners[i] \in Item
      BY <1>4, <3>1, LenProperties, ElementOfSeq
    <3>3. QED
      BY <3>1, <3>2 DEF Item
  <2>2. CASE b \in {finalInners[i].block : i \in Waiting(finalInners)}
    <3>1. PICK i \in DOMAIN finalInners : b = finalInners[i].block
      BY <2>2 DEF Waiting
    <3>2. finalInners[i] \in Item
      BY <1>4, <3>1, LenProperties, ElementOfSeq
    <3>3. QED
      BY <3>1, <3>2 DEF Item
  <2>3. QED
    BY <1>2, <2>1, <2>2
<1>7. Put(inners, b) \in Seq(Item) /\ q \in Seq(Item) /\ BlocksOf(q) = BlocksOf(finalInners)
  BY <1>4, PutFacts
<1>8. /\ x \in StreamSet /\ x.inners = Put(inners, b) /\ x.pending = Stream.pending
      /\ x.view = Stream.view /\ x.emitted = Stream.emitted /\ x.settled = Stream.settled
  BY <1>4, <1>7 DEF StreamSet
<1> HIDE DEF x, q
<1>9. s \in StreamSet /\ (s.inners # <<>> => s.inners[1].answer = "waits")
  BY <1>4, <1>8, FlushTyped
<1> HIDE DEF s
<1>10. /\ inners' \in Seq(Item) /\ pending' \in SUBSET Known /\ blocksEmitted' \in Seq(Known)
       /\ view' \in Seq(Known) /\ settled' \in SUBSET Known
       /\ inners' = s.inners
       /\ \A c, f, n, m : Shows(s, c, f, n, m) => Shows(Stream', c, f, n, m)
  BY <1>5, <1>9, BecomesFacts
<1>11. /\ watched' \in Seq(Known) /\ finalInners' \in Seq(Item)
       /\ watched' \o BlocksOf(finalInners') = watched \o BlocksOf(finalInners)
  <2>1. watched \in Seq(Known) /\ q \in Seq(Item)
    BY <1>4, <1>7
  <2>2. /\ watched \o BlocksOf(Ready(q)) \in Seq(Known) /\ Behind(q) \in Seq(Item)
        /\ (watched \o BlocksOf(Ready(q))) \o BlocksOf(Behind(q)) = watched \o BlocksOf(q)
    BY <2>1, BlocksGoOn
  <2>3. QED
    BY <1>5, <1>7, <2>2
<1>12. EventTypeOK'
  <2>1. finalNow' \in Known /\ bestNow' \in Known /\ Under(finalNow', bestNow')
        /\ turns' \in 0 .. MaxTurns /\ jumps' \in 0 .. MaxJumps /\ fetched' \in SUBSET Known
        /\ late' \in BOOLEAN /\ failed' \in BOOLEAN
    BY <1>3, <1>4, <1>5, <1>6
  <2>2. QED
    BY <1>1, <1>10, <1>11, <2>1, EventTyped
<1>13. LeadsTo(watched \o BlocksOf(finalInners), finalNow, jumps # 0)'
  BY <1>3, <1>11 DEF EventInv
<1>14. (~late /\ jumps = 0 => EventsShown)'
  <2> SUFFICES ASSUME ~late', jumps' = 0 PROVE EventsShown'
    OBVIOUS
  <2>1. EventsShown
    BY <1>3 DEF EventInv
  <2>2. PICK n \in 1 .. Len(Trail[finalNow]), m \in 0 .. Len(Trail[bestNow]) :
          Shows(Stream, bestNow, finalNow, n, m)
    BY <1>1, <2>1 DEF EventsShown
  <2>3. Has(Stream, bestNow, finalNow, n, m) /\ OnTheirWay(inners, 1, pending, bestNow, m)
    BY <1>4, <2>2 DEF Shows
  <2>4. Has(x, bestNow, finalNow, n, m)
    BY <1>8, <2>3 DEF Has
  <2>5. OnTheirWay(x.inners, 1, x.pending, bestNow, m)
    BY <1>4, <1>8, <2>3, PutKeepsWay
  <2>6. PICK k \in m .. Len(Trail[bestNow]) : Shows(s, bestNow, finalNow, n, k)
    <3>1. Shows(x, bestNow, finalNow, n, m)
      BY <2>4, <2>5 DEF Shows
    <3>2. QED
      BY <1>4, <1>8, <3>1, FlushShows DEF s
  <2>7. k \in 0 .. Len(Trail[bestNow])
    BY <2>2, <2>6
  <2>8. /\ Shows(Stream', bestNow', finalNow', n, k) /\ k \in 0 .. Len(Trail[bestNow'])
        /\ n \in 1 .. Len(Trail[finalNow'])
        /\ Under(finalNow', bestNow') /\ bestNow' \in Known
    BY <1>3, <1>4, <1>10, <2>2, <2>6, <2>7
  <2>9. QED
    BY <2>8 DEF EventsShown
<1>15. QED
  BY <1>9, <1>10, <1>12, <1>13, <1>14 DEF EventInv

-------------------------------------------------------------------------------
LEMMA EventsFailKeeps ==
  ASSUME EventInv, EventsFail
  PROVE  EventInv'
<1>1. failed' = TRUE /\ UNCHANGED <<chainOfEvents, fetched, bestStream, finalInners, watched, late>>
  BY DEF EventsFail
<1>2. /\ UNCHANGED <<bestNow, finalNow, turns, jumps, inners, pending, blocksEmitted, view, settled>>
      /\ UNCHANGED <<fetched, finalInners, watched, late>>
  BY <1>1 DEF chainOfEvents, bestStream
<1>3. Stream' = Stream
  BY <1>2 DEF Stream
<1>4. EventTypeOK'
  BY <1>1, <1>2 DEF EventInv, EventTypeOK
<1>5. (inners # <<>> => inners[1].answer = "waits")'
  BY <1>2 DEF EventInv
<1>6. LeadsTo(watched \o BlocksOf(finalInners), finalNow, jumps # 0)'
  BY <1>2 DEF EventInv
<1>7. (~late /\ jumps = 0 => EventsShown)'
  BY <1>1, <1>2, <1>3 DEF EventInv, EventsShown
<1>8. QED
  BY <1>4, <1>5, <1>6, <1>7 DEF EventInv

LEMMA EventInvNext ==
  EventInv /\ [EventNext]_eventVars => EventInv'
<1> SUFFICES ASSUME EventInv, [EventNext]_eventVars
             PROVE  EventInv'
  OBVIOUS
<1>1. CASE BestTurns
  BY <1>1, BestTurnsKeeps
<1>2. CASE BlocksFinalize
  BY <1>2, BlocksFinalizeKeeps
<1>3. CASE BothJump
  BY <1>3, BothJumpKeeps
<1>4. CASE EventBlocksCome
  BY <1>4, EventBlocksComeKeeps
<1>5. CASE EventsFail
  BY <1>5, EventsFailKeeps
<1>6. CASE UNCHANGED eventVars
  <2>1. /\ UNCHANGED <<bestNow, finalNow, turns, jumps, inners, pending, blocksEmitted, view, settled>>
        /\ UNCHANGED <<fetched, finalInners, watched, late, failed>>
    BY <1>6 DEF eventVars, chainOfEvents, bestStream
  <2>2. Stream' = Stream
    BY <2>1 DEF Stream
  <2>3. EventTypeOK'
    BY <2>1 DEF EventInv, EventTypeOK
  <2>4. (inners # <<>> => inners[1].answer = "waits")'
    BY <2>1 DEF EventInv
  <2>5. LeadsTo(watched \o BlocksOf(finalInners), finalNow, jumps # 0)'
    BY <2>1 DEF EventInv
  <2>6. (~late /\ jumps = 0 => EventsShown)'
    BY <2>1, <2>2 DEF EventInv, EventsShown
  <2>7. QED
    BY <2>3, <2>4, <2>5, <2>6 DEF EventInv
<1>7. QED
  BY <1>1, <1>2, <1>3, <1>4, <1>5, <1>6 DEF EventNext

\* What a consumer that is shown a piece of the chain has.
LEMMA PieceIsShown ==
  ASSUME EventInv, ~late, jumps = 0
  PROVE  ConsumerAgrees /\ ViewIsBestChain
<1>1. EventTypeOK /\ EventsShown
  BY DEF EventInv
<1>2. finalNow \in Known /\ view \in Seq(Known) /\ Stream.inners = inners /\ Stream.view = view
      /\ Stream.emitted = blocksEmitted /\ Stream.settled = settled
  BY <1>1, StreamTyped DEF EventTypeOK
<1>0. PICK b \in Known : \E n \in 1 .. Len(Trail[finalNow]), m \in 0 .. Len(Trail[b]) :
        /\ Under(finalNow, b) /\ (~failed => b = bestNow)
        /\ Shows(Stream, b, finalNow, n, m)
  BY <1>1 DEF EventsShown
<1>3. PICK n \in 1 .. Len(Trail[finalNow]), m \in 0 .. Len(Trail[b]) :
        /\ Under(finalNow, b) /\ (~failed => b = bestNow)
        /\ Shows(Stream, b, finalNow, n, m)
  BY <1>0
<1> DEFINE t == Trail[b]
           h == Len(Trail[finalNow])
           c == IF m > h THEN h ELSE m
<1>4. /\ t \in Seq(Known) /\ Len(t) \in Nat /\ h \in Nat /\ h >= 1 /\ t[Len(t)] = b
      /\ \A i \in 1 .. Len(t) :
            t[i] \in Known /\ Level(t[i]) = i - 1 /\ (i > 1 => ParentIn[t[i]] = t[i - 1])
      /\ Level(finalNow) = h - 1
  BY <1>2, TrailFacts DEF Level
<1>5. h <= Len(t) /\ t[h] = finalNow
  BY <1>2, <1>3, UnderFacts
<1>6. \A i \in 1 .. h : Trail[finalNow][i] = t[i]
  BY <1>4, <1>5, TrailFacts
<1>7. /\ n \in 1 .. h /\ m \in n - 1 .. Len(t)
      /\ view = SubSeq(t, n, m) /\ blocksEmitted = SubSeq(t, h + 1, m)
      /\ settled = {t[i] : i \in {j \in n .. m : j <= h}}
      /\ OnTheirWay(inners, 1, pending, b, m)
  <2>1. Has(Stream, b, finalNow, n, m) /\ OnTheirWay(Stream.inners, 1, Stream.pending, b, m)
    BY <1>3 DEF Shows
  <2>2. Stream.pending = pending
    BY <1>1, StreamTyped
  <2>3. /\ n \in 1 .. h /\ m \in n - 1 .. Len(t)
        /\ Stream.view = SubSeq(t, n, m) /\ Stream.emitted = SubSeq(t, h + 1, m)
        /\ Stream.settled = {t[i] : i \in {j \in n .. m : j <= h}}
    BY <2>1 DEF Has
  <2> HIDE DEF t, h
  <2>4. QED
    BY <1>2, <2>1, <2>2, <2>3
<1>8. /\ Range(Trail[finalNow]) = {Trail[finalNow][i] : i \in 1 .. h}
      /\ Range(t) = {t[i] : i \in 1 .. Len(t)}
  BY <1>2, UnderFacts
<1>9. Range(view) = {view[i] : i \in 1 .. Len(view)} /\ DOMAIN view = 1 .. Len(view)
  BY <1>2, RangeEquality, LenProperties
<1>10. t[Len(t)] = bestNow \/ failed
  BY <1>3, <1>4
<1> HIDE DEF t, h
<1>11. Len(view) = m - n + 1 /\ \A i \in 1 .. m - n + 1 : view[i] = t[n + i - 1]
  <2>1. n >= 1 /\ n \in Int /\ m \in Int /\ m <= Len(t)
    BY <1>4, <1>7
  <2>2. /\ Len(SubSeq(t, n, m)) = IF n <= m THEN m - n + 1 ELSE 0
        /\ \A i \in 1 .. m - n + 1 : SubSeq(t, n, m)[i] = t[n + i - 1]
    BY <1>4, <2>1, Piece
  <2>3. (IF n <= m THEN m - n + 1 ELSE 0) = m - n + 1
    BY <1>4, <1>7
  <2>4. QED
    BY <1>7, <2>2, <2>3
<1>12. /\ blocksEmitted \in Seq(Known) /\ Len(blocksEmitted) = m - c
       /\ \A i \in 1 .. m - c : blocksEmitted[i] = t[c + i]
  <2>1. h + 1 >= 1 /\ h + 1 \in Int /\ m \in Int /\ m <= Len(t) /\ t \in Seq(Known)
    BY <1>4, <1>7
  <2>2. /\ SubSeq(t, h + 1, m) \in Seq(Known)
        /\ Len(SubSeq(t, h + 1, m)) = IF h + 1 <= m THEN m - (h + 1) + 1 ELSE 0
        /\ \A i \in 1 .. m - (h + 1) + 1 : SubSeq(t, h + 1, m)[i] = t[h + 1 + i - 1]
    BY <2>1, Piece
  <2>3. (IF h + 1 <= m THEN m - (h + 1) + 1 ELSE 0) = m - c
    BY <1>4, <1>7
  <2>4. ASSUME NEW i \in 1 .. m - c
        PROVE  blocksEmitted[i] = t[c + i]
    <3>1. c = h /\ i \in 1 .. m - (h + 1) + 1 /\ h + 1 + i - 1 = c + i
      BY <1>4, <1>7
    <3>2. QED
      BY <1>7, <2>2, <3>1
  <2>5. QED
    BY <1>7, <2>2, <2>3, <2>4
<1>13. /\ c \in n - 1 .. m /\ c <= h /\ c \in Int
       /\ \A i \in Int : i <= m => (i <= h <=> i <= c)
  BY <1>4, <1>7
<1> HIDE DEF c
<1> DEFINE first == Len(view) - Len(blocksEmitted)
<1>14. first = c - n + 1 /\ first >= 0 /\ first <= Len(view) /\ first \in Int /\ n \in Int /\ m \in Int
  BY <1>4, <1>7, <1>11, <1>12, <1>13
<1> HIDE DEF first
<1>15. view = SubSeq(view, 1, first) \o blocksEmitted
  <2> DEFINE p == SubSeq(view, 1, first)
             q == p \o blocksEmitted
  <2>1. /\ p \in Seq(Known) /\ Len(p) = IF 1 <= first THEN first - 1 + 1 ELSE 0
        /\ \A i \in 1 .. first - 1 + 1 : p[i] = view[1 + i - 1]
    BY <1>2, <1>14, Piece
  <2>2. Len(p) = first /\ \A i \in 1 .. first : p[i] = view[i]
    BY <1>14, <2>1
  <2> HIDE DEF p
  <2>3. /\ q \in Seq(Known) /\ Len(q) = Len(p) + Len(blocksEmitted)
        /\ \A i \in 1 .. Len(p) + Len(blocksEmitted) :
              q[i] = IF i <= Len(p) THEN p[i] ELSE blocksEmitted[i - Len(p)]
    BY <1>12, <2>1, ConcatProperties
  <2> HIDE DEF q
  <2>4. Len(view) = Len(q)
    BY <1>11, <1>12, <1>13, <1>14, <2>2, <2>3
  <2>5. ASSUME NEW i \in 1 .. Len(view)
        PROVE  view[i] = q[i]
    <3>1. i \in 1 .. Len(p) + Len(blocksEmitted)
      BY <2>3, <2>4
    <3>2. CASE i <= first
      <4>1. i \in 1 .. first
        BY <1>14, <3>2
      <4>2. QED
        BY <2>2, <2>3, <3>1, <3>2, <4>1
    <3>3. CASE i > first
      <4>1. i - first \in 1 .. m - c /\ c + (i - first) = n + i - 1 /\ i \in 1 .. m - n + 1
        BY <1>11, <1>13, <1>14, <3>3
      <4>2. ~(i <= Len(p)) /\ i - Len(p) = i - first
        BY <1>14, <2>2, <3>3
      <4>3. q[i] = blocksEmitted[i - first]
        BY <2>3, <3>1, <4>2
      <4>4. blocksEmitted[i - first] = t[n + i - 1]
        BY <1>12, <4>1
      <4>5. QED
        BY <1>11, <4>1, <4>3, <4>4
    <3>4. QED
      BY <1>14, <3>2, <3>3
  <2>6. QED
    BY <1>2, <2>3, <2>4, <2>5, SeqEqual DEF p, q
<1>16. ASSUME NEW i \in 1 .. Len(view)
       PROVE  /\ n + i - 1 \in n .. m /\ n + i - 1 \in 1 .. Len(t)
              /\ view[i] = t[n + i - 1]
              /\ view[i] \in settled <=> n + i - 1 <= h
  <2>1. n + i - 1 \in n .. m /\ n + i - 1 \in 1 .. Len(t)
    <3>1. Len(view) = m - n + 1 /\ n \in Int /\ m \in Int /\ n >= 1 /\ m <= Len(t)
      BY <1>7, <1>11, <1>14
    <3>2. Len(t) \in Nat
      BY <1>4
    <3>3. QED
      BY <3>1, <3>2
  <2>2. view[i] = t[n + i - 1]
    BY <1>11
  <2>3. ASSUME view[i] \in settled
        PROVE  n + i - 1 <= h
    <3>1. PICK j \in n .. m : j <= h /\ view[i] = t[j]
      BY <1>7, <2>3
    <3>2. j \in 1 .. Len(t)
      BY <1>4, <1>7
    <3>3. Level(t[j]) = j - 1 /\ Level(t[n + i - 1]) = n + i - 1 - 1
      BY <1>4, <2>1, <3>2
    <3>4. j = n + i - 1
      BY <1>4, <1>14, <2>1, <2>2, <3>1, <3>2, <3>3
    <3>5. QED
      BY <3>1, <3>4
  <2>4. ASSUME n + i - 1 <= h
        PROVE  view[i] \in settled
    BY <1>7, <2>1, <2>2, <2>4
  <2>5. QED
    BY <2>1, <2>2, <2>3, <2>4
<1>17. ConsumerAgrees
  <2>1. ASSUME NEW i \in 1 .. Len(view)
        PROVE  view[i] \in settled <=> i <= first
    <3>1. n + i - 1 \in Int /\ n + i - 1 <= m /\ (n + i - 1 <= c <=> i <= first)
      BY <1>13, <1>14, <1>16
    <3>2. n + i - 1 <= h <=> n + i - 1 <= c
      BY <1>13, <3>1
    <3>3. QED
      BY <1>16, <3>1, <3>2
  <2>2. QED
    BY <1>9, <1>14, <1>15, <2>1 DEF ConsumerAgrees, first
<1>18. IsTrail(view)
  <2> SUFFICES ASSUME NEW i \in 2 .. Len(view)
               PROVE  ParentIn[view[i]] = view[i - 1]
    BY DEF IsTrail
  <2>1. /\ i \in 1 .. Len(view) /\ i - 1 \in 1 .. Len(view)
        /\ n + (i - 1) - 1 = (n + i - 1) - 1 /\ n + i - 1 > 1
    <3>1. n \in Int /\ n >= 1
      BY <1>7
    <3>2. Len(view) \in Nat
      BY <1>2, LenProperties
    <3>3. QED
      BY <3>1, <3>2
  <2>2. /\ view[i] = t[n + i - 1] /\ view[i - 1] = t[(n + i - 1) - 1]
        /\ n + i - 1 \in 1 .. Len(t)
    BY <1>16, <2>1
  <2>3. QED
    BY <1>4, <2>1, <2>2
<1>19. DroppedBlocksAreDropped
  <2> SUFFICES ASSUME ~failed, NEW x \in Range(view)
               PROVE  x \in Range(Trail[bestNow])
    BY DEF DroppedBlocksAreDropped
  <2>1. PICK i \in 1 .. Len(view) : x = view[i]
    BY <1>9
  <2>2. x \in Range(t)
    BY <1>8, <1>16, <2>1
  <2>3. QED
    BY <1>3, <2>2 DEF t
<1>20. settled \subseteq Range(Trail[finalNow])
  <2> SUFFICES ASSUME NEW x \in settled
               PROVE  x \in Range(Trail[finalNow])
    OBVIOUS
  <2>1. PICK i \in n .. m : i <= h /\ x = t[i]
    BY <1>7
  <2>2. i \in 1 .. h
    BY <1>4, <1>7, <2>1
  <2>3. QED
    BY <1>6, <1>8, <2>1, <2>2
<1>21. ASSUME NEW x \in Range(view), Level(x) <= Level(finalNow)
       PROVE  x \in settled
  <2>1. PICK i \in 1 .. Len(view) : x = view[i]
    BY <1>9
  <2>2. /\ x = t[n + i - 1] /\ n + i - 1 \in 1 .. Len(t)
        /\ (x \in settled <=> n + i - 1 <= h)
    BY <1>16, <2>1
  <2>3. Level(x) = n + i - 1 - 1
    BY <1>4, <2>2
  <2>4. n + i - 1 <= h
    BY <1>4, <1>14, <1>21, <2>2, <2>3
  <2>5. QED
    BY <2>2, <2>4
<1>22. ASSUME ~failed, Waiting(inners) = {}
       PROVE  view # <<>> /\ Last(view) = bestNow
  <2>1. inners = <<>>
    <3> SUFFICES ASSUME inners # <<>> PROVE FALSE
      OBVIOUS
    <3>1. inners \in Seq(Item)
      BY <1>1, StreamTyped
    <3>2. 1 \in DOMAIN inners
      BY <3>1
    <3>3. inners[1].answer = "waits"
      BY DEF EventInv
    <3>4. QED
      BY <1>22, <3>2, <3>3 DEF Waiting
  <2>2. Len(inners) = 0
    BY <2>1
  <2>3. ~ (m + 1 \in m + 1 .. Len(t))
    BY <1>7, <2>2 DEF OnTheirWay, t
  <2>4. m = Len(t)
    BY <1>4, <1>7, <2>3
  <2>5. Len(view) >= 1 /\ Len(view) \in Nat /\ Len(view) \in 1 .. Len(view)
        /\ n + Len(view) - 1 = Len(t)
    BY <1>4, <1>5, <1>7, <1>11, <1>14, <2>4
  <2>6. view[Len(view)] = bestNow
    BY <1>10, <1>16, <1>22, <2>5
  <2>7. QED
    BY <2>5, <2>6 DEF Last
<1>23. QED
  BY <1>17, <1>18, <1>19, <1>20, <1>21, <1>22 DEF ViewIsBestChain

\* What watch reported are the finalized blocks in order.
LEMMA WatchedInOrder ==
  ASSUME EventInv
  PROVE  FinalsAreInOrder
<1> DEFINE q == BlocksOf(finalInners)
           w == watched \o q
           k == Len(watched)
<1>1. watched \in Seq(Known) /\ finalInners \in Seq(Item)
  BY StreamTyped DEF EventInv
<1>2. q \in Seq(Known) /\ Len(q) = Len(finalInners)
  BY <1>1, BlocksFacts
<1>3. LeadsTo(w, finalNow, jumps # 0)
  BY DEF EventInv
<1> HIDE DEF q
<1>4. /\ k \in Nat /\ Len(q) \in Nat /\ Len(w) = k + Len(q)
      /\ \A i \in 1 .. k + Len(q) : w[i] = IF i <= k THEN watched[i] ELSE q[i - k]
  BY <1>1, <1>2, ConcatProperties, LenProperties
<1>5. Range(watched) = {watched[i] : i \in 1 .. k}
  BY <1>1, RangeEquality
<1> HIDE DEF w, k
<1>6. \A i \in 1 .. k : i \in 1 .. Len(w) /\ w[i] = watched[i]
  BY <1>4
<1>7. ASSUME NEW i \in 2 .. k
      PROVE  /\ watched[i] # watched[i - 1] /\ Under(watched[i - 1], watched[i])
             /\ jumps = 0 => ParentIn[watched[i]] = watched[i - 1]
  <2>1. i \in 2 .. Len(w) /\ i \in 1 .. k /\ i - 1 \in 1 .. k
    BY <1>4
  <2>2. w[i] = watched[i] /\ w[i - 1] = watched[i - 1]
    BY <1>6, <2>1
  <2>3. /\ w[i] # w[i - 1] /\ Under(w[i - 1], w[i])
        /\ ~(jumps # 0) => ParentIn[w[i]] = w[i - 1]
    BY <1>3, <2>1 DEF LeadsTo
  <2>4. QED
    BY <2>2, <2>3
<1>8. Range(watched) \subseteq Range(Trail[finalNow])
  <2> SUFFICES ASSUME NEW x \in Range(watched)
               PROVE  x \in Range(Trail[finalNow])
    OBVIOUS
  <2>1. PICK i \in 1 .. k : x = watched[i]
    BY <1>5
  <2>2. Under(w[i], finalNow) /\ w[i] = x
    BY <1>3, <1>6, <2>1 DEF LeadsTo
  <2>3. QED
    BY <2>2 DEF Under
<1>9. ASSUME finalInners = <<>>
      PROVE  Last(watched) = finalNow
  <2>1. Len(q) = 0
    BY <1>2, <1>9
  <2>2. Len(w) = k /\ k >= 1
    BY <1>3, <1>4, <2>1 DEF LeadsTo
  <2>3. k \in 1 .. k
    BY <1>4, <2>2
  <2>4. w[k] = finalNow
    BY <1>3, <2>2 DEF LeadsTo
  <2>5. watched[k] = finalNow
    BY <1>6, <2>3, <2>4
  <2>6. QED
    BY <2>5 DEF Last, k
<1>10. QED
  BY <1>7, <1>8, <1>9 DEF FinalsAreInOrder, k

LEMMA EventInvSuffices ==
  EventInv => EventsAreRight
<1> SUFFICES ASSUME EventInv
             PROVE  EventsAreRight
  OBVIOUS
<1>1. EventTypeOK
  BY DEF EventInv
<1>2. ConsumerAgrees /\ ViewIsBestChain
  <2>1. CASE ~late /\ jumps = 0
    BY <2>1, PieceIsShown
  <2>2. CASE ~(~late /\ jumps = 0)
    BY <2>2 DEF ConsumerAgrees, ViewIsBestChain
  <2>3. QED
    BY <2>1, <2>2
<1>3. FinalsAreInOrder
  BY WatchedInOrder
<1>4. QED
  BY <1>1, <1>2, <1>3 DEF EventsAreRight

-------------------------------------------------------------------------------
\* However the answers of the node and the changes of the chain interleave, the
\* consumer of watchBest has a path of the best chain that ends with what it was
\* told last, what it lacks is on its way, and it drops and settles the right
\* blocks; the consumer of watch has every finalized block, in order, once.
THEOREM EventsStayRight ==
  EventSpec => []EventsAreRight
<1>1. EventInit => EventInv
  BY EventInvInit
<1>2. EventInv /\ [EventNext]_eventVars => EventInv'
  BY EventInvNext
<1>3. EventInv => EventsAreRight
  BY EventInvSuffices
<1>4. QED
  BY <1>1, <1>2, <1>3, PTL DEF EventSpec
===============================================================================
