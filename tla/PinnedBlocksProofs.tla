-------------------------- MODULE PinnedBlocksProofs --------------------------
(***************************************************************************)
(* Theorems about PinnedBlocks, for every chain of blocks.                 *)
(*                                                                         *)
(* Over any number of subscriptions, whenever the server stops one, the    *)
(* client and the server agree on what is pinned (PinsStayAgreed). Until   *)
(* the first stop the counts are those of the users (PinsStayCounted), a   *)
(* block stays pinned while it is used (UsedStaysPinnedAlways), and the    *)
(* runtimes and the children serve the blocks (RuntimesStayRight).         *)
(*                                                                         *)
(* The facts about the chain come from induction over the heights, those   *)
(* about a window from induction over its length, and those about a        *)
(* handler field by field: each states the whole accumulator it returns.   *)
(***************************************************************************)
EXTENDS PinnedBlocks, SequenceLemmas

-------------------------------------------------------------------------------
(***************************************************************************)
(* The chain.                                                              *)
(***************************************************************************)

\* Induction from the root upwards.
LEMMA ChainInduction ==
  ASSUME NEW S, Genesis \in S,
         \A b \in Block \ {Genesis} : Parent[b] \in S => b \in S
  PROVE  Block \subseteq S
<1> DEFINE N == {n \in Nat : \A b \in Block : Height[b] <= n => b \in S}
<1>1. 0 \in N
  <2>1. ASSUME NEW b \in Block, Height[b] <= 0 PROVE b = Genesis
    BY <2>1, ChainAssumption
  <2>2. QED
    BY <2>1
<1>2. ASSUME NEW n \in Nat, n \in N PROVE n + 1 \in N
  <2>1. ASSUME NEW b \in Block, Height[b] <= n + 1, b # Genesis PROVE b \in S
    <3>1. Parent[b] \in Block /\ Height[Parent[b]] <= n
      BY <2>1, ChainAssumption
    <3>2. QED
      BY <3>1, <1>2, <2>1
  <2>2. QED
    BY <2>1
<1> HIDE DEF N
<1>3. Nat \subseteq N
  BY <1>1, <1>2, InductionOverNat
<1>4. QED
  BY <1>3, ChainAssumption DEF N

\* Every block but the root stands on one of a lower height.
LEMMA ChainRanks == Ranks(Height, Parent, {Genesis}, Block)
BY ChainAssumption DEF Ranks

LEMMA PathUnfolds ==
  Path = [b \in Block |-> IF b = Genesis THEN <<b>> ELSE Append(Path[Parent[b]], b)]
<1> DEFINE start == [b \in Block |-> <<b>>]
           F == [b \in Block |-> [s \in Seq(Block) |-> Append(s, b)]]
<1>1. Steps(start, F, Block, Seq(Block))
  BY DEF Steps
<1> HIDE DEF start, F
<1>2. PICK g \in [Block -> Seq(Block)] : Solves(g, start, F, Parent, {Genesis}, Block)
  BY <1>1, ChainRanks, RecursionByRank
<1>3. \A b \in Block : g[b] = IF b = Genesis THEN <<b>> ELSE Append(g[Parent[b]], b)
  BY <1>2, ChainAssumption DEF Solves, start, F
<1>4. g = [b \in Block |-> g[b]]
  OBVIOUS
<1>5. g = [b \in Block |-> IF b = Genesis THEN <<b>> ELSE Append(g[Parent[b]], b)]
  BY <1>3, <1>4, Zenon
<1>6. QED
  BY <1>5 DEF Path

LEMMA LineUnfolds ==
  Line = [b \in Block |-> {b} \cup IF b = Genesis THEN {} ELSE Line[Parent[b]]]
<1> DEFINE start == [b \in Block |-> {b}]
           F == [b \in Block |-> [s \in SUBSET Block |-> {b} \cup s]]
<1>1. Steps(start, F, Block, SUBSET Block)
  BY DEF Steps
<1> HIDE DEF start, F
<1>2. PICK g \in [Block -> SUBSET Block] : Solves(g, start, F, Parent, {Genesis}, Block)
  BY <1>1, ChainRanks, RecursionByRank
<1>3. \A b \in Block : g[b] = {b} \cup IF b = Genesis THEN {} ELSE g[Parent[b]]
  BY <1>2, ChainAssumption DEF Solves, start, F
<1>4. g = [b \in Block |-> g[b]]
  OBVIOUS
<1>5. g = [b \in Block |-> {b} \cup IF b = Genesis THEN {} ELSE g[Parent[b]]]
  BY <1>3, <1>4, Zenon
<1>6. QED
  BY <1>5 DEF Line

\* A block is in its line, and so is every ancestor, each with its own line.
LEMMA LineFacts ==
  /\ \A b \in Block : Line[b] \subseteq Block /\ b \in Line[b]
  /\ Line[Genesis] = {Genesis}
  /\ \A b \in Block \ {Genesis} : Line[b] = {b} \cup Line[Parent[b]]
  /\ \A b \in Block : \A a \in Line[b] :
        /\ a = b \/ Height[a] < Height[b]
        /\ Line[a] \subseteq Line[b]
        /\ \A x \in Line[b] : Aligned(a, x)
<1>1. /\ Line[Genesis] = {Genesis}
      /\ \A b \in Block \ {Genesis} : Line[b] = {b} \cup Line[Parent[b]]
  BY LineUnfolds, ChainAssumption
<1> DEFINE S == {b \in Block :
                   /\ Line[b] \subseteq Block /\ b \in Line[b]
                   /\ \A a \in Line[b] :
                         /\ a = b \/ Height[a] < Height[b]
                         /\ Line[a] \subseteq Line[b]
                         /\ \A x \in Line[b] : a \in Line[x] \/ x \in Line[a]}
<1>2. Genesis \in S
  BY <1>1, ChainAssumption
<1>3. ASSUME NEW b \in Block \ {Genesis}, Parent[b] \in S PROVE b \in S
  <2>1. Line[b] = {b} \cup Line[Parent[b]] /\ Height[Parent[b]] < Height[b]
    BY <1>1, ChainAssumption
  <2>2. Line[b] \subseteq Block /\ b \in Line[b]
    BY <2>1, <1>3
  <2>3. ASSUME NEW a \in Line[b]
        PROVE  /\ a = b \/ Height[a] < Height[b]
               /\ Line[a] \subseteq Line[b]
    <3>1. CASE a = b
      BY <3>1
    <3>2. CASE a \in Line[Parent[b]]
      BY <3>2, <1>3, <2>1, ChainAssumption
    <3>3. QED
      BY <3>1, <3>2, <2>1
  <2>4. ASSUME NEW a \in Line[b], NEW x \in Line[b]
        PROVE  a \in Line[x] \/ x \in Line[a]
    BY <1>3, <2>1
  <2>5. QED
    BY <2>2, <2>3, <2>4
<1> HIDE DEF S
<1>4. Block \subseteq S
  BY <1>2, <1>3, ChainInduction
<1>5. QED
  BY <1>1, <1>4 DEF S, Aligned
\* A run of blocks, each the parent of the next one, that ends in a block.
IsWindow(w, b) ==
  /\ w \in Seq(Block) /\ Len(w) \in Nat \ {0}
  /\ w[Len(w)] = b
  /\ \A i \in 1 .. Len(w) : i > 1 => w[i] # Genesis /\ Parent[w[i]] = w[i - 1]
  /\ \A i \in 1 .. Len(w) : w[i] \in Line[b] /\ Height[w[i]] = Height[b] - Len(w) + i

\* The path to a block is such a run, and has all its line.
LEMMA PathFacts ==
  \A b \in Block : IsWindow(Path[b], b) /\ Path[b][1] = Genesis
<1> DEFINE S == {b \in Block : IsWindow(Path[b], b) /\ Path[b][1] = Genesis}
<1>1. Genesis \in S
  <2>1. Path[Genesis] = <<Genesis>>
    BY PathUnfolds, ChainAssumption
  <2>2. /\ <<Genesis>> \in Seq(Block)
        /\ Len(<<Genesis>>) = 1
        /\ <<Genesis>>[1] = Genesis
        /\ Genesis \in Line[Genesis]
        /\ Height[Genesis] \in Nat
    BY LineFacts, ChainAssumption
  <2> HIDE DEF S
  <2>3. IsWindow(Path[Genesis], Genesis) /\ Path[Genesis][1] = Genesis
    BY <2>1, <2>2 DEF IsWindow
  <2>4. QED
    BY <2>3, ChainAssumption DEF S
<1>2. ASSUME NEW b \in Block \ {Genesis}, Parent[b] \in S PROVE b \in S
  <2> DEFINE p == Path[Parent[b]]
             q == Path[b]
  <2>1. q = Append(p, b) /\ p[1] = Genesis
    BY <1>2, PathUnfolds
  <2>2. IsWindow(p, Parent[b])
    BY <1>2
  <2>3. /\ p \in Seq(Block) /\ Len(p) \in Nat \ {0}
        /\ p[Len(p)] = Parent[b]
        /\ \A i \in 1 .. Len(p) : i > 1 => p[i] # Genesis /\ Parent[p[i]] = p[i - 1]
        /\ \A i \in 1 .. Len(p) : p[i] \in Line[Parent[b]]
        /\ \A i \in 1 .. Len(p) : Height[p[i]] = Height[Parent[b]] - Len(p) + i
    BY <2>2 DEF IsWindow
  <2>4. /\ q \in Seq(Block)
        /\ Len(q) = Len(p) + 1
        /\ \A i \in 1 .. Len(p) : q[i] = p[i]
        /\ q[Len(p) + 1] = b
    BY <2>1, <2>3, AppendProperties
  <2>5. Line[b] = {b} \cup Line[Parent[b]] /\ Height[b] = Height[Parent[b]] + 1
    BY LineFacts, ChainAssumption
  <2>6. Height[b] \in Nat /\ Height[Parent[b]] \in Nat
    BY ChainAssumption
  <2> HIDE DEF p, q
  <2>7. \A i \in 1 .. Len(q) : i > 1 => q[i] # Genesis /\ Parent[q[i]] = q[i - 1]
    <3>1. ASSUME NEW i \in 1 .. Len(q), i > 1, i <= Len(p)
          PROVE  q[i] # Genesis /\ Parent[q[i]] = q[i - 1]
      BY <3>1, <2>3, <2>4
    <3>2. Parent[q[Len(q)]] = q[Len(q) - 1] /\ q[Len(q)] # Genesis
      BY <2>3, <2>4
    <3>3. QED
      BY <3>1, <3>2, <2>3, <2>4
  <2>8. ASSUME NEW i \in 1 .. Len(q)
        PROVE  q[i] \in Line[b] /\ Height[q[i]] = Height[b] - Len(q) + i
    <3>1. CASE i \in 1 .. Len(p)
      <4>1. q[i] = p[i] /\ p[i] \in Line[Parent[b]]
        BY <3>1, <2>3, <2>4
      <4>2. Height[p[i]] = Height[Parent[b]] - Len(p) + i
        BY <3>1, <2>3
      <4>3. q[i] \in Line[b]
        BY <4>1, <2>5
      <4>4. Height[q[i]] = Height[Parent[b]] - Len(p) + i
        BY <4>1, <4>2
      <4>5. Height[Parent[b]] - Len(p) + i = Height[b] - Len(q) + i
        BY <2>3, <2>4, <2>5, <2>6
      <4>6. QED
        BY <4>3, <4>4, <4>5
    <3>2. CASE i = Len(p) + 1
      BY <3>2, <2>3, <2>4, <2>5, <2>6
    <3>3. QED
      BY <3>1, <3>2, <2>3, <2>4
  <2>9. IsWindow(q, b) /\ q[1] = Genesis
    BY <2>1, <2>3, <2>4, <2>7, <2>8 DEF IsWindow
  <2>10. QED
    BY <2>9 DEF q
<1> HIDE DEF S
<1>3. Block \subseteq S
  BY <1>1, <1>2, ChainInduction
<1>4. QED
  BY <1>3 DEF S

\* So is the window of an initialized event.
WindowOf(b, n) == SubSeq(Path[b], Len(Path[b]) - n + 1, Len(Path[b]))

LEMMA WindowFacts ==
  ASSUME NEW b \in Block, NEW n \in Nat \ {0}, n <= Len(Path[b])
  PROVE  IsWindow(WindowOf(b, n), b)
<1> DEFINE p == Path[b]
           w == WindowOf(b, n)
           d == Len(p) - n
<1>1. /\ p \in Seq(Block) /\ Len(p) \in Nat \ {0}
      /\ p[Len(p)] = b
      /\ \A i \in 1 .. Len(p) : i > 1 => p[i] # Genesis /\ Parent[p[i]] = p[i - 1]
      /\ \A i \in 1 .. Len(p) : p[i] \in Line[b]
      /\ \A i \in 1 .. Len(p) : Height[p[i]] = Height[b] - Len(p) + i
  BY PathFacts DEF IsWindow
<1> HIDE DEF p
<1>2. d \in Nat /\ n <= Len(p)
  BY <1>1 DEF p
<1>3. w = SubSeq(p, d + 1, Len(p))
  BY DEF WindowOf, p
<1>4. /\ w \in Seq(Block)
      /\ Len(w) = n
      /\ \A i \in 1 .. n : w[i] = p[d + i]
  <2>1. \A i \in d + 1 .. Len(p) : p[i] \in Block
    BY <1>1, <1>2
  <2>2. d + 1 \in Int /\ Len(p) \in Int /\ d + 1 <= Len(p) /\ Len(p) - (d + 1) + 1 = n
    BY <1>1, <1>2
  <2> HIDE DEF d
  <2>3. /\ w \in Seq(Block)
        /\ Len(w) = n
        /\ \A i \in 1 .. n : w[i] = p[d + 1 + i - 1]
    BY <2>1, <2>2, <1>3, SubSeqProperties
  <2>4. QED
    BY <2>3, <1>2
<1> HIDE DEF w
<1>5. \A i \in 1 .. n : d + i \in 1 .. Len(p)
  BY <1>1, <1>2
<1>6. w[Len(w)] = b
  BY <1>1, <1>2, <1>4
<1>7. \A i \in 1 .. n : i > 1 => w[i] # Genesis /\ Parent[w[i]] = w[i - 1]
  <2> SUFFICES ASSUME NEW i \in 1 .. n, i > 1
               PROVE  w[i] # Genesis /\ Parent[w[i]] = w[i - 1]
    OBVIOUS
  <2>1. w[i] = p[d + i] /\ w[i - 1] = p[d + (i - 1)]
    BY <1>4
  <2>2. d + i \in 1 .. Len(p) /\ d + i > 1 /\ d + (i - 1) = (d + i) - 1
    BY <1>2, <1>5
  <2>3. QED
    BY <2>1, <2>2, <1>1
<1>8. \A i \in 1 .. n : w[i] \in Line[b] /\ Height[w[i]] = Height[b] - n + i
  <2> SUFFICES ASSUME NEW i \in 1 .. n
               PROVE  w[i] \in Line[b] /\ Height[w[i]] = Height[b] - n + i
    OBVIOUS
  <2>1. w[i] = p[d + i] /\ d + i \in 1 .. Len(p)
    BY <1>4, <1>5
  <2>2. /\ p[d + i] \in Line[b]
        /\ Height[p[d + i]] = Height[b] - Len(p) + (d + i)
    BY <2>1, <1>1
  <2>3. Height[b] - Len(p) + (d + i) = Height[b] - n + i
    <3>1. Height[b] \in Nat /\ Len(p) \in Nat /\ d = Len(p) - n /\ i \in Nat
      BY <1>1, ChainAssumption
    <3>2. QED
      BY <3>1
  <2>4. QED
    BY <2>1, <2>2, <2>3
<1>9. QED
  BY <1>4, <1>6, <1>7, <1>8 DEF IsWindow, w
-------------------------------------------------------------------------------
(***************************************************************************)
(* The handlers: each takes an accumulator to an accumulator.              *)
(***************************************************************************)
LEMMA FailFacts ==
  ASSUME NEW a \in Accumulator
  PROVE  /\ Fail(a) \in Accumulator
         /\ Fail(a).phase = "Failed"
         /\ Fail(a).blocks = a.blocks
         /\ Fail(a).recovering = a.recovering
         /\ Fail(a).pruned = a.pruned
         /\ Fail(a).unpins = a.unpins
BY DEF Fail, Accumulator, Phases

LEMMA InitialFacts ==
  /\ Initial \in Accumulator
  /\ Initial.phase = "Initializing"
  /\ Initial.blocks = {} /\ Initial.recovering = {} /\ Initial.pruned = {}
  /\ Initial.unpins = {}
BY DEF Initial, Accumulator, Phases

LEMMA ResetFacts ==
  ASSUME NEW a \in Accumulator
  PROVE  /\ ResetState(a) \in Accumulator
         /\ ResetState(a).phase = "Initializing"
         /\ ResetState(a).blocks = {}
         /\ ResetState(a).recovering = {}
         /\ ResetState(a).pruned = {}
         /\ ResetState(a).unpins = {}
         /\ StartOver(a) \in Accumulator
         /\ StartOver(a).blocks = {}
         /\ StartOver(a).recovering = {}
         /\ StartOver(a).pruned = {}
         /\ StartOver(a).unpins = {}
<1>1. a.emitted \in SUBSET Block /\ {} \in SUBSET Block
  BY DEF Accumulator
<1>2. \A e \in SUBSET Block :
         /\ [Initial EXCEPT !.emitted = e] \in Accumulator
         /\ [Initial EXCEPT !.emitted = e].phase = "Initializing"
         /\ [Initial EXCEPT !.emitted = e].blocks = {}
         /\ [Initial EXCEPT !.emitted = e].recovering = {}
         /\ [Initial EXCEPT !.emitted = e].pruned = {}
         /\ [Initial EXCEPT !.emitted = e].unpins = {}
  BY InitialFacts DEF Accumulator
<1>3. /\ ResetState(a) \in Accumulator
      /\ ResetState(a).phase = "Initializing"
      /\ ResetState(a).blocks = {}
      /\ ResetState(a).recovering = {}
      /\ ResetState(a).pruned = {}
      /\ ResetState(a).unpins = {}
  BY <1>1, <1>2 DEF ResetState
<1>4. \A r \in Accumulator :
         /\ [r EXCEPT !.emitted = {}] \in Accumulator
         /\ [r EXCEPT !.emitted = {}].blocks = r.blocks
         /\ [r EXCEPT !.emitted = {}].recovering = r.recovering
         /\ [r EXCEPT !.emitted = {}].pruned = r.pruned
         /\ [r EXCEPT !.emitted = {}].unpins = r.unpins
  BY DEF Accumulator
<1>5. StartOver(a) = [ResetState(a) EXCEPT !.emitted = {}]
  BY DEF StartOver
<1>6. QED
  BY <1>3, <1>4, <1>5

\* The entries of the deleted blocks are empty, the others do not name them.
Cleared(d, a, gone) ==
  /\ \A b \in Block : d.children[b] = IF b \in gone THEN {} ELSE a.children[b] \ gone
  /\ \A b \in Block : d.refCount[b] = IF b \in gone THEN 0 ELSE a.refCount[b]
  /\ \A b \in Block : d.runtime[b] = IF b \in gone THEN NoCode ELSE a.runtime[b]
  /\ \A c \in Codes : d.usages[c] = a.usages[c] \ gone

LEMMA DeleteFacts ==
  ASSUME NEW a \in Accumulator, NEW gone \in SUBSET Block
  PROVE  LET d == DeleteBlocks(a, gone)
         IN  /\ d \in Accumulator
             /\ d.phase = a.phase
             /\ d.target = a.target
             /\ d.pending = a.pending
             /\ d.blocks = a.blocks \ gone
             /\ d.recovering = a.recovering \ gone
             /\ d.pruned = a.pruned \ gone
             /\ Cleared(d, a, gone)
             /\ d.best = a.best
             /\ d.finalized = a.finalized
             /\ d.finRuntime = a.finRuntime
             /\ d.emitted = a.emitted
             /\ d.unpins = a.unpins
<1> DEFINE ch == [b \in Block |-> IF b \in gone THEN {} ELSE a.children[b] \ gone]
           rc == [b \in Block |-> IF b \in gone THEN 0 ELSE a.refCount[b]]
           rt == [b \in Block |-> IF b \in gone THEN NoCode ELSE a.runtime[b]]
           us == [c \in Codes |-> a.usages[c] \ gone]
           d == [a EXCEPT !.blocks     = a.blocks \ gone,
                          !.recovering = a.recovering \ gone,
                          !.pruned     = a.pruned \ gone,
                          !.children   = ch,
                          !.refCount   = rc,
                          !.runtime    = rt,
                          !.usages     = us]
<1>1. /\ ch \in [Block -> SUBSET Block]
      /\ rc \in [Block -> Int]
      /\ rt \in [Block -> Codes \cup {NoCode}]
      /\ us \in [Codes -> SUBSET Block]
  BY DEF Accumulator
<1>2. /\ a.blocks \ gone \in SUBSET Block
      /\ a.recovering \ gone \in SUBSET Block
      /\ a.pruned \ gone \in SUBSET Block
  BY DEF Accumulator
<1>3. /\ \A b \in Block : /\ ch[b] = IF b \in gone THEN {} ELSE a.children[b] \ gone
                          /\ rc[b] = IF b \in gone THEN 0 ELSE a.refCount[b]
                          /\ rt[b] = IF b \in gone THEN NoCode ELSE a.runtime[b]
      /\ \A c \in Codes : us[c] = a.usages[c] \ gone
  OBVIOUS
<1>4. DeleteBlocks(a, gone) = d
  BY DEF DeleteBlocks
<1> HIDE DEF ch, rc, rt, us
<1>5. /\ d \in Accumulator
      /\ d.phase = a.phase
      /\ d.target = a.target
      /\ d.pending = a.pending
      /\ d.blocks = a.blocks \ gone
      /\ d.recovering = a.recovering \ gone
      /\ d.pruned = a.pruned \ gone
      /\ d.children = ch
      /\ d.refCount = rc
      /\ d.runtime = rt
      /\ d.usages = us
      /\ d.best = a.best
      /\ d.finalized = a.finalized
      /\ d.finRuntime = a.finRuntime
      /\ d.emitted = a.emitted
      /\ d.unpins = a.unpins
  BY <1>1, <1>2 DEF Accumulator
<1> HIDE DEF d
<1>6. Cleared(d, a, gone)
  BY <1>3, <1>5 DEF Cleared
<1>7. QED
  BY <1>4, <1>5, <1>6

LEMMA SetToReadyFacts ==
  ASSUME NEW a \in Accumulator
  PROVE  LET r == SetToReady(a)
         IN  /\ r \in Accumulator
             /\ r.phase = "Ready"
             /\ r.pending = <<>>
             /\ r.blocks = a.blocks \ a.recovering
             /\ r.recovering = {}
             /\ r.pruned = a.pruned \ a.recovering
             /\ Cleared(r, a, a.recovering)
             /\ r.best = a.best
             /\ r.finalized = a.finalized
             /\ r.finRuntime = a.finRuntime
             /\ r.emitted = a.emitted \cup Range(a.pending)
             /\ r.unpins = a.unpins
<1> DEFINE d == DeleteBlocks(a, a.recovering)
           more == a.emitted \cup Range(a.pending)
           r == [d EXCEPT !.phase = "Ready", !.pending = <<>>, !.target = -1,
                          !.emitted = more]
<1>1. a.recovering \in SUBSET Block /\ a.emitted \in SUBSET Block /\ a.pending \in Seq(Block)
  BY DEF Accumulator
<1>2. /\ d \in Accumulator
      /\ d.blocks = a.blocks \ a.recovering
      /\ d.recovering = {}
      /\ d.pruned = a.pruned \ a.recovering
      /\ d.best = a.best
      /\ d.finalized = a.finalized
      /\ d.finRuntime = a.finRuntime
      /\ d.emitted = a.emitted
      /\ d.unpins = a.unpins
      /\ Cleared(d, a, a.recovering)
  BY <1>1, DeleteFacts
<1>3. more \in SUBSET Block /\ <<>> \in Seq(Block) /\ -1 \in Int /\ "Ready" \in Phases
  BY <1>1 DEF Range, Phases
<1>4. SetToReady(a) = r
  BY <1>2 DEF SetToReady
<1> HIDE DEF d, more
<1>5. /\ r \in Accumulator
      /\ r.phase = "Ready"
      /\ r.pending = <<>>
      /\ r.emitted = more
      /\ r.blocks = d.blocks
      /\ r.recovering = d.recovering
      /\ r.pruned = d.pruned
      /\ r.children = d.children
      /\ r.refCount = d.refCount
      /\ r.runtime = d.runtime
      /\ r.usages = d.usages
      /\ r.best = d.best
      /\ r.finalized = d.finalized
      /\ r.finRuntime = d.finRuntime
      /\ r.unpins = d.unpins
  BY <1>2, <1>3 DEF Accumulator
<1> HIDE DEF r
<1>6. Cleared(r, a, a.recovering)
  BY <1>2, <1>5 DEF Cleared
<1>7. QED
  BY <1>2, <1>4, <1>5, <1>6 DEF more

LEMMA UnpinFacts ==
  ASSUME NEW a \in Accumulator, NEW targets \in SUBSET Block
  PROVE  LET gone == {b \in targets : Unpinnable(a, b)}
             t == TryToUnpin(a, targets)
         IN  /\ t \in Accumulator
             /\ t.phase = a.phase
             /\ t.target = a.target
             /\ t.pending = a.pending
             /\ t.blocks = a.blocks \ gone
             /\ t.recovering = a.recovering \ gone
             /\ t.pruned = a.pruned \ gone
             /\ Cleared(t, a, gone)
             /\ t.best = a.best
             /\ t.finalized = a.finalized
             /\ t.finRuntime = a.finRuntime
             /\ t.emitted = a.emitted
             /\ t.unpins = gone
<1> DEFINE gone == {b \in targets : Unpinnable(a, b)}
           d == DeleteBlocks(a, gone)
           t == [d EXCEPT !.unpins = gone]
<1>1. gone \in SUBSET Block
  OBVIOUS
<1>2. TryToUnpin(a, targets) = t
  BY DEF TryToUnpin
<1> HIDE DEF gone
<1>3. /\ d \in Accumulator
      /\ d.phase = a.phase
      /\ d.target = a.target
      /\ d.pending = a.pending
      /\ d.blocks = a.blocks \ gone
      /\ d.recovering = a.recovering \ gone
      /\ d.pruned = a.pruned \ gone
      /\ Cleared(d, a, gone)
      /\ d.best = a.best
      /\ d.finalized = a.finalized
      /\ d.finRuntime = a.finRuntime
      /\ d.emitted = a.emitted
  BY <1>1, DeleteFacts
<1> HIDE DEF d
<1>4. /\ t \in Accumulator
      /\ t.phase = d.phase
      /\ t.target = d.target
      /\ t.pending = d.pending
      /\ t.blocks = d.blocks
      /\ t.recovering = d.recovering
      /\ t.pruned = d.pruned
      /\ t.children = d.children
      /\ t.refCount = d.refCount
      /\ t.runtime = d.runtime
      /\ t.usages = d.usages
      /\ t.best = d.best
      /\ t.finalized = d.finalized
      /\ t.finRuntime = d.finRuntime
      /\ t.emitted = d.emitted
      /\ t.unpins = gone
  BY <1>1, <1>3 DEF Accumulator
<1> HIDE DEF t
<1>5. /\ t.phase = a.phase
      /\ t.target = a.target
      /\ t.pending = a.pending
      /\ t.blocks = a.blocks \ gone
      /\ t.recovering = a.recovering \ gone
      /\ t.pruned = a.pruned \ gone
      /\ t.best = a.best
      /\ t.finalized = a.finalized
      /\ t.finRuntime = a.finRuntime
      /\ t.emitted = a.emitted
  BY <1>3, <1>4
<1>6. Cleared(t, a, gone)
  BY <1>3, <1>4 DEF Cleared
<1>7. QED
  BY <1>2, <1>4, <1>5, <1>6 DEF gone
\* The runtime of a finalized block that is added: its own if it makes one.
MakesRuntime(a, w, i, h) ==
  ChangesRuntime(w, i) /\ a.usages[Code[w[i]]] = {} /\ Height[w[i]] > h
RuntimeInWindow(a, w, i, h) ==
  IF MakesRuntime(a, w, i, h) THEN Code[w[i]] ELSE a.finRuntime
NoRuntime(a, w, i, h) ==
  LET r == RuntimeInWindow(a, w, i, h)
  IN  r = NoCode \/ (~MakesRuntime(a, w, i, h) /\ a.usages[r] = {})

IsAdded(a, w, i, h) ==
  /\ a \in Accumulator
  /\ w \in Seq(Block) /\ i \in 1 .. Len(w) /\ h \in Int
  /\ w[i] \notin a.blocks
  /\ ~NoRuntime(a, w, i, h)

LEMMA AddKnown ==
  ASSUME NEW a \in Accumulator, NEW w, NEW i, NEW h, w[i] \in a.blocks
  PROVE  LET x == AddFinalized(a, w, i, h)
         IN  /\ x \in Accumulator
             /\ x.phase = a.phase
             /\ x.target = a.target
             /\ x.pending = a.pending
             /\ x.blocks = a.blocks
             /\ x.recovering = a.recovering \ {w[i]}
             /\ x.pruned = a.pruned
             /\ x.children = a.children
             /\ x.refCount = a.refCount
             /\ x.runtime = a.runtime
             /\ x.usages = a.usages
             /\ x.best = a.best
             /\ x.finalized = a.finalized
             /\ x.finRuntime = a.finRuntime
             /\ x.emitted = a.emitted
             /\ x.unpins = a.unpins
<1> DEFINE x == [a EXCEPT !.recovering = a.recovering \ {w[i]}]
<1>1. AddFinalized(a, w, i, h) = x
  BY DEF AddFinalized
<1>2. a.recovering \ {w[i]} \in SUBSET Block
  BY DEF Accumulator
<1>3. /\ x \in Accumulator
      /\ x.phase = a.phase
      /\ x.target = a.target
      /\ x.pending = a.pending
      /\ x.blocks = a.blocks
      /\ x.recovering = a.recovering \ {w[i]}
      /\ x.pruned = a.pruned
      /\ x.children = a.children
      /\ x.refCount = a.refCount
      /\ x.runtime = a.runtime
      /\ x.usages = a.usages
      /\ x.best = a.best
      /\ x.finalized = a.finalized
      /\ x.finRuntime = a.finRuntime
      /\ x.emitted = a.emitted
      /\ x.unpins = a.unpins
  BY <1>2 DEF Accumulator
<1> HIDE DEF x
<1>4. QED
  BY <1>1, <1>3

\* The entries of the block that is added, and of the codes.
PlacedInWindow(x, a, w, i, r) ==
  \A b \in Block : /\ x.children[b] = IF b = w[i] THEN NextOf(w, i) ELSE a.children[b]
                   /\ x.runtime[b] = IF b = w[i] THEN r ELSE a.runtime[b]

UsageAdded(x, a, b, r) ==
  \A c \in Codes : x.usages[c] = IF c = r THEN a.usages[c] \cup {b} ELSE a.usages[c]

LEMMA AddNew ==
  ASSUME NEW a \in Accumulator, NEW w \in Seq(Block), NEW i \in 1 .. Len(w), NEW h \in Int,
         IsAdded(a, w, i, h)
  PROVE  LET x == AddFinalized(a, w, i, h)
             r == RuntimeInWindow(a, w, i, h)
         IN  /\ r \in Codes
             /\ x \in Accumulator
             /\ x.phase = a.phase
             /\ x.target = a.target
             /\ x.pending = IF Height[w[i]] > h THEN Append(a.pending, w[i]) ELSE a.pending
             /\ x.blocks = a.blocks \cup {w[i]}
             /\ x.recovering = a.recovering
             /\ x.pruned = a.pruned
             /\ PlacedInWindow(x, a, w, i, r)
             /\ x.refCount = a.refCount
             /\ UsageAdded(x, a, w[i], r)
             /\ x.best = a.best
             /\ x.finalized = a.finalized
             /\ x.finRuntime = r
             /\ x.emitted = a.emitted
             /\ x.unpins = a.unpins
<1> DEFINE r  == RuntimeInWindow(a, w, i, h)
           pe == IF Height[w[i]] > h THEN Append(a.pending, w[i]) ELSE a.pending
           ch == [a.children EXCEPT ![w[i]] = NextOf(w, i)]
           rt == [a.runtime EXCEPT ![w[i]] = r]
           us == [a.usages EXCEPT ![r] = a.usages[r] \cup {w[i]}]
           x  == [a EXCEPT !.blocks     = a.blocks \cup {w[i]},
                           !.children   = ch,
                           !.runtime    = rt,
                           !.usages     = us,
                           !.finRuntime = r,
                           !.pending    = pe]
<1>0. /\ a \in Accumulator
      /\ w \in Seq(Block) /\ i \in 1 .. Len(w) /\ h \in Int
      /\ w[i] \notin a.blocks
      /\ ~NoRuntime(a, w, i, h)
  BY DEF IsAdded
<1> USE <1>0
<1>1. AddFinalized(a, w, i, h) = x
  <2>1. AddFinalized(a, w, i, h) = IF w[i] \in a.blocks THEN [a EXCEPT !.recovering = @ \ {w[i]}]
                                   ELSE IF NoRuntime(a, w, i, h) THEN Fail(a)
                                   ELSE x
    BY Zenon DEF AddFinalized, NoRuntime, MakesRuntime, RuntimeInWindow
  <2> HIDE DEF x
  <2>2. QED
    BY <2>1
<1>2. w[i] \in Block /\ NextOf(w, i) \in SUBSET Block
  BY DEF NextOf
<1>3. r \in Codes
  BY <1>2 DEF NoRuntime, RuntimeInWindow, Accumulator, Codes
<1> HIDE DEF r
<1>4. /\ a.blocks \cup {w[i]} \in SUBSET Block
      /\ ch \in [Block -> SUBSET Block]
      /\ rt \in [Block -> Codes \cup {NoCode}]
      /\ us \in [Codes -> SUBSET Block]
      /\ pe \in Seq(Block)
  BY <1>2, <1>3 DEF Accumulator
<1>7. /\ \A b \in Block : /\ ch[b] = IF b = w[i] THEN NextOf(w, i) ELSE a.children[b]
                          /\ rt[b] = IF b = w[i] THEN r ELSE a.runtime[b]
      /\ \A c \in Codes : us[c] = IF c = r THEN a.usages[c] \cup {w[i]} ELSE a.usages[c]
  BY DEF Accumulator
<1> HIDE DEF pe, ch, rt, us
<1>5. /\ x \in Accumulator
      /\ x.phase = a.phase
      /\ x.target = a.target
      /\ x.pending = pe
      /\ x.blocks = a.blocks \cup {w[i]}
      /\ x.recovering = a.recovering
      /\ x.pruned = a.pruned
      /\ x.children = ch
      /\ x.refCount = a.refCount
      /\ x.runtime = rt
      /\ x.usages = us
      /\ x.best = a.best
      /\ x.finalized = a.finalized
      /\ x.finRuntime = r
      /\ x.emitted = a.emitted
      /\ x.unpins = a.unpins
  BY <1>3, <1>4 DEF Accumulator
<1> HIDE DEF x
<1>6. QED
  BY <1>1, <1>3, <1>5, <1>7 DEF r, pe, PlacedInWindow, UsageAdded

\* The blocks that are there have a runtime.
HasRuntimes(a) == \A b \in a.blocks : a.runtime[b] \in Codes

\* What is added either way.
LEMMA AddFacts ==
  ASSUME NEW a \in Accumulator, NEW w \in Seq(Block), NEW i \in 1 .. Len(w), NEW h \in Int,
         a.recovering \subseteq a.blocks
  PROVE  LET x == AddFinalized(a, w, i, h)
         IN  /\ x \in Accumulator
             /\ x.phase \in {a.phase, "Failed"}
             /\ a.blocks \subseteq x.blocks
             /\ x.recovering \subseteq x.blocks
             /\ x.phase # "Failed" => /\ x.blocks = a.blocks \cup {w[i]}
                                      /\ x.recovering = a.recovering \ {w[i]}
             /\ x.pruned = a.pruned
             /\ x.unpins = a.unpins
             /\ HasRuntimes(a) => HasRuntimes(x)
<1>1. CASE w[i] \in a.blocks
  BY <1>1, AddKnown DEF HasRuntimes
<1>2. CASE w[i] \notin a.blocks /\ ~NoRuntime(a, w, i, h)
  <2> DEFINE x == AddFinalized(a, w, i, h)
  <2>1. /\ x \in Accumulator
        /\ x.phase = a.phase
        /\ x.blocks = a.blocks \cup {w[i]}
        /\ x.recovering = a.recovering
        /\ x.pruned = a.pruned
        /\ x.unpins = a.unpins
        /\ \E r \in Codes : PlacedInWindow(x, a, w, i, r)
    <3>1. IsAdded(a, w, i, h)
      BY <1>2 DEF IsAdded
    <3>2. QED
      BY <3>1, AddNew
  <2>2. a.recovering \ {w[i]} = a.recovering
    BY <1>2
  <2>3. x.recovering \subseteq x.blocks /\ a.blocks \subseteq x.blocks
    BY <2>1
  <2> HIDE DEF x
  <2>4. HasRuntimes(a) => HasRuntimes(x)
    BY <2>1 DEF HasRuntimes, Accumulator, PlacedInWindow
  <2>5. QED
    BY <2>1, <2>2, <2>3, <2>4 DEF x
<1>3. CASE w[i] \notin a.blocks /\ NoRuntime(a, w, i, h)
  <2>1. AddFinalized(a, w, i, h) = Fail(a)
    BY <1>3 DEF AddFinalized, NoRuntime, MakesRuntime, RuntimeInWindow
  <2>2. HasRuntimes(a) => HasRuntimes(Fail(a))
    BY DEF HasRuntimes, Fail, Accumulator
  <2>3. QED
    BY <2>1, <2>2, FailFacts
<1>4. QED
  BY <1>1, <1>2, <1>3

\* The window is added one block after the other.
Adds(f, a, w, h) ==
  /\ f \in [0 .. Len(w) -> Accumulator]
  /\ f[0] = a
  /\ \A i \in 1 .. Len(w) : f[i] = AddFinalized(f[i - 1], w, i, h)

LEMMA AddWindowUnfolds ==
  ASSUME NEW a \in Accumulator, NEW w \in Seq(Block), NEW h \in Int,
         a.recovering \subseteq a.blocks
  PROVE  \E f : Adds(f, a, w, h) /\ AddWindow(a, w, h) = f[Len(w)]
<1> DEFINE D == 0 .. Len(w)
           V == {x \in Accumulator : x.recovering \subseteq x.blocks}
           rank == [i \in D |-> i]
           below == [i \in D |-> IF i = 0 THEN 0 ELSE i - 1]
           start == [i \in D |-> a]
           F == [i \in D |-> [x \in V |-> IF i = 0 THEN x ELSE AddFinalized(x, w, i, h)]]
<1>1. Len(w) \in Nat
  OBVIOUS
<1>2. Ranks(rank, below, {0}, D)
  BY <1>1 DEF Ranks
<1>3. Steps(start, F, D, V)
  <2>1. ASSUME NEW i \in D, NEW x \in V, i # 0 PROVE AddFinalized(x, w, i, h) \in V
    <3>1. i \in 1 .. Len(w)
      BY <2>1, <1>1
    <3>2. QED
      BY <3>1, AddFacts
  <2>2. a \in V
    OBVIOUS
  <2> HIDE DEF V, D
  <2>3. QED
    BY <2>1, <2>2 DEF Steps
<1>4. PICK g \in [D -> V] : Solves(g, start, F, below, {0}, D)
  <2> HIDE DEF D, V, rank, below, start, F
  <2>1. QED
    BY <1>2, <1>3, RecursionByRank
<1>5. \A i \in D : g[i] = IF i = 0 THEN a ELSE AddFinalized(g[i - 1], w, i, h)
  <2>1. g[0] = a
    <3>1. 0 \in D /\ start[0] = a
      BY <1>1
    <3> HIDE DEF D, V, F, start, below
    <3>2. QED
      BY <3>1, <1>4 DEF Solves
  <2>2. ASSUME NEW i \in D, i # 0 PROVE g[i] = AddFinalized(g[i - 1], w, i, h)
    <3>1. i - 1 \in D /\ below[i] = i - 1
      BY <2>2, <1>1
    <3>2. g[i - 1] \in V
      BY <3>1, <1>4
    <3> HIDE DEF V
    <3>3. g[i] = F[i][g[below[i]]]
      <4> HIDE DEF F, below, start, D
      <4>1. QED
        BY <2>2, <1>4 DEF Solves
    <3>4. F[i][g[i - 1]] = AddFinalized(g[i - 1], w, i, h)
      <4> HIDE DEF D
      <4>1. QED
        BY <2>2, <3>2
    <3>5. QED
      BY <3>1, <3>3, <3>4
  <2>3. QED
    BY <2>1, <2>2
<1> DEFINE Eq(f) == f = [i \in 0 .. Len(w) |->
                          IF i = 0 THEN a ELSE AddFinalized(f[i - 1], w, i, h)]
           added == CHOOSE f : Eq(f)
<1>6. Eq(g)
  <2>1. g = [i \in D |-> g[i]]
    OBVIOUS
  <2>2. QED
    BY <2>1, <1>5, Zenon
<1>7. Eq(added)
  <2> HIDE DEF Eq
  <2>1. QED
    BY <1>6, Zenon
<1>8. AddWindow(a, w, h) = added[Len(w)]
  BY DEF AddWindow
<1> HIDE DEF added
<1>9. /\ added[0] = a
      /\ \A i \in 1 .. Len(w) : added[i] = AddFinalized(added[i - 1], w, i, h)
  <2> DEFINE AddedAt(i) == IF i = 0 THEN a ELSE AddFinalized(added[i - 1], w, i, h)
  <2>1. added = [i \in 0 .. Len(w) |-> AddedAt(i)]
    BY <1>7
  <2>2. ASSUME NEW i \in 0 .. Len(w) PROVE added[i] = AddedAt(i)
    <3> HIDE DEF AddedAt
    <3>1. QED
      BY <2>1
  <2>3. 0 \in 0 .. Len(w) /\ \A i \in 1 .. Len(w) : i \in 0 .. Len(w) /\ i # 0
    BY <1>1
  <2>4. added[0] = a
    BY <2>2, <2>3
  <2>5. ASSUME NEW i \in 1 .. Len(w) PROVE added[i] = AddFinalized(added[i - 1], w, i, h)
    BY <2>2, <2>3
  <2>6. QED
    BY <2>4, <2>5
<1>10. \A i \in D : added[i] \in V
  <2> DEFINE N == {n \in Nat : n \in D => added[n] \in V}
  <2>1. 0 \in N
    BY <1>9
  <2>2. ASSUME NEW n \in Nat, n \in N PROVE n + 1 \in N
    <3>1. ASSUME n + 1 \in D PROVE added[n + 1] \in V
      <4>1. n + 1 \in 1 .. Len(w) /\ added[n] \in V
        BY <2>2, <3>1, <1>1
      <4>2. added[n + 1] = AddFinalized(added[n], w, n + 1, h)
        BY <4>1, <1>9
      <4>3. AddFinalized(added[n], w, n + 1, h) \in V
        BY <4>1, AddFacts
      <4>4. QED
        BY <4>2, <4>3
    <3>2. QED
      BY <3>1
  <2> HIDE DEF N
  <2>3. Nat \subseteq N
    BY <2>1, <2>2, InductionOverNat
  <2>4. QED
    BY <2>3, <1>1 DEF N
<1>11. added \in [0 .. Len(w) -> Accumulator]
  <2>1. DOMAIN added = D /\ added = [i \in D |-> added[i]]
    BY <1>7
  <2>2. QED
    BY <2>1, <1>10
<1>12. QED
  BY <1>8, <1>9, <1>11 DEF Adds
\* Where an initialized event starts from.
Base(a, w) ==
  IF a.phase = "RecoveringInit" /\ ~(\E i \in 1 .. Len(w) : w[i] \in a.blocks)
    THEN StartOver(a)
    ELSE a
LatestHeight(a, w) == NumberOf(Base(a, w), Base(a, w).finalized)
Lags(a, w) == LatestHeight(a, w) > Height[w[Len(w)]]
StartOf(a, w) ==
  [Base(a, w) EXCEPT
     !.phase     = IF Lags(a, w) THEN "RecoveringFin" ELSE "Initializing",
     !.target    = IF Lags(a, w) THEN LatestHeight(a, w) ELSE -1,
     !.pending   = <<>>,
     !.finalized = IF Lags(a, w) THEN @ ELSE w[Len(w)]]
IsExpected(a, w) ==
  /\ a.phase \in {"Initializing", "RecoveringInit"}
  /\ Base(a, w).finRuntime # NoCode \/ Base(a, w).finalized = NoBlock

LEMMA InitializedCases ==
  ASSUME NEW a, NEW w
  PROVE  OnInitialized(a, w) = IF IsExpected(a, w)
                                 THEN AddWindow(StartOf(a, w), w, LatestHeight(a, w))
                                 ELSE Fail(a)
BY Zenon DEF OnInitialized, IsExpected, StartOf, Lags, LatestHeight, Base

LEMMA StartFacts ==
  ASSUME NEW a \in Accumulator, NEW w \in Seq(Block), Len(w) > 0
  PROVE  LET s == StartOf(a, w)
             b == Base(a, w)
         IN  /\ b \in Accumulator
             /\ LatestHeight(a, w) \in Int
             /\ s \in Accumulator
             /\ s.phase = IF Lags(a, w) THEN "RecoveringFin" ELSE "Initializing"
             /\ s.target = IF Lags(a, w) THEN LatestHeight(a, w) ELSE -1
             /\ s.pending = <<>>
             /\ s.blocks = b.blocks
             /\ s.recovering = b.recovering
             /\ s.pruned = b.pruned
             /\ s.children = b.children
             /\ s.refCount = b.refCount
             /\ s.runtime = b.runtime
             /\ s.usages = b.usages
             /\ s.best = b.best
             /\ s.finalized = IF Lags(a, w) THEN b.finalized ELSE w[Len(w)]
             /\ s.finRuntime = b.finRuntime
             /\ s.emitted = b.emitted
             /\ s.unpins = b.unpins
<1> DEFINE b  == Base(a, w)
           ph == IF Lags(a, w) THEN "RecoveringFin" ELSE "Initializing"
           ta == IF Lags(a, w) THEN LatestHeight(a, w) ELSE -1
           fi == IF Lags(a, w) THEN b.finalized ELSE w[Len(w)]
           s  == [b EXCEPT !.phase = ph, !.target = ta, !.pending = <<>>, !.finalized = fi]
<1>1. b \in Accumulator
  BY ResetFacts DEF Base
<1>2. StartOf(a, w) = s
  BY DEF StartOf
<1> HIDE DEF b
<1>3. NumberOf(b, b.finalized) \in Int
  BY <1>1, ChainAssumption DEF NumberOf, Accumulator
<1>4. LatestHeight(a, w) \in Int
  BY <1>3 DEF LatestHeight, b
<1>5. w[Len(w)] \in Block
  OBVIOUS
<1>6. ph \in Phases /\ ta \in Int /\ <<>> \in Seq(Block) /\ fi \in Block \cup {NoBlock}
  BY <1>1, <1>4, <1>5 DEF Phases, Accumulator
<1> HIDE DEF ph, ta, fi
<1>7. /\ s \in Accumulator
      /\ s.phase = ph
      /\ s.target = ta
      /\ s.pending = <<>>
      /\ s.blocks = b.blocks
      /\ s.recovering = b.recovering
      /\ s.pruned = b.pruned
      /\ s.children = b.children
      /\ s.refCount = b.refCount
      /\ s.runtime = b.runtime
      /\ s.usages = b.usages
      /\ s.best = b.best
      /\ s.finalized = fi
      /\ s.finRuntime = b.finRuntime
      /\ s.emitted = b.emitted
      /\ s.unpins = b.unpins
  BY <1>1, <1>6 DEF Accumulator
<1> HIDE DEF s
<1>8. QED
  BY <1>1, <1>2, <1>4, <1>7 DEF b, ph, ta, fi

\* What the window adds to the blocks, whatever it finds: the ones that are not
\* recovering any more are those of the window.
LEMMA AddedBlocks ==
  ASSUME NEW a \in Accumulator, NEW w \in Seq(Block), NEW h \in Int,
         a.recovering \subseteq a.blocks, a.pruned \subseteq a.blocks
  PROVE  LET x == AddWindow(a, w, h)
         IN  /\ x \in Accumulator
             /\ x.phase \in {a.phase, "Failed"}
             /\ x.recovering \subseteq x.blocks
             /\ x.pruned = a.pruned /\ x.pruned \subseteq x.blocks
             /\ x.unpins = a.unpins
             /\ HasRuntimes(a) => HasRuntimes(x)
             /\ x.phase # "Failed" => /\ x.blocks = a.blocks \cup Range(w)
                                      /\ x.recovering = a.recovering \ Range(w)
<1>1. PICK f : Adds(f, a, w, h) /\ AddWindow(a, w, h) = f[Len(w)]
  BY AddWindowUnfolds
<1>2. /\ f \in [0 .. Len(w) -> Accumulator]
      /\ f[0] = a
      /\ \A i \in 1 .. Len(w) : f[i] = AddFinalized(f[i - 1], w, i, h)
      /\ Len(w) \in Nat
  BY <1>1 DEF Adds
<1> DEFINE First(i) == {w[j] : j \in 1 .. i}
           Right(i) == /\ f[i].phase \in {a.phase, "Failed"}
                       /\ a.blocks \subseteq f[i].blocks
                       /\ f[i].recovering \subseteq f[i].blocks
                       /\ f[i].pruned = a.pruned
                       /\ f[i].unpins = a.unpins
                       /\ HasRuntimes(a) => HasRuntimes(f[i])
                       /\ f[i].phase # "Failed" => /\ f[i].blocks = a.blocks \cup First(i)
                                                   /\ f[i].recovering = a.recovering \ First(i)
           N == {i \in Nat : i <= Len(w) => Right(i)}
<1>3. 0 \in N
  BY <1>2
<1>4. ASSUME NEW i \in Nat, i \in N PROVE i + 1 \in N
  <2> SUFFICES ASSUME i + 1 <= Len(w) PROVE Right(i + 1)
    OBVIOUS
  <2> DEFINE b == f[i]
             x == f[i + 1]
  <2>1. Right(i) /\ i + 1 \in 1 .. Len(w) /\ i \in 0 .. Len(w)
    BY <1>2, <1>4
  <2>2. b \in Accumulator /\ b.recovering \subseteq b.blocks /\ (i + 1) - 1 = i
    BY <2>1, <1>2
  <2>3. x = AddFinalized(b, w, i + 1, h)
    BY <2>1, <2>2, <1>2
  <2>4. /\ x.phase \in {b.phase, "Failed"}
        /\ b.blocks \subseteq x.blocks
        /\ x.recovering \subseteq x.blocks
        /\ x.phase # "Failed" => /\ x.blocks = b.blocks \cup {w[i + 1]}
                                 /\ x.recovering = b.recovering \ {w[i + 1]}
        /\ x.pruned = b.pruned
        /\ x.unpins = b.unpins
        /\ HasRuntimes(b) => HasRuntimes(x)
    <3> HIDE DEF b, x
    <3>1. QED
      BY <2>1, <2>2, <2>3, AddFacts
  <2>5. First(i + 1) = First(i) \cup {w[i + 1]}
    BY <2>1
  <2> HIDE DEF First
  <2>6. QED
    BY <2>1, <2>4, <2>5
<1> HIDE DEF N
<1>5. Nat \subseteq N
  BY <1>3, <1>4, InductionOverNat
<1>6. Right(Len(w)) /\ f[Len(w)] \in Accumulator
  <2> HIDE DEF Right
  <2>1. Len(w) \in N /\ Len(w) \in 0 .. Len(w)
    BY <1>2, <1>5
  <2>2. Right(Len(w))
    BY <2>1, <1>2 DEF N
  <2>3. QED
    BY <2>1, <2>2, <1>2
<1>7. First(Len(w)) = Range(w)
  <2>1. DOMAIN w = 1 .. Len(w)
    OBVIOUS
  <2>2. QED
    BY <2>1 DEF Range
<1> HIDE DEF First
<1>8. QED
  BY <1>1, <1>6, <1>7

\* So an initialized event makes the pinned blocks those of its window.
LEMMA InitializedFacts ==
  ASSUME NEW a \in Accumulator, NEW w \in Seq(Block), Len(w) > 0,
         a.recovering = a.blocks, a.pruned \subseteq a.blocks, a.unpins = {},
         HasRuntimes(a)
  PROVE  LET x == OnInitialized(a, w)
         IN  /\ x \in Accumulator
             /\ HasRuntimes(x)
             /\ x.recovering \subseteq x.blocks
             /\ x.pruned \subseteq x.blocks
             /\ x.unpins = {}
             /\ x.phase # "Failed" => x.blocks \ x.recovering = Range(w)
<1>1. CASE ~IsExpected(a, w)
  <2>1. OnInitialized(a, w) = Fail(a)
    BY <1>1, InitializedCases
  <2>2. HasRuntimes(Fail(a))
    BY DEF HasRuntimes, Fail, Accumulator
  <2>3. QED
    BY <2>1, <2>2, FailFacts
<1>2. CASE IsExpected(a, w)
  <2> DEFINE s == StartOf(a, w)
             h == LatestHeight(a, w)
             x == AddWindow(s, w, h)
  <2>1. /\ Base(a, w).recovering = Base(a, w).blocks
        /\ Base(a, w).pruned \subseteq Base(a, w).blocks
        /\ Base(a, w).unpins = {}
        /\ HasRuntimes(Base(a, w))
    BY ResetFacts DEF Base, HasRuntimes
  <2>2. /\ s \in Accumulator /\ h \in Int
        /\ HasRuntimes(s)
        /\ s.recovering = s.blocks
        /\ s.pruned \subseteq s.blocks
        /\ s.unpins = {}
    BY <2>1, StartFacts DEF HasRuntimes
  <2>3. OnInitialized(a, w) = x
    BY <1>2, InitializedCases
  <2> HIDE DEF s, h
  <2>4. /\ x \in Accumulator
        /\ HasRuntimes(x)
        /\ x.recovering \subseteq x.blocks
        /\ x.pruned \subseteq x.blocks
        /\ x.unpins = {}
        /\ x.phase # "Failed" => /\ x.blocks = s.blocks \cup Range(w)
                                 /\ x.recovering = s.recovering \ Range(w)
    BY <2>2, AddedBlocks
  <2> HIDE DEF x
  <2>5. QED
    BY <2>2, <2>3, <2>4
<1>3. QED
  BY <1>1, <1>2
\* The other events of the subscription.
LEMMA StopFacts ==
  ASSUME NEW a \in Accumulator
  PROVE  LET x == OnStop(a)
         IN  /\ x \in Accumulator
             /\ x.recovering = x.blocks
             /\ a.pruned \subseteq a.blocks => x.pruned \subseteq x.blocks
             /\ a.unpins = {} => x.unpins = {}
             /\ HasRuntimes(a) => HasRuntimes(x)
             /\ x.phase \in {"Initializing", "RecoveringInit"}
<1> DEFINE s == [a EXCEPT !.phase = "RecoveringInit", !.pending = <<>>, !.target = -1,
                          !.recovering = a.blocks]
<1>1. OnStop(a) = IF a.phase = "Initializing" THEN ResetState(a) ELSE s
  BY DEF OnStop
<1>2. "RecoveringInit" \in Phases /\ <<>> \in Seq(Block) /\ -1 \in Int
  BY DEF Phases
<1>3. /\ s \in Accumulator
      /\ s.phase = "RecoveringInit"
      /\ s.blocks = a.blocks
      /\ s.recovering = a.blocks
      /\ s.pruned = a.pruned
      /\ s.unpins = a.unpins
      /\ s.runtime = a.runtime
  BY <1>2 DEF Accumulator
<1> HIDE DEF s
<1>4. QED
  BY <1>1, <1>3, ResetFacts DEF HasRuntimes

LEMMA NewBlockKnown ==
  ASSUME NEW a \in Accumulator, NEW b \in Block, NEW isNew \in BOOLEAN, b \in a.blocks
  PROVE  LET x == OnNewBlock(a, b, isNew)
         IN  /\ x \in Accumulator
             /\ x.recovering = a.recovering \ {b}
             /\ x.phase = a.phase
             /\ x.target = a.target
             /\ x.pending = a.pending
             /\ x.blocks = a.blocks
             /\ x.children = a.children
             /\ x.refCount = a.refCount
             /\ x.pruned = a.pruned
             /\ x.best = a.best
             /\ x.finalized = a.finalized
             /\ x.runtime = a.runtime
             /\ x.usages = a.usages
             /\ x.finRuntime = a.finRuntime
             /\ x.emitted = a.emitted
             /\ x.unpins = a.unpins
<1> DEFINE x == [a EXCEPT !.recovering = a.recovering \ {b}]
<1>1. OnNewBlock(a, b, isNew) = x
  BY DEF OnNewBlock
<1>2. a.recovering \ {b} \in SUBSET Block
  BY DEF Accumulator
<1>3. /\ x \in Accumulator
      /\ x.recovering = a.recovering \ {b}
      /\ x.phase = a.phase
      /\ x.target = a.target
      /\ x.pending = a.pending
      /\ x.blocks = a.blocks
      /\ x.children = a.children
      /\ x.refCount = a.refCount
      /\ x.pruned = a.pruned
      /\ x.best = a.best
      /\ x.finalized = a.finalized
      /\ x.runtime = a.runtime
      /\ x.usages = a.usages
      /\ x.finRuntime = a.finRuntime
      /\ x.emitted = a.emitted
      /\ x.unpins = a.unpins
  BY <1>2 DEF Accumulator
<1> HIDE DEF x
<1>4. QED
  BY <1>1, <1>3

\* The new block stands on one that is there, and its runtime has a usage.
CanStand(a, b, isNew) ==
  /\ a \in Accumulator /\ b \in Block /\ isNew \in BOOLEAN
  /\ b \notin a.blocks
  /\ Parent[b] \in a.blocks
  /\ RuntimeFor(a, b, isNew) \in Codes
  /\ RuntimesWith(a, b, isNew)[RuntimeFor(a, b, isNew)] # {}

\* The effects of a new block and of a use on the entries of the blocks.
Placed(x, a, b, r) ==
  \A y \in Block : /\ x.children[y] = IF y = Parent[b] THEN a.children[y] \cup {b}
                                          ELSE a.children[y]
                   /\ x.runtime[y] = IF y = b THEN r ELSE a.runtime[y]

UsagesAdded(x, a, b, isNew, r) ==
  \A c \in Codes : x.usages[c] = IF c # r THEN a.usages[c]
                                  ELSE IF isNew THEN {b} ELSE a.usages[c] \cup {b}

CountChanged(x, a, b, delta) ==
  \A y \in Block : x.refCount[y] = IF y = b THEN a.refCount[y] + delta ELSE a.refCount[y]

LEMMA NewBlockNew ==
  ASSUME NEW a \in Accumulator, NEW b \in Block, NEW isNew \in BOOLEAN, CanStand(a, b, isNew)
  PROVE  LET x == OnNewBlock(a, b, isNew)
             r == RuntimeFor(a, b, isNew)
         IN  /\ x \in Accumulator
             /\ x.phase = a.phase
             /\ x.target = a.target
             /\ x.pending = IF a.phase = "Ready" THEN a.pending ELSE Append(a.pending, b)
             /\ x.blocks = a.blocks \cup {b}
             /\ x.recovering = a.recovering
             /\ x.pruned = a.pruned
             /\ Placed(x, a, b, r)
             /\ x.refCount = a.refCount
             /\ UsagesAdded(x, a, b, isNew, r)
             /\ x.best = a.best
             /\ x.finalized = a.finalized
             /\ x.finRuntime = a.finRuntime
             /\ x.emitted = IF a.phase = "Ready" THEN a.emitted \cup {b} ELSE a.emitted
             /\ x.unpins = a.unpins
<1>0. /\ a \in Accumulator /\ b \in Block /\ isNew \in BOOLEAN
      /\ b \notin a.blocks
      /\ Parent[b] \in a.blocks
      /\ RuntimeFor(a, b, isNew) \in Codes
      /\ RuntimesWith(a, b, isNew)[RuntimeFor(a, b, isNew)] # {}
  BY DEF CanStand
<1> USE <1>0
<1> DEFINE r  == RuntimeFor(a, b, isNew)
           u0 == RuntimesWith(a, b, isNew)
           ch == [a.children EXCEPT ![Parent[b]] = a.children[Parent[b]] \cup {b}]
           rt == [a.runtime EXCEPT ![b] = r]
           us == [u0 EXCEPT ![r] = u0[r] \cup {b}]
           pe == IF a.phase = "Ready" THEN a.pending ELSE Append(a.pending, b)
           em == IF a.phase = "Ready" THEN a.emitted \cup {b} ELSE a.emitted
           x  == [a EXCEPT !.blocks   = a.blocks \cup {b},
                           !.children = ch,
                           !.runtime  = rt,
                           !.usages   = us,
                           !.pending  = pe,
                           !.emitted  = em]
<1>1. Parent[b] \in Block /\ Code[b] \in Codes /\ r \in Codes
  BY ChainAssumption DEF Codes
<1>2. OnNewBlock(a, b, isNew) = x
  <2>1. ~(Parent[b] \notin a.blocks \/ RuntimesWith(a, b, isNew)[RuntimeFor(a, b, isNew)] = {})
    OBVIOUS
  <2>2. OnNewBlock(a, b, isNew) =
          IF b \in a.blocks THEN [a EXCEPT !.recovering = @ \ {b}]
          ELSE IF Parent[b] \notin a.blocks \/ u0[r] = {} THEN Fail(a) ELSE x
    BY DEF OnNewBlock
  <2> HIDE DEF x, u0, r
  <2>3. u0[r] # {}
    BY <2>1 DEF u0, r
  <2>4. QED
    BY <2>2, <2>3
<1>3. /\ u0 \in [Codes -> SUBSET Block]
      /\ isNew => r = Code[b]
      /\ \A c \in Codes : u0[c] = IF isNew /\ c = r THEN {b} ELSE a.usages[c]
  <2>1. isNew => r = Code[b]
    BY DEF RuntimeFor
  <2> HIDE DEF r
  <2>2. a.usages \in [Codes -> SUBSET Block]
    BY DEF Accumulator
  <2>3. QED
    BY <1>1, <2>1, <2>2 DEF RuntimesWith
<1> HIDE DEF r, u0
<1>4. /\ a.blocks \cup {b} \in SUBSET Block
      /\ ch \in [Block -> SUBSET Block]
      /\ rt \in [Block -> Codes \cup {NoCode}]
      /\ us \in [Codes -> SUBSET Block]
      /\ pe \in Seq(Block)
      /\ em \in SUBSET Block
  BY <1>1, <1>3 DEF Accumulator
<1>5. /\ \A y \in Block : /\ ch[y] = IF y = Parent[b] THEN a.children[y] \cup {b} ELSE a.children[y]
                          /\ rt[y] = IF y = b THEN r ELSE a.runtime[y]
      /\ \A c \in Codes : us[c] = IF c # r THEN a.usages[c]
                                   ELSE IF isNew THEN {b} ELSE a.usages[c] \cup {b}
  BY <1>1, <1>3 DEF Accumulator
<1> HIDE DEF ch, rt, us, pe, em
<1>6. /\ x \in Accumulator
      /\ x.phase = a.phase
      /\ x.target = a.target
      /\ x.pending = pe
      /\ x.blocks = a.blocks \cup {b}
      /\ x.recovering = a.recovering
      /\ x.pruned = a.pruned
      /\ x.children = ch
      /\ x.refCount = a.refCount
      /\ x.runtime = rt
      /\ x.usages = us
      /\ x.best = a.best
      /\ x.finalized = a.finalized
      /\ x.finRuntime = a.finRuntime
      /\ x.emitted = em
      /\ x.unpins = a.unpins
  BY <1>4 DEF Accumulator
<1> HIDE DEF x
<1>7. QED
  BY <1>2, <1>5, <1>6 DEF r, pe, em, Placed, UsagesAdded

LEMMA NewBlockFails ==
  ASSUME NEW a, NEW b, NEW isNew, b \notin a.blocks,
         Parent[b] \notin a.blocks
           \/ RuntimesWith(a, b, isNew)[RuntimeFor(a, b, isNew)] = {}
  PROVE  OnNewBlock(a, b, isNew) = Fail(a)
BY DEF OnNewBlock
\* What a best block, a finalized block and a use change before anything is deleted.
BestOf(a, b) == [a EXCEPT !.best = b]

LEMMA BestFacts ==
  ASSUME NEW a \in Accumulator, NEW b \in Block
  PROVE  LET c == BestOf(a, b)
         IN  /\ c \in Accumulator
             /\ c.best = b
             /\ c.phase = a.phase
             /\ c.target = a.target
             /\ c.pending = a.pending
             /\ c.blocks = a.blocks
             /\ c.children = a.children
             /\ c.refCount = a.refCount
             /\ c.recovering = a.recovering
             /\ c.pruned = a.pruned
             /\ c.finalized = a.finalized
             /\ c.runtime = a.runtime
             /\ c.usages = a.usages
             /\ c.finRuntime = a.finRuntime
             /\ c.emitted = a.emitted
             /\ c.unpins = a.unpins
             /\ OnBestBlockChanged(a, b) = IF a.phase = "RecoveringFin" THEN a
                                           ELSE IF a.phase = "Initializing" THEN SetToReady(c)
                                           ELSE c
<1> DEFINE c == [a EXCEPT !.best = b]
<1>1. /\ c \in Accumulator
      /\ c.best = b
      /\ c.phase = a.phase
      /\ c.target = a.target
      /\ c.pending = a.pending
      /\ c.blocks = a.blocks
      /\ c.children = a.children
      /\ c.refCount = a.refCount
      /\ c.recovering = a.recovering
      /\ c.pruned = a.pruned
      /\ c.finalized = a.finalized
      /\ c.runtime = a.runtime
      /\ c.usages = a.usages
      /\ c.finRuntime = a.finRuntime
      /\ c.emitted = a.emitted
      /\ c.unpins = a.unpins
  BY DEF Accumulator
<1>2. BestOf(a, b) = c
  BY DEF BestOf
<1>3. OnBestBlockChanged(a, b) = IF a.phase = "RecoveringFin" THEN a
                                 ELSE IF a.phase = "Initializing" THEN SetToReady(c) ELSE c
  BY DEF OnBestBlockChanged
<1> HIDE DEF c
<1>4. QED
  BY <1>1, <1>2, <1>3

FinalizedBest(a, b) == IF NumberOf(a, a.best) < Height[b] THEN b ELSE a.best
FinalizedRuntime(a, b) ==
  IF a.usages[a.runtime[b]] = {} THEN NoCode ELSE a.runtime[b]
FinalizedOf(a, b, gone) ==
  [a EXCEPT !.finalized  = b,
            !.best       = FinalizedBest(a, b),
            !.finRuntime = FinalizedRuntime(a, b),
            !.pruned     = @ \cup (gone \cap a.blocks)]

LEMMA FinalizedFacts ==
  ASSUME NEW a \in Accumulator, NEW b \in Block, NEW gone \in SUBSET Block
  PROVE  LET c == FinalizedOf(a, b, gone)
         IN  /\ c \in Accumulator
             /\ c.finalized = b
             /\ c.best = FinalizedBest(a, b)
             /\ c.finRuntime = FinalizedRuntime(a, b)
             /\ c.pruned = a.pruned \cup (gone \cap a.blocks)
             /\ c.phase = a.phase
             /\ c.target = a.target
             /\ c.pending = a.pending
             /\ c.blocks = a.blocks
             /\ c.children = a.children
             /\ c.refCount = a.refCount
             /\ c.recovering = a.recovering
             /\ c.runtime = a.runtime
             /\ c.usages = a.usages
             /\ c.emitted = a.emitted
             /\ c.unpins = a.unpins
             /\ OnFinalized(a, b, gone) =
                   IF b \notin a.blocks THEN Fail(a)
                   ELSE IF a.phase = "RecoveringFin" /\ Height[b] < a.target THEN a
                   ELSE IF a.best \notin a.blocks THEN Fail(a)
                   ELSE IF a.phase = "RecoveringFin" THEN SetToReady(c) ELSE c
<1> DEFINE be == FinalizedBest(a, b)
           fr == FinalizedRuntime(a, b)
           pr == a.pruned \cup (gone \cap a.blocks)
           c  == [a EXCEPT !.finalized = b, !.best = be, !.finRuntime = fr, !.pruned = pr]
<1>1. FinalizedOf(a, b, gone) = c
  BY DEF FinalizedOf
<1>2. OnFinalized(a, b, gone) =
        IF b \notin a.blocks THEN Fail(a)
        ELSE IF a.phase = "RecoveringFin" /\ Height[b] < a.target THEN a
        ELSE IF a.best \notin a.blocks THEN Fail(a)
        ELSE IF a.phase = "RecoveringFin" THEN SetToReady(c) ELSE c
  BY Zenon DEF OnFinalized, FinalizedBest, FinalizedRuntime
<1>3. /\ be \in Block \cup {NoBlock}
      /\ fr \in Codes \cup {NoCode}
      /\ pr \in SUBSET Block
  BY DEF FinalizedBest, FinalizedRuntime, Accumulator
<1> HIDE DEF be, fr, pr
<1>4. /\ c \in Accumulator
      /\ c.finalized = b
      /\ c.best = be
      /\ c.finRuntime = fr
      /\ c.pruned = pr
      /\ c.phase = a.phase
      /\ c.target = a.target
      /\ c.pending = a.pending
      /\ c.blocks = a.blocks
      /\ c.children = a.children
      /\ c.refCount = a.refCount
      /\ c.recovering = a.recovering
      /\ c.runtime = a.runtime
      /\ c.usages = a.usages
      /\ c.emitted = a.emitted
      /\ c.unpins = a.unpins
  BY <1>3 DEF Accumulator
<1> HIDE DEF c
<1>5. QED
  BY <1>1, <1>2, <1>4 DEF be, fr, pr

UsedBy(a, b, delta) == [a EXCEPT !.refCount[b] = @ + delta]

LEMMA UsageFacts ==
  ASSUME NEW a \in Accumulator, NEW b \in Block, NEW delta \in Int
  PROVE  LET c == UsedBy(a, b, delta)
         IN  /\ c \in Accumulator
             /\ CountChanged(c, a, b, delta)
             /\ c.phase = a.phase
             /\ c.target = a.target
             /\ c.pending = a.pending
             /\ c.blocks = a.blocks
             /\ c.children = a.children
             /\ c.recovering = a.recovering
             /\ c.pruned = a.pruned
             /\ c.best = a.best
             /\ c.finalized = a.finalized
             /\ c.runtime = a.runtime
             /\ c.usages = a.usages
             /\ c.finRuntime = a.finRuntime
             /\ c.emitted = a.emitted
             /\ c.unpins = a.unpins
             /\ OnBlockUsage(a, b, delta) =
                   IF b \notin a.blocks THEN a ELSE TryToUnpin(c, {b})
<1> DEFINE rc == [a.refCount EXCEPT ![b] = a.refCount[b] + delta]
           c  == [a EXCEPT !.refCount = rc]
<1>1. UsedBy(a, b, delta) = c
  BY DEF UsedBy, Accumulator
<1>2. OnBlockUsage(a, b, delta) = IF b \notin a.blocks THEN a ELSE TryToUnpin(c, {b})
  BY <1>1 DEF OnBlockUsage, UsedBy
<1>3. /\ rc \in [Block -> Int]
      /\ \A y \in Block : rc[y] = IF y = b THEN a.refCount[y] + delta ELSE a.refCount[y]
  BY DEF Accumulator
<1> HIDE DEF rc
<1>4. /\ c \in Accumulator
      /\ c.refCount = rc
      /\ c.phase = a.phase
      /\ c.target = a.target
      /\ c.pending = a.pending
      /\ c.blocks = a.blocks
      /\ c.children = a.children
      /\ c.recovering = a.recovering
      /\ c.pruned = a.pruned
      /\ c.best = a.best
      /\ c.finalized = a.finalized
      /\ c.runtime = a.runtime
      /\ c.usages = a.usages
      /\ c.finRuntime = a.finRuntime
      /\ c.emitted = a.emitted
      /\ c.unpins = a.unpins
  BY <1>3 DEF Accumulator
<1>5. CountChanged(c, a, b, delta)
  BY <1>3, <1>4 DEF CountChanged
<1> HIDE DEF c
<1>6. QED
  BY <1>1, <1>2, <1>4, <1>5
-------------------------------------------------------------------------------
(***************************************************************************)
(* The client and the server agree on the pinned blocks, over any number   *)
(* of subscriptions.                                                       *)
(***************************************************************************)

\* What is recovering is not pinned in the subscription that is open.
PinsInv ==
  /\ TypeOK
  /\ HasRuntimes(acc)
  /\ ~badUnpin
  /\ Observed =>
       /\ session = "none" => acc.recovering = acc.blocks /\ pinned = {}
       /\ session # "none" => pinned = acc.blocks \ acc.recovering

LEMMA Reduced ==
  ASSUME NEW x \in Accumulator, NEW pins, Reduce(x, pins)
  PROVE  /\ acc' \in Accumulator
         /\ acc'.phase = x.phase
         /\ acc'.target = x.target
         /\ acc'.pending = x.pending
         /\ acc'.blocks = x.blocks
         /\ acc'.children = x.children
         /\ acc'.refCount = x.refCount
         /\ acc'.recovering = x.recovering
         /\ acc'.pruned = x.pruned
         /\ acc'.best = x.best
         /\ acc'.finalized = x.finalized
         /\ acc'.runtime = x.runtime
         /\ acc'.usages = x.usages
         /\ acc'.finRuntime = x.finRuntime
         /\ acc'.emitted = x.emitted
         /\ acc'.unpins = {}
         /\ pinned' = pins \ x.unpins
         /\ badUnpin' = (badUnpin \/ ~(x.unpins \subseteq pins))
<1> DEFINE y == [x EXCEPT !.unpins = {}]
<1>1. acc' = y /\ pinned' = pins \ x.unpins /\ badUnpin' = (badUnpin \/ ~(x.unpins \subseteq pins))
  BY DEF Reduce
<1>2. /\ y \in Accumulator
      /\ y.phase = x.phase
      /\ y.target = x.target
      /\ y.pending = x.pending
      /\ y.blocks = x.blocks
      /\ y.children = x.children
      /\ y.refCount = x.refCount
      /\ y.recovering = x.recovering
      /\ y.pruned = x.pruned
      /\ y.best = x.best
      /\ y.finalized = x.finalized
      /\ y.runtime = x.runtime
      /\ y.usages = x.usages
      /\ y.finRuntime = x.finRuntime
      /\ y.emitted = x.emitted
      /\ y.unpins = {}
  BY DEF Accumulator
<1> HIDE DEF y
<1>3. QED
  BY <1>1, <1>2

\* A step that pins and unpins what it should keeps the invariant.
LEMMA ReducedPins ==
  ASSUME PinsInv, Observed, NEW x \in Accumulator, NEW pins \in SUBSET Block, Reduce(x, pins),
         HasRuntimes(x),
         x.recovering \subseteq x.blocks, x.pruned \subseteq x.blocks, x.unpins \subseteq pins,
         session' \in {"none", "initialized"} \cup Live,
         x.phase # "Failed" =>
           /\ session' = "none" => x.recovering = x.blocks /\ pins = {}
           /\ session' # "none" => pins \ x.unpins = x.blocks \ x.recovering,
         cleanup' \in BOOLEAN, releasing' \in [Block -> Nat], holds' \in [Block -> Nat],
         pins \subseteq seen', seen' \subseteq Block,
         {sFinalized', sBest', top'} \subseteq Block \cup {NoBlock},
         stops' \in 0 .. MaxStops, mishaps' \subseteq {"behind", "cut"}, remade' \subseteq Block
  PROVE  PinsInv'
<1>1. /\ acc' \in Accumulator
      /\ acc'.phase = x.phase
      /\ acc'.blocks = x.blocks
      /\ acc'.recovering = x.recovering
      /\ acc'.pruned = x.pruned
      /\ acc'.runtime = x.runtime
      /\ acc'.unpins = {}
      /\ pinned' = pins \ x.unpins
      /\ badUnpin' = (badUnpin \/ ~(x.unpins \subseteq pins))
  BY Reduced
<1>2. badUnpin' = FALSE
  BY <1>1 DEF PinsInv, TypeOK
<1>3. TypeOK'
  BY <1>1, <1>2 DEF TypeOK
<1>4. QED
  BY <1>1, <1>2, <1>3 DEF PinsInv, HasRuntimes, Observed
\* What every handler keeps of an accumulator, and what it makes of its pins.
Sound(a) ==
  /\ a \in Accumulator
  /\ HasRuntimes(a)
  /\ a.recovering \subseteq a.blocks
  /\ a.pruned \subseteq a.blocks

Pins(a) == a.blocks \ a.recovering

LEMMA SoundFail ==
  ASSUME NEW a, Sound(a)
  PROVE  Sound(Fail(a)) /\ Fail(a).unpins = a.unpins /\ Fail(a).phase = "Failed"
<1>1. Fail(a).runtime = a.runtime
  BY DEF Fail, Sound, Accumulator
<1>2. QED
  BY <1>1, FailFacts DEF Sound, HasRuntimes

LEMMA SoundReady ==
  ASSUME NEW a, Sound(a)
  PROVE  /\ Sound(SetToReady(a))
         /\ SetToReady(a).unpins = a.unpins
         /\ Pins(SetToReady(a)) = Pins(a)
<1> DEFINE r == SetToReady(a)
<1>1. /\ r \in Accumulator
      /\ r.blocks = a.blocks \ a.recovering
      /\ r.recovering = {}
      /\ r.pruned = a.pruned \ a.recovering
      /\ r.unpins = a.unpins
      /\ Cleared(r, a, a.recovering)
  BY SetToReadyFacts DEF Sound
<1> HIDE DEF r
<1>2. HasRuntimes(r)
  BY <1>1 DEF HasRuntimes, Cleared, Sound, Accumulator
<1>3. QED
  BY <1>1, <1>2 DEF Sound, Pins, r

LEMMA SoundInitialized ==
  ASSUME NEW a, Sound(a), a.recovering = a.blocks, a.unpins = {},
         NEW w \in Seq(Block), Len(w) > 0
  PROVE  LET x == OnInitialized(a, w)
         IN  Sound(x) /\ x.unpins = {} /\ (x.phase # "Failed" => Pins(x) = Range(w))
BY InitializedFacts DEF Sound, Pins

LEMMA SoundStop ==
  ASSUME NEW a, Sound(a), a.unpins = {}
  PROVE  LET x == OnStop(a)
         IN  Sound(x) /\ x.unpins = {} /\ x.recovering = x.blocks
BY StopFacts DEF Sound

LEMMA SoundNewBlock ==
  ASSUME NEW a, Sound(a), a.unpins = {}, NEW b \in Block, NEW isNew \in BOOLEAN
  PROVE  LET x == OnNewBlock(a, b, isNew)
         IN  Sound(x) /\ x.unpins = {} /\ (x.phase # "Failed" => Pins(x) = Pins(a) \cup {b})
<1> DEFINE x == OnNewBlock(a, b, isNew)
           r == RuntimeFor(a, b, isNew)
<1>0. a \in Accumulator /\ HasRuntimes(a) /\ a.recovering \subseteq a.blocks
  BY DEF Sound
<1>1. CASE b \in a.blocks
  <2>1. /\ x \in Accumulator
        /\ x.blocks = a.blocks
        /\ x.recovering = a.recovering \ {b}
        /\ x.pruned = a.pruned
        /\ x.runtime = a.runtime
        /\ x.unpins = a.unpins
    BY <1>0, <1>1, NewBlockKnown
  <2> HIDE DEF x
  <2>2. QED
    BY <1>1, <2>1 DEF Sound, HasRuntimes, Pins, x
<1>2. CASE b \notin a.blocks /\ (Parent[b] \notin a.blocks \/ RuntimesWith(a, b, isNew)[r] = {})
  <2>1. x = Fail(a)
    BY <1>2, NewBlockFails
  <2>2. QED
    BY <2>1, SoundFail
<1>3. CASE b \notin a.blocks /\ Parent[b] \in a.blocks /\ RuntimesWith(a, b, isNew)[r] # {}
  <2>1. r \in Codes
    <3>1. Code[b] \in Codes
      BY DEF Codes
    <3>2. a.runtime[Parent[b]] \in Codes
      BY <1>0, <1>3 DEF HasRuntimes
    <3>3. QED
      BY <3>1, <3>2 DEF RuntimeFor
  <2>2. CanStand(a, b, isNew)
    BY <1>0, <1>3, <2>1 DEF CanStand
  <2>3. /\ x \in Accumulator
        /\ x.blocks = a.blocks \cup {b}
        /\ x.recovering = a.recovering
        /\ x.pruned = a.pruned
        /\ Placed(x, a, b, r)
        /\ x.unpins = a.unpins
    BY <1>0, <2>2, NewBlockNew
  <2> HIDE DEF x, r
  <2>4. HasRuntimes(x)
    BY <1>0, <2>1, <2>3 DEF HasRuntimes, Accumulator, Placed
  <2>5. Sound(x) /\ x.unpins = {} /\ Pins(x) = Pins(a) \cup {b}
    BY <1>0, <1>3, <2>3, <2>4 DEF Sound, Pins
  <2>6. QED
    BY <2>5 DEF x
<1>4. QED
  BY <1>1, <1>2, <1>3

LEMMA SoundBest ==
  ASSUME NEW a, Sound(a), a.unpins = {}, NEW b \in Block
  PROVE  LET x == OnBestBlockChanged(a, b)
         IN  Sound(x) /\ x.unpins = {} /\ Pins(x) = Pins(a)
<1> DEFINE c == BestOf(a, b)
<1>1. /\ c \in Accumulator
      /\ c.blocks = a.blocks
      /\ c.recovering = a.recovering
      /\ c.pruned = a.pruned
      /\ c.runtime = a.runtime
      /\ c.unpins = a.unpins
      /\ OnBestBlockChanged(a, b) \in {a, SetToReady(c), c}
  BY BestFacts DEF Sound
<1> HIDE DEF c
<1>2. Sound(c) /\ Pins(c) = Pins(a)
  BY <1>1 DEF Sound, HasRuntimes, Pins
<1>3. QED
  BY <1>1, <1>2, SoundReady

LEMMA SoundFinalized ==
  ASSUME NEW a, Sound(a), a.unpins = {}, NEW b \in Block, NEW gone \in SUBSET Block
  PROVE  LET x == OnFinalized(a, b, gone)
         IN  Sound(x) /\ x.unpins = {} /\ (x.phase # "Failed" => Pins(x) = Pins(a))
<1> DEFINE c == FinalizedOf(a, b, gone)
<1>1. /\ c \in Accumulator
      /\ c.blocks = a.blocks
      /\ c.recovering = a.recovering
      /\ c.pruned = a.pruned \cup (gone \cap a.blocks)
      /\ c.runtime = a.runtime
      /\ c.unpins = a.unpins
      /\ OnFinalized(a, b, gone) \in {Fail(a), a, SetToReady(c), c}
  BY FinalizedFacts DEF Sound
<1> HIDE DEF c
<1>2. Sound(c) /\ Pins(c) = Pins(a)
  BY <1>1 DEF Sound, HasRuntimes, Pins
<1>3. QED
  BY <1>1, <1>2, SoundReady, SoundFail

LEMMA SoundUnpin ==
  ASSUME NEW a, Sound(a), NEW targets \in SUBSET a.blocks
  PROVE  LET x == TryToUnpin(a, targets)
         IN  /\ Sound(x)
             /\ x.phase = a.phase
             /\ x.unpins \subseteq Pins(a)
             /\ x.recovering = a.recovering
             /\ x.blocks = a.blocks \ x.unpins
<1> DEFINE gone == {b \in targets : Unpinnable(a, b)}
           x == TryToUnpin(a, targets)
<1>1. targets \in SUBSET Block
  BY DEF Sound, Accumulator
<1>2. /\ x \in Accumulator
      /\ x.phase = a.phase
      /\ x.blocks = a.blocks \ gone
      /\ x.recovering = a.recovering \ gone
      /\ x.pruned = a.pruned \ gone
      /\ x.unpins = gone
      /\ Cleared(x, a, gone)
  BY <1>1, UnpinFacts DEF Sound
<1>3. gone \subseteq a.blocks \ a.recovering
  BY DEF Unpinnable
<1> HIDE DEF x, gone
<1>4. HasRuntimes(x)
  BY <1>2 DEF HasRuntimes, Cleared, Sound, Accumulator
<1>5. Sound(x) /\ x.phase = a.phase /\ x.unpins \subseteq Pins(a) /\ x.recovering = a.recovering
      /\ x.blocks = a.blocks \ x.unpins
  BY <1>2, <1>3, <1>4 DEF Sound, Pins
<1>6. QED
  BY <1>5 DEF x

LEMMA SoundUsage ==
  ASSUME NEW a, Sound(a), a.unpins = {}, NEW b \in Block, NEW delta \in Int
  PROVE  LET x == OnBlockUsage(a, b, delta)
         IN  /\ Sound(x)
             /\ x.phase = a.phase
             /\ x.unpins \subseteq Pins(a)
             /\ x.recovering = a.recovering
             /\ x.blocks = a.blocks \ x.unpins
<1> DEFINE c == UsedBy(a, b, delta)
<1>0. a \in Accumulator
  BY DEF Sound
<1>1. /\ c \in Accumulator
      /\ c.phase = a.phase
      /\ c.blocks = a.blocks
      /\ c.recovering = a.recovering
      /\ c.pruned = a.pruned
      /\ c.runtime = a.runtime
      /\ OnBlockUsage(a, b, delta) = IF b \notin a.blocks THEN a ELSE TryToUnpin(c, {b})
  BY <1>0, UsageFacts
<1> HIDE DEF c
<1>2. Sound(c) /\ Pins(c) = Pins(a)
  BY <1>1 DEF Sound, HasRuntimes, Pins
<1>3. CASE b \in a.blocks
  <2>1. {b} \in SUBSET c.blocks
    BY <1>1, <1>3
  <2>2. QED
    BY <1>1, <1>2, <1>3, <2>1, SoundUnpin
<1>4. CASE b \notin a.blocks
  BY <1>1, <1>4 DEF Pins
<1>5. QED
  BY <1>3, <1>4

LEMMA WindowRange ==
  ASSUME NEW b \in Block, NEW w, IsWindow(w, b)
  PROVE  w \in Seq(Block) /\ Len(w) > 0 /\ Range(w) \subseteq Block /\ b \in Range(w)
<1>1. w \in Seq(Block) /\ Len(w) \in Nat \ {0} /\ w[Len(w)] = b
  BY DEF IsWindow
<1>2. QED
  BY <1>1 DEF Range

LEMMA PinsStart == Init => PinsInv
<1> SUFFICES ASSUME Init PROVE PinsInv
  OBVIOUS
<1>1. /\ acc = Initial /\ Initial \in Accumulator /\ HasRuntimes(Initial)
      /\ Initial.blocks = {} /\ Initial.recovering = {} /\ Initial.pruned = {}
      /\ Initial.unpins = {} /\ Initial.phase = "Initializing"
  BY InitialFacts DEF Init, HasRuntimes, Initial
<1>2. /\ acc \in Accumulator
      /\ acc.recovering \cup acc.pruned \subseteq acc.blocks
      /\ acc.unpins = {}
  BY <1>1
<1>3. /\ releasing \in [Block -> Nat] /\ holds \in [Block -> Nat]
  BY DEF Init
<1>4. /\ cleanup \in BOOLEAN /\ badUnpin \in BOOLEAN
      /\ session \in {"none", "initialized"} \cup Live
      /\ pinned \subseteq seen /\ seen \subseteq Block
      /\ {sFinalized, sBest, top} \subseteq Block \cup {NoBlock}
      /\ mishaps \subseteq {"behind", "cut"} /\ remade \subseteq Block
  BY DEF Init
<1>5. stops \in 0 .. MaxStops
  BY BoundsAssumption DEF Init
<1>6. TypeOK
  BY <1>2, <1>3, <1>4, <1>5, Zenon DEF TypeOK
<1>7. QED
  BY <1>1, <1>6 DEF Init, PinsInv

LEMMA PinsInitialize ==
  ASSUME PinsInv, NEW b \in Block, NEW n \in 1 .. MaxWindow, Initialize(b, n)
  PROVE  PinsInv'
<1> DEFINE w == WindowOf(b, n)
           x == OnInitialized(acc, w)
<1>1. /\ Observed /\ session = "none" /\ session' = "initialized"
      /\ Reduce(x, Range(w)) /\ seen' = Range(w)
      /\ n <= Len(Path[b])
      /\ sFinalized' = b /\ sBest' = b /\ top' \in {b, top}
      /\ mishaps' \subseteq mishaps \cup {"behind"}
      /\ UNCHANGED <<cleanup, releasing, holds, stops, remade>>
  BY DEF Initialize, WindowOf, userVars
<1>2. IsWindow(w, b)
  BY <1>1, WindowFacts, BoundsAssumption
<1> HIDE DEF w
<1>3. w \in Seq(Block) /\ Len(w) > 0 /\ Range(w) \subseteq Block
  BY <1>2, WindowRange
<1>4. Sound(acc) /\ acc.recovering = acc.blocks /\ acc.unpins = {}
  BY <1>1 DEF PinsInv, TypeOK, Sound
<1>5. Sound(x) /\ x.unpins = {} /\ (x.phase # "Failed" => Pins(x) = Range(w))
  BY <1>3, <1>4, SoundInitialized
<1> HIDE DEF x
<1>6. /\ cleanup' \in BOOLEAN /\ releasing' \in [Block -> Nat] /\ holds' \in [Block -> Nat]
      /\ seen' \subseteq Block /\ {sFinalized', sBest', top'} \subseteq Block \cup {NoBlock}
      /\ stops' \in 0 .. MaxStops /\ mishaps' \subseteq {"behind", "cut"}
      /\ remade' \subseteq Block
  BY <1>1, <1>3 DEF PinsInv, TypeOK
<1>7. QED
  BY <1>1, <1>3, <1>5, <1>6, ReducedPins DEF Sound, Pins

LEMMA PinsNewBlock ==
  ASSUME PinsInv, NEW b \in Block, NewBlock(b)
  PROVE  PinsInv'
<1> DEFINE x == OnNewBlock(acc, b, Code[b] # Code[Parent[b]])
<1>1. /\ Observed /\ session # "none"
      /\ Reduce(x, pinned \cup {b}) /\ seen' = seen \cup {b}
      /\ remade' \subseteq remade \cup acc.usages[Code[b]]
      /\ UNCHANGED <<cleanup, releasing, holds, session, sFinalized, sBest, top, stops, mishaps>>
  BY DEF NewBlock, userVars
<1>2. Sound(acc) /\ acc.unpins = {} /\ pinned = Pins(acc)
  BY <1>1 DEF PinsInv, TypeOK, Sound, Pins
<1>3. Sound(x) /\ x.unpins = {} /\ (x.phase # "Failed" => Pins(x) = Pins(acc) \cup {b})
  BY <1>2, SoundNewBlock
<1> HIDE DEF x
<1>0. remade' \subseteq Block
  <2>1. Code[b] \in Codes
    BY DEF Codes
  <2>2. acc.usages[Code[b]] \subseteq Block
    BY <1>2, <2>1 DEF Sound, Accumulator
  <2>3. QED
    BY <1>1, <2>2 DEF PinsInv, TypeOK
<1>4. /\ cleanup' \in BOOLEAN /\ releasing' \in [Block -> Nat] /\ holds' \in [Block -> Nat]
      /\ session' \in {"none", "initialized"} \cup Live
      /\ pinned \cup {b} \subseteq seen' /\ seen' \subseteq Block
      /\ {sFinalized', sBest', top'} \subseteq Block \cup {NoBlock}
      /\ stops' \in 0 .. MaxStops /\ mishaps' \subseteq {"behind", "cut"}
      /\ remade' \subseteq Block
  BY <1>0, <1>1 DEF PinsInv, TypeOK
<1>5. x.phase # "Failed" => session' # "none" /\ (pinned \cup {b}) \ x.unpins = x.blocks \ x.recovering
  BY <1>1, <1>2, <1>3 DEF Pins
<1>6. pinned \cup {b} \in SUBSET Block
  BY <1>4
<1>7. QED
  BY <1>1, <1>3, <1>4, <1>5, <1>6, ReducedPins DEF Sound

LEMMA PinsBestBlock ==
  ASSUME PinsInv, NEW b \in Block, BestBlockChanged(b)
  PROVE  PinsInv'
<1> DEFINE x == OnBestBlockChanged(acc, b)
<1>1. /\ Observed /\ session # "none" /\ session' \in Live
      /\ Reduce(x, pinned) /\ sBest' = b
      /\ UNCHANGED <<cleanup, releasing, holds, seen, sFinalized, top, stops, mishaps, remade>>
  BY DEF BestBlockChanged, userVars, Live
<1>2. Sound(acc) /\ acc.unpins = {} /\ pinned = Pins(acc)
  BY <1>1 DEF PinsInv, TypeOK, Sound, Pins
<1>3. Sound(x) /\ x.unpins = {} /\ Pins(x) = Pins(acc)
  BY <1>2, SoundBest
<1> HIDE DEF x
<1>4. /\ cleanup' \in BOOLEAN /\ releasing' \in [Block -> Nat] /\ holds' \in [Block -> Nat]
      /\ session' \in {"none", "initialized"} \cup Live /\ session' # "none"
      /\ pinned \subseteq seen' /\ seen' \subseteq Block
      /\ {sFinalized', sBest', top'} \subseteq Block \cup {NoBlock}
      /\ stops' \in 0 .. MaxStops /\ mishaps' \subseteq {"behind", "cut"}
      /\ remade' \subseteq Block
  BY <1>1 DEF PinsInv, TypeOK, Live
<1>5. pinned \ x.unpins = x.blocks \ x.recovering /\ pinned \in SUBSET Block
  BY <1>2, <1>3, <1>4 DEF Pins
<1>6. QED
  BY <1>1, <1>3, <1>4, <1>5, ReducedPins DEF Sound

LEMMA PinsFinalize ==
  ASSUME PinsInv, NEW b \in Block, Finalize(b)
  PROVE  PinsInv'
<1> DEFINE x == OnFinalized(acc, b, NewlyPruned(b))
<1>1. /\ Observed /\ session \in Live /\ session' = "advanced"
      /\ Reduce(x, pinned) /\ sFinalized' = b /\ top' \in {b, top}
      /\ cleanup' = (cleanup \/ x.phase = "Ready")
      /\ UNCHANGED <<releasing, holds, seen, sBest, stops, mishaps, remade>>
  BY DEF Finalize, userVars
<1>2. Sound(acc) /\ acc.unpins = {} /\ pinned = Pins(acc)
  BY <1>1 DEF PinsInv, TypeOK, Sound, Pins, Live
<1>3. NewlyPruned(b) \in SUBSET Block
  BY DEF NewlyPruned, PinsInv, TypeOK
<1>4. Sound(x) /\ x.unpins = {} /\ (x.phase # "Failed" => Pins(x) = Pins(acc))
  BY <1>2, <1>3, SoundFinalized
<1> HIDE DEF x
<1>5. /\ cleanup' \in BOOLEAN /\ releasing' \in [Block -> Nat] /\ holds' \in [Block -> Nat]
      /\ session' \in {"none", "initialized"} \cup Live /\ session' # "none"
      /\ pinned \subseteq seen' /\ seen' \subseteq Block
      /\ {sFinalized', sBest', top'} \subseteq Block \cup {NoBlock}
      /\ stops' \in 0 .. MaxStops /\ mishaps' \subseteq {"behind", "cut"}
      /\ remade' \subseteq Block
  BY <1>1 DEF PinsInv, TypeOK, Live
<1>6. /\ pinned \in SUBSET Block
      /\ x.phase # "Failed" => pinned \ x.unpins = x.blocks \ x.recovering
  BY <1>2, <1>4, <1>5 DEF Pins
<1>7. QED
  BY <1>1, <1>4, <1>5, <1>6, ReducedPins DEF Sound

LEMMA PinsStop ==
  ASSUME PinsInv, Stop
  PROVE  PinsInv'
<1> DEFINE x == OnStop(acc)
<1>1. /\ Observed /\ session' = "none" /\ Reduce(x, {}) /\ seen' = {}
      /\ stops < MaxStops /\ stops' = stops + 1
      /\ mishaps' \in {mishaps \cup {"cut"}, mishaps}
      /\ UNCHANGED <<cleanup, releasing, holds, sFinalized, sBest, top, remade>>
  BY DEF Stop, userVars
<1>2. Sound(acc) /\ acc.unpins = {}
  BY DEF PinsInv, TypeOK, Sound
<1>3. Sound(x) /\ x.unpins = {} /\ x.recovering = x.blocks
  BY <1>2, SoundStop
<1> HIDE DEF x
<1>4. /\ cleanup' \in BOOLEAN /\ releasing' \in [Block -> Nat] /\ holds' \in [Block -> Nat]
      /\ {} \subseteq seen' /\ seen' \subseteq Block
      /\ {sFinalized', sBest', top'} \subseteq Block \cup {NoBlock}
      /\ mishaps' \subseteq {"behind", "cut"} /\ remade' \subseteq Block
  BY <1>1 DEF PinsInv, TypeOK
<1>5. stops' \in 0 .. MaxStops
  BY <1>1, BoundsAssumption DEF PinsInv, TypeOK
<1>6. {} \in SUBSET Block
  OBVIOUS
<1>7. QED
  BY <1>1, <1>3, <1>4, <1>5, <1>6, ReducedPins DEF Sound

\* The steps of the users and of the clock.
LEMMA PinsUsed ==
  ASSUME PinsInv, Observed, NEW x, Reduce(x, pinned),
         Sound(x), x.phase = acc.phase, x.unpins \subseteq Pins(acc),
         x.recovering = acc.recovering, x.blocks = acc.blocks \ x.unpins,
         cleanup' \in BOOLEAN, releasing' \in [Block -> Nat], holds' \in [Block -> Nat],
         UNCHANGED serverVars, UNCHANGED <<mishaps, remade>>
  PROVE  PinsInv'
<1>1. /\ session = "none" => acc.recovering = acc.blocks /\ pinned = {}
      /\ session # "none" => pinned = acc.blocks \ acc.recovering
      /\ UNCHANGED <<session, seen, sFinalized, sBest, top, stops>>
  BY DEF PinsInv, serverVars
<1>2. x.unpins \subseteq pinned
  BY <1>1 DEF Pins
<1>3. /\ session' \in {"none", "initialized"} \cup Live
      /\ pinned \subseteq seen' /\ seen' \subseteq Block /\ pinned \in SUBSET Block
      /\ {sFinalized', sBest', top'} \subseteq Block \cup {NoBlock}
      /\ stops' \in 0 .. MaxStops /\ mishaps' \subseteq {"behind", "cut"}
      /\ remade' \subseteq Block
  BY <1>1 DEF PinsInv, TypeOK
<1>4. /\ session' = "none" => x.recovering = x.blocks /\ pinned = {}
      /\ session' # "none" => pinned \ x.unpins = x.blocks \ x.recovering
  BY <1>1, <1>2
<1>5. QED
  BY <1>2, <1>3, <1>4, ReducedPins DEF Sound

LEMMA PinsCleanUp ==
  ASSUME PinsInv, CleanUp
  PROVE  PinsInv'
<1> DEFINE x == TryToUnpin(acc, acc.blocks)
<1>1. /\ Observed /\ cleanup' \in BOOLEAN /\ Reduce(x, pinned)
      /\ UNCHANGED <<releasing, holds>> /\ UNCHANGED serverVars /\ UNCHANGED <<mishaps, remade>>
  BY DEF CleanUp, userVars
<1>2. Sound(acc) /\ releasing' \in [Block -> Nat] /\ holds' \in [Block -> Nat]
  BY <1>1 DEF PinsInv, TypeOK, Sound
<1>3. /\ Sound(x) /\ x.phase = acc.phase /\ x.unpins \subseteq Pins(acc)
      /\ x.recovering = acc.recovering /\ x.blocks = acc.blocks \ x.unpins
  BY <1>2, SoundUnpin
<1> HIDE DEF x
<1>4. QED
  BY <1>1, <1>2, <1>3, PinsUsed

LEMMA PinsUser ==
  ASSUME PinsInv, NEW b \in Block, Hold(b) \/ Release(b) \/ ReleaseFires(b)
  PROVE  PinsInv'
<1>1. Sound(acc) /\ acc.unpins = {} /\ releasing \in [Block -> Nat] /\ holds \in [Block -> Nat]
      /\ cleanup \in BOOLEAN
  BY DEF PinsInv, TypeOK, Sound
<1>2. CASE Hold(b)
  <2> DEFINE x == OnBlockUsage(acc, b, 1)
  <2>1. /\ Observed /\ Reduce(x, pinned) /\ UNCHANGED serverVars /\ UNCHANGED <<mishaps, remade>>
        /\ UNCHANGED cleanup /\ UNCHANGED releasing
        /\ holds' = [holds EXCEPT ![b] = holds[b] + 1]
    BY <1>2 DEF Hold
  <2>2. /\ Sound(x) /\ x.phase = acc.phase /\ x.unpins \subseteq Pins(acc)
        /\ x.recovering = acc.recovering /\ x.blocks = acc.blocks \ x.unpins
    BY <1>1, SoundUsage
  <2> HIDE DEF x
  <2>3. cleanup' \in BOOLEAN /\ releasing' \in [Block -> Nat] /\ holds' \in [Block -> Nat]
    BY <1>1, <2>1
  <2>4. QED
    BY <2>1, <2>2, <2>3, PinsUsed
<1>3. CASE Release(b)
  <2>1. /\ holds' \in [Block -> Nat] /\ releasing' \in [Block -> Nat]
    BY <1>1, <1>3 DEF Release
  <2>2. UNCHANGED <<acc, pinned, badUnpin, cleanup, session, seen, sFinalized, sBest, top, stops,
                    mishaps, remade>>
    BY <1>3 DEF Release, serverVars
  <2>3. QED
    BY <2>1, <2>2 DEF PinsInv, TypeOK, HasRuntimes, Observed
<1>4. CASE ReleaseFires(b)
  <2> DEFINE x == OnBlockUsage(acc, b, -1)
  <2>1. /\ Observed /\ Reduce(x, pinned) /\ UNCHANGED serverVars /\ UNCHANGED <<mishaps, remade>>
        /\ UNCHANGED cleanup /\ UNCHANGED holds /\ releasing[b] > 0
        /\ releasing' = [releasing EXCEPT ![b] = releasing[b] - 1]
    BY <1>4 DEF ReleaseFires
  <2>2. /\ Sound(x) /\ x.phase = acc.phase /\ x.unpins \subseteq Pins(acc)
        /\ x.recovering = acc.recovering /\ x.blocks = acc.blocks \ x.unpins
    BY <1>1, SoundUsage
  <2> HIDE DEF x
  <2>3. cleanup' \in BOOLEAN /\ releasing' \in [Block -> Nat] /\ holds' \in [Block -> Nat]
    BY <1>1, <2>1
  <2>4. QED
    BY <2>1, <2>2, <2>3, PinsUsed
<1>5. QED
  BY <1>2, <1>3, <1>4

LEMMA PinsStep == PinsInv /\ [Next]_vars => PinsInv'
<1> SUFFICES ASSUME PinsInv, [Next]_vars PROVE PinsInv'
  OBVIOUS
<1>1. CASE Server
  <2>1. ASSUME NEW b \in Block, NEW n \in 1 .. MaxWindow, Initialize(b, n) PROVE PinsInv'
    BY <2>1, PinsInitialize
  <2>2. ASSUME NEW b \in Block, NewBlock(b) PROVE PinsInv'
    BY <2>2, PinsNewBlock
  <2>3. ASSUME NEW b \in Block, BestBlockChanged(b) PROVE PinsInv'
    BY <2>3, PinsBestBlock
  <2>4. ASSUME NEW b \in Block, Finalize(b) PROVE PinsInv'
    BY <2>4, PinsFinalize
  <2>5. CASE Stop
    BY <2>5, PinsStop
  <2>6. QED
    BY <1>1, <2>1, <2>2, <2>3, <2>4, <2>5 DEF Server
<1>2. CASE CleanUp
  BY <1>2, PinsCleanUp
<1>3. CASE User
  BY <1>3, PinsUser, BoundsAssumption DEF User
<1>4. CASE UNCHANGED vars
  BY <1>4 DEF vars, userVars, serverVars, PinsInv, TypeOK, HasRuntimes, Observed
<1>5. QED
  BY <1>1, <1>2, <1>3, <1>4 DEF Next

THEOREM PinsInvariant == Spec => []PinsInv
BY PinsStart, PinsStep, PTL DEF Spec

\* The reducer keeps its state well formed over any number of subscriptions.
THEOREM TypeCorrect == Spec => []TypeOK
<1>1. PinsInv => TypeOK
  BY DEF PinsInv
<1>2. QED
  BY <1>1, PinsInvariant, PTL

\* The client never unpins what is not pinned in the subscription, and knows
\* every pin, however often and whenever the server stops.
THEOREM PinsStayAgreed == Spec => []PinsAgree
<1>1. PinsInv => PinsAgree
  BY DEF PinsInv, PinsAgree
<1>2. QED
  BY <1>1, PinsInvariant, PTL

-------------------------------------------------------------------------------
(***************************************************************************)
(* The first subscription. Its window fills an empty accumulator.          *)
(***************************************************************************)

\* Lines: through, one way only, and of two blocks of one line one is in the other's.
LEMMA LinesFollow ==
  ASSUME NEW a \in Block, NEW b \in Block, NEW c \in Block
  PROVE  /\ a \in Line[b] /\ b \in Line[c] => a \in Line[c]
         /\ a \in Line[b] => Height[a] <= Height[b]
         /\ a \in Line[b] /\ b \in Line[a] => a = b
         /\ a \in Line[c] /\ b \in Line[c] => Aligned(a, b)
         /\ a \in Line[a]
         /\ Below(a, b) => Height[a] < Height[b] /\ b # Genesis /\ a \in Line[Parent[b]]
<1>1. Height[a] \in Nat /\ Height[b] \in Nat /\ Height[c] \in Nat
  BY ChainAssumption
<1>2. a \in Line[b] /\ b \in Line[c] => a \in Line[c]
  BY LineFacts
<1>3. a \in Line[b] => a = b \/ Height[a] < Height[b]
  BY LineFacts
<1>4. b \in Line[a] => b = a \/ Height[b] < Height[a]
  BY LineFacts
<1>5. a \in Line[c] /\ b \in Line[c] => Aligned(a, b)
  BY LineFacts
<1>6. a \in Line[a]
  BY LineFacts
<1>7. ASSUME Below(a, b) PROVE b # Genesis /\ a \in Line[Parent[b]]
  BY <1>7, LineFacts DEF Below
<1>8. QED
  BY <1>1, <1>2, <1>3, <1>4, <1>5, <1>6, <1>7 DEF Below

\* A runtime that a line left for another does not come back on it.
NoReturn ==
  \A b \in Block \ {Genesis} :
     Code[b] # Code[Parent[b]] => \A x \in Line[Parent[b]] : Code[x] # Code[b]

\* The runtimes of the blocks that are there, and their usages but for some.
CodesBut(a, lost) ==
  /\ \A b \in a.blocks : a.runtime[b] = Code[b]
  /\ \A b \in a.blocks \ lost : b \in a.usages[Code[b]]
  /\ \A c \in Codes : \A b \in a.usages[c] : b \in a.blocks /\ Code[b] = c

HasCodes(a) ==
  /\ \A b \in a.blocks : a.runtime[b] = Code[b] /\ b \in a.usages[Code[b]]
  /\ \A c \in Codes : \A b \in a.usages[c] : b \in a.blocks /\ Code[b] = c

FirstOf(w, i) == {w[j] : j \in 1 .. i}

\* The accumulator once the first i blocks of the window are added.
Filled(a, w, i) ==
  /\ a \in Accumulator
  /\ a.phase = "Initializing"
  /\ a.blocks = FirstOf(w, i)
  /\ a.recovering = {} /\ a.pruned = {} /\ a.unpins = {}
  /\ \A b \in Block : a.refCount[b] = 0
  /\ a.best = NoBlock
  /\ a.finalized = w[Len(w)]
  /\ \A j \in 1 .. i : a.children[w[j]] = NextOf(w, j)
  /\ i = 0 => \A c \in Codes : a.usages[c] = {}
  /\ i > 0 => a.finRuntime \in Codes /\ a.usages[a.finRuntime] # {}
  /\ NoReturn => HasCodes(a) /\ (i > 0 => a.finRuntime = Code[w[i]])

LEMMA WindowOrdered ==
  ASSUME NEW b \in Block, NEW w, IsWindow(w, b)
  PROVE  /\ \A i, j \in 1 .. Len(w) : i < j => Height[w[i]] < Height[w[j]]
         /\ \A i \in 1 .. Len(w) : w[i] \in Block
<1>1. Height[b] \in Nat /\ Len(w) \in Nat
  BY ChainAssumption DEF IsWindow
<1>2. \A i \in 1 .. Len(w) : Height[w[i]] = Height[b] - Len(w) + i /\ w[i] \in Block
  BY DEF IsWindow
<1>3. QED
  BY <1>1, <1>2

LEMMA FillStart ==
  ASSUME NEW b \in Block, NEW w, IsWindow(w, b)
  PROVE  /\ IsExpected(Initial, w)
         /\ LatestHeight(Initial, w) = -1
         /\ Filled(StartOf(Initial, w), w, 0)
<1>1. w \in Seq(Block) /\ Len(w) > 0 /\ Len(w) \in Nat /\ w[Len(w)] = b
  BY DEF IsWindow
<1>2. Base(Initial, w) = Initial
  BY DEF Base, Initial
<1>3. NoBlock \notin Initial.blocks /\ Initial.finalized = NoBlock
  BY DEF Initial
<1>4. LatestHeight(Initial, w) = -1
  BY <1>2, <1>3 DEF LatestHeight, NumberOf
<1>5. ~Lags(Initial, w)
  BY <1>1, <1>4, ChainAssumption DEF Lags
<1>6. IsExpected(Initial, w)
  BY <1>2, <1>3, InitialFacts DEF IsExpected
<1> DEFINE s == StartOf(Initial, w)
<1>7. /\ s \in Accumulator
      /\ s.phase = "Initializing"
      /\ s.blocks = Initial.blocks
      /\ s.recovering = Initial.recovering
      /\ s.pruned = Initial.pruned
      /\ s.refCount = Initial.refCount
      /\ s.usages = Initial.usages
      /\ s.best = Initial.best
      /\ s.finalized = w[Len(w)]
      /\ s.unpins = Initial.unpins
  <2>1. Initial \in Accumulator
    BY InitialFacts
  <2>2. /\ s \in Accumulator
        /\ s.phase = "Initializing"
        /\ s.blocks = Base(Initial, w).blocks
        /\ s.recovering = Base(Initial, w).recovering
        /\ s.pruned = Base(Initial, w).pruned
        /\ s.refCount = Base(Initial, w).refCount
        /\ s.usages = Base(Initial, w).usages
        /\ s.best = Base(Initial, w).best
        /\ s.finalized = w[Len(w)]
        /\ s.unpins = Base(Initial, w).unpins
    BY <1>1, <1>5, <2>1, StartFacts
  <2>3. QED
    BY <1>2, <2>2
<1>8. /\ Initial.blocks = {} /\ Initial.recovering = {} /\ Initial.pruned = {}
      /\ Initial.best = NoBlock /\ Initial.unpins = {}
      /\ \A x \in Block : Initial.refCount[x] = 0
      /\ \A c \in Codes : Initial.usages[c] = {}
  BY DEF Initial
<1> HIDE DEF s
<1>9. HasCodes(s)
  BY <1>7, <1>8 DEF HasCodes
<1>10. FirstOf(w, 0) = {}
  BY DEF FirstOf
<1>11. Filled(s, w, 0)
  BY <1>7, <1>8, <1>9, <1>10 DEF Filled
<1>12. QED
  BY <1>4, <1>6, <1>11 DEF s

\* Each block of the window is added, with its runtime unless an older one comes back.
LEMMA FillStep ==
  ASSUME NEW b \in Block, NEW w, IsWindow(w, b), NEW i \in Nat, i + 1 <= Len(w),
         NEW a, Filled(a, w, i)
  PROVE  Filled(AddFinalized(a, w, i + 1, -1), w, i + 1)
<1> DEFINE n == i + 1
           x == AddFinalized(a, w, n, -1)
           r == RuntimeInWindow(a, w, n, -1)
<1>1. /\ a \in Accumulator /\ w \in Seq(Block) /\ n \in 1 .. Len(w) /\ -1 \in Int
      /\ w[n] \in Block /\ Height[w[n]] > -1 /\ Code[w[n]] \in Codes
  <2>1. a \in Accumulator
    BY DEF Filled
  <2>2. w \in Seq(Block) /\ n \in 1 .. Len(w) /\ -1 \in Int
    BY DEF IsWindow
  <2> HIDE DEF n
  <2>3. w[n] \in Block
    BY <2>2
  <2>4. Height[w[n]] \in Nat
    BY <2>3, ChainAssumption
  <2>5. Code[w[n]] \in Codes
    BY <2>3 DEF Codes
  <2>6. QED
    BY <2>1, <2>2, <2>3, <2>4, <2>5
<1>2. w[n] \notin a.blocks
  <2>1. \A j \in 1 .. i : Height[w[j]] < Height[w[n]] /\ Height[w[n]] \in Nat
    <3>1. \A j \in 1 .. i : j \in 1 .. Len(w) /\ j < n
      BY <1>1
    <3>2. QED
      BY <1>1, <3>1, WindowOrdered, ChainAssumption
  <2>2. \A j \in 1 .. i : w[j] # w[n]
    BY <2>1
  <2>3. QED
    BY <2>2 DEF Filled, FirstOf
<1>3. i = 0 => MakesRuntime(a, w, n, -1)
  BY <1>1 DEF Filled, MakesRuntime, ChangesRuntime
<1>4. ~NoRuntime(a, w, n, -1) /\ r \in Codes
  <2>1. CASE i = 0
    BY <2>1, <1>1, <1>3, ChainAssumption DEF NoRuntime, RuntimeInWindow
  <2>2. CASE i > 0
    <3>1. a.finRuntime \in Codes /\ a.usages[a.finRuntime] # {}
      BY <2>2 DEF Filled
    <3>2. QED
      BY <3>1, <1>1, ChainAssumption DEF NoRuntime, RuntimeInWindow
  <2>3. QED
    BY <2>1, <2>2
<1>5. IsAdded(a, w, n, -1)
  BY <1>1, <1>2, <1>4 DEF IsAdded
<1>6. /\ x \in Accumulator
      /\ x.phase = a.phase
      /\ x.blocks = a.blocks \cup {w[n]}
      /\ x.recovering = a.recovering
      /\ x.pruned = a.pruned
      /\ x.refCount = a.refCount
      /\ x.best = a.best
      /\ x.finalized = a.finalized
      /\ x.finRuntime = r
      /\ x.unpins = a.unpins
  BY <1>5, <1>1, AddNew
<1>7. PlacedInWindow(x, a, w, n, r) /\ UsageAdded(x, a, w[n], r)
  BY <1>5, <1>1, AddNew
<1>8. FirstOf(w, n) = FirstOf(w, i) \cup {w[n]}
  BY DEF FirstOf
<1>9. \A j \in 1 .. i : w[j] # w[n] /\ w[j] \in Block
  BY <1>1, <1>2 DEF Filled, FirstOf, IsWindow
<1>10. ASSUME NoReturn PROVE r = Code[w[n]]
  <2>1. CASE i = 0
    BY <2>1, <1>3 DEF RuntimeInWindow
  <2>2. CASE i > 0 /\ Code[w[n]] = Code[w[i]]
    BY <2>2, <1>10 DEF RuntimeInWindow, Filled
  <2>3. CASE i > 0 /\ Code[w[n]] # Code[w[i]]
    <3>1. w[n] # Genesis /\ Parent[w[n]] = w[i] /\ ChangesRuntime(w, n)
      BY <1>1, <2>3 DEF IsWindow, ChangesRuntime
    <3>2. ASSUME NEW y \in a.usages[Code[w[n]]] PROVE FALSE
      <4>1. y \in a.blocks /\ Code[y] = Code[w[n]]
        BY <1>1, <1>10 DEF Filled, HasCodes
      <4>2. PICK j \in 1 .. i : y = w[j]
        BY <4>1 DEF Filled, FirstOf
      <4>3. /\ i \in 1 .. Len(w) /\ j \in 1 .. Len(w)
            /\ w[i] \in Block /\ w[j] \in Block
            /\ w[i] \in Line[b] /\ w[j] \in Line[b]
            /\ Height[w[i]] \in Nat /\ Height[w[j]] \in Nat
        <5>1. i \in 1 .. Len(w) /\ j \in 1 .. Len(w)
          BY <1>1, <2>3, <4>2
        <5>2. QED
          BY <5>1, WindowOrdered, ChainAssumption DEF IsWindow
      <4>4. w[j] \in Line[w[i]]
        <5>1. j = i \/ Height[w[j]] < Height[w[i]]
          BY <4>2, <4>3, WindowOrdered
        <5>2. Aligned(w[j], w[i])
          BY <4>3, LinesFollow
        <5>3. w[i] \in Line[w[j]] => Height[w[i]] <= Height[w[j]]
          BY <4>3, LinesFollow
        <5>4. w[i] \in Line[w[i]]
          BY <4>3, LineFacts
        <5>5. QED
          BY <4>3, <5>1, <5>2, <5>3, <5>4 DEF Aligned
      <4>5. QED
        BY <1>1, <1>10, <2>3, <3>1, <4>1, <4>2, <4>4 DEF NoReturn
    <3>3. MakesRuntime(a, w, n, -1)
      BY <1>1, <3>1, <3>2 DEF MakesRuntime
    <3>4. QED
      BY <3>3 DEF RuntimeInWindow
  <2>4. QED
    BY <2>1, <2>2, <2>3
<1> HIDE DEF x, r
<1>11. ASSUME NoReturn PROVE HasCodes(x)
  <2>1. HasCodes(a) /\ r = Code[w[n]] /\ a.blocks \subseteq Block
    BY <1>10, <1>11 DEF Filled, Accumulator
  <2>2. \A y \in Block : x.runtime[y] = IF y = w[n] THEN r ELSE a.runtime[y]
    BY <1>7 DEF PlacedInWindow
  <2>3. \A c \in Codes : x.usages[c] = IF c = r THEN a.usages[c] \cup {w[n]} ELSE a.usages[c]
    BY <1>7 DEF UsageAdded
  <2>4. ASSUME NEW y \in x.blocks PROVE x.runtime[y] = Code[y] /\ y \in x.usages[Code[y]]
    <3>1. y \in Block /\ Code[y] \in Codes
      BY <1>1, <1>6, <2>1 DEF Codes
    <3>2. CASE y = w[n]
      BY <3>1, <3>2, <2>1, <2>2, <2>3
    <3>3. CASE y # w[n]
      <4>1. a.runtime[y] = Code[y] /\ y \in a.usages[Code[y]]
        BY <3>3, <1>6, <2>1 DEF HasCodes
      <4>2. QED
        BY <3>1, <3>3, <4>1, <2>2, <2>3
    <3>4. QED
      BY <3>2, <3>3
  <2>5. ASSUME NEW c \in Codes, NEW y \in x.usages[c] PROVE y \in x.blocks /\ Code[y] = c
    <3>1. y \in a.usages[c] \/ (y = w[n] /\ c = r)
      BY <2>3
    <3>2. QED
      BY <3>1, <1>6, <2>1 DEF HasCodes
  <2>6. QED
    BY <2>4, <2>5 DEF HasCodes
<1>12. \A j \in 1 .. n : x.children[w[j]] = NextOf(w, j)
  <2>1. \A j \in 1 .. i : x.children[w[j]] = NextOf(w, j)
    BY <1>7, <1>9 DEF Filled, PlacedInWindow
  <2>2. x.children[w[n]] = NextOf(w, n)
    BY <1>1, <1>7 DEF PlacedInWindow
  <2>3. QED
    BY <2>1, <2>2
<1>13. x.usages[r] # {} /\ x.finRuntime \in Codes
  BY <1>4, <1>6, <1>7 DEF UsageAdded
<1>14. /\ x.phase = "Initializing"
       /\ x.blocks = FirstOf(w, n)
       /\ x.recovering = {} /\ x.pruned = {} /\ x.unpins = {}
       /\ x.best = NoBlock
       /\ x.finalized = w[Len(w)]
       /\ \A y \in Block : x.refCount[y] = 0
  BY <1>6, <1>8 DEF Filled
<1>15. NoReturn => HasCodes(x) /\ x.finRuntime = Code[w[n]]
  BY <1>6, <1>10, <1>11
<1>16. n # 0
  OBVIOUS
<1> HIDE DEF n
<1>17. Filled(x, w, n)
  BY <1>6, <1>12, <1>13, <1>14, <1>15, <1>16, Zenon DEF Filled
<1>18. QED
  BY <1>17 DEF x, n

LEMMA FilledWindow ==
  ASSUME NEW b \in Block, NEW w, IsWindow(w, b)
  PROVE  Filled(OnInitialized(Initial, w), w, Len(w))
<1> DEFINE s == StartOf(Initial, w)
<1>0. Filled(s, w, 0) /\ IsExpected(Initial, w) /\ LatestHeight(Initial, w) = -1
  BY FillStart
<1>1. /\ w \in Seq(Block) /\ Len(w) \in Nat
      /\ s \in Accumulator /\ s.recovering \subseteq s.blocks
      /\ OnInitialized(Initial, w) = AddWindow(s, w, -1)
  <2>1. OnInitialized(Initial, w) = AddWindow(s, w, -1)
    BY <1>0, InitializedCases, Zenon
  <2> HIDE DEF s
  <2>2. QED
    BY <2>1, <1>0 DEF Filled, IsWindow
<1> HIDE DEF s
<1>2. PICK f : Adds(f, s, w, -1) /\ AddWindow(s, w, -1) = f[Len(w)]
  BY <1>1, AddWindowUnfolds
<1> DEFINE N == {i \in Nat : i <= Len(w) => Filled(f[i], w, i)}
<1>3. 0 \in N
  BY <1>0, <1>2 DEF Adds
<1>4. ASSUME NEW i \in Nat, i \in N PROVE i + 1 \in N
  <2> SUFFICES ASSUME i + 1 <= Len(w) PROVE Filled(f[i + 1], w, i + 1)
    OBVIOUS
  <2>1. Filled(f[i], w, i) /\ i + 1 \in 1 .. Len(w) /\ (i + 1) - 1 = i
    BY <1>1, <1>4
  <2>2. f[i + 1] = AddFinalized(f[i], w, i + 1, -1)
    BY <2>1, <1>2 DEF Adds
  <2>3. QED
    BY <2>1, <2>2, FillStep
<1> HIDE DEF N
<1>5. Nat \subseteq N
  BY <1>3, <1>4, InductionOverNat
<1>6. QED
  BY <1>1, <1>2, <1>5 DEF N

-------------------------------------------------------------------------------
(***************************************************************************)
(* The invariant of the first subscription.                                *)
(***************************************************************************)

\* The count of a block is the number of its users, and only a block that is
\* there has any.
Counted ==
  /\ \A b \in Block : acc.refCount[b] = holds[b] + releasing[b]
  /\ \A b \in Block \ acc.blocks : acc.refCount[b] = 0

\* The client is where the server is.
Standing ==
  /\ acc.recovering = {}
  /\ acc.finalized = sFinalized
  /\ {sFinalized, sBest} \subseteq seen
  /\ sFinalized \in Line[sBest]
  /\ session = "initialized" => acc.phase = "Initializing"
  /\ session \in Live => acc.phase = "Ready" /\ acc.best = sBest

\* It has every block from the finalized one upwards, and pruned none on its line.
Reported ==
  /\ \A b \in seen : sFinalized \in Line[b] => b \in acc.blocks /\ b \notin acc.pruned
  /\ \A b \in acc.pruned : ~Aligned(b, sFinalized)
  /\ \A b \in seen : \A x \in Line[b] : sFinalized \in Line[x] => x \in seen

Descending ==
  \A b \in acc.blocks \ {Genesis} :
     Parent[b] \in acc.blocks => b \in acc.children[Parent[b]]

\* What is useless has users, but until the next clean-up.
Cleaned ==
  session = "advanced" /\ ~cleanup =>
     \A b \in acc.blocks : b \in acc.pruned \/ Below(b, sFinalized) => acc.refCount[b] > 0

Running ==
  /\ CodesBut(acc, remade)
  /\ \/ acc.finRuntime = Code[sFinalized]
     \/ acc.finRuntime = NoCode /\ sFinalized \in remade

\* A block outlived its runtime, once another block made that anew.
Outlived ==
  /\ CodesBut(acc, remade)
  /\ \E b \in acc.blocks \cap remade : acc.usages[Code[b]] = {}

\* The state in the first subscription.
Opened == stops = 0 /\ session # "none" /\ Observed

OpenInv ==
  /\ Standing /\ Counted /\ Reported /\ Descending /\ Cleaned
  /\ NoReturn => Running

FirstInv ==
  /\ PinsInv
  /\ stops = 0 /\ session = "none" => acc = Initial /\ remade = {} /\ ~cleanup /\ Counted
  /\ Opened => OpenInv
  /\ stops = 0 /\ NoReturn /\ ~Observed => Outlived

LEMMA FirstStart == Init => FirstInv
<1> SUFFICES ASSUME Init PROVE FirstInv
  OBVIOUS
<1>1. PinsInv
  BY PinsStart
<1>2. acc = Initial /\ remade = {} /\ session = "none" /\ cleanup = FALSE
  BY DEF Init
<1>3. \A b \in Block : acc.refCount[b] = 0 /\ holds[b] = 0 /\ releasing[b] = 0
  BY <1>2 DEF Init, Initial
<1>4. Counted
  BY <1>3 DEF Counted
<1>5. Observed
  BY <1>2, InitialFacts DEF Observed
<1>6. QED
  BY <1>1, <1>2, <1>4, <1>5 DEF FirstInv, Opened

\* What the window of an initialized event leaves.
LEMMA FirstInitialize ==
  ASSUME FirstInv, stops = 0, NEW b \in Block, NEW n \in 1 .. MaxWindow, Initialize(b, n)
  PROVE  acc'.phase = "Initializing" /\ session' # "none" /\ OpenInv'
<1> DEFINE w == WindowOf(b, n)
           x == OnInitialized(Initial, w)
<1>1. /\ session = "none" /\ session' = "initialized"
      /\ Reduce(OnInitialized(acc, w), Range(w)) /\ seen' = Range(w)
      /\ n <= Len(Path[b])
      /\ sFinalized' = b /\ sBest' = b
      /\ UNCHANGED <<cleanup, releasing, holds, remade>>
  BY DEF Initialize, WindowOf, userVars
<1>2. IsWindow(w, b)
  BY <1>1, WindowFacts, BoundsAssumption
<1> HIDE DEF w
<1>3. acc = Initial /\ remade = {} /\ Counted
  BY <1>1 DEF FirstInv
<1>4. Filled(x, w, Len(w)) /\ Reduce(x, Range(w))
  BY <1>1, <1>2, <1>3, FilledWindow
<1> HIDE DEF x
<1>5. /\ Len(w) \in Nat \ {0} /\ w[Len(w)] = b /\ DOMAIN w = 1 .. Len(w)
      /\ \A i \in 1 .. Len(w) : i > 1 => w[i] # Genesis /\ Parent[w[i]] = w[i - 1]
      /\ \A i \in 1 .. Len(w) : w[i] \in Line[b] /\ w[i] \in Block
  BY <1>2, LineFacts DEF IsWindow
<1>6. FirstOf(w, Len(w)) = Range(w)
  BY <1>5 DEF FirstOf, Range
<1>7. /\ x \in Accumulator
      /\ x.phase = "Initializing" /\ x.blocks = Range(w)
      /\ x.recovering = {} /\ x.pruned = {}
      /\ \A y \in Block : x.refCount[y] = 0
      /\ x.finalized = b
      /\ \A j \in 1 .. Len(w) : x.children[w[j]] = NextOf(w, j)
      /\ NoReturn => HasCodes(x) /\ x.finRuntime = Code[b]
  BY <1>4, <1>5, <1>6 DEF Filled
<1>8. /\ acc'.phase = "Initializing" /\ acc'.blocks = Range(w)
      /\ acc'.recovering = {} /\ acc'.pruned = {}
      /\ acc'.refCount = x.refCount
      /\ acc'.finalized = b
      /\ acc'.children = x.children
      /\ acc'.finRuntime = x.finRuntime /\ acc'.runtime = x.runtime /\ acc'.usages = x.usages
  BY <1>4, <1>7, Reduced
<1>9. b \in Range(w) /\ b \in Line[b] /\ Range(w) \subseteq Line[b] /\ Range(w) \subseteq Block
  BY <1>5, LineFacts DEF Range
<1>10. Standing'
  BY <1>1, <1>8, <1>9 DEF Standing, Live
<1>11. Counted'
  <2>1. \A y \in Block : Initial.refCount[y] = 0
    BY DEF Initial
  <2>2. \A y \in Block : holds[y] + releasing[y] = 0
    BY <1>3, <2>1 DEF Counted
  <2>3. QED
    BY <1>1, <1>7, <1>8, <2>2 DEF Counted
<1>12. Reported'
  <2>1. ASSUME NEW y \in Range(w), NEW z \in Line[y], b \in Line[z] PROVE z \in Range(w)
    <3>1. z \in Block /\ z \in Line[b]
      BY <1>9, LineFacts
    <3>2. z = b
      BY <3>1, <2>1, LinesFollow
    <3>3. QED
      BY <3>2, <1>9
  <2>2. QED
    BY <1>1, <1>8, <2>1 DEF Reported
<1>13. Descending'
  <2>1. ASSUME NEW y \in Range(w) \ {Genesis}, Parent[y] \in Range(w)
        PROVE  y \in x.children[Parent[y]]
    <3>1. PICK j \in 1 .. Len(w) : y = w[j]
      BY <1>5 DEF Range
    <3>2. j > 1
      <4>1. PICK k \in 1 .. Len(w) : Parent[y] = w[k]
        BY <2>1, <1>5 DEF Range
      <4>2. Height[w[k]] < Height[w[j]] /\ Height[w[k]] \in Nat /\ Height[w[j]] \in Nat
        BY <2>1, <3>1, <4>1, <1>5, ChainAssumption
      <4>3. ~(j < k)
        BY <4>2, <1>2, WindowOrdered
      <4>4. j # k
        BY <4>2
      <4>5. QED
        BY <4>3, <4>4, <1>5
    <3>3. j - 1 \in 1 .. Len(w) /\ Parent[y] = w[j - 1] /\ (j - 1) + 1 = j
      BY <3>1, <3>2, <1>5
    <3>4. NextOf(w, j - 1) = {y}
      BY <3>1, <3>3 DEF NextOf
    <3>5. QED
      BY <3>3, <3>4, <1>7
  <2>2. QED
    BY <2>1, <1>8 DEF Descending
<1>14. Cleaned'
  BY <1>1 DEF Cleaned
<1>15. ASSUME NoReturn PROVE Running'
  <2>1. HasCodes(x) /\ x.finRuntime = Code[b]
    BY <1>7, <1>15
  <2>2. CodesBut(acc, remade)'
    BY <1>7, <1>8, <2>1 DEF HasCodes, CodesBut
  <2>3. QED
    BY <1>1, <1>8, <2>1, <2>2 DEF Running
<1>16. QED
  BY <1>1, <1>8, <1>10, <1>11, <1>12, <1>13, <1>14, <1>15 DEF OpenInv

\* Every block the client has was reported, and those of the finalized line are there.
LEMMA OpenFacts ==
  ASSUME FirstInv, Opened
  PROVE  /\ acc \in Accumulator /\ HasRuntimes(acc) /\ Sound(acc) /\ acc.unpins = {}
         /\ acc.blocks \subseteq seen /\ seen \subseteq Block
         /\ pinned = acc.blocks /\ acc.recovering = {}
         /\ {sFinalized, sBest} \subseteq Block
         /\ {sFinalized, sBest} \subseteq acc.blocks
         /\ sFinalized \notin acc.pruned
         /\ releasing \in [Block -> Nat] /\ holds \in [Block -> Nat]
<1>1. /\ acc \in Accumulator /\ HasRuntimes(acc) /\ Sound(acc) /\ acc.unpins = {}
      /\ releasing \in [Block -> Nat] /\ holds \in [Block -> Nat]
      /\ pinned \subseteq seen /\ seen \subseteq Block
      /\ pinned = acc.blocks \ acc.recovering
  BY DEF FirstInv, PinsInv, TypeOK, Opened, Sound
<1>2. Standing /\ Reported
  BY DEF FirstInv, OpenInv
<1>3. acc.recovering = {} /\ {sFinalized, sBest} \subseteq seen /\ sFinalized \in Line[sBest]
  BY <1>2 DEF Standing
<1>4. {sFinalized, sBest} \subseteq Block /\ sFinalized \in Line[sFinalized]
  BY <1>1, <1>3, LineFacts
<1>5. {sFinalized, sBest} \subseteq acc.blocks /\ sFinalized \notin acc.pruned
  BY <1>2, <1>3, <1>4 DEF Reported
<1>6. QED
  BY <1>1, <1>3, <1>4, <1>5

LEMMA FirstNewBlock ==
  ASSUME FirstInv, Opened, NEW b \in Block, NewBlock(b)
  PROVE  /\ Observed' => OpenInv'
         /\ NoReturn /\ ~Observed' => Outlived'
<1> DEFINE isNew == Code[b] # Code[Parent[b]]
           x == OnNewBlock(acc, b, isNew)
           r == RuntimeFor(acc, b, isNew)
<1>1. /\ b \notin seen /\ Parent[b] \in seen /\ Below(sFinalized, b)
      /\ Reduce(x, pinned \cup {b}) /\ seen' = seen \cup {b}
      /\ remade' = IF b \notin acc.blocks /\ isNew THEN remade \cup acc.usages[Code[b]] ELSE remade
      /\ UNCHANGED <<cleanup, releasing, holds, session, sFinalized, sBest>>
  BY DEF NewBlock, userVars, Known
<1>2. /\ acc \in Accumulator /\ HasRuntimes(acc) /\ Sound(acc) /\ acc.unpins = {}
      /\ acc.blocks \subseteq seen /\ seen \subseteq Block /\ sFinalized \in Block
      /\ Standing /\ Counted /\ Reported /\ Descending /\ Cleaned
      /\ NoReturn => Running
  BY OpenFacts DEF FirstInv, OpenInv
<1>3. /\ b \notin acc.blocks /\ Parent[b] \in acc.blocks /\ Parent[b] \in Block
      /\ b # Genesis /\ sFinalized \in Line[Parent[b]]
      /\ Height[sFinalized] < Height[b] /\ Height[sFinalized] \in Nat /\ Height[b] \in Nat
      /\ Line[b] = {b} \cup Line[Parent[b]]
  BY <1>1, <1>2, LinesFollow, LineFacts, ChainAssumption DEF Reported
<1>4. r \in Codes /\ isNew \in BOOLEAN
  <2>1. Code[b] \in Codes
    BY DEF Codes
  <2>2. acc.runtime[Parent[b]] \in Codes
    BY <1>2, <1>3 DEF HasRuntimes
  <2>3. QED
    BY <2>1, <2>2 DEF RuntimeFor
<1> DEFINE fails == RuntimesWith(acc, b, isNew)[r] = {}
<1>5. ASSUME NoReturn
      PROVE  /\ r = Code[b]
             /\ fails => ~isNew /\ Parent[b] \in remade /\ acc.usages[Code[Parent[b]]] = {}
  <2>1. CodesBut(acc, remade)
    BY <1>2, <1>5 DEF Running
  <2>2. CASE isNew
    <3>1. r = Code[b]
      BY <2>2 DEF RuntimeFor
    <3>2. RuntimesWith(acc, b, isNew)[r] = {b}
      BY <1>2, <1>4, <2>2, <3>1 DEF RuntimesWith, Accumulator
    <3>3. QED
      BY <3>1, <3>2
  <2>3. CASE ~isNew
    <3>1. r = acc.runtime[Parent[b]] /\ RuntimesWith(acc, b, isNew) = acc.usages
      BY <2>3 DEF RuntimeFor, RuntimesWith
    <3>2. /\ acc.runtime[Parent[b]] = Code[Parent[b]]
          /\ Parent[b] \in acc.usages[Code[Parent[b]]] \/ Parent[b] \in remade
      BY <1>3, <2>1 DEF CodesBut
    <3>3. QED
      BY <2>3, <3>1, <3>2
  <2>4. QED
    BY <2>2, <2>3
<1> HIDE DEF isNew, r
<1>6. CASE fails
  <2>1. x = Fail(acc)
    BY <1>3, <1>6, NewBlockFails DEF r
  <2>2. /\ acc'.phase = "Failed" /\ acc'.blocks = acc.blocks
        /\ acc'.runtime = acc.runtime /\ acc'.usages = acc.usages
    <3>1. Fail(acc).runtime = acc.runtime /\ Fail(acc).usages = acc.usages
      BY <1>2 DEF Fail, Accumulator
    <3>2. QED
      BY <1>1, <1>2, <2>1, <3>1, FailFacts, Reduced
  <2>3. ASSUME NoReturn PROVE Outlived'
    <3>1. /\ ~isNew /\ Parent[b] \in remade /\ acc.usages[Code[Parent[b]]] = {}
          /\ CodesBut(acc, remade)
      BY <1>2, <1>5, <1>6, <2>3 DEF Running
    <3>2. remade' = remade
      BY <1>1, <3>1
    <3>3. CodesBut(acc, remade)'
      BY <2>2, <3>1, <3>2 DEF CodesBut
    <3>4. QED
      BY <1>3, <2>2, <3>1, <3>2, <3>3 DEF Outlived
  <2>4. QED
    BY <2>2, <2>3 DEF Observed
<1>7. CASE ~fails
  <2>1. CanStand(acc, b, isNew)
    BY <1>2, <1>3, <1>4, <1>7 DEF CanStand, r
  <2>2. /\ x \in Accumulator
        /\ x.phase = acc.phase
        /\ x.blocks = acc.blocks \cup {b}
        /\ x.recovering = acc.recovering
        /\ x.pruned = acc.pruned
        /\ Placed(x, acc, b, r)
        /\ x.refCount = acc.refCount
        /\ UsagesAdded(x, acc, b, isNew, r)
        /\ x.best = acc.best
        /\ x.finalized = acc.finalized
        /\ x.finRuntime = acc.finRuntime
    <3>1. /\ b \in Block
          /\ CanStand(acc, b, isNew) /\ acc \in Accumulator /\ isNew \in BOOLEAN
      BY <1>2, <1>4, <2>1
    <3> HIDE DEF fails
    <3>2. QED
      BY <3>1, NewBlockNew, Zenon DEF r
  <2> HIDE DEF x
  <2>3. /\ acc'.phase = acc.phase
        /\ acc'.blocks = acc.blocks \cup {b}
        /\ acc'.recovering = acc.recovering
        /\ acc'.pruned = acc.pruned
        /\ acc'.children = x.children /\ acc'.runtime = x.runtime /\ acc'.usages = x.usages
        /\ acc'.refCount = acc.refCount
        /\ acc'.best = acc.best
        /\ acc'.finalized = acc.finalized
        /\ acc'.finRuntime = acc.finRuntime
    BY <1>1, <2>2, Reduced
  <2>4. Standing'
    BY <1>1, <1>2, <2>3 DEF Standing
  <2>5. Counted'
    BY <1>1, <1>2, <2>3 DEF Counted
  <2>6. Reported'
    <3>1. b \notin acc.pruned
      BY <1>2, <1>3 DEF Sound
    <3>2. \A y \in seen' : sFinalized \in Line[y] => y \in acc'.blocks /\ y \notin acc'.pruned
      BY <1>1, <1>2, <2>3, <3>1 DEF Reported
    <3>3. \A y \in seen' : \A z \in Line[y] : sFinalized \in Line[z] => z \in seen'
      BY <1>1, <1>2, <1>3 DEF Reported
    <3>4. QED
      BY <1>1, <1>2, <2>3, <3>2, <3>3 DEF Reported
  <2>7. Descending'
    <3>1. ASSUME NEW y \in acc'.blocks \ {Genesis}, Parent[y] \in acc'.blocks
          PROVE  y \in x.children[Parent[y]]
      <4>1. y \in Block /\ Parent[y] \in Block /\ Parent[y] \in Line[y]
        BY <1>2, <2>3, <3>1, LineFacts, ChainAssumption
      <4>2. CASE y = b
        BY <1>3, <2>2, <4>2 DEF Placed
      <4>3. CASE y # b
        <5>1. y \in acc.blocks
          BY <2>3, <4>3
        <5>2. Parent[y] # b
          <6>1. y \in seen /\ sFinalized \in Line[b]
            BY <1>1, <1>2, <5>1 DEF Below
          <6>2. QED
            BY <1>1, <1>2, <4>1, <6>1 DEF Reported
        <5>3. y \in acc.children[Parent[y]]
          BY <1>2, <2>3, <3>1, <5>1, <5>2 DEF Descending
        <5>4. QED
          BY <2>2, <4>1, <5>3 DEF Placed
      <4>4. QED
        BY <4>2, <4>3
    <3>2. QED
      BY <2>3, <3>1 DEF Descending
  <2>8. Cleaned'
    <3>1. b \notin acc.pruned /\ ~Below(b, sFinalized)
      <4>1. Below(b, sFinalized) => Height[b] < Height[sFinalized]
        BY <1>2, LinesFollow
      <4>2. QED
        BY <1>2, <1>3, <4>1 DEF Sound
    <3>2. QED
      BY <1>1, <1>2, <2>3, <3>1 DEF Cleaned
  <2>9. ASSUME NoReturn PROVE Running'
    <3>1. CodesBut(acc, remade) /\ r = Code[b] /\ remade \subseteq remade'
      BY <1>1, <1>2, <1>5, <2>9 DEF Running
    <3>2. \A y \in Block : x.runtime[y] = IF y = b THEN r ELSE acc.runtime[y]
      BY <2>2 DEF Placed
    <3>3. \A c \in Codes : x.usages[c] = IF c # r THEN acc.usages[c]
                                          ELSE IF isNew THEN {b} ELSE acc.usages[c] \cup {b}
      BY <2>2 DEF UsagesAdded
    <3>4. \A y \in acc.blocks \cup {b} : y \in Block /\ x.runtime[y] = Code[y]
      BY <1>2, <3>1, <3>2 DEF CodesBut, Accumulator
    <3>5. ASSUME NEW y \in (acc.blocks \cup {b}) \ remade'
          PROVE  y \in x.usages[Code[y]]
      <4>1. y \in Block /\ Code[y] \in Codes
        BY <3>4 DEF Codes
      <4>2. CASE y = b
        BY <3>1, <3>3, <4>1, <4>2
      <4>3. CASE y # b
        <5>1. y \in acc.usages[Code[y]]
          BY <3>1, <4>3 DEF CodesBut
        <5>2. isNew => Code[y] # Code[b]
          BY <1>1, <1>3, <5>1
        <5>3. QED
          BY <3>1, <3>3, <4>1, <5>1, <5>2
      <4>4. QED
        BY <4>2, <4>3
    <3>6. ASSUME NEW c \in Codes, NEW y \in x.usages[c]
          PROVE  y \in acc.blocks \cup {b} /\ Code[y] = c
      <4>1. y \in acc.usages[c] \/ (y = b /\ c = r)
        BY <3>3
      <4>2. QED
        BY <3>1, <4>1 DEF CodesBut
    <3>7. CodesBut(acc, remade)'
      BY <2>3, <3>4, <3>5, <3>6 DEF CodesBut
    <3>8. QED
      BY <1>1, <1>2, <2>3, <2>9, <3>1, <3>7 DEF Running
  <2>10. Observed'
    BY <2>3 DEF Observed, Opened
  <2>11. QED
    BY <2>4, <2>5, <2>6, <2>7, <2>8, <2>9, <2>10 DEF OpenInv
<1>8. QED
  BY <1>6, <1>7

\* Nothing is recovering: the client is ready and keeps what it has.
LEMMA ReadyKeeps ==
  ASSUME NEW a \in Accumulator, a.recovering = {}
  PROVE  LET r == SetToReady(a)
         IN  /\ r \in Accumulator
             /\ r.phase = "Ready"
             /\ r.blocks = a.blocks
             /\ r.recovering = {}
             /\ r.pruned = a.pruned
             /\ r.children = a.children
             /\ r.refCount = a.refCount
             /\ r.runtime = a.runtime
             /\ r.usages = a.usages
             /\ r.best = a.best
             /\ r.finalized = a.finalized
             /\ r.finRuntime = a.finRuntime
             /\ r.unpins = a.unpins
<1> DEFINE r == SetToReady(a)
<1>1. /\ r \in Accumulator
      /\ r.phase = "Ready"
      /\ r.blocks = a.blocks \ a.recovering
      /\ r.recovering = {}
      /\ r.pruned = a.pruned \ a.recovering
      /\ Cleared(r, a, a.recovering)
      /\ r.best = a.best
      /\ r.finalized = a.finalized
      /\ r.finRuntime = a.finRuntime
      /\ r.unpins = a.unpins
  BY SetToReadyFacts
<1> HIDE DEF r
<1>2. /\ \A b \in Block : /\ r.children[b] = a.children[b]
                          /\ r.refCount[b] = a.refCount[b]
                          /\ r.runtime[b] = a.runtime[b]
      /\ \A c \in Codes : r.usages[c] = a.usages[c]
  BY <1>1 DEF Cleared
<1>3. /\ r.children \in [Block -> SUBSET Block] /\ a.children \in [Block -> SUBSET Block]
      /\ r.refCount \in [Block -> Int] /\ a.refCount \in [Block -> Int]
      /\ r.runtime \in [Block -> Codes \cup {NoCode}] /\ a.runtime \in [Block -> Codes \cup {NoCode}]
      /\ r.usages \in [Codes -> SUBSET Block] /\ a.usages \in [Codes -> SUBSET Block]
  BY <1>1 DEF Accumulator
<1>4. r.children = a.children /\ r.refCount = a.refCount /\ r.runtime = a.runtime
      /\ r.usages = a.usages
  BY <1>2, <1>3
<1>5. QED
  BY <1>1, <1>4 DEF r

LEMMA FirstBestBlock ==
  ASSUME FirstInv, Opened, NEW b \in Block, BestBlockChanged(b)
  PROVE  Observed' /\ OpenInv'
<1> DEFINE c == BestOf(acc, b)
           x == OnBestBlockChanged(acc, b)
<1>1. /\ b \in seen /\ sFinalized \in Line[b]
      /\ Reduce(x, pinned) /\ sBest' = b /\ session' \in Live
      /\ session' = IF session \in Live THEN session ELSE "live"
      /\ UNCHANGED <<cleanup, releasing, holds, seen, sFinalized, remade>>
  BY DEF BestBlockChanged, userVars, Known, Live
<1>2. /\ acc \in Accumulator /\ acc.recovering = {} /\ acc.blocks \subseteq seen
      /\ Standing /\ Counted /\ Reported /\ Descending /\ Cleaned
      /\ NoReturn => Running
      /\ session \in {"initialized"} \cup Live
  BY OpenFacts DEF FirstInv, OpenInv, PinsInv, TypeOK, Opened
<1>3. /\ c \in Accumulator /\ c.best = b
      /\ c.blocks = acc.blocks /\ c.children = acc.children /\ c.refCount = acc.refCount
      /\ c.recovering = acc.recovering /\ c.pruned = acc.pruned
      /\ c.finalized = acc.finalized /\ c.runtime = acc.runtime /\ c.usages = acc.usages
      /\ c.finRuntime = acc.finRuntime /\ c.phase = acc.phase
      /\ x = IF acc.phase = "RecoveringFin" THEN acc
             ELSE IF acc.phase = "Initializing" THEN SetToReady(c) ELSE c
  BY <1>2, BestFacts
<1> HIDE DEF c, x
<1>4. acc.phase \in {"Initializing", "Ready"}
  BY <1>2 DEF Standing
<1>5. /\ x \in Accumulator /\ x.best = b /\ x.phase = "Ready"
      /\ x.blocks = acc.blocks /\ x.children = acc.children /\ x.refCount = acc.refCount
      /\ x.recovering = {} /\ x.pruned = acc.pruned
      /\ x.finalized = acc.finalized /\ x.runtime = acc.runtime /\ x.usages = acc.usages
      /\ x.finRuntime = acc.finRuntime
  <2>1. CASE acc.phase = "Initializing"
    BY <1>2, <1>3, <2>1, ReadyKeeps
  <2>2. CASE acc.phase = "Ready"
    BY <1>2, <1>3, <2>2
  <2>3. QED
    BY <1>4, <2>1, <2>2
<1>6. /\ acc'.best = b /\ acc'.phase = "Ready"
      /\ acc'.blocks = acc.blocks /\ acc'.children = acc.children /\ acc'.refCount = acc.refCount
      /\ acc'.recovering = {} /\ acc'.pruned = acc.pruned
      /\ acc'.finalized = acc.finalized /\ acc'.runtime = acc.runtime /\ acc'.usages = acc.usages
      /\ acc'.finRuntime = acc.finRuntime
  BY <1>1, <1>5, Reduced
<1>7. Standing'
  BY <1>1, <1>2, <1>6 DEF Standing, Live
<1>8. Counted' /\ Reported' /\ Descending'
  BY <1>1, <1>2, <1>6 DEF Counted, Reported, Descending
<1>9. Cleaned'
  BY <1>1, <1>2, <1>6 DEF Cleaned
<1>10. NoReturn => Running'
  BY <1>1, <1>2, <1>6 DEF Running, CodesBut
<1>11. QED
  BY <1>6, <1>7, <1>8, <1>9, <1>10 DEF OpenInv, Observed

LEMMA FirstFinalize ==
  ASSUME FirstInv, Opened, NEW b \in Block, Finalize(b)
  PROVE  Observed' /\ OpenInv'
<1> DEFINE gone == NewlyPruned(b)
           c == FinalizedOf(acc, b, gone)
           x == OnFinalized(acc, b, gone)
<1>1. /\ session \in Live /\ b \in seen /\ Below(sFinalized, b) /\ b \in Line[sBest]
      /\ Reduce(x, pinned) /\ sFinalized' = b /\ session' = "advanced"
      /\ cleanup' = (cleanup \/ x.phase = "Ready")
      /\ UNCHANGED <<releasing, holds, seen, sBest, remade>>
  BY DEF Finalize, userVars, Known
<1>2. /\ acc \in Accumulator /\ acc.recovering = {} /\ acc.blocks \subseteq seen
      /\ seen \subseteq Block
      /\ {sFinalized, sBest} \subseteq Block /\ {sFinalized, sBest} \subseteq acc.blocks
      /\ Standing /\ Counted /\ Reported /\ Descending
      /\ NoReturn => Running
  BY OpenFacts DEF FirstInv, OpenInv
<1>3. sFinalized \in Line[b] /\ sFinalized # b
  BY <1>1 DEF Below
<1>4. gone \in SUBSET Block
  BY <1>2 DEF NewlyPruned
<1>5. /\ c \in Accumulator /\ c.finalized = b /\ c.best = FinalizedBest(acc, b)
      /\ c.finRuntime = FinalizedRuntime(acc, b)
      /\ c.pruned = acc.pruned \cup (gone \cap acc.blocks)
      /\ c.phase = acc.phase
      /\ c.blocks = acc.blocks /\ c.children = acc.children /\ c.refCount = acc.refCount
      /\ c.recovering = acc.recovering /\ c.runtime = acc.runtime /\ c.usages = acc.usages
      /\ x = IF b \notin acc.blocks THEN Fail(acc)
             ELSE IF acc.phase = "RecoveringFin" /\ Height[b] < acc.target THEN acc
             ELSE IF acc.best \notin acc.blocks THEN Fail(acc)
             ELSE IF acc.phase = "RecoveringFin" THEN SetToReady(c) ELSE c
  BY <1>2, <1>4, FinalizedFacts
<1>6. acc.phase = "Ready" /\ acc.best = sBest /\ acc.best \in acc.blocks /\ b \in acc.blocks
  BY <1>1, <1>2, <1>3 DEF Standing, Reported
<1>7. FinalizedBest(acc, b) = sBest
  <2>1. Height[b] <= Height[sBest] /\ Height[b] \in Nat /\ Height[sBest] \in Nat
    BY <1>1, <1>2, LinesFollow, ChainAssumption
  <2>2. NumberOf(acc, acc.best) = Height[sBest]
    BY <1>6 DEF NumberOf
  <2>3. QED
    BY <2>1, <2>2, <1>6 DEF FinalizedBest
<1>8. ASSUME NoReturn
      PROVE  \/ FinalizedRuntime(acc, b) = Code[b]
             \/ FinalizedRuntime(acc, b) = NoCode /\ b \in remade
  <2>1. CodesBut(acc, remade)
    BY <1>2, <1>8 DEF Running
  <2>2. acc.runtime[b] = Code[b] /\ (b \in acc.usages[Code[b]] \/ b \in remade)
    BY <1>6, <2>1 DEF CodesBut
  <2>3. QED
    BY <2>2 DEF FinalizedRuntime
<1> DEFINE dropped == gone \cap acc.blocks
<1> HIDE DEF gone, x
<1>9. /\ x \in Accumulator /\ x.finalized = b /\ x.best = sBest /\ x.phase = "Ready"
      /\ x.finRuntime = FinalizedRuntime(acc, b)
      /\ x.pruned = acc.pruned \cup dropped
      /\ x.blocks = acc.blocks /\ x.children = acc.children /\ x.refCount = acc.refCount
      /\ x.recovering = {} /\ x.runtime = acc.runtime /\ x.usages = acc.usages
  <2> HIDE DEF c
  <2>1. x = c
    BY <1>5, <1>6
  <2>2. QED
    BY <2>1, <1>2, <1>5, <1>6, <1>7
<1>10. /\ acc'.finalized = b /\ acc'.best = sBest /\ acc'.phase = "Ready"
       /\ acc'.finRuntime = FinalizedRuntime(acc, b)
       /\ acc'.pruned = acc.pruned \cup dropped
       /\ acc'.blocks = acc.blocks /\ acc'.children = acc.children /\ acc'.refCount = acc.refCount
       /\ acc'.recovering = {} /\ acc'.runtime = acc.runtime /\ acc'.usages = acc.usages
  BY <1>1, <1>9, Reduced
<1>11. Standing'
  BY <1>1, <1>2, <1>10 DEF Standing, Live
<1>12. Counted' /\ Descending'
  BY <1>1, <1>2, <1>10 DEF Counted, Descending
<1>13. Reported'
  <2>1. \A y \in Block : b \in Line[y] => sFinalized \in Line[y]
    BY <1>2, <1>3, LinesFollow
  <2>2. \A y \in dropped : y \in Block /\ ~Aligned(b, y)
    BY <1>2 DEF NewlyPruned, gone
  <2>3. ASSUME NEW y \in acc.pruned PROVE ~Aligned(y, b) /\ ~Aligned(y, sFinalized) /\ y \in Block
    <3>1. y \in Block /\ ~Aligned(y, sFinalized)
      BY <1>2 DEF Reported, Accumulator
    <3>2. y \in Line[b] => Aligned(y, sFinalized)
      BY <1>2, <1>3, <3>1, LinesFollow
    <3>3. b \in Line[y] => Aligned(y, sFinalized)
      BY <2>1, <3>1 DEF Aligned
    <3>4. QED
      BY <3>1, <3>2, <3>3 DEF Aligned
  <2>4. ASSUME NEW y \in seen, b \in Line[y] PROVE y \in acc.blocks /\ y \notin acc'.pruned
    <3>1. y \in Block /\ sFinalized \in Line[y]
      BY <1>2, <2>1, <2>4
    <3>2. y \in acc.blocks /\ y \notin acc.pruned
      BY <1>2, <3>1 DEF Reported
    <3>3. y \notin dropped
      BY <2>2, <2>4 DEF Aligned
    <3>4. QED
      BY <1>10, <3>2, <3>3
  <2>5. \A y \in acc'.pruned : ~Aligned(y, b)
    BY <1>10, <2>2, <2>3 DEF Aligned
  <2>6. ASSUME NEW y \in seen, NEW z \in Line[y], b \in Line[z] PROVE z \in seen
    <3>1. z \in Block
      BY <1>2, LineFacts
    <3>2. QED
      BY <1>2, <2>1, <2>6, <3>1 DEF Reported
  <2>7. QED
    BY <1>1, <1>10, <2>4, <2>5, <2>6 DEF Reported
<1>14. Cleaned'
  BY <1>1, <1>9 DEF Cleaned
<1>15. ASSUME NoReturn PROVE Running'
  BY <1>1, <1>2, <1>8, <1>10, <1>15 DEF Running, CodesBut
<1>16. QED
  BY <1>10, <1>11, <1>12, <1>13, <1>14, <1>15 DEF OpenInv, Observed

\* The accumulator with other counts, those of the users after the step.
Recounted(a) ==
  /\ a \in Accumulator
  /\ a.phase = acc.phase /\ a.blocks = acc.blocks /\ a.children = acc.children
  /\ a.recovering = acc.recovering /\ a.pruned = acc.pruned
  /\ a.best = acc.best /\ a.finalized = acc.finalized
  /\ a.runtime = acc.runtime /\ a.usages = acc.usages /\ a.finRuntime = acc.finRuntime
  /\ \A b \in Block : a.refCount[b] = holds'[b] + releasing'[b]
  /\ \A b \in Block \ acc.blocks : a.refCount[b] = 0

\* No user of a block that is unpinned, and the useless blocks among the targets are gone.
LEMMA FirstUnpin ==
  ASSUME FirstInv, Opened, NEW a, Recounted(a), NEW targets \in SUBSET acc.blocks,
         Reduce(TryToUnpin(a, targets), pinned),
         holds' \in [Block -> Nat], releasing' \in [Block -> Nat],
         UNCHANGED <<session, seen, sFinalized, sBest, remade>>,
         session = "advanced" /\ ~cleanup' =>
           \A b \in acc.blocks \ targets :
              b \in acc.pruned \/ Below(b, sFinalized) => a.refCount[b] > 0
  PROVE  /\ Observed' /\ OpenInv'
         /\ \A b \in pinned : b \in pinned' \/ holds'[b] = 0
<1> DEFINE gone == {b \in targets : Unpinnable(a, b)}
           x == TryToUnpin(a, targets)
<1>1. /\ acc \in Accumulator /\ acc.recovering = {} /\ acc.blocks \subseteq seen
      /\ seen \subseteq Block /\ pinned = acc.blocks
      /\ {sFinalized, sBest} \subseteq Block /\ {sFinalized, sBest} \subseteq acc.blocks
      /\ sFinalized \notin acc.pruned
      /\ Standing /\ Counted /\ Reported /\ Descending
      /\ NoReturn => Running
  BY OpenFacts DEF FirstInv, OpenInv
<1>2. a \in Accumulator /\ a.recovering = {} /\ a.blocks = acc.blocks /\ targets \in SUBSET Block
  BY <1>1 DEF Recounted
<1>3. /\ x \in Accumulator /\ x.phase = a.phase
      /\ x.blocks = a.blocks \ gone /\ x.recovering = a.recovering \ gone
      /\ x.pruned = a.pruned \ gone
      /\ Cleared(x, a, gone)
      /\ x.best = a.best /\ x.finalized = a.finalized /\ x.finRuntime = a.finRuntime
      /\ x.unpins = gone
  BY <1>2, UnpinFacts, ZenonT(40)
<1>4. /\ Reduce(x, pinned)
      /\ \A b \in gone : Unpinnable(a, b) /\ b \in Block /\ b \in acc.blocks
      /\ \A b \in targets : b \notin gone => ~Unpinnable(a, b)
  BY <1>2
<1> HIDE DEF gone, x
<1>5. /\ acc'.phase = acc.phase
      /\ acc'.blocks = acc.blocks \ gone /\ acc'.recovering = {}
      /\ acc'.pruned = acc.pruned \ gone
      /\ acc'.children = x.children /\ acc'.refCount = x.refCount
      /\ acc'.runtime = x.runtime /\ acc'.usages = x.usages
      /\ acc'.best = acc.best /\ acc'.finalized = acc.finalized
      /\ acc'.finRuntime = acc.finRuntime
      /\ pinned' = pinned \ gone
  <2>1. /\ x.phase = acc.phase /\ x.blocks = acc.blocks \ gone /\ x.recovering = {}
        /\ x.pruned = acc.pruned \ gone
        /\ x.best = acc.best /\ x.finalized = acc.finalized
        /\ x.finRuntime = acc.finRuntime
    BY <1>1, <1>3 DEF Recounted
  <2>2. QED
    BY <1>3, <1>4, <2>1, Reduced
<1>6. /\ \A b \in Block : /\ x.children[b] = IF b \in gone THEN {} ELSE acc.children[b] \ gone
                          /\ x.refCount[b] = IF b \in gone THEN 0 ELSE a.refCount[b]
                          /\ x.runtime[b] = IF b \in gone THEN NoCode ELSE acc.runtime[b]
      /\ \A c \in Codes : x.usages[c] = acc.usages[c] \ gone
  BY <1>3 DEF Cleared, Recounted
<1>7. NumberOf(a, a.finalized) = Height[sFinalized]
  BY <1>1, <1>2 DEF NumberOf, Recounted, Standing
<1>8. \A b \in gone : /\ a.refCount[b] = 0
                      /\ b \in acc.pruned \/ Height[b] < Height[sFinalized]
  BY <1>4, <1>7 DEF Unpinnable, Recounted
<1>9. ASSUME NEW b \in Block, sFinalized \in Line[b], b \notin acc.pruned PROVE b \notin gone
  <2>1. Height[sFinalized] <= Height[b] /\ Height[b] \in Nat /\ Height[sFinalized] \in Nat
    BY <1>1, <1>9, LinesFollow, ChainAssumption
  <2>2. QED
    BY <1>8, <1>9, <2>1
<1>10. Standing'
  BY <1>1, <1>5 DEF Standing
<1>11. Counted'
  <2>1. \A b \in Block : a.refCount[b] = holds'[b] + releasing'[b]
    BY DEF Recounted
  <2>2. \A b \in Block : x.refCount[b] = holds'[b] + releasing'[b]
    BY <1>6, <1>8, <2>1
  <2>3. ASSUME NEW b \in Block \ acc'.blocks PROVE x.refCount[b] = 0
    <3>1. b \in gone \/ b \notin acc.blocks
      BY <1>5
    <3>2. b \notin acc.blocks => a.refCount[b] = 0
      BY DEF Recounted
    <3>3. x.refCount[b] = IF b \in gone THEN 0 ELSE a.refCount[b]
      BY <1>6
    <3>4. QED
      BY <3>1, <3>2, <3>3
  <2>4. QED
    BY <1>5, <2>2, <2>3 DEF Counted
<1>12. Reported'
  <2>1. \A b \in seen : sFinalized \in Line[b] => b \in acc'.blocks /\ b \notin acc'.pruned
    BY <1>1, <1>5, <1>9 DEF Reported
  <2>2. QED
    BY <1>1, <1>5, <2>1 DEF Reported
<1>13. Descending'
  <2>1. ASSUME NEW b \in acc'.blocks \ {Genesis}, Parent[b] \in acc'.blocks
        PROVE  b \in x.children[Parent[b]]
    <3>1. b \in acc.blocks /\ Parent[b] \in acc.blocks /\ Parent[b] \in Block
          /\ b \notin gone /\ Parent[b] \notin gone
      BY <1>1, <1>5, <2>1
    <3>2. b \in acc.children[Parent[b]]
      BY <1>1, <2>1, <3>1 DEF Descending
    <3>3. QED
      BY <1>6, <3>1, <3>2
  <2>2. QED
    BY <1>5, <2>1 DEF Descending
<1>14. Cleaned'
  <2>1. ASSUME session = "advanced", ~cleanup',
               NEW b \in acc'.blocks, b \in acc'.pruned \/ Below(b, sFinalized)
        PROVE  x.refCount[b] > 0
    <3>1. b \in Block /\ b \in acc.blocks /\ b \notin gone /\ x.refCount[b] = a.refCount[b]
          /\ (b \in acc.pruned \/ Below(b, sFinalized))
      BY <1>1, <1>5, <1>6, <2>1
    <3>2. CASE b \notin targets
      BY <2>1, <3>1, <3>2
    <3>3. CASE b \in targets
      <4>1. ~Unpinnable(a, b)
        BY <1>4, <3>1, <3>3
      <4>2. b \in a.pruned \/ Height[b] < NumberOf(a, a.finalized)
        BY <1>1, <1>7, <3>1, LinesFollow DEF Recounted
      <4>3. a.refCount[b] # 0
        BY <1>2, <4>1, <4>2 DEF Unpinnable
      <4>4. a.refCount[b] \in Nat
        BY <3>1 DEF Recounted
      <4>5. QED
        BY <3>1, <4>3, <4>4
    <3>4. QED
      BY <3>2, <3>3
  <2>2. QED
    BY <1>5, <2>1 DEF Cleaned
<1>15. ASSUME NoReturn PROVE Running'
  <2>1. CodesBut(acc, remade)
    BY <1>1, <1>15 DEF Running
  <2>2. ASSUME NEW b \in acc'.blocks
        PROVE  x.runtime[b] = Code[b] /\ (b \notin remade => b \in x.usages[Code[b]])
    <3>1. b \in Block /\ b \in acc.blocks /\ b \notin gone /\ Code[b] \in Codes
      BY <1>1, <1>5 DEF Codes
    <3>2. acc.runtime[b] = Code[b] /\ (b \notin remade => b \in acc.usages[Code[b]])
      BY <2>1, <3>1 DEF CodesBut
    <3>3. QED
      BY <1>6, <3>1, <3>2
  <2>3. ASSUME NEW c \in Codes, NEW b \in x.usages[c] PROVE b \in acc'.blocks /\ Code[b] = c
    BY <1>5, <1>6, <2>1 DEF CodesBut
  <2>4. CodesBut(acc, remade)'
    BY <1>5, <2>2, <2>3 DEF CodesBut
  <2>5. QED
    BY <1>1, <1>5, <1>15, <2>4 DEF Running
<1>16. \A b \in pinned : b \in pinned' \/ holds'[b] = 0
  <2>1. ASSUME NEW b \in gone PROVE holds'[b] = 0
    <3>1. b \in Block /\ holds'[b] + releasing'[b] = 0
      BY <1>4, <1>8 DEF Recounted
    <3>2. holds'[b] \in Nat /\ releasing'[b] \in Nat
      BY <3>1
    <3>3. QED
      BY <3>1, <3>2
  <2>2. QED
    BY <1>5, <2>1
<1>17. QED
  BY <1>5, <1>10, <1>11, <1>12, <1>13, <1>14, <1>15, <1>16 DEF OpenInv, Observed, Opened

\* A user steps: whether the block stays depends on the count it leaves.
LEMMA FirstUsed ==
  ASSUME FirstInv, Opened, NEW b \in acc.blocks, NEW delta \in Int,
         Reduce(OnBlockUsage(acc, b, delta), pinned),
         holds' \in [Block -> Nat], releasing' \in [Block -> Nat],
         \A y \in Block : holds'[y] + releasing'[y] =
                            holds[y] + releasing[y] + (IF y = b THEN delta ELSE 0),
         UNCHANGED <<cleanup, session, seen, sFinalized, sBest, remade>>
  PROVE  /\ Observed' /\ OpenInv'
         /\ \A y \in pinned : y \in pinned' \/ holds'[y] = 0
<1> DEFINE c == UsedBy(acc, b, delta)
<1>1. acc \in Accumulator /\ b \in Block /\ Counted /\ Cleaned
  BY OpenFacts DEF FirstInv, OpenInv, Accumulator
<1>2. /\ c \in Accumulator
      /\ CountChanged(c, acc, b, delta)
      /\ c.phase = acc.phase /\ c.blocks = acc.blocks /\ c.children = acc.children
      /\ c.recovering = acc.recovering /\ c.pruned = acc.pruned
      /\ c.best = acc.best /\ c.finalized = acc.finalized
      /\ c.runtime = acc.runtime /\ c.usages = acc.usages /\ c.finRuntime = acc.finRuntime
      /\ OnBlockUsage(acc, b, delta) = IF b \notin acc.blocks THEN acc ELSE TryToUnpin(c, {b})
  BY <1>1, UsageFacts
<1> HIDE DEF c
<1>3. \A y \in Block : c.refCount[y] = acc.refCount[y] + (IF y = b THEN delta ELSE 0)
  <2>1. acc.refCount \in [Block -> Int]
    BY <1>1 DEF Accumulator
  <2>2. QED
    BY <1>2, <2>1 DEF CountChanged
<1>4. \A y \in Block : c.refCount[y] = holds'[y] + releasing'[y]
  BY <1>1, <1>3 DEF Counted
<1>5. \A y \in Block \ {b} : c.refCount[y] = acc.refCount[y]
  BY <1>2 DEF CountChanged
<1>6. Recounted(c)
  BY <1>1, <1>2, <1>4, <1>5 DEF Recounted, Counted
<1>7. session = "advanced" /\ ~cleanup' =>
        \A y \in acc.blocks \ {b} :
           y \in acc.pruned \/ Below(y, sFinalized) => c.refCount[y] > 0
  BY <1>1, <1>5 DEF Cleaned, Accumulator
<1>8. Reduce(TryToUnpin(c, {b}), pinned) /\ {b} \in SUBSET acc.blocks
  BY <1>2
<1>9. QED
  BY <1>6, <1>7, <1>8, FirstUnpin

LEMMA FirstUser ==
  ASSUME FirstInv, Opened, NEW b \in Block, Hold(b) \/ Release(b) \/ ReleaseFires(b)
  PROVE  /\ Observed' /\ OpenInv'
         /\ \A y \in pinned : y \in pinned' \/ holds[y] = 0
<1>1. /\ releasing \in [Block -> Nat] /\ holds \in [Block -> Nat]
      /\ Counted /\ OpenInv /\ Observed
  BY OpenFacts DEF FirstInv, OpenInv, Opened
<1>2. CASE Hold(b)
  <2>1. /\ b \in acc.blocks /\ Reduce(OnBlockUsage(acc, b, 1), pinned)
        /\ UNCHANGED <<cleanup, releasing, session, seen, sFinalized, sBest, remade>>
        /\ holds' = [holds EXCEPT ![b] = holds[b] + 1]
    BY <1>2 DEF Hold, serverVars
  <2>2. holds' \in [Block -> Nat] /\ releasing' \in [Block -> Nat]
    BY <1>1, <2>1
  <2>3. \A y \in Block : holds'[y] + releasing'[y] =
                           holds[y] + releasing[y] + (IF y = b THEN 1 ELSE 0)
    BY <1>1, <2>1
  <2>4. \A y \in Block : holds'[y] = 0 => holds[y] = 0
    BY <1>1, <2>1
  <2>5. pinned \subseteq Block
    BY OpenFacts
  <2>6. QED
    BY <2>1, <2>2, <2>3, <2>4, <2>5, FirstUsed
<1>3. CASE Release(b)
  <2>1. /\ holds[b] > 0
        /\ holds' = [holds EXCEPT ![b] = holds[b] - 1]
        /\ releasing' = [releasing EXCEPT ![b] = releasing[b] + 1]
        /\ UNCHANGED <<acc, pinned, cleanup, session, seen, sFinalized, sBest, remade>>
    BY <1>3 DEF Release, serverVars
  <2>2. \A y \in Block : holds'[y] + releasing'[y] = holds[y] + releasing[y]
    BY <1>1, <2>1
  <2>3. Counted'
    BY <1>1, <2>1, <2>2 DEF Counted
  <2>4. Standing' /\ Reported' /\ Descending' /\ Cleaned' /\ (NoReturn => Running')
    BY <1>1, <2>1 DEF OpenInv, Standing, Reported, Descending, Cleaned, Running, CodesBut
  <2>5. QED
    BY <1>1, <2>1, <2>3, <2>4 DEF OpenInv, Observed
<1>4. CASE ReleaseFires(b)
  <2>1. /\ releasing[b] > 0 /\ Reduce(OnBlockUsage(acc, b, -1), pinned)
        /\ UNCHANGED <<cleanup, holds, session, seen, sFinalized, sBest, remade>>
        /\ releasing' = [releasing EXCEPT ![b] = releasing[b] - 1]
    BY <1>4 DEF ReleaseFires, serverVars
  <2>2. holds' \in [Block -> Nat] /\ releasing' \in [Block -> Nat]
    BY <1>1, <2>1
  <2>3. \A y \in Block : holds'[y] + releasing'[y] =
                           holds[y] + releasing[y] + (IF y = b THEN -1 ELSE 0)
    BY <1>1, <2>1
  <2>4. b \in acc.blocks
    <3>1. holds[b] + releasing[b] # 0
      BY <1>1, <2>1
    <3>2. QED
      BY <1>1, <3>1 DEF Counted
  <2>5. QED
    BY <2>1, <2>2, <2>3, <2>4, FirstUsed
<1>5. QED
  BY <1>2, <1>3, <1>4

LEMMA FirstCleanUp ==
  ASSUME FirstInv, Opened, CleanUp
  PROVE  /\ Observed' /\ OpenInv'
         /\ \A y \in pinned : y \in pinned' \/ holds[y] = 0
<1>1. /\ Reduce(TryToUnpin(acc, acc.blocks), pinned)
      /\ UNCHANGED <<releasing, holds, session, seen, sFinalized, sBest, remade>>
  BY DEF CleanUp, userVars, serverVars
<1>2. /\ releasing \in [Block -> Nat] /\ holds \in [Block -> Nat] /\ acc \in Accumulator
      /\ Counted
  BY OpenFacts DEF FirstInv, OpenInv
<1>3. Recounted(acc)
  BY <1>1, <1>2 DEF Recounted, Counted
<1>4. /\ acc.blocks \in SUBSET acc.blocks
      /\ holds' \in [Block -> Nat] /\ releasing' \in [Block -> Nat]
  BY <1>1, <1>2
<1>5. QED
  BY <1>1, <1>3, <1>4, FirstUnpin

\* Before the first subscription nothing moves but the subscription.
LEMMA FirstIdle ==
  ASSUME FirstInv, stops = 0, session = "none", Next
  PROVE  \E b \in Block : \E n \in 1 .. MaxWindow : Initialize(b, n)
<1>1. acc = Initial /\ ~cleanup /\ Counted /\ holds \in [Block -> Nat] /\ releasing \in [Block -> Nat]
  BY DEF FirstInv, PinsInv, TypeOK
<1>2. \A b \in Block : holds[b] = 0 /\ releasing[b] = 0
  <2>1. \A b \in Block : Initial.refCount[b] = 0
    BY DEF Initial
  <2>2. QED
    BY <1>1, <2>1 DEF Counted
<1>3. ~User
  <2>1. ASSUME NEW b \in Block, Hold(b) PROVE FALSE
    BY <1>1, <2>1, InitialFacts DEF Hold
  <2>2. ASSUME NEW b \in Block, Release(b) \/ ReleaseFires(b) PROVE FALSE
    BY <1>2, <2>2 DEF Release, ReleaseFires
  <2>3. QED
    BY <2>1, <2>2, BoundsAssumption DEF User
<1>4. ~CleanUp /\ ~Stop
  BY <1>1 DEF CleanUp, Stop
<1>5. \A b \in Block : ~NewBlock(b) /\ ~BestBlockChanged(b) /\ ~Finalize(b)
  BY DEF NewBlock, BestBlockChanged, Finalize, Live
<1>6. QED
  BY <1>3, <1>4, <1>5 DEF Next, Server

\* A step in the first subscription, but its end.
LEMMA FirstOpened ==
  ASSUME FirstInv, Opened, Next, stops' = 0
  PROVE  /\ session' # "none"
         /\ Observed' => OpenInv'
         /\ NoReturn /\ ~Observed' => Outlived'
         /\ \A y \in pinned : y \in pinned' \/ holds[y] = 0
<1>1. stops = 0 /\ session # "none"
  BY DEF Opened
<1>2. ASSUME NEW b \in Block, NEW n \in 1 .. MaxWindow, Initialize(b, n) PROVE FALSE
  BY <1>1, <1>2 DEF Initialize
<1>3. ASSUME NEW b \in Block, NewBlock(b)
      PROVE  /\ Observed' => OpenInv'
             /\ UNCHANGED session
             /\ NoReturn /\ ~Observed' => Outlived'
             /\ \A y \in pinned : y \in pinned'
  <2>1. /\ Reduce(OnNewBlock(acc, b, Code[b] # Code[Parent[b]]), pinned \cup {b})
        /\ UNCHANGED session
    BY <1>3 DEF NewBlock
  <2>2. OnNewBlock(acc, b, Code[b] # Code[Parent[b]]).unpins = {}
    BY OpenFacts, SoundNewBlock
  <2>3. \A y \in pinned : y \in pinned'
    BY <2>1, <2>2 DEF Reduce
  <2>4. QED
    BY <1>3, <2>1, <2>3, FirstNewBlock
<1>4. ASSUME NEW b \in Block, BestBlockChanged(b)
      PROVE  Observed' /\ OpenInv' /\ session' # "none" /\ \A y \in pinned : y \in pinned'
  <2>1. Reduce(OnBestBlockChanged(acc, b), pinned) /\ session' # "none"
    BY <1>1, <1>4 DEF BestBlockChanged
  <2>2. OnBestBlockChanged(acc, b).unpins = {}
    BY OpenFacts, SoundBest
  <2>3. QED
    BY <1>4, <2>1, <2>2, FirstBestBlock DEF Reduce
<1>5. ASSUME NEW b \in Block, Finalize(b)
      PROVE  Observed' /\ OpenInv' /\ session' # "none" /\ \A y \in pinned : y \in pinned'
  <2>1. Reduce(OnFinalized(acc, b, NewlyPruned(b)), pinned) /\ session' # "none"
    BY <1>5 DEF Finalize
  <2>2. NewlyPruned(b) \in SUBSET Block
    BY OpenFacts DEF NewlyPruned
  <2>3. OnFinalized(acc, b, NewlyPruned(b)).unpins = {}
    BY <2>2, OpenFacts, SoundFinalized
  <2>4. QED
    BY <1>5, <2>1, <2>3, FirstFinalize DEF Reduce
<1>6. ~Stop
  <2>1. ASSUME Stop PROVE FALSE
    BY <1>1, <2>1 DEF Stop
  <2>2. QED
    BY <2>1
<1>7. CASE CleanUp
  BY <1>1, <1>7, FirstCleanUp DEF CleanUp, serverVars
<1>8. ASSUME NEW b \in Held, Hold(b) \/ Release(b) \/ ReleaseFires(b)
      PROVE  /\ Observed' /\ OpenInv' /\ UNCHANGED session
             /\ \A y \in pinned : y \in pinned' \/ holds[y] = 0
  <2>1. UNCHANGED session /\ b \in Block
    BY <1>8, BoundsAssumption DEF Hold, Release, ReleaseFires, serverVars
  <2>2. QED
    BY <1>8, <2>1, FirstUser
<1>9. CASE User
  BY <1>1, <1>8, <1>9 DEF User
<1>10. CASE Server
  <2>1. PICK b \in Block : (\E n \in 1 .. MaxWindow : Initialize(b, n)) \/ NewBlock(b)
                          \/ BestBlockChanged(b) \/ Finalize(b)
    BY <1>6, <1>10 DEF Server
  <2>2. CASE \E n \in 1 .. MaxWindow : Initialize(b, n)
    BY <1>2, <2>2
  <2>3. CASE NewBlock(b)
    BY <1>1, <1>3, <2>3
  <2>4. CASE BestBlockChanged(b)
    BY <1>4, <2>4
  <2>5. CASE Finalize(b)
    BY <1>5, <2>5
  <2>6. QED
    BY <2>1, <2>2, <2>3, <2>4, <2>5
<1>11. QED
  BY <1>7, <1>9, <1>10 DEF Next

LEMMA StopsGrow == Next => Observed /\ stops' \in {stops, stops + 1}
<1> SUFFICES ASSUME Next PROVE Observed /\ stops' \in {stops, stops + 1}
  OBVIOUS
<1>1. CASE Server
  <2>1. ASSUME NEW b \in Block, NEW n \in 1 .. MaxWindow, Initialize(b, n)
        PROVE  Observed /\ stops' = stops
    BY <2>1 DEF Initialize
  <2>2. ASSUME NEW b \in Block, NewBlock(b) \/ BestBlockChanged(b) \/ Finalize(b)
        PROVE  Observed /\ stops' = stops
    BY <2>2 DEF NewBlock, BestBlockChanged, Finalize
  <2>3. Stop => Observed /\ stops' = stops + 1
    BY DEF Stop
  <2>4. QED
    BY <1>1, <2>1, <2>2, <2>3 DEF Server
<1>2. CASE CleanUp
  BY <1>2 DEF CleanUp, serverVars
<1>3. CASE User
  BY <1>3 DEF User, Hold, Release, ReleaseFires, serverVars
<1>4. QED
  BY <1>1, <1>2, <1>3 DEF Next

LEMMA FirstStep == FirstInv /\ [Next]_vars => FirstInv'
<1> SUFFICES ASSUME FirstInv, [Next]_vars PROVE FirstInv'
  OBVIOUS
<1>1. PinsInv'
  BY PinsStep DEF FirstInv
<1>2. CASE UNCHANGED vars
  <2>1. UNCHANGED <<acc, cleanup, releasing, holds, session, seen, pinned, sFinalized, sBest, stops, remade>>
    BY <1>2 DEF vars, userVars, serverVars
  <2>2. /\ (Observed' <=> Observed) /\ (Counted' <=> Counted) /\ (Opened' <=> Opened)
        /\ (Standing' <=> Standing) /\ (Reported' <=> Reported) /\ (Descending' <=> Descending)
        /\ (Cleaned' <=> Cleaned)
    BY <2>1 DEF Observed, Counted, Opened, Standing, Reported, Descending, Cleaned
  <2>3. (Running' <=> Running) /\ (Outlived' <=> Outlived)
    BY <2>1 DEF Running, Outlived, CodesBut
  <2>4. QED
    BY <1>1, <2>1, <2>2, <2>3 DEF FirstInv, OpenInv
<1>3. CASE Next /\ stops' # 0
  BY <1>1, <1>3 DEF FirstInv, Opened
<1>4. CASE Next /\ stops' = 0
  <2>1. stops = 0
    <3>1. stops' \in {stops, stops + 1} /\ stops \in Nat
      BY <1>4, StopsGrow, BoundsAssumption DEF FirstInv, PinsInv, TypeOK
    <3>2. QED
      BY <1>4, <3>1
  <2>2. Observed
    BY <1>4, StopsGrow
  <2>3. CASE session = "none"
    <3>1. PICK b \in Block, n \in 1 .. MaxWindow : Initialize(b, n)
      BY <1>4, <2>1, <2>3, FirstIdle
    <3>2. acc'.phase = "Initializing" /\ session' # "none" /\ OpenInv'
      BY <2>1, <3>1, FirstInitialize
    <3>3. QED
      BY <1>1, <3>2 DEF FirstInv, Observed
  <2>4. CASE session # "none"
    <3>1. Opened
      BY <2>1, <2>2, <2>4 DEF Opened
    <3>2. session' # "none" /\ (Observed' => OpenInv') /\ (NoReturn /\ ~Observed' => Outlived')
      BY <1>4, <3>1, FirstOpened
    <3>3. QED
      BY <1>1, <3>2 DEF FirstInv, Opened
  <2>5. QED
    BY <2>3, <2>4
<1>5. QED
  BY <1>2, <1>3, <1>4

THEOREM FirstInvariant == Spec => []FirstInv
BY FirstStart, FirstStep, PTL DEF Spec

LEMMA FirstCounts == FirstInv /\ stops = 0 => PinsAreCounted
<1> SUFFICES ASSUME FirstInv, stops = 0, Observed PROVE PinsAreCounted
  BY DEF PinsAreCounted, UsersAreCounted, NothingUselessPinned, Observed, Ready
<1>1. acc \in Accumulator /\ acc.blocks \subseteq Block
  BY DEF FirstInv, PinsInv, TypeOK, Accumulator
<1>2. CASE session = "none"
  BY <1>1, <1>2 DEF FirstInv, Counted, PinsAreCounted, UsersAreCounted, NothingUselessPinned
<1>3. CASE session # "none"
  <2>1. Counted /\ Cleaned /\ acc.finalized = sFinalized
    BY <1>3 DEF FirstInv, Opened, OpenInv, Standing
  <2>2. UsersAreCounted
    BY <1>1, <2>1 DEF Counted, UsersAreCounted
  <2>3. NothingUselessPinned
    BY <1>1, <2>1 DEF Counted, Cleaned, NothingUselessPinned
  <2>4. QED
    BY <2>2, <2>3 DEF PinsAreCounted
<1>4. QED
  BY <1>2, <1>3

LEMMA FirstRuntimes == FirstInv /\ stops = 0 /\ NoReturn => RuntimesServe
<1> SUFFICES ASSUME FirstInv, stops = 0, NoReturn PROVE RuntimesServe
  OBVIOUS
<1>1. CASE ~Observed
  <2>1. Outlived /\ ~Ready
    BY <1>1 DEF FirstInv, Observed, Ready
  <2>2. QED
    BY <2>1 DEF Outlived, CodesBut, RuntimesServe, FailsForOutlivedRuntime, RuntimesAreRight,
       RuntimesCoverBlocks, ChildrenAreComplete
<1>2. CASE Observed /\ session = "none"
  <2>1. acc = Initial /\ ~Ready
    BY <1>2, InitialFacts DEF FirstInv, Ready
  <2>2. acc.blocks = {} /\ \A c \in Codes : acc.usages[c] = {}
    BY <2>1 DEF Initial
  <2>3. QED
    BY <1>2, <2>1, <2>2 DEF RuntimesServe, FailsForOutlivedRuntime, RuntimesAreRight,
       RuntimesCoverBlocks, ChildrenAreComplete
<1>3. CASE Observed /\ session # "none"
  <2>1. Standing /\ Descending /\ Running
    BY <1>3 DEF FirstInv, Opened, OpenInv
  <2>2. RuntimesAreRight /\ RuntimesCoverBlocks
    BY <2>1 DEF Running, CodesBut, Standing, RuntimesAreRight, RuntimesCoverBlocks
  <2>3. ChildrenAreComplete
    BY <2>1 DEF Descending, ChildrenAreComplete
  <2>4. QED
    BY <1>3, <2>2, <2>3 DEF RuntimesServe, FailsForOutlivedRuntime
<1>4. QED
  BY <1>1, <1>2, <1>3

LEMMA FirstUses ==
  FirstInv /\ stops' = 0 /\ [Next]_vars =>
    \A b \in pinned : holds[b] > 0 /\ session' = session => b \in pinned'
<1> SUFFICES ASSUME FirstInv, stops' = 0, [Next]_vars,
                    NEW b \in pinned, holds[b] > 0, session' = session
             PROVE  b \in pinned'
  OBVIOUS
<1>1. CASE UNCHANGED vars
  BY <1>1 DEF vars
<1>2. CASE Next
  <2>1. stops = 0
    <3>1. stops' \in {stops, stops + 1} /\ stops \in Nat
      BY <1>2, StopsGrow, BoundsAssumption DEF FirstInv, PinsInv, TypeOK
    <3>2. QED
      BY <3>1
  <2>2. Observed
    BY <1>2, StopsGrow
  <2>3. session # "none"
    BY <2>2 DEF FirstInv, PinsInv
  <2>4. b \in pinned' \/ holds[b] = 0
    BY <1>2, <2>1, <2>2, <2>3, FirstOpened DEF Opened
  <2>5. QED
    BY <2>4
<1>3. QED
  BY <1>1, <1>2

\* Until the server stops a subscription, the count of each block is the number of
\* its users, releases under way included, and every useless block that nobody uses
\* is unpinned at the clean-up that follows.
THEOREM PinsStayCounted == Spec => [](stops = 0 => PinsAreCounted)
<1>1. FirstInv => (stops = 0 => PinsAreCounted)
  BY FirstCounts
<1>2. QED
  BY <1>1, FirstInvariant, PTL

\* Until then, on any tree, upgrades that several branches have included, whose lines
\* do not go back to a runtime they left: each block is read with the runtime of its
\* code; that runtime is there while a block needs it, unless a later branch made it
\* anew; the stream of blocks fails for want of such a runtime only; and each pinned
\* block is a child of its pinned parent.
THEOREM RuntimesStayRight ==
  ASSUME NoReturn
  PROVE  Spec => [](stops = 0 => RuntimesServe)
<1>1. FirstInv => (stops = 0 => RuntimesServe)
  BY FirstRuntimes
<1>2. QED
  BY <1>1, FirstInvariant, PTL

\* If the server never stops it, nothing is unpinned while a user holds it.
THEOREM UsedStaysPinnedAlways ==
  ASSUME MaxStops = 0
  PROVE  Spec => UsedStaysPinned
<1>1. FirstInv /\ FirstInv' /\ [Next]_vars =>
        [\A b \in pinned : holds[b] > 0 /\ session' = session => b \in pinned']_vars
  <2>1. FirstInv' => stops' = 0
    BY DEF FirstInv, PinsInv, TypeOK
  <2>2. QED
    BY <2>1, FirstUses
<1>2. QED
  BY <1>1, FirstInvariant, PTL DEF Spec, UsedStaysPinned

-------------------------------------------------------------------------------
(***************************************************************************)
(* Over any number of subscriptions, however they lag and whenever they    *)
(* stop. What a handler reads is there, and what it tells has no gap.      *)
(***************************************************************************)

\* Nothing of an earlier subscription is left, and no other one is open.
Idle == session = "none" /\ acc.phase = "Initializing"

\* What the subscribers of newBlocks$ were told, or will be once it is ready.
Told == acc.emitted \cup Range(acc.pending)

\* The server finalizes along the line of the highest finalized block, and reports
\* every block from its finalized one up to each that it reported.
Served ==
  /\ sFinalized # NoBlock => top \in Block /\ sFinalized \in Line[top]
  /\ session = "none" => seen = {}
  /\ session # "none" =>
       /\ sFinalized \in Block /\ sBest \in Block
       /\ {sFinalized, sBest} \subseteq seen
       /\ sFinalized \in Line[sBest]
       /\ \A b \in seen : \A x \in Line[b] : sFinalized \in Line[x] => x \in seen

Phased ==
  /\ session = "none" => acc.phase \in {"Initializing", "RecoveringInit"}
  /\ session = "initialized" => acc.phase \in {"Initializing", "RecoveringFin"}
  /\ session \in Live => acc.phase \in {"Ready", "RecoveringFin"}
  /\ Idle => acc.blocks = {} /\ acc.finalized = NoBlock
  /\ acc.phase = "Ready" => acc.recovering = {}
  /\ acc.phase \in {"Ready", "RecoveringInit"} => acc.pending = <<>>
  /\ acc.phase = "RecoveringFin" => acc.target = Height[acc.finalized]
  /\ seen \cap acc.recovering = {}

\* The finalized block of the client is there, at or below the highest one; so is
\* all that the server reported above it.
Based ==
  ~Idle =>
    /\ acc.finalized \in acc.blocks
    /\ top \in Block /\ acc.finalized \in Line[top]
    /\ acc.phase \in {"Initializing", "Ready"} => acc.finalized = sFinalized
    /\ \A b \in acc.pruned : ~Aligned(b, acc.finalized)
    /\ \A b \in seen : acc.finalized \in Line[b] => b \in acc.blocks

\* If no subscription was cut, what is above the finalized block was told.
Kept ==
  "cut" \notin mishaps => \A b \in acc.blocks : Below(acc.finalized, b) => b \in Told

\* If none was behind, the client is where the server is.
Timely ==
  InTime =>
    /\ top # NoBlock => sFinalized = top
    /\ acc.phase # "RecoveringFin"
    /\ session \in Live => acc.best = sBest
    /\ acc.phase = "RecoveringInit" => acc.finalized = top

IsRoot(S, b) == b = Genesis \/ Parent[b] \notin S
OneRoot(S) == \A b, x \in S : IsRoot(S, b) /\ IsRoot(S, x) => b = x

\* If nothing happened, what was told is one tree, with the finalized block and all
\* above it; the blocks that recover have no gap above the finalized one.
Whole ==
  mishaps = {} =>
    /\ OneRoot(Told)
    /\ Idle => acc.emitted = {}
    /\ \A b \in acc.blocks : acc.finalized \in Line[b] => b \in Told
    /\ acc.phase = "RecoveringInit" =>
         \A b \in acc.blocks : acc.finalized \in Line[b] =>
           \A x \in Line[b] : acc.finalized \in Line[x] => x \in acc.blocks

StopsInv ==
  /\ PinsInv
  /\ Served
  /\ Observed => Phased /\ Based /\ Kept /\ Timely /\ Whole
  /\ mishaps = {} => OneRoot(acc.emitted)

\* A chain without upgrades.
OneRuntime == \A b \in Block : Code[b] = Code[Genesis]

\* In time, the one runtime is there as soon as a block is.
RuntimeInv ==
  InTime => /\ Observed
            /\ HasCodes(acc)
            /\ acc.blocks # {} => acc.finRuntime = Code[Genesis]

LEMMA LineOrder ==
  ASSUME NEW a \in Block, NEW b \in Block, NEW t \in Block,
         a \in Line[t], Aligned(b, t), Height[a] <= Height[b]
  PROVE  a \in Line[b]
<1>1. Height[a] \in Nat /\ Height[b] \in Nat
  BY ChainAssumption
<1>2. CASE t \in Line[b]
  BY <1>2, LinesFollow
<1>3. CASE b \in Line[t]
  <2>1. Aligned(a, b)
    BY <1>3, LinesFollow
  <2>2. CASE b \in Line[a]
    <3>1. b = a \/ Height[b] < Height[a]
      BY <2>2, LineFacts
    <3>2. b = a
      BY <1>1, <3>1
    <3>3. QED
      BY <3>2, LinesFollow
  <2>3. QED
    BY <2>1, <2>2 DEF Aligned
<1>4. QED
  BY <1>2, <1>3 DEF Aligned

\* What is on another line than a block is on another than those above it.
LEMMA StaysApart ==
  ASSUME NEW a \in Block, NEW b \in Block, NEW p \in Block, a \in Line[b], ~Aligned(p, a)
  PROVE  ~Aligned(p, b)
<1>1. ASSUME p \in Line[b] PROVE FALSE
  <2>1. Aligned(p, a)
    BY <1>1, LinesFollow
  <2>2. QED
    BY <2>1
<1>2. ASSUME b \in Line[p] PROVE FALSE
  <2>1. a \in Line[p]
    BY <1>2, LinesFollow
  <2>2. QED
    BY <2>1 DEF Aligned
<1>3. QED
  BY <1>1, <1>2 DEF Aligned

LEMMA EmptyRange == Range(<<>>) = {}
BY DEF Range

LEMMA FailTells ==
  ASSUME NEW a \in Accumulator
  PROVE  Fail(a).emitted = a.emitted
BY DEF Fail, Accumulator

LEMMA ResetTells ==
  ASSUME NEW a \in Accumulator
  PROVE  /\ ResetState(a).emitted = a.emitted
         /\ ResetState(a).finalized = NoBlock
         /\ ResetState(a).pending = <<>>
         /\ \A c \in Codes : ResetState(a).usages[c] = {}
         /\ StartOver(a).emitted = {}
         /\ StartOver(a).finalized = NoBlock
         /\ \A c \in Codes : StartOver(a).usages[c] = {}
<1>1. Initial \in Accumulator
  BY InitialFacts
<1>2. /\ Initial.finalized = NoBlock /\ Initial.pending = <<>>
      /\ \A c \in Codes : Initial.usages[c] = {}
  BY DEF Initial
<1>3. /\ ResetState(a).emitted = a.emitted
      /\ ResetState(a).finalized = NoBlock
      /\ ResetState(a).pending = <<>>
      /\ \A c \in Codes : ResetState(a).usages[c] = {}
      /\ ResetState(a) \in Accumulator
  <2>1. a.emitted \in SUBSET Block
    BY DEF Accumulator
  <2>2. QED
    BY <1>1, <1>2, <2>1 DEF ResetState, Accumulator
<1> DEFINE r == ResetState(a)
<1> HIDE DEF r
<1>4. /\ [r EXCEPT !.emitted = {}].emitted = {}
      /\ [r EXCEPT !.emitted = {}].finalized = r.finalized
      /\ [r EXCEPT !.emitted = {}].usages = r.usages
  BY <1>3 DEF Accumulator, r
<1>5. StartOver(a) = [r EXCEPT !.emitted = {}]
  BY DEF StartOver, r
<1>6. QED
  BY <1>3, <1>4, <1>5 DEF r

\* x is the accumulator a once the block b of the window is added.
AddedTo(x, a, b, h) ==
  /\ x.emitted = a.emitted
  /\ x.phase # "Failed" =>
       /\ x.phase = a.phase /\ x.target = a.target
       /\ x.finalized = a.finalized /\ x.best = a.best
       /\ x.blocks = a.blocks \cup {b}
       /\ Range(x.pending) = Range(a.pending) \cup
                               (IF b \notin a.blocks /\ Height[b] > h THEN {b} ELSE {})

\* What a block of the window adds to what is told.
LEMMA AddTells ==
  ASSUME NEW a \in Accumulator, NEW w \in Seq(Block), NEW i \in 1 .. Len(w), NEW h \in Int
  PROVE  AddedTo(AddFinalized(a, w, i, h), a, w[i], h)
<1> DEFINE x == AddFinalized(a, w, i, h)
<1>0. w[i] \in Block
  OBVIOUS
<1>1. CASE w[i] \in a.blocks
  <2>1. /\ x.emitted = a.emitted
        /\ x.phase = a.phase /\ x.target = a.target
        /\ x.finalized = a.finalized /\ x.best = a.best
        /\ x.blocks = a.blocks /\ x.pending = a.pending
    BY <1>1, AddKnown
  <2>2. QED
    BY <1>1, <2>1 DEF AddedTo
<1>2. CASE w[i] \notin a.blocks /\ NoRuntime(a, w, i, h)
  <2>1. x = Fail(a)
    BY <1>2 DEF AddFinalized, NoRuntime, RuntimeInWindow, MakesRuntime
  <2>2. x.phase = "Failed" /\ x.emitted = a.emitted
    BY <2>1, FailFacts, FailTells
  <2>3. QED
    BY <2>2 DEF AddedTo
<1>3. CASE w[i] \notin a.blocks /\ ~NoRuntime(a, w, i, h)
  <2>1. IsAdded(a, w, i, h)
    BY <1>3 DEF IsAdded
  <2>2. /\ x.emitted = a.emitted
        /\ x.phase = a.phase /\ x.target = a.target
        /\ x.finalized = a.finalized /\ x.best = a.best
        /\ x.blocks = a.blocks \cup {w[i]}
        /\ x.pending = IF Height[w[i]] > h THEN Append(a.pending, w[i]) ELSE a.pending
    BY <2>1, AddNew
  <2>3. Range(Append(a.pending, w[i])) = Range(a.pending) \cup {w[i]}
    <3>1. a.pending \in Seq(Block)
      BY DEF Accumulator
    <3>2. QED
      BY <1>0, <3>1, AppendElements
  <2> HIDE DEF x
  <2>4. Range(x.pending) = Range(a.pending) \cup
          (IF w[i] \notin a.blocks /\ Height[w[i]] > h THEN {w[i]} ELSE {})
    <3>1. CASE Height[w[i]] > h
      BY <1>3, <2>2, <2>3, <3>1
    <3>2. CASE ~(Height[w[i]] > h)
      BY <2>2, <3>2
    <3>3. QED
      BY <3>1, <3>2
  <2>5. QED
    BY <1>3, <2>2, <2>4 DEF x, AddedTo
<1>4. QED
  BY <1>1, <1>2, <1>3

\* What the window adds: the blocks that are neither known nor below h.
LEMMA WindowTells ==
  ASSUME NEW a \in Accumulator, NEW b \in Block, NEW w, IsWindow(w, b), NEW h \in Int,
         a.recovering \subseteq a.blocks
  PROVE  LET x == AddWindow(a, w, h)
         IN  /\ x.emitted = a.emitted
             /\ x.phase # "Failed" =>
                  /\ x.phase = a.phase /\ x.target = a.target
                  /\ x.finalized = a.finalized /\ x.best = a.best
                  /\ Range(x.pending) = Range(a.pending) \cup
                                          {y \in Range(w) : y \notin a.blocks /\ Height[y] > h}
<1>0. w \in Seq(Block) /\ Len(w) > 0
  BY WindowRange
<1>1. PICK f : Adds(f, a, w, h) /\ AddWindow(a, w, h) = f[Len(w)]
  BY <1>0, AddWindowUnfolds
<1>2. /\ f \in [0 .. Len(w) -> Accumulator]
      /\ f[0] = a
      /\ \A i \in 1 .. Len(w) : f[i] = AddFinalized(f[i - 1], w, i, h)
      /\ Len(w) \in Nat
  BY <1>0, <1>1 DEF Adds
<1>3. /\ \A i, j \in 1 .. Len(w) : i < j => Height[w[i]] < Height[w[j]]
      /\ \A i \in 1 .. Len(w) : w[i] \in Block
      /\ \A y \in Block : Height[y] \in Nat
  BY WindowOrdered, ChainAssumption
<1> DEFINE New(i) == {w[j] : j \in {k \in 1 .. i : w[k] \notin a.blocks /\ Height[w[k]] > h}}
           Right(i) == /\ f[i].emitted = a.emitted
                       /\ f[i].phase # "Failed" =>
                            /\ f[i].phase = a.phase /\ f[i].target = a.target
                            /\ f[i].finalized = a.finalized /\ f[i].best = a.best
                            /\ f[i].blocks = a.blocks \cup FirstOf(w, i)
                            /\ Range(f[i].pending) = Range(a.pending) \cup New(i)
           N == {i \in Nat : i <= Len(w) => Right(i)}
<1>4. 0 \in N
  <2>1. FirstOf(w, 0) = {} /\ New(0) = {}
    BY DEF FirstOf
  <2> HIDE DEF New
  <2>2. QED
    BY <1>2, <2>1
<1>5. ASSUME NEW i \in Nat, i \in N PROVE i + 1 \in N
  <2> SUFFICES ASSUME i + 1 <= Len(w) PROVE Right(i + 1)
    OBVIOUS
  <2> DEFINE n == i + 1
             c == f[i]
             x == f[n]
             e == IF w[n] \notin a.blocks /\ Height[w[n]] > h THEN {w[n]} ELSE {}
  <2>0. Len(w) \in Nat
    BY <1>2
  <2>1. n \in 1 .. Len(w) /\ i \in 0 .. Len(w) /\ n - 1 = i
    BY <2>0
  <2>2. Right(i)
    BY <1>2, <1>5, <2>1
  <2>3. c \in Accumulator /\ x = AddFinalized(c, w, n, h)
    BY <1>2, <2>1
  <2>4. w[n] \notin FirstOf(w, i)
    <3>1. ASSUME NEW j \in 1 .. i PROVE w[j] # w[n]
      <4>1. j \in 1 .. Len(w) /\ j < n
        BY <2>1
      <4>2. Height[w[j]] < Height[w[n]] /\ Height[w[n]] \in Nat
        BY <1>3, <2>1, <4>1
      <4>3. QED
        BY <4>2
    <3>2. QED
      BY <3>1 DEF FirstOf
  <2>5. FirstOf(w, n) = FirstOf(w, i) \cup {w[n]}
    BY <2>1 DEF FirstOf
  <2>6. New(n) = New(i) \cup e
    BY <2>1
  <2> HIDE DEF New
  <2>7. /\ x.emitted = c.emitted
        /\ x.phase # "Failed" =>
             /\ x.phase = c.phase /\ x.target = c.target
             /\ x.finalized = c.finalized /\ x.best = c.best
             /\ x.blocks = c.blocks \cup {w[n]}
             /\ Range(x.pending) = Range(c.pending) \cup
                  (IF w[n] \notin c.blocks /\ Height[w[n]] > h THEN {w[n]} ELSE {})
    <3>1. AddedTo(AddFinalized(c, w, n, h), c, w[n], h)
      <4> HIDE DEF c, x, n, e
      <4>1. QED
        BY <1>0, <2>1, <2>3, AddTells
    <3> HIDE DEF c, x, n, e
    <3>2. AddedTo(x, c, w[n], h)
      BY <2>3, <3>1
    <3>3. QED
      BY <3>2 DEF AddedTo
  <2> HIDE DEF c, x, e
  <2>8. CASE x.phase = "Failed"
    BY <2>2, <2>7, <2>8 DEF c, x
  <2>9. CASE x.phase # "Failed"
    <3>1. c.phase # "Failed"
      BY <2>7, <2>9
    <3>2. /\ c.emitted = a.emitted
          /\ c.phase = a.phase /\ c.target = a.target
          /\ c.finalized = a.finalized /\ c.best = a.best
          /\ c.blocks = a.blocks \cup FirstOf(w, i)
          /\ Range(c.pending) = Range(a.pending) \cup New(i)
      BY <2>2, <3>1 DEF c
    <3>3. (IF w[n] \notin c.blocks /\ Height[w[n]] > h THEN {w[n]} ELSE {}) = e
      BY <2>4, <3>2 DEF e
    <3>4. /\ x.emitted = a.emitted
          /\ x.phase = a.phase /\ x.target = a.target
          /\ x.finalized = a.finalized /\ x.best = a.best
          /\ x.blocks = a.blocks \cup FirstOf(w, n)
          /\ Range(x.pending) = Range(a.pending) \cup New(n)
      BY <2>5, <2>6, <2>7, <2>9, <3>2, <3>3
    <3>5. QED
      BY <3>4 DEF x
  <2>10. QED
    BY <2>8, <2>9
<1> HIDE DEF N
<1>6. Nat \subseteq N
  BY <1>4, <1>5, InductionOverNat
<1>7. Right(Len(w))
  <2> HIDE DEF Right
  <2>1. Len(w) \in N
    BY <1>2, <1>6
  <2>2. QED
    BY <1>2, <2>1 DEF N
<1>8. New(Len(w)) = {y \in Range(w) : y \notin a.blocks /\ Height[y] > h}
  <2>1. Range(w) = {w[j] : j \in 1 .. Len(w)}
    BY <1>0, LenProperties DEF Range
  <2>2. QED
    BY <2>1
<1> HIDE DEF New
<1>9. QED
  BY <1>1, <1>7, <1>8

\* Where an initialized event starts from: what was recovered, or nothing.
LEMMA BaseFacts ==
  ASSUME NEW a \in Accumulator, NEW w
  PROVE  LET s == Base(a, w)
         IN  \/ /\ s = a
                /\ a.phase = "RecoveringInit" => \E i \in 1 .. Len(w) : w[i] \in a.blocks
             \/ /\ a.phase = "RecoveringInit" /\ s \in Accumulator
                /\ s.blocks = {} /\ s.recovering = {} /\ s.pruned = {} /\ s.unpins = {}
                /\ s.emitted = {} /\ s.finalized = NoBlock
                /\ \A c \in Codes : s.usages[c] = {}
BY ResetFacts, ResetTells DEF Base

LEMMA InitializedTells ==
  ASSUME NEW a \in Accumulator, NEW b \in Block, NEW w, IsWindow(w, b),
         a.recovering = a.blocks, a.pruned \subseteq a.blocks
  PROVE  LET x == OnInitialized(a, w)
             s == Base(a, w)
             h == LatestHeight(a, w)
         IN  /\ x \in Accumulator
             /\ x.emitted \in {a.emitted, {}}
             /\ x.phase # "Failed" =>
                  /\ x.phase = IF h > Height[b] THEN "RecoveringFin" ELSE "Initializing"
                  /\ h > Height[b] => x.target = h
                  /\ x.finalized = IF h > Height[b] THEN s.finalized ELSE b
                  /\ x.best = s.best
                  /\ x.blocks = s.blocks \cup Range(w)
                  /\ x.recovering = s.blocks \ Range(w)
                  /\ x.pruned = s.pruned
                  /\ x.emitted = s.emitted
                  /\ Range(x.pending) = {y \in Range(w) : y \notin s.blocks /\ Height[y] > h}
<1>0. w \in Seq(Block) /\ Len(w) > 0 /\ w[Len(w)] = b
  BY WindowRange DEF IsWindow
<1> DEFINE x == OnInitialized(a, w)
           s == Base(a, w)
           h == LatestHeight(a, w)
<1>1. s.emitted \in {a.emitted, {}}
  BY BaseFacts
<1>2. CASE ~IsExpected(a, w)
  <2>1. x = Fail(a)
    BY <1>2, InitializedCases
  <2> HIDE DEF x
  <2>2. QED
    BY <2>1, FailFacts, FailTells DEF x
<1>3. CASE IsExpected(a, w)
  <2> DEFINE t == StartOf(a, w)
  <2>1. x = AddWindow(t, w, h)
    BY <1>3, InitializedCases
  <2>2. /\ s \in Accumulator /\ h \in Int
        /\ t \in Accumulator
        /\ t.phase = IF Lags(a, w) THEN "RecoveringFin" ELSE "Initializing"
        /\ t.target = IF Lags(a, w) THEN h ELSE -1
        /\ t.pending = <<>>
        /\ t.blocks = s.blocks /\ t.recovering = s.recovering /\ t.pruned = s.pruned
        /\ t.best = s.best /\ t.emitted = s.emitted
        /\ t.finalized = IF Lags(a, w) THEN s.finalized ELSE w[Len(w)]
    BY <1>0, StartFacts
  <2>3. Lags(a, w) <=> h > Height[b]
    BY <1>0 DEF Lags
  <2>4. s.recovering = s.blocks /\ s.pruned \subseteq s.blocks
    BY BaseFacts
  <2> HIDE DEF t, h, s
  <2>5. /\ x \in Accumulator
        /\ x.pruned = t.pruned
        /\ x.phase # "Failed" => /\ x.blocks = t.blocks \cup Range(w)
                                 /\ x.recovering = t.recovering \ Range(w)
    <3> HIDE DEF x
    <3>1. QED
      BY <1>0, <2>1, <2>2, <2>4, AddedBlocks
  <2>6. /\ x.emitted = t.emitted
        /\ x.phase # "Failed" =>
             /\ x.phase = t.phase /\ x.target = t.target
             /\ x.finalized = t.finalized /\ x.best = t.best
             /\ Range(x.pending) = Range(t.pending) \cup
                                     {y \in Range(w) : y \notin t.blocks /\ Height[y] > h}
    <3> HIDE DEF x
    <3>1. QED
      BY <2>1, <2>2, <2>4, WindowTells
  <2> HIDE DEF x
  <2>7. QED
    BY <1>0, <1>1, <2>2, <2>3, <2>4, <2>5, <2>6, EmptyRange DEF x, h, s
<1>4. QED
  BY <1>2, <1>3

LEMMA StopsStart == Init => StopsInv
<1> SUFFICES ASSUME Init PROVE StopsInv
  OBVIOUS
<1>1. PinsInv
  BY PinsStart
<1>2. /\ acc = Initial /\ session = "none" /\ seen = {} /\ mishaps = {}
      /\ sFinalized = NoBlock /\ top = NoBlock
  BY DEF Init
<1>3. /\ acc.phase = "Initializing" /\ acc.blocks = {} /\ acc.recovering = {}
      /\ acc.finalized = NoBlock /\ acc.emitted = {} /\ acc.pending = <<>>
  BY <1>2 DEF Initial
<1>4. Told = {}
  BY <1>3, EmptyRange DEF Told
<1>5. Served /\ Idle
  BY <1>2, <1>3 DEF Served, Idle
<1>6. Phased
  BY <1>2, <1>3 DEF Phased, Live, Idle
<1>7. Based /\ Kept
  BY <1>3, <1>5 DEF Based, Kept
<1>8. Timely
  BY <1>2, <1>3 DEF Timely, Live
<1>9. Whole /\ OneRoot(acc.emitted)
  BY <1>3, <1>4 DEF Whole, OneRoot
<1>10. QED
  BY <1>1, <1>5, <1>6, <1>7, <1>8, <1>9 DEF StopsInv

LEMMA StopsFacts ==
  ASSUME StopsInv, Observed
  PROVE  /\ PinsInv /\ Sound(acc) /\ acc.unpins = {} /\ acc \in Accumulator
         /\ Served /\ Phased /\ Based /\ Kept /\ Timely /\ Whole
         /\ mishaps = {} => OneRoot(acc.emitted)
         /\ acc.recovering \subseteq acc.blocks /\ acc.pruned \subseteq acc.blocks
         /\ acc.blocks \subseteq Block /\ acc.emitted \subseteq Block
         /\ acc.pending \in Seq(Block) /\ Range(acc.pending) \subseteq Block
         /\ seen \subseteq Block
         /\ {sFinalized, sBest, top} \subseteq Block \cup {NoBlock}
         /\ session \in {"none", "initialized"} \cup Live
         /\ session # "none" =>
              /\ acc.phase \in {"Initializing", "Ready", "RecoveringFin"}
              /\ ~Idle
         /\ acc.phase = "Ready" => acc.blocks \subseteq seen
<1>1. /\ PinsInv /\ Served /\ Phased /\ Based /\ Kept /\ Timely /\ Whole
      /\ mishaps = {} => OneRoot(acc.emitted)
  BY DEF StopsInv
<1>2. TypeOK /\ HasRuntimes(acc)
  BY <1>1 DEF PinsInv
<1>3. Sound(acc) /\ acc.unpins = {} /\ acc \in Accumulator
  BY <1>2 DEF TypeOK, Sound
<1>4. /\ acc.recovering \subseteq acc.blocks /\ acc.pruned \subseteq acc.blocks
      /\ acc.blocks \subseteq Block /\ acc.emitted \subseteq Block
      /\ acc.pending \in Seq(Block)
      /\ seen \subseteq Block /\ pinned \subseteq seen
      /\ {sFinalized, sBest, top} \subseteq Block \cup {NoBlock}
      /\ session \in {"none", "initialized"} \cup Live
  BY <1>2 DEF TypeOK, Accumulator
<1>5. Range(acc.pending) \subseteq Block
  <2>1. Range(acc.pending) = {acc.pending[i] : i \in 1 .. Len(acc.pending)}
    BY <1>4, LenProperties DEF Range
  <2>2. QED
    BY <1>4, <2>1, ElementOfSeq
<1>6. session # "none" => acc.phase \in {"Initializing", "Ready", "RecoveringFin"} /\ ~Idle
  BY <1>1, <1>4 DEF Phased, Idle
<1>7. acc.phase = "Ready" => acc.blocks \subseteq seen
  <2> SUFFICES ASSUME acc.phase = "Ready" PROVE acc.blocks \subseteq seen
    OBVIOUS
  <2>1. session # "none" /\ acc.recovering = {}
    BY <1>1 DEF Phased
  <2>2. pinned = acc.blocks \ acc.recovering
    BY <1>1, <2>1 DEF PinsInv
  <2>3. QED
    BY <1>4, <2>1, <2>2
<1>8. QED
  BY <1>1, <1>3, <1>4, <1>5, <1>6, <1>7

\* The clean-up and the users: nothing at or above the finalized block is unpinned.
LEMMA StopsUnpin ==
  ASSUME StopsInv, Observed, PinsInv',
         NEW gone \in SUBSET acc.blocks,
         \A y \in gone : y \in acc.pruned \/ Height[y] < NumberOf(acc, acc.finalized),
         acc'.phase = acc.phase, acc'.target = acc.target, acc'.pending = acc.pending,
         acc'.blocks = acc.blocks \ gone, acc'.recovering = acc.recovering \ gone,
         acc'.pruned = acc.pruned \ gone,
         acc'.best = acc.best, acc'.finalized = acc.finalized, acc'.emitted = acc.emitted,
         UNCHANGED <<session, seen, sFinalized, sBest, top, mishaps>>
  PROVE  StopsInv'
<1>1. /\ Served /\ Phased /\ Based /\ Kept /\ Timely /\ Whole
      /\ mishaps = {} => OneRoot(acc.emitted)
      /\ acc.blocks \subseteq Block
  BY StopsFacts
<1>2. Told' = Told /\ Idle' = Idle /\ Served' /\ Observed'
  BY <1>1 DEF Told, Idle, Served, Observed
<1>3. ~Idle => \A y \in acc.blocks : acc.finalized \in Line[y] => y \notin gone
  <2> SUFFICES ASSUME ~Idle, NEW y \in acc.blocks, acc.finalized \in Line[y] PROVE y \notin gone
    OBVIOUS
  <2>1. acc.finalized \in acc.blocks /\ acc.finalized \in Block
    BY <1>1 DEF Based
  <2>2. y \notin acc.pruned
    BY <1>1 DEF Based, Aligned
  <2>3. Height[acc.finalized] <= Height[y] /\ NumberOf(acc, acc.finalized) = Height[acc.finalized]
    BY <1>1, <2>1, LinesFollow DEF NumberOf
  <2>4. Height[acc.finalized] \in Nat /\ Height[y] \in Nat
    BY <1>1, <2>1, ChainAssumption
  <2>5. QED
    BY <2>2, <2>3, <2>4
<1>4. Phased'
  BY <1>1, <1>2 DEF Phased
<1>5. Based'
  <2> SUFFICES ASSUME ~Idle PROVE Based'
    BY <1>2 DEF Based
  <2>1. acc.finalized \in acc.blocks /\ acc.finalized \in Line[acc.finalized]
    BY <1>1, LinesFollow DEF Based
  <2>2. acc'.finalized \in acc'.blocks
    BY <1>3, <2>1
  <2>3. \A b \in seen : acc.finalized \in Line[b] => b \in acc'.blocks
    BY <1>1, <1>3 DEF Based
  <2>4. QED
    BY <1>1, <2>2, <2>3 DEF Based
<1>6. Kept'
  BY <1>1, <1>2 DEF Kept
<1>7. Timely'
  BY <1>1 DEF Timely, InTime
<1>8. Whole'
  <2> SUFFICES ASSUME mishaps = {} PROVE Whole'
    BY DEF Whole
  <2>1. acc.phase = "RecoveringInit" => ~Idle
    BY DEF Idle
  <2>2. QED
    BY <1>1, <1>2, <1>3, <2>1 DEF Whole
<1>9. QED
  BY <1>1, <1>2, <1>4, <1>5, <1>6, <1>7, <1>8 DEF StopsInv

LEMMA StopsCleanUp ==
  ASSUME StopsInv, CleanUp
  PROVE  StopsInv'
<1> DEFINE gone == {b \in acc.blocks : Unpinnable(acc, b)}
           x == TryToUnpin(acc, acc.blocks)
<1>1. Observed /\ Reduce(x, pinned) /\ UNCHANGED <<session, seen, sFinalized, sBest, top, mishaps>>
  BY DEF CleanUp, serverVars
<1>2. PinsInv' /\ acc \in Accumulator /\ acc.blocks \subseteq Block
  BY <1>1, StopsFacts, PinsCleanUp
<1>3. /\ x \in Accumulator /\ x.phase = acc.phase /\ x.target = acc.target
      /\ x.pending = acc.pending /\ x.blocks = acc.blocks \ gone
      /\ x.recovering = acc.recovering \ gone /\ x.pruned = acc.pruned \ gone
      /\ x.best = acc.best /\ x.finalized = acc.finalized /\ x.emitted = acc.emitted
  BY <1>2, UnpinFacts
<1>4. \A y \in gone : y \in acc.pruned \/ Height[y] < NumberOf(acc, acc.finalized)
  BY DEF Unpinnable
<1>5. gone \in SUBSET acc.blocks
  OBVIOUS
<1> HIDE DEF x, gone
<1>6. /\ acc'.phase = acc.phase /\ acc'.target = acc.target
      /\ acc'.pending = acc.pending /\ acc'.blocks = acc.blocks \ gone
      /\ acc'.recovering = acc.recovering \ gone /\ acc'.pruned = acc.pruned \ gone
      /\ acc'.best = acc.best /\ acc'.finalized = acc.finalized /\ acc'.emitted = acc.emitted
  BY <1>1, <1>3, Reduced
<1>7. QED
  BY <1>1, <1>2, <1>4, <1>5, <1>6, StopsUnpin

LEMMA StopsUsed ==
  ASSUME StopsInv, Observed, PinsInv', NEW b \in Block, NEW delta \in Int,
         Reduce(OnBlockUsage(acc, b, delta), pinned),
         UNCHANGED <<session, seen, sFinalized, sBest, top, mishaps>>
  PROVE  StopsInv'
<1> DEFINE c == UsedBy(acc, b, delta)
<1>1. acc \in Accumulator /\ acc.blocks \subseteq Block
  BY StopsFacts
<1>2. CASE b \notin acc.blocks
  <2>1. Reduce(acc, pinned)
    BY <1>2 DEF OnBlockUsage
  <2>2. /\ acc'.phase = acc.phase /\ acc'.target = acc.target
        /\ acc'.pending = acc.pending /\ acc'.blocks = acc.blocks
        /\ acc'.recovering = acc.recovering /\ acc'.pruned = acc.pruned
        /\ acc'.best = acc.best /\ acc'.finalized = acc.finalized /\ acc'.emitted = acc.emitted
    BY <1>1, <2>1, Reduced
  <2> DEFINE gone == {}
  <2>3. /\ gone \in SUBSET acc.blocks /\ \A y \in gone : FALSE
        /\ acc'.blocks = acc.blocks \ gone /\ acc'.recovering = acc.recovering \ gone
        /\ acc'.pruned = acc.pruned \ gone
    BY <2>2
  <2> HIDE DEF gone
  <2>4. QED
    BY <2>2, <2>3, StopsUnpin
<1>3. CASE b \in acc.blocks
  <2> DEFINE gone == {y \in {b} : Unpinnable(c, y)}
             x == TryToUnpin(c, {b})
  <2>1. /\ c \in Accumulator /\ c.phase = acc.phase /\ c.target = acc.target
        /\ c.pending = acc.pending /\ c.blocks = acc.blocks /\ c.recovering = acc.recovering
        /\ c.pruned = acc.pruned /\ c.best = acc.best /\ c.finalized = acc.finalized
        /\ c.emitted = acc.emitted
        /\ OnBlockUsage(acc, b, delta) = IF b \notin acc.blocks THEN acc ELSE x
    BY <1>1, UsageFacts
  <2>2. Reduce(x, pinned)
    <3> HIDE DEF x
    <3>1. QED
      BY <1>3, <2>1
  <2> HIDE DEF c
  <2>3. {b} \in SUBSET Block
    OBVIOUS
  <2>4. /\ x \in Accumulator /\ x.phase = c.phase /\ x.target = c.target
        /\ x.pending = c.pending /\ x.blocks = c.blocks \ gone
        /\ x.recovering = c.recovering \ gone /\ x.pruned = c.pruned \ gone
        /\ x.best = c.best /\ x.finalized = c.finalized /\ x.emitted = c.emitted
    BY <2>1, <2>3, UnpinFacts
  <2>5. NumberOf(c, c.finalized) = NumberOf(acc, acc.finalized)
    BY <2>1 DEF NumberOf
  <2>6. \A y \in gone : y \in acc.pruned \/ Height[y] < NumberOf(acc, acc.finalized)
    BY <2>1, <2>5 DEF Unpinnable
  <2>7. gone \in SUBSET acc.blocks
    BY <1>3
  <2> HIDE DEF x, gone
  <2>8. /\ acc'.phase = x.phase /\ acc'.target = x.target
        /\ acc'.pending = x.pending /\ acc'.blocks = x.blocks
        /\ acc'.recovering = x.recovering /\ acc'.pruned = x.pruned
        /\ acc'.best = x.best /\ acc'.finalized = x.finalized /\ acc'.emitted = x.emitted
    BY <2>2, <2>4, Reduced
  <2>9. /\ acc'.phase = acc.phase /\ acc'.target = acc.target
        /\ acc'.pending = acc.pending /\ acc'.blocks = acc.blocks \ gone
        /\ acc'.recovering = acc.recovering \ gone /\ acc'.pruned = acc.pruned \ gone
        /\ acc'.best = acc.best /\ acc'.finalized = acc.finalized /\ acc'.emitted = acc.emitted
    BY <2>1, <2>4, <2>8
  <2>10. QED
    BY <2>6, <2>7, <2>9, StopsUnpin
<1>4. QED
  BY <1>2, <1>3

\* What the accumulator and the server do not notice.
LEMMA StopsQuiet ==
  ASSUME StopsInv, PinsInv', UNCHANGED <<acc, session, seen, sFinalized, sBest, top, mishaps>>
  PROVE  StopsInv'
<1>1. Told' = Told /\ Idle' = Idle /\ (Observed' <=> Observed)
  BY DEF Told, Idle, Observed
<1>2. Served => Served'
  BY DEF Served
<1>3. (Phased => Phased') /\ (Based => Based') /\ (Kept => Kept') /\ (Timely => Timely')
  BY <1>1 DEF Phased, Based, Kept, Timely, InTime
<1>4. Whole => Whole'
  BY <1>1 DEF Whole
<1>5. QED
  BY <1>1, <1>2, <1>3, <1>4 DEF StopsInv

LEMMA StopsUser ==
  ASSUME StopsInv, NEW b \in Block, Hold(b) \/ Release(b) \/ ReleaseFires(b)
  PROVE  StopsInv'
<1>1. Observed /\ UNCHANGED <<session, seen, sFinalized, sBest, top, mishaps>>
  BY DEF Hold, Release, ReleaseFires, serverVars
<1>2. PinsInv'
  BY PinsUser DEF StopsInv
<1>3. CASE Hold(b)
  <2>1. Reduce(OnBlockUsage(acc, b, 1), pinned) /\ 1 \in Int
    BY <1>3 DEF Hold
  <2>2. QED
    BY <1>1, <1>2, <2>1, StopsUsed
<1>4. CASE ReleaseFires(b)
  <2>1. Reduce(OnBlockUsage(acc, b, -1), pinned) /\ -1 \in Int
    BY <1>4 DEF ReleaseFires
  <2>2. QED
    BY <1>1, <1>2, <2>1, StopsUsed
<1>5. CASE Release(b)
  <2>1. UNCHANGED acc
    BY <1>5 DEF Release
  <2>2. QED
    BY <1>1, <1>2, <2>1, StopsQuiet
<1>6. QED
  BY <1>3, <1>4, <1>5

LEMMA StopTells ==
  ASSUME NEW a \in Accumulator
  PROVE  LET x == OnStop(a)
         IN  /\ x \in Accumulator
             /\ x.emitted = a.emitted
             /\ x.pending = <<>>
             /\ a.phase = "Initializing" =>
                  x.phase = "Initializing" /\ x.blocks = {} /\ x.finalized = NoBlock
             /\ a.phase # "Initializing" =>
                  /\ x.phase = "RecoveringInit"
                  /\ x.blocks = a.blocks /\ x.recovering = a.blocks /\ x.pruned = a.pruned
                  /\ x.finalized = a.finalized /\ x.best = a.best
<1>1. CASE a.phase = "Initializing"
  <2>1. OnStop(a) = ResetState(a)
    BY <1>1 DEF OnStop
  <2>2. QED
    BY <1>1, <2>1, ResetFacts, ResetTells
<1>2. CASE a.phase # "Initializing"
  <2> DEFINE x == OnStop(a)
  <2>1. x = [a EXCEPT !.phase = "RecoveringInit", !.pending = <<>>,
                      !.target = -1, !.recovering = a.blocks]
    BY <1>2 DEF OnStop
  <2>2. x \in Accumulator
    BY StopFacts
  <2> HIDE DEF x
  <2>3. /\ x.phase = "RecoveringInit" /\ x.pending = <<>> /\ x.recovering = a.blocks
        /\ x.emitted = a.emitted /\ x.blocks = a.blocks /\ x.pruned = a.pruned
        /\ x.finalized = a.finalized /\ x.best = a.best
    BY <2>1 DEF Accumulator
  <2>4. QED
    BY <1>2, <2>2, <2>3 DEF x
<1>3. QED
  BY <1>1, <1>2

LEMMA StopsStop ==
  ASSUME StopsInv, Stop
  PROVE  StopsInv'
<1> DEFINE x == OnStop(acc)
<1>1. /\ Observed /\ session # "none" /\ Reduce(x, {})
      /\ session' = "none" /\ seen' = {}
      /\ mishaps' = IF acc.phase # "Ready" THEN mishaps \cup {"cut"} ELSE mishaps
      /\ UNCHANGED <<sFinalized, sBest, top>>
  BY DEF Stop
<1>2. /\ acc \in Accumulator
      /\ Served /\ Phased /\ Based /\ Kept /\ Timely /\ Whole
      /\ mishaps = {} => OneRoot(acc.emitted)
      /\ acc.phase \in {"Initializing", "Ready", "RecoveringFin"} /\ ~Idle
      /\ acc.phase = "Ready" => acc.blocks \subseteq seen
      /\ acc.blocks \subseteq Block
  BY <1>1, StopsFacts
<1>3. PinsInv'
  BY PinsStop DEF StopsInv
<1>4. /\ x \in Accumulator /\ x.emitted = acc.emitted /\ x.pending = <<>>
      /\ acc.phase = "Initializing" =>
           x.phase = "Initializing" /\ x.blocks = {} /\ x.finalized = NoBlock
      /\ acc.phase # "Initializing" =>
           /\ x.phase = "RecoveringInit"
           /\ x.blocks = acc.blocks /\ x.recovering = acc.blocks /\ x.pruned = acc.pruned
           /\ x.finalized = acc.finalized /\ x.best = acc.best
  BY <1>2, StopTells
<1> HIDE DEF x
<1>5. /\ acc'.phase = x.phase /\ acc'.blocks = x.blocks /\ acc'.recovering = x.recovering
      /\ acc'.pruned = x.pruned /\ acc'.finalized = x.finalized /\ acc'.best = x.best
      /\ acc'.emitted = x.emitted /\ acc'.pending = x.pending
  BY <1>1, <1>4, Reduced
<1>6. /\ acc'.emitted = acc.emitted /\ acc'.pending = <<>>
      /\ acc.phase = "Initializing" =>
           acc'.phase = "Initializing" /\ acc'.blocks = {} /\ acc'.finalized = NoBlock
      /\ acc.phase # "Initializing" =>
           /\ acc'.phase = "RecoveringInit"
           /\ acc'.blocks = acc.blocks /\ acc'.recovering = acc.blocks
           /\ acc'.pruned = acc.pruned
           /\ acc'.finalized = acc.finalized /\ acc'.best = acc.best
  BY <1>4, <1>5
<1>7. /\ Told' = acc.emitted
      /\ acc.phase = "Ready" => Told = acc.emitted
  BY <1>2, <1>6, EmptyRange DEF Told, Phased
<1>8. Idle' <=> acc.phase = "Initializing"
  BY <1>1, <1>2, <1>6 DEF Idle
<1>9. Served'
  BY <1>1, <1>2 DEF Served
<1>10. Phased'
  BY <1>1, <1>2, <1>6, <1>8 DEF Phased, Live
<1>11. Based'
  <2> SUFFICES ASSUME acc.phase # "Initializing" PROVE Based'
    BY <1>8 DEF Based
  <2>1. acc'.finalized \in acc'.blocks /\ acc.finalized \in Line[top] /\ top \in Block
    BY <1>2, <1>6 DEF Based
  <2>2. \A b \in acc'.pruned : ~Aligned(b, acc'.finalized)
    BY <1>2, <1>6 DEF Based
  <2>3. QED
    BY <1>1, <1>6, <2>1, <2>2 DEF Based
<1>12. Kept'
  <2> SUFFICES ASSUME "cut" \notin mishaps' PROVE Kept'
    BY DEF Kept
  <2>1. acc.phase = "Ready" /\ "cut" \notin mishaps
    BY <1>1
  <2>2. QED
    BY <1>2, <1>6, <1>7, <2>1 DEF Kept
<1>13. Timely'
  <2> SUFFICES ASSUME InTime' PROVE Timely'
    BY DEF Timely
  <2>1. InTime
    BY <1>1 DEF InTime
  <2>2. acc.phase \in {"Initializing", "Ready"} /\ acc.finalized = sFinalized /\ top \in Block
    BY <1>2, <2>1 DEF Timely, Based
  <2>3. sFinalized = top
    BY <1>2, <2>1, <2>2, ChainAssumption DEF Timely
  <2>4. QED
    BY <1>1, <1>6, <2>2, <2>3 DEF Timely, Live
<1>14. Whole' /\ (mishaps' = {} => OneRoot(acc'.emitted))
  <2> SUFFICES ASSUME mishaps' = {} PROVE Whole' /\ OneRoot(acc'.emitted)
    BY DEF Whole
  <2>1. acc.phase = "Ready" /\ mishaps = {} /\ ~Idle'
    BY <1>1, <1>8
  <2>2. OneRoot(acc.emitted) /\ \A b \in acc.blocks : acc.finalized \in Line[b] => b \in Told
    BY <1>2, <2>1 DEF Whole
  <2>3. acc.finalized = sFinalized /\ session # "none"
    BY <1>1, <1>2, <2>1 DEF Based
  <2>4. ASSUME NEW b \in acc.blocks, acc.finalized \in Line[b],
               NEW y \in Line[b], acc.finalized \in Line[y]
        PROVE  y \in acc.blocks
    <3>1. b \in seen
      BY <1>2, <2>1
    <3>2. y \in seen
      BY <1>2, <2>3, <2>4, <3>1 DEF Served
    <3>3. QED
      BY <1>2, <2>4, <3>2 DEF Based
  <2>5. QED
    BY <1>6, <1>7, <2>1, <2>2, <2>4 DEF Whole
<1>15. QED
  BY <1>3, <1>9, <1>10, <1>11, <1>12, <1>13, <1>14 DEF StopsInv

\* A new block: it is there, and its subscribers are told or will be.
LEMMA NewBlockTells ==
  ASSUME NEW a \in Accumulator, NEW b \in Block, NEW isNew \in BOOLEAN,
         HasRuntimes(a), a.recovering \subseteq a.blocks
  PROVE  LET x == OnNewBlock(a, b, isNew)
         IN  /\ x \in Accumulator
             /\ x.phase = "Failed" => x.emitted = a.emitted
             /\ x.phase # "Failed" =>
                  /\ x.phase = a.phase /\ x.target = a.target
                  /\ x.blocks = a.blocks \cup {b} /\ x.recovering = a.recovering \ {b}
                  /\ x.pruned = a.pruned /\ x.best = a.best /\ x.finalized = a.finalized
                  /\ a.phase = "Ready" => x.pending = a.pending
                  /\ a.phase # "Ready" => x.emitted = a.emitted
                  /\ x.emitted \cup Range(x.pending) =
                       a.emitted \cup Range(a.pending) \cup (IF b \in a.blocks THEN {} ELSE {b})
<1> DEFINE x == OnNewBlock(a, b, isNew)
           r == RuntimeFor(a, b, isNew)
<1>1. CASE b \in a.blocks
  <2>1. /\ x \in Accumulator /\ x.recovering = a.recovering \ {b}
        /\ x.phase = a.phase /\ x.target = a.target /\ x.pending = a.pending
        /\ x.blocks = a.blocks /\ x.pruned = a.pruned /\ x.best = a.best
        /\ x.finalized = a.finalized /\ x.emitted = a.emitted
    BY <1>1, NewBlockKnown
  <2> HIDE DEF x
  <2>2. QED
    BY <1>1, <2>1 DEF x
<1>2. CASE b \notin a.blocks
           /\ (Parent[b] \notin a.blocks \/ RuntimesWith(a, b, isNew)[r] = {})
  <2>1. x = Fail(a)
    BY <1>2, NewBlockFails
  <2>2. x \in Accumulator /\ x.phase = "Failed" /\ x.emitted = a.emitted
    BY <2>1, FailFacts, FailTells
  <2> HIDE DEF x
  <2>3. QED
    BY <2>2 DEF x
<1>3. CASE b \notin a.blocks /\ Parent[b] \in a.blocks /\ RuntimesWith(a, b, isNew)[r] # {}
  <2>1. r \in Codes
    <3>1. Code[b] \in Codes
      BY DEF Codes
    <3>2. a.runtime[Parent[b]] \in Codes
      BY <1>3 DEF HasRuntimes
    <3>3. QED
      BY <3>1, <3>2 DEF RuntimeFor
  <2>2. CanStand(a, b, isNew)
    BY <1>3, <2>1 DEF CanStand
  <2>3. /\ x \in Accumulator /\ x.phase = a.phase /\ x.target = a.target
        /\ x.pending = IF a.phase = "Ready" THEN a.pending ELSE Append(a.pending, b)
        /\ x.blocks = a.blocks \cup {b} /\ x.recovering = a.recovering
        /\ x.pruned = a.pruned /\ x.best = a.best /\ x.finalized = a.finalized
        /\ x.emitted = IF a.phase = "Ready" THEN a.emitted \cup {b} ELSE a.emitted
    BY <2>2, NewBlockNew
  <2> HIDE DEF x, r
  <2>4. a.recovering \ {b} = a.recovering
    BY <1>3
  <2>5. Range(Append(a.pending, b)) = Range(a.pending) \cup {b}
    <3>1. a.pending \in Seq(Block)
      BY DEF Accumulator
    <3>2. QED
      BY <3>1, AppendElements
  <2>6. x.emitted \cup Range(x.pending) = a.emitted \cup Range(a.pending) \cup {b}
    <3>1. CASE a.phase = "Ready"
      BY <2>3, <3>1
    <3>2. CASE a.phase # "Ready"
      BY <2>3, <2>5, <3>2
    <3>3. QED
      BY <3>1, <3>2
  <2>7. QED
    BY <1>3, <2>3, <2>4, <2>6 DEF x
<1>4. QED
  BY <1>1, <1>2, <1>3

LEMMA StopsNewBlock ==
  ASSUME StopsInv, NEW b \in Block, NewBlock(b)
  PROVE  StopsInv'
<1> DEFINE isNew == Code[b] # Code[Parent[b]]
           x == OnNewBlock(acc, b, isNew)
<1>1. /\ Observed /\ session # "none"
      /\ b \notin seen /\ Parent[b] \in seen /\ Below(sFinalized, b)
      /\ Reduce(x, pinned \cup {b}) /\ seen' = seen \cup {b}
      /\ UNCHANGED <<session, sFinalized, sBest, top, mishaps>>
  BY DEF NewBlock, Known
<1>2. /\ Sound(acc) /\ acc \in Accumulator
      /\ Served /\ Phased /\ Based /\ Kept /\ Timely /\ Whole
      /\ mishaps = {} => OneRoot(acc.emitted)
      /\ acc.recovering \subseteq acc.blocks /\ acc.blocks \subseteq Block
      /\ acc.phase \in {"Initializing", "Ready", "RecoveringFin"} /\ ~Idle
      /\ seen \subseteq Block
  BY <1>1, StopsFacts
<1>3. PinsInv'
  BY PinsNewBlock DEF StopsInv
<1>4. /\ x \in Accumulator
      /\ x.phase = "Failed" => x.emitted = acc.emitted
      /\ x.phase # "Failed" =>
           /\ x.phase = acc.phase /\ x.target = acc.target
           /\ x.blocks = acc.blocks \cup {b} /\ x.recovering = acc.recovering \ {b}
           /\ x.pruned = acc.pruned /\ x.best = acc.best /\ x.finalized = acc.finalized
           /\ acc.phase = "Ready" => x.pending = acc.pending
           /\ acc.phase # "Ready" => x.emitted = acc.emitted
           /\ x.emitted \cup Range(x.pending) =
                acc.emitted \cup Range(acc.pending) \cup (IF b \in acc.blocks THEN {} ELSE {b})
  <2>1. isNew \in BOOLEAN /\ HasRuntimes(acc)
    BY <1>2 DEF Sound
  <2> HIDE DEF isNew
  <2>2. QED
    BY <1>2, <2>1, NewBlockTells
<1> HIDE DEF x
<1>5. /\ acc'.phase = x.phase /\ acc'.target = x.target
      /\ acc'.blocks = x.blocks /\ acc'.recovering = x.recovering
      /\ acc'.pruned = x.pruned /\ acc'.finalized = x.finalized /\ acc'.best = x.best
      /\ acc'.emitted = x.emitted /\ acc'.pending = x.pending
  BY <1>1, <1>4, Reduced
<1>6. b # Genesis /\ sFinalized \in Block /\ sFinalized \in Line[Parent[b]]
      /\ Parent[b] \in Block /\ Line[b] = {b} \cup Line[Parent[b]]
  <2>1. sFinalized \in Block
    BY <1>1, <1>2 DEF Served
  <2>2. QED
    BY <1>1, <1>2, <2>1, LinesFollow, LineFacts
<1>7. Served'
  <2>1. \A y \in seen' : \A z \in Line[y] : sFinalized \in Line[z] => z \in seen'
    <3> SUFFICES ASSUME NEW y \in seen', NEW z \in Line[y], sFinalized \in Line[z]
                 PROVE  z \in seen'
      OBVIOUS
    <3>1. CASE y \in seen
      BY <1>1, <1>2, <3>1 DEF Served
    <3>2. CASE y = b
      BY <1>1, <1>2, <1>6, <3>2 DEF Served
    <3>3. QED
      BY <1>1, <3>1, <3>2
  <2>2. QED
    BY <1>1, <1>2, <2>1 DEF Served
<1>8. CASE x.phase = "Failed"
  BY <1>1, <1>2, <1>3, <1>4, <1>5, <1>7, <1>8 DEF StopsInv, Observed
<1>9. CASE x.phase # "Failed"
  <2>1. /\ acc'.phase = acc.phase /\ acc'.target = acc.target
        /\ acc'.blocks = acc.blocks \cup {b} /\ acc'.recovering = acc.recovering \ {b}
        /\ acc'.pruned = acc.pruned /\ acc'.best = acc.best /\ acc'.finalized = acc.finalized
        /\ acc.phase = "Ready" => acc'.pending = acc.pending
        /\ acc.phase # "Ready" => acc'.emitted = acc.emitted
        /\ Told' = Told \cup (IF b \in acc.blocks THEN {} ELSE {b})
    BY <1>4, <1>5, <1>9 DEF Told
  <2>2. ~Idle'
    BY <1>1 DEF Idle
  <2>3. Phased'
    BY <1>1, <1>2, <2>1, <2>2 DEF Phased
  <2>4. Based'
    <3>1. \A y \in seen' : acc.finalized \in Line[y] => y \in acc'.blocks
      BY <1>1, <1>2, <2>1 DEF Based
    <3>2. QED
      BY <1>1, <1>2, <2>1, <3>1 DEF Based
  <2>5. Kept'
    <3> SUFFICES ASSUME "cut" \notin mishaps, NEW y \in acc'.blocks, Below(acc.finalized, y)
                 PROVE  y \in Told'
      BY <1>1, <2>1 DEF Kept
    <3>1. CASE y \in acc.blocks
      BY <1>2, <2>1, <3>1 DEF Kept
    <3>2. CASE y = b /\ b \notin acc.blocks
      BY <2>1, <3>2
    <3>3. QED
      BY <2>1, <3>1, <3>2
  <2>6. Timely'
    BY <1>1, <1>2, <2>1 DEF Timely, InTime
  <2>7. ASSUME mishaps = {} PROVE OneRoot(Told') /\ b \in acc.blocks \cup Told'
                                  /\ OneRoot(acc'.emitted)
    <3>1. CASE b \in acc.blocks
      <4>1. Told' = Told /\ OneRoot(Told) /\ OneRoot(acc.emitted)
        BY <1>2, <2>1, <2>7, <3>1 DEF Whole
      <4>2. acc.phase = "Ready" => acc'.emitted = Told'
        BY <1>2, <2>1, EmptyRange DEF Told, Phased
      <4>3. QED
        BY <2>1, <3>1, <4>1, <4>2
    <3>2. CASE b \notin acc.blocks
      <4>1. Told' = Told \cup {b}
        BY <2>1, <3>2
      <4>2. acc.finalized = sFinalized
        BY <1>2, <2>7 DEF Timely, InTime, Based
      <4>3. Parent[b] \in Told
        BY <1>1, <1>2, <1>6, <2>7, <4>2 DEF Based, Whole
      <4>4. OneRoot(Told) /\ OneRoot(acc.emitted)
        BY <1>2, <2>7 DEF Whole
      <4>5. OneRoot(Told')
        BY <1>6, <4>1, <4>3, <4>4 DEF OneRoot, IsRoot
      <4>6. acc.phase = "Ready" => acc'.emitted = Told'
        BY <1>2, <2>1, EmptyRange DEF Told, Phased
      <4>7. QED
        BY <2>1, <4>1, <4>4, <4>5, <4>6
    <3>3. QED
      BY <3>1, <3>2
  <2>8. Whole'
    <3> SUFFICES ASSUME mishaps = {} PROVE Whole'
      BY <1>1 DEF Whole
    <3>1. \A y \in acc'.blocks : acc.finalized \in Line[y] => y \in Told'
      BY <1>2, <2>1, <2>7 DEF Whole
    <3>2. acc'.phase # "RecoveringInit"
      BY <1>2, <2>1
    <3>3. QED
      BY <2>1, <2>2, <2>7, <3>1, <3>2 DEF Whole
  <2>9. QED
    BY <1>1, <1>3, <1>7, <2>3, <2>4, <2>5, <2>6, <2>7, <2>8 DEF StopsInv
<1>10. QED
  BY <1>8, <1>9

\* The client is ready with what a has: what recovers goes, what waits is told.
Settled(x, a) ==
  /\ x \in Accumulator
  /\ x.phase = "Ready" /\ x.pending = <<>>
  /\ x.blocks = a.blocks \ a.recovering /\ x.recovering = {}
  /\ x.pruned \subseteq a.pruned
  /\ x.best = a.best /\ x.finalized = a.finalized
  /\ x.emitted = a.emitted \cup Range(a.pending)

LEMMA Settles ==
  ASSUME NEW a \in Accumulator,
         a.phase = "Ready" => a.recovering = {} /\ a.pending = <<>>
  PROVE  /\ Settled(SetToReady(a), a)
         /\ a.phase = "Ready" => Settled(a, a)
<1>1. Settled(SetToReady(a), a)
  <2> DEFINE r == SetToReady(a)
  <2>1. /\ r \in Accumulator /\ r.phase = "Ready" /\ r.pending = <<>>
        /\ r.blocks = a.blocks \ a.recovering /\ r.recovering = {}
        /\ r.pruned = a.pruned \ a.recovering
        /\ r.best = a.best /\ r.finalized = a.finalized
        /\ r.emitted = a.emitted \cup Range(a.pending)
    BY SetToReadyFacts
  <2> HIDE DEF r
  <2>2. Settled(r, a)
    BY <2>1 DEF Settled
  <2>3. QED
    BY <2>2 DEF r
<1>2. ASSUME a.phase = "Ready" PROVE Settled(a, a)
  BY <1>2, EmptyRange DEF Settled
<1>3. QED
  BY <1>1, <1>2

\* A step that leaves the client ready, with the best and the finalized block of
\* the server: the one it had, or a higher one on its line.
LEMMA StopsSettled ==
  ASSUME StopsInv, Observed, session # "none", PinsInv',
         NEW b \in Block, acc.finalized \in Line[b], b \in seen, b \in acc.blocks,
         NEW c \in Accumulator,
         c.blocks = acc.blocks, c.recovering = acc.recovering,
         c.finalized = b,
         \A y \in c.pruned : ~Aligned(y, b),
         c.emitted = acc.emitted, c.pending = acc.pending,
         NEW x, Settled(x, c), NEW pins, Reduce(x, pins),
         Served', session' \in Live, seen' = seen, sFinalized' = b, mishaps' = mishaps,
         top' \in Block, b \in Line[top'],
         InTime => top' = b /\ c.best = sBest'
  PROVE  StopsInv'
<1>1. /\ acc \in Accumulator
      /\ Phased /\ Based /\ Kept /\ Timely /\ Whole
      /\ mishaps = {} => OneRoot(acc.emitted)
      /\ acc.blocks \subseteq Block /\ ~Idle
      /\ acc.phase \in {"Initializing", "Ready", "RecoveringFin"}
  BY StopsFacts
<1>2. /\ acc'.phase = "Ready" /\ acc'.pending = <<>>
      /\ acc'.blocks = acc.blocks \ acc.recovering /\ acc'.recovering = {}
      /\ acc'.pruned \subseteq c.pruned
      /\ acc'.best = c.best /\ acc'.finalized = b
      /\ acc'.emitted = acc.emitted \cup Range(acc.pending)
  <2>1. /\ x \in Accumulator /\ x.phase = "Ready" /\ x.pending = <<>>
        /\ x.blocks = acc.blocks \ acc.recovering /\ x.recovering = {}
        /\ x.pruned \subseteq c.pruned
        /\ x.best = c.best /\ x.finalized = b
        /\ x.emitted = acc.emitted \cup Range(acc.pending)
    BY DEF Settled
  <2>2. QED
    BY <2>1, Reduced
<1>3. Told' = Told /\ acc'.emitted = Told /\ ~Idle' /\ session' # "none"
  BY <1>2, EmptyRange DEF Told, Idle, Live
<1>4. \A y \in acc'.blocks : b \in Line[y] => acc.finalized \in Line[y]
  <2>1. acc.finalized \in Block
    BY <1>1 DEF Based
  <2>2. QED
    BY <1>1, <1>2, <2>1, LinesFollow
<1>5. b \notin acc.recovering /\ \A y \in seen : y \notin acc.recovering
  BY <1>1 DEF Phased
<1>6. Phased'
  BY <1>2, <1>3 DEF Phased, Live
<1>7. Based'
  <2>1. \A y \in seen : b \in Line[y] => y \in acc'.blocks
    <3> SUFFICES ASSUME NEW y \in seen, b \in Line[y] PROVE y \in acc.blocks
      BY <1>2, <1>5
    <3>1. acc.finalized \in Block /\ y \in Block
      BY <1>1, StopsFacts DEF Based
    <3>2. acc.finalized \in Line[y]
      BY <3>1, LinesFollow
    <3>3. QED
      BY <1>1, <3>2 DEF Based
  <2>2. QED
    BY <1>2, <1>3, <1>5, <2>1 DEF Based
<1>8. Kept'
  <2> SUFFICES ASSUME "cut" \notin mishaps, NEW y \in acc'.blocks, Below(b, y)
               PROVE  y \in Told
    BY <1>2, <1>3 DEF Kept
  <2>1. acc.finalized \in Block /\ y \in acc.blocks /\ y \in Block
    BY <1>1, <1>2 DEF Based
  <2>2. Below(acc.finalized, y)
    BY <2>1, LinesFollow DEF Below
  <2>3. QED
    BY <1>1, <2>1, <2>2 DEF Kept
<1>9. Timely'
  BY <1>2 DEF Timely, InTime
<1>10. Whole' /\ (mishaps' = {} => OneRoot(acc'.emitted))
  <2> SUFFICES ASSUME mishaps = {} PROVE Whole' /\ OneRoot(Told)
    BY <1>3 DEF Whole
  <2>1. OneRoot(Told)
    BY <1>1 DEF Whole
  <2>2. \A y \in acc'.blocks : b \in Line[y] => y \in Told
    BY <1>1, <1>2, <1>4 DEF Whole
  <2>3. QED
    BY <1>2, <1>3, <2>1, <2>2 DEF Whole
<1>11. QED
  BY <1>6, <1>7, <1>8, <1>9, <1>10 DEF StopsInv

LEMMA StopsBestBlock ==
  ASSUME StopsInv, NEW b \in Block, BestBlockChanged(b)
  PROVE  StopsInv'
<1> DEFINE c == BestOf(acc, b)
           x == OnBestBlockChanged(acc, b)
<1>1. /\ Observed /\ session # "none"
      /\ b \in seen /\ sFinalized \in Line[b]
      /\ Reduce(x, pinned)
      /\ session' = IF session \in Live THEN session ELSE "live"
      /\ sBest' = b
      /\ UNCHANGED <<seen, sFinalized, top, mishaps>>
  BY DEF BestBlockChanged, Known
<1>2. /\ acc \in Accumulator
      /\ Served /\ Phased /\ Based /\ Kept /\ Timely /\ Whole
      /\ mishaps = {} => OneRoot(acc.emitted)
      /\ acc.phase \in {"Initializing", "Ready", "RecoveringFin"} /\ ~Idle
      /\ acc.blocks \subseteq Block
      /\ session \in {"none", "initialized"} \cup Live
  BY <1>1, StopsFacts
<1>3. PinsInv'
  BY PinsBestBlock DEF StopsInv
<1>4. session' \in Live /\ session' # "none"
  BY <1>1 DEF Live
<1>5. Served'
  BY <1>1, <1>2, <1>4 DEF Served
<1>6. /\ c \in Accumulator /\ c.best = b
      /\ c.phase = acc.phase /\ c.pending = acc.pending
      /\ c.blocks = acc.blocks /\ c.recovering = acc.recovering /\ c.pruned = acc.pruned
      /\ c.finalized = acc.finalized /\ c.emitted = acc.emitted
      /\ x = IF acc.phase = "RecoveringFin" THEN acc
             ELSE IF acc.phase = "Initializing" THEN SetToReady(c) ELSE c
  BY <1>2, BestFacts
<1> HIDE DEF x, c
<1>7. CASE acc.phase = "RecoveringFin"
  <2>1. /\ acc'.phase = acc.phase /\ acc'.target = acc.target
        /\ acc'.pending = acc.pending /\ acc'.blocks = acc.blocks
        /\ acc'.recovering = acc.recovering /\ acc'.pruned = acc.pruned
        /\ acc'.finalized = acc.finalized /\ acc'.emitted = acc.emitted
    BY <1>1, <1>2, <1>6, <1>7, Reduced
  <2>2. Told' = Told /\ ~Idle'
    BY <1>4, <2>1 DEF Told, Idle
  <2>3. Phased'
    BY <1>1, <1>2, <1>4, <1>7, <2>1, <2>2 DEF Phased, Live
  <2>4. Based'
    BY <1>1, <1>2, <1>7, <2>1 DEF Based
  <2>5. Kept'
    BY <1>1, <1>2, <2>1, <2>2 DEF Kept
  <2>6. ~InTime /\ ~InTime'
    BY <1>1, <1>2, <1>7 DEF Timely, InTime
  <2>7. Timely' /\ Whole' /\ mishaps' # {}
    BY <1>1, <1>2, <1>7, <2>6 DEF Timely, Whole, InTime
  <2>8. QED
    BY <1>3, <1>5, <2>3, <2>4, <2>5, <2>7 DEF StopsInv
<1>8. CASE acc.phase # "RecoveringFin"
  <2>1. c.phase = "Ready" => c.recovering = {} /\ c.pending = <<>>
    BY <1>2, <1>6 DEF Phased
  <2>2. Settled(x, c)
    BY <1>2, <1>6, <1>8, <2>1, Settles
  <2>3. /\ acc.finalized = sFinalized /\ acc.finalized \in acc.blocks
        /\ acc.finalized \in Block /\ acc.finalized \in Line[acc.finalized]
        /\ \A y \in c.pruned : ~Aligned(y, acc.finalized)
        /\ top \in Block /\ acc.finalized \in Line[top]
    BY <1>2, <1>6, <1>8, LinesFollow DEF Based
  <2>4. acc.finalized \in seen
    BY <1>1, <1>2, <2>3 DEF Served
  <2>5. InTime => top' = acc.finalized /\ c.best = sBest'
    BY <1>1, <1>2, <1>6, <2>3, ChainAssumption DEF Timely
  <2>6. QED
    BY <1>1, <1>3, <1>4, <1>5, <1>6, <2>2, <2>3, <2>4, <2>5, StopsSettled
<1>9. QED
  BY <1>7, <1>8

LEMMA StopsFinalize ==
  ASSUME StopsInv, NEW b \in Block, Finalize(b)
  PROVE  StopsInv'
<1> DEFINE gone == NewlyPruned(b)
           c == FinalizedOf(acc, b, gone)
           x == OnFinalized(acc, b, gone)
<1>1. /\ Observed /\ session \in Live /\ session # "none"
      /\ b \in seen /\ Below(sFinalized, b) /\ b \in Line[sBest] /\ Aligned(b, top)
      /\ Reduce(x, pinned)
      /\ session' = "advanced" /\ sFinalized' = b
      /\ top' = IF Height[b] > Height[top] THEN b ELSE top
      /\ UNCHANGED <<seen, sBest, mishaps>>
  BY DEF Finalize, Known, Live
<1>2. /\ acc \in Accumulator
      /\ Served /\ Phased /\ Based /\ Kept /\ Timely /\ Whole
      /\ mishaps = {} => OneRoot(acc.emitted)
      /\ acc.phase \in {"Ready", "RecoveringFin"} /\ ~Idle
      /\ acc.blocks \subseteq Block /\ acc.pruned \subseteq Block /\ seen \subseteq Block
  <2>1. /\ acc \in Accumulator
        /\ Served /\ Phased /\ Based /\ Kept /\ Timely /\ Whole
        /\ mishaps = {} => OneRoot(acc.emitted)
        /\ ~Idle
        /\ acc.blocks \subseteq Block /\ acc.pruned \subseteq acc.blocks /\ seen \subseteq Block
    BY <1>1, StopsFacts
  <2>2. acc.phase \in {"Ready", "RecoveringFin"}
    BY <1>1, <2>1 DEF Phased
  <2>3. QED
    BY <2>1, <2>2
<1>3. PinsInv'
  BY PinsFinalize DEF StopsInv
<1>4. /\ sFinalized \in Block /\ sFinalized \in Line[b] /\ sFinalized # b
      /\ Height[sFinalized] < Height[b]
      /\ sBest \in Block /\ sBest \in seen /\ sFinalized \in Line[sBest]
      /\ top \in Block /\ acc.finalized \in acc.blocks /\ acc.finalized \in Block
      /\ acc.finalized \in Line[top]
  BY <1>1, <1>2, LinesFollow DEF Served, Based, Below
<1>5. Height[b] \in Nat /\ Height[top] \in Nat /\ Height[acc.finalized] \in Nat
      /\ Height[sFinalized] \in Nat /\ Height[sBest] \in Nat
  BY <1>4, ChainAssumption
<1>6. top' \in Block /\ b \in Line[top'] /\ top \in Line[top']
  <2>1. CASE Height[b] > Height[top]
    <3>1. top' = b /\ top \in Line[top] /\ Height[top] <= Height[b]
      BY <1>1, <1>4, <1>5, <2>1, LinesFollow
    <3>2. top \in Line[b]
      BY <1>1, <1>4, <3>1, LineOrder
    <3>3. QED
      BY <3>1, <3>2, LinesFollow
  <2>2. CASE ~(Height[b] > Height[top])
    <3>1. top' = top /\ b \in Line[b] /\ Height[b] <= Height[top] /\ Aligned(top, b)
      BY <1>1, <1>4, <1>5, <2>2, LinesFollow DEF Aligned
    <3>2. b \in Line[top]
      BY <1>4, <3>1, LineOrder
    <3>3. QED
      BY <1>4, <3>1, <3>2, LinesFollow
  <2>3. QED
    BY <2>1, <2>2
<1>7. Served'
  <2>1. \A y \in seen : \A z \in Line[y] : b \in Line[z] => z \in seen
    <3> SUFFICES ASSUME NEW y \in seen, NEW z \in Line[y], b \in Line[z] PROVE z \in seen
      OBVIOUS
    <3>1. y \in Block /\ z \in Block
      BY <1>2, LineFacts
    <3>2. sFinalized \in Line[z]
      BY <1>4, <3>1, LinesFollow
    <3>3. QED
      BY <1>1, <1>2, <3>2 DEF Served
  <2>2. QED
    BY <1>1, <1>4, <1>6, <2>1 DEF Served
<1>8. /\ c \in Accumulator /\ c.finalized = b
      /\ c.best = FinalizedBest(acc, b)
      /\ c.phase = acc.phase /\ c.pending = acc.pending
      /\ c.pruned = acc.pruned \cup (gone \cap acc.blocks)
      /\ c.blocks = acc.blocks /\ c.recovering = acc.recovering
      /\ c.emitted = acc.emitted
      /\ x = IF b \notin acc.blocks THEN Fail(acc)
             ELSE IF acc.phase = "RecoveringFin" /\ Height[b] < acc.target THEN acc
             ELSE IF acc.best \notin acc.blocks THEN Fail(acc)
             ELSE IF acc.phase = "RecoveringFin" THEN SetToReady(c) ELSE c
  <2>1. gone \in SUBSET Block
    BY <1>2 DEF NewlyPruned
  <2>2. QED
    BY <1>2, <2>1, FinalizedFacts
<1>9. \A y \in gone : ~Aligned(b, y)
  BY DEF NewlyPruned
<1> HIDE DEF x, c, gone
<1>10. CASE x = Fail(acc)
  <2>1. x \in Accumulator /\ x.phase = "Failed" /\ x.emitted = acc.emitted
    BY <1>2, <1>10, FailFacts, FailTells
  <2>2. acc'.phase = "Failed" /\ acc'.emitted = acc.emitted
    BY <1>1, <2>1, Reduced
  <2>3. QED
    BY <1>1, <1>2, <1>3, <1>7, <2>2 DEF StopsInv, Observed
<1>11. CASE acc.phase = "RecoveringFin" /\ x = acc
  <2>1. /\ acc'.phase = acc.phase /\ acc'.target = acc.target
        /\ acc'.pending = acc.pending /\ acc'.blocks = acc.blocks
        /\ acc'.recovering = acc.recovering /\ acc'.pruned = acc.pruned
        /\ acc'.finalized = acc.finalized /\ acc'.emitted = acc.emitted
    BY <1>1, <1>2, <1>11, Reduced
  <2>2. Told' = Told /\ ~Idle'
    BY <1>1, <2>1 DEF Told, Idle
  <2>3. Phased'
    BY <1>1, <1>2, <1>11, <2>1, <2>2 DEF Phased, Live
  <2>4. Based'
    <3>1. acc.finalized \in Line[top']
      BY <1>4, <1>6, LinesFollow
    <3>2. QED
      BY <1>1, <1>2, <1>6, <1>11, <2>1, <3>1 DEF Based
  <2>5. Kept'
    BY <1>1, <1>2, <2>1, <2>2 DEF Kept
  <2>6. ~InTime /\ ~InTime'
    BY <1>1, <1>2, <1>11 DEF Timely, InTime
  <2>7. Timely' /\ Whole' /\ mishaps' # {}
    BY <1>1, <1>2, <2>6 DEF Timely, Whole, InTime
  <2>8. QED
    BY <1>3, <1>7, <2>3, <2>4, <2>5, <2>7 DEF StopsInv
<1>12. CASE /\ b \in acc.blocks
            /\ ~(acc.phase = "RecoveringFin" /\ Height[b] < acc.target)
            /\ x = IF acc.phase = "RecoveringFin" THEN SetToReady(c) ELSE c
  <2>1. acc.finalized \in Line[b]
    <3>1. CASE acc.phase = "Ready"
      BY <1>2, <1>4, <3>1 DEF Based
    <3>2. CASE acc.phase = "RecoveringFin"
      <4>1. Height[acc.finalized] <= Height[b]
        BY <1>2, <1>5, <1>12, <3>2 DEF Phased
      <4>2. QED
        BY <1>1, <1>4, <4>1, LineOrder
    <3>3. QED
      BY <1>2, <3>1, <3>2
  <2>2. Settled(x, c)
    <3>1. c.phase = "Ready" => c.recovering = {} /\ c.pending = <<>>
      BY <1>2, <1>8 DEF Phased
    <3>2. QED
      BY <1>2, <1>8, <1>12, <3>1, Settles
  <2>3. \A y \in c.pruned : ~Aligned(y, b)
    <3>1. ASSUME NEW y \in acc.pruned PROVE ~Aligned(y, b)
      <4>1. ~Aligned(y, acc.finalized) /\ y \in Block
        BY <1>2 DEF Based
      <4>2. QED
        BY <1>4, <2>1, <4>1, StaysApart
    <3>2. ASSUME NEW y \in gone PROVE ~Aligned(y, b)
      BY <1>9 DEF Aligned
    <3>3. QED
      BY <1>8, <3>1, <3>2
  <2>4. InTime => top' = b /\ c.best = sBest'
    <3> SUFFICES ASSUME InTime PROVE top' = b /\ c.best = sBest
      BY <1>1
    <3>1. sFinalized = top /\ acc.best = sBest /\ acc.phase = "Ready"
      BY <1>1, <1>2, <1>4, ChainAssumption DEF Timely
    <3>2. top' = b
      BY <1>1, <1>4, <3>1
    <3>3. acc.finalized = sFinalized
      BY <1>2, <3>1 DEF Based
    <3>4. sBest \in acc.blocks
      BY <1>2, <1>4, <3>3 DEF Based
    <3>5. Height[b] <= Height[sBest]
      BY <1>1, <1>4, LinesFollow
    <3>6. ~(NumberOf(acc, acc.best) < Height[b])
      BY <1>5, <3>1, <3>4, <3>5 DEF NumberOf
    <3>7. c.best = sBest
      BY <1>8, <3>1, <3>6 DEF FinalizedBest
    <3>8. QED
      BY <3>2, <3>7
  <2>5. session' \in Live
    BY <1>1 DEF Live
  <2>6. QED
    BY <1>1, <1>3, <1>6, <1>7, <1>8, <1>12, <2>1, <2>2, <2>3, <2>4, <2>5, StopsSettled
<1>13. QED
  BY <1>8, <1>10, <1>11, <1>12

LEMMA StopsInitialize ==
  ASSUME StopsInv, NEW b \in Block, NEW n \in 1 .. MaxWindow, Initialize(b, n)
  PROVE  StopsInv'
<1> DEFINE w == WindowOf(b, n)
           x == OnInitialized(acc, w)
           s == Base(acc, w)
           h == LatestHeight(acc, w)
<1>1. /\ Observed /\ session = "none" /\ n <= Len(Path[b])
      /\ top # NoBlock => Aligned(b, top)
      /\ Reduce(x, Range(w)) /\ seen' = Range(w)
      /\ session' = "initialized" /\ sFinalized' = b /\ sBest' = b
      /\ top' = IF top = NoBlock \/ Height[b] > Height[top] THEN b ELSE top
      /\ mishaps' = IF Behind(b) THEN mishaps \cup {"behind"} ELSE mishaps
  BY DEF Initialize, WindowOf
<1>2. /\ acc \in Accumulator
      /\ Served /\ Phased /\ Based /\ Kept /\ Timely /\ Whole
      /\ mishaps = {} => OneRoot(acc.emitted)
      /\ acc.recovering = acc.blocks /\ acc.pruned \subseteq acc.blocks
      /\ acc.blocks \subseteq Block /\ acc.emitted \subseteq Block
      /\ top \in Block \cup {NoBlock}
  BY <1>1, StopsFacts DEF PinsInv
<1>3. PinsInv'
  BY PinsInitialize DEF StopsInv
<1>4. IsWindow(w, b)
  BY <1>1, BoundsAssumption, WindowFacts
<1>5. /\ x \in Accumulator
      /\ x.emitted \in {acc.emitted, {}}
      /\ x.phase # "Failed" =>
           /\ x.phase = IF h > Height[b] THEN "RecoveringFin" ELSE "Initializing"
           /\ h > Height[b] => x.target = h
           /\ x.finalized = IF h > Height[b] THEN s.finalized ELSE b
           /\ x.best = s.best
           /\ x.blocks = s.blocks \cup Range(w)
           /\ x.recovering = s.blocks \ Range(w)
           /\ x.pruned = s.pruned
           /\ x.emitted = s.emitted
           /\ Range(x.pending) = {y \in Range(w) : y \notin s.blocks /\ Height[y] > h}
  <2> HIDE DEF w
  <2>1. QED
    BY <1>2, <1>4, InitializedTells
<1>6. \/ /\ s = acc
         /\ acc.phase = "RecoveringInit" => \E i \in 1 .. Len(w) : w[i] \in acc.blocks
      \/ /\ acc.phase = "RecoveringInit" /\ s \in Accumulator
         /\ s.blocks = {} /\ s.recovering = {} /\ s.pruned = {} /\ s.unpins = {}
         /\ s.emitted = {} /\ s.finalized = NoBlock
         /\ \A c \in Codes : s.usages[c] = {}
  <2> HIDE DEF w
  <2>1. QED
    BY <1>2, BaseFacts
<1>7. h = NumberOf(s, s.finalized)
  BY DEF LatestHeight
<1> HIDE DEF x, s, h
<1>8. /\ acc'.phase = x.phase /\ acc'.target = x.target
      /\ acc'.blocks = x.blocks /\ acc'.recovering = x.recovering
      /\ acc'.pruned = x.pruned /\ acc'.finalized = x.finalized /\ acc'.best = x.best
      /\ acc'.emitted = x.emitted /\ acc'.pending = x.pending
  BY <1>1, <1>5, Reduced
<1>9. /\ Range(w) \subseteq Block /\ b \in Range(w)
      /\ \A y \in Range(w) : y \in Line[b]
      /\ w \in Seq(Block) /\ Len(w) > 0
      /\ \A i \in 1 .. Len(w) : w[i] \in Line[b] /\ w[i] \in Block
      /\ Range(w) = {w[i] : i \in 1 .. Len(w)}
  <2> HIDE DEF w
  <2>1. w \in Seq(Block) /\ Len(w) > 0 /\ Range(w) \subseteq Block /\ b \in Range(w)
    BY <1>4, WindowRange
  <2>2. Range(w) = {w[i] : i \in 1 .. Len(w)}
    BY <2>1, LenProperties DEF Range
  <2>3. \A i \in 1 .. Len(w) : w[i] \in Line[b] /\ w[i] \in Block
    BY <1>4, LineFacts DEF IsWindow
  <2>4. QED
    BY <2>1, <2>2, <2>3
<1>10. \A y \in Range(w) : b \in Line[y] => y = b
  BY <1>9, LinesFollow
<1>11. /\ top' \in Block /\ b \in Line[top']
       /\ top \in Block => top \in Line[top']
       /\ top \in Block /\ ~(Height[b] > Height[top]) => top' = top /\ b \in Line[top]
  <2>1. CASE top = NoBlock
    <3>1. top' = b /\ top \notin Block
      BY <1>1, <2>1, ChainAssumption
    <3>2. QED
      BY <3>1, LinesFollow
  <2>2. CASE top \in Block
    <3>1. top # NoBlock /\ Aligned(b, top) /\ Aligned(top, b)
          /\ Height[b] \in Nat /\ Height[top] \in Nat
      BY <1>1, <2>2, ChainAssumption DEF Aligned
    <3>2. top \in Line[top] /\ b \in Line[b]
      BY <2>2, LinesFollow
    <3>3. CASE Height[b] > Height[top]
      <4>1. top' = b /\ Height[top] <= Height[b]
        BY <1>1, <3>1, <3>3
      <4>2. top \in Line[b]
        BY <2>2, <3>1, <3>2, <4>1, LineOrder
      <4>3. QED
        BY <2>2, <3>2, <3>3, <4>1, <4>2
    <3>4. CASE ~(Height[b] > Height[top])
      <4>1. top' = top /\ Height[b] <= Height[top]
        BY <1>1, <3>1, <3>4
      <4>2. b \in Line[top]
        BY <2>2, <3>1, <3>2, <4>1, LineOrder
      <4>3. QED
        BY <2>2, <3>2, <4>1, <4>2
    <3>5. QED
      BY <3>3, <3>4
  <2>3. QED
    BY <1>2, <2>1, <2>2
<1>12. Served'
  <2>1. \A y \in Range(w) : \A z \in Line[y] : b \in Line[z] => z \in Range(w)
    <3> SUFFICES ASSUME NEW y \in Range(w), NEW z \in Line[y], b \in Line[z]
                 PROVE  z \in Range(w)
      OBVIOUS
    <3>1. y \in Block /\ z \in Block
      BY <1>9, LineFacts
    <3>2. b \in Line[y]
      BY <3>1, LinesFollow
    <3>3. y = b
      BY <1>10, <3>2
    <3>4. z = b
      BY <3>1, <3>3, LinesFollow
    <3>5. QED
      BY <1>9, <3>4
  <2>2. QED
    BY <1>1, <1>9, <1>11, <2>1, LinesFollow DEF Served
<1>13. mishaps' = {} => OneRoot(acc'.emitted)
  <2>1. mishaps' = {} => mishaps = {}
    BY <1>1
  <2>2. OneRoot({})
    BY DEF OneRoot
  <2>3. QED
    BY <1>2, <1>5, <1>8, <2>1, <2>2
<1>14. CASE x.phase = "Failed"
  BY <1>3, <1>8, <1>12, <1>13, <1>14 DEF StopsInv, Observed
<1>15. CASE x.phase # "Failed"
  <2> DEFINE Fresh == s.blocks = {} /\ s.finalized = NoBlock /\ h = -1
             Recovered == /\ s = acc /\ acc.phase = "RecoveringInit" /\ ~Idle
                          /\ \E i \in 1 .. Len(w) : w[i] \in acc.blocks
                          /\ acc.finalized \in acc.blocks /\ acc.finalized \in Block
                          /\ h = Height[acc.finalized] /\ h \in Nat
                          /\ top \in Block /\ acc.finalized \in Line[top]
                          /\ Told = acc.emitted
  <2>1. Height[b] \in Nat /\ \A y \in Block : Height[y] \in Nat
    BY ChainAssumption
  <2>2. \/ Fresh /\ s.pruned = {} /\ (s.emitted = {} \/ (s.emitted = acc.emitted /\ Idle))
        \/ Recovered
    <3>1. CASE s.blocks = {} /\ s.pruned = {} /\ s.emitted = {} /\ s.finalized = NoBlock
      BY <1>7, <3>1 DEF NumberOf
    <3>2. CASE s = acc /\ acc.phase = "RecoveringInit"
                       /\ \E i \in 1 .. Len(w) : w[i] \in acc.blocks
      <4>1. ~Idle
        BY <3>2 DEF Idle
      <4>2. /\ acc.finalized \in acc.blocks /\ acc.finalized \in Block
            /\ top \in Block /\ acc.finalized \in Line[top]
        BY <1>2, <4>1 DEF Based
      <4>3. h = Height[acc.finalized]
        BY <1>7, <3>2, <4>2 DEF NumberOf
      <4>4. Told = acc.emitted
        BY <1>2, <3>2, EmptyRange DEF Told, Phased
      <4>5. QED
        BY <2>1, <3>2, <4>1, <4>2, <4>3, <4>4
    <3>3. CASE s = acc /\ acc.phase # "RecoveringInit"
      <4>1. Idle
        BY <1>1, <1>2, <3>3 DEF Phased, Idle
      <4>2. acc.blocks = {} /\ acc.finalized = NoBlock /\ acc.pruned = {}
        BY <1>2, <4>1 DEF Phased
      <4>3. h = -1
        BY <1>7, <3>3, <4>2 DEF NumberOf
      <4>4. QED
        BY <3>3, <4>1, <4>2, <4>3
    <3>4. QED
      BY <1>6, <3>1, <3>2, <3>3
  <2> HIDE DEF Fresh
  <2>3. Fresh => s.blocks = {} /\ s.finalized = NoBlock /\ h = -1
    BY DEF Fresh
  <2> HIDE DEF Recovered
  <2>4. Recovered =>
          /\ s = acc /\ acc.phase = "RecoveringInit" /\ ~Idle
          /\ \E i \in 1 .. Len(w) : w[i] \in acc.blocks
          /\ acc.finalized \in acc.blocks /\ acc.finalized \in Block
          /\ h = Height[acc.finalized] /\ h \in Nat
          /\ top \in Block /\ acc.finalized \in Line[top]
          /\ Told = acc.emitted
    BY DEF Recovered
  <2>5. /\ acc'.phase = IF h > Height[b] THEN "RecoveringFin" ELSE "Initializing"
        /\ h > Height[b] => acc'.target = h
        /\ acc'.finalized = IF h > Height[b] THEN s.finalized ELSE b
        /\ acc'.blocks = s.blocks \cup Range(w)
        /\ acc'.recovering = s.blocks \ Range(w)
        /\ acc'.pruned = s.pruned
        /\ acc'.emitted = s.emitted
        /\ Told' = s.emitted \cup {y \in Range(w) : y \notin s.blocks /\ Height[y] > h}
    BY <1>5, <1>8, <1>15 DEF Told
  <2>6. h > Height[b] => Recovered
    BY <2>1, <2>2, <2>3
  <2>7. ~Idle' /\ session' # "none"
    BY <1>1 DEF Idle
  <2>8. ~(h > Height[b]) /\ Recovered => acc.finalized \in Line[b]
    <3> SUFFICES ASSUME ~(h > Height[b]), Recovered PROVE acc.finalized \in Line[b]
      OBVIOUS
    <3>1. Height[acc.finalized] <= Height[b] /\ Aligned(b, top)
      BY <1>1, <2>1, <2>4, ChainAssumption
    <3>2. QED
      BY <2>4, <3>1, LineOrder
  <2>9. Phased'
    <3>1. h > Height[b] => acc'.target = Height[acc'.finalized]
      BY <2>4, <2>5, <2>6
    <3>2. acc'.phase \in {"RecoveringFin", "Initializing"}
          /\ (acc'.phase = "RecoveringFin" => h > Height[b])
      BY <2>5
    <3>3. seen' \cap acc'.recovering = {}
      BY <1>1, <2>5
    <3>4. QED
      BY <1>1, <2>7, <3>1, <3>2, <3>3 DEF Phased, Live
  <2>10. Based'
    <3>1. acc'.finalized \in acc'.blocks
      BY <1>9, <2>4, <2>5, <2>6
    <3>2. acc'.finalized \in Line[top']
      <4>1. CASE h > Height[b]
        <5>1. top \in Line[top'] /\ acc.finalized \in Line[top] /\ acc'.finalized = acc.finalized
          BY <1>11, <2>4, <2>5, <2>6, <4>1
        <5>2. acc.finalized \in Block /\ top \in Block
          BY <2>4, <2>6, <4>1
        <5>3. QED
          BY <1>11, <5>1, <5>2, LinesFollow
      <4>2. CASE ~(h > Height[b])
        BY <1>11, <2>5, <4>2
      <4>3. QED
        BY <4>1, <4>2
    <3>3. acc'.phase \in {"Initializing", "Ready"} => acc'.finalized = sFinalized'
      BY <1>1, <2>5
    <3>4. \A y \in acc'.pruned : ~Aligned(y, acc'.finalized)
      <4> SUFFICES ASSUME Recovered, NEW y \in acc.pruned PROVE ~Aligned(y, acc'.finalized)
        BY <2>2, <2>4, <2>5
      <4>1. ~Aligned(y, acc.finalized) /\ y \in Block
        BY <1>2, <2>4 DEF Based
      <4>2. CASE h > Height[b]
        BY <2>4, <2>5, <4>1, <4>2
      <4>3. CASE ~(h > Height[b])
        BY <2>4, <2>5, <2>8, <4>1, <4>3, StaysApart
      <4>4. QED
        BY <4>2, <4>3
    <3>5. \A y \in seen' : y \in acc'.blocks
      BY <1>1, <2>5
    <3>6. QED
      BY <1>11, <3>1, <3>2, <3>3, <3>4, <3>5 DEF Based
  <2>11. Kept'
    <3> SUFFICES ASSUME "cut" \notin mishaps', NEW y \in acc'.blocks, Below(acc'.finalized, y)
                 PROVE  y \in Told'
      BY DEF Kept
    <3>1. "cut" \notin mishaps
      BY <1>1
    <3>2. CASE y \in Range(w) /\ ~(h > Height[b])
      <4>1. Below(b, y) /\ y \in Block
        BY <1>9, <2>5, <3>2
      <4>2. QED
        BY <1>10, <3>2, <4>1 DEF Below
    <3>3. CASE y \in Range(w) /\ h > Height[b]
      <4>1. y \in Block /\ y \in Line[b] /\ Below(acc.finalized, y)
            /\ acc.finalized \in Block /\ h = Height[acc.finalized]
        BY <1>9, <2>4, <2>5, <2>6, <3>3
      <4>2. Height[y] <= Height[b] /\ Height[acc.finalized] < Height[y]
        BY <4>1, LinesFollow
      <4>3. FALSE
        BY <2>1, <3>3, <4>1, <4>2
      <4>4. QED
        BY <4>3
    <3>4. CASE y \in s.blocks
      <4>1. Recovered /\ y \in acc.blocks /\ y \in Block
        BY <1>2, <2>2, <2>3, <2>4, <3>4
      <4>2. Below(acc.finalized, y)
        <5>1. CASE h > Height[b]
          BY <2>4, <2>5, <4>1, <5>1
        <5>2. CASE ~(h > Height[b])
          <6>1. acc.finalized \in Line[b] /\ Below(b, y) /\ acc.finalized \in Block
            BY <2>4, <2>5, <2>8, <4>1, <5>2
          <6>2. QED
            BY <4>1, <6>1, LinesFollow DEF Below
        <5>3. QED
          BY <5>1, <5>2
      <4>3. y \in Told
        BY <1>2, <3>1, <4>1, <4>2 DEF Kept
      <4>4. QED
        BY <2>4, <2>5, <4>1, <4>3
    <3>5. QED
      BY <2>5, <3>2, <3>3, <3>4
  <2>12. InTime' => /\ ~Behind(b) /\ InTime
                    /\ ~(h > Height[b])
    <3> SUFFICES ASSUME InTime' PROVE ~Behind(b) /\ InTime /\ ~(h > Height[b])
      OBVIOUS
    <3>1. ~Behind(b) /\ InTime
      BY <1>1 DEF InTime
    <3>2. ASSUME h > Height[b] PROVE FALSE
      <4>1. Recovered /\ acc.finalized = top /\ h = Height[top] /\ top \in Block
        BY <1>2, <2>4, <2>6, <3>1, <3>2 DEF Timely
      <4>2. ~(Height[b] < Height[top])
        BY <3>1, <4>1, ChainAssumption DEF Behind
      <4>3. QED
        BY <3>2, <4>1, <4>2
    <3>3. QED
      BY <3>1, <3>2
  <2>13. Timely'
    <3> SUFFICES ASSUME InTime' PROVE Timely'
      BY DEF Timely
    <3>1. sFinalized' = top'
      <4>1. CASE top = NoBlock \/ Height[b] > Height[top]
        BY <1>1, <4>1
      <4>2. CASE top \in Block /\ ~(Height[b] > Height[top])
        <5>1. top' = top /\ b \in Line[top] /\ ~(Height[b] < Height[top])
          BY <1>11, <2>12, <4>2, ChainAssumption DEF Behind
        <5>2. b = top \/ Height[b] < Height[top]
          BY <4>2, <5>1, LinesFollow DEF Below
        <5>3. QED
          BY <1>1, <5>1, <5>2
      <4>3. QED
        BY <1>2, <4>1, <4>2
    <3>2. acc'.phase = "Initializing"
      BY <2>5, <2>12
    <3>3. QED
      BY <1>1, <3>1, <3>2 DEF Timely, Live
  <2>14. Whole'
    <3> SUFFICES ASSUME mishaps' = {} PROVE Whole'
      BY DEF Whole
    <3>1. InTime' /\ mishaps = {}
      BY <1>1 DEF InTime
    <3>2. ~(h > Height[b]) /\ acc'.phase = "Initializing" /\ acc'.finalized = b
      BY <2>5, <2>12, <3>1
    <3>3. \A i, j \in 1 .. Len(w) : i > 1 => w[i] # Genesis /\ Parent[w[i]] = w[i - 1]
      BY <1>4 DEF IsWindow
    <3>4. CASE Fresh
      <4>1. Told' = Range(w)
        <5>1. s.emitted = {}
          BY <1>2, <2>2, <2>4, <3>1, <3>4, <2>3 DEF Whole
        <5>2. \A y \in Range(w) : y \notin s.blocks /\ Height[y] > h
          BY <1>9, <2>1, <2>3, <3>4
        <5>3. QED
          BY <2>5, <5>1, <5>2
      <4>2. ASSUME NEW y \in Range(w), IsRoot(Range(w), y) PROVE y = w[1]
        <5>1. PICK i \in 1 .. Len(w) : y = w[i]
          BY <1>9
        <5>2. CASE i > 1
          <6>1. i - 1 \in 1 .. Len(w) /\ w[i - 1] \in Range(w)
            BY <1>9, <5>1, <5>2
          <6>2. QED
            BY <3>3, <4>2, <5>1, <5>2, <6>1 DEF IsRoot
        <5>3. QED
          BY <5>1, <5>2
      <4>3. OneRoot(Range(w))
        BY <4>2 DEF OneRoot
      <4>4. \A y \in acc'.blocks : y \in Told'
        BY <2>3, <2>5, <3>4, <4>1
      <4>5. QED
        BY <2>7, <3>2, <4>1, <4>3, <4>4 DEF Whole
    <3>5. CASE Recovered
      <4> DEFINE f == acc.finalized
                 new == {y \in Range(w) : y \notin acc.blocks /\ Height[y] > h}
      <4>1. /\ f \in Line[b] /\ f \in Block /\ f \in acc.blocks /\ h = Height[f]
            /\ Told' = Told \cup new
            /\ OneRoot(Told)
            /\ \A y \in acc.blocks : f \in Line[y] => y \in Told
            /\ \A y \in acc.blocks : f \in Line[y] =>
                 \A z \in Line[y] : f \in Line[z] => z \in acc.blocks
        BY <1>2, <2>4, <2>5, <2>8, <3>1, <3>2, <3>5 DEF Whole
      <4>2. \A y \in Range(w) : y \in Block /\ Aligned(f, y)
        BY <1>9, <4>1, LinesFollow
      <4>3. \A y \in Range(w) : Height[y] > h => Below(f, y)
        <5> SUFFICES ASSUME NEW y \in Range(w), Height[y] > h PROVE Below(f, y)
          OBVIOUS
        <5>1. Height[f] < Height[y] /\ Height[f] <= Height[y]
          BY <2>1, <4>1, <4>2
        <5>2. y \in Line[y] /\ y \in Block
          BY <4>2, LinesFollow
        <5>3. Aligned(y, f)
          BY <4>2 DEF Aligned
        <5>4. f \in Line[y]
          BY <4>1, <5>1, <5>2, <5>3, LinesFollow, LineOrder
        <5>5. QED
          BY <2>1, <4>2, <5>1, <5>4 DEF Below
      <4>4. ASSUME NEW y \in new PROVE y # Genesis /\ Parent[y] \in Told'
        <5>1. Below(f, y) /\ y \in Block /\ y \notin acc.blocks
          BY <4>2, <4>3
        <5>2. y # Genesis /\ f \in Line[Parent[y]]
          BY <4>1, <5>1, LinesFollow
        <5>3. PICK i \in 1 .. Len(w) : y = w[i]
          BY <1>9
        <5>4. CASE i > 1
          <6>1. Parent[y] = w[i - 1] /\ i - 1 \in 1 .. Len(w)
            BY <3>3, <5>3, <5>4
          <6>2. Parent[y] \in Range(w) /\ Parent[y] \in Block
            BY <1>9, <6>1
          <6>3. CASE Parent[y] \in acc.blocks
            BY <4>1, <5>2, <6>3
          <6>4. CASE Parent[y] \notin acc.blocks
            <7>1. Below(f, Parent[y])
              BY <4>1, <5>2, <6>4 DEF Below
            <7>2. Height[f] < Height[Parent[y]]
              BY <4>1, <6>2, <7>1, LinesFollow
            <7>3. Parent[y] \in new
              BY <2>1, <4>1, <6>2, <6>4, <7>2
            <7>4. QED
              BY <4>1, <5>2, <7>3
          <6>5. QED
            BY <5>2, <6>3, <6>4
        <5>5. CASE i = 1
          <6>1. PICK k \in 1 .. Len(w) : w[k] \in acc.blocks
            BY <2>4, <3>5
          <6>2. k > 1
            BY <5>1, <5>3, <5>5, <6>1
          <6>3. /\ Height[y] < Height[w[k]] /\ w[k] \in Block /\ w[k] \in Range(w)
                /\ w[k] \in Line[b] /\ y \in Line[b]
            BY <1>4, <1>9, <5>3, <5>5, <6>2, WindowOrdered
          <6>4. Aligned(w[k], y) /\ y \in Line[y] /\ Height[y] <= Height[w[k]]
            BY <2>1, <5>1, <6>3, LinesFollow
          <6>5. y \in Line[w[k]]
            BY <5>1, <6>3, <6>4, LineOrder
          <6>6. f \in Line[y] /\ f \in Line[w[k]]
            BY <4>1, <5>1, <6>3, <6>5, LinesFollow DEF Below
          <6>7. y \in acc.blocks
            BY <4>1, <6>1, <6>5, <6>6
          <6>8. QED
            BY <5>1, <6>7
        <5>6. QED
          BY <5>4, <5>5
      <4> HIDE DEF new
      <4>5. OneRoot(Told')
        BY <4>1, <4>4 DEF OneRoot, IsRoot
      <4>6. \A y \in acc'.blocks : b \in Line[y] => y \in Told'
        <5> SUFFICES ASSUME NEW y \in acc'.blocks, b \in Line[y] PROVE y \in Told'
          OBVIOUS
        <5>1. CASE y \in acc.blocks
          <6>1. f \in Line[y] /\ y \in Block
            BY <1>2, <4>1, <5>1, LinesFollow
          <6>2. QED
            BY <4>1, <5>1, <6>1
        <5>2. CASE y \in Range(w) /\ y \notin acc.blocks
          <6>1. y = b
            BY <1>10, <5>2
          <6>2. Below(f, b)
            BY <4>1, <5>2, <6>1 DEF Below
          <6>3. Height[f] < Height[b]
            BY <4>1, <6>2, LinesFollow
          <6>4. y \in new
            BY <2>1, <4>1, <5>2, <6>1, <6>3 DEF new
          <6>5. QED
            BY <4>1, <6>4
        <5>3. QED
          BY <2>4, <2>5, <3>5, <5>1, <5>2
      <4>7. QED
        BY <2>7, <3>2, <4>5, <4>6 DEF Whole
    <3>6. QED
      BY <2>2, <3>4, <3>5
  <2>15. QED
    BY <1>3, <1>12, <1>13, <2>9, <2>10, <2>11, <2>13, <2>14 DEF StopsInv
<1>16. QED
  BY <1>14, <1>15

LEMMA StopsStep == StopsInv /\ [Next]_vars => StopsInv'
<1> SUFFICES ASSUME StopsInv, [Next]_vars PROVE StopsInv'
  OBVIOUS
<1>1. CASE UNCHANGED vars
  <2>1. UNCHANGED <<acc, session, seen, sFinalized, sBest, top, mishaps>>
    BY <1>1 DEF vars, serverVars
  <2>2. PinsInv'
    BY <1>1, PinsStep DEF StopsInv
  <2>3. QED
    BY <2>1, <2>2, StopsQuiet
<1>2. ASSUME NEW b \in Block, NEW n \in 1 .. MaxWindow, Initialize(b, n) PROVE StopsInv'
  BY <1>2, StopsInitialize
<1>3. ASSUME NEW b \in Block, NewBlock(b) PROVE StopsInv'
  BY <1>3, StopsNewBlock
<1>4. ASSUME NEW b \in Block, BestBlockChanged(b) PROVE StopsInv'
  BY <1>4, StopsBestBlock
<1>5. ASSUME NEW b \in Block, Finalize(b) PROVE StopsInv'
  BY <1>5, StopsFinalize
<1>6. CASE Stop
  BY <1>6, StopsStop
<1>7. CASE CleanUp
  BY <1>7, StopsCleanUp
<1>8. ASSUME NEW b \in Held, Hold(b) \/ Release(b) \/ ReleaseFires(b) PROVE StopsInv'
  <2>1. b \in Block
    BY BoundsAssumption
  <2>2. QED
    BY <1>8, <2>1, StopsUser
<1>9. QED
  BY <1>1, <1>2, <1>3, <1>4, <1>5, <1>6, <1>7, <1>8 DEF Next, Server, User

\* The invariant of any number of subscriptions holds in every state, whatever
\* the chain, its upgrades and its forks.
THEOREM StopsInvariant == Spec => []StopsInv
<1>1. Spec => []StopsInv
  BY StopsStart, StopsStep, PTL DEF Spec
<1>2. QED
  BY <1>1

LEMMA StopsTell == StopsInv => NewBlocksAreRight
<1> SUFFICES ASSUME StopsInv PROVE NewBlocksAreRight
  OBVIOUS
<1>1. ContinuousUnlessMishap
  <2> SUFFICES ASSUME mishaps = {} PROVE NewBlocksAreContinuous
    BY DEF ContinuousUnlessMishap
  <2> DEFINE first == {b \in acc.emitted : b = Genesis \/ Parent[b] \notin acc.emitted}
  <2>1. OneRoot(acc.emitted) /\ acc.emitted \subseteq Block
    BY DEF StopsInv, PinsInv, TypeOK, Accumulator
  <2>2. \A b, x \in first : b = x
    BY <2>1 DEF OneRoot, IsRoot
  <2>3. CASE first = {}
    <3>1. Cardinality(first) = 0
      BY <2>3, FS_EmptySet
    <3>2. QED
      BY <3>1 DEF NewBlocksAreContinuous
  <2>4. CASE first # {}
    <3>1. PICK b : first = {b}
      BY <2>2, <2>4
    <3>2. Cardinality(first) = 1
      BY <3>1, FS_Singleton
    <3>3. QED
      BY <3>2 DEF NewBlocksAreContinuous
  <2>5. QED
    BY <2>3, <2>4
<1>2. NothingKeptFromSubscribers
  <2> SUFFICES ASSUME Ready, "cut" \notin mishaps, NEW b \in acc.blocks,
                      Below(acc.finalized, b)
               PROVE  b \in acc.emitted
    BY DEF NothingKeptFromSubscribers
  <2>1. Observed /\ acc.phase = "Ready"
    BY DEF Ready, Observed
  <2>2. Kept /\ Phased
    BY <2>1 DEF StopsInv
  <2>3. acc.pending = <<>> /\ b \in Told
    BY <2>1, <2>2 DEF Phased, Kept
  <2>4. QED
    BY <2>3, EmptyRange DEF Told
<1>3. QED
  BY <1>1, <1>2 DEF NewBlocksAreRight

\* newBlocks$ has no gap, and no block above the finalized one is kept from its
\* subscribers, however often the server stops, unless a subscription was behind
\* the previous one or cut before the client was ready.
THEOREM NewBlocksStayRight == Spec => []NewBlocksAreRight
<1>1. Spec => []NewBlocksAreRight
  BY StopsInvariant, StopsTell, PTL
<1>2. QED
  BY <1>1

LEMMA StopsChain == StopsInv => BestChainIsThere
<1> SUFFICES ASSUME StopsInv, Ready, InTime PROVE BestChain
  BY DEF BestChainIsThere
<1>1. Observed /\ acc.phase = "Ready"
  BY DEF Ready, Observed
<1>2. Served /\ Phased /\ Based /\ Timely /\ session \in {"none", "initialized"} \cup Live
  BY <1>1, StopsFacts
<1>3. session \in Live /\ session # "none" /\ ~Idle
  BY <1>1, <1>2 DEF Phased, Idle, Live
<1>4. acc.best = sBest /\ acc.finalized = sFinalized
  BY <1>1, <1>2, <1>3 DEF Timely, Based
<1>5. sFinalized \in Block /\ sBest \in seen /\ sFinalized \in Line[sBest]
      /\ \A x \in Line[sBest] : sFinalized \in Line[x] => x \in acc.blocks
      /\ sBest \in Block
  BY <1>2, <1>3, <1>4 DEF Served, Based
<1>6. sBest \in Line[sBest] /\ sFinalized \in Line[sFinalized]
  BY <1>5, LinesFollow
<1>7. QED
  BY <1>4, <1>5, <1>6 DEF BestChain, Below

-------------------------------------------------------------------------------
(***************************************************************************)
(* Without an upgrade no handler throws, in time.                          *)
(***************************************************************************)

LEMMA CodesCleared ==
  ASSUME NEW a \in Accumulator, HasCodes(a), NEW gone, NEW d, Cleared(d, a, gone),
         d.blocks = a.blocks \ gone
  PROVE  HasCodes(d)
<1>1. a.blocks \subseteq Block
  BY DEF Accumulator
<1>2. \A b \in Block : Code[b] \in Codes
  BY DEF Codes
<1>3. ASSUME NEW b \in d.blocks PROVE d.runtime[b] = Code[b] /\ b \in d.usages[Code[b]]
  BY <1>1, <1>2 DEF HasCodes, Cleared
<1>4. ASSUME NEW c \in Codes, NEW b \in d.usages[c] PROVE b \in d.blocks /\ Code[b] = c
  BY DEF HasCodes, Cleared
<1>5. QED
  BY <1>3, <1>4 DEF HasCodes

\* The one runtime is that of the latest finalized block as soon as there is a block.
OneThere(a) == HasCodes(a) /\ (a.blocks # {} => a.finRuntime = Code[Genesis])

LEMMA OneUsed ==
  ASSUME OneRuntime, NEW a \in Accumulator, HasCodes(a)
  PROVE  /\ a.blocks # {} => a.usages[Code[Genesis]] # {}
         /\ a.blocks = {} => \A c \in Codes : a.usages[c] = {}
<1>1. a.blocks \subseteq Block
  BY DEF Accumulator
<1>2. ASSUME a.blocks # {} PROVE a.usages[Code[Genesis]] # {}
  <2>1. PICK b \in a.blocks : b \in Block
    BY <1>1, <1>2
  <2>2. b \in a.usages[Code[b]] /\ Code[b] = Code[Genesis]
    BY <2>1 DEF HasCodes, OneRuntime
  <2>3. QED
    BY <2>2
<1>3. a.blocks = {} => \A c \in Codes : a.usages[c] = {}
  BY DEF HasCodes
<1>4. QED
  BY <1>2, <1>3

LEMMA CodesAdded ==
  ASSUME OneRuntime, NEW a \in Accumulator, OneThere(a), a.phase # "Failed",
         NEW w \in Seq(Block), NEW i \in 1 .. Len(w), NEW h \in Int,
         a.blocks = {} => i = 1 /\ h = -1
  PROVE  LET x == AddFinalized(a, w, i, h)
         IN  x.phase = a.phase /\ OneThere(x) /\ x.blocks # {}
<1> DEFINE x == AddFinalized(a, w, i, h)
           r == RuntimeInWindow(a, w, i, h)
<1>1. w[i] \in Block /\ Code[w[i]] = Code[Genesis] /\ Code[Genesis] \in Codes
      /\ Height[w[i]] \in Nat /\ HasCodes(a) /\ Code[Genesis] # NoCode
  BY ChainAssumption DEF OneRuntime, Codes, OneThere
<1>2. CASE w[i] \in a.blocks
  <2>1. /\ x.phase = a.phase /\ x.blocks = a.blocks /\ x.runtime = a.runtime
        /\ x.usages = a.usages /\ x.finRuntime = a.finRuntime
    BY <1>2, AddKnown
  <2> HIDE DEF x
  <2>2. x.phase = a.phase /\ OneThere(x) /\ x.blocks # {}
    BY <1>2, <2>1 DEF OneThere, HasCodes
  <2>3. QED
    BY <2>2 DEF x
<1>3. CASE w[i] \notin a.blocks
  <2>1. r = Code[Genesis] /\ ~NoRuntime(a, w, i, h)
    <3>1. CASE a.blocks = {}
      <4>1. a.usages[Code[w[i]]] = {} /\ ChangesRuntime(w, i) /\ Height[w[i]] > h
        BY <1>1, <3>1, OneUsed DEF ChangesRuntime
      <4>2. MakesRuntime(a, w, i, h)
        BY <4>1 DEF MakesRuntime
      <4>3. QED
        BY <1>1, <4>2 DEF NoRuntime, RuntimeInWindow
    <3>2. CASE a.blocks # {}
      <4>1. a.usages[Code[Genesis]] # {} /\ a.finRuntime = Code[Genesis]
        BY <1>1, <3>2, OneUsed DEF OneThere
      <4>2. ~MakesRuntime(a, w, i, h)
        BY <1>1, <4>1 DEF MakesRuntime
      <4>3. QED
        BY <1>1, <4>1, <4>2 DEF NoRuntime, RuntimeInWindow
    <3>3. QED
      BY <3>1, <3>2
  <2>2. IsAdded(a, w, i, h)
    BY <1>3, <2>1 DEF IsAdded
  <2>3. /\ x.phase = a.phase /\ x.blocks = a.blocks \cup {w[i]}
        /\ PlacedInWindow(x, a, w, i, r) /\ UsageAdded(x, a, w[i], r) /\ x.finRuntime = r
    BY <2>2, AddNew
  <2> HIDE DEF x, r
  <2>4. a.blocks \subseteq Block
    BY DEF Accumulator
  <2>5. ASSUME NEW b \in x.blocks PROVE x.runtime[b] = Code[b] /\ b \in x.usages[Code[b]]
    <3>1. b \in Block /\ Code[b] \in Codes
      BY <1>1, <2>3, <2>4 DEF Codes
    <3>2. CASE b = w[i]
      BY <1>1, <2>1, <2>3, <3>1, <3>2 DEF PlacedInWindow, UsageAdded
    <3>3. CASE b # w[i]
      <4>1. a.runtime[b] = Code[b] /\ b \in a.usages[Code[b]]
        BY <1>1, <2>3, <3>3 DEF HasCodes
      <4>2. QED
        BY <2>3, <3>1, <3>3, <4>1 DEF PlacedInWindow, UsageAdded
    <3>4. QED
      BY <3>2, <3>3
  <2>6. ASSUME NEW c \in Codes, NEW b \in x.usages[c] PROVE b \in x.blocks /\ Code[b] = c
    <3>1. b \in a.usages[c] \/ (b = w[i] /\ c = r)
      BY <2>3 DEF UsageAdded
    <3>2. QED
      BY <1>1, <2>1, <2>3, <3>1 DEF HasCodes
  <2>7. HasCodes(x)
    BY <2>5, <2>6 DEF HasCodes
  <2>8. QED
    BY <2>1, <2>3, <2>7 DEF OneThere, x
<1>4. QED
  BY <1>2, <1>3

LEMMA CodesWindow ==
  ASSUME OneRuntime, NEW a \in Accumulator, OneThere(a), a.phase # "Failed",
         a.recovering \subseteq a.blocks,
         NEW w \in Seq(Block), Len(w) > 0, NEW h \in Int,
         a.blocks = {} => h = -1
  PROVE  LET x == AddWindow(a, w, h)
         IN  x.phase = a.phase /\ OneThere(x)
<1>1. PICK f : Adds(f, a, w, h) /\ AddWindow(a, w, h) = f[Len(w)]
  BY AddWindowUnfolds
<1>2. /\ f \in [0 .. Len(w) -> Accumulator]
      /\ f[0] = a
      /\ \A i \in 1 .. Len(w) : f[i] = AddFinalized(f[i - 1], w, i, h)
      /\ Len(w) \in Nat
  BY <1>1, LenProperties DEF Adds
<1> DEFINE Right(i) == f[i].phase = a.phase /\ OneThere(f[i]) /\ (f[i].blocks = {} => i = 0 /\ h = -1)
           N == {i \in Nat : i <= Len(w) => Right(i)}
<1>3. 0 \in N
  BY <1>2
<1>4. ASSUME NEW i \in Nat, i \in N PROVE i + 1 \in N
  <2> SUFFICES ASSUME i + 1 <= Len(w) PROVE Right(i + 1)
    OBVIOUS
  <2>1. i + 1 \in 1 .. Len(w) /\ i \in 0 .. Len(w) /\ i + 1 - 1 = i
    BY <1>2
  <2> DEFINE c == f[i]
             x == f[i + 1]
             n == i + 1
  <2>2. c \in Accumulator /\ x = AddFinalized(c, w, n, h)
    BY <1>2, <2>1
  <2>3. c.phase = a.phase /\ OneThere(c) /\ (c.blocks = {} => n = 1 /\ h = -1) /\ n \in 1 .. Len(w)
    BY <1>2, <1>4, <2>1
  <2> HIDE DEF c, n, x
  <2>4. x.phase = c.phase /\ OneThere(x) /\ x.blocks # {}
    BY <2>2, <2>3, CodesAdded
  <2>5. QED
    BY <2>3, <2>4 DEF x
<1> HIDE DEF N
<1>5. Nat \subseteq N
  BY <1>3, <1>4, InductionOverNat
<1>6. Right(Len(w))
  <2> HIDE DEF Right
  <2>1. Len(w) \in N
    BY <1>2, <1>5
  <2>2. QED
    BY <1>2, <2>1 DEF N
<1>7. QED
  BY <1>1, <1>6

LEMMA OneFacts ==
  ASSUME StopsInv, RuntimeInv, InTime
  PROVE  /\ Observed /\ OneThere(acc)
         /\ PinsInv /\ Sound(acc) /\ acc \in Accumulator
         /\ Served /\ Phased /\ Based /\ Timely
         /\ acc.recovering \subseteq acc.blocks /\ acc.blocks \subseteq Block
         /\ Code[Genesis] \in Codes /\ Code[Genesis] # NoCode
<1>1. Observed /\ OneThere(acc)
  BY DEF RuntimeInv, OneThere
<1>2. Code[Genesis] \in Codes /\ Code[Genesis] # NoCode
  BY ChainAssumption DEF Codes
<1>3. QED
  BY <1>1, <1>2, StopsFacts

\* The step took x, in time, and did not fail.
LEMMA OneReduced ==
  ASSUME NEW x \in Accumulator, NEW pins, Reduce(x, pins), x.phase # "Failed", OneThere(x)
  PROVE  RuntimeInv'
<1>1. /\ acc'.phase = x.phase /\ acc'.blocks = x.blocks /\ acc'.runtime = x.runtime
      /\ acc'.usages = x.usages /\ acc'.finRuntime = x.finRuntime
  BY Reduced
<1>2. Observed'
  BY <1>1 DEF Observed
<1>3. HasCodes(acc)' /\ (acc'.blocks # {} => acc'.finRuntime = Code[Genesis])
  BY <1>1 DEF OneThere, HasCodes
<1>4. QED
  BY <1>2, <1>3 DEF RuntimeInv

LEMMA OneStart == Init => RuntimeInv
<1> SUFFICES ASSUME Init PROVE RuntimeInv
  OBVIOUS
<1>1. /\ acc.phase = "Initializing" /\ acc.blocks = {} /\ \A c \in Codes : acc.usages[c] = {}
  BY DEF Init, Initial
<1>2. QED
  BY <1>1 DEF RuntimeInv, Observed, HasCodes

LEMMA OneInitialize ==
  ASSUME OneRuntime, StopsInv, RuntimeInv, InTime, NEW b \in Block, NEW n \in 1 .. MaxWindow,
         Initialize(b, n)
  PROVE  RuntimeInv'
<1> DEFINE w == WindowOf(b, n)
           x == OnInitialized(acc, w)
           s == Base(acc, w)
           h == LatestHeight(acc, w)
           t == StartOf(acc, w)
<1>1. /\ session = "none" /\ n <= Len(Path[b]) /\ Reduce(x, Range(w))
  BY DEF Initialize, WindowOf
<1>2. IsWindow(w, b)
  BY <1>1, BoundsAssumption, WindowFacts
<1> HIDE DEF w
<1>3. w \in Seq(Block) /\ Len(w) > 0
  BY <1>2, WindowRange
<1>4. /\ Observed /\ OneThere(acc) /\ acc \in Accumulator /\ Phased /\ Based
      /\ acc.recovering \subseteq acc.blocks
      /\ Code[Genesis] \in Codes /\ Code[Genesis] # NoCode
  BY OneFacts
<1>5. acc.phase \in {"Initializing", "RecoveringInit"}
  BY <1>1, <1>4 DEF Phased
<1>6. /\ OneThere(s) /\ s \in Accumulator /\ s.recovering \subseteq s.blocks
      /\ s.blocks = {} => s.finalized = NoBlock
      /\ s.blocks # {} => s.finRuntime # NoCode
  <2>1. CASE /\ s = acc
             /\ acc.phase = "RecoveringInit" => \E i \in 1 .. Len(w) : w[i] \in acc.blocks
    <3>1. acc.blocks = {} => acc.finalized = NoBlock
      <4> SUFFICES ASSUME acc.blocks = {} PROVE acc.finalized = NoBlock
        OBVIOUS
      <4>1. acc.phase = "Initializing"
        BY <1>5, <2>1
      <4>2. Idle
        BY <1>1, <4>1 DEF Idle
      <4>3. QED
        BY <1>4, <4>2 DEF Phased
    <3>2. QED
      BY <1>4, <2>1, <3>1 DEF OneThere
  <2>2. CASE /\ s \in Accumulator /\ s.blocks = {} /\ s.recovering = {} /\ s.finalized = NoBlock
             /\ \A c \in Codes : s.usages[c] = {}
    <3>1. OneThere(s)
      BY <2>2 DEF OneThere, HasCodes
    <3> HIDE DEF s
    <3>2. QED
      BY <2>2, <3>1
  <2>3. QED
    <3> HIDE DEF s
    <3>1. \/ /\ s = acc
             /\ acc.phase = "RecoveringInit" => \E i \in 1 .. Len(w) : w[i] \in acc.blocks
          \/ /\ s \in Accumulator /\ s.blocks = {} /\ s.recovering = {} /\ s.finalized = NoBlock
             /\ \A c \in Codes : s.usages[c] = {}
      BY <1>4, BaseFacts DEF s
    <3>2. QED
      BY <2>1, <2>2, <3>1
<1>7. IsExpected(acc, w)
  <2>1. s.finRuntime # NoCode \/ s.finalized = NoBlock
    BY <1>6
  <2>2. QED
    BY <1>5, <2>1 DEF IsExpected
<1>8. x = AddWindow(t, w, h)
  BY <1>7, InitializedCases
<1>9. /\ h \in Int /\ t \in Accumulator /\ t.phase \in {"RecoveringFin", "Initializing"}
      /\ t.blocks = s.blocks /\ t.recovering = s.recovering /\ t.pruned = s.pruned
      /\ t.runtime = s.runtime /\ t.usages = s.usages /\ t.finRuntime = s.finRuntime
  BY <1>3, <1>4, StartFacts
<1>10. s.blocks = {} => h = -1
  BY <1>6 DEF LatestHeight, NumberOf
<1> HIDE DEF t, h, s, x
<1>11. OneThere(t)
  BY <1>6, <1>9 DEF OneThere, HasCodes
<1>12. x.phase = t.phase /\ OneThere(x)
  BY <1>3, <1>6, <1>8, <1>9, <1>10, <1>11, CodesWindow
<1>13. x \in Accumulator
  <2>1. acc.recovering = acc.blocks /\ acc.pruned \subseteq acc.blocks
    BY <1>1, <1>4, StopsFacts DEF PinsInv
  <2>2. QED
    BY <1>2, <1>4, <2>1, InitializedTells DEF x
<1>14. QED
  BY <1>1, <1>9, <1>12, <1>13, OneReduced

LEMMA OneNewBlock ==
  ASSUME OneRuntime, StopsInv, RuntimeInv, InTime, NEW b \in Block, NewBlock(b)
  PROVE  RuntimeInv'
<1> DEFINE isNew == Code[b] # Code[Parent[b]]
           x == OnNewBlock(acc, b, isNew)
           r == RuntimeFor(acc, b, isNew)
<1>1. /\ session # "none" /\ Parent[b] \in seen /\ Below(sFinalized, b)
      /\ Reduce(x, pinned \cup {b})
  BY DEF NewBlock, Known
<1>2. /\ Observed /\ OneThere(acc) /\ acc \in Accumulator /\ Served /\ Phased /\ Based /\ Timely
      /\ acc.recovering \subseteq acc.blocks /\ acc.blocks \subseteq Block
      /\ Code[Genesis] \in Codes
  BY OneFacts
<1>3. Parent[b] \in acc.blocks /\ Parent[b] \in Block
  <2>1. acc.phase \in {"Initializing", "Ready"} /\ ~Idle
    BY <1>1, <1>2, StopsFacts DEF Timely
  <2>2. acc.finalized = sFinalized
    BY <1>2, <2>1 DEF Based
  <2>3. sFinalized \in Line[Parent[b]]
    BY <1>1, <1>2, LinesFollow DEF Served
  <2>4. QED
    BY <1>1, <1>2, <2>1, <2>2, <2>3 DEF Based
<1>4. isNew = FALSE /\ Code[b] = Code[Genesis]
  BY <1>3 DEF OneRuntime
<1>5. acc.runtime[Parent[b]] = Code[Genesis] /\ Parent[b] \in acc.usages[Code[Genesis]]
      /\ HasCodes(acc)
  BY <1>2, <1>3 DEF OneThere, HasCodes, OneRuntime
<1>6. r = Code[Genesis] /\ RuntimesWith(acc, b, isNew) = acc.usages
  BY <1>4, <1>5 DEF RuntimeFor, RuntimesWith
<1>7. isNew \in BOOLEAN
  OBVIOUS
<1>8. CASE b \in acc.blocks
  <2>1. /\ x \in Accumulator /\ x.phase = acc.phase /\ x.blocks = acc.blocks
        /\ x.runtime = acc.runtime /\ x.usages = acc.usages /\ x.finRuntime = acc.finRuntime
    <3> HIDE DEF isNew
    <3>1. QED
      BY <1>2, <1>7, <1>8, NewBlockKnown
  <2> HIDE DEF x
  <2>2. OneThere(x)
    BY <1>2, <2>1 DEF OneThere, HasCodes
  <2>3. QED
    BY <1>1, <1>2, <2>1, <2>2, OneReduced DEF Observed
<1>9. CASE b \notin acc.blocks
  <2>1. CanStand(acc, b, isNew)
    BY <1>2, <1>3, <1>5, <1>6, <1>7, <1>9 DEF CanStand
  <2>2. /\ x \in Accumulator /\ x.phase = acc.phase /\ x.blocks = acc.blocks \cup {b}
        /\ Placed(x, acc, b, r) /\ UsagesAdded(x, acc, b, isNew, r)
        /\ x.finRuntime = acc.finRuntime
    <3> HIDE DEF isNew
    <3>1. QED
      BY <1>2, <1>7, <2>1, NewBlockNew
  <2> HIDE DEF x, r
  <2>3. ~isNew
    BY <1>4
  <2> HIDE DEF isNew
  <2>4. ASSUME NEW y \in x.blocks PROVE x.runtime[y] = Code[y] /\ y \in x.usages[Code[y]]
    <3>1. y \in Block /\ Code[y] \in Codes
      BY <1>2, <2>2 DEF Codes
    <3>2. CASE y = b
      BY <1>4, <1>6, <2>2, <2>3, <3>1, <3>2 DEF Placed, UsagesAdded
    <3>3. CASE y # b
      <4>1. acc.runtime[y] = Code[y] /\ y \in acc.usages[Code[y]]
        BY <1>5, <2>2, <3>3 DEF HasCodes
      <4>2. QED
        BY <2>2, <2>3, <3>1, <3>3, <4>1 DEF Placed, UsagesAdded
    <3>4. QED
      BY <3>2, <3>3
  <2>5. ASSUME NEW c \in Codes, NEW y \in x.usages[c] PROVE y \in x.blocks /\ Code[y] = c
    <3>1. y \in acc.usages[c] \/ (y = b /\ c = r)
      BY <2>2, <2>3 DEF UsagesAdded
    <3>2. QED
      BY <1>4, <1>5, <1>6, <2>2, <3>1 DEF HasCodes
  <2>6. OneThere(x)
    BY <1>2, <1>3, <2>2, <2>4, <2>5 DEF OneThere, HasCodes
  <2>7. QED
    BY <1>1, <1>2, <2>2, <2>6, OneReduced DEF Observed
<1>10. QED
  BY <1>8, <1>9

LEMMA OneReady ==
  ASSUME NEW a \in Accumulator, OneThere(a)
  PROVE  LET x == SetToReady(a)
         IN  x \in Accumulator /\ x.phase = "Ready" /\ OneThere(x)
<1> DEFINE x == SetToReady(a)
<1>1. /\ x \in Accumulator /\ x.phase = "Ready" /\ x.blocks = a.blocks \ a.recovering
      /\ Cleared(x, a, a.recovering) /\ x.finRuntime = a.finRuntime
  BY SetToReadyFacts
<1> HIDE DEF x
<1>2. HasCodes(x)
  BY <1>1, CodesCleared DEF OneThere
<1>3. QED
  BY <1>1, <1>2 DEF OneThere, x

LEMMA OneBestBlock ==
  ASSUME StopsInv, RuntimeInv, InTime, NEW b \in Block, BestBlockChanged(b)
  PROVE  RuntimeInv'
<1> DEFINE c == BestOf(acc, b)
           x == OnBestBlockChanged(acc, b)
<1>1. Reduce(x, pinned)
  BY DEF BestBlockChanged
<1>2. Observed /\ OneThere(acc) /\ acc \in Accumulator
  BY OneFacts
<1>3. /\ c \in Accumulator /\ c.phase = acc.phase /\ c.blocks = acc.blocks
      /\ c.runtime = acc.runtime /\ c.usages = acc.usages /\ c.finRuntime = acc.finRuntime
      /\ x = IF acc.phase = "RecoveringFin" THEN acc
             ELSE IF acc.phase = "Initializing" THEN SetToReady(c) ELSE c
  BY <1>2, BestFacts
<1> HIDE DEF x, c
<1>4. OneThere(c)
  BY <1>2, <1>3 DEF OneThere, HasCodes
<1>5. x \in Accumulator /\ x.phase # "Failed" /\ OneThere(x)
  BY <1>2, <1>3, <1>4, OneReady DEF Observed
<1>6. QED
  BY <1>1, <1>5, OneReduced

LEMMA OneFinalize ==
  ASSUME OneRuntime, StopsInv, RuntimeInv, InTime, NEW b \in Block, Finalize(b)
  PROVE  RuntimeInv'
<1> DEFINE gone == NewlyPruned(b)
           c == FinalizedOf(acc, b, gone)
           x == OnFinalized(acc, b, gone)
<1>1. /\ session \in Live /\ session # "none" /\ b \in seen /\ Below(sFinalized, b)
      /\ Reduce(x, pinned)
  BY DEF Finalize, Known, Live
<1>2. /\ Observed /\ OneThere(acc) /\ acc \in Accumulator /\ Served /\ Phased /\ Based /\ Timely
      /\ Code[Genesis] \in Codes
  BY OneFacts
<1>3. acc.phase = "Ready" /\ ~Idle /\ acc.best = sBest /\ acc.finalized = sFinalized
  BY <1>1, <1>2 DEF Phased, Timely, Based, Idle
<1>4. b \in acc.blocks /\ acc.best \in acc.blocks
  BY <1>1, <1>2, <1>3 DEF Based, Served, Below
<1>5. /\ c \in Accumulator /\ c.finRuntime = FinalizedRuntime(acc, b)
      /\ c.phase = acc.phase /\ c.blocks = acc.blocks
      /\ c.runtime = acc.runtime /\ c.usages = acc.usages
      /\ x = IF b \notin acc.blocks THEN Fail(acc)
             ELSE IF acc.phase = "RecoveringFin" /\ Height[b] < acc.target THEN acc
             ELSE IF acc.best \notin acc.blocks THEN Fail(acc)
             ELSE IF acc.phase = "RecoveringFin" THEN SetToReady(c) ELSE c
  <2>1. seen \subseteq Block
    BY <1>2, StopsFacts
  <2>2. gone \in SUBSET Block
    BY <2>1 DEF NewlyPruned
  <2> HIDE DEF gone
  <2>3. QED
    BY <1>2, <2>2, FinalizedFacts
<1> HIDE DEF x, c
<1>6. x = c
  BY <1>3, <1>4, <1>5
<1>7. c.finRuntime = Code[Genesis]
  <2>1. acc.runtime[b] = Code[Genesis] /\ b \in acc.usages[Code[Genesis]]
    BY <1>2, <1>4 DEF OneThere, HasCodes, OneRuntime
  <2>2. QED
    BY <1>5, <2>1 DEF FinalizedRuntime
<1>8. OneThere(c)
  BY <1>2, <1>5, <1>7 DEF OneThere, HasCodes
<1>9. QED
  BY <1>1, <1>3, <1>5, <1>6, <1>8, OneReduced

LEMMA OneStop ==
  ASSUME StopsInv, RuntimeInv, InTime, Stop
  PROVE  RuntimeInv'
<1> DEFINE x == OnStop(acc)
<1>1. Reduce(x, {})
  BY DEF Stop
<1>2. Observed /\ OneThere(acc) /\ acc \in Accumulator
  BY OneFacts
<1>3. x \in Accumulator /\ x.phase # "Failed"
  BY <1>2, StopFacts
<1>4. OneThere(x)
  <2>1. CASE acc.phase = "Initializing"
    <3>1. x = ResetState(acc)
      BY <2>1 DEF OnStop
    <3>2. x.blocks = {} /\ \A c \in Codes : x.usages[c] = {}
      BY <1>2, <3>1, ResetFacts, ResetTells
    <3> HIDE DEF x
    <3>3. QED
      BY <3>2 DEF OneThere, HasCodes
  <2>2. CASE acc.phase # "Initializing"
    <3>1. x = [acc EXCEPT !.phase = "RecoveringInit", !.pending = <<>>,
                          !.target = -1, !.recovering = acc.blocks]
      BY <2>2 DEF OnStop
    <3> HIDE DEF x
    <3>2. /\ x.blocks = acc.blocks /\ x.runtime = acc.runtime /\ x.usages = acc.usages
          /\ x.finRuntime = acc.finRuntime
      BY <1>2, <3>1 DEF Accumulator
    <3>3. QED
      BY <1>2, <3>2 DEF OneThere, HasCodes
  <2>3. QED
    BY <2>1, <2>2
<1> HIDE DEF x
<1>5. QED
  BY <1>1, <1>3, <1>4, OneReduced

LEMMA OneUnpin ==
  ASSUME NEW a \in Accumulator, OneThere(a), NEW targets \in SUBSET Block
  PROVE  LET x == TryToUnpin(a, targets)
         IN  x \in Accumulator /\ x.phase = a.phase /\ OneThere(x)
<1> DEFINE x == TryToUnpin(a, targets)
           gone == {b \in targets : Unpinnable(a, b)}
<1>1. /\ x \in Accumulator /\ x.phase = a.phase /\ x.blocks = a.blocks \ gone
      /\ Cleared(x, a, gone) /\ x.finRuntime = a.finRuntime
  BY UnpinFacts
<1> HIDE DEF x, gone
<1>2. HasCodes(x)
  BY <1>1, CodesCleared DEF OneThere
<1>3. QED
  BY <1>1, <1>2 DEF OneThere, x

LEMMA OneUsage ==
  ASSUME NEW a \in Accumulator, OneThere(a), NEW b \in Block, NEW delta \in Int
  PROVE  LET x == OnBlockUsage(a, b, delta)
         IN  x \in Accumulator /\ x.phase = a.phase /\ OneThere(x)
<1> DEFINE c == UsedBy(a, b, delta)
           x == OnBlockUsage(a, b, delta)
           t == TryToUnpin(c, {b})
<1>1. /\ c \in Accumulator /\ c.phase = a.phase /\ c.blocks = a.blocks
      /\ c.runtime = a.runtime /\ c.usages = a.usages /\ c.finRuntime = a.finRuntime
      /\ x = IF b \notin a.blocks THEN a ELSE t
  BY UsageFacts
<1> HIDE DEF c
<1>2. OneThere(c) /\ {b} \in SUBSET Block
  BY <1>1 DEF OneThere, HasCodes
<1>3. t \in Accumulator /\ t.phase = c.phase /\ OneThere(t)
  BY <1>1, <1>2, OneUnpin
<1> HIDE DEF t, x
<1>4. QED
  BY <1>1, <1>3 DEF x

LEMMA OneQuiet ==
  ASSUME RuntimeInv, UNCHANGED <<acc, mishaps>>
  PROVE  RuntimeInv'
BY DEF RuntimeInv, InTime, Observed, HasCodes

LEMMA OneStep == OneRuntime /\ StopsInv /\ RuntimeInv /\ [Next]_vars => RuntimeInv'
<1> SUFFICES ASSUME OneRuntime, StopsInv, RuntimeInv, [Next]_vars PROVE RuntimeInv'
  OBVIOUS
<1>1. CASE UNCHANGED vars
  BY <1>1, OneQuiet DEF vars
<1>2. CASE ~InTime
  <2>1. ~InTime'
    BY <1>1, <1>2 DEF InTime, Next, Server, User, Initialize, NewBlock, BestBlockChanged, Finalize,
                       Stop, CleanUp, Hold, Release, ReleaseFires, vars
  <2>2. QED
    BY <2>1 DEF RuntimeInv
<1>3. CASE InTime /\ Next
  <2>1. Observed /\ OneThere(acc) /\ acc \in Accumulator /\ acc.blocks \subseteq Block
    BY <1>3, OneFacts
  <2>2. ASSUME NEW b \in Block, NEW n \in 1 .. MaxWindow, Initialize(b, n) PROVE RuntimeInv'
    BY <1>3, <2>2, OneInitialize
  <2>3. ASSUME NEW b \in Block, NewBlock(b) PROVE RuntimeInv'
    BY <1>3, <2>3, OneNewBlock
  <2>4. ASSUME NEW b \in Block, BestBlockChanged(b) PROVE RuntimeInv'
    BY <1>3, <2>4, OneBestBlock
  <2>5. ASSUME NEW b \in Block, Finalize(b) PROVE RuntimeInv'
    BY <1>3, <2>5, OneFinalize
  <2>6. CASE Stop
    BY <1>3, <2>6, OneStop
  <2>7. CASE CleanUp
    <3>1. Reduce(TryToUnpin(acc, acc.blocks), pinned)
      BY <2>7 DEF CleanUp
    <3>2. LET x == TryToUnpin(acc, acc.blocks)
          IN  x \in Accumulator /\ x.phase = acc.phase /\ OneThere(x)
      BY <2>1, OneUnpin
    <3>3. QED
      BY <2>1, <3>1, <3>2, OneReduced DEF Observed
  <2>8. ASSUME NEW b \in Held, Hold(b) \/ Release(b) \/ ReleaseFires(b) PROVE RuntimeInv'
    <3>1. b \in Block
      BY BoundsAssumption
    <3>2. CASE Release(b)
      BY <3>2, OneQuiet DEF Release
    <3>3. ASSUME NEW delta \in {1, -1}, Reduce(OnBlockUsage(acc, b, delta), pinned)
          PROVE  RuntimeInv'
      <4>1. LET x == OnBlockUsage(acc, b, delta)
            IN  x \in Accumulator /\ x.phase = acc.phase /\ OneThere(x)
        BY <2>1, <3>1, OneUsage
      <4>2. QED
        BY <2>1, <3>3, <4>1, OneReduced DEF Observed
    <3>4. QED
      BY <2>8, <3>2, <3>3 DEF Hold, ReleaseFires
  <2>9. QED
    BY <1>3, <2>2, <2>3, <2>4, <2>5, <2>6, <2>7, <2>8 DEF Next, Server, User
<1>4. QED
  BY <1>1, <1>2, <1>3

LEMMA StopsSurvive == StopsInv /\ RuntimeInv => StopsAreSurvived
<1> SUFFICES ASSUME StopsInv, RuntimeInv PROVE StopsAreSurvived
  OBVIOUS
<1>1. TypeOK
  BY DEF StopsInv, PinsInv
<1>2. NeverThrows
  BY DEF RuntimeInv, NeverThrows
<1>3. QED
  BY <1>1, <1>2, StopsChain DEF StopsAreSurvived

\* After any stop nothing that is read is missing: on a chain without upgrades no
\* handler throws, and the walk from the best block to the finalized one finds
\* every block, unless a subscription was behind the previous one.
THEOREM StopsStaySurvived ==
  ASSUME OneRuntime
  PROVE  Spec => []StopsAreSurvived
<1>1. Init => StopsInv /\ RuntimeInv
  BY StopsStart, OneStart
<1>2. StopsInv /\ RuntimeInv /\ [Next]_vars => StopsInv' /\ RuntimeInv'
  BY StopsStep, OneStep
<1>3. QED
  BY <1>1, <1>2, StopsSurvive, PTL DEF Spec

\* On any chain, upgrades included, what the walk from the best block to the
\* finalized one reads is there after any stop, unless a subscription was behind.
THEOREM BestChainStaysThere == Spec => []BestChainIsThere
<1>1. Spec => []BestChainIsThere
  BY StopsInvariant, StopsChain, PTL
<1>2. QED
  BY <1>1
===============================================================================
