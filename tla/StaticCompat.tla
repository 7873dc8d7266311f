----------------------------- MODULE StaticCompat -----------------------------
(***************************************************************************)
(* isStaticCompatible (metadata-compatibility): how much of what the types *)
(* of one runtime can hold another runtime accepts. It walks two graphs of *)
(* types at once, depth first, answers "Identical" for a pair it is still  *)
(* comparing, and caches what does not depend on such an assumption. The   *)
(* list of changes that explains a level is left out. isCompatible tells   *)
(* of one value whether it is accepted: the client asks it where the level *)
(* alone does not.                                                         *)
(***************************************************************************)
EXTENDS Integers, Sequences, SequencesExt, FiniteSets, FiniteSetsExt, TLC

CONSTANTS NNodes,      \* types of a runtime, which are its nodes 1 .. NNodes
          NodeForms,   \* what each type may be: [type, of, len, value]
          MaxDepth,    \* how deep a value may be
          MaxChanges,  \* types that are not the same in the other runtime
          MaxQueries   \* comparisons that are made

\* CompatibilityLevel
Incompatible == 0
Partial      == 1
Backwards    == 2
Identical    == 3
Levels       == Incompatible .. Identical

Undefined == 0      \* no node, or no length
Open      == -1     \* null in the cache: the pair is being compared

VARIABLES
    origin, dest,   \* the two graphs
    cache,          \* CompatibilityCache, from pairs to levels
    shared,         \* noAssumptions, which strictMerge and mergeResults add to
    answers         \* what was answered

compatVars == <<origin, dest, cache, shared, answers>>

-------------------------------------------------------------------------------
(***************************************************************************)
(* What the level of a pair is made of: the parts, levels or pairs of      *)
(* nodes, and how they are put together.                                   *)
(***************************************************************************)
Fixed(l)   == [fixed |-> TRUE, level |-> l, pair |-> <<Undefined, Undefined>>]
Pair(o, d) == [fixed |-> FALSE, level |-> Identical, pair |-> <<o, d>>]

Rule(how, parts, least, most) ==
    [how |-> how, parts |-> parts, least |-> least, most |-> most]

Always(l) == Rule("strict", <<Fixed(l)>>, l, l)

\* Mutant: shorter is better.
LengthLevelSwapped(o, d) ==
    IF o = d THEN Identical
    ELSE IF d = Undefined \/ (o # Undefined /\ o <= d) THEN Backwards
    ELSE IF o = Undefined THEN Partial
    ELSE Incompatible

\* compareOptionalLengths
LengthLevel(o, d) ==
    IF o = d THEN Identical
    ELSE IF d = Undefined \/ (o # Undefined /\ o >= d) THEN Backwards
    ELSE IF o = Undefined THEN Partial
    ELSE Incompatible

\* compareArrayLengths
ItemsLevel(o, d) ==
    IF o = d THEN Identical ELSE IF o > d THEN Backwards ELSE Incompatible

At(f, k) == IF k \in DOMAIN f THEN f[k] ELSE Undefined

InOrder(S) == SetToSortSeq(S, LAMBDA a, b : a < b)

SameSize(f, g) == Cardinality(DOMAIN f) = Cardinality(DOMAIN g)

RuleOf(o, d) ==
    LET on == origin[o]
        dn == dest[d]
        eachOf(f) == [i \in 1 .. Cardinality(DOMAIN f) |-> InOrder(DOMAIN f)[i]]
    IN
    IF on.type # dn.type THEN
        CASE dn.type = "option" ->
                Rule("only", <<Pair(o, dn.of)>>, Incompatible, Backwards)
          [] dn.type # "option" /\ on.type = "option" ->
                Rule("only", <<Pair(on.of, d)>>, Incompatible, Partial)
          [] OTHER -> Always(Incompatible)
    ELSE
        CASE dn.type = "terminal" ->
                Always(IF on.value = dn.value THEN Identical ELSE Incompatible)
          [] dn.type = "binary" -> Always(LengthLevel(on.len, dn.len))
          [] dn.type = "array" ->
                Rule("strict", <<Fixed(LengthLevel(on.len, dn.len)), Pair(on.of, dn.of)>>,
                     Incompatible, Identical)
          [] dn.type = "option" ->
                Rule("only", <<Pair(on.of, dn.of)>>, Partial, Identical)
          [] dn.type = "struct" ->
                Rule("strict",
                     [i \in DOMAIN eachOf(dn.of) |->
                        Pair(At(on.of, eachOf(dn.of)[i]), dn.of[eachOf(dn.of)[i]])],
                     Incompatible,
                     IF SameSize(on.of, dn.of) THEN Identical ELSE Backwards)
          [] dn.type = "tuple" ->
                Rule("strict",
                     <<Fixed(ItemsLevel(Len(on.of), Len(dn.of)))>>
                        \o [i \in DOMAIN dn.of |-> Pair(At(on.of, i), dn.of[i])],
                     Incompatible, Identical)
          [] dn.type = "enum" ->
                Rule("merge",
                     [i \in DOMAIN eachOf(on.of) |->
                        LET k == eachOf(on.of)[i]
                        IN  IF k \in DOMAIN dn.of THEN Pair(on.of[k], dn.of[k])
                            ELSE Fixed(Incompatible)],
                     Incompatible,
                     IF SameSize(on.of, dn.of) THEN Identical ELSE Backwards)
          [] dn.type = "result" ->
                Rule("both", [i \in 1 .. 2 |-> Pair(on.of[i], dn.of[i])],
                     Incompatible, Identical)

\* withMaxLevel and withMinLevel
Clamp(rule, l) == Min({Max({l, rule.least}), rule.most})

\* A node on one side only.
MissingLevel(o, d) ==
    IF d = Undefined
    THEN IF o = Undefined THEN Identical ELSE Backwards
    ELSE IF dest[d].type = "option" THEN Backwards ELSE Incompatible

-------------------------------------------------------------------------------
(***************************************************************************)
(* A result has the set of pairs it assumes to be Identical: one of its    *)
(* own, or the set noAssumptions, which is shared by all the others. `mem` *)
(* is what outlives a call: the cache and that shared set.                 *)
(***************************************************************************)
Result(l, isShared, own, mem) ==
    [level |-> l, isShared |-> isShared, own |-> own, mem |-> mem]

Unconditional(l, mem) == Result(l, TRUE, {}, mem)

Assumed(r, mem) == IF r.isShared THEN mem.shared ELSE r.own

RECURSIVE Compare(_, _, _)

Ask(part, mem) ==
    IF part.fixed THEN Unconditional(part.level, mem)
    ELSE Compare(part.pair[1], part.pair[2], mem)

\* merged.assumptions.addAll
Merged(l, r) ==
    Unconditional(l, [r.mem EXCEPT !.shared = @ \cup Assumed(r, r.mem)])

\* The first incompatible part ends it; what the others assumed is in `shared`.
StrictMerge(parts, mem) ==
    LET step(acc, part) ==
            IF acc.level = Incompatible THEN acc
            ELSE LET r == Ask(part, acc.mem)
                 IN  IF r.level = Incompatible THEN r
                     ELSE Merged(Min({acc.level, r.level}), r)
    IN  FoldLeft(step, Unconditional(Identical, mem), parts)

\* One more part: an incompatible one makes the whole partial at most.
Take(acc, r) ==
    IF r.level = Incompatible
    THEN [acc EXCEPT !.res = Unconditional(Min({@.level, Partial}), r.mem)]
    ELSE [some |-> TRUE, res |-> Merged(Min({acc.res.level, r.level}), r)]

Taken(acc) ==
    IF acc.some THEN acc.res ELSE Unconditional(Incompatible, acc.res.mem)

MergeResults(parts, mem) ==
    LET step(acc, part) == Take(acc, Ask(part, acc.res.mem))
    IN  IF parts = <<>> THEN Unconditional(Identical, mem)
        ELSE Taken(FoldLeft(step, [some |-> FALSE, res |-> Unconditional(Identical, mem)], parts))

\* The two sides of a result are compared before the first one is merged.
MergeBoth(parts, mem) ==
    LET ok == Ask(parts[1], mem)
        ko == Ask(parts[2], ok.mem)
        start == [some |-> FALSE, res |-> Unconditional(Identical, ko.mem)]
        first == Take(start, [ok EXCEPT !.mem = ko.mem])
    IN  Taken(Take(first, [ko EXCEPT !.mem = first.res.mem]))

\* getIsStaticCompatible
Evaluate(o, d, mem) ==
    LET rule == RuleOf(o, d)
        r == CASE rule.how = "strict" -> StrictMerge(rule.parts, mem)
               [] rule.how = "merge"  -> MergeResults(rule.parts, mem)
               [] rule.how = "both"   -> MergeBoth(rule.parts, mem)
               [] rule.how = "only"   -> Ask(rule.parts[1], mem)
    IN  [r EXCEPT !.level = Clamp(rule, @)]

Without(r, p) ==
    IF r.isShared THEN [r EXCEPT !.mem.shared = @ \ {p}]
    ELSE [r EXCEPT !.own = @ \ {p}]

Put(f, p, l) == [x \in DOMAIN f \cup {p} |-> IF x = p THEN l ELSE f[x]]
Drop(f, p)   == [x \in DOMAIN f \ {p} |-> f[x]]

\* Mutant: what assumes that an open pair is Identical is kept as well.
CompareKeepsAll(o, d, mem) ==
    LET p == <<o, d>> IN
    IF Undefined \in {o, d} THEN Unconditional(MissingLevel(o, d), mem)
    ELSE IF p \in DOMAIN mem.cache THEN
        IF mem.cache[p] = Open THEN Result(Identical, FALSE, {p}, mem)
        ELSE Unconditional(mem.cache[p], mem)
    ELSE
        LET r == Without(Evaluate(o, d, [mem EXCEPT !.cache = Put(@, p, Open)]), p)
        IN  [r EXCEPT !.mem.cache = Put(@, p, r.level)]

Compare(o, d, mem) ==
    LET p == <<o, d>> IN
    IF Undefined \in {o, d} THEN Unconditional(MissingLevel(o, d), mem)
    ELSE IF p \in DOMAIN mem.cache THEN
        IF mem.cache[p] = Open THEN Result(Identical, FALSE, {p}, mem)
        ELSE Unconditional(mem.cache[p], mem)
    ELSE
        LET r == Without(Evaluate(o, d, [mem EXCEPT !.cache = Put(@, p, Open)]), p)
        IN  IF Assumed(r, r.mem) = {} \/ r.level = Incompatible
            THEN [r EXCEPT !.mem.cache = Put(@, p, r.level)]
            ELSE [r EXCEPT !.mem.cache = Drop(@, p)]

-------------------------------------------------------------------------------
(***************************************************************************)
(* Values. A property that is not there is undefined, which is as good as  *)
(* null here.                                                              *)
(***************************************************************************)
Val(kind, of) == [kind |-> kind, of |-> of]
Null          == Val("null", <<>>)

Property(v, k) ==
    IF v.kind \in {"object", "array"} /\ k \in DOMAIN v.of THEN v.of[k] ELSE Null

\* isCompatible: a void is accepted whatever it is, of a longer array its beginning.
RECURSIVE Accepts(_, _)
Accepts(v, d) ==
    LET dn == dest[d] IN
    CASE dn.type = "terminal" -> v = Val("primitive", <<dn.value>>) \/ dn.value = "void"
      [] dn.type = "binary" -> v.kind = IF dn.len = Undefined THEN "bytes" ELSE "hex"
      [] dn.type = "array" ->
            /\ v.kind = "array"
            /\ LET n == IF dn.len = Undefined THEN Len(v.of) ELSE dn.len
               IN  n <= Len(v.of) /\ \A i \in 1 .. n : Accepts(v.of[i], dn.of)
      [] dn.type = "option" -> v = Null \/ Accepts(v, dn.of)
      [] dn.type \in {"struct", "tuple"} ->
            v # Null /\ \A k \in DOMAIN dn.of : Accepts(Property(v, k), dn.of[k])
      [] dn.type = "enum" ->
            v.kind = "enum" /\ v.of[1] \in DOMAIN dn.of /\ Accepts(v.of[2], dn.of[v.of[1]])
      [] dn.type = "result" -> v.kind = "result" /\ Accepts(v.of[2], dn.of[v.of[1]])

\* isValueCompatible of a value: nothing is looked at above Partial, and nothing is
\* accepted below.
ValueHelper(l, v, d) ==
    CASE l = Incompatible -> FALSE [] l = Partial -> Accepts(v, d) [] l > Partial -> TRUE

-------------------------------------------------------------------------------
Pairs == (DOMAIN origin) \X (DOMAIN dest)

\* The choices of one form for each of these types.
Runtimes(nodes) ==
    {f \in [nodes -> UNION {NodeForms[i] : i \in nodes}] : \A i \in nodes : f[i] \in NodeForms[i]}

CompatInit ==
    /\ origin \in Runtimes(1 .. NNodes)
    /\ \E changed \in SUBSET (1 .. NNodes) :
          /\ Cardinality(changed) <= MaxChanges
          /\ \E f \in Runtimes(changed) : dest = f @@ origin
    /\ cache = <<>>
    /\ shared = {}
    /\ answers = <<>>

\* One entry point of the runtime is compared.
Query(p) ==
    /\ Cardinality(DOMAIN answers) < MaxQueries
    /\ p \notin DOMAIN answers
    /\ LET r == Compare(p[1], p[2], [cache |-> cache, shared |-> shared])
       IN  /\ cache' = r.mem.cache
           /\ shared' = r.mem.shared
           /\ answers' = Put(answers, p, r.level)
    /\ UNCHANGED <<origin, dest>>

CompatNext == \E p \in Pairs : Query(p)

-------------------------------------------------------------------------------
(***************************************************************************)
(* What the levels should be: the greatest ones that obey the rules, since *)
(* a cycle is as compatible as what else is on it.                         *)
(***************************************************************************)
LevelFrom(part, levels) ==
    IF part.fixed THEN part.level
    ELSE IF Undefined \in {part.pair[1], part.pair[2]}
         THEN MissingLevel(part.pair[1], part.pair[2])
    ELSE levels[part.pair]

\* The least of the parts for a conjunction; for the values of an enum or of
\* a result, partial as soon as some but not all of them are accepted.
ByRule(p, levels) ==
    LET rule == RuleOf(p[1], p[2])
        ls   == {LevelFrom(rule.parts[i], levels) : i \in DOMAIN rule.parts}
        all  == Min(ls \cup {Identical})
    IN  Clamp(rule, IF rule.how \in {"merge", "both"} /\ ls # {Incompatible} /\ Incompatible \in ls
                    THEN Min({Partial} \cup (ls \ {Incompatible}))
                    ELSE all)

RECURSIVE Lower(_)
Lower(levels) ==
    LET next == [p \in Pairs |-> ByRule(p, levels)]
    IN  IF next = levels THEN levels ELSE Lower(next)

Greatest == Lower([p \in Pairs |-> Identical])

\* Whatever was compared before, and however the cycles of the two graphs cross:
\* the single visit of a pair, with "Identical" for the pairs that are still open,
\* gives the greatest level, nothing else is left in the cache, and no pair stays
\* assumed in the set that all results share, which would end all caching.
LevelsAreGreatest ==
    LET greatest == Greatest IN
    /\ \A p \in DOMAIN answers : answers[p] = greatest[p]
    /\ \A p \in DOMAIN cache : cache[p] = greatest[p]
    /\ shared = {}

\* The values of a type of the runtime they come from.
RECURSIVE ValuesOf(_, _)
ValuesOf(o, depth) ==
    LET on == origin[o]
        fields == {f \in [DOMAIN on.of -> UNION {ValuesOf(on.of[k], depth - 1) : k \in DOMAIN on.of}] :
                      \A k \in DOMAIN on.of : f[k] \in ValuesOf(on.of[k], depth - 1)}
    IN  CASE on.type = "terminal" -> {Val("primitive", <<on.value>>)}
          [] on.type = "binary" -> {Val(IF on.len = Undefined THEN "bytes" ELSE "hex", <<>>)}
          [] on.type = "option" -> {Null} \cup IF depth = 0 THEN {} ELSE ValuesOf(on.of, depth - 1)
          [] on.type \in {"array", "struct", "tuple", "enum", "result"} /\ depth = 0 -> {}
          [] on.type = "array" /\ depth > 0 ->
                {Val("array", s) : s \in UNION {[1 .. n -> ValuesOf(on.of, depth - 1)] :
                                         n \in IF on.len = Undefined THEN 0 .. 2 ELSE {on.len}}}
          [] on.type \in {"struct", "tuple"} /\ depth > 0 ->
                {Val(IF on.type = "struct" THEN "object" ELSE "array", f) : f \in fields}
          [] on.type \in {"enum", "result"} /\ depth > 0 ->
                UNION {{Val(on.type, <<k, v>>) : v \in ValuesOf(on.of[k], depth - 1)} : k \in DOMAIN on.of}

\* Bytes of a fixed length are text and the others are not: isStaticCompatible takes the
\* ones for backwards compatible with the others, isCompatible does not accept them.
TextForBytes ==
    \E p \in Pairs : /\ origin[p[1]].type = "binary" /\ origin[p[1]].len # Undefined
                     /\ dest[p[2]].type = "binary" /\ dest[p[2]].len = Undefined

\* The client does not look at a value where the level of its type is above Partial:
\* every value of the type would be accepted.
LevelsSpeakForValues ==
    Cardinality(DOMAIN answers) = 1 /\ ~TextForBytes =>
        \A p \in DOMAIN answers : answers[p] > Partial =>
            \A v \in ValuesOf(p[1], MaxDepth) : ValueHelper(answers[p], v, p[2]) <=> Accepts(v, p[2])

\* A level is what a comparison of the two graphs and of their values gives.
LevelsAreRight == LevelsAreGreatest /\ LevelsSpeakForValues
===============================================================================
