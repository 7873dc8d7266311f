---------------------------- MODULE TypeChecksums ----------------------------
(***************************************************************************)
(* getChecksumBuilder (metadata-builders): one checksum for each type of a *)
(* runtime, equal for equal types, although types refer to each other in   *)
(* cycles. The hash is taken to be injective: a checksum is the tree that  *)
(* was hashed. Types are numbered as in the metadata, pointers resolved.   *)
(***************************************************************************)
EXTENDS Naturals, Sequences, SequencesExt, FiniteSets, FiniteSetsExt, TLC

CONSTANTS NTypes,   \* types 1 .. NTypes
          Forms     \* what a type may be: [label, refs]

Types == 1 .. NTypes

VARIABLES
    types,      \* the metadata: the form of each type
    subgraphs,  \* subgraphCache: the nodes around a type, in the order found
    checksums,  \* cache: the checksums that were kept
    given       \* those that were asked for

sumVars == <<types, subgraphs, checksums, given>>

-------------------------------------------------------------------------------
(***************************************************************************)
(* The graph (buildLookupGraph): the edges of a node in the order in which *)
(* they are added.                                                         *)
(***************************************************************************)
Refs(i) == types[i].refs

BackRefs(i) == SelectSeq([k \in Types |-> k], LAMBDA k : Contains(Refs(k), i))

\* _getSubgraph
RECURSIVE Visit(_, _)
Visit(seen, i) ==
    IF Contains(seen, i) THEN seen
    ELSE FoldLeft(Visit, Append(seen, i), Refs(i) \o BackRefs(i))

\* getSubgraph: whoever asks first in a connected part fixes its order.
SubgraphOf(i) == IF i \in DOMAIN subgraphs THEN subgraphs[i] ELSE Visit(<<>>, i)

RECURSIVE Reachable(_)
Reachable(S) ==
    LET more == S \cup UNION {ToSet(Refs(i)) : i \in S}
    IN  IF more = S THEN S ELSE Reachable(more)

(***************************************************************************)
(* Tarjan's strongly connected components.                                 *)
(***************************************************************************)
RECURSIVE StrongConnect(_, _)

StrongConnect(s, v) ==
    LET entered == [s EXCEPT !.num = (v :> s.index) @@ @, !.low = (v :> s.index) @@ @,
                             !.index = @ + 1, !.stack = Append(@, v)]
        follow(t, w) ==
            IF w \notin DOMAIN t.num
            THEN LET u == StrongConnect(t, w)
                 IN  [u EXCEPT !.low[v] = Min({@, u.low[w]})]
            ELSE IF Contains(t.stack, w) THEN [t EXCEPT !.low[v] = Min({@, t.num[w]})]
            ELSE t
        left == FoldLeft(follow, entered, Refs(v))
        at == CHOOSE k \in DOMAIN left.stack : left.stack[k] = v
    IN  IF left.low[v] # left.num[v] THEN left
        ELSE [left EXCEPT !.stack = SubSeq(@, 1, at - 1),
                          !.out = Append(@, Reverse(SubSeq(left.stack, at, Len(left.stack))))]

Components(nodes) ==
    LET start == [index |-> 0, num |-> <<>>, low |-> <<>>, stack |-> <<>>, out |-> <<>>]
        each(s, v) == IF v \in DOMAIN s.num THEN s ELSE StrongConnect(s, v)
    IN  FoldLeft(each, start, nodes).out

\* Components of several types, and types that refer to themselves. They have no
\* type in common, so mergeSCCsWithCommonNodes leaves them as they are.
Cycles(nodes) ==
    SelectSeq(Components(nodes), LAMBDA g : Len(g) > 1 \/ Contains(Refs(g[1]), g[1]))

\* sortCyclicGroups: a group comes after the groups it refers to.
RECURSIVE DependentsFirst(_, _, _)
DependentsFirst(sorted, group, groups) ==
    IF Contains(sorted, group) THEN sorted
    ELSE LET others == SelectSeq(groups, LAMBDA g :
                            g # group /\ ToSet(g) \cap Reachable(ToSet(group)) # {})
         IN  Append(FoldLeft(LAMBDA s, g : DependentsFirst(s, g, groups), sorted, others),
                    group)

Sorted(groups) ==
    FoldLeft(LAMBDA s, g : DependentsFirst(s, g, groups), <<>>, groups)

-------------------------------------------------------------------------------
(***************************************************************************)
(* Checksums                                                               *)
(***************************************************************************)
Zero     == <<"0", <<>>>>
Overflow == <<"RangeError", <<>>>>

\* What the runtime type of a primitive is.
ValueOf(label) ==
    CASE label \in {"u8", "u32"} -> "number" [] label = "u64" -> "bigint" [] OTHER -> label

IsBytes(i) == types[i].label = "vector" /\ types[Refs(i)[1]].label = "u8"

\* _buildChecksum, given the checksums of the types this one refers to.
Sum(i, sums) ==
    IF IsBytes(i) THEN <<"bytes", <<>>>>
    ELSE <<ValueOf(types[i].label), [k \in DOMAIN Refs(i) |-> sums[Refs(i)[k]]]>>

\* recursiveBuildChecksum, and getChecksum in buildChecksum
RECURSIVE Value(_, _)
Value(i, known) ==
    IF i \in DOMAIN known THEN known[i]
    ELSE Sum(i, [j \in ToSet(Refs(i)) |-> Value(j, known)])

\* The types outside of a group that its first iteration meets and keeps.
RECURSIVE Outside(_, _)
Outside(S, known) ==
    LET read == UNION {ToSet(Refs(i)) : i \in {j \in S : ~IsBytes(j)}}
        more == S \cup (read \ DOMAIN known)
    IN  IF more = S THEN S ELSE Outside(more, known)

\* What happens if they go in a circle that is not known: the stack overflows.
Endless(S, known) ==
    \E i \in Outside(S, known) \ DOMAIN known :
        i \in Outside(ToSet(Refs(i)) \ DOMAIN known, known)

RECURSIVE Rounds(_, _, _)
Rounds(n, read, known) ==
    IF n = 0 THEN read
    ELSE LET before == read @@ known
         IN  Rounds(n - 1,
                    [i \in DOMAIN read |-> Sum(i, [j \in ToSet(Refs(i)) |-> Value(j, before)])],
                    known)

\* iterateChecksums: all of a group at once, from the checksums of the round before.
Iterate(group, n, known) ==
    LET zero  == [i \in ToSet(group) |-> Zero]
        found == Outside(ToSet(group), zero @@ known) \ ToSet(group)
    IN  [sums  |-> Rounds(n, zero, known),
         known |-> known @@ [i \in found |-> Value(i, zero @@ known)]]

\* Mutant: nothing mirrors anything.
MirroredNever(groups, nodes) == [i \in ToSet(nodes) |-> {i}]

\* getMirroredNodes: types that look alike down to the size of the largest group.
Mirrored(groups, nodes) ==
    LET size == Max({0} \cup {Len(groups[k]) : k \in DOMAIN groups})
        sums == Iterate(nodes, size, <<>>).sums
    IN  [i \in ToSet(nodes) |-> {j \in ToSet(nodes) : sums[j] = sums[i]}]

\* The checksum of a type is kept for all that mirror it.
KeepGroup(acc, group, mirrored) ==
    LET r == Iterate(group, Len(group), acc.known)
        keep(known, i) == [j \in mirrored[i] |-> r.sums[i]] @@ known
    IN  IF acc.thrown \/ group[1] \in DOMAIN acc.known THEN acc
        ELSE IF Endless(ToSet(group), [i \in ToSet(group) |-> Zero] @@ acc.known)
        THEN [acc EXCEPT !.thrown = TRUE]
        ELSE [acc EXCEPT !.known = FoldLeft(keep, r.known, group)]

\* buildChecksum, what it keeps
Kept(known, nodes) ==
    LET groups == SelectSeq(Cycles(nodes), LAMBDA g : g[1] \notin DOMAIN known)
        mirrored == Mirrored(groups, nodes)
    IN  FoldLeft(LAMBDA acc, g : KeepGroup(acc, g, mirrored),
                 [known |-> known, thrown |-> FALSE], Sorted(groups))

Answer(i, kept) ==
    IF kept.thrown \/ Endless({i}, kept.known) THEN Overflow ELSE Value(i, kept.known)

-------------------------------------------------------------------------------
SumInit ==
    /\ types \in {f \in [Types -> Forms] : \A i \in Types : ToSet(f[i].refs) \subseteq Types}
    /\ subgraphs = <<>>
    /\ checksums = <<>>
    /\ given = <<>>

BuildDefinition(i) ==
    /\ i \notin DOMAIN given
    /\ IF i \in DOMAIN checksums
       THEN /\ given' = (i :> checksums[i]) @@ given
            /\ UNCHANGED <<checksums, subgraphs>>
       ELSE LET kept == Kept(checksums, SubgraphOf(i)) IN
            /\ subgraphs' = [j \in ToSet(SubgraphOf(i)) |-> SubgraphOf(i)] @@ subgraphs
            /\ checksums' = kept.known
            /\ given' = (i :> Answer(i, kept)) @@ given
    /\ UNCHANGED types

SumNext == \E i \in Types : BuildDefinition(i)

-------------------------------------------------------------------------------
\* The cyclic groups are made of the classes of types that reach each other:
\* Tarjan's algorithm finds each of them once, from wherever it starts.
CyclesAreRight ==
    \A i \in DOMAIN subgraphs :
        LET found == Components(subgraphs[i]) IN
        /\ {ToSet(found[k]) : k \in DOMAIN found} =
              {{b \in Reachable({a}) : a \in Reachable({b})} : a \in ToSet(subgraphs[i])}
        /\ Len(found) = Cardinality({ToSet(found[k]) : k \in DOMAIN found})

\* Types are the same if they look alike to any depth.
RECURSIVE Depth(_)
Depth(n) ==
    IF n = 0 THEN [i \in Types |-> Zero]
    ELSE LET above == Depth(n - 1) IN [i \in Types |-> Sum(i, above)]

SameType(i, j) == LET depth == Depth(NTypes) IN depth[i] = depth[j]

\* Two types around i that look alike down to the size of the largest cycle are
\* the same, as getMirroredNodes takes for granted.
MirroredAreSame(i) ==
    LET nodes  == Visit(<<>>, i)
        mirrored == Mirrored(Cycles(nodes), nodes)
    IN  Cycles(nodes) # <<>> =>
            \A a \in ToSet(nodes) : \A b \in mirrored[a] : SameType(a, b)

\* If so, types that are connected have the same checksum exactly if they are the
\* same, in whatever cycles they are and whatever was asked before, and no
\* cycle is left out, in which the computation would not end.
ChecksumsTellTypes ==
    /\ CyclesAreRight
    /\ \A i, j \in DOMAIN given :
           MirroredAreSame(i) /\ j \in ToSet(Visit(<<>>, i)) =>
               /\ given[i] # Overflow
               /\ given[i] = given[j] <=> SameType(i, j)

\* It should be so without that condition.
DifferentGetDifferent ==
    \A i, j \in DOMAIN given : given[i] = given[j] => SameType(i, j)
===============================================================================
