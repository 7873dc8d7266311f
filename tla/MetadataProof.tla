---------------------------- MODULE MetadataProof ----------------------------
(***************************************************************************)
(* merkleizeMetadata: the digest of a metadata (RFC 78) is the root of a   *)
(* tree over the types an extrinsic can reach; the proof of an extrinsic   *)
(* discloses the types that decode it, and the hashes of the rest. A hash  *)
(* is what was hashed: it is taken to be injective. An input is a sequence *)
(* of numbers, one for each value that is read at once.                    *)
(***************************************************************************)
EXTENDS Integers, Sequences, SequencesExt, FiniteSets, FiniteSetsExt

CONSTANTS NDefs,        \* the types of the metadata are 1 .. NDefs
          Definitions,  \* what each of them may be
          Extrinsics,   \* the types of an extrinsic: [address, call, signature, extensions]
          Inputs        \* the extrinsics and payloads to prove

VARIABLES
    definitions,  \* metadata.lookup
    extrinsic,    \* metadata.extrinsic
    lookup,       \* the leaves: the reachable types, one leaf for each variant
    outcome,      \* "new", "built", "proved", or "refused" when something threw
    request,      \* what is proved: the types it has, in order, and its bytes
    proof         \* [leaves, leafIdxs, proofs]

merkleVars == <<definitions, extrinsic, lookup, outcome, request, proof>>

-------------------------------------------------------------------------------
(***************************************************************************)
(* The types an extrinsic can reach (getAccessibleTypes)                   *)
(***************************************************************************)
Stored(d) ==
    \/ d.tag \in {"sequence", "array", "bitSequence"}
    \/ d.tag \in {"composite", "tuple"} /\ d.of # <<>>
    \/ d.tag = "variant" /\ d.variants # <<>>

\* The inner types of a compact and of a bit sequence are not stored.
Inner(d) ==
    CASE d.tag \in {"composite", "tuple", "sequence", "array"} -> d.of
      [] d.tag = "variant" -> FlattenSeq([v \in DOMAIN d.variants |-> d.variants[v].fields])
      [] OTHER -> <<>>

RECURSIVE Collect(_, _)
Collect(found, id) ==
    IF id \in found \/ ~Stored(definitions[id]) THEN found
    ELSE FoldLeft(Collect, found \cup {id}, Inner(definitions[id]))

AccessibleTypes ==
    FoldLeft(Collect, {},
             <<extrinsic.call, extrinsic.address, extrinsic.signature>>
             \o FlattenSeq([e \in DOMAIN extrinsic.extensions |->
                    <<extrinsic.extensions[e].type, extrinsic.extensions[e].additional>>]))

\* Reachable types are numbered in the order of the metadata.
TypeId(id) == Cardinality({i \in AccessibleTypes : i < id})

-------------------------------------------------------------------------------
(***************************************************************************)
(* The leaves (getTypeRef, getLookup)                                      *)
(***************************************************************************)
\* getPrimitive: "none" where it throws, also for a type that contains itself.
RECURSIVE Primitive(_, _)
Primitive(id, seen) ==
    LET d == definitions[id]
    IN  CASE d.tag = "primitive" -> d.name
          [] d.tag \in {"composite", "tuple"} /\ d.of = <<>> -> "void"
          [] d.tag \in {"composite", "tuple"} /\ Len(d.of) = 1 /\ id \notin seen ->
                 Primitive(d.of[1], seen \cup {id})
          [] OTHER -> "none"

\* What a Compact may be of, and what a bit sequence may be stored in.
Unsigned == {"u8", "u32"}

TypeRef(id) ==
    LET d == definitions[id]
    IN  CASE d.tag = "primitive" -> [tag |-> d.name]
          [] d.tag = "compact" ->
                 [tag |-> IF Primitive(d.of[1], {}) = "void" THEN "void" ELSE "compact"]
          [] id \in AccessibleTypes -> [tag |-> "perId", value |-> TypeId(id)]
          [] OTHER -> [tag |-> "void"]

TypeRefs(ids) == [k \in DOMAIN ids |-> TypeRef(ids[k])]

\* constructTypeDef: a leaf for a type, one for each variant of an enumeration.
\* getLookup then sorts the variants by their index.
LeavesOf(id) ==
    LET d == definitions[id]
    IN  CASE d.tag = "variant" ->
               LET inOrder == SortSeq(d.variants, LAMBDA v, w : v.index < w.index)
               IN  [v \in DOMAIN inOrder |->
                       [typeId |-> TypeId(id), tag |-> "enumeration",
                        index |-> inOrder[v].index, of |-> TypeRefs(inOrder[v].fields)]]
          [] d.tag = "array" ->
               <<[typeId |-> TypeId(id), tag |-> "array", len |-> d.len, of |-> TypeRefs(d.of)]>>
          [] d.tag = "bitSequence" -> <<[typeId |-> TypeId(id), tag |-> "bitSequence"]>>
          [] OTHER -> <<[typeId |-> TypeId(id), tag |-> d.tag, of |-> TypeRefs(d.of)]>>

Lookup ==
    LET ids == SetToSortSeq(AccessibleTypes, LAMBDA a, b : a < b)
    IN  FlattenSeq([k \in DOMAIN ids |-> LeavesOf(ids[k])])

\* The types whose reference is made: those of the extrinsic and of the leaves.
Referred ==
    {extrinsic.call, extrinsic.address, extrinsic.signature}
    \cup UNION {{e.type, e.additional} : e \in ToSet(extrinsic.extensions)}
    \cup UNION {ToSet(Inner(definitions[i])) : i \in AccessibleTypes}

\* "Invalid primitive for Compact", "Invalid primitive for BitSequence"
Buildable ==
    /\ \A i \in Referred : definitions[i].tag = "compact" =>
          Primitive(definitions[i].of[1], {}) \in Unsigned \cup {"void"}
    /\ \A i \in AccessibleTypes : definitions[i].tag = "bitSequence" =>
          Primitive(definitions[i].of[1], {}) \in Unsigned

-------------------------------------------------------------------------------
(***************************************************************************)
(* The tree (getHashTree): node i has the sons 2i + 1 and 2i + 2, and the  *)
(* leaves are the last nodes. A tree without leaves is 32 zeros.           *)
(***************************************************************************)
LeavesStart == Len(lookup) - 1

HashTree ==
    LET hash[i \in 0 .. 2 * LeavesStart] ==
            IF i >= LeavesStart THEN [leaf |-> lookup[i - LeavesStart + 1]]
            ELSE [left |-> hash[2 * i + 1], right |-> hash[2 * i + 2]]
    IN  IF lookup = <<>> THEN [i \in {0} |-> "zeros"] ELSE hash

Level(i) == Max({l \in 0 .. i : 2 ^ l <= i + 1})

\* A shift by a negative number of bits is a shift by 31 or so: it leaves zero.
Ancestor(from, levels) == IF levels < 0 THEN -1 ELSE (from + 1) \div 2 ^ levels - 1

\* Mutant: the known leaves stay in the order of the lookup.
LeavesInOrder(known) == [k \in DOMAIN known |-> LeavesStart + known[k] - 1]

\* Where the known leaves are, in the order in which the tree is walked: those of
\* the deepest level, which are on the left, come first.
LeavesInTree(known) ==
    LET at == [k \in DOMAIN known |-> LeavesStart + known[k] - 1]
        deepest == 2 ^ Level(Last(at)) - 1
    IN  IF at = <<>> THEN <<>>
        ELSE SelectSeq(at, LAMBDA i : i >= deepest) \o SelectSeq(at, LAMBDA i : i < deepest)

\* traverse: the targets still to come and the nodes whose hash is disclosed.
RECURSIVE Traverse(_, _, _)
Traverse(s, targets, node) ==
    CASE s.target > Len(targets) -> [s EXCEPT !.nodes = Append(@, node)]
      [] s.target <= Len(targets) /\ targets[s.target] = node -> [s EXCEPT !.target = @ + 1]
      [] s.target <= Len(targets) /\ targets[s.target] # node ->
            IF node # Ancestor(targets[s.target], Level(targets[s.target]) - Level(node))
            THEN [s EXCEPT !.nodes = Append(@, node)]
            ELSE Traverse(Traverse(s, targets, 2 * node + 1), targets, 2 * node + 2)

\* getProofData and generateProof
ProofOf(known) ==
    LET at == LeavesInTree(known)
        nodes == Traverse([target |-> 1, nodes |-> <<>>], at, 0).nodes
    IN  [leaves |-> [k \in DOMAIN at |-> lookup[at[k] - LeavesStart + 1]],
         leafIdxs |-> at,
         proofs |-> [k \in DOMAIN nodes |-> HashTree[nodes[k]]]]

-------------------------------------------------------------------------------
(***************************************************************************)
(* The leaves that an input needs (decodeAndCollectKnownLeafs), of those   *)
(* that are there: the client has all of them.                             *)
(***************************************************************************)
Failed(s) == [s EXCEPT !.ok = FALSE]

RECURSIVE Decode(_, _, _)
Decode(there, s, ref) ==
    LET at == {k \in there : ref.tag = "perId" /\ lookup[k].typeId = ref.value}
        current == lookup[Min(at)]
        chosen == {k \in at : current.tag = "enumeration" /\ s.input # <<>>
                              /\ lookup[k].index = s.input[1]}
        each(t, r) == Decode(there, t, r)
        \* A type with one leaf is collected at once.
        met == IF Cardinality(at) = 1 THEN [s EXCEPT !.collected = @ \cup at] ELSE s
        read == [met EXCEPT !.input = Tail(@)]
        times(n) == [k \in 1 .. n |-> current.of[1]]
    IN  CASE ~s.ok \/ ref.tag = "void" -> s
          [] s.ok /\ ref.tag \notin {"perId", "void"} ->
                IF s.input = <<>> THEN Failed(s) ELSE [s EXCEPT !.input = Tail(@)]
          [] s.ok /\ ref.tag = "perId" ->
                IF at = {} THEN Failed(s)
                ELSE CASE current.tag = "enumeration" ->
                            IF chosen = {} THEN Failed(s)
                            ELSE FoldLeft(each, [read EXCEPT !.collected = @ \cup chosen],
                                          lookup[Min(chosen)].of)
                       [] current.tag = "sequence" ->
                            IF s.input = <<>> THEN Failed(s)
                            ELSE FoldLeft(each, read, times(s.input[1]))
                       [] current.tag = "array" -> FoldLeft(each, met, times(current.len))
                       [] current.tag = "bitSequence" -> Failed(s)
                       [] OTHER -> FoldLeft(each, met, current.of)

Decoded(there, refs, input) ==
    FoldLeft(LAMBDA s, r : Decode(there, s, r),
             [ok |-> TRUE, input |-> input, collected |-> {}], refs)

-------------------------------------------------------------------------------
(***************************************************************************)
(* What can be proved                                                      *)
(***************************************************************************)
Extras      == [e \in DOMAIN extrinsic.extensions |-> extrinsic.extensions[e].type]
Additionals == [e \in DOMAIN extrinsic.extensions |-> extrinsic.extensions[e].additional]

\* getProofForExtrinsicPayload, and getProofForExtrinsicParts, which joins the parts.
PayloadTypes == <<extrinsic.call>> \o Extras \o Additionals

\* getProofForExtrinsic
ExtrinsicTypes(signed, withAdditional) ==
    (IF signed THEN <<extrinsic.address, extrinsic.signature>> \o Extras \o <<extrinsic.call>>
               ELSE <<extrinsic.call>>)
    \o (IF withAdditional THEN Additionals ELSE <<>>)

Requests ==
    {PayloadTypes} \cup {ExtrinsicTypes(signed, more) : signed, more \in BOOLEAN}

MerkleInit ==
    /\ definitions \in {d \in [1 .. NDefs -> UNION {Definitions[i] : i \in 1 .. NDefs}] :
                           \A i \in 1 .. NDefs : d[i] \in Definitions[i]}
    /\ extrinsic \in Extrinsics
    /\ lookup = <<>> /\ outcome = "new"
    /\ request = <<>> /\ proof = <<>>

\* merkleizeMetadata
Merkleize ==
    /\ outcome = "new"
    /\ IF Buildable THEN outcome' = "built" /\ lookup' = Lookup
                    ELSE outcome' = "refused" /\ UNCHANGED lookup
    /\ UNCHANGED <<definitions, extrinsic, request, proof>>

GetProof(types, input) ==
    LET decoded == Decoded(DOMAIN lookup, TypeRefs(types), input)
    IN  /\ outcome = "built"
        /\ request' = [types |-> types, input |-> input]
        /\ IF decoded.ok
           THEN /\ outcome' = "proved"
                /\ proof' = ProofOf(SetToSortSeq(decoded.collected, LAMBDA a, b : a < b))
           ELSE outcome' = "refused" /\ UNCHANGED proof
        /\ UNCHANGED <<definitions, extrinsic, lookup>>

MerkleNext ==
    \/ Merkleize
    \/ \E types \in Requests, input \in Inputs : GetProof(types, input)

-------------------------------------------------------------------------------
(***************************************************************************)
(* Whoever checks a proof knows the digest and what was signed. The hash   *)
(* of a node comes from the next leaf, from the next hash, or from its     *)
(* sons if the next leaf is below it.                                      *)
(***************************************************************************)
Below(node, leaf) ==
    Level(node) < Level(leaf) /\ Ancestor(leaf, Level(leaf) - Level(node)) = node

RECURSIVE Rebuilt(_, _)
Rebuilt(s, node) ==
    CASE s.leaf <= Len(proof.leafIdxs) /\ proof.leafIdxs[s.leaf] = node ->
            [s EXCEPT !.hash = [leaf |-> proof.leaves[s.leaf]], !.leaf = @ + 1]
      [] s.leaf <= Len(proof.leafIdxs) /\ Below(node, proof.leafIdxs[s.leaf]) ->
            LET left == Rebuilt(s, 2 * node + 1)
                right == Rebuilt(left, 2 * node + 2)
            IN  [right EXCEPT !.hash = [left |-> left.hash, right |-> @]]
      [] OTHER ->
            [s EXCEPT !.hash = IF s.proof <= Len(proof.proofs) THEN proof.proofs[s.proof] ELSE "none",
                      !.proof = @ + 1]

\* What a type leaves of an input, read off the metadata itself.
None == <<-1>>

RECURSIVE Rest(_, _)
Rest(input, id) ==
    LET d == definitions[id]
        each(s, i) == IF s = None THEN s ELSE Rest(s, i)
        one == IF input = <<>> THEN None ELSE Tail(input)
        times(n) == [k \in 1 .. n |-> d.of[1]]
    IN  CASE d.tag = "primitive" -> one
          [] d.tag = "compact" -> IF Primitive(d.of[1], {}) = "void" THEN input ELSE one
          [] d.tag \in {"composite", "tuple"} -> FoldLeft(each, input, d.of)
          [] d.tag = "array" -> FoldLeft(each, input, times(d.len))
          [] d.tag = "sequence" -> IF input = <<>> THEN one ELSE FoldLeft(each, one, times(input[1]))
          [] d.tag = "variant" ->
                IF d.variants = <<>> THEN input
                ELSE IF input = <<>> THEN one
                ELSE LET v == CHOOSE v \in ToSet(d.variants) : v.index = input[1]
                     IN  FoldLeft(each, one, v.fields)

Disclosed == {k \in DOMAIN lookup : \E l \in DOMAIN proof.leaves : proof.leaves[l] = lookup[k]}

\* merkleizeMetadata: the leaves and hashes of a proof give the root of the digest, in
\* the order in which they are disclosed and with nothing left over; the types that
\* it discloses are enough to decode what is proved as the metadata says, and none
\* of them can be left out.
ProofsAreRight ==
    outcome = "proved" =>
        /\ LET all == Rebuilt([leaf |-> 1, proof |-> 1, hash |-> "none"], 0)
           IN  /\ all.hash = HashTree[0]
               /\ all.leaf = Len(proof.leaves) + 1
               /\ all.proof = Len(proof.proofs) + 1
        /\ LET refs == TypeRefs(request.types)
               decoded == Decoded(Disclosed, refs, request.input)
           IN  /\ decoded.ok
               /\ decoded.input = FoldLeft(Rest, request.input, request.types)
               /\ \A k \in Disclosed : ~Decoded(Disclosed \ {k}, refs, request.input).ok
===============================================================================
