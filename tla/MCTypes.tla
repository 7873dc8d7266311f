------------------------------- MODULE MCTypes -------------------------------
(***************************************************************************)
(* The three algorithms on graphs of types, for every graph of a few       *)
(* nodes. Each behaviour is about one of them.                             *)
(***************************************************************************)
EXTENDS StaticCompat, TypeChecksums, MetadataProof

Node(t, refs) == [type |-> t, of |-> refs]

\* Structs, enums, results and options over each other, with numbers, bytes and arrays.
\* No option is an option of itself.
MCNodeForms ==
    LET number  == {[type |-> "terminal", value |-> "u8"]}
        some(i) == {Node("option", i)}
        structs == {Node("struct", f) : f \in {<<1, 2>>, <<3, 1>>}}
        enums   == {Node("enum", f) : f \in {<<3>>, <<2, 3>>}}
        results == {Node("result", <<1, 3>>)}
        bytes   == {[type |-> "binary", len |-> n] : n \in {0, 4}}
        arrays  == {[type |-> "array", len |-> n, of |-> 2] : n \in {1, 2}}
    IN  << structs \cup enums \cup results,
           number \cup some(1) \cup structs \cup enums \cup results,
           number \cup some(2) \cup structs \cup enums \cup bytes \cup arrays >>

\* For the runs that are about something else.
NoForms == <<{}>>

Form(l, refs) == [label |-> l, refs |-> refs]

MCForms ==
    {Form("u8", <<>>), Form("u64", <<>>)}
    \cup {Form("vector", <<i>>) : i \in {1, 3}}
    \cup {Form("tuple", f) : f \in {<<1, 4>>, <<3, 4>>}}

\* Two enums that refer to themselves and to a number each, and what joins them.
TwoEnums ==
    {Form("u8", <<>>), Form("u64", <<>>)}
    \cup {Form("enum", f) : f \in {<<1, 3>>, <<2, 4>>}}
    \cup {Form("tuple", <<3, 4>>)}

\* What the types of an extrinsic may be: enums of up to three variants that may
\* refer back, types without a value, a compact of a type that wraps another.
Of(tag, refs)  == [tag |-> tag, of |-> refs]
Variants(refs) == [tag |-> "variant",
                   variants |-> [v \in DOMAIN refs |-> [index |-> refs[v][1], fields |-> refs[v][2]]]]

MCDefinitions ==
    << {Variants(<< <<1, <<2>>>>, <<0, <<3, 3>>>>, <<2, <<1>>>> >>), Of("sequence", <<2>>),
        Of("composite", <<2, 3, 3>>)},
       {Variants(<< <<2, <<1>>>>, <<0, <<4>>>> >>), Of("sequence", <<1>>), Of("tuple", <<3, 4>>)},
       {Variants(<< <<1, <<>>>>, <<0, <<4>>>> >>), Of("compact", <<4>>), Of("bitSequence", <<4>>),
        [tag |-> "array", len |-> 2, of |-> <<4>>], Of("composite", <<4>>)},
       {[tag |-> "primitive", name |-> "u8"], Of("tuple", <<>>),
        Variants(<< <<0, <<>>>>, <<1, <<2>>>>, <<2, <<>>>> >>)} >>

MCExtrinsics ==
    {[call |-> 1, address |-> 2, signature |-> 3, extensions |-> <<[type |-> 3, additional |-> 4]>>]}

MCInputs == [1 .. 5 -> 0 .. 2]

CompatOff == origin = <<>> /\ dest = <<>> /\ cache = <<>> /\ shared = {} /\ answers = <<>>
SumOff    == types = <<>> /\ subgraphs = <<>> /\ checksums = <<>> /\ given = <<>>
MerkleOff == /\ definitions = <<>> /\ extrinsic = <<>> /\ lookup = <<>>
             /\ outcome = "off" /\ request = <<>> /\ proof = <<>>

Init == \/ CompatInit /\ SumOff /\ MerkleOff
        \/ SumInit /\ CompatOff /\ MerkleOff
        \/ MerkleInit /\ CompatOff /\ SumOff

Next == \/ SumOff /\ MerkleOff /\ CompatNext /\ UNCHANGED <<sumVars, merkleVars>>
        \/ CompatOff /\ MerkleOff /\ SumNext /\ UNCHANGED <<compatVars, merkleVars>>
        \/ CompatOff /\ SumOff /\ MerkleNext /\ UNCHANGED <<compatVars, sumVars>>

Spec == Init /\ [][Next]_<<compatVars, sumVars, merkleVars>>
===============================================================================
