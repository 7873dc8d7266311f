----------------------------- MODULE TxExtensions -----------------------------
(***************************************************************************)
(* How a transaction gets its extensions and its signature.                *)
(*                                                                         *)
(* The enhancers of signers-common run one after the other: each adds to   *)
(* the payload the extension it knows. The creator of the signer then      *)
(* takes from the payload what a pipeline of the chain asks for, has it    *)
(* signed and puts the transaction together. A wallet that is given JSON   *)
(* instead (pjs-signer) builds the extensions anew (tx-utils).             *)
(*                                                                         *)
(* Encoded data is a sequence of atoms, an atom being what has a meaning   *)
(* of its own: a nonce, an era, a hash. Hashing of long payloads,          *)
(* addresses, the kind of the signature and mocked signatures are left     *)
(* out.                                                                    *)
(***************************************************************************)
EXTENDS Integers, Sequences, SequencesExt, FiniteSets

CONSTANTS
    Metadatas,   \* [number, versions]: the pipeline of version v is versions[v + 1]
    Requests,    \* what users ask for, see TxTypeOK
    KindOf,      \* of the extensions nobody knows: "void", "option" or "required"
    Eras         \* by name: [finalized, best, period]

VARIABLES
    md,          \* the metadata
    options,     \* the options of the user, and how the signer signs
    payload,     \* payload.extensions: what was found first for each name
    enhancers,   \* the enhancers that have not run
    made         \* the transaction, or NotMade, or Failed

txVars == <<md, options, payload, enhancers, made>>

Call == <<"call">>

NotMade == [kind |-> "nothing"]
Failed  == [kind |-> "failed"]

Extensions(m) == UNION {Range(m.versions[v]) : v \in DOMAIN m.versions}

Signature == "VerifyMultiSignature"

CommonExtensions ==
    {"CheckNonce", "CheckTxVersion", "CheckSpecVersion", "CheckMortality", "CheckMetadataHash",
     "CheckGenesis", "ChargeTransactionPayment", "ChargeAssetTxPayment"}

Extension == CommonExtensions \cup DOMAIN KindOf \cup {Signature}

\* A pipeline has no extension twice, and there is only one before metadata 16. The
\* value of the signature is not for the user to give.
ASSUME TxAssumption ==
    /\ \A m \in Metadatas :
        /\ m.versions \in Seq(Seq(Extension)) /\ m.versions # <<>>
        /\ \A v \in DOMAIN m.versions : IsInjective(m.versions[v])
        /\ m.number # 16 => Len(m.versions) = 1
    /\ \A id \in DOMAIN KindOf :
        /\ id \notin CommonExtensions \cup {Signature, "none"}
        /\ KindOf[id] \in {"void", "option", "required"}
    /\ \A a \in Requests :
        /\ a.signer \in {"v4", "v5", "ledger", "wallet", "walletOfToken"}
        /\ a.mortality \in DOMAIN Eras \cup {"immortal"}
        /\ a.digest \in BOOLEAN /\ a.invalid \in BOOLEAN /\ a.version \in Int
        /\ Signature \notin a.custom
    /\ \A e \in DOMAIN Eras :
        /\ e \notin {"zero", "immortal"}
        /\ Eras[e].finalized \in Nat /\ Eras[e].best \in Nat /\ Eras[e].period \in Nat \ {0}
        /\ Eras[e].finalized <= Eras[e].best

\* f, and what g has besides.
OrElse(f, g) == [k \in DOMAIN f \cup DOMAIN g |-> IF k \in DOMAIN f THEN f[k] ELSE g[k]]

\* Where in a pipeline an extension is; 0 if it is not there.
PlaceOf(id, pipeline) == SelectInSeq(pipeline, LAMBDA x : x = id)

-----------------------------------------------------------------------------
(* Mortality *)

\* The era that starts at a block: a power of two, and where in it the block is.
Mortal(period, start) ==
    LET power  == CHOOSE k \in 0 .. 30 : 2 ^ k >= period /\ (k = 0 \/ 2 ^ (k - 1) < period)
        length == Min({Max({2 ^ power, 4}), 65536})
        factor == Max({length \div 4096, 1})
        left   == Min({Max({(CHOOSE k \in 2 .. 16 : 2 ^ k = length) - 1, 1}), 15})
    IN  left + 16 * ((start % length) \div factor)

\* Long enough for the blocks that are not finalized, as long as 4096 blocks are enough.
EraOf(e) == Mortal(Min({e.best - e.finalized + e.period, 4096}), e.finalized)

Period(era) == 2 * 2 ^ (era % 16)

Phase(era) == (era \div 16) * Max({Period(era) \div 4096, 1})

\* getHeightStart: where the era began, seen from a block.
Birth(era, height) ==
    ((Max({height, Phase(era)}) - Phase(era)) \div Period(era)) * Period(era) + Phase(era)

-----------------------------------------------------------------------------
(* Enhancers *)

\* withNonce, then withCommonExtensions from the outermost one in. A user may wrap
\* the signer with withMetadataHash.
EnhancersOf(a) ==
    (IF a.digest THEN <<"withMetadataHash">> ELSE <<>>)
    \o <<"CheckNonce", "CheckTxVersion", "CheckSpecVersion", "CheckMortality",
         "CheckMetadataHash", "CheckGenesis", "ChargeTransactionPayment",
         "ChargeAssetTxPayment", "withCustomExtensions", "withEmptyExtensions">>

Part(extra, additional) == [extra |-> extra, additional |-> additional]

Checked == Part(<<"one">>, <<"one", "digest">>)

\* What the enhancer of an extension adds: what is sent, and what is signed besides.
KnownExtension(id, a) ==
    CASE id = "CheckNonce"               -> Part(<<a.nonce>>, <<>>)
      [] id = "CheckTxVersion"           -> Part(<<>>, <<"transaction_version">>)
      [] id = "CheckSpecVersion"         -> Part(<<>>, <<"spec_version">>)
      [] id = "CheckMortality"           ->
            IF a.mortality = "immortal" THEN Part(<<"zero">>, <<"genesis">>)
            ELSE Part(<<a.mortality>>, <<"block", a.mortality>>)
      [] id = "CheckMetadataHash"        -> Part(<<"zero">>, <<"zero">>)
      [] id = "CheckGenesis"             -> Part(<<>>, <<"genesis">>)
      [] id = "ChargeTransactionPayment" -> Part(<<a.tip>>, <<>>)
      [] id = "ChargeAssetTxPayment"     ->
            Part(<<a.tip>> \o (IF a.asset = "none" THEN <<"none">> ELSE <<"some", a.asset>>), <<>>)

\* What can be filled in without a value: what is empty, and options.
Fillable(m) == {id \in Extensions(m) \cap DOMAIN KindOf : KindOf[id] # "required"}

Empty(id) == Part(IF KindOf[id] = "option" THEN <<"none">> ELSE <<>>, <<>>)

\* The value a user gives for an extension.
Custom(id) ==
    Part(IF id \notin DOMAIN KindOf THEN <<"custom">>
         ELSE CASE KindOf[id] = "option"   -> <<"some", id>>
                [] KindOf[id] = "required" -> <<id>>
                [] OTHER                   -> <<>>,
         IF id \notin DOMAIN KindOf \/ KindOf[id] = "void" THEN <<>> ELSE <<"implicit">>)

\* What an enhancer adds; what is there already is found first.
Added(e) ==
    CASE e = "withMetadataHash"     -> [id \in {"CheckMetadataHash"} |-> Checked]
      [] e = "withCustomExtensions" -> [id \in options.custom \cap Extensions(md) |-> Custom(id)]
      [] e = "withEmptyExtensions"  -> [id \in Fillable(md) |-> Empty(id)]
      [] OTHER ->
            [id \in {e} \cap Extensions(md) |-> KnownExtension(id, options)]

Refuses(e) ==
    \/ e = "withMetadataHash" /\ "CheckMetadataHash" \notin Extensions(md)
    \/ e = "withCustomExtensions" /\ options.invalid /\ options.custom \cap Extensions(md) # {}

Enhance ==
    /\ made = NotMade /\ enhancers # <<>>
    /\ IF Refuses(Head(enhancers))
       THEN made' = Failed /\ UNCHANGED payload
       ELSE payload' = OrElse(payload, Added(Head(enhancers))) /\ UNCHANGED made
    /\ enhancers' = Tail(enhancers)
    /\ UNCHANGED <<md, options>>

-----------------------------------------------------------------------------
(* Creators *)

Joined(ids, values) == FlattenSeq([i \in DOMAIN ids |-> values[ids[i]]])

Extras(ids, parts) == Joined(ids, [id \in Range(ids) |-> parts[id].extra])
Additionals(ids, parts) == Joined(ids, [id \in Range(ids) |-> parts[id].additional])

\* The first pipeline, all of it signed.
Signed(pipeline, parts) ==
    [kind |-> "signed", version |-> 0,
     over |-> Call \o Extras(pipeline, parts) \o Additionals(pipeline, parts),
     body |-> Extras(pipeline, parts) \o Call]

CreateV4(m, parts) ==
    IF Range(m.versions[1]) \subseteq DOMAIN parts THEN Signed(m.versions[1], parts) ELSE Failed

\* The Ledger always has the metadata checked.
CreateOnLedger(m, parts) ==
    IF "CheckMetadataHash" \in Range(m.versions[1])
    THEN CreateV4(m, [id \in DOMAIN parts |->
                         IF id = "CheckMetadataHash" THEN Checked ELSE parts[id]])
    ELSE Failed

\* findExtensionVersion: the first one with the signature whose other extensions are
\* all declared; 0 if there is none.
FittingVersion(m, parts) ==
    SelectInSeq(m.versions, LAMBDA pipeline :
        Signature \in Range(pipeline) /\ Range(pipeline) \ {Signature} \subseteq DOMAIN parts)

\* A wrong variant: all the extensions are signed, in two groups.
GeneralSignsAll(pipeline, version, parts) ==
    LET others == SelectSeq(pipeline, LAMBDA id : id # Signature)
        at     == PlaceOf(Signature, pipeline)
    IN  [kind |-> "general", version |-> version,
         over |-> <<"version">> \o Call \o Extras(others, parts) \o Additionals(others, parts),
         body |-> Extras(SubSeq(others, 1, at - 1), parts) \o <<"Signed", "signature">>
                  \o Extras(SubSeq(others, at, Len(others)), parts) \o Call]

\* What comes after the signature is signed with the call.
General(pipeline, version, parts) ==
    LET at     == PlaceOf(Signature, pipeline)
        before == SubSeq(pipeline, 1, at - 1)
        after  == SubSeq(pipeline, at + 1, Len(pipeline))
    IN  [kind |-> "general", version |-> version,
         over |-> <<"version">> \o Call \o Extras(after, parts) \o Additionals(after, parts),
         body |-> Extras(before, parts) \o <<"Signed", "signature">>
                  \o Extras(after, parts) \o Call]

CreateV5(m, a, parts) ==
    LET v == IF a.version >= 0 THEN a.version + 1 ELSE FittingVersion(m, parts)
    IN  IF /\ v \in DOMAIN m.versions
           /\ Signature \in Range(m.versions[v])
           /\ Range(m.versions[v]) \ {Signature} \subseteq DOMAIN parts
        THEN General(m.versions[v], v - 1, parts) ELSE Failed

-----------------------------------------------------------------------------
(* JSON for a wallet, and what the wallet makes of it *)

\* The fields of the JSON that an extension gives.
Fields(id, part) ==
    CASE id = "CheckGenesis"             -> [genesisHash |-> part.additional]
      [] id = "CheckNonce"               -> [nonce |-> part.extra]
      [] id = "CheckTxVersion"           -> [transactionVersion |-> part.additional]
      [] id = "CheckSpecVersion"         -> [specVersion |-> part.additional]
      [] id = "CheckMortality"           -> [era |-> part.extra, blockHash |-> part.additional]
      [] id = "ChargeTransactionPayment" -> [tip |-> part.extra]
      [] id = "ChargeAssetTxPayment"     ->
            IF part.extra[2] = "some"
            THEN [tip |-> <<part.extra[1]>>, assetId |-> SubSeq(part.extra, 3, 3)]
            ELSE [tip |-> <<part.extra[1]>>]
      [] id = "CheckMetadataHash" /\ part.extra = <<"one">> ->
            [metadataHash |-> Tail(part.additional)]
      [] OTHER                           -> <<>>

Unsupported(id, part) == id \in DOMAIN KindOf \cup {Signature} /\ part # Part(<<>>, <<>>)

Json(m, parts) ==
    LET pipeline == m.versions[1]
    IN  IF \/ ~(Range(pipeline) \subseteq DOMAIN parts)
           \/ \E id \in Range(pipeline) : Unsupported(id, parts[id])
        THEN Failed
        ELSE [kind |-> "json",
              fields |-> FoldLeft(LAMBDA acc, id : OrElse(Fields(id, parts[id]), acc), <<>>, pipeline)]

\* getSignedExtensionParts, from what fromPjsToTxData reads; own: the wallet knows the
\* token of the chain and has the metadata checked.
Rebuilt(id, f, own) ==
    CASE id = "CheckNonce"               -> Part(f.nonce, <<>>)
      [] id = "CheckTxVersion"           -> Part(<<>>, <<"transaction_version">>)
      [] id = "CheckSpecVersion"         -> Part(<<>>, <<"spec_version">>)
      [] id = "CheckMortality"           ->
            Part(f.era, IF f.era = <<"zero">> THEN f.genesisHash ELSE f.blockHash)
      [] id = "CheckMetadataHash"        ->
            IF own THEN Checked
            ELSE IF "metadataHash" \in DOMAIN f THEN Part(<<"one">>, <<"one">> \o f.metadataHash)
            ELSE Part(<<"zero">>, <<"zero">>)
      [] id = "CheckGenesis"             -> Part(<<>>, f.genesisHash)
      [] id = "ChargeTransactionPayment" -> Part(f.tip, <<>>)
      [] id = "ChargeAssetTxPayment"     ->
            Part(f.tip \o (IF "assetId" \in DOMAIN f THEN <<"some">> \o f.assetId ELSE <<"none">>),
                 <<>>)
      [] OTHER                           -> Empty(id)

\* What every JSON must say, whatever the chain asks for.
Readable(f) == /\ {"era", "nonce", "tip"} \subseteq DOMAIN f
               /\ f.era = <<"zero">> => "genesisHash" \in DOMAIN f

WalletCreates(m, json, own) ==
    IF json = Failed THEN Failed
    ELSE IF ~Readable(json.fields) THEN Failed
    ELSE Signed(m.versions[1],
                [id \in Range(m.versions[1]) |-> Rebuilt(id, json.fields, own)])

-----------------------------------------------------------------------------
Create ==
    /\ made = NotMade /\ enhancers = <<>>
    /\ made' = CASE options.signer = "v4"     -> CreateV4(md, payload)
                 [] options.signer = "ledger" -> CreateOnLedger(md, payload)
                 [] options.signer = "v5"     -> CreateV5(md, options, payload)
                 [] options.signer = "wallet" -> WalletCreates(md, Json(md, payload), FALSE)
                 [] options.signer = "walletOfToken" -> WalletCreates(md, Json(md, payload), TRUE)
    /\ UNCHANGED <<md, options, payload, enhancers>>

TxInit ==
    /\ md \in Metadatas
    /\ options \in Requests
    /\ payload = <<>>
    /\ enhancers = EnhancersOf(options)
    /\ made = NotMade

TxNext == Enhance \/ Create

TxSpec == TxInit /\ [][TxNext]_txVars

-----------------------------------------------------------------------------
(* Decoding: getExtrinsicDecoder *)

\* How long the value of an extension is, from what comes first.
Length(id, bytes) ==
    CASE id \in {"CheckTxVersion", "CheckSpecVersion", "CheckGenesis"} -> 0
      [] id \in {"CheckNonce", "CheckMortality", "CheckMetadataHash",
                 "ChargeTransactionPayment"} -> 1
      [] id = "ChargeAssetTxPayment" -> IF bytes[2] = "some" THEN 3 ELSE 2
      [] id = Signature -> 2
      [] OTHER -> CASE KindOf[id] = "void"     -> 0
                    [] KindOf[id] = "required" -> 1
                    [] OTHER -> IF bytes[1] = "some" THEN 2 ELSE 1

\* The pipeline the decoder takes; only metadata 16 has several.
DecodedPipeline(m, tx) ==
    IF tx.kind = "signed" \/ m.number # 16 THEN m.versions[1] ELSE m.versions[tx.version + 1]

\* Where the value of each extension ends: one is read after the other.
ValueEnds(pipeline, bytes) ==
    LET end[i \in 0 .. Len(pipeline)] ==
            IF i = 0 THEN 0
            ELSE LET before == end[i - 1]
                 IN  before + Length(pipeline[i], SubSeq(bytes, before + 1, Len(bytes)))
    IN  end

Decoded(m, tx) ==
    LET pipeline == DecodedPipeline(m, tx)
        end      == ValueEnds(pipeline, tx.body)
        value(i) == SubSeq(tx.body, end[i - 1] + 1, end[i])
    IN  [extra    |-> [id \in Range(pipeline) |-> value(PlaceOf(id, pipeline))],
         callData |-> SubSeq(tx.body, end[Len(pipeline)] + 1, Len(tx.body))]

-----------------------------------------------------------------------------
(* Properties *)

TxTypeOK ==
    /\ md \in Metadatas /\ options \in Requests
    /\ DOMAIN payload \subseteq Extensions(md)
    /\ made.kind \in {"nothing", "failed", "signed", "general"}

IsMade == made.kind \in {"signed", "general"}

\* What the chain takes for the implicit part of an extension.
ImplicitOf(id, extra) ==
    CASE id = "CheckTxVersion"    -> <<"transaction_version">>
      [] id = "CheckSpecVersion"  -> <<"spec_version">>
      [] id = "CheckGenesis"      -> <<"genesis">>
      [] id = "CheckMetadataHash" -> IF extra = <<"one">> THEN <<"one", "digest">> ELSE <<"zero">>
      [] id = "CheckMortality"    -> IF extra = <<"zero">> THEN <<"genesis">>
                                     ELSE <<"block">> \o extra
      [] id \in DOMAIN KindOf /\ KindOf[id] # "void" ->
            IF extra = <<"none">> THEN <<>> ELSE <<"implicit">>
      [] OTHER -> <<>>

\* The chain can take a transaction apart, and the signature is over what the chain
\* finds in it: the call, and the values and implicit parts of what it has to cover.
Covers(m, tx) ==
    LET pipeline == m.versions[tx.version + 1]
        found    == Decoded(m, tx)
        covered  == SubSeq(pipeline, PlaceOf(Signature, pipeline) + 1,
                           Len(pipeline))
    IN  /\ found.callData = Call
        /\ tx.over = (IF tx.kind = "general" THEN <<"version">> ELSE <<>>)
                     \o Call \o Joined(covered, found.extra)
                     \o Joined(covered, [id \in Range(covered) |->
                                            ImplicitOf(id, found.extra[id])])

SignatureHolds == IsMade => Covers(md, made)

\* What the user asked for is in the transaction, wherever it was made.
AskedIsSent ==
    IsMade =>
        LET carried == Decoded(md, made).extra
        IN  /\ "CheckNonce" \in DOMAIN carried => carried["CheckNonce"] = <<options.nonce>>
            /\ "ChargeTransactionPayment" \in DOMAIN carried =>
                    carried["ChargeTransactionPayment"] = <<options.tip>>
            /\ "ChargeAssetTxPayment" \in DOMAIN carried =>
                    /\ carried["ChargeAssetTxPayment"][1] = options.tip
                    /\ options.asset # "none" =>
                           options.asset \in Range(carried["ChargeAssetTxPayment"])
            /\ "CheckMortality" \in DOMAIN carried =>
                    carried["CheckMortality"] =
                        <<IF options.mortality = "immortal" THEN "zero" ELSE options.mortality>>
            /\ \A id \in options.custom \cap DOMAIN KindOf \cap DOMAIN carried :
                    KindOf[id] # "void" => carried[id] # <<"none">>
            /\ /\ options.digest \/ options.signer \in {"ledger", "walletOfToken"}
               /\ "CheckMetadataHash" \in DOMAIN carried
               => carried["CheckMetadataHash"] = <<"one">>

\* A transaction is refused only if a value is missing or wrong: what can be filled in
\* or was given is enough for a pipeline of the signer. A wallet knows fewer extensions.
RefusedForAReason ==
    LET given(pipeline) == \A id \in Range(pipeline) \cap DOMAIN KindOf :
                               KindOf[id] = "required" => id \in options.custom
        pipelines == IF options.signer # "v5" THEN {md.versions[1]}
                     ELSE {md.versions[v] : v \in {w \in DOMAIN md.versions :
                              /\ Signature \in Range(md.versions[w])
                              /\ options.version >= 0 => w = options.version + 1}}
    IN  made.kind = "failed" =>
            \/ options.invalid \/ options.signer \in {"wallet", "walletOfToken"}
            \/ options.digest /\ "CheckMetadataHash" \notin Extensions(md)
            \/ options.signer = "ledger" /\ "CheckMetadataHash" \notin Range(md.versions[1])
            \/ options.signer # "v5" /\ Signature \in Range(md.versions[1])
            \/ \A pipeline \in pipelines : ~given(pipeline)

\* A transaction that starts at the finalized block is valid there, on the best block,
\* and until the period asked for is over: the era of all of them starts at the block
\* that was signed. More than 4096 blocks are not asked for.
EraHolds ==
    options.mortality \in DOMAIN Eras =>
        LET e    == Eras[options.mortality]
            last == e.finalized + Min({e.best - e.finalized + e.period, 4096}) - 1
        IN  \A h \in {e.finalized, Min({e.best, last}), last} : Birth(EraOf(e), h) = e.finalized

TransactionsAreRight == SignatureHolds /\ AskedIsSent /\ RefusedForAReason /\ EraHolds
===============================================================================
