---------------------------- MODULE MCTransactions ----------------------------
(***************************************************************************)
(* What the client does with the pinned blocks, and what becomes of a      *)
(* transaction before it is submitted. A behaviour is about the fate of a  *)
(* transaction, about the entries that are watched, about events, about    *)
(* what is signed, about its nonce, about the approvals of a multisig,     *)
(* about creators in one another or about the device that signs. The       *)
(* others stay as they are.                                                *)
(***************************************************************************)
EXTENDS TrackTx, WatchEntries, EventStreams,
        TxExtensions, ChainTips, MultisigCalls, LedgerDevice

\* Two branches: 1, 2, 3 and 4.
MCParents == <<0, 1, 2, 0>>

MCInclusions == {{2, 4}, {3}}

MCInvalidities == {{}, {2}, {0, 1}}

\* Bound: the other transaction comes before the end of this one, which stays valid;
\* of the last blocks of the branches the one with this transaction is announced.
FewShared ==
    /\ others' > 0 => invalid = {} /\ {3, 4} \cap arrived' \subseteq included
    /\ others' # others => phase \in {"validating", "tracking"}

\* Two branches: 1, 2, 3, 4 and 5 on top of 2.
MCParent == <<0, 1, 2, 3, 2>>

Entry(keys, value) == [k \in keys |-> value]

\* Entries are changed, added, removed, and the same in blocks 0, 1 and 4.
MCContent == [b \in 0 .. 5 |->
    CASE b = 2 -> Entry({"a", "b"}, 2)
      [] b = 3 -> Entry({"b"}, 2)
      [] b = 5 -> Entry({"a"}, 3)
      [] OTHER -> Entry({"a"}, 1)]

\* Two branches on top of 1: 2, and 3, 4.
MCParentIn == <<0, 1, 1, 3>>

Basic == <<"CheckNonZeroSender", "CheckSpecVersion", "CheckTxVersion", "CheckGenesis",
           "CheckMortality", "CheckNonce">>

\* A chain with one pipeline, one whose other pipelines have a signature, one where
\* the first pipeline with a signature needs a value that may be missing.
MCMetadatas ==
    {[number |-> 14, versions |-> <<Basic \o <<"ChargeTransactionPayment">> >>],
     [number |-> 15, versions |-> <<Basic \o <<"ChargeAssetTxPayment", "CheckMetadataHash">> >>],
     [number |-> 15, versions |-> <<Basic \o <<"Tag", "ChargeTransactionPayment">> >>],
     [number |-> 16, versions |-> <<
        Basic \o <<"ChargeAssetTxPayment", "Tag">>,
        <<"Tag", Signature, "Proof">> \o Basic \o <<"ChargeAssetTxPayment">>,
        <<"CheckGenesis", Signature, "CheckNonce", "Tag", "CheckMortality",
          "CheckMetadataHash">> >>]}

MCKindOf == [id \in {"CheckNonZeroSender", "Tag", "Proof"} |->
                CASE id = "Tag" -> "option" [] id = "Proof" -> "required" [] OTHER -> "void"]

MCEras == [default |-> [finalized |-> 5, best |-> 8, period |-> 20],
           exact   |-> [finalized |-> 63, best |-> 65, period |-> 62],
           short   |-> [finalized |-> 7, best |-> 7, period |-> 1],
           long    |-> [finalized |-> 100005, best |-> 100009, period |-> 8000]]

MCRequests ==
    [signer : {"v4", "v5", "ledger", "wallet", "walletOfToken"}, nonce : {"nonce"},
     mortality : {"immortal"} \cup DOMAIN MCEras, tip : {"tip"}, asset : {"none", "asset"},
     digest : BOOLEAN, custom : {{}, {"Tag"}, {"Proof", "CheckNonce"}}, invalid : BOOLEAN,
     version : {-1, 2}]

\* A fork at the finalized block 0, whose branches are of the same height for a while.
MCParentAt == <<0, 1, 1, 2, 3>>

MCNonceAt == [b \in 0 .. 5 |-> CASE b \in {0, 1, 3} -> 4 [] b \in {2, 4} -> 5 [] OTHER -> 6]

\* The third signatory is an account for which another key signs.
MCKeyOf == [a |-> "a", b |-> "b", c |-> "k", d |-> "d"]

MCStacks ==
    [key   : {"a", "k"},
     wraps : {<<>>, <<Proxied("c")>>, <<Proxied("c"), MultisigOf(2, {"a", "b", "c"})>>,
              <<MultisigOf(1, {"a", "b"}),
                MultisigOf(2, {"b", MultisigId(1, {"a", "b"})}), Proxied("d")>>,
              <<MultisigOf(2, {"a", "k", "c"}), Proxied("c"), Proxied("b")>>}]

Request(op, path, chunks) == [op |-> op, path |-> path, chunks |-> chunks]

MCLedgerCalls ==
    [k1 |-> Request("pubkey", 1, 0),  s1 |-> Request("show", 1, 0),
     i1 |-> Request("appInfo", 1, 0), t1 |-> Request("sign", 1, 3), t2 |-> Request("sign", 2, 2)]

-----------------------------------------------------------------------------
AMetadata == CHOOSE m \in Metadatas : m.number = 14
ARequest  == CHOOSE r \in Requests : r.signer = "v4" /\ r.mortality = "immortal"

FateOff     == Init /\ included = {3} /\ invalid = {} /\ arrived = {Root}
WatchOff    == WatchInit /\ watchers = <<"best">>
EventOff    == EventInit /\ bestNow = 0
TxOff       == TxInit /\ md = AMetadata /\ options = ARequest
MultisigOff == MultisigInit /\ threshold = 1 /\ stack.wraps = <<>> /\ stack.key = "a"
LedgerOff   == LedgerInit /\ app = "polkadot"

VARIABLE topic \* what a behaviour is about

ClientInit ==
    \/ topic = "fate" /\ Init /\ included \cap invalid = {}
       /\ WatchOff /\ EventOff /\ TxOff /\ TipInit /\ MultisigOff /\ LedgerOff
    \/ topic = "watch" /\ WatchInit
       /\ FateOff /\ EventOff /\ TxOff /\ TipInit /\ MultisigOff /\ LedgerOff
    \/ topic = "events" /\ EventInit
       /\ FateOff /\ WatchOff /\ TxOff /\ TipInit /\ MultisigOff /\ LedgerOff
    \/ topic = "extensions" /\ TxInit
       /\ FateOff /\ WatchOff /\ EventOff /\ TipInit /\ MultisigOff /\ LedgerOff
    \/ topic = "nonce" /\ TipInit
       /\ FateOff /\ WatchOff /\ EventOff /\ TxOff /\ MultisigOff /\ LedgerOff
    \/ topic = "multisig" /\ MultisigInit /\ stack.wraps = <<>> /\ stack.key = "a"
       /\ FateOff /\ WatchOff /\ EventOff /\ TxOff /\ TipInit /\ LedgerOff
    \/ topic = "creators" /\ MultisigInit /\ threshold = 1 \* what wraps what never changes
       /\ FateOff /\ WatchOff /\ EventOff /\ TxOff /\ TipInit /\ LedgerOff
    \/ topic = "device" /\ LedgerInit
       /\ FateOff /\ WatchOff /\ EventOff /\ TxOff /\ TipInit /\ MultisigOff

ClientNext ==
    /\ UNCHANGED topic
    /\ \/ topic = "fate" /\ Next /\ FewShared
          /\ UNCHANGED <<watchVars, eventVars, txVars, tipVars, multisigVars, ledgerVars>>
       \/ topic = "watch" /\ WatchNext
          /\ UNCHANGED <<vars, eventVars, txVars, tipVars, multisigVars, ledgerVars>>
       \/ topic = "events" /\ EventNext
          /\ UNCHANGED <<vars, watchVars, txVars, tipVars, multisigVars, ledgerVars>>
       \/ topic = "extensions" /\ TxNext
          /\ UNCHANGED <<vars, watchVars, eventVars, tipVars, multisigVars, ledgerVars>>
       \/ topic = "nonce" /\ TipNext
          /\ UNCHANGED <<vars, watchVars, eventVars, txVars, multisigVars, ledgerVars>>
       \/ topic = "multisig" /\ MultisigNext
          /\ UNCHANGED <<vars, watchVars, eventVars, txVars, tipVars, ledgerVars>>
       \/ topic = "device" /\ LedgerNext
          /\ UNCHANGED <<vars, watchVars, eventVars, txVars, tipVars, multisigVars>>

ClientSpec ==
    /\ ClientInit
    /\ [][ClientNext]_<<topic, vars, watchVars, eventVars, txVars, tipVars, multisigVars, ledgerVars>>
    /\ Fairness /\ TipFairness /\ LedgerFairness

\* Nothing stays open if nodes and devices answer: once the finalized chain has a
\* transaction the user hears of it, the nonce of a transaction is decided or fails while
\* the chain moves on, and every call of the device ends.
TransactionsComeThrough ==
    []<>(/\ ~FinalUnheard
         /\ creation # "asking"
         /\ \A c \in LedgerCall : step[c] \in {"idle"} \cup Ended)
===============================================================================
