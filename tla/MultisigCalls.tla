---------------------------- MODULE MultisigCalls -----------------------------
(***************************************************************************)
(* Signing for another account (meta-signers).                             *)
(*                                                                         *)
(* A creator wraps the call in one that the chain runs for the proxied or  *)
(* multisig account, and hands it to the creator of the signer. A call of  *)
(* a multisig account runs once enough signatories approved it: each of    *)
(* them reads who approved so far, and sends an approval or, if it is the  *)
(* last one, the call itself. The pallets are the chain's own.             *)
(***************************************************************************)
EXTENDS Integers, Sequences, SequencesExt, FiniteSets, TLC

CONSTANTS
    Signatories,  \* the accounts of the multisig
    KeyOf,        \* signatory |-> the key that signs for it, itself unless it is proxied
    Thresholds,   \* how many have to approve
    MaxAttempts,  \* transactions of one signatory
    Stacks        \* creators: [key, wraps: what it was wrapped in, innermost first]

VARIABLES
    stack,      \* a creator
    threshold,
    approvals,  \* who approved the call, on chain
    opened,     \* how often the approval of the call was opened; its timepoint
    executed,   \* how often the call was run
    read,       \* signatory |-> what getMultisigInfo gave to its creator, or NoInfo
    sent,       \* signatory |-> its transaction on the way, or NoTx
    attempts,
    crossed,    \* the signatories whose information got old before their transaction came
    lateApprovals,  \* those whose approval was counted all the same
    wasted      \* those of whom the chain refused a transaction that nothing had crossed,
                \* though the call lacked approvals

palletVars == <<approvals, opened, executed>>
multisigVars ==
    <<stack, threshold, palletVars, read, sent, attempts, crossed, lateApprovals, wasted>>

NoInfo == [known |-> FALSE]
NoTx   == [method |-> "none"]

-----------------------------------------------------------------------------
(* Creators that wrap creators *)

\* The account of a multisig is a digest of the threshold and the sorted accounts; the
\* client computes it as the chain does. Here it is their text.
MultisigId(n, accounts) == ToString(<<n, accounts>>)

Proxied(real) == [pallet |-> "proxy", account |-> real, threshold |-> 0, signatories |-> {}]

MultisigOf(n, accounts) ==
    [pallet |-> "multisig", account |-> MultisigId(n, accounts),
     threshold |-> n, signatories |-> accounts]

\* accountId: of the last wrap, or the key.
AccountId(key, wraps) == IF wraps = <<>> THEN key ELSE Last(wraps).account

ASSUME MultisigAssumption ==
    /\ IsFiniteSet(Signatories)
    /\ Thresholds \subseteq Nat \ {0}
    /\ \A st \in Stacks :
         /\ st.wraps \in Seq(Range(st.wraps))
         /\ \A w \in Range(st.wraps) :
              w \in {Proxied(w.account), MultisigOf(w.threshold, w.signatories)}

\* A multisig can only be signed for by one of its signatories.
CanWrap(key, wraps) ==
    \A i \in DOMAIN wraps : wraps[i].pallet = "multisig" =>
        AccountId(key, SubSeq(wraps, 1, i - 1)) \in wraps[i].signatories

\* Mutant: the key is taken for the account that calls.
WrappedByKey(key, wraps) ==
    [i \in DOMAIN wraps |->
        IF wraps[i].pallet = "proxy" THEN [call |-> "proxy", real |-> wraps[i].account]
        ELSE [call |-> "as_multi", threshold |-> wraps[i].threshold,
              others |-> wraps[i].signatories \ {key}]]

\* The calls around the call, the outermost first: each creator wraps what it is given
\* and hands it on to the one inside.
Wrapped(key, wraps) ==
    [i \in DOMAIN wraps |->
        IF wraps[i].pallet = "proxy" THEN [call |-> "proxy", real |-> wraps[i].account]
        ELSE [call |-> "as_multi", threshold |-> wraps[i].threshold,
              others |-> wraps[i].signatories \ {AccountId(key, SubSeq(wraps, 1, i - 1))}]]

\* The account for which the chain runs the call inside: proxies and multisigs change
\* it, one after the other.
Origin(key, calls) ==
    LET after[n \in 0 .. Len(calls)] ==
            IF n = 0 THEN key
            ELSE IF calls[n].call = "proxy" THEN calls[n].real
            ELSE MultisigId(calls[n].threshold, calls[n].others \cup {after[n - 1]})
    IN  after[Len(calls)]

-----------------------------------------------------------------------------
(* One call of one multisig *)

\* getMultisigInfo, while the weight of the call is asked for.
AskApprovals(s) ==
    /\ read[s] = NoInfo /\ sent[s] = NoTx /\ attempts[s] < MaxAttempts
    /\ read' = [read EXCEPT ![s] =
                  [known |-> TRUE, approvals |-> approvals,
                   when |-> IF approvals = {} THEN 0 ELSE opened]]
    /\ attempts' = [attempts EXCEPT ![s] = @ + 1]
    /\ crossed' = crossed \ {s}
    /\ UNCHANGED <<stack, threshold, palletVars, sent, lateApprovals, wasted>>

\* The method, unless the user gave another rule.
Method(given) ==
    IF threshold = 1 THEN "as_multi_threshold_1"
    ELSE IF Cardinality(given) = threshold - 1 THEN "as_multi"
    ELSE "approve_as_multi"

\* A signatory that approved already is told so; its key is looked for.
SendApproval(s) ==
    /\ read[s] # NoInfo
    /\ read' = [read EXCEPT ![s] = NoInfo]
    /\ sent' = IF KeyOf[s] \in read[s].approvals /\ threshold > 1 THEN sent
               ELSE [sent EXCEPT ![s] =
                       [method |-> Method(read[s].approvals), when |-> read[s].when]]
    /\ UNCHANGED <<stack, threshold, palletVars, attempts, crossed, lateApprovals, wasted>>

\* The call is run: by one signatory, or with enough approvals.
Runs(s) ==
    \/ sent[s].method = "as_multi_threshold_1"
    \/ /\ sent[s].method = "as_multi" /\ approvals # {} /\ sent[s].when = opened
       /\ Cardinality(approvals \cup {s}) >= threshold

\* Enough approved, but none of them with the call.
AllApproved == Cardinality(approvals) >= threshold

\* An approval counts: the first one opens the operation.
Counts(s) ==
    /\ sent[s].when = IF approvals = {} THEN 0 ELSE opened
    /\ s \notin approvals /\ ~AllApproved

\* Pallet multisig. Whoever read before this has old information.
ApprovalLands(s) ==
    /\ sent[s] # NoTx
    /\ sent' = [sent EXCEPT ![s] = NoTx]
    /\ IF Runs(s)
       THEN /\ executed' = executed + 1 /\ approvals' = {} /\ lateApprovals' = {}
            /\ UNCHANGED <<opened, wasted>>
       ELSE IF Counts(s)
       THEN /\ approvals' = approvals \cup {s}
            /\ opened' = IF approvals = {} THEN opened + 1 ELSE opened
            /\ lateApprovals' = IF s \in crossed THEN lateApprovals \cup {s} ELSE lateApprovals
            /\ UNCHANGED <<executed, wasted>>
       ELSE /\ wasted' = IF s \in crossed \/ AllApproved THEN wasted ELSE wasted \cup {s}
            /\ UNCHANGED <<palletVars, lateApprovals>>
    /\ crossed' = IF palletVars' = palletVars THEN crossed
                  ELSE crossed \cup {t \in Signatories \ {s} : read[t] # NoInfo \/ sent[t] # NoTx}
    /\ UNCHANGED <<stack, threshold, read, attempts>>

MultisigInit ==
    /\ stack \in {st \in Stacks : CanWrap(st.key, st.wraps)}
    /\ threshold \in Thresholds
    /\ approvals = {} /\ opened = 0 /\ executed = 0
    /\ read = [s \in Signatories |-> NoInfo] /\ sent = [s \in Signatories |-> NoTx]
    /\ attempts = [s \in Signatories |-> 0]
    /\ crossed = {} /\ lateApprovals = {} /\ wasted = {}

MultisigNext == \E s \in Signatories : AskApprovals(s) \/ SendApproval(s) \/ ApprovalLands(s)

MultisigSpec == MultisigInit /\ [][MultisigNext]_multisigVars

-----------------------------------------------------------------------------
(* Properties *)

MultisigTypeOK ==
    /\ approvals \cup crossed \cup lateApprovals \cup wasted \subseteq Signatories
    /\ opened \in Nat /\ executed \in Nat
    /\ \A s \in Signatories : read[s] = NoInfo \/ sent[s] = NoTx

\* The chain runs the call for the account the creator says it signs for, however many
\* creators are wrapped in one another.
RunsAsAccountId ==
    Origin(stack.key, Wrapped(stack.key, stack.wraps)) = AccountId(stack.key, stack.wraps)

\* Once enough signatories approved the call it has been run: the last approval comes
\* with the call, unless two of them did not know of each other.
ApprovedIsRun == AllApproved => lateApprovals # {}

\* No signatory pays for a transaction that the chain refuses, unless one of the others
\* came first, two of them had not known of each other before and left the call approved
\* and not run, or it signs with a key that is not its own.
NothingIsWasted == \A s \in wasted : KeyOf[s] # s

MultisigsAreRight == RunsAsAccountId /\ ApprovedIsRun /\ NothingIsWasted
===============================================================================
