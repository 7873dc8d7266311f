-------------------------- MODULE TransactionsProofs --------------------------
(***************************************************************************)
(* Proofs about transactions: the device that signs, the approvals of a    *)
(* multisig, the fate of what was submitted, the nonce, watched entries,   *)
(* what is signed and what it is made of.                                  *)
(***************************************************************************)
EXTENDS TrackTx, LedgerDevice, MultisigCalls, ChainTips, WatchEntries, TxExtensions,
        SequenceLemmas, FiniteSetTheorems, TLAPS

(***************************************************************************)
(* The device.                                                             *)
(***************************************************************************)
LedgerTyped ==
  /\ step \in [LedgerCall -> {"idle", "verified", "free", "sent", "key", "info"} \cup Ended]
  /\ woken \subseteq LedgerCall
  /\ chunk \in [LedgerCall -> Nat]
  /\ owner \in [{KeyPath(c) : c \in LedgerCall} -> LedgerCall \cup {NoCall}]
  /\ shares \in [LedgerCall -> LedgerCall \cup {NoCall}]
  /\ info \in {"none", "free", "sent", "polkadot", "other", "failed"}
  /\ busy \in LedgerCall \cup {Info, NoCall}
  /\ app \in {"polkadot", "other"}
  /\ interleaved \subseteq LedgerCall
  /\ appAsked \in Nat /\ denied \in Nat
  /\ DOMAIN signed = LedgerCall

\* Who has the transport waits for its answer, and nobody else does.
TransportIsHeld ==
  /\ ~clash
  /\ \A c \in LedgerCall : step[c] = "sent" <=> busy = c
  /\ info = "sent" <=> busy = Info

\* The app is asked once; calls go on only once it is known to be the right one.
AppIsKnown ==
  /\ ~early
  /\ appAsked = IF info \in {"none", "free"} THEN 0 ELSE 1
  /\ info = "failed" => denied > 0
  /\ \A c \in LedgerCall : step[c] \in {"free", "sent"} => info = "polkadot"

\* The chunks that a call which signs alone has sent are what the device has.
ChunksAreOwn ==
  \A c \in LedgerCall :
    /\ step[c] = "idle" => chunk[c] = 0
    /\ Signing(c) =>
         /\ \A d \in LedgerCall \ {c} : Signing(d) => c \in interleaved
         /\ step[c] \in {"verified", "free", "sent"}
         /\ IF step[c] = "sent" THEN chunk[c] \in 1 .. LedgerCalls[c].chunks
                                ELSE chunk[c] \in 0 .. LedgerCalls[c].chunks - 1
         /\ c \notin interleaved /\ chunk[c] > 0 =>
              signing = [i \in 1 .. chunk[c] |-> <<c, i>>]

\* What a cached key is a promise of asks for a key.
KeysAreShared ==
  /\ \A p \in DOMAIN owner : owner[p] # NoCall => Op(owner[p]) \in {"pubkey", "show"}
  /\ \A c \in LedgerCall : shares[c] # NoCall => Op(shares[c]) \in {"pubkey", "show"}
  /\ \A c \in LedgerCall : step[c] = "key" => shares[c] # NoCall
  /\ \A c \in interleaved : Op(c) = "sign"

LedgerInv ==
  /\ LedgerTyped /\ TransportIsHeld /\ AppIsKnown /\ ChunksAreOwn /\ KeysAreShared
  /\ SignsItsMessage /\ FailsForAReason

LEMMA CallsAreCalls ==
  /\ NoCall \notin LedgerCall /\ Info \notin LedgerCall /\ NoCall # Info
  /\ \A c \in LedgerCall :
       /\ Op(c) \in {"appInfo", "pubkey", "show", "sign"}
       /\ Op(c) = "sign" => LedgerCalls[c].chunks \in Nat \ {0, 1}
       /\ KeyPath(c) \in {KeyPath(d) : d \in LedgerCall}
  /\ MaxDenied \in Nat
BY LedgerAssumption DEF LedgerCall, Op, NoCall, Info

LEMMA OneChunk == \A c : <<<<c, 1>>>> = [i \in 1 .. 1 |-> <<c, i>>]
OBVIOUS

\* One more chunk after n of them.
LEMMA NextChunk ==
  ASSUME NEW c, NEW n \in Nat \ {0}
  PROVE  /\ [i \in 1 .. n |-> <<c, i>>] # <<>>
         /\ Append([i \in 1 .. n |-> <<c, i>>], <<c, n + 1>>) = [i \in 1 .. n + 1 |-> <<c, i>>]
<1> DEFINE some == [i \in 1 .. n |-> <<c, i>>]
           all == [i \in 1 .. n + 1 |-> <<c, i>>]
           S == {<<c, i>> : i \in Nat}
<1>1. some \in Seq(S) /\ Len(some) = n
  OBVIOUS
<1>2. \A i \in 1 .. n : some[i] = <<c, i>>
  OBVIOUS
<1>3. \A i \in 1 .. n + 1 : all[i] = <<c, i>>
  OBVIOUS
<1>4. all \in Seq(S) /\ Len(all) = n + 1
  OBVIOUS
<1>e. <<c, n + 1>> \in S
  OBVIOUS
<1> HIDE DEF some, all, S
<1>5. /\ Append(some, <<c, n + 1>>) \in Seq(S)
      /\ Len(Append(some, <<c, n + 1>>)) = n + 1
      /\ \A i \in 1 .. n : Append(some, <<c, n + 1>>)[i] = some[i]
      /\ Append(some, <<c, n + 1>>)[n + 1] = <<c, n + 1>>
  BY <1>1, <1>e, AppendProperties
<1>6. ASSUME NEW i \in 1 .. n + 1 PROVE Append(some, <<c, n + 1>>)[i] = all[i]
  <2>1. CASE i \in 1 .. n
    BY <1>2, <1>3, <1>5, <2>1
  <2>2. CASE i = n + 1
    BY <1>3, <1>5, <2>2
  <2>3. n \in Nat /\ (i \in 1 .. n \/ i = n + 1)
    OBVIOUS
  <2>4. QED
    BY <2>1, <2>2, <2>3
<1>7. Append(some, <<c, n + 1>>) = all
  BY <1>4, <1>5, <1>6, SeqEqual
<1>8. some # <<>>
  BY <1>1
<1>9. QED
  BY <1>7, <1>8 DEF some, all

LEMMA VerifiedKeeps ==
  ASSUME NEW c \in LedgerCall, LedgerInv, Verified(c)
  PROVE  LedgerInv'
<1>0. /\ LedgerTyped /\ TransportIsHeld /\ AppIsKnown /\ ChunksAreOwn /\ KeysAreShared
      /\ SignsItsMessage /\ FailsForAReason
  BY DEF LedgerInv
<1>1. LedgerTyped'
  BY <1>0, CallsAreCalls DEF LedgerTyped, Verified, Ended, keyVars, deviceVars, ghostVars, ownVars
<1>2. TransportIsHeld'
  BY <1>0, CallsAreCalls DEF TransportIsHeld, LedgerTyped, Verified, Ended, keyVars, deviceVars, ghostVars, ownVars
<1>3. AppIsKnown'
  BY <1>0, CallsAreCalls DEF AppIsKnown, LedgerTyped, Verified, Ended, keyVars, deviceVars, ghostVars, ownVars
<1>4. ChunksAreOwn'
  <2>1. /\ step[c] = "verified" /\ step'[c] \in {"free", "failed"}
        /\ \A d \in LedgerCall : d # c => step'[d] = step[d]
        /\ UNCHANGED <<chunk, signing, interleaved>>
    BY <1>0 DEF LedgerTyped, Verified, keyVars, deviceVars, ghostVars, ownVars
  <2>2. \A d \in LedgerCall : Signing(d)' => Signing(d)
    BY <2>1 DEF Signing, Ended
  <2>3. QED
    BY <1>0, <2>1, <2>2 DEF ChunksAreOwn, Signing, Ended
<1>5. KeysAreShared'
  BY <1>0, CallsAreCalls DEF KeysAreShared, LedgerTyped, Verified, Ended, keyVars, deviceVars, ghostVars, ownVars
<1>6. SignsItsMessage'
  BY <1>0, CallsAreCalls DEF SignsItsMessage, LedgerTyped, OwnChunks, Signing, Verified, Ended, keyVars, deviceVars, ghostVars, ownVars
<1>7. FailsForAReason'
  BY <1>0 DEF FailsForAReason, AppIsKnown, LedgerTyped, Verified, Ended, keyVars, deviceVars, ghostVars, ownVars
<1>8. QED
  BY <1>1, <1>2, <1>3, <1>4, <1>5, <1>6, <1>7 DEF LedgerInv

LEMMA SharedKeeps ==
  ASSUME NEW c \in LedgerCall, LedgerInv, Shared(c)
  PROVE  LedgerInv'
<1>0. /\ LedgerTyped /\ TransportIsHeld /\ AppIsKnown /\ ChunksAreOwn /\ KeysAreShared
      /\ SignsItsMessage /\ FailsForAReason
  BY DEF LedgerInv
<1>1. LedgerTyped'
  BY <1>0, CallsAreCalls DEF LedgerTyped, Shared, Ended, keyVars, deviceVars, ghostVars, ownVars
<1>2. TransportIsHeld'
  BY <1>0, CallsAreCalls DEF TransportIsHeld, LedgerTyped, Shared, Ended, keyVars, deviceVars, ghostVars, ownVars
<1>3. AppIsKnown'
  BY <1>0, CallsAreCalls DEF AppIsKnown, LedgerTyped, Shared, Ended, keyVars, deviceVars, ghostVars, ownVars
<1>4. ChunksAreOwn'
  <2>1. /\ step[c] \in {"info", "key"} /\ step'[c] \in Ended
        /\ \A d \in LedgerCall : d # c => step'[d] = step[d]
        /\ UNCHANGED <<chunk, signing, interleaved>>
    BY <1>0 DEF LedgerTyped, Shared, Ended, keyVars, deviceVars, ghostVars, ownVars
  <2>2. \A d \in LedgerCall : Signing(d)' => Signing(d) /\ d # c
    BY <2>1 DEF Signing
  <2>3. QED
    BY <1>0, <2>1, <2>2 DEF ChunksAreOwn, Ended
<1>5. KeysAreShared'
  BY <1>0, CallsAreCalls DEF KeysAreShared, LedgerTyped, Shared, Ended, keyVars, deviceVars, ghostVars, ownVars
<1>6. SignsItsMessage'
  BY <1>0, CallsAreCalls DEF SignsItsMessage, LedgerTyped, OwnChunks, Signing, Shared, Ended, keyVars, deviceVars, ghostVars, ownVars
<1>7. FailsForAReason'
  <2>1. ASSUME NEW d \in LedgerCall, step'[d] = "failed"
        PROVE  denied' > 0 \/ info' = "other" \/ d \in interleaved'
    <3>1. CASE step[d] = "failed"
      BY <1>0, <3>1 DEF FailsForAReason, Shared, keyVars, deviceVars, ghostVars, ownVars
    <3>2. CASE step[d] # "failed" /\ info = "failed"
      BY <1>0, <3>2 DEF AppIsKnown, Shared, keyVars, deviceVars, ghostVars, ownVars
    <3>3. CASE step[d] # "failed" /\ info # "failed"
      <4>1. d = c /\ step[c] = "key" /\ step[shares[c]] = "failed"
        BY <1>0, <2>1, <3>3 DEF LedgerTyped, Shared
      <4>2. shares[c] \in LedgerCall /\ Op(shares[c]) # "sign"
        BY <1>0, <4>1 DEF KeysAreShared, LedgerTyped
      <4>3. QED
        BY <1>0, <4>1, <4>2 DEF FailsForAReason, KeysAreShared, Shared, keyVars, deviceVars, ghostVars, ownVars
    <3>4. QED
      BY <3>1, <3>2, <3>3
  <2>2. QED
    BY <2>1 DEF FailsForAReason
<1>8. QED
  BY <1>1, <1>2, <1>3, <1>4, <1>5, <1>6, <1>7 DEF LedgerInv

LEMMA SendChunkKeeps ==
  ASSUME NEW c \in LedgerCall, LedgerInv, SendChunk(c)
  PROVE  LedgerInv'
<1>0. /\ LedgerTyped /\ TransportIsHeld /\ AppIsKnown /\ ChunksAreOwn /\ KeysAreShared
      /\ SignsItsMessage /\ FailsForAReason
  BY DEF LedgerInv
<1>1. LedgerTyped'
  <2>1. step' \in [LedgerCall -> {"idle", "verified", "free", "sent", "key", "info"} \cup Ended]
    BY <1>0 DEF LedgerTyped, SendChunk
  <2>2. chunk' \in [LedgerCall -> Nat]
    BY <1>0 DEF LedgerTyped, SendChunk
  <2>3. woken' \subseteq LedgerCall /\ busy' \in LedgerCall \cup {Info, NoCall}
    BY <1>0 DEF LedgerTyped, SendChunk
  <2>4. UNCHANGED <<keyVars, info, app, signed, interleaved, appAsked, denied>>
    BY DEF SendChunk
  <2>5. QED
    BY <1>0, <2>1, <2>2, <2>3, <2>4 DEF LedgerTyped, keyVars
<1>2. TransportIsHeld'
  BY <1>0, CallsAreCalls DEF TransportIsHeld, LedgerTyped, SendChunk, MaySend, Ended, keyVars, deviceVars, ghostVars, ownVars
<1>3. AppIsKnown'
  BY <1>0, CallsAreCalls DEF AppIsKnown, LedgerTyped, SendChunk, MaySend, Ended, keyVars, deviceVars, ghostVars, ownVars
<1>4. ChunksAreOwn'
  <2>m. /\ step[c] = "free" /\ step'[c] = "sent"
        /\ \A d \in LedgerCall : d # c => step'[d] = step[d]
        /\ interleaved' = interleaved
    BY <1>0 DEF LedgerTyped, SendChunk, keyVars, deviceVars, ghostVars, ownVars
  <2>s. \A d \in LedgerCall : Signing(d)' <=> Signing(d)
    BY <2>m DEF Signing, Ended
  <2>1. CASE Op(c) # "sign"
    <3>1. UNCHANGED <<chunk, signing>> /\ ~Signing(c)
      BY <2>1 DEF SendChunk, Signing
    <3>2. QED
      BY <1>0, <2>m, <2>s, <3>1 DEF ChunksAreOwn
  <2>2. CASE Op(c) = "sign"
    <3>0. Signing(c)
      BY <2>2, <2>m DEF Signing, Ended
    <3>1. /\ chunk[c] \in 0 .. LedgerCalls[c].chunks - 1 /\ LedgerCalls[c].chunks \in Nat
          /\ c \notin interleaved /\ chunk[c] > 0 =>
               signing = [i \in 1 .. chunk[c] |-> <<c, i>>]
      BY <1>0, <2>2, <2>m, <3>0, CallsAreCalls DEF ChunksAreOwn
    <3>2. /\ chunk' = [chunk EXCEPT ![c] = @ + 1]
          /\ signing' = IF chunk[c] = 0 THEN <<<<c, 1>>>>
                        ELSE IF signing = <<>> THEN <<>>
                        ELSE Append(signing, <<c, chunk[c] + 1>>)
      BY <2>2 DEF SendChunk
    <3>3. /\ chunk'[c] = chunk[c] + 1 /\ chunk'[c] \in 1 .. LedgerCalls[c].chunks
          /\ \A d \in LedgerCall : d # c => chunk'[d] = chunk[d]
      BY <1>0, <3>1, <3>2 DEF LedgerTyped
    <3>4. c \notin interleaved => signing' = [i \in 1 .. chunk'[c] |-> <<c, i>>]
      <4>1. CASE chunk[c] = 0
        <5>1. signing' = <<<<c, 1>>>> /\ chunk'[c] = 1
          BY <3>2, <3>3, <4>1
        <5>2. <<<<c, 1>>>> = [i \in 1 .. 1 |-> <<c, i>>]
          BY OneChunk
        <5>3. QED
          BY <5>1, <5>2
      <4>2. CASE c \notin interleaved /\ chunk[c] # 0
        <5>1. chunk[c] \in Nat \ {0} /\ signing = [i \in 1 .. chunk[c] |-> <<c, i>>]
          BY <3>1, <4>2
        <5>2. signing # <<>> /\ Append(signing, <<c, chunk[c] + 1>>) = [i \in 1 .. chunk[c] + 1 |-> <<c, i>>]
          BY <5>1, NextChunk
        <5>3. QED
          BY <3>2, <3>3, <4>2, <5>2
      <4>3. QED
        BY <4>1, <4>2
    <3>5. ASSUME NEW d \in LedgerCall
          PROVE  /\ step'[d] = "idle" => chunk'[d] = 0
                 /\ Signing(d)' =>
                      /\ \A e \in LedgerCall \ {d} : Signing(e)' => d \in interleaved'
                      /\ step'[d] \in {"verified", "free", "sent"}
                      /\ IF step'[d] = "sent" THEN chunk'[d] \in 1 .. LedgerCalls[d].chunks
                                              ELSE chunk'[d] \in 0 .. LedgerCalls[d].chunks - 1
                      /\ d \notin interleaved' /\ chunk'[d] > 0 =>
                           signing' = [i \in 1 .. chunk'[d] |-> <<d, i>>]
      <4>1. CASE d = c
        <5>1. \A e \in LedgerCall \ {c} : Signing(e) => c \in interleaved
          BY <1>0, <3>0 DEF ChunksAreOwn
        <5>2. QED
          BY <2>m, <2>s, <3>3, <3>4, <4>1, <5>1
      <4>2. CASE d # c
        <5>1. Signing(d) => d \in interleaved
          BY <1>0, <3>0, <4>2 DEF ChunksAreOwn
        <5>2. QED
          BY <1>0, <2>m, <2>s, <3>3, <4>2, <5>1 DEF ChunksAreOwn
      <4>3. QED
        BY <4>1, <4>2
    <3>6. QED
      BY <3>5 DEF ChunksAreOwn
  <2>3. QED
    BY <2>1, <2>2
<1>5. KeysAreShared'
  BY <1>0, CallsAreCalls DEF KeysAreShared, LedgerTyped, SendChunk, MaySend, Ended, keyVars, deviceVars, ghostVars, ownVars
<1>6. SignsItsMessage'
  BY <1>0, CallsAreCalls DEF SignsItsMessage, LedgerTyped, OwnChunks, Signing, SendChunk, MaySend, Ended, keyVars, deviceVars, ghostVars, ownVars
<1>7. FailsForAReason'
  BY <1>0, CallsAreCalls DEF FailsForAReason, LedgerTyped, SendChunk, MaySend, Ended, keyVars, deviceVars, ghostVars, ownVars
<1>8. QED
  BY <1>1, <1>2, <1>3, <1>4, <1>5, <1>6, <1>7 DEF LedgerInv

LEMMA SendInfoKeeps ==
  ASSUME LedgerInv, SendInfo
  PROVE  LedgerInv'
<1>0. /\ LedgerTyped /\ TransportIsHeld /\ AppIsKnown /\ ChunksAreOwn /\ KeysAreShared
      /\ SignsItsMessage /\ FailsForAReason
  BY DEF LedgerInv
<1>1. LedgerTyped'
  BY <1>0, CallsAreCalls DEF LedgerTyped, SendInfo, MaySend, Ended, keyVars, deviceVars, ghostVars, ownVars
<1>2. TransportIsHeld'
  BY <1>0, CallsAreCalls DEF TransportIsHeld, LedgerTyped, SendInfo, MaySend, Ended, keyVars, deviceVars, ghostVars, ownVars
<1>3. AppIsKnown'
  BY <1>0, CallsAreCalls DEF AppIsKnown, LedgerTyped, SendInfo, MaySend, Ended, keyVars, deviceVars, ghostVars, ownVars
<1>4. ChunksAreOwn'
  BY <1>0, CallsAreCalls DEF ChunksAreOwn, LedgerTyped, Signing, SendInfo, MaySend, Ended, keyVars, deviceVars, ghostVars, ownVars
<1>5. KeysAreShared'
  BY <1>0, CallsAreCalls DEF KeysAreShared, LedgerTyped, SendInfo, MaySend, Ended, keyVars, deviceVars, ghostVars, ownVars
<1>6. SignsItsMessage'
  BY <1>0, CallsAreCalls DEF SignsItsMessage, LedgerTyped, OwnChunks, Signing, SendInfo, MaySend, Ended, keyVars, deviceVars, ghostVars, ownVars
<1>7. FailsForAReason'
  BY <1>0, CallsAreCalls DEF FailsForAReason, LedgerTyped, SendInfo, MaySend, Ended, keyVars, deviceVars, ghostVars, ownVars
<1>8. QED
  BY <1>1, <1>2, <1>3, <1>4, <1>5, <1>6, <1>7 DEF LedgerInv

LEMMA InfoComesKeeps ==
  ASSUME LedgerInv, InfoComes
  PROVE  LedgerInv'
<1>0. /\ LedgerTyped /\ TransportIsHeld /\ AppIsKnown /\ ChunksAreOwn /\ KeysAreShared
      /\ SignsItsMessage /\ FailsForAReason
  BY DEF LedgerInv
<1>1. LedgerTyped'
  BY <1>0, CallsAreCalls DEF LedgerTyped, InfoComes, Freed, Ended, keyVars, deviceVars, ghostVars, ownVars
<1>2. TransportIsHeld'
  BY <1>0, CallsAreCalls DEF TransportIsHeld, LedgerTyped, InfoComes, Freed, Ended, keyVars, deviceVars, ghostVars, ownVars
<1>3. AppIsKnown'
  BY <1>0 DEF AppIsKnown, TransportIsHeld, LedgerTyped, InfoComes, Freed, keyVars, deviceVars, ghostVars, ownVars
<1>4. ChunksAreOwn'
  BY <1>0, CallsAreCalls DEF ChunksAreOwn, LedgerTyped, Signing, InfoComes, Freed, Ended, keyVars, deviceVars, ghostVars, ownVars
<1>5. KeysAreShared'
  BY <1>0, CallsAreCalls DEF KeysAreShared, LedgerTyped, InfoComes, Freed, Ended, keyVars, deviceVars, ghostVars, ownVars
<1>6. SignsItsMessage'
  BY <1>0, CallsAreCalls DEF SignsItsMessage, LedgerTyped, OwnChunks, Signing, InfoComes, Freed, Ended, keyVars, deviceVars, ghostVars, ownVars
<1>7. FailsForAReason'
  <2>1. info = "sent" /\ denied' >= denied /\ step' = step /\ interleaved' = interleaved
    BY <1>0 DEF TransportIsHeld, LedgerTyped, InfoComes, keyVars, deviceVars, ghostVars, ownVars
  <2>2. denied \in Nat /\ denied' \in Nat
    BY <1>0, <1>1 DEF LedgerTyped
  <2>3. QED
    BY <1>0, <2>1, <2>2 DEF FailsForAReason
<1>8. QED
  BY <1>1, <1>2, <1>3, <1>4, <1>5, <1>6, <1>7 DEF LedgerInv

LEMMA OpenAppKeeps ==
  ASSUME LedgerInv, OpenApp
  PROVE  LedgerInv'
<1>0. /\ LedgerTyped /\ TransportIsHeld /\ AppIsKnown /\ ChunksAreOwn /\ KeysAreShared
      /\ SignsItsMessage /\ FailsForAReason
  BY DEF LedgerInv
<1>1. LedgerTyped'
  BY <1>0, CallsAreCalls DEF LedgerTyped, OpenApp, Ended, keyVars, deviceVars, ghostVars, ownVars
<1>2. TransportIsHeld'
  BY <1>0, CallsAreCalls DEF TransportIsHeld, LedgerTyped, OpenApp, Ended, keyVars, deviceVars, ghostVars, ownVars
<1>3. AppIsKnown'
  BY <1>0, CallsAreCalls DEF AppIsKnown, LedgerTyped, OpenApp, Ended, keyVars, deviceVars, ghostVars, ownVars
<1>4. ChunksAreOwn'
  BY <1>0, CallsAreCalls DEF ChunksAreOwn, LedgerTyped, Signing, OpenApp, Ended, keyVars, deviceVars, ghostVars, ownVars
<1>5. KeysAreShared'
  BY <1>0, CallsAreCalls DEF KeysAreShared, LedgerTyped, OpenApp, Ended, keyVars, deviceVars, ghostVars, ownVars
<1>6. SignsItsMessage'
  BY <1>0, CallsAreCalls DEF SignsItsMessage, LedgerTyped, OwnChunks, Signing, OpenApp, Ended, keyVars, deviceVars, ghostVars, ownVars
<1>7. FailsForAReason'
  BY <1>0, CallsAreCalls DEF FailsForAReason, LedgerTyped, OpenApp, Ended, keyVars, deviceVars, ghostVars, ownVars
<1>8. QED
  BY <1>1, <1>2, <1>3, <1>4, <1>5, <1>6, <1>7 DEF LedgerInv

LEMMA AnswerComesKeeps ==
  ASSUME NEW c \in LedgerCall, LedgerInv, AnswerComes(c)
  PROVE  LedgerInv'
<1>0. /\ LedgerTyped /\ TransportIsHeld /\ AppIsKnown /\ ChunksAreOwn /\ KeysAreShared
      /\ SignsItsMessage /\ FailsForAReason
  BY DEF LedgerInv
<1> DEFINE more == Op(c) = "sign" /\ chunk[c] < LedgerCalls[c].chunks
<1>m. /\ busy = c /\ busy' = NoCall
      /\ woken' = woken \cup {d \in LedgerCall : step[d] = "free"}
      /\ UNCHANGED <<chunk, keyVars, info, verified, app, ghostVars>>
  BY DEF AnswerComes, Freed
<1>s. step[c] = "sent"
  BY <1>0, <1>m DEF TransportIsHeld
<1>a. \/ /\ ~Lost(c) /\ denied' = denied
         /\ step' = [step EXCEPT ![c] = IF more THEN "verified" ELSE "done"]
         /\ IF Op(c) = "sign" /\ ~more
              THEN signed' = [signed EXCEPT ![c] = signing] /\ signing' = <<>>
              ELSE signed' = signed /\ signing' = signing
      \/ /\ step' = [step EXCEPT ![c] = "failed"]
         /\ signing' = IF Op(c) = "sign" THEN <<>> ELSE signing
         /\ IF Lost(c) THEN denied' = denied ELSE denied' = denied + 1
         /\ signed' = signed
  <2>1. more \in BOOLEAN
    BY DEF more
  <2>2. QED
    BY DEF AnswerComes, more
<1> HIDE DEF more
<1>e. /\ step'[c] \in {"verified", "done", "failed"}
      /\ step'[c] = "verified" => more
      /\ \A d \in LedgerCall : d # c => step'[d] = step[d]
  BY <1>0, <1>a DEF LedgerTyped
<1>d. denied' \in Nat /\ denied' >= denied
  BY <1>0, <1>a DEF LedgerTyped
<1>1. LedgerTyped'
  <2>1. step' \in [LedgerCall -> {"idle", "verified", "free", "sent", "key", "info"} \cup Ended]
    BY <1>0, <1>a DEF LedgerTyped, Ended
  <2>2. DOMAIN signed' = LedgerCall
    BY <1>0, <1>a DEF LedgerTyped
  <2>3. QED
    BY <1>0, <1>d, <1>m, <2>1, <2>2 DEF LedgerTyped, Ended, keyVars, ghostVars
<1>2. TransportIsHeld'
  BY <1>0, <1>m, <1>s, <1>e, CallsAreCalls DEF TransportIsHeld, ghostVars
<1>3. AppIsKnown'
  <2>1. info = "failed" => denied' > 0
    BY <1>0, <1>d DEF AppIsKnown, LedgerTyped
  <2>2. QED
    BY <1>0, <1>e, <1>m, <2>1 DEF AppIsKnown, ghostVars
<1>g. Signing(c) <=> Op(c) = "sign"
  BY <1>s DEF Signing, Ended
<1>h. \A d \in LedgerCall : Signing(d)' => Signing(d)
  BY <1>e, <1>g DEF Signing, more, Ended
<1>4. ChunksAreOwn'
  <2>1. ASSUME NEW d \in LedgerCall
        PROVE  /\ step'[d] = "idle" => chunk'[d] = 0
               /\ Signing(d)' =>
                    /\ \A e \in LedgerCall \ {d} : Signing(e)' => d \in interleaved'
                    /\ step'[d] \in {"verified", "free", "sent"}
                    /\ IF step'[d] = "sent" THEN chunk'[d] \in 1 .. LedgerCalls[d].chunks
                                            ELSE chunk'[d] \in 0 .. LedgerCalls[d].chunks - 1
                    /\ d \notin interleaved' /\ chunk'[d] > 0 =>
                         signing' = [i \in 1 .. chunk'[d] |-> <<d, i>>]
    <3>1. CASE d = c
      <4> SUFFICES ASSUME Signing(c)'
                   PROVE  /\ \A e \in LedgerCall \ {c} : Signing(e)' => c \in interleaved
                          /\ step'[c] = "verified"
                          /\ chunk[c] \in 0 .. LedgerCalls[c].chunks - 1
                          /\ c \notin interleaved /\ chunk[c] > 0 =>
                               signing' = [i \in 1 .. chunk[c] |-> <<c, i>>]
        BY <1>e, <1>m, <3>1 DEF ghostVars
      <4>1. step'[c] = "verified" /\ more /\ Signing(c)
        BY <1>e, <1>h DEF Signing, Ended
      <4>2. signing' = signing
        BY <1>0, <1>a, <4>1 DEF LedgerTyped
      <4>3. /\ \A e \in LedgerCall \ {c} : Signing(e) => c \in interleaved
            /\ chunk[c] \in 1 .. LedgerCalls[c].chunks
            /\ c \notin interleaved /\ chunk[c] > 0 =>
                 signing = [i \in 1 .. chunk[c] |-> <<c, i>>]
        BY <1>0, <1>s, <4>1 DEF ChunksAreOwn
      <4>4. LedgerCalls[c].chunks \in Nat /\ chunk[c] < LedgerCalls[c].chunks
        BY <4>1, CallsAreCalls DEF more
      <4>5. QED
        BY <1>h, <4>1, <4>2, <4>3, <4>4
    <3>2. CASE d # c
      <4>1. Op(c) = "sign" /\ Signing(d) => d \in interleaved
        BY <1>0, <1>g, <3>2 DEF ChunksAreOwn
      <4>2. Op(c) # "sign" => signing' = signing
        BY <1>a
      <4>3. QED
        BY <1>0, <1>e, <1>h, <1>m, <3>2, <4>1, <4>2 DEF ChunksAreOwn, ghostVars
    <3>3. QED
      BY <3>1, <3>2
  <2>2. QED
    BY <2>1 DEF ChunksAreOwn
<1>5. KeysAreShared'
  BY <1>0, <1>e, <1>m DEF KeysAreShared, keyVars, ghostVars
<1>6. SignsItsMessage'
  <2>1. ASSUME NEW d \in LedgerCall, signed'[d] # <<>>, d \notin interleaved'
        PROVE  signed'[d] = OwnChunks(d)
    <3>1. CASE signed'[d] = signed[d]
      BY <1>0, <1>m, <2>1, <3>1 DEF SignsItsMessage, ghostVars
    <3>2. CASE signed'[d] # signed[d]
      <4>1. d = c /\ Op(c) = "sign" /\ ~more /\ signed'[c] = signing
        BY <1>0, <1>a, <3>2 DEF LedgerTyped
      <4>2. /\ chunk[c] \in 1 .. LedgerCalls[c].chunks
            /\ chunk[c] > 0 => signing = [i \in 1 .. chunk[c] |-> <<c, i>>]
        BY <1>0, <1>g, <1>m, <1>s, <2>1, <4>1 DEF ChunksAreOwn, ghostVars
      <4>3. LedgerCalls[c].chunks \in Nat /\ chunk[c] \in Nat
            /\ ~(chunk[c] < LedgerCalls[c].chunks)
        BY <4>1, <4>2, CallsAreCalls DEF more
      <4>4. chunk[c] = LedgerCalls[c].chunks /\ chunk[c] > 0
        BY <4>2, <4>3
      <4>5. QED
        BY <4>1, <4>2, <4>4 DEF OwnChunks
    <3>3. QED
      BY <3>1, <3>2
  <2>2. QED
    BY <2>1 DEF SignsItsMessage
<1>7. FailsForAReason'
  <2>1. ASSUME NEW d \in LedgerCall, step'[d] = "failed"
        PROVE  denied' > 0 \/ info' = "other" \/ d \in interleaved'
    <3>1. CASE step[d] = "failed"
      <4>1. denied > 0 => denied' > 0
        BY <1>0, <1>d DEF LedgerTyped
      <4>2. QED
        BY <1>0, <1>m, <3>1, <4>1 DEF FailsForAReason, ghostVars
    <3>2. CASE step[d] # "failed"
      <4>1. d = c
        BY <1>e, <2>1, <3>2
      <4>2. CASE Lost(c)
        <5>1. Signing(c) /\ signing = <<>>
          BY <1>g, <4>2 DEF Lost
        <5>2. /\ chunk[c] \in Nat \ {0}
              /\ c \notin interleaved => signing = [i \in 1 .. chunk[c] |-> <<c, i>>]
          BY <1>0, <1>s, <5>1, CallsAreCalls DEF ChunksAreOwn, Signing
        <5>3. c \in interleaved
          BY <5>1, <5>2, NextChunk
        <5>4. QED
          BY <1>m, <4>1, <5>3 DEF ghostVars
      <4>3. CASE ~Lost(c)
        <5>1. denied' = denied + 1
          BY <1>0, <1>a, <2>1, <4>1, <4>3 DEF LedgerTyped
        <5>2. QED
          BY <1>0, <5>1 DEF LedgerTyped
      <4>4. QED
        BY <4>2, <4>3
    <3>3. QED
      BY <3>1, <3>2
  <2>2. QED
    BY <2>1 DEF FailsForAReason
<1>8. QED
  BY <1>1, <1>2, <1>3, <1>4, <1>5, <1>6, <1>7 DEF LedgerInv

LEMMA StartKeeps ==
  ASSUME NEW c \in LedgerCall, LedgerInv, Start(c)
  PROVE  LedgerInv'
<1>0. /\ LedgerTyped /\ TransportIsHeld /\ AppIsKnown /\ ChunksAreOwn /\ KeysAreShared
      /\ SignsItsMessage /\ FailsForAReason
  BY DEF LedgerInv
<1>o. /\ Op(c) \in {"appInfo", "pubkey", "show", "sign"}
      /\ KeyPath(c) \in DOMAIN owner
  BY <1>0, CallsAreCalls DEF LedgerTyped
<1>m. /\ step[c] = "idle"
      /\ interleaved' = IF Op(c) = "sign" /\ \E d \in LedgerCall : Signing(d)
                          THEN interleaved \cup {c} \cup {d \in LedgerCall : Signing(d)}
                          ELSE interleaved
      /\ UNCHANGED <<woken, chunk, infoWoken, busy, deviceVars, appAsked, early, clash, denied>>
  BY DEF Start
<1>f. info' \in {info, InfoAsked}
      /\ \E where \in {"info", "key", "verified"} :
           /\ step' = [step EXCEPT ![c] = where]
           /\ Op(c) = "sign" => where = "verified"
           /\ where = "key" =>
                /\ owner[KeyPath(c)] # NoCall
                /\ shares' = [shares EXCEPT ![c] = owner[KeyPath(c)]] /\ owner' = owner
           /\ where # "key" =>
                /\ shares' = shares
                /\ owner' \in {owner, [owner EXCEPT ![KeyPath(c)] = c]}
                /\ owner' # owner => Op(c) \in {"pubkey", "show"}
  <2>1. CASE Op(c) = "appInfo"
    BY <2>1 DEF Start, keyVars
  <2>2. CASE Op(c) = "pubkey" /\ owner[KeyPath(c)] # NoCall
    BY <2>2 DEF Start, keyVars
  <2>3. CASE Op(c) = "show" \/ (Op(c) = "pubkey" /\ owner[KeyPath(c)] = NoCall)
    BY <2>3 DEF Start, SafeSend, keyVars
  <2>4. CASE Op(c) = "sign"
    BY <2>4 DEF Start, SafeSend, keyVars
  <2>5. QED
    BY <1>o, <2>1, <2>2, <2>3, <2>4
<1>i. /\ info' \in {"none", "free", "sent", "polkadot", "other", "failed"}
      /\ info' = info \/ (info = "none" /\ info' = "free")
  BY <1>0, <1>f DEF LedgerTyped, InfoAsked
<1>s. /\ step'[c] \in {"info", "key", "verified"} /\ (Op(c) = "sign" => step'[c] = "verified")
      /\ \A d \in LedgerCall : d # c => step'[d] = step[d]
  BY <1>0, <1>f DEF LedgerTyped
<1>g. interleaved \subseteq interleaved' /\ interleaved' \subseteq LedgerCall
  BY <1>0, <1>m DEF LedgerTyped
<1>1. LedgerTyped'
  <2>1. step' \in [LedgerCall -> {"idle", "verified", "free", "sent", "key", "info"} \cup Ended]
    BY <1>0, <1>f DEF LedgerTyped
  <2>2. /\ owner' \in [{KeyPath(d) : d \in LedgerCall} -> LedgerCall \cup {NoCall}]
        /\ shares' \in [LedgerCall -> LedgerCall \cup {NoCall}]
    <3>1. owner[KeyPath(c)] \in LedgerCall \cup {NoCall}
      BY <1>0, <1>o DEF LedgerTyped
    <3>2. QED
      BY <1>0, <1>f, <3>1 DEF LedgerTyped
  <2>3. QED
    BY <1>0, <1>g, <1>i, <1>m, <2>1, <2>2 DEF LedgerTyped, deviceVars
<1>2. TransportIsHeld'
  BY <1>0, <1>i, <1>m, <1>s DEF TransportIsHeld
<1>3. AppIsKnown'
  BY <1>0, <1>i, <1>m, <1>s DEF AppIsKnown
<1>4. ChunksAreOwn'
  <2>s. /\ \A d \in LedgerCall : d # c => (Signing(d)' <=> Signing(d))
        /\ ~Signing(c) /\ (Signing(c)' <=> Op(c) = "sign")
    BY <1>m, <1>s DEF Signing, Ended
  <2>1. ASSUME NEW d \in LedgerCall
        PROVE  /\ step'[d] = "idle" => chunk'[d] = 0
               /\ Signing(d)' =>
                    /\ \A e \in LedgerCall \ {d} : Signing(e)' => d \in interleaved'
                    /\ step'[d] \in {"verified", "free", "sent"}
                    /\ IF step'[d] = "sent" THEN chunk'[d] \in 1 .. LedgerCalls[d].chunks
                                            ELSE chunk'[d] \in 0 .. LedgerCalls[d].chunks - 1
                    /\ d \notin interleaved' /\ chunk'[d] > 0 =>
                         signing' = [i \in 1 .. chunk'[d] |-> <<d, i>>]
    <3>1. CASE d = c
      <4> SUFFICES ASSUME Op(c) = "sign"
                   PROVE  /\ \A e \in LedgerCall \ {c} : Signing(e) => c \in interleaved'
                          /\ chunk[c] = 0 /\ 0 \in 0 .. LedgerCalls[c].chunks - 1
        BY <1>m, <1>s, <2>s, <3>1
      <4>1. chunk[c] = 0
        BY <1>0, <1>m DEF ChunksAreOwn
      <4>2. 0 \in 0 .. LedgerCalls[c].chunks - 1
        BY CallsAreCalls
      <4>3. QED
        BY <1>m, <4>1, <4>2
    <3>2. CASE d # c
      <4>1. Signing(d) /\ Signing(c)' => d \in interleaved'
        BY <1>m, <2>s
      <4>2. \A e \in LedgerCall \ {d} : Signing(d) /\ Signing(e)' => d \in interleaved'
        BY <1>0, <1>g, <2>s, <4>1 DEF ChunksAreOwn
      <4>3. QED
        BY <1>0, <1>g, <1>m, <1>s, <2>s, <3>2, <4>2 DEF ChunksAreOwn, deviceVars
    <3>3. QED
      BY <3>1, <3>2
  <2>2. QED
    BY <2>1 DEF ChunksAreOwn
<1>5. KeysAreShared'
  <2>1. \A p \in DOMAIN owner' : owner'[p] # NoCall => Op(owner'[p]) \in {"pubkey", "show"}
    BY <1>0, <1>f DEF KeysAreShared
  <2>2. \A d \in LedgerCall :
          /\ shares'[d] # NoCall => Op(shares'[d]) \in {"pubkey", "show"}
          /\ step'[d] = "key" => shares'[d] # NoCall
    BY <1>0, <1>f, <1>o DEF KeysAreShared, LedgerTyped
  <2>3. \A d \in interleaved' : Op(d) = "sign"
    BY <1>0, <1>m DEF KeysAreShared, Signing
  <2>4. QED
    BY <2>1, <2>2, <2>3 DEF KeysAreShared
<1>6. SignsItsMessage'
  BY <1>0, <1>g, <1>m DEF SignsItsMessage, OwnChunks, deviceVars
<1>7. FailsForAReason'
  BY <1>0, <1>g, <1>i, <1>m, <1>s DEF FailsForAReason
<1>8. QED
  BY <1>1, <1>2, <1>3, <1>4, <1>5, <1>6, <1>7 DEF LedgerInv

LEMMA LedgerInvInit == LedgerInit => LedgerInv
<1> SUFFICES ASSUME LedgerInit PROVE LedgerInv
  OBVIOUS
<1>1. LedgerTyped
  BY CallsAreCalls DEF LedgerInit, LedgerTyped
<1>2. TransportIsHeld /\ AppIsKnown /\ SignsItsMessage /\ FailsForAReason
  BY CallsAreCalls DEF LedgerInit, TransportIsHeld, AppIsKnown, SignsItsMessage, FailsForAReason
<1>3. ChunksAreOwn /\ KeysAreShared
  BY DEF LedgerInit, ChunksAreOwn, KeysAreShared, Signing
<1>4. QED
  BY <1>1, <1>2, <1>3 DEF LedgerInv

LEMMA LedgerInvNext == LedgerInv /\ [LedgerNext]_ledgerVars => LedgerInv'
<1> SUFFICES ASSUME LedgerInv, [LedgerNext]_ledgerVars PROVE LedgerInv'
  OBVIOUS
<1>1. ASSUME NEW c \in LedgerCall, Start(c) PROVE LedgerInv'
  BY <1>1, StartKeeps
<1>2. ASSUME NEW c \in LedgerCall, Verified(c) PROVE LedgerInv'
  BY <1>2, VerifiedKeeps
<1>3. ASSUME NEW c \in LedgerCall, Shared(c) PROVE LedgerInv'
  BY <1>3, SharedKeeps
<1>4. ASSUME NEW c \in LedgerCall, SendChunk(c) PROVE LedgerInv'
  BY <1>4, SendChunkKeeps
<1>5. ASSUME NEW c \in LedgerCall, AnswerComes(c) PROVE LedgerInv'
  BY <1>5, AnswerComesKeeps
<1>6. CASE SendInfo \/ InfoComes \/ OpenApp
  BY <1>6, SendInfoKeeps, InfoComesKeeps, OpenAppKeeps
<1>7. CASE UNCHANGED ledgerVars
  BY <1>7 DEF LedgerInv, LedgerTyped, TransportIsHeld, AppIsKnown, ChunksAreOwn, KeysAreShared,
              SignsItsMessage, FailsForAReason, Signing, OwnChunks, ledgerVars, ownVars,
              keyVars, deviceVars, ghostVars
<1>8. QED
  BY <1>1, <1>2, <1>3, <1>4, <1>5, <1>6, <1>7 DEF LedgerNext, Owed

\* Whatever is called on a device and whenever it denies or its user opens the app, the
\* transport has one exchange at a time, the Polkadot app is known to run before it is
\* asked, a call that signs alone gets a signature of its message, and one that fails
\* does so for a reason.
THEOREM LedgerStaysRight == LedgerSpec => []LedgerIsRight
<1>1. LedgerSpec => []LedgerInv
  BY LedgerInvInit, LedgerInvNext, PTL DEF LedgerSpec
<1>2. LedgerInv => LedgerIsRight
  <2>1. ASSUME LedgerInv PROVE appAsked <= 1
    BY <2>1 DEF LedgerInv, AppIsKnown
  <2>2. QED
    BY <2>1 DEF LedgerInv, TransportIsHeld, AppIsKnown, LedgerIsRight, NeverClashes,
                AsksTheAppFirst
<1>3. QED
  BY <1>1, <1>2, PTL

-------------------------------------------------------------------------------
(***************************************************************************)
(* Multisigs.                                                              *)
(***************************************************************************)
\* The account that the chain has after n calls is that of the first n wraps.
LEMMA OriginIsAccount ==
  ASSUME NEW key, NEW wraps, wraps \in Seq(Range(wraps)), CanWrap(key, wraps),
         \A w \in Range(wraps) :
           w \in {Proxied(w.account), MultisigOf(w.threshold, w.signatories)}
  PROVE  Origin(key, Wrapped(key, wraps)) = AccountId(key, wraps)
<1> DEFINE n == Len(wraps)
           calls == Wrapped(key, wraps)
           Account(i) == AccountId(key, SubSeq(wraps, 1, i))
           CallAt(f, i) == IF i = 0 THEN key
                         ELSE IF calls[i].call = "proxy" THEN calls[i].real
                         ELSE MultisigId(calls[i].threshold, calls[i].others \cup {f[i - 1]})
           accounts == [i \in 0 .. n |-> Account(i)]
           after == CHOOSE f : f = [i \in 0 .. n |-> CallAt(f, i)]
<1>1. n \in Nat /\ DOMAIN wraps = 1 .. n
  BY LenProperties
<1>2. Len(calls) = n
  <2>1. DOMAIN calls = 1 .. n /\ calls \in [1 .. n -> Range(calls)]
    BY <1>1 DEF Wrapped, Range
  <2> HIDE DEF calls
  <2>2. calls \in Seq(Range(calls))
    BY <1>1, <2>1, SeqDef
  <2>3. QED
    BY <1>1, <2>1, <2>2, LenProperties
<1>3. Account(0) = key
  <2>1. SubSeq(wraps, 1, 0) = <<>>
    BY SubSeqEmpty
  <2>2. QED
    BY <2>1 DEF AccountId
<1>4. ASSUME NEW i \in 1 .. n PROVE Account(i) = wraps[i].account
  <2>0. i \in Int /\ 1 \in Int /\ 1 <= i /\ i - 1 + 1 = i /\ 1 + i - 1 = i /\ i \in 1 .. i
    BY <1>1
  <2>1. \A j \in 1 .. i : wraps[j] \in Range(wraps)
    BY <1>1 DEF Range
  <2>2. /\ Len(SubSeq(wraps, 1, i)) = IF 1 <= i THEN i - 1 + 1 ELSE 0
        /\ \A j \in 1 .. i - 1 + 1 : SubSeq(wraps, 1, i)[j] = wraps[1 + j - 1]
    BY <2>0, <2>1, SubSeqProperties
  <2>3. Len(SubSeq(wraps, 1, i)) = i /\ SubSeq(wraps, 1, i)[i] = wraps[i]
    BY <2>0, <2>2
  <2>4. SubSeq(wraps, 1, i) # <<>>
    BY <2>0, <2>3
  <2>5. QED
    BY <2>3, <2>4 DEF AccountId, Last
<1>5. ASSUME NEW i \in 1 .. n PROVE Account(i) = CallAt(accounts, i)
  <2>1. wraps[i] \in Range(wraps) /\ i \in DOMAIN wraps
    BY <1>1 DEF Range
  <2>2. accounts[i - 1] = Account(i - 1)
    BY <1>1
  <2>3. i # 0
    BY <1>1
  <2> HIDE DEF accounts, Account
  <2>4. CASE wraps[i] = Proxied(wraps[i].account)
    <3>1. wraps[i].pallet = "proxy"
      BY <2>4 DEF Proxied
    <3>2. calls[i].call = "proxy" /\ calls[i].real = wraps[i].account
      BY <2>1, <3>1 DEF Wrapped
    <3>3. QED
      BY <1>4, <2>3, <3>2
  <2>5. CASE wraps[i] = MultisigOf(wraps[i].threshold, wraps[i].signatories)
    <3>0. PICK m, them : wraps[i] = MultisigOf(m, them)
      BY <2>5
    <3>1. /\ wraps[i].pallet = "multisig"
          /\ wraps[i].account = MultisigId(wraps[i].threshold, wraps[i].signatories)
      BY <3>0 DEF MultisigOf
    <3>2. Account(i - 1) \in wraps[i].signatories
      BY <2>1, <3>1 DEF CanWrap, Account
    <3>3. /\ calls[i].call = "as_multi" /\ calls[i].threshold = wraps[i].threshold
          /\ calls[i].others = wraps[i].signatories \ {Account(i - 1)}
      BY <2>1, <3>1 DEF Wrapped, Account
    <3>4. calls[i].others \cup {accounts[i - 1]} = wraps[i].signatories
      BY <2>2, <3>2, <3>3
    <3>5. QED
      BY <1>4, <2>3, <3>1, <3>3, <3>4
  <2>6. QED
    BY <2>1, <2>4, <2>5
<1>6. accounts = [i \in 0 .. n |-> CallAt(accounts, i)]
  <2>1. ASSUME NEW i \in 0 .. n PROVE accounts[i] = CallAt(accounts, i)
    <3>1. CASE i = 0
      BY <1>3, <3>1
    <3>2. CASE i # 0
      <4>1. i \in 1 .. n /\ accounts[i] = Account(i)
        BY <1>1, <3>2
      <4> HIDE DEF accounts, Account, CallAt
      <4>2. QED
        BY <1>5, <4>1
    <3>3. QED
      BY <3>1, <3>2
  <2>2. accounts = [i \in 0 .. n |-> accounts[i]]
    OBVIOUS
  <2> HIDE DEF accounts, CallAt
  <2>3. QED
    BY <2>1, <2>2, Zenon
<1>7. after = [i \in 0 .. n |-> CallAt(after, i)]
  <2> HIDE DEF accounts
  <2>1. QED
    BY <1>6
<1>8. Origin(key, calls) = after[n]
  BY <1>2 DEF Origin
<1> HIDE DEF after, accounts, calls
<1>9. \A i \in 0 .. n : after[i] = CallAt(after, i) /\ accounts[i] = CallAt(accounts, i)
  BY <1>6, <1>7
<1> DEFINE N == {i \in Nat : i <= n => after[i] = accounts[i]}
<1>10. 0 \in N
  <2>1. 0 \in 0 .. n /\ CallAt(after, 0) = key /\ CallAt(accounts, 0) = key
    BY <1>1
  <2> HIDE DEF CallAt
  <2>2. QED
    BY <1>9, <2>1
<1>11. ASSUME NEW i \in Nat, i \in N PROVE i + 1 \in N
  <2> SUFFICES ASSUME i + 1 <= n PROVE after[i + 1] = accounts[i + 1]
    OBVIOUS
  <2>1. after[i] = accounts[i]
    BY <1>1, <1>11
  <2>2. i + 1 \in 0 .. n /\ (i + 1) - 1 = i
    BY <1>1
  <2>3. QED
    BY <1>9, <2>1, <2>2
<1>12. Nat \subseteq N
  <2> HIDE DEF N
  <2>1. QED
    BY <1>10, <1>11, InductionOverNat
<1>13. after[n] = accounts[n] /\ accounts[n] = Account(n)
  <2>1. n \in Nat /\ n <= n /\ n \in 0 .. n
    BY <1>1
  <2>2. after[n] = accounts[n]
    BY <1>12, <2>1
  <2> HIDE DEF n, Account
  <2>3. QED
    BY <2>1, <2>2 DEF accounts
<1>14. Account(n) = AccountId(key, wraps)
  <2>1. SubSeq(wraps, 1, n) = wraps
    BY <1>1, SubSeqFull
  <2>2. QED
    BY <2>1
<1>15. QED
  BY <1>8, <1>13, <1>14 DEF calls

\* What the chain says of the time of the operation.
Point == IF approvals = {} THEN 0 ELSE opened

Readings == [known : {TRUE}, approvals : SUBSET Signatories, when : Nat]

Transactions ==
  [method : {"as_multi_threshold_1", "as_multi", "approve_as_multi"}, when : Nat]

MultisigTyped ==
  /\ threshold \in Nat \ {0}
  /\ approvals \subseteq Signatories
  /\ opened \in Nat
  /\ read \in [Signatories -> Readings \cup {NoInfo}]
  /\ sent \in [Signatories -> Transactions \cup {NoTx}]
  /\ \A s \in Signatories : read[s] = NoInfo \/ sent[s] = NoTx

\* What nothing crossed is as the chain has it.
UpToDate ==
  \A s \in Signatories \ crossed :
    /\ read[s] # NoInfo => read[s].approvals = approvals /\ read[s].when = Point
    /\ sent[s] # NoTx =>
         /\ sent[s].method = Method(approvals) /\ sent[s].when = Point
         /\ KeyOf[s] \in approvals => threshold = 1

StackIsLegal == stack \in Stacks /\ CanWrap(stack.key, stack.wraps)

MultisigInv ==
  MultisigTyped /\ UpToDate /\ StackIsLegal /\ ApprovedIsRun /\ NothingIsWasted

LEMMA NoInfoIsNone == NoInfo \notin Readings /\ NoTx \notin Transactions
BY DEF NoInfo, NoTx, Readings, Transactions

LEMMA AskApprovalsKeeps ==
  ASSUME NEW s \in Signatories, MultisigInv, AskApprovals(s)
  PROVE  MultisigInv'
<1>0. MultisigTyped /\ UpToDate /\ StackIsLegal /\ ApprovedIsRun /\ NothingIsWasted
  BY DEF MultisigInv
<1> DEFINE reading == [known |-> TRUE, approvals |-> approvals, when |-> Point]
<1>m. /\ read' = [read EXCEPT ![s] = reading] /\ sent[s] = NoTx
      /\ crossed' = crossed \ {s}
      /\ UNCHANGED <<stack, threshold, palletVars, sent, lateApprovals, wasted>>
  BY DEF AskApprovals, Point
<1>r. reading \in Readings /\ reading.approvals = approvals /\ reading.when = Point
  BY <1>0 DEF MultisigTyped, Readings, Point
<1> HIDE DEF reading
<1>1. MultisigTyped'
  BY <1>0, <1>m, <1>r DEF MultisigTyped, palletVars
<1>2. UpToDate'
  BY <1>0, <1>m, <1>r DEF UpToDate, MultisigTyped, Method, Point, palletVars
<1>3. StackIsLegal' /\ ApprovedIsRun' /\ NothingIsWasted'
  BY <1>0, <1>m DEF StackIsLegal, ApprovedIsRun, AllApproved, NothingIsWasted, palletVars
<1>4. QED
  BY <1>1, <1>2, <1>3 DEF MultisigInv

LEMMA SendApprovalKeeps ==
  ASSUME NEW s \in Signatories, MultisigInv, SendApproval(s)
  PROVE  MultisigInv'
<1>0. MultisigTyped /\ UpToDate /\ StackIsLegal /\ ApprovedIsRun /\ NothingIsWasted
  BY DEF MultisigInv
<1> DEFINE tx == [method |-> Method(read[s].approvals), when |-> read[s].when]
<1>m. /\ read[s] # NoInfo
      /\ read' = [read EXCEPT ![s] = NoInfo]
      /\ sent' = IF KeyOf[s] \in read[s].approvals /\ threshold > 1 THEN sent
                 ELSE [sent EXCEPT ![s] = tx]
      /\ UNCHANGED <<stack, threshold, palletVars, crossed, lateApprovals, wasted>>
  BY DEF SendApproval
<1>r. read[s] \in Readings /\ sent[s] = NoTx
  BY <1>0, <1>m DEF MultisigTyped
<1>t. /\ tx \in Transactions /\ tx.method = Method(read[s].approvals)
      /\ tx.when = read[s].when
  <2>1. Method(read[s].approvals) \in {"as_multi_threshold_1", "as_multi", "approve_as_multi"}
    BY DEF Method
  <2>2. read[s].when \in Nat
    BY <1>r DEF Readings
  <2>3. QED
    BY <2>1, <2>2 DEF Transactions
<1> HIDE DEF tx
<1>1. MultisigTyped'
  <2>1. read' \in [Signatories -> Readings \cup {NoInfo}] /\ read'[s] = NoInfo
    BY <1>0, <1>m DEF MultisigTyped
  <2>2. sent' \in [Signatories -> Transactions \cup {NoTx}]
    BY <1>0, <1>m, <1>t DEF MultisigTyped
  <2>3. \A t \in Signatories : t # s => read'[t] = read[t] /\ sent'[t] = sent[t]
    BY <1>0, <1>m DEF MultisigTyped
  <2>4. QED
    BY <1>0, <1>m, <2>1, <2>2, <2>3 DEF MultisigTyped, palletVars
<1>2. UpToDate'
  <2>1. ASSUME NEW t \in Signatories \ crossed
        PROVE  /\ read'[t] # NoInfo => read'[t].approvals = approvals /\ read'[t].when = Point
               /\ sent'[t] # NoTx =>
                    /\ sent'[t].method = Method(approvals) /\ sent'[t].when = Point
                    /\ KeyOf[t] \in approvals => threshold = 1
    <3>1. CASE t = s
      <4>1. read[s].approvals = approvals /\ read[s].when = Point
        BY <1>0, <1>m, <2>1, <3>1 DEF UpToDate
      <4>2. read'[s] = NoInfo
        BY <1>0, <1>m DEF MultisigTyped
      <4>3. CASE KeyOf[s] \in read[s].approvals /\ threshold > 1
        BY <1>m, <1>r, <3>1, <4>2, <4>3
      <4>4. CASE ~(KeyOf[s] \in read[s].approvals /\ threshold > 1)
        <5>1. sent'[s] = tx
          BY <1>0, <1>m, <4>4 DEF MultisigTyped
        <5>2. KeyOf[s] \in approvals => threshold = 1
          BY <1>0, <4>1, <4>4 DEF MultisigTyped
        <5>3. QED
          BY <1>t, <3>1, <4>1, <4>2, <5>1, <5>2
      <4>5. QED
        BY <4>3, <4>4
    <3>2. CASE t # s
      <4>1. read'[t] = read[t] /\ sent'[t] = sent[t]
        BY <1>0, <1>m, <3>2 DEF MultisigTyped
      <4>2. QED
        BY <1>0, <2>1, <4>1 DEF UpToDate
    <3>3. QED
      BY <3>1, <3>2
  <2>2. Point' = Point /\ crossed' = crossed /\ approvals' = approvals /\ threshold' = threshold
    BY <1>m DEF Point, palletVars
  <2>3. Method(approvals)' = Method(approvals)
    BY <2>2 DEF Method
  <2>4. QED
    BY <2>1, <2>2, <2>3 DEF UpToDate
<1>3. StackIsLegal' /\ ApprovedIsRun' /\ NothingIsWasted'
  BY <1>0, <1>m DEF StackIsLegal, ApprovedIsRun, AllApproved, NothingIsWasted, palletVars
<1>4. QED
  BY <1>1, <1>2, <1>3 DEF MultisigInv

LEMMA ApprovalLandsKeeps ==
  ASSUME NEW s \in Signatories, MultisigInv, ApprovalLands(s)
  PROVE  MultisigInv'
<1>0. MultisigTyped /\ UpToDate /\ StackIsLegal /\ ApprovedIsRun /\ NothingIsWasted
  BY DEF MultisigInv
<1>m. /\ sent[s] # NoTx
      /\ sent' = [sent EXCEPT ![s] = NoTx]
      /\ crossed' = IF palletVars' = palletVars THEN crossed
                    ELSE crossed \cup {t \in Signatories \ {s} : read[t] # NoInfo \/ sent[t] # NoTx}
      /\ UNCHANGED <<stack, threshold, read>>
  BY DEF ApprovalLands
<1>t. sent[s] \in Transactions /\ read[s] = NoInfo
  BY <1>0, <1>m DEF MultisigTyped
<1>f. /\ IsFiniteSet(approvals) /\ Cardinality(approvals) \in Nat
      /\ (s \notin approvals => Cardinality(approvals \cup {s}) = Cardinality(approvals) + 1)
      /\ Cardinality({}) = 0
  BY <1>0, MultisigAssumption, FS_Subset, FS_CardinalityType, FS_AddElement, FS_EmptySet
     DEF MultisigTyped
\* A transaction that nothing crossed runs the call or counts, if it can.
<1>u. ASSUME s \notin crossed, ~Runs(s)
      PROVE  /\ threshold > 1 /\ KeyOf[s] \notin approvals /\ sent[s].when = Point
             /\ s \notin approvals => Cardinality(approvals) # threshold - 1
  <2>1. /\ sent[s].method = Method(approvals) /\ sent[s].when = Point
        /\ KeyOf[s] \in approvals => threshold = 1
    BY <1>0, <1>m, <1>u DEF UpToDate
  <2>2. threshold > 1
    <3>0. threshold = 1 => Method(approvals) = "as_multi_threshold_1"
      BY DEF Method
    <3>1. threshold # 1
      BY <1>u, <2>1, <3>0 DEF Runs
    <3>2. QED
      BY <1>0, <3>1 DEF MultisigTyped
  <2>3. ASSUME s \notin approvals, Cardinality(approvals) = threshold - 1 PROVE FALSE
    <3>1. sent[s].method = "as_multi"
      BY <2>1, <2>2, <2>3 DEF Method
    <3>2. approvals # {}
      BY <1>0, <1>f, <2>2, <2>3 DEF MultisigTyped
    <3>3. Cardinality(approvals \cup {s}) >= threshold
      BY <1>0, <1>f, <2>3 DEF MultisigTyped
    <3>4. QED
      BY <1>u, <2>1, <3>1, <3>2, <3>3 DEF Runs, Point
  <2>4. QED
    BY <2>1, <2>2, <2>3
<1>c. CASE Runs(s)
  <2>1. /\ executed' = executed + 1 /\ approvals' = {} /\ lateApprovals' = {}
        /\ UNCHANGED <<opened, wasted>>
    BY <1>c DEF ApprovalLands
  <2>2. MultisigTyped'
    BY <1>0, <1>m, <2>1 DEF MultisigTyped
  <2>3. ApprovedIsRun'
    BY <1>0, <1>f, <1>m, <2>1 DEF ApprovedIsRun, AllApproved, MultisigTyped
  <2>4. StackIsLegal' /\ NothingIsWasted'
    BY <1>0, <1>m, <2>1 DEF StackIsLegal, NothingIsWasted
  <2>5. UpToDate'
    <3>1. CASE palletVars' = palletVars
      BY <1>0, <1>m, <2>1, <3>1 DEF UpToDate, MultisigTyped, Method, Point, palletVars
    <3>2. CASE palletVars' # palletVars
      BY <1>0, <1>m, <1>t, <3>2 DEF UpToDate, MultisigTyped
    <3>3. QED
      BY <3>1, <3>2
  <2>6. QED
    BY <2>2, <2>3, <2>4, <2>5 DEF MultisigInv
<1>d. CASE ~Runs(s) /\ Counts(s)
  <2>1. /\ approvals' = approvals \cup {s}
        /\ opened' = IF approvals = {} THEN opened + 1 ELSE opened
        /\ lateApprovals' = IF s \in crossed THEN lateApprovals \cup {s} ELSE lateApprovals
        /\ UNCHANGED <<executed, wasted>>
    BY <1>d DEF ApprovalLands
  <2>0. s \notin approvals /\ ~AllApproved
    BY <1>d DEF Counts
  <2>2. MultisigTyped'
    BY <1>0, <1>m, <2>1 DEF MultisigTyped
  <2>3. ApprovedIsRun'
    <3>1. CASE s \in crossed
      BY <2>1, <3>1 DEF ApprovedIsRun
    <3>2. CASE s \notin crossed
      <4>1. Cardinality(approvals) # threshold - 1
        BY <1>d, <1>u, <2>0, <3>2
      <4>2. ~(Cardinality(approvals) + 1 >= threshold)
        BY <1>0, <1>f, <2>0, <4>1 DEF AllApproved, MultisigTyped
      <4>3. QED
        BY <1>f, <1>m, <2>0, <2>1, <4>2 DEF ApprovedIsRun, AllApproved
    <3>3. QED
      BY <3>1, <3>2
  <2>4. StackIsLegal' /\ NothingIsWasted'
    BY <1>0, <1>m, <2>1 DEF StackIsLegal, NothingIsWasted
  <2>5. UpToDate'
    <3>1. palletVars' # palletVars
      BY <2>0, <2>1 DEF palletVars
    <3>2. QED
      BY <1>0, <1>m, <1>t, <3>1 DEF UpToDate, MultisigTyped
  <2>6. QED
    BY <2>2, <2>3, <2>4, <2>5 DEF MultisigInv
<1>e. CASE ~Runs(s) /\ ~Counts(s)
  <2>1. /\ wasted' = IF s \in crossed \/ AllApproved THEN wasted ELSE wasted \cup {s}
        /\ UNCHANGED <<palletVars, lateApprovals>>
    BY <1>e DEF ApprovalLands
  <2>2. MultisigTyped'
    BY <1>0, <1>m, <2>1 DEF MultisigTyped, palletVars
  <2>3. StackIsLegal' /\ ApprovedIsRun'
    BY <1>0, <1>m, <2>1 DEF StackIsLegal, ApprovedIsRun, AllApproved, palletVars
  <2>4. NothingIsWasted'
    <3>1. CASE s \in crossed \/ AllApproved
      BY <1>0, <2>1, <3>1 DEF NothingIsWasted
    <3>2. CASE s \notin crossed /\ ~AllApproved
      <4>1. sent[s].when = Point /\ KeyOf[s] \notin approvals
        BY <1>e, <1>u, <3>2
      <4>2. s \in approvals
        BY <1>e, <3>2, <4>1 DEF Counts, Point
      <4>3. QED
        BY <1>0, <2>1, <3>2, <4>1, <4>2 DEF NothingIsWasted
    <3>3. QED
      BY <3>1, <3>2
  <2>5. UpToDate'
    BY <1>0, <1>m, <2>1 DEF UpToDate, MultisigTyped, Method, Point, palletVars
  <2>6. QED
    BY <2>2, <2>3, <2>4, <2>5 DEF MultisigInv
<1>g. QED
  BY <1>c, <1>d, <1>e

LEMMA MultisigInvInit == MultisigInit => MultisigInv
<1> SUFFICES ASSUME MultisigInit PROVE MultisigInv
  OBVIOUS
<1>1. MultisigTyped
  BY MultisigAssumption DEF MultisigInit, MultisigTyped
<1>2. UpToDate
  BY DEF MultisigInit, UpToDate
<1>3. StackIsLegal /\ NothingIsWasted
  BY DEF MultisigInit, StackIsLegal, NothingIsWasted
<1>4. ApprovedIsRun
  BY <1>1, FS_EmptySet DEF MultisigInit, MultisigTyped, ApprovedIsRun, AllApproved
<1>5. QED
  BY <1>1, <1>2, <1>3, <1>4 DEF MultisigInv

LEMMA MultisigInvNext == MultisigInv /\ [MultisigNext]_multisigVars => MultisigInv'
<1> SUFFICES ASSUME MultisigInv, [MultisigNext]_multisigVars PROVE MultisigInv'
  OBVIOUS
<1>1. ASSUME NEW s \in Signatories, AskApprovals(s) \/ SendApproval(s) \/ ApprovalLands(s)
      PROVE  MultisigInv'
  BY <1>1, AskApprovalsKeeps, SendApprovalKeeps, ApprovalLandsKeeps
<1>2. CASE UNCHANGED multisigVars
  BY <1>2 DEF MultisigInv, MultisigTyped, UpToDate, StackIsLegal, ApprovedIsRun, AllApproved,
              NothingIsWasted, Method, Point, multisigVars, palletVars
<1>3. QED
  BY <1>1, <1>2 DEF MultisigNext

\* However creators are wrapped in one another, the chain runs the call for the account
\* the outer one says it signs for. With any number of signatories and any threshold, who
\* reads the approvals before it signs completes them when it is the last one, and pays
\* for nothing that is refused, unless others came between.
THEOREM MultisigsStayRight == MultisigSpec => []MultisigsAreRight
<1>1. MultisigSpec => []MultisigInv
  BY MultisigInvInit, MultisigInvNext, PTL DEF MultisigSpec
<1>2. MultisigInv => MultisigsAreRight
  <2> SUFFICES ASSUME MultisigInv PROVE MultisigsAreRight
    OBVIOUS
  <2>1. stack \in Stacks /\ CanWrap(stack.key, stack.wraps)
    BY DEF MultisigInv, StackIsLegal
  <2>2. /\ stack.wraps \in Seq(Range(stack.wraps))
        /\ \A w \in Range(stack.wraps) :
             w \in {Proxied(w.account), MultisigOf(w.threshold, w.signatories)}
    BY <2>1, MultisigAssumption
  <2>3. RunsAsAccountId
    BY <2>1, <2>2, OriginIsAccount DEF RunsAsAccountId
  <2>4. QED
    BY <2>3 DEF MultisigInv, MultisigsAreRight
<1>3. QED
  BY <1>1, <1>2, PTL

-------------------------------------------------------------------------------
(***************************************************************************)
(* The fate of a transaction.                                              *)
(***************************************************************************)
\* The blocks of which the analysis says that the transaction is there or never will be.
Settled == {"found", "failing"}

\* TypeOK, one variable at a time.
FateTyped ==
  /\ included \in Inclusions /\ invalid \in Invalidities
  /\ arrived \subseteq All /\ pinned \subseteq arrived /\ pruned \subseteq arrived
  /\ releasing \subseteq All /\ validating \subseteq All /\ held \subseteq All
  /\ leaked \subseteq All
  /\ best \in arrived /\ finalized \in Line[best]
  /\ cleanup \in BOOLEAN
  /\ phase \in {"validating", "tracking", "finalized", "invalid", "stopped"}
  /\ verdicts \subseteq BOOLEAN
  /\ present \subseteq arrived
  /\ track \in [All -> {"none", "cut"} \cup Analyzing \cup Analyzed]
  /\ latest \in All \cup {NoBlock}
  /\ others \in 0 .. MaxOthers /\ other \in BOOLEAN /\ robbed \in BOOLEAN

\* A block comes after its parent. One in another branch than the finalized block is
\* known to be pruned, and no block above that is unpinned.
BranchesArePruned ==
  /\ \A b \in arrived : Line[b] \subseteq arrived
  /\ \A b \in arrived : b \in pruned <=> b \notin Line[finalized] /\ finalized \notin Line[b]
  /\ \A b \in arrived : finalized \in Line[b] => b \in pinned

\* The holds in the map and the lost ones keep their blocks; nothing else keeps what is
\* useless for longer than the next clean-up.
HoldsKeep ==
  /\ phase # "tracking" /\ ~other => held = {}
  /\ held \cup leaked \subseteq pinned
  /\ held \cap pruned = {}
  /\ ~cleanup => {b \in pinned : Useless(b)} \subseteq held \cup releasing \cup leaked

\* What was there at the broadcast, when f was finalized.
Before(f) ==
  /\ f \in present \cap Line[finalized]
  /\ \A b \in present : track[b] = IF f \in Line[b] THEN "passed" ELSE "none"
  /\ \A b \in present : \A a \in Line[b] : f \in Line[a] => a \in present

\* A block is analysed once every block below it was, and only above f.
Analyses(f, t) ==
  /\ t \in [All -> {"none", "cut"} \cup Analyzing \cup Analyzed]
  /\ t[f] = "passed"
  /\ \A b \in All : t[b] # "none" =>
       /\ b \in arrived /\ f \in Line[b]
       /\ \A a \in Line[b] \ {b} : f \in Line[a] => t[a] = "passed"
  /\ \A b \in All :
       /\ t[b] \in {"found", "events"} => b \in included
       /\ t[b] \in {"validity", "failing"} => b \notin included
       /\ t[b] = "passed" /\ b \in included => b \in present

\* Blocks are held, or can never be released, from their arrival until they passed, or
\* one below them settled it, or another transaction released them.
Holding(f) ==
  /\ \A b \in held \ present : track[b] \in Analyzing \cup {"none"}
  /\ \A b \in All : track[b] \in Analyzing => b \in held
  /\ ~robbed => \A b \in arrived \ (present \cup pruned) : f \in Line[b] =>
       \/ b \in held \cup leaked \/ track[b] = "passed"
       \/ \E a \in Line[b] : track[a] \in Settled

\* The finalized chain did not settle it, and the user heard what the best chain says.
UpToDateReport ==
  /\ \A b \in Line[finalized] : track[b] \notin Settled
  /\ latest \in Line[best] /\ track[latest] \in Analyzed
  /\ \A b \in Line[best] : track[b] \in Analyzed => b \in Line[latest]

Tracking(f) ==
  /\ Before(f) /\ Analyses(f, track) /\ Holding(f)
  /\ ~robbed => UpToDateReport

FateInv ==
  /\ FateTyped /\ BranchesArePruned /\ HoldsKeep /\ FinalizedIsFinal
  /\ phase = "tracking" => \E f \in All : Tracking(f)

LEMMA BlocksNumbered ==
  /\ Len(ParentOf) \in Nat \ {0}
  /\ Blocks = 1 .. Len(ParentOf)
  /\ All = 0 .. Len(ParentOf)
  /\ NoBlock \notin All
  /\ Root \in All /\ Root \notin Blocks /\ 1 \in All
  /\ \A b \in Blocks : b \in All /\ ParentOf[b] \in All /\ ParentOf[b] < b
<1>1. Len(ParentOf) \in Nat /\ Blocks = 1 .. Len(ParentOf)
  BY TrackAssumption, LenProperties DEF Blocks
<1>2. \A b \in Blocks : ParentOf[b] \in 0 .. b - 1
  BY TrackAssumption
<1>3. Blocks # {}
  BY TrackAssumption
<1>4. QED
  BY <1>1, <1>2, <1>3 DEF NoBlock, Root, All

\* Induction from the root upwards.
LEMMA TreeInduction ==
  ASSUME NEW S, Root \in S, \A b \in Blocks : ParentOf[b] \in S => b \in S
  PROVE  All \subseteq S
<1> DEFINE N == {n \in Nat : \A b \in All : b <= n => b \in S}
<1>1. 0 \in N
  BY BlocksNumbered DEF Root
<1>2. ASSUME NEW n \in Nat, n \in N PROVE n + 1 \in N
  <2>1. ASSUME NEW b \in All, b <= n + 1, b # Root PROVE b \in S
    <3>1. b \in Blocks /\ ParentOf[b] \in All /\ ParentOf[b] <= n
      BY <2>1, BlocksNumbered DEF Root
    <3>2. QED
      BY <3>1, <1>2
  <2>2. QED
    BY <2>1
<1> HIDE DEF N
<1>3. Nat \subseteq N
  BY <1>1, <1>2, InductionOverNat
<1>4. \A b \in All : b \in Nat /\ b <= b
  BY BlocksNumbered
<1>5. QED
  BY <1>3, <1>4 DEF N

LEMMA LineStep ==
  /\ Line[Root] = {Root}
  /\ \A b \in Blocks : Line[b] = {b} \cup Line[ParentOf[b]]
<1> DEFINE V == SUBSET All
           start == [b \in All |-> {b}]
           below == [b \in All |-> IF b = Root THEN Root ELSE ParentOf[b]]
           F == [b \in All |-> [v \in V |-> {b} \cup v]]
           rank == [b \in All |-> b]
<1>0. /\ \A b \in All : below[b] = IF b = Root THEN Root ELSE ParentOf[b]
      /\ \A b \in All : start[b] = {b}
      /\ \A b \in All : \A v \in V : F[b][v] = {b} \cup v
  OBVIOUS
<1>a. \A b \in All : b = Root \/ b \in Blocks
  BY DEF All
<1>b. below \in [All -> All]
  BY <1>a, BlocksNumbered
<1>1. Steps(start, F, All, V)
  <2>1. \A b \in All : F[b] \in [V -> V]
    OBVIOUS
  <2>2. start \in [All -> V]
    OBVIOUS
  <2> HIDE DEF F, start
  <2>3. F \in [All -> [V -> V]]
    BY <2>1 DEF F
  <2>4. QED
    BY <2>2, <2>3 DEF Steps
<1>r. Ranks(rank, below, {Root}, All)
  <2>1. rank \in [All -> Nat]
    BY BlocksNumbered
  <2>2. \A d \in All : d \in {Root} \/ rank[below[d]] < rank[d]
    BY <1>a, BlocksNumbered, <1>b
  <2>3. QED
    BY <1>b, <2>1, <2>2 DEF Ranks
<1> HIDE DEF start, F, below, rank
<1>2. PICK g \in [All -> V] : Solves(g, start, F, below, {Root}, All)
  BY <1>1, <1>r, RecursionByRank
<1>3. \A b \in All : g[b] = {b} \cup IF b = Root THEN {} ELSE g[ParentOf[b]]
  <2> SUFFICES ASSUME NEW b \in All
               PROVE  g[b] = {b} \cup IF b = Root THEN {} ELSE g[ParentOf[b]]
    OBVIOUS
  <2>1. CASE b = Root
    BY <1>0, <1>2, <2>1 DEF Solves
  <2>2. CASE b # Root
    <3>1. g[b] = F[b][g[below[b]]]
      BY <1>2, <2>2 DEF Solves
    <3>2. below[b] = ParentOf[b] /\ below[b] \in All
      BY <1>0, <1>b, <2>2
    <3>3. g[below[b]] \in V
      BY <1>2, <3>2
    <3>4. QED
      BY <1>0, <2>2, <3>1, <3>2, <3>3
  <2>3. QED
    BY <2>1, <2>2
<1>4. g = [b \in All |-> g[b]]
  OBVIOUS
<1>5. g = [b \in All |-> {b} \cup IF b = Root THEN {} ELSE g[ParentOf[b]]]
  BY <1>3, <1>4, Zenon
<1>6. Line = [b \in All |-> {b} \cup IF b = Root THEN {} ELSE Line[ParentOf[b]]]
  BY <1>5 DEF Line
<1>7. \A b \in All : Line[b] = {b} \cup IF b = Root THEN {} ELSE Line[ParentOf[b]]
  BY <1>6
<1>8. QED
  BY <1>7, BlocksNumbered

\* Blocks are a tree: Line is its order, from the root upwards.
LEMMA LineFacts ==
  /\ \A b \in All : Line[b] \subseteq All /\ b \in Line[b] /\ Root \in Line[b]
  /\ \A a, b \in All : a \in Line[b] => a <= b
  /\ \A a, b, c \in All : a \in Line[b] /\ b \in Line[c] => a \in Line[c]
  /\ \A a, b, c \in All : a \in Line[c] /\ b \in Line[c] => a \in Line[b] \/ b \in Line[a]
  /\ \A a, b \in All : a \in Line[b] /\ b \in Line[a] => a = b
<1> DEFINE Fine(c) ==
             /\ Line[c] \subseteq All /\ c \in Line[c] /\ Root \in Line[c]
             /\ \A a \in Line[c] : a <= c /\ Line[a] \subseteq Line[c]
             /\ \A a, b \in Line[c] : a \in Line[b] \/ b \in Line[a]
           S == {c \in All : Fine(c)}
<1>1. Root \in S
  BY LineStep, BlocksNumbered DEF Root
<1>2. ASSUME NEW c \in Blocks, ParentOf[c] \in S PROVE c \in S
  <2> DEFINE p == ParentOf[c]
  <2>1. /\ Line[c] = {c} \cup Line[p] /\ p \in All /\ c \in All /\ p < c /\ Fine(p)
        /\ c \in Nat /\ p \in Nat
    BY <1>2, LineStep, BlocksNumbered
  <2> HIDE DEF p
  <2>2. Line[c] \subseteq All /\ c \in Line[c] /\ Root \in Line[c]
    BY <2>1
  <2>3. ASSUME NEW a \in Line[c] PROVE a <= c /\ Line[a] \subseteq Line[c]
    <3>1. a \in Nat
      BY <2>2, BlocksNumbered
    <3>2. QED
      BY <2>1, <3>1
  <2>4. \A a, b \in Line[c] : a \in Line[b] \/ b \in Line[a]
    BY <2>1
  <2>5. QED
    BY <2>1, <2>2, <2>3, <2>4
<1> HIDE DEF S
<1>3. All \subseteq S
  BY <1>1, <1>2, TreeInduction
<1>4. \A c \in All : Fine(c)
  BY <1>3 DEF S
<1>5. \A a, b \in All : a \in Line[b] /\ b \in Line[a] => a = b
  <2>1. \A a, b \in All : a \in Line[b] /\ b \in Line[a] => a <= b /\ b <= a
    BY <1>4
  <2>2. QED
    BY <2>1, BlocksNumbered
<1>6. QED
  BY <1>4, <1>5

LEMMA NewLine ==
  ASSUME NEW b \in Blocks
  PROVE  /\ b \in All /\ ParentOf[b] \in All
         /\ Line[b] = {b} \cup Line[ParentOf[b]]
         /\ b \notin Line[ParentOf[b]]
<1>1. b \in All /\ ParentOf[b] \in All /\ ParentOf[b] < b /\ b \in Int /\ ParentOf[b] \in Int
  BY BlocksNumbered
<1>2. b \notin Line[ParentOf[b]]
  BY <1>1, LineFacts
<1>3. QED
  BY <1>1, <1>2, LineStep

\* Heights grow along the order.
LEMMA Heights ==
  /\ \A b \in All : Height(b) \in Int
  /\ \A a, b \in All : a \in Line[b] => Height(a) <= Height(b)
  /\ \A a, b \in All : a \in Line[b] /\ a # b => Height(a) < Height(b)
<1>1. IsFiniteSet(All)
  BY BlocksNumbered, FS_Interval
<1>2. \A b \in All : IsFiniteSet(Line[b]) /\ Cardinality(Line[b]) \in Nat
  BY <1>1, LineFacts, FS_Subset, FS_CardinalityType
<1>3. ASSUME NEW a \in All, NEW b \in All, a \in Line[b], a # b
      PROVE  Cardinality(Line[a]) < Cardinality(Line[b])
  <2>1. Line[a] \subseteq Line[b]
    BY <1>3, LineFacts
  <2>2. b \in Line[b] /\ b \notin Line[a]
    BY <1>3, LineFacts
  <2>3. Cardinality(Line[a]) <= Cardinality(Line[b]) /\ Line[a] # Line[b]
    BY <1>2, <2>1, <2>2, FS_Subset
  <2>4. Cardinality(Line[a]) # Cardinality(Line[b])
    BY <1>2, <2>1, <2>3, FS_Subset
  <2>5. QED
    BY <1>2, <2>3, <2>4
<1>4. QED
  BY <1>2, <1>3 DEF Height

LEMMA Stages ==
  /\ Analyzing = {"body", "events", "validity"}
  /\ Analyzed = {"passed", "found", "failing"}
  /\ Settled = {"found", "failing"}
BY DEF Analyzing, Analyzed, Settled

\* What the walk finds is analysed.
LEMMA FirstAnalyzedIsAnalyzed ==
  ASSUME NEW t, NEW pinSet, NEW b \in All
  PROVE  LET a == FirstAnalyzed(t, pinSet, b)
         IN  a = NoBlock \/ (a \in Line[b] /\ a \in All /\ a # NoBlock /\ t[a] \in Analyzed)
<1>f. IsFiniteSet(All)
  BY BlocksNumbered, FS_Interval
<1> DEFINE met == {x \in Line[b] :
                     /\ t[x] \in Analyzed
                     /\ \A c \in Line[b] \ Line[x] : c \in pinSet /\ t[c] \notin Analyzed}
<1>0. Line[b] \subseteq All /\ All = 0 .. Len(ParentOf) /\ Len(ParentOf) \in Nat /\ NoBlock \notin All
  BY LineFacts, BlocksNumbered
<1>1. met \subseteq All /\ met \subseteq Line[b] /\ \A x \in met : t[x] \in Analyzed
  BY <1>0
<1>2. FirstAnalyzed(t, pinSet, b) = IF met = {} THEN NoBlock ELSE Max(met)
  BY Zenon DEF FirstAnalyzed
<1> HIDE DEF met
<1>3. ASSUME met # {} PROVE Max(met) \in met
  <2>1. IsFiniteSet(met)
    BY <1>1, <1>f, FS_Subset
  <2>2. met \subseteq Int
    BY <1>0, <1>1
  <2>3. \E x \in met : \A y \in met : y <= x
    BY <1>3, <2>1, <2>2, HighestExists
  <2>4. \E x \in met : \A y \in met : x >= y
    BY <2>2, <2>3
  <2>5. QED
    BY <2>4 DEF Max
<1>4. CASE met = {}
  BY <1>2, <1>4
<1>5. CASE met # {}
  BY <1>0, <1>1, <1>2, <1>3, <1>5
<1>6. QED
  BY <1>4, <1>5

\* The first analysed block below another one is the highest, if what is above it
\* is pinned.
LEMMA FirstAnalyzedIsHighest ==
  ASSUME NEW t, NEW pinSet, NEW b \in All, NEW f \in Line[b], t[f] \in Analyzed,
         \A c \in Line[b] : f \in Line[c] => t[c] \in Analyzed \/ c \in pinSet
  PROVE  /\ FirstAnalyzed(t, pinSet, b) \in Line[b]
         /\ t[FirstAnalyzed(t, pinSet, b)] \in Analyzed
         /\ \A c \in Line[b] : t[c] \in Analyzed => c \in Line[FirstAnalyzed(t, pinSet, b)]
<1> DEFINE A == {a \in Line[b] : t[a] \in Analyzed}
<1>0. Line[b] \subseteq All /\ All = 0 .. Len(ParentOf) /\ Len(ParentOf) \in Nat
  BY LineFacts, BlocksNumbered
<1>1. PICK a \in A : \A c \in A : c <= a
  <2>1. A \subseteq All
    BY <1>0
  <2>0. IsFiniteSet(All)
    BY <1>0, FS_Interval
  <2>2. IsFiniteSet(A) /\ A # {} /\ A \subseteq Int
    BY <1>0, <2>0, <2>1, FS_Subset
  <2> HIDE DEF A
  <2>3. QED
    BY <2>2, HighestExists
<1>2. \A c \in A : c \in Line[a]
  <2> SUFFICES ASSUME NEW c \in A PROVE c \in Line[a]
    OBVIOUS
  <2>1. a \in Line[c] \/ c \in Line[a]
    BY <1>0, LineFacts
  <2>2. a \in Line[c] => a <= c
    BY <1>0, LineFacts
  <2>3. a \in Line[c] => a = c
    BY <1>0, <1>1, <2>2
  <2>4. QED
    BY <1>0, <2>1, <2>3, LineFacts
<1> DEFINE met == {x \in Line[b] :
                     /\ t[x] \in Analyzed
                     /\ \A c \in Line[b] \ Line[x] : c \in pinSet /\ t[c] \notin Analyzed}
<1>3. a \in met
  <2> SUFFICES ASSUME NEW c \in Line[b], c \notin Line[a] PROVE c \in pinSet /\ t[c] \notin Analyzed
    OBVIOUS
  <2>1. t[c] \notin Analyzed
    BY <1>2
  <2>2. f \in Line[a]
    BY <1>2
  <2>3. a \in Line[c]
    BY <1>0, LineFacts
  <2>4. f \in Line[c]
    BY <1>0, <2>2, <2>3, LineFacts
  <2>5. QED
    BY <2>1, <2>4
<1>4. \A x \in met : x = a
  <2> SUFFICES ASSUME NEW x \in met PROVE x = a
    OBVIOUS
  <2>1. x \in Line[a]
    BY <1>2
  <2>2. a \in Line[x]
    BY <1>1
  <2>3. QED
    BY <1>0, <2>1, <2>2, LineFacts
<1>5. met = {a}
  BY <1>3, <1>4
<1>6. Max(met) = a
  <2>1. a >= a
    BY <1>0
  <2> HIDE DEF met
  <2>2. QED
    BY <1>5, <2>1 DEF Max
<1>7. FirstAnalyzed(t, pinSet, b) = a
  <2>1. met # {}
    BY <1>5
  <2> HIDE DEF A
  <2>2. QED
    BY <1>6, <2>1 DEF FirstAnalyzed
<1>8. QED
  BY <1>2, <1>7

\* Nothing on a chain that has the finalized block is pruned, and what is above that
\* block is pinned.
LEMMA OnChain ==
  ASSUME FateTyped, BranchesArePruned, NEW b \in arrived, finalized \in Line[b]
  PROVE  /\ b \in All /\ Line[b] \subseteq arrived /\ Line[b] \subseteq All
         /\ finalized \in All
         /\ \A c \in Line[b] : c \notin pruned /\ (c \in Line[finalized] \/ c \in pinned)
<1>1. b \in All /\ Line[b] \subseteq arrived /\ Line[b] \subseteq All /\ finalized \in All
  BY LineFacts DEF FateTyped, BranchesArePruned
<1>2. ASSUME NEW c \in Line[b] PROVE c \notin pruned /\ (c \in Line[finalized] \/ c \in pinned)
  <2>1. c \in arrived /\ c \in All
    BY <1>1
  <2>2. c \in Line[finalized] \/ finalized \in Line[c]
    BY <1>1, <2>1, LineFacts
  <2>3. QED
    BY <2>1, <2>2 DEF BranchesArePruned
<1>3. QED
  BY <1>1, <1>2

\* What is not analysed yet is pinned, on every chain that may become the best one.
LEMMA OpenIsPinned ==
  ASSUME FateTyped, BranchesArePruned, HoldsKeep, NEW b \in arrived, finalized \in Line[b],
         NEW f \in All, Tracking(f)
  PROVE  /\ f \in Line[b]
         /\ ~robbed =>
              \A c \in Line[b] : f \in Line[c] => track[c] \in Analyzed \/ c \in pinned
<1>0. /\ Before(f) /\ Holding(f) /\ (~robbed => UpToDateReport)
  BY DEF Tracking
<1>1. /\ b \in All /\ Line[b] \subseteq arrived /\ Line[b] \subseteq All /\ finalized \in All
      /\ \A c \in Line[b] : c \notin pruned /\ (c \in Line[finalized] \/ c \in pinned)
  BY OnChain
<1>2. f \in Line[finalized]
  BY <1>0 DEF Before
<1>3. f \in Line[b]
  BY <1>1, <1>2, LineFacts
<1>4. ASSUME ~robbed, NEW c \in Line[b], f \in Line[c], track[c] \notin Analyzed
      PROVE  c \in pinned
  <2>1. CASE c \in pinned
    BY <2>1
  <2>2. CASE c \in Line[finalized]
    <3>1. c \notin present
      BY <1>0, <1>4, Stages DEF Before
    <3>2. \/ c \in held \cup leaked \/ track[c] = "passed"
          \/ \E a \in Line[c] : track[a] \in Settled
      BY <1>0, <1>1, <1>4, <3>1 DEF Holding
    <3>3. \A a \in Line[c] : a \in Line[finalized]
      BY <1>1, <2>2, LineFacts
    <3>4. c \in held \cup leaked
      BY <1>0, <1>4, <3>2, <3>3, Stages DEF UpToDateReport
    <3>5. QED
      BY <3>4 DEF HoldsKeep
  <2>3. QED
    BY <1>1, <2>1, <2>2
<1>5. QED
  BY <1>3, <1>4

\* What the user hears next, if the analysis is t, the best block b and the finalized
\* block g: the highest analysed block says it.
LEMMA NextStateTells ==
  ASSUME NEW t, NEW b \in All, NEW g \in Line[b], NEW h, NEW f \in Line[g],
         Analyses(f, t), NextState(t, b, g, h), phase = "tracking",
         latest \in All \cup {NoBlock},
         ~robbed => \A c \in Line[b] : f \in Line[c] => t[c] \in Analyzed \/ c \in pinned
  PROVE  /\ track' = t /\ latest' \in All \cup {NoBlock}
         /\ phase' \in {"tracking", "finalized", "invalid"}
         /\ phase' = "tracking" => held' = h
         /\ phase' # "tracking" => held' = {}
         /\ phase' = "finalized" => latest' \in included \cap Line[g]
         /\ releasing' = releasing \cup (held \ held')
         /\ ~robbed =>
              /\ latest' \in Line[b] /\ t[latest'] \in Analyzed
              /\ \A c \in Line[b] : t[c] \in Analyzed => c \in Line[latest']
              /\ phase' = "tracking" => \A d \in Line[g] : t[d] \notin Settled
<1> DEFINE a == FirstAnalyzed(t, pinned, b)
           done == a # NoBlock /\ Height(a) <= Height(g)
<1>0. g \in All /\ f \in All /\ f \in Line[b] /\ t[f] \in Analyzed
  BY LineFacts, Stages DEF Analyses
<1>1. a = NoBlock \/ (a \in Line[b] /\ a \in All /\ a # NoBlock /\ t[a] \in Analyzed)
  BY FirstAnalyzedIsAnalyzed
<1>2. /\ track' = t /\ latest' = IF a = NoBlock THEN latest ELSE a
      /\ phase' = IF done /\ t[a] = "found" THEN "finalized"
                  ELSE IF done /\ t[a] = "failing" THEN "invalid"
                  ELSE "tracking"
      /\ held' = IF phase' = "tracking" THEN h ELSE {}
      /\ releasing' = releasing \cup (held \ held')
  BY DEF NextState
<1>3. ASSUME phase' = "finalized" PROVE latest' = a /\ a \in included \cap Line[g]
  <2>1. done /\ t[a] = "found" /\ a \in All /\ a \in Line[b] /\ latest' = a
    BY <1>1, <1>2, <1>3
  <2>2. a \in included
    BY <2>1 DEF Analyses
  <2>3. a \in Line[g] \/ g \in Line[a]
    BY <1>0, <2>1, LineFacts
  <2>4. CASE g \in Line[a] /\ a # g
    BY <1>0, <2>1, <2>4, Heights
  <2>5. QED
    BY <1>0, <2>1, <2>2, <2>3, <2>4, LineFacts
<1>4. ASSUME ~robbed
      PROVE  /\ latest' \in Line[b] /\ t[latest'] \in Analyzed
             /\ \A c \in Line[b] : t[c] \in Analyzed => c \in Line[latest']
             /\ phase' = "tracking" => \A d \in Line[g] : t[d] \notin Settled
  <2>1. /\ a \in Line[b] /\ t[a] \in Analyzed
        /\ \A c \in Line[b] : t[c] \in Analyzed => c \in Line[a]
    BY <1>0, <1>4, FirstAnalyzedIsHighest
  <2>2. a \in All /\ a # NoBlock
    BY <2>1, LineFacts, BlocksNumbered
  <2>3. ASSUME NEW d \in Line[g], t[d] \in Settled PROVE d = a /\ done
    <3>1. d \in All /\ d \in Line[b] /\ d \in Line[a]
      BY <1>0, <2>1, <2>3, LineFacts, Stages
    <3>2. f \in Line[d]
      BY <2>3, <3>1, Stages DEF Analyses
    <3>3. d = a
      BY <2>1, <2>2, <2>3, <3>1, <3>2, Stages DEF Analyses
    <3>4. QED
      BY <1>0, <2>2, <3>1, <3>3, Heights
  <2> HIDE DEF a, done
  <2>4. QED
    BY <1>2, <2>1, <2>2, <2>3, Stages
<1> HIDE DEF a, done
<1>5. QED
  BY <1>1, <1>2, <1>3, <1>4

LEMMA FateInvInit == Init => FateInv
<1> SUFFICES ASSUME Init PROVE FateInv
  OBVIOUS
<1>0. /\ included \in Inclusions /\ invalid \in Invalidities
      /\ pinned = arrived /\ pruned = {} /\ releasing = {} /\ cleanup = FALSE
      /\ best = Root /\ finalized = Root /\ phase = "validating"
      /\ validating = Tips(arrived) /\ verdicts = {} /\ present = {} /\ held = {}
      /\ track = [b \in All |-> "none"] /\ latest = NoBlock
      /\ others = 0 /\ other = FALSE /\ leaked = {} /\ robbed = FALSE
      /\ arrived = {0} \/ arrived = {0, 1}
  <2>1. \A n \in 0 .. 1 : 0 .. n = {0} \/ 0 .. n = {0, 1}
    OBVIOUS
  <2>2. QED
    BY <2>1 DEF Init
<1>1. arrived \subseteq All /\ Root \in arrived /\ \A b \in arrived : Line[b] \subseteq arrived
  <2>1. 1 \in Blocks /\ ParentOf[1] = 0 /\ Root = 0
    BY BlocksNumbered DEF Root
  <2>2. Line[1] = {0, 1} /\ Line[0] = {0}
    BY <2>1, LineStep
  <2>3. QED
    BY <1>0, <2>1, <2>2, BlocksNumbered
<1>2. \A b \in arrived : Root \in Line[b] /\ b \in Line[b]
  BY <1>1, LineFacts
<1>3. Tips(arrived) \subseteq All
  BY <1>1, BlocksNumbered DEF Tips
<1>4. FateTyped
  <2>1. 0 \in 0 .. MaxOthers
    BY TrackAssumption
  <2>2. best \in arrived /\ finalized \in Line[best] /\ validating \subseteq All
    BY <1>0, <1>1, <1>2, <1>3
  <2>3. track \in [All -> {"none", "cut"} \cup Analyzing \cup Analyzed]
    BY <1>0
  <2>4. QED
    BY <1>0, <1>1, <2>1, <2>2, <2>3 DEF FateTyped
<1>5. BranchesArePruned
  BY <1>0, <1>1, <1>2 DEF BranchesArePruned
<1>6. HoldsKeep
  <2>1. \A b \in arrived : Height(Root) <= Height(b) /\ Height(Root) \in Int /\ Height(b) \in Int
    BY <1>1, <1>2, Heights, BlocksNumbered
  <2>2. \A b \in arrived : ~Useless(b)
    BY <1>0, <2>1 DEF Useless
  <2>3. QED
    BY <1>0, <2>2 DEF HoldsKeep
<1>7. QED
  BY <1>0, <1>4, <1>5, <1>6 DEF FateInv, FinalizedIsFinal

LEMMA VerdictKeeps ==
  ASSUME FateInv, NEW b \in All, Verdict(b) PROVE FateInv'
<1>0. FateTyped /\ BranchesArePruned /\ HoldsKeep /\ phase = "validating"
  BY DEF FateInv, Verdict
<1>f. /\ UNCHANGED <<included, invalid, arrived, best, finalized, pinned, pruned, cleanup,
                     releasing, phase, present, held, track, latest, others, other, leaked,
                     robbed>>
      /\ validating' \subseteq validating
  BY DEF Verdict, chainVars, pinVars, trackVars, otherVars
<1>1. verdicts' \subseteq BOOLEAN
  <2>1. verdicts \subseteq BOOLEAN
    BY <1>0 DEF FateTyped
  <2>2. (b \notin invalid) \in BOOLEAN
    OBVIOUS
  <2>3. verdicts' = verdicts \cup {b \notin invalid}
    BY DEF Verdict
  <2>4. QED
    BY <2>1, <2>2, <2>3, Zenon
<1>2. FateTyped'
  BY <1>0, <1>f, <1>1 DEF FateTyped
<1>3. BranchesArePruned' /\ HoldsKeep' /\ FinalizedIsFinal'
  BY <1>0, <1>f DEF BranchesArePruned, HoldsKeep, FinalizedIsFinal, Useless
<1>4. QED
  BY <1>0, <1>f, <1>2, <1>3 DEF FateInv

\* The blocks that are there at the broadcast are those to track from.
LEMMA SubmitKeeps ==
  ASSUME FateInv, Submit PROVE FateInv'
<1>0. FateTyped /\ BranchesArePruned /\ HoldsKeep /\ phase = "validating"
  BY DEF FateInv, Submit
<1>f. /\ UNCHANGED <<included, invalid, arrived, best, finalized, pinned, pruned, cleanup,
                     releasing, validating, verdicts, held, others, other, leaked, robbed>>
      /\ phase' \in {"invalid", "tracking"}
      /\ phase' = "invalid" => UNCHANGED <<present, track, latest>>
      /\ phase' = "tracking" =>
           /\ present' = pinned
           /\ track' = [b \in All |->
                   IF b \in pinned \cap Descendants(finalized) THEN "passed" ELSE "none"]
           /\ latest' = best
  BY DEF Submit, chainVars, pinVars, validVars, trackVars, otherVars
<1>1. FateTyped'
  <2>1. best \in All
    BY <1>0 DEF FateTyped
  <2>2. track' \in [All -> {"none", "cut"} \cup Analyzing \cup Analyzed]
    BY <1>0, <1>f, Stages DEF FateTyped
  <2>3. present' \subseteq arrived /\ latest' \in All \cup {NoBlock}
    BY <1>0, <1>f, <2>1 DEF FateTyped
  <2>4. QED
    BY <1>0, <1>f, <2>2, <2>3 DEF FateTyped
<1>2. BranchesArePruned' /\ HoldsKeep' /\ FinalizedIsFinal'
  BY <1>0, <1>f DEF BranchesArePruned, HoldsKeep, FinalizedIsFinal, Useless
<1>3. ASSUME phase' = "tracking" PROVE Tracking(finalized)'
  <2> DEFINE f == finalized
  <2>0. /\ present' = pinned /\ latest' = best /\ held' = held /\ held \subseteq pinned
        /\ f \in All /\ f \in Line[f]
        /\ best \in arrived /\ best \in All /\ Line[best] \subseteq arrived
        /\ Line[best] \subseteq All /\ f \in Line[best]
        /\ pinned \subseteq arrived /\ arrived \subseteq All
    BY <1>0, <1>3, <1>f, OnChain, LineFacts DEF FateTyped, HoldsKeep
  <2>1. \A b \in All : track'[b] = IF b \in pinned /\ f \in Line[b] THEN "passed" ELSE "none"
    BY <1>3, <1>f DEF Descendants
  <2>2. \A b \in arrived : f \in Line[b] => b \in pinned
    BY <1>0 DEF BranchesArePruned
  <2>3. f \in pinned
    BY <2>0, <2>2
  <2>4. \A b \in arrived : Line[b] \subseteq arrived
    BY <1>0 DEF BranchesArePruned
  <2>5. Before(f)'
    <3>1. \A b \in pinned : track'[b] = IF f \in Line[b] THEN "passed" ELSE "none"
      BY <2>0, <2>1
    <3>2. \A b \in pinned : \A a \in Line[b] : f \in Line[a] => a \in pinned
      BY <2>0, <2>2, <2>4
    <3>3. QED
      BY <1>f, <2>0, <2>3, <3>1, <3>2 DEF Before
  <2>6. Analyses(f, track)'
    <3>1. track' \in [All -> {"none", "cut"} \cup Analyzing \cup Analyzed]
      BY <1>1 DEF FateTyped
    <3>2. track'[f] = "passed"
      BY <2>0, <2>1, <2>3
    <3>3. ASSUME NEW b \in All, track'[b] # "none"
          PROVE  /\ b \in arrived /\ f \in Line[b]
                 /\ \A a \in Line[b] \ {b} : f \in Line[a] => track'[a] = "passed"
      BY <2>0, <2>1, <2>2, <2>4, <3>3
    <3>4. QED
      BY <1>f, <2>0, <2>1, <3>1, <3>2, <3>3 DEF Analyses
  <2>7. Holding(f)'
    BY <1>f, <2>0, <2>1, <2>2, Stages DEF Holding
  <2>8. UpToDateReport'
    BY <1>f, <2>0, <2>1, <2>2, LineFacts, Stages DEF UpToDateReport
  <2>9. QED
    BY <1>f, <2>5, <2>6, <2>7, <2>8 DEF Tracking
<1>4. phase' = "tracking" => \E f \in All : Tracking(f)'
  <2>1. finalized \in All /\ finalized' = finalized
    BY <1>0, <1>f, LineFacts DEF FateTyped
  <2>2. QED
    BY <1>3, <2>1
<1>5. QED
  BY <1>1, <1>2, <1>4 DEF FateInv

LEMMA NewBlockKeeps ==
  ASSUME FateInv, NewBlock PROVE FateInv'
<1>0. FateTyped /\ BranchesArePruned /\ HoldsKeep /\ FinalizedIsFinal
  BY DEF FateInv
<1>1. PICK b \in Blocks \ arrived :
        /\ ParentOf[b] \in pinned /\ finalized \in Line[ParentOf[b]]
        /\ arrived' = arrived \cup {b}
        /\ pinned' = pinned \cup {b}
        /\ held' = IF phase = "tracking" \/ other THEN held \cup {b} ELSE held
        /\ leaked' = IF phase = "tracking" /\ other THEN leaked \cup {b} ELSE leaked
        /\ track' = IF phase = "tracking" /\ track[ParentOf[b]] = "passed"
                      THEN [track EXCEPT ![b] = "body"] ELSE track
  BY DEF NewBlock
<1>f. UNCHANGED <<included, invalid, best, finalized, pruned, cleanup, releasing, phase,
                  validating, verdicts, present, latest, others, other, robbed>>
  BY DEF NewBlock, validVars
<1>2. /\ b \in All /\ ParentOf[b] \in arrived /\ finalized \in Line[b] /\ finalized \in All
      /\ Line[b] = {b} \cup Line[ParentOf[b]] /\ b \notin Line[ParentOf[b]]
      /\ Line[ParentOf[b]] \subseteq arrived /\ b \in Line[b] /\ best \in All
      /\ Line[best] \subseteq arrived /\ Line[finalized] \subseteq arrived
  <2>1. ParentOf[b] \in arrived /\ best \in arrived /\ finalized \in Line[best]
    BY <1>0, <1>1 DEF FateTyped
  <2>2. finalized \in arrived
    BY <1>0, <2>1 DEF BranchesArePruned
  <2>3. QED
    BY <1>0, <1>1, <2>1, <2>2, NewLine, LineFacts DEF FateTyped, BranchesArePruned
<1>3. FateTyped'
  <2>1. track' \in [All -> {"none", "cut"} \cup Analyzing \cup Analyzed]
    BY <1>0, <1>1, Stages DEF FateTyped
  <2>2. held' \subseteq All /\ leaked' \subseteq All /\ arrived' \subseteq All
    BY <1>0, <1>1, <1>2 DEF FateTyped
  <2>3. QED
    BY <1>0, <1>1, <1>f, <2>1, <2>2 DEF FateTyped
<1>4. BranchesArePruned'
  <2>1. b \notin pruned
    BY <1>0, <1>1 DEF FateTyped
  <2>2. QED
    BY <1>0, <1>1, <1>f, <1>2, <2>1 DEF BranchesArePruned
<1>5. HoldsKeep'
  <2>1. b \notin pruned
    BY <1>0, <1>1 DEF FateTyped
  <2>2. Height(finalized) <= Height(b) /\ Height(b) \in Int /\ Height(finalized) \in Int
    BY <1>2, Heights
  <2>3. ~Useless(b)
    BY <2>1, <2>2 DEF Useless
  <2>4. /\ phase' # "tracking" /\ ~other' => held' = {}
        /\ held' \cup leaked' \subseteq pinned' /\ held' \cap pruned' = {}
    BY <1>0, <1>1, <1>f, <2>1 DEF HoldsKeep
  <2>5. \A x : Useless(x)' <=> Useless(x)
    BY <1>f DEF Useless
  <2>6. ~cleanup' => {x \in pinned' : Useless(x)'} \subseteq held' \cup releasing' \cup leaked'
    BY <1>0, <1>1, <1>f, <2>3, <2>5 DEF HoldsKeep
  <2>7. QED
    BY <2>4, <2>6 DEF HoldsKeep
<1>6. FinalizedIsFinal'
  BY <1>0, <1>f DEF FinalizedIsFinal
<1>7. ASSUME phase = "tracking", NEW f \in All, Tracking(f) PROVE Tracking(f)'
  <2>0. Before(f) /\ Analyses(f, track) /\ Holding(f) /\ (~robbed => UpToDateReport)
    BY <1>7 DEF Tracking
  <2>1. /\ b \notin present /\ b \notin pruned /\ track[b] = "none"
        /\ present \subseteq arrived
    BY <1>0, <1>1, <1>2, <2>0 DEF FateTyped, Analyses
  <2>2. f \in Line[ParentOf[b]] /\ f \in Line[b]
    BY <1>1, <1>2, <2>0, LineFacts DEF Before
  <2>3. \A c \in All : c # b => track'[c] = track[c]
    BY <1>0, <1>1 DEF FateTyped
  <2>4. /\ track'[b] \in {"none", "body"}
        /\ track'[b] = "body" => track[ParentOf[b]] = "passed"
        /\ held' = held \cup {b} /\ leaked \subseteq leaked'
    BY <1>0, <1>1, <1>2, <1>7, <2>1 DEF FateTyped
  <2>5. Before(f)'
    <3>1. \A c \in present : track'[c] = track[c]
      BY <1>0, <2>1, <2>3 DEF FateTyped
    <3>2. QED
      BY <1>f, <2>0, <3>1 DEF Before
  <2>6. Analyses(f, track)'
    <3>1. track' \in [All -> {"none", "cut"} \cup Analyzing \cup Analyzed]
      BY <1>3 DEF FateTyped
    <3>2. f # b /\ track'[f] = "passed"
      BY <1>2, <2>0, <2>2, <2>3 DEF Analyses
    <3>3. \A a \in All : track[a] = "passed" => track'[a] = "passed"
      BY <2>1, <2>3
    <3>4. ASSUME NEW c \in All, track'[c] # "none"
          PROVE  /\ c \in arrived' /\ f \in Line[c]
                 /\ \A a \in Line[c] \ {c} : f \in Line[a] => track'[a] = "passed"
      <4>1. CASE c = b
        <5>1. track[ParentOf[b]] = "passed" /\ ParentOf[b] \in All /\ Line[ParentOf[b]] \subseteq All
          BY <1>0, <1>2, <2>4, <3>4, <4>1, LineFacts DEF FateTyped
        <5>2. \A a \in Line[ParentOf[b]] : f \in Line[a] => track[a] = "passed"
          BY <2>0, <5>1 DEF Analyses
        <5>3. QED
          BY <1>1, <1>2, <2>2, <3>3, <4>1, <5>1, <5>2
      <4>2. CASE c # b
        <5>1. track[c] # "none" /\ Line[c] \subseteq All
          BY <2>3, <3>4, <4>2, LineFacts
        <5>2. QED
          BY <1>1, <2>0, <3>3, <5>1 DEF Analyses
      <4>3. QED
        BY <4>1, <4>2
    <3>5. ASSUME NEW c \in All
          PROVE  /\ track'[c] \in {"found", "events"} => c \in included
                 /\ track'[c] \in {"validity", "failing"} => c \notin included
                 /\ track'[c] = "passed" /\ c \in included => c \in present
      BY <2>0, <2>3, <2>4 DEF Analyses
    <3>6. QED
      BY <1>f, <3>1, <3>2, <3>4, <3>5 DEF Analyses
  <2>7. Holding(f)'
    <3>2. \A c \in held' \ present : track'[c] \in Analyzing \cup {"none"}
      BY <1>0, <2>0, <2>3, <2>4, Stages DEF Holding, FateTyped
    <3>3. \A c \in All : track'[c] \in Analyzing => c \in held'
      BY <2>0, <2>3, <2>4 DEF Holding
    <3>4. ASSUME ~robbed, NEW c \in arrived' \ (present \cup pruned), f \in Line[c]
          PROVE  \/ c \in held' \cup leaked' \/ track'[c] = "passed"
                 \/ \E a \in Line[c] : track'[a] \in Settled
      <4>1. CASE c = b
        BY <2>4, <4>1
      <4>2. CASE c # b
        <5>1. c \in arrived /\ c \in All /\ Line[c] \subseteq arrived /\ Line[c] \subseteq All
          BY <1>0, <1>1, <4>2, LineFacts DEF FateTyped, BranchesArePruned
        <5>2. \A a \in Line[c] : track'[a] = track[a]
          BY <1>1, <2>3, <5>1
        <5>3. c \in Line[c]
          BY <5>1, LineFacts
        <5>4. QED
          BY <2>0, <2>4, <3>4, <5>1, <5>2, <5>3 DEF Holding
      <4>3. QED
        BY <4>1, <4>2
    <3>5. QED
      BY <1>f, <3>2, <3>3, <3>4 DEF Holding
  <2>8. ~robbed => UpToDateReport'
    <3>1. \A c \in arrived : track'[c] = track[c]
      BY <1>0, <1>1, <2>3 DEF FateTyped
    <3>2. QED
      BY <1>2, <1>f, <2>0, <3>1 DEF UpToDateReport
  <2>9. QED
    BY <1>f, <2>5, <2>6, <2>7, <2>8 DEF Tracking
<1>8. QED
  BY <1>3, <1>4, <1>5, <1>6, <1>7, <1>f DEF FateInv

\* What computeNextState says keeps the invariant, if the new analysis does.
LEMMA NextStateKeeps ==
  ASSUME FateInv, phase = "tracking",
         NEW t, NEW b \in arrived, NEW g \in Line[b], NEW h \in SUBSET pinned,
         NEW f \in All, f \in Line[g], Analyses(f, t), NextState(t, b, g, h),
         ~robbed => \A c \in Line[b] : f \in Line[c] => t[c] \in Analyzed \/ c \in pinned,
         best' = b, finalized' = g,
         UNCHANGED <<included, invalid, arrived, pinned, present, verdicts, others, other,
                     leaked, robbed>>,
         pruned' \in SUBSET arrived, cleanup' \in BOOLEAN, validating' \in SUBSET validating,
         h \cap pruned' = {}, ~cleanup' => ~cleanup /\ UNCHANGED <<pruned, finalized>>,
         BranchesArePruned',
         track' = t /\ held' = h => Before(f)' /\ Holding(f)'
  PROVE  FateInv'
<1>0. FateTyped /\ HoldsKeep
  BY DEF FateInv
<1>1. b \in All /\ Line[b] \subseteq All
  BY <1>0, LineFacts DEF FateTyped
<1>2. /\ track' = t /\ latest' \in All \cup {NoBlock}
      /\ phase' \in {"tracking", "finalized", "invalid"}
      /\ phase' = "tracking" => held' = h
      /\ phase' # "tracking" => held' = {}
      /\ phase' = "finalized" => latest' \in included \cap Line[g]
      /\ releasing' = releasing \cup (held \ held')
      /\ ~robbed =>
           /\ latest' \in Line[b] /\ t[latest'] \in Analyzed
           /\ \A c \in Line[b] : t[c] \in Analyzed => c \in Line[latest']
           /\ phase' = "tracking" => \A d \in Line[g] : t[d] \notin Settled
  <2>1. latest \in All \cup {NoBlock}
    BY <1>0 DEF FateTyped
  <2>2. QED
    BY <1>1, <2>1, NextStateTells
<1>3. t \in [All -> {"none", "cut"} \cup Analyzing \cup Analyzed]
  BY DEF Analyses
<1>4. held' \subseteq pinned /\ held' \subseteq All /\ releasing' \subseteq All
  BY <1>0, <1>2 DEF FateTyped
<1>5. FateTyped'
  BY <1>0, <1>2, <1>3, <1>4 DEF FateTyped
<1>6. HoldsKeep' /\ FinalizedIsFinal'
  <2>1. /\ phase' # "tracking" /\ ~other' => held' = {}
        /\ held' \cup leaked' \subseteq pinned' /\ held' \cap pruned' = {}
    BY <1>0, <1>2, <1>4 DEF HoldsKeep
  <2>2. ~cleanup' => {c \in pinned' : Useless(c)'} \subseteq held' \cup releasing' \cup leaked'
    <3>1. ASSUME ~cleanup'
          PROVE  {c \in pinned' : Useless(c)'} \subseteq held' \cup releasing' \cup leaked'
      <4>1. ~cleanup /\ \A c : Useless(c)' <=> Useless(c)
        BY <3>1 DEF Useless
      <4>2. QED
        BY <1>0, <1>2, <4>1 DEF HoldsKeep
    <3>2. QED
      BY <3>1
  <2>3. QED
    BY <1>2, <2>1, <2>2 DEF HoldsKeep, FinalizedIsFinal
<1>7. phase' = "tracking" => Tracking(f)'
  <2> SUFFICES ASSUME phase' = "tracking" PROVE Tracking(f)'
    OBVIOUS
  <2>1. Before(f)' /\ Holding(f)'
    BY <1>2
  <2>2. Analyses(f, track)'
    <3>1. Analyses(f, t)'
      BY DEF Analyses
    <3>2. QED
      BY <1>2, <3>1 DEF Analyses
  <2>3. ~robbed' => UpToDateReport'
    BY <1>2 DEF UpToDateReport
  <2>4. QED
    BY <2>1, <2>2, <2>3 DEF Tracking
<1>8. QED
  BY <1>5, <1>6, <1>7 DEF FateInv

LEMMA BestBlockChangesKeeps ==
  ASSUME FateInv, BestBlockChanges PROVE FateInv'
<1>0. FateTyped /\ BranchesArePruned /\ HoldsKeep /\ FinalizedIsFinal
  BY DEF FateInv
<1>1. PICK b \in arrived \ {best} :
        /\ finalized \in Line[b] /\ best' = b
        /\ IF phase = "tracking" THEN NextState(track, b, finalized, held)
           ELSE UNCHANGED <<track, latest, phase, held, releasing>>
  BY DEF BestBlockChanges
<1>f. UNCHANGED <<included, invalid, arrived, finalized, pinned, pruned, cleanup, validating,
                  verdicts, present, others, other, leaked, robbed>>
  BY DEF BestBlockChanges, pinVars, validVars, otherVars
<1>2. BranchesArePruned'
  BY <1>0, <1>f DEF BranchesArePruned
<1>3. CASE phase = "tracking"
  <2>1. PICK f \in All : Tracking(f)
    BY <1>3 DEF FateInv
  <2>2. /\ f \in Line[finalized] /\ Analyses(f, track) /\ Before(f) /\ Holding(f)
    BY <2>1 DEF Tracking, Before
  <2>3. ~robbed => \A c \in Line[b] : f \in Line[c] => track[c] \in Analyzed \/ c \in pinned
    BY <1>0, <1>1, <2>1, OpenIsPinned
  <2>4. held' = held /\ track' = track => Before(f)' /\ Holding(f)'
    BY <1>f, <2>2 DEF Before, Holding
  <2>5. NextState(track, b, finalized, held)
    BY <1>1, <1>3
  <2>6. pruned' \in SUBSET arrived /\ cleanup' \in BOOLEAN /\ validating' \in SUBSET validating
    BY <1>0, <1>f DEF FateTyped
  <2>7. held \in SUBSET pinned /\ held \cap pruned' = {}
    BY <1>0, <1>f DEF HoldsKeep
  <2>8. QED
    BY <1>1, <1>2, <1>3, <1>f, <2>2, <2>3, <2>4, <2>5, <2>6, <2>7, NextStateKeeps
<1>4. CASE phase # "tracking"
  <2>1. UNCHANGED <<track, latest, phase, held, releasing>>
    BY <1>1, <1>4
  <2>2. FateTyped'
    BY <1>0, <1>1, <1>f, <2>1 DEF FateTyped
  <2>3. HoldsKeep' /\ FinalizedIsFinal'
    BY <1>0, <1>f, <2>1 DEF HoldsKeep, FinalizedIsFinal, Useless
  <2>4. QED
    BY <1>2, <1>4, <2>1, <2>2, <2>3 DEF FateInv
<1>5. QED
  BY <1>3, <1>4

LEMMA FinalizesKeeps ==
  ASSUME FateInv, Finalizes PROVE FateInv'
<1>0. FateTyped /\ BranchesArePruned /\ HoldsKeep /\ FinalizedIsFinal
  BY DEF FateInv
<1> DEFINE Gone(g) == {c \in pinned : c \notin Line[g] /\ g \notin Line[c]}
           Cut(g) == [b \in All |-> IF b \in Gone(g) /\ track[b] \in Analyzing
                                    THEN "cut" ELSE track[b]]
<1>1. PICK g \in Line[best] \ Line[finalized] :
        /\ finalized' = g
        /\ pruned' = pruned \cup Gone(g)
        /\ cleanup' = TRUE
        /\ validating' = {b \in validating : Height(b) >= Height(g)}
        /\ IF phase = "tracking" THEN NextState(Cut(g), best, g, held \ Gone(g))
           ELSE /\ held' = held \ Gone(g)
                /\ releasing' = releasing \cup (held \cap Gone(g))
                /\ UNCHANGED <<track, latest, phase>>
  BY DEF Finalizes
<1>f. UNCHANGED <<included, invalid, arrived, best, pinned, verdicts, present, others, other,
                  leaked, robbed>>
  BY DEF Finalizes, otherVars
<1> DEFINE gone == Gone(g)
           t == Cut(g)
<1>g. \A c : c \in gone <=> c \in pinned /\ c \notin Line[g] /\ g \notin Line[c]
  OBVIOUS
<1>t. \A c \in All : t[c] = IF c \in gone /\ track[c] \in Analyzing THEN "cut" ELSE track[c]
  OBVIOUS
<1>d. t \in [All -> {"none", "cut"} \cup Analyzing \cup Analyzed]
  BY <1>0 DEF FateTyped
<1>h. /\ pruned' = pruned \cup gone
      /\ IF phase = "tracking" THEN NextState(t, best, g, held \ gone)
         ELSE /\ held' = held \ gone
              /\ releasing' = releasing \cup (held \cap gone)
              /\ UNCHANGED <<track, latest, phase>>
  BY <1>1
<1> HIDE DEF gone, t
<1>2. /\ best \in arrived /\ finalized \in Line[best] /\ best \in All /\ finalized \in All
      /\ g \in All /\ g \in Line[best] /\ finalized \in Line[g] /\ pinned \subseteq arrived
      /\ g \in arrived /\ arrived \subseteq All /\ pruned \subseteq arrived
  <2>1. /\ best \in arrived /\ best \in All /\ finalized \in Line[best] /\ pinned \subseteq arrived
        /\ arrived \subseteq All /\ pruned \subseteq arrived
    BY <1>0 DEF FateTyped
  <2>2. Line[best] \subseteq arrived
    BY <1>0, <2>1 DEF BranchesArePruned
  <2>3. QED
    BY <1>1, <2>1, <2>2, LineFacts
<1>3. BranchesArePruned'
  <2>1. ASSUME NEW c \in arrived
        PROVE  /\ c \in pruned' <=> c \notin Line[g] /\ g \notin Line[c]
               /\ g \in Line[c] => c \in pinned
    <3>1. c \in All
      BY <1>2
    <3>2. /\ c \in pruned <=> c \notin Line[finalized] /\ finalized \notin Line[c]
          /\ finalized \in Line[c] => c \in pinned
      BY <1>0 DEF BranchesArePruned
    <3>3. g \in Line[c] => finalized \in Line[c]
      BY <1>2, <3>1, LineFacts
    <3>4. c \in Line[finalized] => c \in Line[g]
      BY <1>2, <3>1, LineFacts
    <3>5. c \in Line[g] => c \in Line[finalized] \/ finalized \in Line[c]
      BY <1>2, <3>1, LineFacts
    <3>6. QED
      BY <1>g, <1>h, <3>2, <3>3, <3>4, <3>5
  <2>2. QED
    BY <1>0, <1>1, <1>f, <2>1 DEF BranchesArePruned
<1>4. CASE phase = "tracking"
  <2>1. PICK f \in All : Tracking(f)
    BY <1>4 DEF FateInv
  <2>2. /\ f \in Line[finalized] /\ Analyses(f, track) /\ Before(f) /\ Holding(f)
    BY <2>1 DEF Tracking, Before
  <2>3. f \in Line[g]
    BY <1>2, <2>2, LineFacts
  <2>4. \A c \in All : /\ track[c] \notin Analyzing => t[c] = track[c]
                       /\ t[c] \in {track[c], "cut"}
                       /\ t[c] = "cut" => track[c] # "none"
    BY <1>t, Stages
  <2>5. ~robbed => \A c \in Line[best] : f \in Line[c] => t[c] \in Analyzed \/ c \in pinned
    <3>1. ~robbed => \A c \in Line[best] : f \in Line[c] => track[c] \in Analyzed \/ c \in pinned
      BY <1>0, <1>2, <2>1, OpenIsPinned
    <3>2. \A c \in Line[best] : c \in All
      BY <1>2, LineFacts
    <3>3. QED
      BY <2>4, <3>1, <3>2, Stages
  <2>6. Analyses(f, t)
    <3>0. /\ \A a \in All : track[a] = "passed" => t[a] = "passed"
          /\ \A a \in All : t[a] \notin {"cut", "none"} => t[a] = track[a]
          /\ \A a \in All : t[a] # "none" => track[a] # "none"
      BY <2>4, Stages
    <3>1. t[f] = "passed"
      BY <2>2, <3>0 DEF Analyses
    <3>2. ASSUME NEW c \in All, t[c] # "none"
          PROVE  /\ c \in arrived /\ f \in Line[c]
                 /\ \A a \in Line[c] \ {c} : f \in Line[a] => t[a] = "passed"
      <4>1. track[c] # "none" /\ Line[c] \subseteq All
        BY <3>0, <3>2, LineFacts
      <4>2. QED
        BY <2>2, <3>0, <4>1 DEF Analyses
    <3>3. ASSUME NEW c \in All
          PROVE  /\ t[c] \in {"found", "events"} => c \in included
                 /\ t[c] \in {"validity", "failing"} => c \notin included
                 /\ t[c] = "passed" /\ c \in included => c \in present
      BY <2>2, <3>0 DEF Analyses
    <3>4. QED
      BY <1>d, <3>1, <3>2, <3>3 DEF Analyses
  <2>7. ASSUME track' = t, held' = held \ gone PROVE Before(f)' /\ Holding(f)'
    <3>0. present \subseteq All
      BY <1>0, <1>2 DEF FateTyped
    <3>1. Before(f)'
      <4>1. \A c \in present : track[c] \in {"passed", "none"}
        BY <2>2 DEF Before
      <4>2. \A c \in present : t[c] = track[c]
        BY <2>4, <3>0, <4>1, Stages
      <4>3. QED
        BY <1>1, <1>f, <2>2, <2>3, <2>7, <4>2 DEF Before
    <3>3. \A c \in held' \ present : t[c] \in Analyzing \cup {"none"}
      <4>1. \A c \in held' \ present : c \in All /\ c \notin gone
        BY <1>0, <2>7 DEF FateTyped
      <4>2. QED
        BY <1>t, <2>2, <2>7, <4>1 DEF Holding
    <3>4. \A c \in All : t[c] \in Analyzing => c \in held'
      BY <1>t, <2>2, <2>7, Stages DEF Holding
    <3>5. ASSUME ~robbed, NEW c \in arrived \ (present \cup pruned'), f \in Line[c]
          PROVE  \/ c \in held' \cup leaked \/ t[c] = "passed"
                 \/ \E a \in Line[c] : t[a] \in Settled
      <4>1. Line[c] \subseteq All /\ c \in All
        BY <1>2, LineFacts
      <4>2. /\ track[c] = "passed" => t[c] = "passed"
            /\ \A a \in Line[c] : track[a] \in Settled => t[a] \in Settled
        BY <2>4, <4>1, Stages
      <4>3. QED
        BY <1>h, <2>2, <2>7, <3>5, <4>2 DEF Holding
    <3>6. QED
      BY <1>f, <2>7, <3>1, <3>3, <3>4, <3>5 DEF Holding
  <2>8. /\ NextState(t, best, g, held \ gone) /\ held \ gone \in SUBSET pinned
        /\ (held \ gone) \cap pruned' = {}
    BY <1>0, <1>4, <1>h DEF HoldsKeep
  <2>9. pruned' \in SUBSET arrived /\ cleanup' \in BOOLEAN /\ validating' \in SUBSET validating
    BY <1>1, <1>2, <1>h, <1>g
  <2>10. best' = best /\ finalized' = g /\ cleanup' = TRUE
    BY <1>1, <1>f
  <2>11. QED
    BY <1>2, <1>3, <1>4, <1>f, <2>3, <2>5, <2>6, <2>7, <2>8, <2>9, <2>10, NextStateKeeps
<1>5. CASE phase # "tracking"
  <2>1. /\ UNCHANGED <<track, latest, phase>> /\ held' = held \ gone
        /\ releasing' = releasing \cup (held \cap gone)
    BY <1>h, <1>5
  <2>2. pruned' \subseteq arrived
    BY <1>2, <1>h, <1>g
  <2>3. FateTyped'
    BY <1>0, <1>1, <1>f, <2>1, <2>2 DEF FateTyped
  <2>4. HoldsKeep'
    BY <1>0, <1>1, <1>f, <1>h, <2>1 DEF HoldsKeep
  <2>5. FinalizedIsFinal'
    <3>1. latest \in Line[finalized] => latest \in Line[g]
      BY <1>2, LineFacts
    <3>2. QED
      BY <1>0, <1>1, <1>f, <2>1, <3>1 DEF FinalizedIsFinal
  <2>6. QED
    BY <1>3, <1>5, <2>1, <2>3, <2>4, <2>5 DEF FateInv
<1>6. QED
  BY <1>4, <1>5

\* Blocks that are useless are unpinned, unless they are held.
LEMMA UnpinningKeeps ==
  ASSUME FateInv,
         UNCHANGED <<included, invalid, arrived, best, finalized, pruned, phase, validating,
                     verdicts, present, held, track, latest, others, other, leaked, robbed>>,
         releasing' \in SUBSET releasing, cleanup' \in BOOLEAN,
         pinned' \in SUBSET pinned,
         \A b \in pinned \ pinned' : Useless(b) /\ b \notin held \cup leaked,
         ~cleanup' => {b \in pinned' : Useless(b)} \subseteq held \cup releasing' \cup leaked
  PROVE  FateInv'
<1>0. FateTyped /\ BranchesArePruned /\ HoldsKeep /\ FinalizedIsFinal
  BY DEF FateInv
<1>1. /\ finalized \in All /\ pinned \subseteq All
      /\ \A b : Useless(b) <=> b \in pruned \/ Height(b) < Height(finalized)
      /\ \A b : Useless(b)' <=> Useless(b)
  BY <1>0, LineFacts DEF Useless, FateTyped
<1>2. FateTyped'
  BY <1>0 DEF FateTyped
<1>3. ASSUME NEW b \in arrived, finalized \in Line[b] PROVE b \in pinned'
  <2>1. b \in pinned /\ b \notin pruned /\ b \in All
    BY <1>0, <1>3 DEF FateTyped, BranchesArePruned
  <2>2. Height(finalized) <= Height(b) /\ Height(b) \in Int /\ Height(finalized) \in Int
    BY <1>1, <1>3, <2>1, Heights
  <2>3. ~Useless(b)
    BY <1>1, <2>1, <2>2
  <2>4. QED
    BY <2>1, <2>3
<1>4. BranchesArePruned'
  BY <1>0, <1>3 DEF BranchesArePruned
<1>5. HoldsKeep'
  <2>1. held \cup leaked \subseteq pinned' /\ held \cap pruned = {}
    BY <1>0 DEF HoldsKeep
  <2>2. ~cleanup' => {b \in pinned' : Useless(b)'} \subseteq held \cup releasing' \cup leaked
    BY <1>1
  <2>3. QED
    BY <1>0, <2>1, <2>2 DEF HoldsKeep
<1>6. FinalizedIsFinal'
  BY <1>0 DEF FinalizedIsFinal
<1>7. ASSUME NEW f \in All, Tracking(f) PROVE Tracking(f)'
  BY <1>7 DEF Tracking, Before, Analyses, Holding, UpToDateReport
<1>8. QED
  BY <1>2, <1>4, <1>5, <1>6, <1>7 DEF FateInv

LEMMA CleanUpKeeps ==
  ASSUME FateInv, CleanUp PROVE FateInv'
<1>1. /\ UNCHANGED <<included, invalid, arrived, best, finalized, pruned, phase, validating,
                     verdicts, present, held, track, latest, releasing, others, other, leaked,
                     robbed>>
      /\ cleanup' \in BOOLEAN
      /\ pinned' = {b \in pinned : Useless(b) => b \in held \cup releasing \cup leaked}
  BY DEF CleanUp, chainVars, validVars, trackVars, otherVars
<1>2. /\ releasing' \in SUBSET releasing /\ pinned' \in SUBSET pinned
      /\ \A b \in pinned \ pinned' : Useless(b) /\ b \notin held \cup leaked
      /\ {b \in pinned' : Useless(b)} \subseteq held \cup releasing' \cup leaked
  BY <1>1
<1>3. QED
  BY <1>1, <1>2, UnpinningKeeps

LEMMA ReleaseHoldKeeps ==
  ASSUME FateInv, NEW b \in All, ReleaseHold(b) PROVE FateInv'
<1>1. /\ UNCHANGED <<included, invalid, arrived, best, finalized, pruned, phase, validating,
                     verdicts, present, held, track, latest, cleanup, others, other, leaked,
                     robbed>>
      /\ releasing' = releasing \ {b} /\ b \in releasing
      /\ pinned' = IF Useless(b) /\ b \notin held \cup leaked THEN pinned \ {b} ELSE pinned
  BY DEF ReleaseHold, chainVars, validVars, trackVars, otherVars
<1>2. /\ cleanup' \in BOOLEAN
      /\ ~cleanup => {c \in pinned : Useless(c)} \subseteq held \cup releasing \cup leaked
  BY <1>1 DEF FateInv, HoldsKeep, FateTyped
<1>3. /\ releasing' \in SUBSET releasing /\ pinned' \in SUBSET pinned
      /\ \A c \in pinned \ pinned' : Useless(c) /\ c \notin held \cup leaked
      /\ ~cleanup' => {c \in pinned' : Useless(c)} \subseteq held \cup releasing' \cup leaked
  BY <1>1, <1>2
<1>4. QED
  BY <1>1, <1>2, <1>3, UnpinningKeeps

LEMMA StopKeeps ==
  ASSUME FateInv, Stop PROVE FateInv'
<1>0. FateTyped /\ BranchesArePruned /\ HoldsKeep /\ FinalizedIsFinal
  BY DEF FateInv
<1>f. /\ UNCHANGED <<included, invalid, arrived, best, finalized, pinned, pruned, cleanup,
                     verdicts, present, track, latest, others, other, leaked, robbed>>
      /\ phase' = "stopped" /\ held' = {} /\ validating' = {}
      /\ releasing' = releasing \cup held
  BY DEF Stop, chainVars, pinVars, otherVars
<1>1. FateTyped'
  BY <1>0, <1>f DEF FateTyped
<1>2. BranchesArePruned' /\ HoldsKeep' /\ FinalizedIsFinal'
  BY <1>0, <1>f DEF BranchesArePruned, HoldsKeep, FinalizedIsFinal, Useless
<1>3. QED
  BY <1>1, <1>2, <1>f DEF FateInv

\* What another transaction does: it takes holds from the map, but not those of an
\* analysis. If the invariant is to say more, they are its own.
LEMMA OthersKeep ==
  ASSUME FateInv,
         UNCHANGED <<included, invalid, arrived, best, finalized, pinned, pruned, cleanup,
                     phase, validating, verdicts, present, track, latest, leaked>>,
         others' \in 0 .. MaxOthers, other' \in BOOLEAN, robbed' \in BOOLEAN,
         held' \in SUBSET held, releasing' = releasing \cup (held \ held'),
         phase # "tracking" /\ ~other' => held' = {},
         phase = "tracking" => \A b \in held \ held' : track[b] \notin Analyzing,
         ~robbed' => ~robbed,
         phase = "tracking" /\ ~robbed' => held \ held' \subseteq present \cup leaked
  PROVE  FateInv'
<1>0. FateTyped /\ BranchesArePruned /\ HoldsKeep /\ FinalizedIsFinal
  BY DEF FateInv
<1>1. FateTyped'
  BY <1>0 DEF FateTyped
<1>2. BranchesArePruned' /\ HoldsKeep' /\ FinalizedIsFinal'
  BY <1>0 DEF BranchesArePruned, HoldsKeep, FinalizedIsFinal, Useless
<1>3. ASSUME phase = "tracking", NEW f \in All, Tracking(f) PROVE Tracking(f)'
  <2>0. Before(f) /\ Analyses(f, track) /\ Holding(f) /\ (~robbed => UpToDateReport)
    BY <1>3 DEF Tracking
  <2>1. Before(f)' /\ Analyses(f, track)' /\ (~robbed' => UpToDateReport')
    BY <2>0 DEF Before, Analyses, UpToDateReport
  <2>2. Holding(f)'
    <3>1. \A c \in All : track[c] \in Analyzing => c \in held'
      BY <1>3, <2>0 DEF Holding
    <3>2. ~robbed' => \A c \in arrived \ (present \cup pruned) :
                        c \in held \cup leaked => c \in held' \cup leaked
      BY <1>3
    <3>3. QED
      BY <2>0, <3>1, <3>2 DEF Holding
  <2>3. QED
    BY <2>1, <2>2 DEF Tracking
<1>4. QED
  BY <1>1, <1>2, <1>3 DEF FateInv

\* What the other one still holds are blocks that it shares with this one.
LEMMA TheirHolds ==
  /\ Theirs \subseteq held
  /\ phase = "tracking" => /\ Theirs \subseteq present \cup leaked
                           /\ \A b \in Theirs : track[b] \notin Analyzing
BY DEF Theirs

LEMMA OtherStartsKeeps ==
  ASSUME FateInv, OtherStarts PROVE FateInv'
<1>0. others \in 0 .. MaxOthers /\ robbed \in BOOLEAN /\ MaxOthers \in Nat
  BY TrackAssumption DEF FateInv, FateTyped
<1>1. /\ UNCHANGED <<included, invalid, arrived, best, finalized, pinned, pruned, cleanup,
                     phase, validating, verdicts, present, track, latest, leaked, held,
                     releasing, robbed>>
      /\ others' = others + 1 /\ others < MaxOthers /\ other' = TRUE
  BY DEF OtherStarts, chainVars, pinVars, validVars, trackVars
<1>2. /\ others' \in 0 .. MaxOthers /\ other' \in BOOLEAN /\ robbed' \in BOOLEAN
      /\ held' \in SUBSET held /\ held \ held' = {}
  BY <1>0, <1>1
<1>3. QED
  BY <1>1, <1>2, OthersKeep

LEMMA OtherReleasesKeeps ==
  ASSUME FateInv, NEW b \in All, OtherReleases(b) PROVE FateInv'
<1>0. FateTyped
  BY DEF FateInv
<1>1. /\ UNCHANGED <<included, invalid, arrived, best, finalized, pinned, pruned, cleanup,
                     phase, validating, verdicts, present, track, latest, leaked, others, other,
                     robbed>>
      /\ other /\ b \in Theirs /\ held' = held \ {b} /\ releasing' = releasing \cup {b}
  BY DEF OtherReleases, chainVars, pinVars, validVars, otherVars
<1>2. /\ others' \in 0 .. MaxOthers /\ other' \in BOOLEAN /\ robbed' \in BOOLEAN
      /\ held' \in SUBSET held /\ held \ held' = {b} /\ releasing' = releasing \cup (held \ held')
  BY <1>0, <1>1, TheirHolds DEF FateTyped
<1>3. phase = "tracking" => b \in present \cup leaked /\ track[b] \notin Analyzing
  BY <1>1, TheirHolds
<1>4. QED
  BY <1>1, <1>2, <1>3, OthersKeep

LEMMA OtherEndsKeeps ==
  ASSUME FateInv, OtherEnds PROVE FateInv'
<1>0. FateTyped
  BY DEF FateInv
<1>1. /\ UNCHANGED <<included, invalid, arrived, best, finalized, pinned, pruned, cleanup,
                     phase, validating, verdicts, present, track, latest, leaked, others>>
      /\ other' = FALSE
      /\ held' = {b \in held : phase = "tracking" /\ track[b] \in Analyzing}
      /\ releasing' = releasing \cup (held \ held')
      /\ robbed' = (robbed \/ ~((held \ held') \subseteq Theirs))
  BY DEF OtherEnds, chainVars, pinVars, validVars
<1>2. /\ others' \in 0 .. MaxOthers /\ other' \in BOOLEAN /\ held' \in SUBSET held
  BY <1>0, <1>1 DEF FateTyped
<1>3. robbed' \in BOOLEAN /\ (~robbed' => ~robbed /\ held \ held' \subseteq Theirs)
  <2>1. robbed \in BOOLEAN
    BY <1>0 DEF FateTyped
  <2>2. QED
    BY <1>1, <2>1
<1>4. phase = "tracking" /\ ~robbed' => held \ held' \subseteq present \cup leaked
  BY <1>3, TheirHolds
<1>5. /\ phase # "tracking" /\ ~other' => held' = {}
      /\ phase = "tracking" => \A b \in held \ held' : track[b] \notin Analyzing
  BY <1>1
<1>6. QED
  BY <1>1, <1>2, <1>3, <1>4, <1>5, OthersKeep

LEMMA BodyComesKeeps ==
  ASSUME FateInv, NEW b \in All, BodyComes(b) PROVE FateInv'
<1>0. FateTyped /\ BranchesArePruned /\ HoldsKeep /\ FinalizedIsFinal
  BY DEF FateInv
<1>f. /\ phase = "tracking" /\ track[b] = "body"
      /\ track' = [track EXCEPT ![b] = IF b \in included THEN "events" ELSE "validity"]
      /\ UNCHANGED <<included, invalid, arrived, best, finalized, pinned, pruned, cleanup,
                     releasing, phase, validating, verdicts, present, held, latest, others,
                     other, leaked, robbed>>
  BY DEF BodyComes, chainVars, pinVars, validVars, otherVars
<1>1. /\ track'[b] = IF b \in included THEN "events" ELSE "validity"
      /\ \A c \in All : c # b => track'[c] = track[c]
      /\ \A c \in All : track'[c] # "none" => track[c] # "none"
      /\ \A c \in All : track'[c] \in {"passed", "found", "failing"}
                          => track'[c] = track[c]
      /\ \A c \in All : track[c] \in {"passed", "found", "failing"}
                          => track'[c] = track[c]
      /\ \A c \in All : track'[c] \in Analyzing <=> track[c] \in Analyzing
  BY <1>0, <1>f, Stages DEF FateTyped
<1>2. FateTyped'
  <2>1. track' \in [All -> {"none", "cut"} \cup Analyzing \cup Analyzed]
    BY <1>0, <1>f, Stages DEF FateTyped
  <2>2. QED
    BY <1>0, <1>f, <2>1 DEF FateTyped
<1>3. BranchesArePruned' /\ HoldsKeep' /\ FinalizedIsFinal'
  BY <1>0, <1>f DEF BranchesArePruned, HoldsKeep, FinalizedIsFinal, Useless
<1>4. ASSUME NEW f \in All, Tracking(f) PROVE Tracking(f)'
  <2>0. Before(f) /\ Analyses(f, track) /\ Holding(f) /\ (~robbed => UpToDateReport)
    BY <1>4 DEF Tracking
  <2>1. Before(f)'
    <3>1. \A c \in present : c # b /\ c \in All
      BY <1>0, <1>f, <2>0 DEF Before, FateTyped
    <3>2. QED
      BY <1>1, <1>f, <2>0, <3>1 DEF Before
  <2>2. Analyses(f, track)'
    <3>1. track' \in [All -> {"none", "cut"} \cup Analyzing \cup Analyzed] /\ track'[f] = "passed"
      BY <1>1, <1>2, <2>0 DEF FateTyped, Analyses
    <3>2. ASSUME NEW c \in All, track'[c] # "none"
          PROVE  /\ c \in arrived /\ f \in Line[c]
                 /\ \A a \in Line[c] \ {c} : f \in Line[a] => track'[a] = "passed"
      <4>1. track[c] # "none" /\ Line[c] \subseteq All
        BY <1>1, <3>2, LineFacts
      <4>2. QED
        BY <1>1, <2>0, <4>1 DEF Analyses
    <3>3. ASSUME NEW c \in All
          PROVE  /\ track'[c] \in {"found", "events"} => c \in included
                 /\ track'[c] \in {"validity", "failing"} => c \notin included
                 /\ track'[c] = "passed" /\ c \in included => c \in present
      BY <1>1, <2>0 DEF Analyses
    <3>4. QED
      BY <1>f, <3>1, <3>2, <3>3 DEF Analyses
  <2>3. Holding(f)'
    <3>1. /\ held \subseteq All /\ arrived \subseteq All /\ \A c \in arrived : Line[c] \subseteq All
      BY <1>0, LineFacts DEF FateTyped
    <3>2. \A c \in held \ present : track'[c] \in Analyzing \cup {"none"}
      BY <1>1, <2>0, <3>1 DEF Holding
    <3>3. \A c \in All : track'[c] \in Analyzing => c \in held
      BY <1>1, <2>0 DEF Holding
    <3>4. ~robbed => \A c \in arrived \ (present \cup pruned) : f \in Line[c] =>
            \/ c \in held \cup leaked \/ track'[c] = "passed"
            \/ \E a \in Line[c] : track'[a] \in Settled
      BY <1>1, <2>0, <3>1, Stages DEF Holding
    <3>5. QED
      BY <1>f, <2>0, <3>2, <3>3, <3>4 DEF Holding
  <2>4. ~robbed' => UpToDateReport'
    <3>1. Line[finalized] \subseteq All /\ Line[best] \subseteq All
      BY <1>0, LineFacts DEF FateTyped
    <3>2. QED
      BY <1>1, <1>f, <2>0, <3>1, Stages DEF UpToDateReport
  <2>5. QED
    BY <2>1, <2>2, <2>3, <2>4 DEF Tracking
<1>5. QED
  BY <1>2, <1>3, <1>4, <1>f DEF FateInv

\* The analysis of a block ends; nothing above it is held after that, or its children
\* are next.
LEMMA OutcomeKeeps ==
  ASSUME FateInv, phase = "tracking", NEW b \in All,
         NEW w \in Analyzed, NEW t, NEW h, NEW n \in SUBSET (pinned \ pruned),
         track[b] \in Analyzing,
         t \in [All -> {"none", "cut"} \cup Analyzing \cup Analyzed], t[b] = w,
         \A c \in All \ {b} :
           \/ t[c] = track[c] /\ c \notin n
           \/ /\ t[c] \in {"body", "cut"} /\ w = "passed"
              /\ c \in Blocks \cap pinned /\ ParentOf[c] = b
              /\ (t[c] = "body" <=> c \in n) /\ (t[c] = "cut" <=> c \in pruned),
         b \notin n,
         w = "found" => b \in included,
         w # "found" => b \notin included,
         h = (held \ {c \in All : IF w = "passed" THEN c = b ELSE b \in Line[c]}) \cup n,
         NextState(t, best, finalized, h),
         UNCHANGED <<included, invalid, arrived, best, finalized, pinned, pruned, cleanup,
                     validating, verdicts, present, others, other, leaked, robbed>>
  PROVE  FateInv'
<1>0. FateTyped /\ BranchesArePruned /\ HoldsKeep /\ FinalizedIsFinal
  BY DEF FateInv
<1>1. PICK f \in All : Tracking(f)
  BY DEF FateInv
<1>2. /\ f \in Line[finalized] /\ f \in present /\ Analyses(f, track) /\ Before(f)
      /\ Holding(f)
  BY <1>1 DEF Tracking, Before
<1>3. /\ best \in arrived /\ finalized \in Line[best] /\ best \in All
      /\ present \subseteq All /\ arrived \subseteq All /\ pinned \subseteq arrived
      /\ \A c \in All : c \in Line[c] /\ Line[c] \subseteq All
  BY <1>0, LineFacts DEF FateTyped
<1>4. b \notin present /\ b \in held /\ b \in arrived /\ f \in Line[b]
  BY <1>2, <1>3, Stages DEF Before, Holding, Analyses
\* Nothing above an analysis has one.
<1>5. ASSUME NEW c \in All, b \in Line[c], c # b
      PROVE  track[c] = "none" /\ c \notin present
  <2>1. f \in Line[c]
    BY <1>4, <1>5, LineFacts
  <2>2. track[c] = "none"
    BY <1>2, <1>4, <1>5, Stages DEF Analyses
  <2>3. QED
    BY <1>2, <2>1, <2>2 DEF Before
<1>6. ASSUME NEW c \in All \ {b}, t[c] # track[c]
      PROVE  /\ t[c] \in {"body", "cut"} /\ w = "passed"
             /\ c \in pinned /\ Line[c] = {c} \cup Line[b]
             /\ (t[c] = "body" <=> c \in n) /\ (t[c] = "cut" <=> c \in pruned)
             /\ track[c] = "none" /\ c \notin present /\ b \in Line[c]
  <2>1. /\ t[c] \in {"body", "cut"} /\ w = "passed"
        /\ c \in Blocks \cap pinned /\ ParentOf[c] = b
        /\ (t[c] = "body" <=> c \in n) /\ (t[c] = "cut" <=> c \in pruned)
    BY <1>6
  <2>2. Line[c] = {c} \cup Line[b] /\ b \in Line[c]
    BY <1>3, <2>1, NewLine
  <2>3. QED
    BY <1>5, <2>1, <2>2
<1>7. \A c \in All : track[c] \in Analyzed => t[c] = track[c] /\ c # b
  BY <1>6, Stages
<1>8. \A c \in present : t[c] = track[c]
  BY <1>3, <1>4, <1>6
<1>9. ~robbed => \A c \in Line[best] : f \in Line[c] => t[c] \in Analyzed \/ c \in pinned
  <2>1. ~robbed => \A c \in Line[best] : f \in Line[c] => track[c] \in Analyzed \/ c \in pinned
    BY <1>0, <1>1, <1>3, OpenIsPinned
  <2>2. QED
    BY <1>3, <1>7, <2>1
<1>10. Analyses(f, t)
  <2>1. t[f] = "passed"
    BY <1>2, <1>8, Stages DEF Analyses
  <2>2. ASSUME NEW c \in All, t[c] # "none"
        PROVE  /\ c \in arrived /\ f \in Line[c]
               /\ \A a \in Line[c] \ {c} : f \in Line[a] => t[a] = "passed"
    <3>1. CASE t[c] = track[c] \/ c = b
      <4>1. track[c] # "none" /\ Line[c] \subseteq All
        BY <1>3, <2>2, <3>1, Stages
      <4>2. QED
        BY <1>2, <1>7, <4>1, Stages DEF Analyses
    <3>2. CASE t[c] # track[c] /\ c # b
      <4>1. /\ w = "passed" /\ c \in pinned /\ Line[c] = {c} \cup Line[b] /\ b \in Line[c]
        BY <1>6, <3>2
      <4>2. \A a \in Line[b] \ {b} : f \in Line[a] => track[a] = "passed"
        BY <1>2, Stages DEF Analyses
      <4>3. \A a \in Line[b] : f \in Line[a] => t[a] = "passed"
        BY <1>3, <1>7, <4>1, <4>2, Stages
      <4>4. QED
        BY <1>3, <1>4, <4>1, <4>3, LineFacts
    <3>3. QED
      BY <3>1, <3>2
  <2>3. ASSUME NEW c \in All
        PROVE  /\ t[c] \in {"found", "events"} => c \in included
               /\ t[c] \in {"validity", "failing"} => c \notin included
               /\ t[c] = "passed" /\ c \in included => c \in present
    <3>1. CASE c = b
      BY <3>1, Stages
    <3>2. CASE c # b
      BY <1>2, <1>6, <3>2 DEF Analyses
    <3>3. QED
      BY <3>1, <3>2
  <2>4. QED
    BY <2>1, <2>2, <2>3 DEF Analyses
<1>11. ASSUME track' = t, held' = h PROVE Before(f)' /\ Holding(f)'
  <2>1. Before(f)'
    BY <1>2, <1>8, <1>11 DEF Before
  <2>3. ASSUME NEW c \in h \ present PROVE t[c] \in Analyzing \cup {"none"}
    <3>1. CASE c \in n
      <4>1. t[c] = "body"
        BY <1>3, <3>1
      <4>2. QED
        BY <4>1, Stages
    <3>2. CASE c \notin n
      <4>1. c \in All /\ c # b /\ c \in held
        BY <1>0, <1>3, <2>3, <3>2, Stages DEF FateTyped
      <4>2. c \notin pruned /\ track[c] \in Analyzing \cup {"none"}
        BY <1>0, <1>2, <2>3, <4>1 DEF Holding, HoldsKeep
      <4>3. QED
        BY <1>6, <4>1, <4>2, Stages
    <3>3. QED
      BY <3>1, <3>2
  <2>4. ASSUME NEW c \in All, t[c] \in Analyzing PROVE c \in h
    <3>1. c # b
      BY <2>4, Stages
    <3>2. CASE t[c] = track[c]
      <4>1. c \in held /\ ~(b \in Line[c])
        BY <1>2, <1>5, <2>4, <3>1, <3>2, Stages DEF Holding
      <4>2. QED
        BY <3>1, <4>1
    <3>3. CASE t[c] # track[c]
      BY <1>6, <2>4, <3>1, <3>3, Stages
    <3>4. QED
      BY <3>2, <3>3
  <2>5. ASSUME ~robbed, NEW c \in arrived \ (present \cup pruned), f \in Line[c]
        PROVE  \/ c \in h \cup leaked \/ t[c] = "passed"
               \/ \E a \in Line[c] : t[a] \in Settled
    <3>1. c \in All /\ Line[c] \subseteq All
      BY <1>3
    <3>2. CASE b \in Line[c] /\ w # "passed"
      BY <3>2, Stages
    <3>3. CASE c = b /\ w = "passed"
      BY <3>3
    <3>4. CASE IF w = "passed" THEN c # b ELSE b \notin Line[c]
      <4>1. c \in held => c \in h
        BY <3>1, <3>4
      <4>2. /\ track[c] = "passed" => t[c] = "passed"
            /\ \A a \in Line[c] : track[a] \in Settled => t[a] \in Settled
        BY <1>7, <3>1, Stages
      <4>3. QED
        BY <1>2, <2>5, <4>1, <4>2 DEF Holding
    <3>5. QED
      BY <1>3, <3>1, <3>2, <3>3, <3>4
  <2>6. Holding(f)'
    BY <1>11, <2>3, <2>4, <2>5 DEF Holding
  <2>7. QED
    BY <2>1, <2>6
<1>12. BranchesArePruned'
  BY <1>0 DEF BranchesArePruned
<1>13. /\ pruned' \in SUBSET arrived /\ cleanup' \in BOOLEAN /\ validating' \in SUBSET validating
       /\ h \in SUBSET pinned /\ h \cap pruned' = {}
  BY <1>0 DEF FateTyped, HoldsKeep
<1>14. QED
  BY <1>2, <1>3, <1>9, <1>10, <1>11, <1>12, <1>13, NextStateKeeps

LEMMA EventsComeKeeps ==
  ASSUME FateInv, NEW b \in All, EventsCome(b) PROVE FateInv'
<1> DEFINE t == [track EXCEPT ![b] = "found"]
           n == {}
           h == held \ Descendants(b)
<1>0. FateTyped
  BY DEF FateInv
<1>1. /\ phase = "tracking" /\ track[b] = "events"
      /\ NextState(t, best, finalized, h)
      /\ UNCHANGED <<included, invalid, arrived, best, finalized, pinned, pruned, cleanup,
                     validating, verdicts, present, others, other, leaked, robbed>>
  BY DEF EventsCome, chainVars, pinVars, validVars, otherVars
<1>2. /\ t \in [All -> {"none", "cut"} \cup Analyzing \cup Analyzed] /\ t[b] = "found"
      /\ \A c \in All \ {b} : t[c] = track[c] /\ c \notin n
      /\ n \in SUBSET (pinned \ pruned) /\ b \notin n
  BY <1>0, Stages DEF FateTyped
<1>3. h = (held \ {c \in All : IF "found" = "passed" THEN c = b ELSE b \in Line[c]}) \cup n
  BY DEF Descendants
<1>4. b \in included
  <2>1. PICK f \in All : Tracking(f)
    BY <1>1 DEF FateInv
  <2>2. QED
    BY <1>1, <2>1 DEF Tracking, Analyses
<1>5. "found" \in Analyzed /\ track[b] \in Analyzing
  BY <1>1, Stages
<1> HIDE DEF t, n, h
<1>6. QED
  BY <1>1, <1>2, <1>3, <1>4, <1>5, OutcomeKeeps

LEMMA ValidityComesKeeps ==
  ASSUME FateInv, NEW b \in All, ValidityComes(b) PROVE FateInv'
<1>0. FateTyped
  BY DEF FateInv
<1>1. /\ phase = "tracking" /\ track[b] = "validity"
      /\ UNCHANGED <<included, invalid, arrived, best, finalized, pinned, pruned, cleanup,
                     validating, verdicts, present, others, other, leaked, robbed>>
  BY DEF ValidityComes, chainVars, pinVars, validVars, otherVars
<1>2. b \notin included
  <2>1. PICK f \in All : Tracking(f)
    BY <1>1 DEF FateInv
  <2>2. QED
    BY <1>1, <2>1 DEF Tracking, Analyses
<1>3. track[b] \in Analyzing
  BY <1>1, Stages
<1>4. CASE b \in invalid
  <2> DEFINE t == [track EXCEPT ![b] = "failing"]
             n == {}
             h == held \ Descendants(b)
  <2>1. NextState(t, best, finalized, h)
    BY <1>4 DEF ValidityComes
  <2>2. /\ t \in [All -> {"none", "cut"} \cup Analyzing \cup Analyzed] /\ t[b] = "failing"
        /\ \A c \in All \ {b} : t[c] = track[c] /\ c \notin n
        /\ n \in SUBSET (pinned \ pruned) /\ b \notin n
    BY <1>0, Stages DEF FateTyped
  <2>3. h = (held \ {c \in All : IF "failing" = "passed" THEN c = b ELSE b \in Line[c]}) \cup n
    BY DEF Descendants
  <2>4. "failing" \in Analyzed
    BY Stages
  <2> HIDE DEF t, n, h
  <2>5. QED
    BY <1>1, <1>2, <1>3, <2>1, <2>2, <2>3, <2>4, OutcomeKeeps
<1>5. CASE b \notin invalid
  <2> DEFINE next == {c \in pinned \ {Root} : ParentOf[c] = b}
             t == [c \in All |-> IF c = b THEN "passed"
                                 ELSE IF c \in next \ pruned THEN "body"
                                 ELSE IF c \in next THEN "cut"
                                 ELSE track[c]]
             n == next \ pruned
             h == (held \ {b}) \cup n
  <2>1. NextState(t, best, finalized, h)
    BY <1>5 DEF ValidityComes
  <2>2. /\ t \in [All -> {"none", "cut"} \cup Analyzing \cup Analyzed] /\ t[b] = "passed"
    BY <1>0, Stages DEF FateTyped
  <2>3. ASSUME NEW c \in All \ {b}
        PROVE  \/ t[c] = track[c] /\ c \notin n
               \/ /\ t[c] \in {"body", "cut"} /\ "passed" = "passed"
                  /\ c \in Blocks \cap pinned /\ ParentOf[c] = b
                  /\ (t[c] = "body" <=> c \in n) /\ (t[c] = "cut" <=> c \in pruned)
    <3>1. CASE c \notin next
      BY <3>1
    <3>2. CASE c \in next
      <4>1. c \in Blocks \cap pinned /\ ParentOf[c] = b
        BY <3>2 DEF All
      <4>2. t[c] = IF c \in pruned THEN "cut" ELSE "body"
        BY <3>2
      <4>3. QED
        BY <3>2, <4>1, <4>2
    <3>3. QED
      BY <3>1, <3>2
  <2>4. h = (held \ {c \in All : IF "passed" = "passed" THEN c = b ELSE b \in Line[c]}) \cup n
    OBVIOUS
  <2>6. n \in SUBSET (pinned \ pruned) /\ b \notin n
    <3>1. b \notin next
      BY BlocksNumbered DEF Root
    <3>2. QED
      BY <3>1
  <2>5. "passed" \in Analyzed
    BY Stages
  <2> HIDE DEF t, n, h, next
  <2>7. QED
    BY <1>1, <1>2, <1>3, <2>1, <2>2, <2>3, <2>4, <2>5, <2>6, OutcomeKeeps
<1>6. QED
  BY <1>4, <1>5

LEMMA FateInvNext ==
  ASSUME FateInv, [Next]_vars PROVE FateInv'
<1>1. CASE UNCHANGED vars
  <2>1. UNCHANGED <<included, invalid, arrived, best, finalized, pinned, pruned, cleanup,
                    releasing, phase, validating, verdicts, present, held, track, latest,
                    others, other, leaked, robbed>>
    BY <1>1 DEF vars, chainVars, pinVars, validVars, trackVars, otherVars
  <2>2. ASSUME NEW f \in All, Tracking(f) PROVE Tracking(f)'
    BY <2>1, <2>2 DEF Tracking, Before, Analyses, Holding, UpToDateReport
  <2>3. QED
    BY <2>1, <2>2 DEF FateInv, FateTyped, BranchesArePruned, HoldsKeep, FinalizedIsFinal,
                       Useless
<1>2. ASSUME NEW b \in All, Answer(b) \/ ReleaseHold(b) \/ OtherReleases(b)
      PROVE  FateInv'
  BY <1>2, VerdictKeeps, BodyComesKeeps, EventsComeKeeps, ValidityComesKeeps, ReleaseHoldKeeps,
     OtherReleasesKeeps DEF Answer
<1>3. CASE Submit \/ CleanUp \/ Stop \/ OtherStarts \/ OtherEnds
  BY <1>3, SubmitKeeps, CleanUpKeeps, StopKeeps, OtherStartsKeeps, OtherEndsKeeps
<1>4. CASE NewBlock \/ BestBlockChanges \/ Finalizes
  BY <1>4, NewBlockKeeps, BestBlockChangesKeeps, FinalizesKeeps
<1>5. QED
  BY <1>1, <1>2, <1>3, <1>4 DEF Next

\* What came after the broadcast is above the block that was final then.
LEMMA FreshIsAbove ==
  ASSUME FateTyped, BranchesArePruned, NEW f \in All, Tracking(f), NEW b \in Line[best] \cap Fresh
  PROVE  b \in arrived /\ b \notin present /\ f \in Line[b]
<1>0. Before(f)
  BY DEF Tracking
<1>1. /\ best \in All /\ best \in arrived /\ finalized \in Line[best]
      /\ b \in All /\ b \in Line[best] /\ b \notin present
  BY LineFacts DEF FateTyped, Fresh
<1>2. b \in arrived /\ f \in Line[best]
  BY <1>0, <1>1, LineFacts, OnChain DEF Before
<1>3. PICK a \in Line[b] : a \in present /\ track[a] = "passed"
  BY DEF Fresh
<1>4. f \in Line[a]
  BY <1>0, <1>3 DEF Before
<1>5. QED
  BY <1>1, <1>2, <1>3, <1>4, LineFacts

LEMMA FateInvSuffices == FateInv => FateIsRight
<1> SUFFICES ASSUME FateInv PROVE FateIsRight
  OBVIOUS
<1>0. FateTyped /\ BranchesArePruned /\ HoldsKeep /\ FinalizedIsFinal
  BY DEF FateInv
<1>1. TypeOK
  <2>1. best \in All /\ finalized \in All
    BY <1>0, LineFacts DEF FateTyped
  <2>2. pinned \subseteq All /\ pruned \subseteq All /\ present \subseteq All
    BY <1>0 DEF FateTyped
  <2>3. QED
    BY <1>0, <2>1, <2>2 DEF TypeOK, FateTyped
<1>2. ASSUME phase = "tracking"
      PROVE  /\ AnalyzedIsPinned /\ StateIsComputable /\ ReportIsRight
             /\ \A b \in held \ present : track[b] \notin Analyzed \cup {"cut"}
  <2>1. PICK f \in All : Tracking(f)
    BY <1>2 DEF FateInv
  <2>2. /\ Before(f) /\ Analyses(f, track) /\ Holding(f) /\ (~robbed => UpToDateReport)
    BY <2>1 DEF Tracking
  <2>3. /\ best \in arrived /\ best \in All /\ finalized \in Line[best] /\ Line[best] \subseteq All
        /\ f \in Line[best] /\ f \in present /\ arrived \subseteq All
    BY <1>0, <2>2, LineFacts DEF FateTyped, Before
  <2>4. AnalyzedIsPinned
    BY <1>0, <2>2 DEF AnalyzedIsPinned, Holding, HoldsKeep, BranchesArePruned, Descendants
  <2>5. StateIsComputable
    <3> SUFFICES ASSUME ~robbed PROVE FirstAnalyzed(track, pinned, best) # NoBlock
      BY DEF StateIsComputable
    <3>1. \A c \in Line[best] : f \in Line[c] => track[c] \in Analyzed \/ c \in pinned
      BY <1>0, <2>1, <2>3, OpenIsPinned
    <3>2. track[f] \in Analyzed
      BY <2>2, Stages DEF Analyses
    <3>3. FirstAnalyzed(track, pinned, best) \in Line[best]
      BY <2>3, <3>1, <3>2, FirstAnalyzedIsHighest
    <3>4. QED
      BY <2>3, <3>3, BlocksNumbered
  <2>6. \A b \in held \ present : track[b] \notin Analyzed \cup {"cut"}
    BY <2>2, Stages DEF Holding
  <2>7. ReportIsRight
    <3> SUFFICES ASSUME ~robbed
                 PROVE  /\ track[latest] = "found" => latest \in included \cap Line[best]
                        /\ (\A b \in Line[best] \cap Fresh : track[b] \in Analyzed) =>
                             (included \cap Line[best] \cap Fresh # {} <=> track[latest] = "found")
      BY DEF ReportIsRight
    <3>1. UpToDateReport /\ latest \in Line[best] /\ latest \in All /\ track[latest] \in Analyzed
      BY <2>2, <2>3 DEF UpToDateReport
    <3>2. track[latest] = "found" => latest \in included \cap Line[best] \cap Fresh
      <4> SUFFICES ASSUME track[latest] = "found"
                   PROVE  latest \in included \cap Line[best] \cap Fresh
        OBVIOUS
      <4>1. latest \in included /\ f \in Line[latest] /\ track[f] = "passed"
        BY <2>2, <3>1 DEF Analyses
      <4>2. latest \notin present
        BY <2>2 DEF Before
      <4>3. QED
        BY <2>3, <3>1, <4>1, <4>2 DEF Fresh
    <3>3. ASSUME \A b \in Line[best] \cap Fresh : track[b] \in Analyzed,
                 NEW e \in included \cap Line[best] \cap Fresh
          PROVE  track[latest] = "found"
      <4>1. e \in All /\ e \notin present /\ f \in Line[e]
        BY <1>0, <2>1, <2>3, FreshIsAbove
      <4>2. track[e] = "found"
        BY <2>2, <3>3, <4>1, Stages DEF Analyses
      <4>3. e \in Line[latest]
        BY <3>1, <3>3 DEF UpToDateReport
      <4>4. e = latest
        BY <2>2, <3>1, <4>1, <4>2, <4>3, Stages DEF Analyses
      <4>5. QED
        BY <4>2, <4>4
    <3>4. QED
      BY <3>2, <3>3
  <2>11. QED
    BY <2>4, <2>5, <2>6, <2>7
<1>3. CASE phase = "tracking"
  BY <1>0, <1>1, <1>2, <1>3 DEF FateIsRight, HoldsAreRight, NoHoldLeaks, HoldsKeep
<1>4. CASE phase # "tracking"
  BY <1>0, <1>1, <1>4 DEF FateIsRight, HoldsAreRight, NoHoldLeaks, HoldsKeep, AnalyzedIsPinned,
                          StateIsComputable, ReportIsRight
<1>5. QED
  BY <1>3, <1>4

\* On any tree of blocks, however the answers of the node, the changes of the chain and
\* other transactions interleave: a block is pinned as long as it is analysed, nothing is
\* held that this one is done with, and what is useless is unpinned but for the holds that
\* the shared map lost; a transaction is reported as final only if it is. The user hears
\* exactly of the block of the best chain that has the transaction, as long as no other
\* one released what this one waits for.
THEOREM FateStaysRight == Spec => []FateIsRight
<1>1. Spec => []FateInv
  BY FateInvInit, FateInvNext, PTL DEF Spec
<1>2. QED
  BY <1>1, FateInvSuffices, PTL

-------------------------------------------------------------------------------
(***************************************************************************)
(* The nonce.                                                              *)
(***************************************************************************)
LEMMA ChainNumbered ==
  /\ Len(ParentAt) \in Nat
  /\ ChainBlock = 0 .. Len(ParentAt)
  /\ \A b \in ChainBlock \ {0} : b \in Nat /\ ParentAt[b] \in ChainBlock /\ ParentAt[b] < b
  /\ IsFiniteSet(ChainBlock)
<1>1. Len(ParentAt) \in Nat /\ DOMAIN ParentAt = 1 .. Len(ParentAt)
  BY ChainTipsAssumption, LenProperties
<1>2. ChainBlock = 0 .. Len(ParentAt)
  BY ChainTipsAssumption DEF ChainBlock
<1>3. IsFiniteSet(0 .. Len(ParentAt))
  BY <1>1, FS_Interval
<1>4. ASSUME NEW b \in ChainBlock \ {0}
      PROVE  b \in Nat /\ ParentAt[b] \in ChainBlock /\ ParentAt[b] < b
  <2>1. b \in DOMAIN ParentAt /\ b \in Nat
    BY <1>1, <1>2
  <2>2. ParentAt[b] \in 0 .. (b - 1)
    BY <2>1, ChainTipsAssumption
  <2>3. QED
    BY <1>1, <1>2, <2>1, <2>2
<1>5. QED
  BY <1>1, <1>2, <1>3, <1>4

\* Induction from the first finalized block upwards.
LEMMA BlockInduction ==
  ASSUME NEW S, 0 \in S, \A b \in ChainBlock \ {0} : ParentAt[b] \in S => b \in S
  PROVE  ChainBlock \subseteq S
<1> DEFINE N == {n \in Nat : \A b \in ChainBlock : b <= n => b \in S}
<1>1. 0 \in N
  BY ChainNumbered
<1>2. ASSUME NEW n \in Nat, n \in N PROVE n + 1 \in N
  <2>1. ASSUME NEW b \in ChainBlock, b <= n + 1, b # 0 PROVE b \in S
    <3>1. b \in Nat /\ ParentAt[b] \in ChainBlock /\ ParentAt[b] < b /\ ParentAt[b] \in Nat
      BY <2>1, ChainNumbered
    <3>2. ParentAt[b] <= n
      BY <2>1, <3>1
    <3>3. QED
      BY <1>2, <2>1, <3>1, <3>2
  <2>2. QED
    BY <2>1
<1> HIDE DEF N
<1>3. Nat \subseteq N
  BY <1>1, <1>2, InductionOverNat
<1>4. \A b \in ChainBlock : b \in Nat /\ b <= b
  BY ChainNumbered
<1>5. QED
  BY <1>3, <1>4 DEF N

LEMMA AncestorsStep ==
  /\ AncestorsOf[0] = {0}
  /\ \A b \in ChainBlock \ {0} : AncestorsOf[b] = {b} \cup AncestorsOf[ParentAt[b]]
<1> DEFINE V == SUBSET ChainBlock
           start == [b \in ChainBlock |-> {0}]
           below == [b \in ChainBlock |-> IF b = 0 THEN 0 ELSE ParentAt[b]]
           F == [b \in ChainBlock |-> [v \in V |-> {b} \cup v]]
           rank == [b \in ChainBlock |-> b]
<1>0. /\ \A b \in ChainBlock : below[b] = IF b = 0 THEN 0 ELSE ParentAt[b]
      /\ \A b \in ChainBlock : start[b] = {0}
      /\ \A b \in ChainBlock : \A v \in V : F[b][v] = {b} \cup v
  OBVIOUS
<1>a. 0 \in ChainBlock
  BY ChainNumbered
<1>b. below \in [ChainBlock -> ChainBlock]
  BY <1>a, ChainNumbered
<1>1. Steps(start, F, ChainBlock, V)
  <2>1. \A b \in ChainBlock : F[b] \in [V -> V]
    OBVIOUS
  <2>2. start \in [ChainBlock -> V]
    BY <1>a
  <2> HIDE DEF F, start
  <2>3. F \in [ChainBlock -> [V -> V]]
    BY <2>1 DEF F
  <2>4. QED
    BY <2>2, <2>3 DEF Steps
<1>r. Ranks(rank, below, {0}, ChainBlock)
  <2>1. rank \in [ChainBlock -> Nat]
    BY ChainNumbered
  <2>2. \A d \in ChainBlock : d \in {0} \/ rank[below[d]] < rank[d]
    BY ChainNumbered, <1>b
  <2>3. QED
    BY <1>b, <2>1, <2>2 DEF Ranks
<1> HIDE DEF start, F, below, rank
<1>2. PICK g \in [ChainBlock -> V] : Solves(g, start, F, below, {0}, ChainBlock)
  BY <1>1, <1>r, RecursionByRank
<1>3. \A b \in ChainBlock : g[b] = IF b = 0 THEN {0} ELSE {b} \cup g[ParentAt[b]]
  <2> SUFFICES ASSUME NEW b \in ChainBlock
               PROVE  g[b] = IF b = 0 THEN {0} ELSE {b} \cup g[ParentAt[b]]
    OBVIOUS
  <2>1. CASE b = 0
    BY <1>0, <1>2, <2>1 DEF Solves
  <2>2. CASE b # 0
    <3>1. g[b] = F[b][g[below[b]]]
      BY <1>2, <2>2 DEF Solves
    <3>2. below[b] = ParentAt[b] /\ below[b] \in ChainBlock
      BY <1>0, <1>b, <2>2
    <3>3. g[below[b]] \in V
      BY <1>2, <3>2
    <3>4. QED
      BY <1>0, <2>2, <3>1, <3>2, <3>3
  <2>3. QED
    BY <2>1, <2>2
<1>4. g = [b \in ChainBlock |-> g[b]]
  OBVIOUS
<1>5. g = [b \in ChainBlock |-> IF b = 0 THEN {0} ELSE {b} \cup g[ParentAt[b]]]
  BY <1>3, <1>4, Zenon
<1>6. AncestorsOf = [b \in ChainBlock |-> IF b = 0 THEN {0} ELSE {b} \cup AncestorsOf[ParentAt[b]]]
  BY <1>5 DEF AncestorsOf
<1>7. \A b \in ChainBlock : AncestorsOf[b] = IF b = 0 THEN {0} ELSE {b} \cup AncestorsOf[ParentAt[b]]
  BY <1>6
<1>8. QED
  BY <1>7, <1>a

LEMMA HeightStep ==
  /\ HeightOf[0] = 0
  /\ \A b \in ChainBlock \ {0} : HeightOf[b] = HeightOf[ParentAt[b]] + 1
  /\ \A b \in ChainBlock : HeightOf[b] \in Nat
<1> DEFINE V == Nat
           start == [b \in ChainBlock |-> 0]
           below == [b \in ChainBlock |-> IF b = 0 THEN 0 ELSE ParentAt[b]]
           F == [b \in ChainBlock |-> [v \in V |-> v + 1]]
           rank == [b \in ChainBlock |-> b]
<1>0. /\ \A b \in ChainBlock : below[b] = IF b = 0 THEN 0 ELSE ParentAt[b]
      /\ \A b \in ChainBlock : start[b] = 0
      /\ \A b \in ChainBlock : \A v \in V : F[b][v] = v + 1
  OBVIOUS
<1>a. 0 \in ChainBlock
  BY ChainNumbered
<1>b. below \in [ChainBlock -> ChainBlock]
  BY <1>a, ChainNumbered
<1>1. Steps(start, F, ChainBlock, V)
  <2>1. \A b \in ChainBlock : F[b] \in [V -> V]
    OBVIOUS
  <2>2. start \in [ChainBlock -> V]
    OBVIOUS
  <2> HIDE DEF F, start
  <2>3. F \in [ChainBlock -> [V -> V]]
    BY <2>1 DEF F
  <2>4. QED
    BY <2>2, <2>3 DEF Steps
<1>r. Ranks(rank, below, {0}, ChainBlock)
  <2>1. rank \in [ChainBlock -> Nat]
    BY ChainNumbered
  <2>2. \A d \in ChainBlock : d \in {0} \/ rank[below[d]] < rank[d]
    BY ChainNumbered, <1>b
  <2>3. QED
    BY <1>b, <2>1, <2>2 DEF Ranks
<1> HIDE DEF start, F, below, rank
<1>2. PICK g \in [ChainBlock -> V] : Solves(g, start, F, below, {0}, ChainBlock)
  BY <1>1, <1>r, RecursionByRank
<1>3. \A b \in ChainBlock : g[b] = IF b = 0 THEN 0 ELSE g[ParentAt[b]] + 1
  <2> SUFFICES ASSUME NEW b \in ChainBlock
               PROVE  g[b] = IF b = 0 THEN 0 ELSE g[ParentAt[b]] + 1
    OBVIOUS
  <2>1. CASE b = 0
    BY <1>0, <1>2, <2>1 DEF Solves
  <2>2. CASE b # 0
    <3>1. g[b] = F[b][g[below[b]]]
      BY <1>2, <2>2 DEF Solves
    <3>2. below[b] = ParentAt[b] /\ below[b] \in ChainBlock
      BY <1>0, <1>b, <2>2
    <3>3. g[below[b]] \in V
      BY <1>2, <3>2
    <3>4. QED
      BY <1>0, <2>2, <3>1, <3>2, <3>3
  <2>3. QED
    BY <2>1, <2>2
<1>4. g = [b \in ChainBlock |-> g[b]]
  OBVIOUS
<1>5. g = [b \in ChainBlock |-> IF b = 0 THEN 0 ELSE g[ParentAt[b]] + 1]
  BY <1>3, <1>4, Zenon
<1>c. \E h : h = [b \in ChainBlock |-> IF b = 0 THEN 0 ELSE h[ParentAt[b]] + 1]
  BY <1>5
<1>6. HeightOf = [b \in ChainBlock |-> IF b = 0 THEN 0 ELSE HeightOf[ParentAt[b]] + 1]
  BY <1>c DEF HeightOf
<1>7. \A b \in ChainBlock : HeightOf[b] = IF b = 0 THEN 0 ELSE HeightOf[ParentAt[b]] + 1
  BY <1>6
<1> DEFINE N == {b \in ChainBlock : HeightOf[b] \in Nat}
<1>8. 0 \in N
  BY <1>7, <1>a
<1>9. \A b \in ChainBlock \ {0} : ParentAt[b] \in N => b \in N
  BY <1>7
<1> HIDE DEF N
<1>10. ChainBlock \subseteq N
  BY <1>8, <1>9, BlockInduction
<1>11. QED
  BY <1>7, <1>10, <1>a DEF N

\* AncestorsOf is an order, and heights and numbers grow with it.
LEMMA AncestorFacts ==
  /\ \A b \in ChainBlock : AncestorsOf[b] \subseteq ChainBlock /\ b \in AncestorsOf[b]
  /\ \A a, b \in ChainBlock : a \in AncestorsOf[b] => a <= b
  /\ \A a, b, c \in ChainBlock :
        a \in AncestorsOf[b] /\ b \in AncestorsOf[c] => a \in AncestorsOf[c]
  /\ \A a, b \in ChainBlock : a \in AncestorsOf[b] => HeightOf[a] <= HeightOf[b]
  /\ \A a, b \in ChainBlock : a \in AncestorsOf[b] /\ a # b => HeightOf[a] < HeightOf[b]
<1> DEFINE Fine(c) ==
             /\ AncestorsOf[c] \subseteq ChainBlock /\ c \in AncestorsOf[c]
             /\ \A a \in AncestorsOf[c] : a <= c /\ AncestorsOf[a] \subseteq AncestorsOf[c]
             /\ \A a \in AncestorsOf[c] : a # c => HeightOf[a] < HeightOf[c]
           S == {c \in ChainBlock : Fine(c)}
<1>0. \A b \in ChainBlock : b \in Nat /\ HeightOf[b] \in Nat
  BY ChainNumbered, HeightStep
<1>1. 0 \in S
  BY AncestorsStep, ChainNumbered
<1>2. ASSUME NEW c \in ChainBlock \ {0}, ParentAt[c] \in S PROVE c \in S
  <2> DEFINE p == ParentAt[c]
  <2>1. /\ AncestorsOf[c] = {c} \cup AncestorsOf[p] /\ p \in ChainBlock /\ c \in ChainBlock
        /\ p < c /\ Fine(p) /\ c \in Nat /\ p \in Nat
        /\ HeightOf[c] = HeightOf[p] + 1 /\ HeightOf[p] \in Nat
    BY <1>2, AncestorsStep, ChainNumbered, HeightStep
  <2> HIDE DEF p
  <2>2. AncestorsOf[c] \subseteq ChainBlock /\ c \in AncestorsOf[c]
    BY <2>1
  <2>3. ASSUME NEW a \in AncestorsOf[c]
        PROVE  a <= c /\ AncestorsOf[a] \subseteq AncestorsOf[c]
    <3>1. a \in Nat
      BY <1>0, <2>2
    <3>2. CASE a = c
      BY <3>1, <3>2
    <3>3. CASE a \in AncestorsOf[p]
      <4>1. a <= p /\ AncestorsOf[a] \subseteq AncestorsOf[p]
        BY <2>1, <3>3
      <4>2. QED
        BY <2>1, <3>1, <4>1
    <3>4. QED
      BY <2>1, <3>2, <3>3
  <2>4. ASSUME NEW a \in AncestorsOf[c], a # c PROVE HeightOf[a] < HeightOf[c]
    <3>1. a \in AncestorsOf[p] /\ HeightOf[a] \in Nat
      BY <1>0, <2>1, <2>2, <2>4
    <3>2. a = p \/ HeightOf[a] < HeightOf[p]
      BY <2>1, <3>1
    <3>3. QED
      BY <2>1, <3>1, <3>2
  <2>5. QED
    BY <2>1, <2>2, <2>3, <2>4
<1> HIDE DEF S
<1>3. ChainBlock \subseteq S
  BY <1>1, <1>2, BlockInduction
<1>4. \A c \in ChainBlock : Fine(c)
  BY <1>3 DEF S
<1>5. \A a, b \in ChainBlock : a \in AncestorsOf[b] => HeightOf[a] <= HeightOf[b]
  BY <1>0, <1>4
<1>6. QED
  BY <1>4, <1>5

\* The elements of a sequence that are in a set, in their order, once each.
LEMMA KeptElements ==
  ASSUME NEW S, NEW s \in Seq(S), NEW K
  PROVE  /\ Staying(s, K) \in Seq(S)
         /\ Range(Staying(s, K)) = Range(s) \cap K
         /\ IsInjective(s) => IsInjective(Staying(s, K))
<1> DEFINE n == Len(s)
           V == Seq(S)
           With(v, i) == IF s[i] \in K THEN Append(v, s[i]) ELSE v
           Is(g) == g = [d \in SUBSET (1 .. n) |->
                           IF d = {} THEN <<>> ELSE With(g[d \ {Max(d)}], Max(d))]
           it == CHOOSE g : Is(g)
<1>1. n \in Nat /\ DOMAIN s = 1 .. n /\ \A i \in 1 .. n : s[i] \in S
  BY LenProperties
<1> HIDE DEF n
<1>0. IsFiniteSet(1 .. n) /\ 1 .. n \subseteq Int
  BY <1>1, FS_Interval
<1>2. ASSUME NEW d \in SUBSET (1 .. n), d # {} PROVE Max(d) \in d /\ \A i \in d : i <= Max(d)
  <2>1. IsFiniteSet(d) /\ d \subseteq Int
    BY <1>0, FS_Subset
  <2>2. QED
    BY <1>2, <2>1, MaxIsHighest
<1>3. \E g : Is(g)
  <2> DEFINE G == [i \in 1 .. n |-> [v \in V |-> With(v, i)]]
  <2>1. <<>> \in V
    OBVIOUS
  <2>2. ASSUME NEW i \in 1 .. n, NEW v \in V PROVE With(v, i) \in V
    <3>1. s[i] \in S
      BY <1>1
    <3> HIDE DEF V
    <3>2. v \in Seq(S)
      BY DEF V
    <3>3. Append(v, s[i]) \in V
      BY <3>1, <3>2 DEF V
    <3>4. QED
      BY <3>3
  <2> HIDE DEF With, V
  <2>3. \A i \in 1 .. n : \A v \in V : G[i][v] = With(v, i)
    OBVIOUS
  <2> HIDE DEF G
  <2>4. \A i \in 1 .. n : \A v \in V : G[i][v] \in V
    BY <2>2, <2>3
  <2>4a. Applicable(1 .. n, V, <<>>, G)
    BY <1>0, <2>1, <2>4 DEF Applicable
  <2>5. PICK g \in [SUBSET (1 .. n) -> V] : FoldsUp(g, 1 .. n, <<>>, G)
    BY <2>4a, FoldExists
  <2>6. \A d \in SUBSET (1 .. n) :
           g[d] = IF d = {} THEN <<>> ELSE With(g[d \ {Max(d)}], Max(d))
    <3> SUFFICES ASSUME NEW d \in SUBSET (1 .. n)
                 PROVE  g[d] = IF d = {} THEN <<>> ELSE With(g[d \ {Max(d)}], Max(d))
      OBVIOUS
    <3>1. g[d] = IF d = {} THEN <<>> ELSE G[Max(d)][g[d \ {Max(d)}]]
      BY <2>5 DEF FoldsUp
    <3>2. g[d \ {Max(d)}] \in V
      OBVIOUS
    <3>3. d # {} => Max(d) \in 1 .. n
      BY <1>2
    <3>4. QED
      BY <2>3, <3>1, <3>2, <3>3
  <2>7. g = [d \in SUBSET (1 .. n) |-> g[d]]
    OBVIOUS
  <2>8. Is(g)
    BY <2>6, <2>7, Zenon
  <2>9. QED
    BY <2>8
<1>4. \A d \in SUBSET (1 .. n) :
         it[d] = IF d = {} THEN <<>> ELSE With(it[d \ {Max(d)}], Max(d))
  <2>1. Is(it)
    BY <1>3
  <2> HIDE DEF it, With
  <2>2. QED
    BY <2>1
<1>5. Staying(s, K) = it[1 .. n]
  BY <1>1 DEF Staying, FoldLeft, MapThenFoldSet
<1> HIDE DEF it
<1> DEFINE First(i) == {s[j] : j \in 1 .. i}
           Good(i) == /\ it[1 .. i] \in V
                      /\ Range(it[1 .. i]) = First(i) \cap K
                      /\ IsInjective(s) => IsInjective(it[1 .. i])
           N == {i \in Nat : i <= n => Good(i)}
<1>6. 0 \in N
  <2>1. 1 .. 0 = {} /\ 1 .. 0 \in SUBSET (1 .. n)
    BY <1>1
  <2>2. it[1 .. 0] = <<>>
    BY <1>4, <2>1
  <2>3. First(0) = {}
    BY <2>1
  <2>4. <<>> \in V /\ Range(<<>>) = {} /\ IsInjective(<<>>)
    BY DEF Range, IsInjective
  <2>5. Good(0)
    BY <2>2, <2>3, <2>4
  <2>6. QED
    BY <2>5
<1>7. ASSUME NEW i \in Nat, i \in N PROVE i + 1 \in N
  <2> SUFFICES ASSUME i + 1 <= n PROVE Good(i + 1)
    OBVIOUS
  <2> DEFINE d == 1 .. i + 1
  <2>1. d \in SUBSET (1 .. n) /\ d # {} /\ i + 1 \in d
    BY <1>1
  <2>2. Max(d) = i + 1
    BY <1>2, <2>1
  <2>3. d \ {i + 1} = 1 .. i
    OBVIOUS
  <2>4. it[d] = With(it[1 .. i], i + 1)
    BY <1>4, <2>1, <2>2, <2>3
  <2>5. Good(i) /\ s[i + 1] \in S /\ i + 1 \in 1 .. n
    BY <1>1, <1>7
  <2>6. First(i + 1) = First(i) \cup {s[i + 1]}
    BY <2>3
  <2>7. IsInjective(s) => s[i + 1] \notin First(i)
    <3> SUFFICES ASSUME IsInjective(s), NEW j \in 1 .. i, s[i + 1] = s[j] PROVE FALSE
      OBVIOUS
    <3>1. j \in 1 .. n /\ j # i + 1
      BY <1>1
    <3>2. QED
      BY <1>1, <2>5, <3>1 DEF IsInjective
  <2> HIDE DEF d
  <2> DEFINE v == it[1 .. i]
             e == s[i + 1]
  <2>8. CASE e \in K
    <3>1. it[d] = Append(v, e)
      BY <2>4, <2>8
    <3>2. v \in Seq(S) /\ e \in S
      BY <2>5
    <3>3. /\ Range(v) = First(i) \cap K
          /\ IsInjective(s) => IsInjective(v) /\ e \notin First(i)
          /\ First(i + 1) = First(i) \cup {e}
      BY <2>5, <2>6, <2>7
    <3> HIDE DEF v, e, First
    <3>4. /\ Append(v, e) \in Seq(S) /\ Range(Append(v, e)) = Range(v) \cup {e}
          /\ IsInjective(v) /\ e \notin Range(v) => IsInjective(Append(v, e))
      BY <3>2, AppendElements
    <3>5. QED
      BY <2>8, <3>1, <3>3, <3>4 DEF d
  <2>9. CASE e \notin K
    <3>1. it[d] = v
      BY <2>4, <2>9
    <3>2. QED
      BY <2>5, <2>6, <2>9, <3>1 DEF d
  <2>10. QED
    BY <2>8, <2>9
<1> HIDE DEF N, Good
<1>8. Nat \subseteq N
  BY <1>6, <1>7, InductionOverNat
<1>9. Good(n)
  BY <1>1, <1>8 DEF N
<1>10. Range(s) = First(n)
  BY <1>1 DEF Range
<1>11. QED
  BY <1>5, <1>9, <1>10 DEF Good

LEMMA WithTipElements ==
  ASSUME NEW ts \in Seq(ChainBlock), NEW b \in ChainBlock
  PROVE  /\ WithTip(ts, b) \in Seq(ChainBlock)
         /\ Range(WithTip(ts, b)) = {t \in Range(ts) : b = 0 \/ t # ParentAt[b]} \cup {b}
         /\ IsInjective(ts) /\ b \notin Range(ts) => IsInjective(WithTip(ts, b))
<1> DEFINE K == {t \in ChainBlock : b = 0 \/ t # ParentAt[b]}
           s == Staying(ts, K)
<1>1. Range(ts) \subseteq ChainBlock
  BY LenProperties DEF Range
<1>2. s \in Seq(ChainBlock) /\ Range(s) = Range(ts) \cap K /\ (IsInjective(ts) => IsInjective(s))
  BY KeptElements
<1>3. WithTip(ts, b) = Append(s, b)
  BY DEF WithTip
<1> HIDE DEF s
<1>4. /\ Append(s, b) \in Seq(ChainBlock) /\ Range(Append(s, b)) = Range(s) \cup {b}
      /\ IsInjective(s) /\ b \notin Range(s) => IsInjective(Append(s, b))
  BY <1>2, AppendElements
<1>5. QED
  BY <1>1, <1>2, <1>3, <1>4

\* After a newTip for each block, the tips are what had no child among them.
LEMMA WithTipsElements ==
  ASSUME NEW ts \in Seq(ChainBlock), NEW bs \in SUBSET ChainBlock, Range(ts) \cap bs = {}
  PROVE  /\ WithTips(ts, bs) \in Seq(ChainBlock)
         /\ Range(WithTips(ts, bs)) = {t \in Range(ts) \cup bs : ChildrenIn(t, bs) = {}}
         /\ IsInjective(ts) => IsInjective(WithTips(ts, bs))
<1> DEFINE V == Seq(ChainBlock)
           Is(g) == g = [d \in SUBSET bs |->
                           IF d = {} THEN ts ELSE WithTip(g[d \ {Max(d)}], Max(d))]
           it == CHOOSE g : Is(g)
<1>0. bs \subseteq Int /\ IsFiniteSet(bs)
  <2>1. ChainBlock \subseteq Int
    BY ChainNumbered
  <2>2. QED
    BY <2>1, ChainNumbered, FS_Subset
<1>2. ASSUME NEW d \in SUBSET bs, d # {} PROVE Max(d) \in d /\ \A i \in d : i <= Max(d)
  <2>1. IsFiniteSet(d) /\ d \subseteq Int
    BY <1>0, FS_Subset
  <2>2. QED
    BY <1>2, <2>1, MaxIsHighest
<1>3. \E g : Is(g)
  <2> DEFINE G == [i \in bs |-> [v \in V |-> WithTip(v, i)]]
  <2>1. \A i \in bs : \A v \in V : WithTip(v, i) \in V
    BY WithTipElements
  <2> HIDE DEF V
  <2>2. \A i \in bs : \A v \in V : G[i][v] = WithTip(v, i)
    OBVIOUS
  <2> HIDE DEF G
  <2>3. ts \in V
    BY DEF V
  <2>4. Applicable(bs, V, ts, G)
    BY <1>0, <2>1, <2>2, <2>3 DEF Applicable
  <2>5. PICK g \in [SUBSET bs -> V] : FoldsUp(g, bs, ts, G)
    BY <2>4, FoldExists
  <2>6. \A d \in SUBSET bs : g[d] = IF d = {} THEN ts ELSE WithTip(g[d \ {Max(d)}], Max(d))
    <3> SUFFICES ASSUME NEW d \in SUBSET bs
                 PROVE  g[d] = IF d = {} THEN ts ELSE WithTip(g[d \ {Max(d)}], Max(d))
      OBVIOUS
    <3>1. g[d] = IF d = {} THEN ts ELSE G[Max(d)][g[d \ {Max(d)}]]
      BY <2>5 DEF FoldsUp
    <3>2. g[d \ {Max(d)}] \in V
      OBVIOUS
    <3>3. d # {} => Max(d) \in bs
      BY <1>2
    <3>4. QED
      BY <2>2, <3>1, <3>2, <3>3
  <2>7. g = [d \in SUBSET bs |-> g[d]]
    OBVIOUS
  <2>8. Is(g)
    BY <2>6, <2>7, Zenon
  <2>9. QED
    BY <2>8
<1>4. \A d \in SUBSET bs : it[d] = IF d = {} THEN ts ELSE WithTip(it[d \ {Max(d)}], Max(d))
  <2>1. Is(it)
    BY <1>3
  <2> HIDE DEF it
  <2>2. QED
    BY <2>1
<1>5. WithTips(ts, bs) = it[bs]
  BY DEF WithTips, MapThenFoldSet
<1> HIDE DEF it
<1> DEFINE Good(d) == /\ it[d] \in V
                      /\ Range(it[d]) = {t \in Range(ts) \cup d : ChildrenIn(t, d) = {}}
                      /\ IsInjective(ts) => IsInjective(it[d])
           N == {n \in Nat : \A d \in SUBSET bs : Cardinality(d) <= n => Good(d)}
<1>d. \A d \in SUBSET bs : IsFiniteSet(d) /\ Cardinality(d) \in Nat
  BY <1>0, FS_Subset, FS_CardinalityType
<1>e. Good({})
  <2>1. it[{}] = ts
    BY <1>4
  <2>2. \A t : ChildrenIn(t, {}) = {}
    BY DEF ChildrenIn
  <2>3. QED
    BY <2>1, <2>2
<1>6. 0 \in N
  <2> HIDE DEF Good
  <2>1. ASSUME NEW d \in SUBSET bs, Cardinality(d) <= 0 PROVE Good(d)
    <3>1. d = {}
      BY <1>d, <2>1, FS_EmptySet
    <3>2. QED
      BY <1>e, <3>1
  <2>2. QED
    BY <2>1
<1>7. ASSUME NEW n \in Nat, n \in N PROVE n + 1 \in N
  <2> HIDE DEF Good
  <2> SUFFICES ASSUME NEW d \in SUBSET bs, Cardinality(d) <= n + 1 PROVE Good(d)
    OBVIOUS
  <2>0. CASE d = {}
    BY <1>e, <2>0
  <2> SUFFICES ASSUME d # {} PROVE Good(d)
    BY <2>0
  <2> DEFINE m == Max(d)
             r == d \ {m}
             v == it[r]
  <2>1. m \in d /\ m \in ChainBlock /\ m \notin Range(ts) /\ \A i \in d : i <= m
    BY <1>2
  <2>2. Cardinality(r) <= n
    <3>1. Cardinality(d \ {m}) = Cardinality(d) - 1
      BY <1>d, <2>1, FS_RemoveElement
    <3>2. QED
      BY <1>d, <3>1
  <2>3. Good(r)
    BY <1>7, <2>2
  <2>4. it[d] = WithTip(v, m)
    BY <1>4
  <2> HIDE DEF m
  <2>5. v \in Seq(ChainBlock) /\ m \notin Range(v) /\ Range(v) \subseteq Range(ts) \cup r
    BY <2>1, <2>3 DEF Good
  <2> HIDE DEF v
  <2>6. /\ WithTip(v, m) \in Seq(ChainBlock)
        /\ Range(WithTip(v, m)) = {t \in Range(v) : m = 0 \/ t # ParentAt[m]} \cup {m}
        /\ IsInjective(v) => IsInjective(WithTip(v, m))
    BY <2>1, <2>5, WithTipElements
  <2>7. ChildrenIn(m, d) = {}
    <3> SUFFICES ASSUME NEW c \in d, c # 0, ParentAt[c] = m PROVE FALSE
      BY DEF ChildrenIn
    <3>1. c \in ChainBlock \ {0} /\ c <= m /\ m \in Int
      BY <1>0, <2>1
    <3>2. m < c /\ c \in Nat
      BY <3>1, ChainNumbered
    <3>3. QED
      BY <3>1, <3>2
  <2>8. \A t : ChildrenIn(t, d) = ChildrenIn(t, r) \cup {c \in {m} : m # 0 /\ ParentAt[m] = t}
    BY <2>1 DEF ChildrenIn
  <2>9. Range(it[d]) = {t \in Range(ts) \cup d : ChildrenIn(t, d) = {}}
    <3>1. Range(v) = {t \in Range(ts) \cup r : ChildrenIn(t, r) = {}}
      BY <2>3 DEF v, Good
    <3>2. ASSUME NEW t \in Range(it[d]) PROVE t \in Range(ts) \cup d /\ ChildrenIn(t, d) = {}
      <4>1. CASE t = m
        BY <2>1, <2>7, <4>1
      <4>2. CASE t \in Range(v) /\ (m = 0 \/ t # ParentAt[m])
        BY <2>8, <3>1, <4>2
      <4>3. QED
        BY <2>4, <2>6, <3>2, <4>1, <4>2
    <3>3. ASSUME NEW t \in Range(ts) \cup d, ChildrenIn(t, d) = {} PROVE t \in Range(it[d])
      <4>1. CASE t = m
        BY <2>4, <2>6, <4>1
      <4>2. CASE t # m
        <5>1. ChildrenIn(t, r) = {} /\ (m = 0 \/ ParentAt[m] # t)
          BY <2>8, <3>3
        <5>2. t \in Range(v)
          BY <3>1, <3>3, <4>2, <5>1
        <5>3. QED
          BY <2>4, <2>6, <5>1, <5>2
      <4>3. QED
        BY <4>1, <4>2
    <3>4. QED
      BY <3>2, <3>3
  <2>10. QED
    BY <2>3, <2>4, <2>6, <2>9 DEF v, Good
<1> HIDE DEF N, Good
<1>8. Nat \subseteq N
  BY <1>6, <1>7, InductionOverNat
<1>9. Good(bs)
  <2>1. Cardinality(bs) \in N /\ Cardinality(bs) <= Cardinality(bs)
    BY <1>8, <1>d
  <2>2. QED
    BY <2>1 DEF N
<1>10. QED
  BY <1>5, <1>9 DEF Good

\* A snapshot of the pinned blocks has no gap from the finalized one upwards, and what
\* is abandoned is on another branch.
Grown(known, gone, fin) ==
  /\ known \subseteq ChainBlock /\ fin \in known /\ gone \subseteq known
  /\ \A b \in known : fin \in AncestorsOf[b] =>
        \A x \in AncestorsOf[b] : fin \in AncestorsOf[x] => x \in known
  /\ \A b \in known \ gone : fin \in AncestorsOf[b] \/ b \in AncestorsOf[fin]
  /\ \A b \in gone : fin \notin AncestorsOf[b]

\* The tips are the leaves above the finalized block, and what is below it.
LeafTips(ts, known, fin) ==
  /\ IsInjective(ts)
  /\ Leaves(Above(fin, known)) \subseteq Range(ts)
  /\ \A t \in Range(ts) \ Leaves(Above(fin, known)) : HeightOf[t] < HeightOf[fin]

TreeOk == Grown(tree, offChain, treeFinal)

TipsOk ==
  /\ tips \in Seq(ChainBlock)
  /\ creation = "asking" /\ leaps = 0 => LeafTips(tips, tree, treeFinal)

\* A head, or what came right above it.
Near(h) == {h} \cup ChildrenIn(h, ChainBlock)

AskRecord == [at : ChainBlock, moved : BOOLEAN, open : BOOLEAN,
              state : {"none", "ok", "failed"}, from : ChainBlock]

AskOk(h, ask) ==
  /\ ask \in AskRecord
  /\ ask.at \in Near(h) /\ ask.from \in Near(h)
  /\ ~ask.moved => ask.at = h

AsksOk ==
  /\ DOMAIN asks \subseteq ChainBlock
  /\ asks = [h \in DOMAIN asks |-> asks[h]]
  /\ \A h \in DOMAIN asks : AskOk(h, asks[h])
  /\ creation = "no" => DOMAIN asks = {}

NonceOk ==
  /\ creation \in {"no", "asking", "decided", "failed"} /\ leaps \in Nat
  /\ creation = "decided" =>
       /\ \E h \in Succeeded(asks) : nonce = NonceAt[asks[h].from]
       /\ \A h \in Succeeded(asks) : nonce >= NonceAt[asks[h].from]
  /\ creation # "decided" => nonce = -1
  /\ creation = "failed" => \A h \in DOMAIN asks : asks[h].state = "failed"

NonceInv == TreeOk /\ TipsOk /\ AsksOk /\ NonceOk

\* A child of what is above the finalized block is above it.
LEMMA ChildrenAbove ==
  ASSUME NEW known \in SUBSET ChainBlock, NEW fin \in ChainBlock, NEW t \in Above(fin, known)
  PROVE  ChildrenIn(t, Above(fin, known)) = ChildrenIn(t, known)
<1>1. t \in ChainBlock /\ fin \in AncestorsOf[t]
  BY DEF Above
<1>2. ASSUME NEW c \in ChildrenIn(t, known) PROVE c \in Above(fin, known)
  <2>1. c \in ChainBlock \ {0} /\ c \in known /\ ParentAt[c] = t
    BY <1>2 DEF ChildrenIn
  <2>2. AncestorsOf[c] = {c} \cup AncestorsOf[t]
    BY <2>1, AncestorsStep
  <2>3. QED
    BY <1>1, <2>1, <2>2 DEF Above
<1>3. QED
  BY <1>2 DEF ChildrenIn, Above

\* With the fresh leaves of a snapshot the tips are right again, if the others were but
\* for what is fresh.
LEMMA TipsFollow ==
  ASSUME NEW known, NEW gone, NEW fin, Grown(known, gone, fin),
         NEW kept \in Seq(ChainBlock), IsInjective(kept),
         \A t \in Range(kept) : \/ HeightOf[t] < HeightOf[fin]
                                \/ /\ t \in Above(fin, known)
                                   /\ ChildrenIn(t, known) \subseteq NewTips(kept, known, gone)
  PROVE  LeafTips(WithTips(kept, NewTips(kept, known, gone)), known, fin)
<1> DEFINE fresh == NewTips(kept, known, gone)
           live == Above(fin, known)
           ts == WithTips(kept, fresh)
<1>1. fresh \in SUBSET ChainBlock /\ fresh \cap Range(kept) = {} /\ fresh \subseteq known
      /\ \A t \in fresh : t \notin gone /\ ChildrenIn(t, known) = {}
  BY DEF NewTips, Leaves, Grown
<1>2. /\ Range(ts) = {t \in Range(kept) \cup fresh : ChildrenIn(t, fresh) = {}}
      /\ IsInjective(ts)
  BY <1>1, WithTipsElements
<1>3. known \in SUBSET ChainBlock /\ fin \in ChainBlock
  BY DEF Grown
<1>4. \A t : ChildrenIn(t, fresh) \subseteq ChildrenIn(t, known)
  BY <1>1 DEF ChildrenIn
<1>a. \A t \in live : ChildrenIn(t, live) = ChildrenIn(t, known)
  BY <1>3, ChildrenAbove
<1>b. \A t \in live : t \in known /\ t \notin gone
  BY DEF Above, Grown
<1> HIDE DEF fresh, ts
<1>5. ASSUME NEW t \in Leaves(live) PROVE t \in Range(ts)
  <2>1. t \in live /\ ChildrenIn(t, known) = {}
    BY <1>5, <1>a DEF Leaves
  <2>2. t \in known /\ t \notin gone /\ ChildrenIn(t, fresh) = {}
    BY <1>4, <1>b, <2>1
  <2>3. t \in Range(kept) \/ t \in fresh
    BY <2>1, <2>2 DEF fresh, NewTips, Leaves
  <2>4. QED
    BY <1>2, <2>2, <2>3
<1>6. ASSUME NEW t \in Range(ts), t \notin Leaves(live) PROVE HeightOf[t] < HeightOf[fin]
  <2>1. t \in Range(kept) \cup fresh /\ ChildrenIn(t, fresh) = {}
    BY <1>2, <1>6
  <2>2. CASE t \in fresh
    <3>1. t \in known /\ t \notin gone /\ ChildrenIn(t, known) = {} /\ t \in ChainBlock
      BY <1>1, <2>2
    <3>2. t \notin live
      BY <1>6, <1>a, <3>1 DEF Leaves
    <3>3. t \in AncestorsOf[fin] /\ t # fin
      BY <1>3, <3>1, <3>2, AncestorFacts DEF Grown, Above
    <3>4. QED
      BY <1>3, <3>1, <3>3, AncestorFacts
  <2>3. CASE t \in Range(kept)
    <3>1. CASE t \in live /\ ChildrenIn(t, known) \subseteq fresh
      <4>1. ChildrenIn(t, known) = {}
        BY <2>1, <3>1 DEF ChildrenIn
      <4>2. QED
        BY <1>6, <1>a, <3>1, <4>1 DEF Leaves
    <3>2. QED
      BY <2>3, <3>1 DEF fresh
  <2>4. QED
    BY <2>1, <2>2, <2>3
<1>7. QED
  BY <1>2, <1>5, <1>6 DEF LeafTips, ts, fresh

\* The highest tips are the highest blocks.
LEMMA HighestAreTips ==
  ASSUME NEW known, NEW gone, NEW fin, Grown(known, gone, fin),
         NEW ts \in Seq(ChainBlock), LeafTips(ts, known, fin)
  PROVE  Highest(Range(ts)) = Highest(Above(fin, known))
<1> DEFINE live == Above(fin, known)
           Hs == {HeightOf[b] : b \in live}
<1>1. /\ live \subseteq ChainBlock /\ fin \in live /\ fin \in ChainBlock
      /\ \A b \in live : fin \in AncestorsOf[b]
  BY AncestorFacts DEF Grown, Above
<1>0. \A b \in ChainBlock : HeightOf[b] \in Nat
  BY HeightStep
<1>2. \A b \in live : HeightOf[fin] <= HeightOf[b]
  BY <1>1, AncestorFacts
<1>3. PICK m \in live : \A b \in live : HeightOf[b] <= HeightOf[m]
  <2>1. IsFiniteSet(live)
    BY <1>1, ChainNumbered, FS_Subset
  <2> DEFINE f == [b \in live |-> HeightOf[b]]
  <2>2. f \in Surjection(live, Hs)
    BY DEF Surjection
  <2>3. IsFiniteSet(Hs)
    BY <2>1, <2>2, FS_Surjection
  <2>4. Hs \subseteq Int /\ Hs # {}
    BY <1>0, <1>1
  <2> HIDE DEF Hs
  <2>5. PICK x \in Hs : \A c \in Hs : c <= x
    BY <2>3, <2>4, HighestExists
  <2>6. QED
    BY <2>5 DEF Hs
<1>4. ASSUME NEW b \in live, \A c \in live : HeightOf[c] <= HeightOf[b]
      PROVE  b \in Range(ts)
  <2>1. ASSUME NEW c \in ChildrenIn(b, live) PROVE FALSE
    <3>1. c \in ChainBlock \ {0} /\ c \in live /\ ParentAt[c] = b
      BY <1>1 DEF ChildrenIn
    <3>2. HeightOf[c] = HeightOf[b] + 1 /\ HeightOf[b] \in Nat /\ HeightOf[c] <= HeightOf[b]
      BY <1>0, <1>1, <1>4, <3>1, HeightStep
    <3>3. QED
      BY <3>2
  <2>2. b \in Leaves(live)
    BY <2>1 DEF Leaves
  <2>3. QED
    BY <2>2 DEF LeafTips
<1>5. Range(ts) \subseteq ChainBlock
  BY LenProperties DEF Range
<1>6. \A t \in Range(ts) : t \notin live => HeightOf[t] < HeightOf[fin]
  BY DEF LeafTips, Leaves
<1> HIDE DEF live
<1>7. ASSUME NEW b \in Highest(Range(ts)) PROVE b \in Highest(live)
  <2>1. b \in Range(ts) /\ \A c \in Range(ts) : HeightOf[c] <= HeightOf[b]
    BY <1>7 DEF Highest
  <2>2. m \in Range(ts)
    BY <1>3, <1>4
  <2>3. HeightOf[m] <= HeightOf[b] /\ HeightOf[fin] <= HeightOf[m]
    BY <1>2, <2>1, <2>2
  <2>4. /\ HeightOf[m] \in Nat /\ HeightOf[b] \in Nat /\ HeightOf[fin] \in Nat
        /\ \A c \in live : HeightOf[c] \in Nat
    BY <1>0, <1>1, <1>5, <2>1
  <2>5. b \in live
    BY <1>6, <2>1, <2>3, <2>4
  <2>6. \A c \in live : HeightOf[c] <= HeightOf[b]
    BY <1>3, <2>3, <2>4
  <2>7. QED
    BY <2>5, <2>6 DEF Highest
<1>8. ASSUME NEW b \in Highest(live) PROVE b \in Highest(Range(ts))
  <2>1. b \in live /\ \A c \in live : HeightOf[c] <= HeightOf[b]
    BY <1>8 DEF Highest
  <2>2. b \in Range(ts)
    BY <1>4, <2>1
  <2>3. ASSUME NEW c \in Range(ts), c \notin live PROVE HeightOf[c] <= HeightOf[b]
    <3>1. HeightOf[c] < HeightOf[fin] /\ HeightOf[fin] <= HeightOf[b]
      BY <1>2, <1>6, <2>1, <2>3
    <3>2. HeightOf[c] \in Nat /\ HeightOf[fin] \in Nat /\ HeightOf[b] \in Nat
      BY <1>0, <1>1, <1>5, <2>1
    <3>3. QED
      BY <3>1, <3>2
  <2>4. QED
    BY <2>1, <2>2, <2>3 DEF Highest
<1>9. QED
  BY <1>7, <1>8 DEF live

LEMMA MovedFacts ==
  ASSUME NEW h \in ChainBlock, NEW ask, AskOk(h, ask), NEW fresh \in SUBSET ChainBlock
  PROVE  /\ AskOk(h, Moved(ask, fresh))
         /\ Moved(ask, fresh).state = ask.state
<1> DEFINE next == ChildrenIn(ask.at, fresh)
<1>1. CASE ask.moved \/ ask.state = "failed" \/ next = {}
  <2>1. Moved(ask, fresh) = ask
    BY <1>1 DEF Moved
  <2>2. QED
    BY <2>1
<1>2. CASE ~(ask.moved \/ ask.state = "failed" \/ next = {})
  <2>1. ask \in AskRecord /\ ask.at = h /\ ask.from \in Near(h)
    BY <1>2 DEF AskOk, AskRecord
  <2>2. next \subseteq Int /\ IsFiniteSet(next) /\ next \subseteq Nat /\ next # {}
    <3>1. next \subseteq ChainBlock
      BY DEF ChildrenIn
    <3>2. ChainBlock \subseteq Nat /\ ChainBlock \subseteq Int /\ IsFiniteSet(ChainBlock)
      BY ChainNumbered
    <3>3. IsFiniteSet(next)
      BY <3>1, <3>2, FS_Subset
    <3>4. QED
      BY <1>2, <3>1, <3>2, <3>3
  <2>3. Min(next) \in next
    BY <2>2, MaxIsHighest
  <2>4. next \subseteq ChildrenIn(h, ChainBlock) /\ next \subseteq ChainBlock
    BY <2>1 DEF ChildrenIn
  <2>5. Moved(ask, fresh) = [ask EXCEPT !.at = Min(next), !.moved = TRUE, !.open = TRUE]
    BY <1>2 DEF Moved
  <2> HIDE DEF next
  <2>6. Min(next) \in ChainBlock /\ Min(next) \in Near(h)
    BY <2>3, <2>4 DEF Near
  <2> DEFINE m == Min(next)
             x == [ask EXCEPT !.at = m, !.moved = TRUE, !.open = TRUE]
  <2> HIDE DEF m
  <2>7. /\ x \in AskRecord /\ x.at = m /\ x.from = ask.from /\ x.moved = TRUE
        /\ x.state = ask.state
    BY <2>1, <2>6 DEF AskRecord, m
  <2>8. QED
    BY <2>1, <2>5, <2>6, <2>7 DEF AskOk, m
<1>3. QED
  BY <1>1, <1>2

\* A snapshot keeps the tips right, if those that stay are but for what is fresh.
LEMMA SnapshotFollows ==
  ASSUME NonceInv, NEW known, NEW gone, NEW fin, Snapshot(known, gone, fin),
         Grown(known, gone, fin), leaps' \in Nat,
         leaps' = 0 => leaps = 0,
         creation = "asking" /\ leaps' = 0 =>
           \A t \in Range(TipsKept(tips, fin, known, gone)) :
              \/ HeightOf[t] < HeightOf[fin]
              \/ /\ t \in Above(fin, known)
                 /\ ChildrenIn(t, known) \subseteq
                        NewTips(TipsKept(tips, fin, known, gone), known, gone)
  PROVE  NonceInv'
<1> DEFINE kept == TipsKept(tips, fin, known, gone)
           fresh == NewTips(kept, known, gone)
<1>0. TreeOk /\ TipsOk /\ AsksOk /\ NonceOk
  BY DEF NonceInv
<1>1. TreeOk'
  BY DEF Snapshot, TreeOk
<1>2. CASE creation # "asking"
  <2>1. UNCHANGED streamVars
    BY <1>2 DEF Snapshot
  <2>2. creation' = creation /\ tips' = tips /\ asks' = asks /\ nonce' = nonce
    BY <2>1 DEF streamVars
  <2>3. TipsOk'
    BY <1>0, <1>2, <2>2 DEF TipsOk
  <2>4. AsksOk'
    BY <1>0, <2>2 DEF AsksOk
  <2>5. NonceOk'
    BY <1>0, <2>2 DEF NonceOk, Succeeded
  <2>6. QED
    BY <1>1, <2>3, <2>4, <2>5 DEF NonceInv
<1>3. CASE creation = "asking"
  <2>1. /\ tips' = WithTips(kept, fresh)
        /\ asks' = [h \in DOMAIN asks |-> Moved(asks[h], fresh)]
        /\ creation' = creation /\ nonce' = nonce
    BY <1>3 DEF Snapshot
  <2>2. kept \in Seq(ChainBlock) /\ (IsInjective(tips) => IsInjective(kept))
    <3>1. tips \in Seq(ChainBlock)
      BY <1>0 DEF TipsOk
    <3>2. QED
      BY <3>1, KeptElements DEF TipsKept
  <2>3. fresh \in SUBSET ChainBlock /\ Range(kept) \cap fresh = {}
    BY DEF NewTips, Leaves, Grown
  <2>4. TipsOk'
    <3>1. WithTips(kept, fresh) \in Seq(ChainBlock)
      BY <2>2, <2>3, WithTipsElements
    <3>2. ASSUME leaps' = 0 PROVE LeafTips(WithTips(kept, fresh), known, fin)
      <4>1. IsInjective(kept)
        BY <1>0, <1>3, <2>2, <3>2 DEF TipsOk, LeafTips
      <4>2. \A t \in Range(kept) :
              \/ HeightOf[t] < HeightOf[fin]
              \/ t \in Above(fin, known) /\ ChildrenIn(t, known) \subseteq fresh
        BY <1>3, <3>2
      <4> HIDE DEF kept
      <4>3. QED
        BY <2>2, <4>1, <4>2, TipsFollow
    <3>3. tree' = known /\ treeFinal' = fin
      BY DEF Snapshot
    <3> HIDE DEF fresh, kept
    <3>4. QED
      BY <2>1, <3>1, <3>2, <3>3 DEF TipsOk
  <2> HIDE DEF fresh
  <2>5. AsksOk'
    <3>1. DOMAIN asks' = DOMAIN asks /\ \A h \in DOMAIN asks : asks'[h] = Moved(asks[h], fresh)
      BY <2>1
    <3>2. \A h \in DOMAIN asks : h \in ChainBlock /\ AskOk(h, asks[h])
      BY <1>0 DEF AsksOk
    <3>3. \A h \in DOMAIN asks' : AskOk(h, asks'[h])
      BY <2>3, <3>1, <3>2, MovedFacts
    <3>4. asks' = [h \in DOMAIN asks' |-> asks'[h]]
      BY <2>1, <3>1
    <3>5. QED
      BY <1>3, <2>1, <3>1, <3>2, <3>3, <3>4 DEF AsksOk
  <2>6. NonceOk'
    BY <1>0, <1>3, <2>1 DEF NonceOk
  <2>7. QED
    BY <1>1, <2>4, <2>5, <2>6 DEF NonceInv
<1>4. QED
  BY <1>2, <1>3

LEMMA ArrivalFollows ==
  ASSUME NonceInv, NEW b \in ChainBlock \ {0}, BlockArrives(b)
  PROVE  NonceInv'
<1> DEFINE known == tree \cup {b}
<1>0. TreeOk /\ TipsOk /\ NonceOk /\ Grown(tree, offChain, treeFinal)
  BY DEF NonceInv, TreeOk
<1>1. /\ Snapshot(known, offChain, treeFinal) /\ leaps' = leaps
      /\ ParentAt[b] \in tree /\ treeFinal \in AncestorsOf[b] /\ b > Max(tree)
  BY DEF BlockArrives
<1>2. /\ tree \subseteq ChainBlock /\ treeFinal \in tree /\ b \in ChainBlock /\ b # 0
      /\ treeFinal \in ChainBlock /\ offChain \subseteq tree
  BY <1>0 DEF Grown
<1>3. \A c \in tree : c < b
  <2>1. tree \subseteq Int /\ IsFiniteSet(tree) /\ b \in Int
    <3>1. ChainBlock \subseteq Int /\ IsFiniteSet(ChainBlock)
      BY ChainNumbered
    <3>2. QED
      BY <1>2, <3>1, FS_Subset
  <2>2. Max(tree) \in tree /\ \A c \in tree : c <= Max(tree)
    BY <1>2, <2>1, MaxIsHighest
  <2>3. ASSUME NEW c \in tree PROVE c < b
    <3>1. c \in Int /\ Max(tree) \in Int /\ c <= Max(tree) /\ Max(tree) < b
      BY <1>1, <2>1, <2>2
    <3>2. QED
      BY <2>1, <3>1
  <2>4. QED
    BY <2>3
<1>4. b \notin tree
  <2>1. b \in Int
    BY <1>2, ChainNumbered
  <2>2. QED
    BY <1>3, <2>1
<1>5. AncestorsOf[b] = {b} \cup AncestorsOf[ParentAt[b]]
  BY <1>2, AncestorsStep
<1>6. Grown(known, offChain, treeFinal)
  <2>1. ASSUME NEW x \in AncestorsOf[b], treeFinal \in AncestorsOf[x] PROVE x \in known
    <3>1. CASE x \in AncestorsOf[ParentAt[b]]
      <4>1. x \in ChainBlock /\ ParentAt[b] \in ChainBlock
        BY <1>1, <1>2, <2>1, AncestorFacts
      <4>2. treeFinal \in AncestorsOf[ParentAt[b]]
        BY <1>2, <2>1, <3>1, <4>1, AncestorFacts
      <4>3. QED
        BY <1>0, <1>1, <2>1, <3>1, <4>2 DEF Grown
    <3>2. QED
      BY <1>5, <2>1, <3>1
  <2>2. QED
    BY <1>0, <1>1, <1>2, <2>1 DEF Grown
<1>7. ASSUME creation = "asking", leaps' = 0,
             NEW t \in Range(TipsKept(tips, treeFinal, known, offChain))
      PROVE  \/ HeightOf[t] < HeightOf[treeFinal]
             \/ /\ t \in Above(treeFinal, known)
                /\ ChildrenIn(t, known) \subseteq
                        NewTips(TipsKept(tips, treeFinal, known, offChain), known, offChain)
  <2>1. TipsKept(tips, treeFinal, known, offChain) = tips
    BY DEF TipsKept
  <2>2. LeafTips(tips, tree, treeFinal)
    BY <1>0, <1>1, <1>7 DEF TipsOk
  <2>3. CASE t \in Leaves(Above(treeFinal, tree))
    <3>1. t \in tree /\ t \in Above(treeFinal, tree) /\ t \in Above(treeFinal, known)
      BY <2>3 DEF Leaves, Above
    <3>2. ChildrenIn(t, tree) = {}
      BY <1>2, <2>3, <3>1, ChildrenAbove DEF Leaves
    <3>3. ChildrenIn(t, known) \subseteq {b}
      BY <3>2 DEF ChildrenIn
    <3>4. b \notin Range(tips)
      <4>1. ASSUME b \in Range(tips) PROVE FALSE
        <5>1. b \notin Leaves(Above(treeFinal, tree))
          BY <1>4 DEF Leaves, Above
        <5>2. HeightOf[b] < HeightOf[treeFinal]
          BY <2>2, <4>1, <5>1 DEF LeafTips
        <5>3. HeightOf[treeFinal] <= HeightOf[b]
          BY <1>1, <1>2, AncestorFacts
        <5>4. HeightOf[b] \in Nat /\ HeightOf[treeFinal] \in Nat
          BY <1>2, HeightStep
        <5>5. QED
          BY <5>2, <5>3, <5>4
      <4>2. QED
        BY <4>1
    <3>5. ChildrenIn(b, known) = {}
      <4>1. ASSUME NEW c \in ChildrenIn(b, known) PROVE FALSE
        <5>1. c \in ChainBlock \ {0} /\ ParentAt[c] = b /\ (c \in tree \/ c = b)
          BY <1>2, <4>1 DEF ChildrenIn
        <5>2. b < c /\ c \in Int /\ b \in Int
          BY <1>2, <5>1, ChainNumbered
        <5>3. QED
          BY <1>3, <5>1, <5>2
      <4>2. QED
        BY <4>1
    <3>6. b \in NewTips(tips, known, offChain)
      BY <1>2, <1>4, <3>4, <3>5 DEF NewTips, Leaves
    <3>7. QED
      BY <2>1, <3>1, <3>3, <3>6
  <2>4. QED
    BY <1>7, <2>1, <2>2, <2>3 DEF LeafTips
<1>8. leaps' \in Nat
  BY <1>0, <1>1 DEF NonceOk
<1> HIDE DEF known
<1>9. QED
  BY <1>1, <1>6, <1>7, <1>8, SnapshotFollows

LEMMA FinalityFollows ==
  ASSUME NonceInv, NEW f \in ChainBlock \ {0}, FinalityMoves(f)
  PROVE  NonceInv'
<1> DEFINE gone == {c \in tree : c \notin AncestorsOf[f] /\ f \notin AncestorsOf[c]}
           kept == TipsKept(tips, f, tree, gone)
<1>0. TreeOk /\ TipsOk /\ NonceOk /\ Grown(tree, offChain, treeFinal)
  BY DEF NonceInv, TreeOk
<1>1. /\ Snapshot(tree, gone, f) /\ leaps' = leaps
      /\ f \in tree /\ treeFinal \in AncestorsOf[f] /\ f # treeFinal
  BY DEF FinalityMoves, Above
<1>2. tree \subseteq ChainBlock /\ treeFinal \in tree /\ treeFinal \in ChainBlock /\ f \in ChainBlock
  BY <1>0 DEF Grown
<1>3. Grown(tree, gone, f)
  <2>1. ASSUME NEW b \in tree, f \in AncestorsOf[b], NEW x \in AncestorsOf[b], f \in AncestorsOf[x]
        PROVE  x \in tree
    <3>1. b \in ChainBlock /\ x \in ChainBlock
      BY <1>2, <2>1, AncestorFacts
    <3>2. treeFinal \in AncestorsOf[b] /\ treeFinal \in AncestorsOf[x]
      BY <1>1, <1>2, <2>1, <3>1, AncestorFacts
    <3>3. QED
      BY <1>0, <2>1, <3>2 DEF Grown
  <2>2. QED
    BY <1>1, <1>2, <2>1 DEF Grown
<1>4. ASSUME creation = "asking", leaps' = 0, NEW t \in Range(kept)
      PROVE  \/ HeightOf[t] < HeightOf[f]
             \/ t \in Above(f, tree) /\ ChildrenIn(t, tree) \subseteq NewTips(kept, tree, gone)
  <2>1. kept = Staying(tips, tree \ gone) /\ tips \in Seq(ChainBlock)
    BY <1>0, <1>1 DEF TipsKept, TipsOk
  <2>2. t \in Range(tips) /\ t \in tree /\ t \notin gone
    <3>1. Range(kept) = Range(tips) \cap (tree \ gone)
      BY <2>1, KeptElements
    <3> HIDE DEF gone, kept
    <3>2. QED
      BY <1>4, <3>1
  <2>3. t \in ChainBlock /\ (t \in AncestorsOf[f] \/ f \in AncestorsOf[t])
    BY <1>2, <2>2
  <2>4. CASE f \notin AncestorsOf[t]
    <3>1. t \in AncestorsOf[f] /\ t # f
      BY <1>2, <2>3, <2>4, AncestorFacts
    <3>2. QED
      BY <1>2, <2>3, <3>1, AncestorFacts
  <2>5. CASE f \in AncestorsOf[t]
    <3>1. treeFinal \in AncestorsOf[t]
      BY <1>1, <1>2, <2>3, <2>5, AncestorFacts
    <3>2. HeightOf[treeFinal] <= HeightOf[t] /\ HeightOf[treeFinal] \in Nat /\ HeightOf[t] \in Nat
      BY <1>2, <2>3, <3>1, AncestorFacts, HeightStep
    <3>3. t \in Leaves(Above(treeFinal, tree))
      BY <1>0, <1>1, <1>4, <2>2, <3>2 DEF TipsOk, LeafTips
    <3>4. ChildrenIn(t, tree) = {}
      <4>1. t \in Above(treeFinal, tree)
        BY <3>3 DEF Leaves
      <4>2. QED
        BY <1>2, <3>3, <4>1, ChildrenAbove DEF Leaves
    <3>5. QED
      BY <2>2, <2>5, <3>4 DEF Above
  <2>6. QED
    BY <2>4, <2>5
<1>5. leaps' \in Nat
  BY <1>0, <1>1 DEF NonceOk
<1> HIDE DEF gone
<1>6. QED
  BY <1>1, <1>3, <1>4, <1>5, SnapshotFollows

LEMMA TreeCleanUpFollows ==
  ASSUME NonceInv, TreeCleanUp
  PROVE  NonceInv'
<1>0. TreeOk /\ TipsOk /\ NonceOk /\ Grown(tree, offChain, treeFinal)
  BY DEF NonceInv, TreeOk
<1>1. PICK free \in SUBSET {b \in tree : b \in offChain \/ HeightOf[b] < HeightOf[treeFinal]} :
           Snapshot(tree \ free, offChain \ free, treeFinal)
  BY DEF TreeCleanUp
<1> DEFINE known == tree \ free
           gone == offChain \ free
           kept == TipsKept(tips, treeFinal, known, gone)
<1>2. leaps' = leaps /\ kept = tips
  BY DEF TreeCleanUp, TipsKept
<1>3. tree \subseteq ChainBlock /\ treeFinal \in tree /\ treeFinal \in ChainBlock
  BY <1>0 DEF Grown
<1>4. \A b \in tree : treeFinal \in AncestorsOf[b] => b \in known
  <2> SUFFICES ASSUME NEW b \in tree, treeFinal \in AncestorsOf[b], b \in free PROVE FALSE
    OBVIOUS
  <2>1. b \notin offChain
    BY <1>0 DEF Grown
  <2>2. HeightOf[b] < HeightOf[treeFinal]
    BY <2>1
  <2>3. HeightOf[treeFinal] <= HeightOf[b] /\ HeightOf[b] \in Nat /\ HeightOf[treeFinal] \in Nat
    BY <1>3, AncestorFacts, HeightStep
  <2>4. QED
    BY <2>2, <2>3
<1>5. Above(treeFinal, known) = Above(treeFinal, tree)
  BY <1>4 DEF Above
<1>6. treeFinal \in known
  BY <1>3, <1>4, AncestorFacts
<1>7. Grown(known, gone, treeFinal)
  <2>1. ASSUME NEW b \in known, treeFinal \in AncestorsOf[b],
               NEW x \in AncestorsOf[b], treeFinal \in AncestorsOf[x]
        PROVE  x \in known
    BY <1>0, <1>4, <2>1 DEF Grown
  <2>2. \A b \in known \ gone : treeFinal \in AncestorsOf[b] \/ b \in AncestorsOf[treeFinal]
    BY <1>0 DEF Grown
  <2>3. \A b \in gone : treeFinal \notin AncestorsOf[b]
    BY <1>0 DEF Grown
  <2>4. known \subseteq ChainBlock /\ gone \subseteq known
    BY <1>0, <1>3 DEF Grown
  <2> HIDE DEF known, gone
  <2>5. QED
    BY <1>6, <2>1, <2>2, <2>3, <2>4 DEF Grown
<1>8. ASSUME creation = "asking", leaps' = 0, NEW t \in Range(kept)
      PROVE  \/ HeightOf[t] < HeightOf[treeFinal]
             \/ /\ t \in Above(treeFinal, known)
                /\ ChildrenIn(t, known) \subseteq NewTips(kept, known, gone)
  <2>1. LeafTips(tips, tree, treeFinal) /\ t \in Range(tips)
    BY <1>0, <1>2, <1>8 DEF TipsOk
  <2>2. CASE t \in Leaves(Above(treeFinal, tree))
    <3>1. t \in Above(treeFinal, known) /\ ChildrenIn(t, Above(treeFinal, known)) = {}
      BY <1>5, <2>2 DEF Leaves
    <3>2. known \subseteq ChainBlock
      BY <1>3
    <3> HIDE DEF known
    <3>3. ChildrenIn(t, known) = {}
      BY <1>3, <3>1, <3>2, ChildrenAbove
    <3>4. QED
      BY <3>1, <3>3
  <2>3. QED
    BY <2>1, <2>2 DEF LeafTips
<1>9. leaps' \in Nat
  BY <1>0, <1>2 DEF NonceOk
<1> HIDE DEF known, gone
<1>10. QED
  BY <1>1, <1>2, <1>7, <1>8, <1>9, SnapshotFollows DEF known, gone

LEMMA LeapFollows ==
  ASSUME NonceInv, NEW b \in ChainBlock \ {0}, Leap(b)
  PROVE  NonceInv'
<1>0. TreeOk /\ TipsOk /\ NonceOk /\ Grown(tree, offChain, treeFinal) /\ leaps \in Nat
  BY DEF NonceInv, TreeOk, NonceOk
<1>1. PICK fin \in Above(treeFinal, AncestorsOf[b]) :
           Snapshot(AncestorsOf[b] \cap Above(fin, ChainBlock), {}, fin)
  BY DEF Leap
<1>2. leaps' = leaps + 1 /\ leaps' \in Nat /\ leaps' # 0
  BY <1>0 DEF Leap
<1> DEFINE known == AncestorsOf[b] \cap Above(fin, ChainBlock)
<1>3. /\ b \in ChainBlock /\ fin \in AncestorsOf[b] /\ fin \in ChainBlock
      /\ AncestorsOf[b] \subseteq ChainBlock
  BY AncestorFacts DEF Above
<1>4. fin \in known
  BY <1>3, AncestorFacts DEF Above
<1>5. \A c \in known : fin \in AncestorsOf[c]
  BY DEF Above
<1>6. ASSUME NEW c \in known, NEW x \in AncestorsOf[c], fin \in AncestorsOf[x] PROVE x \in known
  <2>1. c \in ChainBlock /\ c \in AncestorsOf[b] /\ x \in ChainBlock
    BY <1>3, <1>6, AncestorFacts
  <2>2. x \in AncestorsOf[b]
    BY <1>3, <1>6, <2>1, AncestorFacts
  <2>3. QED
    BY <1>6, <2>1, <2>2 DEF Above
<1>7. known \subseteq ChainBlock
  BY <1>3
<1> HIDE DEF known
<1>8. Grown(known, {}, fin)
  BY <1>4, <1>5, <1>6, <1>7 DEF Grown
<1>9. QED
  BY <1>1, <1>2, <1>8, SnapshotFollows DEF known

\* The first question: the tips are the leaves above the finalized block.
LEMMA AskFollows ==
  ASSUME NonceInv, AskNonce
  PROVE  NonceInv'
<1> DEFINE live == Above(treeFinal, tree)
           ts == FirstTips(tree, treeFinal)
<1>0. TreeOk /\ NonceOk /\ Grown(tree, offChain, treeFinal)
  BY DEF NonceInv, TreeOk
<1>1. /\ creation = "no" /\ creation' = "asking" /\ tips' = ts /\ nonce' = nonce
      /\ asks' = [h \in Highest(Range(ts)) |->
                    [at |-> h, moved |-> FALSE, open |-> TRUE, state |-> "none", from |-> h]]
      /\ tree' = tree /\ offChain' = offChain /\ treeFinal' = treeFinal /\ leaps' = leaps
  BY DEF AskNonce
<1>2. live \subseteq ChainBlock
  BY <1>0 DEF Grown, Above
<1>3. /\ ts \in Seq(ChainBlock) /\ IsInjective(ts)
      /\ Range(ts) = {t \in live : ChildrenIn(t, live) = {}}
  <2>1. <<>> \in Seq(ChainBlock) /\ Range(<<>>) = {} /\ IsInjective(<<>>)
    BY DEF Range, IsInjective
  <2> DEFINE none == <<>>
  <2> HIDE DEF none, live
  <2>2. /\ WithTips(none, live) \in Seq(ChainBlock) /\ IsInjective(WithTips(none, live))
        /\ Range(WithTips(none, live)) = {t \in Range(none) \cup live : ChildrenIn(t, live) = {}}
    BY <1>2, <2>1, WithTipsElements DEF none
  <2>3. ts = WithTips(none, live)
    BY DEF FirstTips, none, live
  <2> HIDE DEF ts
  <2>4. Range(none) = {}
    BY <2>1 DEF none
  <2>5. QED
    BY <2>2, <2>3, <2>4
<1>4. LeafTips(ts, tree, treeFinal)
  BY <1>3 DEF LeafTips, Leaves
<1> HIDE DEF ts, live
<1>5. TipsOk' /\ TreeOk'
  BY <1>0, <1>1, <1>3, <1>4 DEF TipsOk, TreeOk
<1>6. NonceOk'
  BY <1>0, <1>1 DEF NonceOk
<1>7. AsksOk'
  <2> DEFINE H == Highest(Range(ts))
  <2>1. H \subseteq ChainBlock
    BY <1>2, <1>3 DEF Highest
  <2> HIDE DEF H
  <2>2. asks' = [h \in H |->
                  [at |-> h, moved |-> FALSE, open |-> TRUE, state |-> "none", from |-> h]]
    BY <1>1 DEF H
  <2>3. ASSUME NEW h \in H PROVE AskOk(h, asks'[h])
    <3>1. asks'[h] = [at |-> h, moved |-> FALSE, open |-> TRUE, state |-> "none", from |-> h]
      BY <2>2
    <3>2. h \in ChainBlock
      BY <2>1
    <3>3. QED
      BY <3>1, <3>2 DEF AskOk, AskRecord, Near
  <2>4. DOMAIN asks' = H /\ asks' = [h \in DOMAIN asks' |-> asks'[h]]
    BY <2>2
  <2>5. QED
    BY <1>1, <2>1, <2>3, <2>4 DEF AsksOk
<1>8. QED
  BY <1>5, <1>6, <1>7 DEF NonceInv

LEMMA NonceTyped == \A b \in ChainBlock : NonceAt[b] \in Nat
BY ChainTipsAssumption, ChainNumbered

\* An answer, or a refusal, and what is settled by it.
LEMMA SettleFollows ==
  ASSUME NonceInv, creation = "asking", NEW as, SettleNonce(as),
         DOMAIN as = DOMAIN asks, as = [h \in DOMAIN as |-> as[h]],
         \A h \in DOMAIN as : AskOk(h, as[h]),
         UNCHANGED <<tree, offChain, treeFinal, tips, leaps>>
  PROVE  NonceInv'
<1>0. TreeOk /\ TipsOk /\ AsksOk /\ NonceOk /\ DOMAIN asks \subseteq ChainBlock
  BY DEF NonceInv, AsksOk
<1>1. TreeOk'
  BY <1>0 DEF TreeOk
<1>2. asks' = as /\ creation' \in {"asking", "decided", "failed"}
  BY DEF SettleNonce
<1>3. TipsOk'
  BY <1>0, <1>2 DEF TipsOk
<1>4. AsksOk'
  BY <1>0, <1>2 DEF AsksOk
<1>5. NonceOk'
  <2>1. CASE \E h \in DOMAIN as : as[h].state = "none"
    <3>1. creation' = creation /\ nonce' = nonce
      BY <2>1 DEF SettleNonce
    <3>2. QED
      BY <1>0, <3>1 DEF NonceOk
  <2>2. CASE (\A h \in DOMAIN as : as[h].state # "none") /\ Succeeded(as) = {}
    <3>1. creation' = "failed" /\ nonce' = nonce
      BY <2>2 DEF SettleNonce
    <3>2. \A h \in DOMAIN as : as[h].state = "failed"
      BY <2>2 DEF Succeeded, AskOk, AskRecord
    <3>3. QED
      BY <1>0, <1>2, <3>1, <3>2 DEF NonceOk
  <2>3. CASE (\A h \in DOMAIN as : as[h].state # "none") /\ Succeeded(as) # {}
    <3> DEFINE Ns == {NonceAt[as[h].from] : h \in Succeeded(as)}
    <3>1. creation' = "decided" /\ nonce' = Max(Ns)
      BY <2>3 DEF SettleNonce
    <3>2. Succeeded(as) \subseteq ChainBlock /\ IsFiniteSet(Succeeded(as))
      <4>1. Succeeded(as) \subseteq ChainBlock
        BY <1>0 DEF Succeeded
      <4>2. QED
        BY <4>1, ChainNumbered, FS_Subset
    <3>3. \A h \in Succeeded(as) : NonceAt[as[h].from] \in Nat
      BY NonceTyped DEF Succeeded, AskOk, AskRecord
    <3>4. IsFiniteSet(Ns) /\ Ns \subseteq Int /\ Ns # {}
      <4> DEFINE g == [h \in Succeeded(as) |-> NonceAt[as[h].from]]
      <4>1. g \in Surjection(Succeeded(as), Ns)
        BY DEF Surjection
      <4>2. IsFiniteSet(Ns)
        BY <3>2, <4>1, FS_Surjection
      <4>3. Ns \subseteq Int
        <5> SUFFICES ASSUME NEW n \in Ns PROVE n \in Int
          OBVIOUS
        <5>1. PICK h \in Succeeded(as) : n = NonceAt[as[h].from]
          OBVIOUS
        <5>2. NonceAt[as[h].from] \in Nat
          BY <3>3, <5>1
        <5>3. n \in Nat
          BY <5>1, <5>2, Zenon
        <5>4. QED
          BY <5>3
      <4>4. Ns # {}
        <5>1. PICK h \in Succeeded(as) : TRUE
          BY <2>3
        <5>2. NonceAt[as[h].from] \in Ns
          BY <5>1
        <5>3. QED
          BY <5>2
      <4>5. QED
        BY <4>2, <4>3, <4>4
    <3> HIDE DEF Ns
    <3>5. Max(Ns) \in Ns /\ \A n \in Ns : n <= Max(Ns)
      BY <3>4, MaxIsHighest
    <3>6. \E h \in Succeeded(as) : nonce' = NonceAt[as[h].from]
      BY <3>1, <3>5 DEF Ns
    <3>7. ASSUME NEW h \in Succeeded(as) PROVE nonce' >= NonceAt[as[h].from]
      <4>1. NonceAt[as[h].from] \in Ns
        BY DEF Ns
      <4>2. NonceAt[as[h].from] \in Int /\ Max(Ns) \in Int
        <5>1. NonceAt[as[h].from] \in Int
          BY <3>4, <4>1
        <5>2. Max(Ns) \in Int
          BY <3>4, <3>5
        <5>3. QED
          BY <5>1, <5>2
      <4>3. QED
        BY <3>1, <3>5, <4>1, <4>2
    <3>8. Succeeded(asks)' = Succeeded(as)
      BY <1>2 DEF Succeeded
    <3>9. leaps' \in Nat
      BY <1>0 DEF NonceOk
    <3>10. QED
      BY <1>2, <3>1, <3>6, <3>7, <3>8, <3>9 DEF NonceOk
  <2>4. QED
    BY <2>1, <2>2, <2>3
<1>6. QED
  BY <1>1, <1>3, <1>4, <1>5 DEF NonceInv

LEMMA AnswerFollows ==
  ASSUME NonceInv, NEW h \in DOMAIN asks, NonceComes(h) \/ NonceRefused(h)
  PROVE  NonceInv'
<1>0. AskOk(h, asks[h]) /\ asks = [g \in DOMAIN asks |-> asks[g]] /\ asks[h] \in AskRecord
  BY DEF NonceInv, AsksOk, AskOk
<1>1. creation = "asking" /\ UNCHANGED <<tree, offChain, treeFinal, tips, leaps>>
  BY DEF NonceComes, NonceRefused
<1>2. \A g \in DOMAIN asks : AskOk(g, asks[g])
  BY DEF NonceInv, AsksOk
<1>3. CASE NonceComes(h)
  <2> DEFINE x == [asks[h] EXCEPT !.open = FALSE, !.state = "ok", !.from = asks[h].at]
             as == [asks EXCEPT ![h] = x]
  <2>1. AskOk(h, x)
    BY <1>0 DEF AskOk, AskRecord
  <2>2. SettleNonce(as)
    <3>1. SettleNonce([asks EXCEPT ![h].open = FALSE, ![h].state = "ok", ![h].from = asks[h].at])
      BY <1>3 DEF NonceComes
    <3>2. [asks EXCEPT ![h].open = FALSE, ![h].state = "ok", ![h].from = asks[h].at] = as
      OBVIOUS
    <3>3. QED
      BY <3>1, <3>2
  <2> HIDE DEF x
  <2>3. /\ DOMAIN as = DOMAIN asks /\ as = [g \in DOMAIN as |-> as[g]]
        /\ \A g \in DOMAIN as : AskOk(g, as[g])
    BY <1>2, <2>1
  <2> HIDE DEF as
  <2>4. QED
    BY <1>1, <2>2, <2>3, SettleFollows
<1>4. CASE NonceRefused(h)
  <2> DEFINE x == [asks[h] EXCEPT !.open = FALSE, !.state = "failed"]
             as == [asks EXCEPT ![h] = x]
  <2>1. AskOk(h, x)
    BY <1>0 DEF AskOk, AskRecord
  <2>2. SettleNonce(as)
    <3>1. SettleNonce([asks EXCEPT ![h].open = FALSE, ![h].state = "failed"])
      BY <1>4 DEF NonceRefused
    <3>2. [asks EXCEPT ![h].open = FALSE, ![h].state = "failed"] = as
      OBVIOUS
    <3>3. QED
      BY <3>1, <3>2
  <2> HIDE DEF x
  <2>3. /\ DOMAIN as = DOMAIN asks /\ as = [g \in DOMAIN as |-> as[g]]
        /\ \A g \in DOMAIN as : AskOk(g, as[g])
    BY <1>2, <2>1
  <2> HIDE DEF as
  <2>4. QED
    BY <1>1, <2>2, <2>3, SettleFollows
<1>5. QED
  BY <1>3, <1>4

LEMMA NonceStarts == TipInit => NonceInv
<1> SUFFICES ASSUME TipInit PROVE NonceInv
  OBVIOUS
<1>1. /\ tree = {0} /\ offChain = {} /\ treeFinal = 0 /\ creation = "no" /\ tips = <<>>
      /\ asks = <<>> /\ nonce = -1 /\ leaps = 0
  BY DEF TipInit
<1>2. 0 \in ChainBlock /\ AncestorsOf[0] = {0}
  BY ChainNumbered, AncestorsStep
<1>3. TreeOk
  BY <1>1, <1>2 DEF TreeOk, Grown
<1>4. TipsOk
  BY <1>1 DEF TipsOk
<1>5. AsksOk
  BY <1>1 DEF AsksOk
<1>6. NonceOk
  BY <1>1 DEF NonceOk
<1>7. QED
  BY <1>3, <1>4, <1>5, <1>6 DEF NonceInv

LEMMA NonceStep == NonceInv /\ [TipNext]_tipVars => NonceInv'
<1> SUFFICES ASSUME NonceInv, [TipNext]_tipVars PROVE NonceInv'
  OBVIOUS
<1>1. CASE UNCHANGED tipVars
  <2>1. /\ tree' = tree /\ offChain' = offChain /\ treeFinal' = treeFinal /\ creation' = creation
        /\ tips' = tips /\ asks' = asks /\ nonce' = nonce /\ leaps' = leaps
    BY <1>1 DEF tipVars, streamVars
  <2>2. TreeOk' /\ TipsOk'
    BY <2>1 DEF NonceInv, TreeOk, TipsOk
  <2>3. AsksOk' /\ NonceOk'
    BY <2>1 DEF NonceInv, AsksOk, NonceOk, Succeeded
  <2>4. QED
    BY <2>2, <2>3 DEF NonceInv
<1>2. CASE TipNext
  BY <1>2, ArrivalFollows, FinalityFollows, LeapFollows, TreeCleanUpFollows, AskFollows,
     AnswerFollows DEF TipNext
<1>3. QED
  BY <1>1, <1>2

\* The nonce of an account does not fall along the chain.
NoncesGrow == \A b \in ChainBlock \ {0} : NonceAt[ParentAt[b]] <= NonceAt[b]

LEMMA NonceMeans == NoncesGrow /\ NonceInv => NoncesAreRight
<1> SUFFICES ASSUME NoncesGrow, NonceInv PROVE NoncesAreRight
  OBVIOUS
<1>0. TreeOk /\ TipsOk /\ AsksOk /\ NonceOk /\ Grown(tree, offChain, treeFinal)
  BY DEF NonceInv, TreeOk
<1>1. TipsAreLeaves
  <2> SUFFICES ASSUME creation = "asking", leaps = 0
               PROVE  LET live == Above(treeFinal, tree)
                      IN  /\ IsInjective(tips)
                          /\ Leaves(live) \subseteq Range(tips)
                          /\ \A t \in Range(tips) \ Leaves(live) :
                                HeightOf[t] < HeightOf[treeFinal]
                          /\ Highest(Range(tips)) = Highest(live)
    BY DEF TipsAreLeaves
  <2>1. LeafTips(tips, tree, treeFinal) /\ tips \in Seq(ChainBlock)
    BY <1>0 DEF TipsOk
  <2>2. Highest(Range(tips)) = Highest(Above(treeFinal, tree))
    BY <1>0, <2>1, HighestAreTips
  <2>3. QED
    BY <2>1, <2>2 DEF LeafTips
<1>2. NonceIsRight
  <2> SUFFICES ASSUME nonce >= 0
               PROVE  /\ \E h \in DOMAIN asks : \E b \in {h} \cup ChildrenIn(h, ChainBlock) :
                              nonce = NonceAt[b]
                      /\ \A h \in Succeeded(asks) :
                              nonce >= NonceAt[h] /\ nonce >= NonceAt[asks[h].from]
    BY DEF NonceIsRight
  <2>1. /\ \E h \in Succeeded(asks) : nonce = NonceAt[asks[h].from]
        /\ \A h \in Succeeded(asks) : nonce >= NonceAt[asks[h].from]
    <3>1. creation # "decided" => nonce = -1
      BY <1>0 DEF NonceOk
    <3>2. creation = "decided"
      BY <3>1
    <3>3. QED
      BY <1>0, <3>2 DEF NonceOk
  <2>2. \A h \in Succeeded(asks) : /\ h \in DOMAIN asks /\ h \in ChainBlock
                                   /\ asks[h].from \in {h} \cup ChildrenIn(h, ChainBlock)
    BY <1>0 DEF Succeeded, AsksOk, AskOk, Near
  <2>3. ASSUME NEW h \in Succeeded(asks) PROVE nonce >= NonceAt[h]
    <3>1. h \in ChainBlock /\ (asks[h].from = h \/ asks[h].from \in ChildrenIn(h, ChainBlock))
      BY <2>2
    <3>2. CASE asks[h].from = h
      BY <2>1, <3>2
    <3>3. CASE asks[h].from \in ChildrenIn(h, ChainBlock)
      <4>1. asks[h].from \in ChainBlock \ {0} /\ ParentAt[asks[h].from] = h
        BY <3>3 DEF ChildrenIn
      <4>2. NonceAt[h] <= NonceAt[asks[h].from]
        BY <4>1 DEF NoncesGrow
      <4>3. NonceAt[h] \in Nat /\ NonceAt[asks[h].from] \in Nat
        BY <3>1, <4>1, NonceTyped
      <4>4. nonce \in Nat
        BY <2>1, <2>2, NonceTyped DEF ChildrenIn
      <4>5. nonce >= NonceAt[asks[h].from]
        BY <2>1
      <4>6. QED
        BY <4>2, <4>3, <4>4, <4>5
    <3>4. QED
      BY <3>1, <3>2, <3>3
  <2>4. QED
    BY <2>1, <2>2, <2>3
<1>3. FailedForAReason
  BY <1>0 DEF NonceOk, FailedForAReason
<1>4. QED
  BY <1>1, <1>2, <1>3 DEF NoncesAreRight

\* For any tree of blocks, any order of answers and refusals: while the enhancer listens
\* the tips are the leaves of the tree and the highest of them its highest blocks; the
\* nonce is the greatest that was read at a head or right above it, never less than at a
\* head that answered, and there is none only if every head failed.
THEOREM NoncesStayRight ==
  ASSUME NoncesGrow
  PROVE  TipSpec => []NoncesAreRight
<1>1. NonceInv => NoncesAreRight
  BY NonceMeans
<1>2. TipSpec => []NonceInv
  BY NonceStarts, NonceStep, PTL DEF TipSpec
<1>3. QED
  BY <1>1, <1>2, PTL

-------------------------------------------------------------------------------
(***************************************************************************)
(* Watched entries.                                                        *)
(***************************************************************************)
\* A memory block has the entries of its block, and what changed since the one before.
MemoryBlockOk(x, b) ==
  /\ x # <<>> /\ x.block = b /\ x.entries = Content[b]
  /\ x.prev # Nothing =>
       /\ x.prev \in Path[b] \ {b}
       /\ x.deltas = Deltas(Content[x.prev], Content[b])

MemoryOk(mem) ==
  mem # <<>> =>
    /\ mem = [blocks |-> mem.blocks, finalized |-> mem.finalized]
    /\ DOMAIN mem.blocks \subseteq Chain
    /\ \A b \in DOMAIN mem.blocks : MemoryBlockOk(mem.blocks[b], b)

\* So are the blocks of the best chain that are not finalized yet.
PinsOk ==
  /\ pins \subseteq Chain /\ {top, final} \subseteq pins
  /\ final \in Path[top] /\ Path[top] \ Path[final] \subseteq pins
  /\ losses \in 0 .. MaxLosses

\* An update is traced to a memory block below it; the job that starts over had a memory.
JobOk(j) ==
  j # Idle =>
    /\ j = [kind |-> j.kind, block |-> j.block, prev |-> j.prev, base |-> j.base, over |-> j.over]
    /\ j.kind \in {"initial", "update", "restart"}
    /\ j.block \in Chain
    /\ j.kind = "update" =>
         j.prev # <<>> /\ \E c \in Path[j.block] \ {j.block} : MemoryBlockOk(j.prev, c)
    /\ MemoryOk(j.base)

QueuedOk(q) == q # <<>> => {q.best, q.finalized} \subseteq Chain

RightReport == {[block |-> b, entries |-> Content[b]] : b \in Chain}

\* What a watcher keeps is what it reported last.
ShownOk(sh, rep, f) ==
  /\ DOMAIN sh = {"best", "finalized"} /\ DOMAIN rep = {"best", "finalized"}
  /\ \A w \in {"best", "finalized"} :
       /\ rep[w] \in Seq(RightReport)
       /\ w = "finalized" => \A i \in 1 .. Len(rep[w]) : rep[w][i].block \in Path[f]
       /\ sh[w] # <<>> =>
            /\ sh[w].block \in Chain /\ MemoryBlockOk(sh[w], sh[w].block)
            /\ Len(rep[w]) > 0 /\ rep[w][Len(rep[w])].block = sh[w].block

\* What is under way makes up for a best block that is not in memory.
Following ==
  /\ memory = <<>> => missed
  /\ ~Busy => queued = <<>>
  /\ Busy => (job.kind = "initial" <=> memory = <<>>)
  /\ memory # <<>> /\ ~missed /\ ~stuck =>
       IF ~Busy THEN top \in DOMAIN memory.blocks
       ELSE IF queued = <<>> THEN job.kind = "update" /\ job.block = top
       ELSE queued.best = top

\* The best watcher showed the best block if that is in memory.
BestShown(mem, sh, b) ==
  "best" \in Range(watchers) /\ mem # <<>> /\ b \in DOMAIN mem.blocks
    => sh["best"] # <<>> /\ sh["best"].block = b

SomeWatchers == {<<"best">>, <<"finalized">>, <<"best", "finalized">>, <<"finalized", "best">>}

WatchInv ==
  /\ watchers \in SomeWatchers
  /\ missed \in BOOLEAN /\ stuck \in BOOLEAN
  /\ PinsOk /\ MemoryOk(memory) /\ JobOk(job) /\ QueuedOk(queued)
  /\ ShownOk(shown, reports, final)
  /\ Following
  /\ BestShown(memory, shown, top)

LEMMA WatchNumbered ==
  /\ Len(Parent) \in Nat
  /\ DOMAIN Parent = 1 .. Len(Parent)
  /\ Chain = 0 .. Len(Parent)
  /\ Nothing \notin Chain
  /\ Genesis \in Chain /\ Genesis \notin DOMAIN Parent
  /\ \A b \in DOMAIN Parent : b \in Chain /\ Parent[b] \in Chain /\ Parent[b] < b
<1>1. Len(Parent) \in Nat /\ DOMAIN Parent = 1 .. Len(Parent)
  BY WatchAssumption, LenProperties
<1>2. \A b \in DOMAIN Parent : Parent[b] \in 0 .. b - 1
  BY WatchAssumption
<1>3. QED
  BY <1>1, <1>2 DEF Nothing, Genesis, Chain

\* Induction from the root upwards.
LEMMA WatchInduction ==
  ASSUME NEW S, Genesis \in S, \A b \in DOMAIN Parent : Parent[b] \in S => b \in S
  PROVE  Chain \subseteq S
<1> DEFINE N == {n \in Nat : \A b \in Chain : b <= n => b \in S}
<1>1. 0 \in N
  BY WatchNumbered DEF Genesis
<1>2. ASSUME NEW n \in Nat, n \in N PROVE n + 1 \in N
  <2>1. ASSUME NEW b \in Chain, b <= n + 1, b # Genesis PROVE b \in S
    <3>1. b \in DOMAIN Parent /\ Parent[b] \in Chain /\ Parent[b] <= n
      BY <2>1, WatchNumbered DEF Genesis
    <3>2. QED
      BY <3>1, <1>2
  <2>2. QED
    BY <2>1
<1> HIDE DEF N
<1>3. Nat \subseteq N
  BY <1>1, <1>2, InductionOverNat
<1>4. \A b \in Chain : b \in Nat /\ b <= b
  BY WatchNumbered
<1>5. QED
  BY <1>3, <1>4 DEF N

LEMMA PathStep ==
  /\ Path[Genesis] = {Genesis}
  /\ \A b \in DOMAIN Parent : Path[b] = {b} \cup Path[Parent[b]]
<1> DEFINE V == SUBSET Chain
           start == [b \in Chain |-> {b}]
           below == [b \in Chain |-> IF b = Genesis THEN Genesis ELSE Parent[b]]
           F == [b \in Chain |-> [v \in V |-> {b} \cup v]]
           rank == [b \in Chain |-> b]
<1>0. /\ \A b \in Chain : below[b] = IF b = Genesis THEN Genesis ELSE Parent[b]
      /\ \A b \in Chain : start[b] = {b}
      /\ \A b \in Chain : \A v \in V : F[b][v] = {b} \cup v
  OBVIOUS
<1>a. \A b \in Chain : b = Genesis \/ b \in DOMAIN Parent
  BY DEF Chain
<1>b. below \in [Chain -> Chain]
  BY <1>a, WatchNumbered
<1>1. Steps(start, F, Chain, V)
  <2>1. \A b \in Chain : F[b] \in [V -> V]
    OBVIOUS
  <2>2. start \in [Chain -> V]
    OBVIOUS
  <2> HIDE DEF F, start
  <2>3. F \in [Chain -> [V -> V]]
    BY <2>1 DEF F
  <2>4. QED
    BY <2>2, <2>3 DEF Steps
<1>r. Ranks(rank, below, {Genesis}, Chain)
  <2>1. rank \in [Chain -> Nat]
    BY WatchNumbered
  <2>2. \A d \in Chain : d \in {Genesis} \/ rank[below[d]] < rank[d]
    BY <1>a, WatchNumbered, <1>b
  <2>3. QED
    BY <1>b, <2>1, <2>2 DEF Ranks
<1> HIDE DEF start, F, below, rank
<1>2. PICK g \in [Chain -> V] : Solves(g, start, F, below, {Genesis}, Chain)
  BY <1>1, <1>r, RecursionByRank
<1>3. \A b \in Chain : g[b] = {b} \cup IF b = Genesis THEN {} ELSE g[Parent[b]]
  <2> SUFFICES ASSUME NEW b \in Chain
               PROVE  g[b] = {b} \cup IF b = Genesis THEN {} ELSE g[Parent[b]]
    OBVIOUS
  <2>1. CASE b = Genesis
    BY <1>0, <1>2, <2>1 DEF Solves
  <2>2. CASE b # Genesis
    <3>1. g[b] = F[b][g[below[b]]]
      BY <1>2, <2>2 DEF Solves
    <3>2. below[b] = Parent[b] /\ below[b] \in Chain
      BY <1>0, <1>b, <2>2
    <3>3. g[below[b]] \in V
      BY <1>2, <3>2
    <3>4. QED
      BY <1>0, <2>2, <3>1, <3>2, <3>3
  <2>3. QED
    BY <2>1, <2>2
<1>4. g = [b \in Chain |-> g[b]]
  OBVIOUS
<1>5. g = [b \in Chain |-> {b} \cup IF b = Genesis THEN {} ELSE g[Parent[b]]]
  BY <1>3, <1>4, Zenon
<1>6. Path = [b \in Chain |-> {b} \cup IF b = Genesis THEN {} ELSE Path[Parent[b]]]
  BY <1>5 DEF Path
<1>7. \A b \in Chain : Path[b] = {b} \cup IF b = Genesis THEN {} ELSE Path[Parent[b]]
  BY <1>6
<1>8. QED
  BY <1>7, WatchNumbered

\* DOMAIN Parent are a tree: Path is its order, from the root upwards.
LEMMA PathFacts ==
  /\ \A b \in Chain : Path[b] \subseteq Chain /\ b \in Path[b] /\ Genesis \in Path[b]
  /\ \A a, b \in Chain : a \in Path[b] => a <= b
  /\ \A a, b, c \in Chain : a \in Path[b] /\ b \in Path[c] => a \in Path[c]
  /\ \A a, b, c \in Chain : a \in Path[c] /\ b \in Path[c] => a \in Path[b] \/ b \in Path[a]
  /\ \A a, b \in Chain : a \in Path[b] /\ b \in Path[a] => a = b
<1> DEFINE Fine(c) ==
             /\ Path[c] \subseteq Chain /\ c \in Path[c] /\ Genesis \in Path[c]
             /\ \A a \in Path[c] : a <= c /\ Path[a] \subseteq Path[c]
             /\ \A a, b \in Path[c] : a \in Path[b] \/ b \in Path[a]
           S == {c \in Chain : Fine(c)}
<1>1. Genesis \in S
  BY PathStep, WatchNumbered DEF Genesis
<1>2. ASSUME NEW c \in DOMAIN Parent, Parent[c] \in S PROVE c \in S
  <2> DEFINE p == Parent[c]
  <2>1. /\ Path[c] = {c} \cup Path[p] /\ p \in Chain /\ c \in Chain /\ p < c /\ Fine(p)
        /\ c \in Nat /\ p \in Nat
    BY <1>2, PathStep, WatchNumbered
  <2> HIDE DEF p
  <2>2. Path[c] \subseteq Chain /\ c \in Path[c] /\ Genesis \in Path[c]
    BY <2>1
  <2>3. ASSUME NEW a \in Path[c] PROVE a <= c /\ Path[a] \subseteq Path[c]
    <3>1. a \in Nat
      BY <2>2, WatchNumbered
    <3>2. QED
      BY <2>1, <3>1
  <2>4. \A a, b \in Path[c] : a \in Path[b] \/ b \in Path[a]
    BY <2>1
  <2>5. QED
    BY <2>1, <2>2, <2>3, <2>4
<1> HIDE DEF S
<1>3. Chain \subseteq S
  BY <1>1, <1>2, WatchInduction
<1>4. \A c \in Chain : Fine(c)
  BY <1>3 DEF S
<1>5. \A a, b \in Chain : a \in Path[b] /\ b \in Path[a] => a = b
  <2>1. \A a, b \in Chain : a \in Path[b] /\ b \in Path[a] => a <= b /\ b <= a
    BY <1>4
  <2>2. QED
    BY <2>1, WatchNumbered
<1>6. QED
  BY <1>4, <1>5

LEMMA Numbers ==
  /\ \A b \in Chain : Number(b) \in Int
  /\ \A a, b \in Chain : a \in Path[b] => Number(a) <= Number(b)
  /\ \A a, b \in Chain : a \in Path[b] /\ a # b => Number(a) < Number(b)
<1>1. IsFiniteSet(Chain)
  BY WatchNumbered, FS_Interval
<1>2. \A b \in Chain : IsFiniteSet(Path[b]) /\ Cardinality(Path[b]) \in Nat
  BY <1>1, PathFacts, FS_Subset, FS_CardinalityType
<1>3. ASSUME NEW a \in Chain, NEW b \in Chain, a \in Path[b], a # b
      PROVE  Cardinality(Path[a]) < Cardinality(Path[b])
  <2>1. Path[a] \subseteq Path[b]
    BY <1>3, PathFacts
  <2>2. b \in Path[b] /\ b \notin Path[a]
    BY <1>3, PathFacts
  <2>3. Cardinality(Path[a]) <= Cardinality(Path[b]) /\ Path[a] # Path[b]
    BY <1>2, <2>1, <2>2, FS_Subset
  <2>4. Cardinality(Path[a]) # Cardinality(Path[b])
    BY <1>2, <2>1, <2>3, FS_Subset
  <2>5. QED
    BY <1>2, <2>3, <2>4
<1>4. QED
  BY <1>2, <1>3 DEF Number

\* Who applies the difference of two maps to the first one has the second one.
LEMMA DeltasApply ==
  ASSUME NEW p, NEW c, p = [k \in DOMAIN p |-> p[k]], c = [k \in DOMAIN c |-> c[k]]
  PROVE  Apply(Deltas(p, c), p) = c
<1> DEFINE ups == Upserted(p, c)
           d == Deltas(p, c)
           r == Apply(d, p)
<1>1. ups \subseteq DOMAIN c /\ d.deleted = DOMAIN p \ DOMAIN c
  BY DEF Upserted, Deltas
<1>2. DOMAIN d.upserted = ups /\ \A k \in ups : d.upserted[k] = c[k]
  BY DEF Deltas, Restrict
<1>3. \A k \in DOMAIN c : k \in ups \/ (k \in DOMAIN p /\ p[k] = c[k])
  BY DEF Upserted
<1>4. r = [k \in (DOMAIN p \ d.deleted) \cup DOMAIN d.upserted |->
             IF k \in DOMAIN d.upserted THEN d.upserted[k] ELSE p[k]]
  BY DEF Apply
<1> HIDE DEF ups, d, r
<1>5. (DOMAIN p \ d.deleted) \cup DOMAIN d.upserted = DOMAIN c
  BY <1>1, <1>2, <1>3
<1>6. DOMAIN r = DOMAIN c
  BY <1>4, <1>5
<1>7. \A k \in DOMAIN c : r[k] = c[k]
  BY <1>2, <1>3, <1>4, <1>5
<1>8. r = [k \in DOMAIN c |-> c[k]]
  BY <1>4, <1>5, <1>6, <1>7
<1>9. QED
  BY <1>8 DEF r, d

LEMMA ContentMaps == \A b \in Chain : Content[b] = [k \in DOMAIN Content[b] |-> Content[b][k]]
<1>1. \A b \in Chain : Content[b] \in [DOMAIN Content[b] -> Range(Content[b])]
  BY WatchAssumption
<1>2. QED
  BY <1>1

\* findPrevious finds a block in memory below the one it starts from, that one at best.
LEMMA ClosestFacts ==
  ASSUME NEW blocks, NEW pinSet, DOMAIN blocks \subseteq Chain, NEW b \in Chain
  PROVE  /\ Closest(b, blocks, pinSet) \in (DOMAIN blocks \cap Path[b]) \cup {Nothing}
         /\ b \in DOMAIN blocks => Closest(b, blocks, pinSet) = b
<1> DEFINE V == Chain \cup {Nothing}
           Ends == {t \in Chain : t \in DOMAIN blocks \/ t \notin pinSet \ {Genesis}}
           start == [t \in Chain |-> IF t \in DOMAIN blocks THEN t ELSE Nothing]
           below == [t \in Chain |-> IF t = Genesis THEN Genesis ELSE Parent[t]]
           F == [t \in Chain |-> [v \in V |-> v]]
           rank == [t \in Chain |-> t]
           Is(g) == g = [t \in Chain |->
                           IF t \in DOMAIN blocks THEN t
                           ELSE IF t \in pinSet \ {Genesis} THEN g[Parent[t]]
                           ELSE Nothing]
           it == CHOOSE g : Is(g)
<1>0. /\ \A t \in Chain : below[t] = IF t = Genesis THEN Genesis ELSE Parent[t]
      /\ \A t \in Chain : start[t] = IF t \in DOMAIN blocks THEN t ELSE Nothing
      /\ \A t \in Chain : \A v \in V : F[t][v] = v
  OBVIOUS
<1>a. \A t \in Chain : t = Genesis \/ t \in DOMAIN Parent
  BY DEF Chain
<1>b. below \in [Chain -> Chain]
  BY <1>a, WatchNumbered
<1>c. \A t \in Chain \ Ends : t \in DOMAIN Parent
  BY <1>a
<1>1. Steps(start, F, Chain, V)
  <2>1. \A t \in Chain : F[t] \in [V -> V]
    OBVIOUS
  <2>2. start \in [Chain -> V]
    OBVIOUS
  <2> HIDE DEF F, start
  <2>3. F \in [Chain -> [V -> V]]
    BY <2>1 DEF F
  <2>4. QED
    BY <2>2, <2>3 DEF Steps
<1>r. Ranks(rank, below, Ends, Chain)
  <2>1. rank \in [Chain -> Nat]
    BY WatchNumbered
  <2>2. \A d \in Chain : d \in Ends \/ rank[below[d]] < rank[d]
    BY <1>c, WatchNumbered, <1>b
  <2>3. QED
    BY <1>b, <2>1, <2>2 DEF Ranks
<1> HIDE DEF start, F, below, rank
<1>2. PICK g \in [Chain -> V] : Solves(g, start, F, below, Ends, Chain)
  BY <1>1, <1>r, RecursionByRank
<1>3. \A t \in Chain : g[t] = IF t \in DOMAIN blocks THEN t
                              ELSE IF t \in pinSet \ {Genesis} THEN g[Parent[t]]
                              ELSE Nothing
  <2> SUFFICES ASSUME NEW t \in Chain
               PROVE  g[t] = IF t \in DOMAIN blocks THEN t
                             ELSE IF t \in pinSet \ {Genesis} THEN g[Parent[t]]
                             ELSE Nothing
    OBVIOUS
  <2>1. CASE t \in Ends
    <3>1. g[t] = start[t]
      BY <1>2, <2>1 DEF Solves
    <3>2. QED
      BY <1>0, <2>1, <3>1
  <2>2. CASE t \notin Ends
    <3>1. g[t] = F[t][g[below[t]]]
      BY <1>2, <2>2 DEF Solves
    <3>2. t # Genesis /\ below[t] = Parent[t] /\ below[t] \in Chain
      BY <1>0, <1>b, <2>2
    <3>3. g[below[t]] \in V
      BY <1>2, <3>2
    <3>4. g[t] = g[Parent[t]]
      BY <1>0, <3>1, <3>2, <3>3
    <3>5. QED
      BY <2>2, <3>4
  <2>3. QED
    BY <2>1, <2>2
<1>4. g = [t \in Chain |-> g[t]]
  OBVIOUS
<1>5. Is(g)
  BY <1>3, <1>4, Zenon
<1>6. Is(it)
  BY <1>5
<1>7. Closest(b, blocks, pinSet) = it[b]
  BY DEF Closest
<1> HIDE DEF it
<1>8. \A t \in Chain : it[t] = IF t \in DOMAIN blocks THEN t
                               ELSE IF t \in pinSet \ {Genesis} THEN it[Parent[t]]
                               ELSE Nothing
  BY <1>6
<1> DEFINE S == {t \in Chain : it[t] \in (DOMAIN blocks \cap Path[t]) \cup {Nothing}}
<1>9. Genesis \in S
  BY <1>8, WatchNumbered, PathFacts
<1>10. ASSUME NEW t \in DOMAIN Parent, Parent[t] \in S PROVE t \in S
  <2>1. t \in Chain /\ t \in Path[t] /\ Path[Parent[t]] \subseteq Path[t]
    BY WatchNumbered, PathFacts, PathStep
  <2>2. (it[t] = t /\ t \in DOMAIN blocks) \/ it[t] = it[Parent[t]] \/ it[t] = Nothing
    BY <1>8, <2>1
  <2>3. QED
    BY <1>10, <2>1, <2>2
<1> HIDE DEF S
<1>11. Chain \subseteq S
  BY <1>9, <1>10, WatchInduction
<1>12. QED
  BY <1>7, <1>8, <1>11 DEF S

\* The walk down the memory from a block, unfolded.
LEMMA SinceStep ==
  ASSUME NEW blocks, NEW n \in Int, DOMAIN blocks \subseteq Chain,
         \A c \in DOMAIN blocks : MemoryBlockOk(blocks[c], c)
  PROVE  \A t \in Chain \cup {Nothing} :
           /\ Since(t, blocks, n) =
                IF t \notin DOMAIN blocks \/ Number(t) <= n THEN <<>>
                ELSE Append(Since(blocks[t].prev, blocks, n), t)
           /\ Below(t, blocks, n) =
                IF t \notin DOMAIN blocks THEN Nothing
                ELSE IF Number(t) <= n THEN t
                ELSE Below(blocks[t].prev, blocks, n)
<1> DEFINE D == Chain \cup {Nothing}
           Ends == {t \in D : t \notin DOMAIN blocks \/ Number(t) <= n}
           below == [t \in D |-> IF t \in Ends THEN t ELSE blocks[t].prev]
           rank == [t \in D |-> IF t = Nothing THEN 0 ELSE t + 1]
<1>0. \A t \in D : below[t] = IF t \in Ends THEN t ELSE blocks[t].prev
  OBVIOUS
<1>1. ASSUME NEW t \in D \ Ends
      PROVE  /\ t \in Chain /\ t \in DOMAIN blocks /\ ~(Number(t) <= n)
             /\ blocks[t].prev \in D
             /\ blocks[t].prev = Nothing \/ blocks[t].prev < t
  <2>1. t \in DOMAIN blocks /\ t \in Chain /\ MemoryBlockOk(blocks[t], t)
    OBVIOUS
  <2>2. blocks[t].prev = Nothing \/ blocks[t].prev \in Path[t] \ {t}
    BY <2>1 DEF MemoryBlockOk
  <2>3. \A c \in Path[t] \ {t} : c \in Chain /\ c <= t /\ c \in Nat /\ t \in Nat
    BY <2>1, PathFacts, WatchNumbered
  <2>4. \A c \in Path[t] \ {t} : c < t
    BY <2>3
  <2>5. QED
    BY <2>1, <2>2, <2>3, <2>4
<1>b. below \in [D -> D]
  BY <1>1
<1>r. Ranks(rank, below, Ends, D)
  <2>1. rank \in [D -> Nat]
    BY WatchNumbered
  <2>2. ASSUME NEW d \in D, d \notin Ends PROVE rank[below[d]] < rank[d]
    <3>1. /\ below[d] = blocks[d].prev /\ below[d] \in D
          /\ d \in Chain /\ (below[d] = Nothing \/ below[d] < d)
      BY <1>0, <1>1, <1>b, <2>2
    <3>2. rank[d] = d + 1 /\ d \in Nat
      BY <3>1, WatchNumbered
    <3>3. rank[below[d]] = 0 \/ (rank[below[d]] = below[d] + 1 /\ below[d] \in Nat /\ below[d] < d)
      BY <3>1, WatchNumbered
    <3> HIDE DEF rank, below
    <3>4. QED
      BY <3>2, <3>3
  <2> HIDE DEF rank, below
  <2>3. QED
    BY <1>b, <2>1, <2>2 DEF Ranks
<1> HIDE DEF below, rank, Ends
<1>2. \A t \in D : Since(t, blocks, n) = IF t \notin DOMAIN blocks \/ Number(t) <= n THEN <<>>
                                         ELSE Append(Since(blocks[t].prev, blocks, n), t)
  <2> DEFINE V == Seq(D)
             start == [t \in D |-> <<>>]
             F == [t \in D |-> [v \in V |-> Append(v, t)]]
             Is(g) == g = [t \in D |->
                             IF t \notin DOMAIN blocks \/ Number(t) <= n THEN <<>>
                             ELSE Append(g[blocks[t].prev], t)]
             it == CHOOSE g : Is(g)
  <2>0. /\ \A t \in D : start[t] = <<>>
        /\ \A t \in D : \A v \in V : F[t][v] = Append(v, t)
    OBVIOUS
  <2>1. Steps(start, F, D, V)
    <3>1. \A t \in D : F[t] \in [V -> V]
      OBVIOUS
    <3>2. start \in [D -> V]
      OBVIOUS
    <3> HIDE DEF F, start
    <3>3. F \in [D -> [V -> V]]
      BY <3>1 DEF F
    <3>4. QED
      BY <3>2, <3>3 DEF Steps
  <2> HIDE DEF start, F, V
  <2>2. PICK g \in [D -> V] : Solves(g, start, F, below, Ends, D)
    BY <2>1, <1>r, RecursionByRank
  <2>3. ASSUME NEW t \in D
        PROVE  g[t] = IF t \notin DOMAIN blocks \/ Number(t) <= n THEN <<>>
                      ELSE Append(g[blocks[t].prev], t)
    <3>1. CASE t \in Ends
      <4>1. g[t] = start[t]
        BY <2>2, <3>1 DEF Solves
      <4>2. t \notin DOMAIN blocks \/ Number(t) <= n
        BY <3>1 DEF Ends
      <4>3. QED
        BY <2>0, <4>1, <4>2
    <3>2. CASE t \notin Ends
      <4>1. g[t] = F[t][g[below[t]]]
        BY <2>2, <3>2 DEF Solves
      <4>2. below[t] = blocks[t].prev /\ below[t] \in D /\ t \in DOMAIN blocks /\ ~(Number(t) <= n)
        BY <1>0, <1>1, <1>b, <3>2
      <4>3. g[below[t]] \in V
        BY <2>2, <4>2
      <4>4. g[t] = Append(g[blocks[t].prev], t)
        BY <2>0, <4>1, <4>2, <4>3
      <4>5. QED
        BY <4>2, <4>4
    <3>3. QED
      BY <3>1, <3>2
  <2>4. g = [t \in D |-> g[t]]
    OBVIOUS
  <2>5. Is(g)
    BY <2>3, <2>4, Zenon
  <2>6. Is(it)
    BY <2>5
  <2>7. \A t : Since(t, blocks, n) = it[t]
    BY DEF Since
  <2> HIDE DEF it
  <2>8. \A t \in D : it[t] = IF t \notin DOMAIN blocks \/ Number(t) <= n THEN <<>>
                             ELSE Append(it[blocks[t].prev], t)
    BY <2>6
  <2>9. QED
    BY <2>7, <2>8, Zenon
<1>3. \A t \in D : Below(t, blocks, n) = IF t \notin DOMAIN blocks THEN Nothing
                                         ELSE IF Number(t) <= n THEN t
                                         ELSE Below(blocks[t].prev, blocks, n)
  <2> DEFINE start == [t \in D |-> IF t \notin DOMAIN blocks THEN Nothing ELSE t]
             F == [t \in D |-> [v \in D |-> v]]
             Is(g) == g = [t \in D |-> IF t \notin DOMAIN blocks THEN Nothing
                                       ELSE IF Number(t) <= n THEN t
                                       ELSE g[blocks[t].prev]]
             it == CHOOSE g : Is(g)
  <2>0. /\ \A t \in D : start[t] = IF t \notin DOMAIN blocks THEN Nothing ELSE t
        /\ \A t \in D : \A v \in D : F[t][v] = v
    OBVIOUS
  <2>1. Steps(start, F, D, D)
    <3>1. \A t \in D : F[t] \in [D -> D]
      OBVIOUS
    <3>2. start \in [D -> D]
      OBVIOUS
    <3> HIDE DEF F, start
    <3>3. F \in [D -> [D -> D]]
      BY <3>1 DEF F
    <3>4. QED
      BY <3>2, <3>3 DEF Steps
  <2> HIDE DEF start, F, D
  <2>2. PICK g \in [D -> D] : Solves(g, start, F, below, Ends, D)
    BY <2>1, <1>r, RecursionByRank
  <2>3. ASSUME NEW t \in D
        PROVE  g[t] = IF t \notin DOMAIN blocks THEN Nothing
                      ELSE IF Number(t) <= n THEN t
                      ELSE g[blocks[t].prev]
    <3>1. CASE t \in Ends
      <4>1. g[t] = start[t]
        BY <2>2, <3>1 DEF Solves
      <4>2. t \notin DOMAIN blocks \/ Number(t) <= n
        BY <3>1 DEF Ends
      <4>3. QED
        BY <2>0, <4>1, <4>2
    <3>2. CASE t \notin Ends
      <4>1. g[t] = F[t][g[below[t]]]
        BY <2>2, <3>2 DEF Solves
      <4>2. below[t] = blocks[t].prev /\ below[t] \in D /\ t \in DOMAIN blocks /\ ~(Number(t) <= n)
        BY <1>0, <1>1, <1>b, <3>2
      <4>3. g[below[t]] \in D
        BY <2>2, <4>2
      <4>4. g[t] = g[blocks[t].prev]
        BY <2>0, <4>1, <4>2, <4>3
      <4>5. QED
        BY <4>2, <4>4
    <3>3. QED
      BY <3>1, <3>2
  <2>4. g = [t \in D |-> g[t]]
    OBVIOUS
  <2>5. Is(g)
    BY <2>3, <2>4, Zenon
  <2>6. Is(it)
    BY <2>5
  <2>7. \A t : Below(t, blocks, n) = it[t]
    BY DEF Below, D
  <2> HIDE DEF it
  <2>8. \A t \in D : it[t] = IF t \notin DOMAIN blocks THEN Nothing
                             ELSE IF Number(t) <= n THEN t
                             ELSE it[blocks[t].prev]
    BY <2>6
  <2>9. QED
    BY <2>7, <2>8, Zenon
<1>4. QED
  BY <1>2, <1>3

\* u walks up the memory to t, one block on the other; a is what its first one is on.
Walks(u, a, t, blocks, n) ==
  /\ u \in Seq(Chain)
  /\ \A i \in 1 .. Len(u) : u[i] \in DOMAIN blocks /\ u[i] \in Path[t] /\ Number(u[i]) > n
  /\ t \in DOMAIN blocks /\ Number(t) > n => Len(u) > 0
  /\ Len(u) > 0 => u[Len(u)] = t
  /\ a # Nothing =>
       /\ a \in DOMAIN blocks
       /\ Len(u) = 0 => a = t
       /\ Len(u) > 0 => blocks[u[1]].prev = a
  /\ \A i \in 2 .. Len(u) : blocks[u[i]].prev = u[i - 1]

LEMMA SinceWalks ==
  ASSUME NEW blocks, NEW n \in Int, DOMAIN blocks \subseteq Chain,
         \A c \in DOMAIN blocks : MemoryBlockOk(blocks[c], c), NEW b \in Chain
  PROVE  Walks(Since(b, blocks, n), Below(b, blocks, n), b, blocks, n)
<1> DEFINE u(t) == Since(t, blocks, n)
           a(t) == Below(t, blocks, n)
           N == {k \in Nat : \A t \in Chain : t < k => Walks(u(t), a(t), t, blocks, n)}
<1>1. /\ \A t \in Chain \cup {Nothing} :
            u(t) = IF t \notin DOMAIN blocks \/ Number(t) <= n THEN <<>>
                   ELSE Append(u(blocks[t].prev), t)
      /\ \A t \in Chain \cup {Nothing} :
            a(t) = IF t \notin DOMAIN blocks THEN Nothing
                   ELSE IF Number(t) <= n THEN t
                   ELSE a(blocks[t].prev)
  BY SinceStep
<1>2. u(Nothing) = <<>> /\ a(Nothing) = Nothing
  BY <1>1, WatchNumbered
<1> HIDE DEF u, a
<1>3. \A t \in Chain : t \in Nat /\ Number(t) \in Int
  BY WatchNumbered, Numbers
<1>4. ASSUME NEW t \in Chain, t \notin DOMAIN blocks \/ Number(t) <= n
      PROVE  Walks(u(t), a(t), t, blocks, n)
  <2>1. u(t) = <<>> /\ (a(t) = Nothing \/ (a(t) = t /\ t \in DOMAIN blocks))
    BY <1>1, <1>4
  <2>2. ~(t \in DOMAIN blocks /\ Number(t) > n)
    BY <1>3, <1>4
  <2>3. <<>> \in Seq(Chain) /\ Len(<<>>) = 0
    OBVIOUS
  <2>4. QED
    BY <2>1, <2>2, <2>3 DEF Walks
<1>5. 0 \in N
  BY <1>3
<1>6. ASSUME NEW k \in Nat, k \in N PROVE k + 1 \in N
  <2> SUFFICES ASSUME NEW t \in Chain, t < k + 1 PROVE Walks(u(t), a(t), t, blocks, n)
    OBVIOUS
  <2>1. CASE t \notin DOMAIN blocks \/ Number(t) <= n
    BY <1>4, <2>1
  <2>2. CASE t \in DOMAIN blocks /\ ~(Number(t) <= n)
    <3> DEFINE p == blocks[t].prev
               v == u(p)
    <3>1. u(t) = Append(v, t) /\ a(t) = a(p)
      BY <1>1, <2>2
    <3>2. Number(t) > n
      BY <1>3, <2>2
    <3>3. p = Nothing \/ (p \in Path[t] \ {t} /\ p \in Chain)
      BY <2>2, PathFacts DEF MemoryBlockOk
    <3>4. t \in Path[t]
      BY PathFacts
    <3>5. CASE p = Nothing
      <4>1. u(t) = <<t>> /\ a(t) = Nothing
        BY <1>2, <3>1, <3>5
      <4>2. <<t>> \in Seq(Chain) /\ Len(<<t>>) = 1 /\ <<t>>[1] = t
        OBVIOUS
      <4>3. QED
        BY <2>2, <3>2, <3>4, <4>1, <4>2 DEF Walks
    <3>6. CASE p # Nothing
      <4>1. p \in Chain /\ p \in Path[t] /\ p < k /\ p # t
        BY <1>3, <3>3, <3>6, PathFacts
      <4>2. Walks(v, a(p), p, blocks, n)
        BY <1>6, <4>1
      <4>3. Path[p] \subseteq Path[t]
        BY <4>1, PathFacts
      <4>4. v = <<>> \/ (p \in DOMAIN blocks /\ Number(p) > n)
        BY <1>1, <1>3, <4>1
      <4> DEFINE w == Append(v, t)
                 m == Len(v)
      <4>5. v \in Seq(Chain) /\ m \in Nat
        BY <4>2 DEF Walks
      <4>6. /\ w \in Seq(Chain) /\ Len(w) = m + 1 /\ w[m + 1] = t
            /\ \A i \in 1 .. m : w[i] = v[i]
        BY <4>5
      <4>7. \A i \in 1 .. m : v[i] \in DOMAIN blocks /\ v[i] \in Path[t] /\ Number(v[i]) > n
        BY <4>2, <4>3 DEF Walks
      <4>8. \A i \in 2 .. m : blocks[v[i]].prev = v[i - 1]
        BY <4>2 DEF Walks
      <4>9. m > 0 => v[m] = p
        <5>1. m > 0 => v # <<>>
          OBVIOUS
        <5>2. QED
          BY <4>2, <4>4, <5>1 DEF Walks
      <4>10. /\ a(p) # Nothing => a(p) \in DOMAIN blocks
             /\ a(p) # Nothing /\ m = 0 => a(p) = p
             /\ a(p) # Nothing /\ m > 0 => blocks[v[1]].prev = a(p)
        BY <4>2 DEF Walks
      <4> HIDE DEF w, m, v
      <4>11. \A i \in 1 .. m + 1 : w[i] \in DOMAIN blocks /\ w[i] \in Path[t] /\ Number(w[i]) > n
        <5> SUFFICES ASSUME NEW i \in 1 .. m + 1
                     PROVE  w[i] \in DOMAIN blocks /\ w[i] \in Path[t] /\ Number(w[i]) > n
          OBVIOUS
        <5>1. CASE i = m + 1
          BY <2>2, <3>2, <3>4, <4>6, <5>1
        <5>2. CASE i # m + 1
          <6>1. i \in 1 .. m
            BY <4>5, <5>2
          <6>2. QED
            BY <4>6, <4>7, <6>1
        <5>3. QED
          BY <5>1, <5>2
      <4>12. \A i \in 2 .. m + 1 : blocks[w[i]].prev = w[i - 1]
        <5> SUFFICES ASSUME NEW i \in 2 .. m + 1 PROVE blocks[w[i]].prev = w[i - 1]
          OBVIOUS
        <5>1. i - 1 \in 1 .. m /\ w[i - 1] = v[i - 1]
          BY <4>5, <4>6
        <5>2. CASE i = m + 1
          <6>1. w[i] = t /\ i - 1 = m /\ m > 0
            BY <4>5, <4>6, <5>1, <5>2
          <6>2. QED
            BY <4>9, <5>1, <6>1
        <5>3. CASE i # m + 1
          <6>1. i \in 2 .. m /\ w[i] = v[i]
            BY <4>5, <4>6, <5>3
          <6>2. QED
            BY <4>8, <5>1, <6>1
        <5>4. QED
          BY <5>2, <5>3
      <4>13. a(p) # Nothing => a(p) \in DOMAIN blocks /\ blocks[w[1]].prev = a(p)
        <5> SUFFICES ASSUME a(p) # Nothing PROVE blocks[w[1]].prev = a(p)
          BY <4>10
        <5>1. CASE m = 0
          <6>1. w[1] = t
            BY <4>6, <5>1
          <6>2. QED
            BY <4>10, <5>1, <6>1
        <5>2. CASE m > 0
          <6>1. w[1] = v[1]
            BY <4>5, <4>6, <5>2
          <6>2. QED
            BY <4>10, <5>2, <6>1
        <5>3. QED
          BY <4>5, <5>1, <5>2
      <4>14. u(t) = w
        BY <3>1 DEF w
      <4>15. Len(w) > 0 /\ w[Len(w)] = t /\ w \in Seq(Chain)
        BY <4>5, <4>6
      <4>16. /\ \A i \in 1 .. Len(w) : w[i] \in DOMAIN blocks /\ w[i] \in Path[t] /\ Number(w[i]) > n
             /\ \A i \in 2 .. Len(w) : blocks[w[i]].prev = w[i - 1]
        BY <4>6, <4>11, <4>12
      <4>17. Walks(w, a(p), t, blocks, n)
        BY <4>13, <4>15, <4>16 DEF Walks
      <4>18. QED
        BY <3>1, <4>14, <4>17
    <3>7. QED
      BY <3>5, <3>6
  <2>3. QED
    BY <2>1, <2>2
<1> HIDE DEF N
<1>7. Nat \subseteq N
  BY <1>5, <1>6, InductionOverNat
<1>8. b + 1 \in N /\ b < b + 1
  BY <1>3, <1>7
<1>9. Walks(u(b), a(b), b, blocks, n)
  BY <1>8 DEF N
<1>10. QED
  BY <1>9 DEF u, a

\* The reports of a walk are right if what it stands on was.
LEMMA ReplayIsRight ==
  ASSUME NEW blocks, NEW n \in Int, DOMAIN blocks \subseteq Chain,
         \A c \in DOMAIN blocks : MemoryBlockOk(blocks[c], c),
         NEW u, NEW a, NEW b \in Chain, Walks(u, a, b, blocks, n), a # Nothing
  PROVE  Replay(Content[a], blocks, u) = [i \in 1 .. Len(u) |-> [block |-> u[i], entries |-> Content[u[i]]]]
<1> DEFINE m == Len(u)
           Is(g) == g = [i \in 0 .. Len(u) |->
                           IF i = 0 THEN Content[a] ELSE Apply(blocks[u[i]].deltas, g[i - 1])]
           it == CHOOSE g : Is(g)
           on(i) == IF i = 0 THEN a ELSE u[i]
           g == [i \in 0 .. m |-> Content[on(i)]]
<1>1. m \in Nat /\ DOMAIN u = 1 .. m
  BY LenProperties DEF Walks
<1>2. ASSUME NEW i \in 1 .. m
      PROVE  Apply(blocks[u[i]].deltas, Content[on(i - 1)]) = Content[u[i]]
  <2>1. u[i] \in DOMAIN blocks /\ u[i] \in Chain
    BY DEF Walks
  <2>2. on(i - 1) \in DOMAIN blocks /\ blocks[u[i]].prev = on(i - 1)
    <3>1. CASE i = 1
      <4>1. on(i - 1) = a /\ m > 0
        BY <3>1, <1>1
      <4>2. QED
        BY <3>1, <4>1 DEF Walks
    <3>2. CASE i # 1
      <4>1. i \in 2 .. m /\ i - 1 \in 1 .. m /\ on(i - 1) = u[i - 1]
        BY <1>1, <3>2
      <4>2. QED
        BY <4>1 DEF Walks
    <3>3. QED
      BY <3>1, <3>2
  <2> HIDE DEF on
  <2>3. on(i - 1) \in Chain /\ on(i - 1) # Nothing
    BY <2>2, WatchNumbered
  <2>4. blocks[u[i]].deltas = Deltas(Content[on(i - 1)], Content[u[i]])
    BY <2>1, <2>2, <2>3 DEF MemoryBlockOk
  <2> DEFINE p == Content[on(i - 1)]
             c == Content[u[i]]
  <2>5. p = [k \in DOMAIN p |-> p[k]] /\ c = [k \in DOMAIN c |-> c[k]]
    BY <2>1, <2>3, ContentMaps
  <2> HIDE DEF p, c
  <2>6. Apply(Deltas(p, c), p) = c
    BY <2>5, DeltasApply
  <2>7. QED
    BY <2>4, <2>6 DEF p, c
<1>3. \A i \in 0 .. m : g[i] = IF i = 0 THEN Content[a] ELSE Apply(blocks[u[i]].deltas, g[i - 1])
  <2> SUFFICES ASSUME NEW i \in 0 .. m
               PROVE  g[i] = IF i = 0 THEN Content[a] ELSE Apply(blocks[u[i]].deltas, g[i - 1])
    OBVIOUS
  <2>1. CASE i = 0
    BY <2>1
  <2>2. CASE i # 0
    <3>1. i \in 1 .. m /\ i - 1 \in 0 .. m
      BY <1>1, <2>2
    <3>2. g[i] = Content[u[i]] /\ g[i - 1] = Content[on(i - 1)]
      BY <2>2, <3>1
    <3> HIDE DEF g, on
    <3>3. QED
      BY <1>2, <2>2, <3>1, <3>2
  <2>3. QED
    BY <2>1, <2>2
<1>4. g = [i \in 0 .. m |-> g[i]]
  OBVIOUS
<1> HIDE DEF g
<1>5. Is(g)
  BY <1>3, <1>4, Zenon
<1>6. Is(it)
  BY <1>5
<1>7. Replay(Content[a], blocks, u) = [i \in DOMAIN u |-> [block |-> u[i], entries |-> it[i]]]
  BY DEF Replay
<1> HIDE DEF it
<1>8. \A i \in 0 .. m : it[i] = IF i = 0 THEN Content[a] ELSE Apply(blocks[u[i]].deltas, it[i - 1])
  BY <1>6
<1> DEFINE N == {i \in Nat : i <= m => it[i] = Content[on(i)]}
<1>9. 0 \in N
  BY <1>1, <1>8
<1>10. ASSUME NEW i \in Nat, i \in N PROVE i + 1 \in N
  <2> SUFFICES ASSUME i + 1 <= m PROVE it[i + 1] = Content[on(i + 1)]
    OBVIOUS
  <2>1. it[i + 1] = Apply(blocks[u[i + 1]].deltas, it[i])
    BY <1>1, <1>8
  <2>2. it[i] = Content[on(i)] /\ i + 1 \in 1 .. m /\ (i + 1) - 1 = i
    BY <1>1, <1>10
  <2>3. on(i + 1) = u[i + 1]
    OBVIOUS
  <2> HIDE DEF on
  <2>4. QED
    BY <1>2, <2>1, <2>2, <2>3
<1> HIDE DEF N
<1>11. Nat \subseteq N
  BY <1>9, <1>10, InductionOverNat
<1>12. \A i \in 1 .. m : it[i] = Content[u[i]]
  BY <1>1, <1>11 DEF N
<1>13. QED
  BY <1>1, <1>7, <1>12

\* A watcher that showed `prev` reports what `latest` has, block by block or at once.
LEMMA ReportedIsRight ==
  ASSUME NEW blocks, DOMAIN blocks \subseteq Chain,
         \A c \in DOMAIN blocks : MemoryBlockOk(blocks[c], c),
         NEW prev, prev.block \in Chain, MemoryBlockOk(prev, prev.block),
         NEW found \in DOMAIN blocks, blocks[found] # prev,
         NEW u, u = Since(found, blocks, Number(prev.block)),
         NEW R, R = Report(prev, blocks[found], blocks, u, Below(found, blocks, Number(prev.block)))
  PROVE  /\ R \in Seq(RightReport) /\ Len(R) > 0 /\ R[Len(R)].block = found
         /\ \A i \in 1 .. Len(R) : R[i].block \in Path[found]
         /\ Walks(u, Below(found, blocks, Number(prev.block)), found, blocks, Number(prev.block))
<1> DEFINE n == Number(prev.block)
           a == Below(found, blocks, n)
           newest == blocks[found]
<1>1. found \in Chain /\ n \in Int /\ found \in Path[found] /\ MemoryBlockOk(newest, found)
  BY Numbers, PathFacts
<1>2. Walks(u, a, found, blocks, n)
  BY <1>1, SinceWalks
<1>3. prev.entries = Content[prev.block] /\ newest.entries = Content[found] /\ newest.block = found
  BY <1>1 DEF MemoryBlockOk
<1>4. R = IF a # Nothing /\ blocks[a] = prev THEN Replay(prev.entries, blocks, u)
          ELSE <<[block |-> newest.block,
                  entries |-> Apply(Deltas(prev.entries, newest.entries), prev.entries)]>>
  BY DEF Report
<1> HIDE DEF a, n
<1>5. CASE a # Nothing /\ blocks[a] = prev
  <2>1. a \in DOMAIN blocks /\ a \in Chain
    BY <1>2, <1>5 DEF Walks
  <2>2. prev.block = a
    BY <1>5, <2>1 DEF MemoryBlockOk
  <2>3. R = [i \in 1 .. Len(u) |-> [block |-> u[i], entries |-> Content[u[i]]]]
    <3>1. R = Replay(Content[a], blocks, u)
      BY <1>3, <1>4, <1>5, <2>2
    <3>2. Replay(Content[a], blocks, u)
            = [i \in 1 .. Len(u) |-> [block |-> u[i], entries |-> Content[u[i]]]]
      BY <1>1, <1>2, <1>5, ReplayIsRight
    <3>3. QED
      BY <3>1, <3>2
  <2>4. u \in Seq(Chain) /\ Len(u) \in Nat
    BY <1>2 DEF Walks
  <2>5. Len(u) > 0 /\ u[Len(u)] = found
    <3>1. Len(u) = 0 => a = found
      BY <1>2, <1>5 DEF Walks
    <3>2. Len(u) # 0
      BY <1>5, <3>1
    <3>3. QED
      BY <1>2, <2>4, <3>2 DEF Walks
  <2>6. \A i \in 1 .. Len(u) : u[i] \in Chain /\ u[i] \in Path[found]
    BY <1>2, <2>4 DEF Walks
  <2>7. \A i \in 1 .. Len(u) : R[i] \in RightReport /\ R[i].block = u[i]
    BY <2>3, <2>6 DEF RightReport
  <2>8. R \in Seq(RightReport) /\ Len(R) = Len(u)
    <3>1. R \in [1 .. Len(u) -> RightReport]
      BY <2>3, <2>7
    <3>2. R \in Seq(RightReport)
      BY <2>4, <3>1
    <3>3. DOMAIN R = 1 .. Len(R) /\ DOMAIN R = 1 .. Len(u) /\ Len(R) \in Nat
      BY <3>1, <3>2, LenProperties
    <3>4. QED
      BY <2>4, <3>2, <3>3
  <2>9. QED
    BY <1>2, <2>4, <2>5, <2>6, <2>7, <2>8 DEF a, n
<1>6. CASE ~(a # Nothing /\ blocks[a] = prev)
  <2> DEFINE p == Content[prev.block]
             c == Content[found]
  <2>1. p = [k \in DOMAIN p |-> p[k]] /\ c = [k \in DOMAIN c |-> c[k]]
    BY <1>1, ContentMaps
  <2> HIDE DEF p, c
  <2>2. Apply(Deltas(p, c), p) = c
    BY <2>1, DeltasApply
  <2> DEFINE r == [block |-> found, entries |-> c]
  <2>3. R = <<r>>
    BY <1>3, <1>4, <1>6, <2>2 DEF p, c
  <2>4. r \in RightReport /\ r.block = found
    BY <1>1 DEF RightReport, c
  <2> HIDE DEF r
  <2>5. R \in Seq(RightReport) /\ Len(R) = 1 /\ R[1] = r
    BY <2>3, <2>4
  <2>6. QED
    BY <1>1, <1>2, <2>4, <2>5 DEF a, n
<1>7. QED
  BY <1>5, <1>6

LookOk(s, f) ==
  /\ s = [memory |-> s.memory, shown |-> s.shown, reports |-> s.reports]
  /\ s.memory # <<>> /\ MemoryOk(s.memory)
  /\ ShownOk(s.shown, s.reports, f)

\* One watcher reports and shows something new.
LEMMA ShownUpdates ==
  ASSUME NEW f, NEW sh, NEW rep, ShownOk(sh, rep, f), NEW w \in {"best", "finalized"},
         NEW x, x.block \in Chain, MemoryBlockOk(x, x.block),
         NEW R \in Seq(RightReport), Len(R) > 0, R[Len(R)].block = x.block,
         w = "finalized" => \A i \in 1 .. Len(R) : R[i].block \in Path[f]
  PROVE  ShownOk([sh EXCEPT ![w] = x], [rep EXCEPT ![w] = R], f)
<1> DEFINE sh2 == [sh EXCEPT ![w] = x]
           rep2 == [rep EXCEPT ![w] = R]
<1>1. DOMAIN sh = {"best", "finalized"} /\ DOMAIN rep = {"best", "finalized"}
  BY DEF ShownOk
<1>2. /\ DOMAIN sh2 = {"best", "finalized"} /\ DOMAIN rep2 = {"best", "finalized"}
      /\ sh2[w] = x /\ rep2[w] = R
      /\ \A v \in {"best", "finalized"} \ {w} : sh2[v] = sh[v] /\ rep2[v] = rep[v]
  BY <1>1
<1> HIDE DEF sh2, rep2
<1>3. ASSUME NEW v \in {"best", "finalized"}
      PROVE  /\ rep2[v] \in Seq(RightReport)
             /\ v = "finalized" => \A i \in 1 .. Len(rep2[v]) : rep2[v][i].block \in Path[f]
             /\ sh2[v] # <<>> =>
                  /\ sh2[v].block \in Chain /\ MemoryBlockOk(sh2[v], sh2[v].block)
                  /\ Len(rep2[v]) > 0 /\ rep2[v][Len(rep2[v])].block = sh2[v].block
  <2>1. CASE v = w
    BY <1>2, <2>1
  <2>2. CASE v # w
    <3>1. sh2[v] = sh[v] /\ rep2[v] = rep[v]
      BY <1>2, <2>2
    <3>2. QED
      BY <3>1 DEF ShownOk
  <2>3. QED
    BY <2>1, <2>2
<1>4. ShownOk(sh2, rep2, f)
  BY <1>2, <1>3 DEF ShownOk
<1>5. QED
  BY <1>4 DEF sh2, rep2

\* What is left of a memory that was tidied up.
LEMMA MemoryRestricts ==
  ASSUME NEW mem, mem # <<>>, MemoryOk(mem),
         NEW x, x = [blocks |-> x.blocks, finalized |-> x.finalized],
         DOMAIN x.blocks \subseteq DOMAIN mem.blocks,
         \A b \in DOMAIN x.blocks : x.blocks[b] = mem.blocks[b]
  PROVE  MemoryOk(x) /\ x # <<>>
<1>1. x # <<>>
  <2>1. "blocks" \in DOMAIN x
    OBVIOUS
  <2>2. DOMAIN <<>> = {}
    OBVIOUS
  <2>3. QED
    BY <2>1, <2>2
<1>2. DOMAIN x.blocks \subseteq Chain
  BY DEF MemoryOk
<1>3. \A b \in DOMAIN x.blocks : MemoryBlockOk(x.blocks[b], b)
  BY DEF MemoryOk
<1>4. QED
  BY <1>1, <1>2, <1>3 DEF MemoryOk

LEMMA LookKeeps ==
  ASSUME NEW f \in Chain, NEW s, LookOk(s, f), NEW w \in {"best", "finalized"},
         NEW b \in Chain, w = "finalized" => b = f, NEW pinSet,
         NEW r, r = Look(w, s, b, pinSet)
  PROVE  /\ LookOk(r, f)
         /\ \A v \in {"best", "finalized"} \ {w} : r.shown[v] = s.shown[v]
         /\ b \in DOMAIN s.memory.blocks => r.shown[w] = s.memory.blocks[b]
         /\ DOMAIN r.memory.blocks \subseteq DOMAIN s.memory.blocks
         /\ \A c \in DOMAIN s.memory.blocks : f \in Path[c] => c \in DOMAIN r.memory.blocks
<1> DEFINE blocks == s.memory.blocks
           found == Closest(b, blocks, pinSet)
           newest == blocks[found]
           prev == s.shown[w]
           u == Since(found, blocks, Number(prev.block))
           kept == {c \in DOMAIN blocks : Number(c) >= Number(u[1])}
           R == Report(prev, newest, blocks, u, Below(found, blocks, Number(prev.block)))
           one == <<[block |-> found, entries |-> newest.entries]>>
<1>0. /\ s = [memory |-> s.memory, shown |-> s.shown, reports |-> s.reports]
      /\ s.memory # <<>> /\ MemoryOk(s.memory) /\ ShownOk(s.shown, s.reports, f)
  BY DEF LookOk
<1>1. /\ DOMAIN blocks \subseteq Chain
      /\ \A c \in DOMAIN blocks : MemoryBlockOk(blocks[c], c)
  BY <1>0 DEF MemoryOk
<1>2. /\ found \in (DOMAIN blocks \cap Path[b]) \cup {Nothing}
      /\ b \in DOMAIN blocks => found = b
  BY <1>1, ClosestFacts
<1>3. Nothing \notin DOMAIN blocks /\ DOMAIN s.shown = {"best", "finalized"}
  BY <1>0, <1>1, WatchNumbered DEF ShownOk
<1>4. r = IF found = Nothing \/ s.shown[w] = newest THEN s
          ELSE IF prev = <<>>
            THEN [s EXCEPT !.shown[w] = newest, !.reports[w] = one]
            ELSE [memory |->
                    IF w = "finalized"
                      THEN [blocks    |-> IF u = <<>> THEN blocks ELSE Restrict(blocks, kept),
                            finalized |-> found]
                      ELSE s.memory,
                  shown   |-> [s.shown EXCEPT ![w] = newest],
                  reports |-> [s.reports EXCEPT ![w] = R]]
  BY DEF Look
<1> HIDE DEF found, u, R
<1>5. CASE found = Nothing \/ s.shown[w] = newest
  <2>1. r = s
    BY <1>4, <1>5
  <2>2. b \in DOMAIN blocks => s.shown[w] = blocks[b]
    BY <1>2, <1>3, <1>5
  <2>3. QED
    BY <1>0, <2>1, <2>2 DEF LookOk
<1>6. CASE ~(found = Nothing \/ s.shown[w] = newest)
  <2>1. /\ found \in DOMAIN blocks /\ found \in Path[b] /\ found \in Chain
        /\ MemoryBlockOk(newest, found) /\ newest.block = found /\ newest # prev
        /\ newest.entries = Content[found]
    BY <1>1, <1>2, <1>6 DEF MemoryBlockOk
  <2>2. w = "finalized" => Path[found] \subseteq Path[f]
    BY <2>1, PathFacts
  <2>3. CASE prev = <<>>
    <3>1. r = [s EXCEPT !.shown[w] = newest, !.reports[w] = one]
      BY <1>4, <1>6, <2>3
    <3>2. r = [memory |-> s.memory, shown |-> [s.shown EXCEPT ![w] = newest],
               reports |-> [s.reports EXCEPT ![w] = one]]
      BY <1>0, <3>1
    <3>3. /\ r.memory = s.memory /\ r.shown = [s.shown EXCEPT ![w] = newest]
          /\ r.reports = [s.reports EXCEPT ![w] = one]
          /\ r = [memory |-> r.memory, shown |-> r.shown, reports |-> r.reports]
      BY <3>2
    <3> DEFINE e == [block |-> found, entries |-> newest.entries]
    <3>4. e \in RightReport /\ e.block = found
      BY <2>1 DEF RightReport
    <3>5. one = <<e>>
      OBVIOUS
    <3> HIDE DEF e, one
    <3>6. /\ one \in Seq(RightReport) /\ Len(one) > 0 /\ one[Len(one)].block = found
          /\ \A i \in 1 .. Len(one) : one[i].block = found
      BY <3>4, <3>5
    <3>7. found \in Path[found]
      BY <2>1, PathFacts
    <3>8. ShownOk(r.shown, r.reports, f)
      <4>1. /\ newest.block \in Chain /\ MemoryBlockOk(newest, newest.block)
            /\ one[Len(one)].block = newest.block
            /\ w = "finalized" => \A i \in 1 .. Len(one) : one[i].block \in Path[f]
        BY <2>1, <2>2, <3>6, <3>7
      <4> HIDE DEF newest, blocks, prev
      <4>2. ShownOk([s.shown EXCEPT ![w] = newest], [s.reports EXCEPT ![w] = one], f)
        BY <1>0, <3>6, <4>1, ShownUpdates
      <4>3. QED
        BY <3>3, <4>2
    <3>9. LookOk(r, f)
      BY <1>0, <3>3, <3>8 DEF LookOk
    <3>10. r.shown[w] = newest /\ \A v \in {"best", "finalized"} \ {w} : r.shown[v] = s.shown[v]
      BY <1>3, <3>3
    <3>11. QED
      BY <1>2, <3>3, <3>9, <3>10
  <2>4. CASE prev # <<>>
    <3>1. /\ r.memory = IF w = "finalized"
                          THEN [blocks    |-> IF u = <<>> THEN blocks ELSE Restrict(blocks, kept),
                                finalized |-> found]
                          ELSE s.memory
          /\ r.shown = [s.shown EXCEPT ![w] = newest]
          /\ r.reports = [s.reports EXCEPT ![w] = R]
          /\ r = [memory |-> r.memory, shown |-> r.shown, reports |-> r.reports]
      <4> HIDE DEF newest, prev, kept, one
      <4>1. QED
        BY <1>4, <1>6, <2>4
    <3>2. prev.block \in Chain /\ MemoryBlockOk(prev, prev.block)
      BY <1>0, <2>4 DEF ShownOk
    <3>3. /\ R \in Seq(RightReport) /\ Len(R) > 0 /\ R[Len(R)].block = found
          /\ \A i \in 1 .. Len(R) : R[i].block \in Path[found]
          /\ Walks(u, Below(found, blocks, Number(prev.block)), found, blocks, Number(prev.block))
      <4>1. /\ u = Since(found, blocks, Number(prev.block))
            /\ R = Report(prev, blocks[found], blocks, u,
                          Below(found, blocks, Number(prev.block)))
            /\ blocks[found] # prev
        BY <2>1 DEF u, R
      <4> HIDE DEF newest, blocks, prev
      <4>2. QED
        BY <1>1, <2>1, <3>2, <4>1, ReportedIsRight
    <3>4. w = "finalized" => \A i \in 1 .. Len(R) : R[i].block \in Path[f]
      BY <2>2, <3>3
    <3>5. ShownOk(r.shown, r.reports, f)
      <4>1. /\ newest.block \in Chain /\ MemoryBlockOk(newest, newest.block)
            /\ R[Len(R)].block = newest.block
        BY <2>1, <3>3
      <4> HIDE DEF newest, blocks, prev
      <4>2. ShownOk([s.shown EXCEPT ![w] = newest], [s.reports EXCEPT ![w] = R], f)
        BY <1>0, <3>3, <3>4, <4>1, ShownUpdates
      <4>3. QED
        BY <3>1, <4>2
    <3>6. r.shown[w] = newest /\ \A v \in {"best", "finalized"} \ {w} : r.shown[v] = s.shown[v]
      BY <1>3, <3>1
    <3>7. /\ r.memory # <<>> /\ MemoryOk(r.memory)
          /\ DOMAIN r.memory.blocks \subseteq DOMAIN blocks
          /\ \A c \in DOMAIN blocks : f \in Path[c] => c \in DOMAIN r.memory.blocks
      <4>1. CASE w # "finalized"
        BY <1>0, <3>1, <4>1
      <4>2. CASE w = "finalized" /\ u = <<>>
        <5>1. r.memory = [blocks |-> blocks, finalized |-> found]
          BY <3>1, <4>2
        <5>2. r.memory.blocks = blocks /\ r.memory = [blocks |-> r.memory.blocks, finalized |-> r.memory.finalized]
          BY <5>1
        <5>3. r.memory # <<>> /\ MemoryOk(r.memory)
          BY <1>0, <5>2, MemoryRestricts
        <5>4. QED
          BY <5>2, <5>3
      <4>3. CASE w = "finalized" /\ u # <<>>
        <5>1. r.memory = [blocks |-> Restrict(blocks, kept), finalized |-> found]
          BY <3>1, <4>3
        <5>a. r.memory.blocks = [c \in kept |-> blocks[c]]
          BY <5>1 DEF Restrict
        <5>b. DOMAIN r.memory.blocks = kept /\ \A c \in kept : r.memory.blocks[c] = blocks[c]
          BY <5>a
        <5>c. kept \subseteq DOMAIN s.memory.blocks
          OBVIOUS
        <5>d. r.memory = [blocks |-> r.memory.blocks, finalized |-> r.memory.finalized]
          BY <5>1
        <5> HIDE DEF kept
        <5>2. MemoryOk(r.memory) /\ r.memory # <<>>
          BY <1>0, <5>b, <5>c, <5>d, MemoryRestricts
        <5> USE DEF kept
        <5>3. u \in Seq(Chain) /\ Len(u) > 0
          BY <3>3, <4>3 DEF Walks
        <5>4. u[1] \in Path[f] /\ u[1] \in Chain
          BY <2>2, <3>3, <4>3, <5>3 DEF Walks
        <5>5. ASSUME NEW c \in DOMAIN blocks, f \in Path[c] PROVE c \in kept
          <6>1. c \in Chain /\ Number(c) \in Int /\ Number(f) \in Int /\ Number(u[1]) \in Int
            BY <1>1, <5>4, Numbers
          <6>2. Number(u[1]) <= Number(f) /\ Number(f) <= Number(c)
            BY <5>4, <5>5, <6>1, Numbers
          <6>3. QED
            BY <6>1, <6>2
        <5>6. QED
          BY <5>2, <5>5, <5>b
      <4>4. QED
        BY <4>1, <4>2, <4>3
    <3>8. LookOk(r, f)
      BY <3>1, <3>5, <3>7 DEF LookOk
    <3>9. QED
      BY <1>2, <3>6, <3>7, <3>8
  <2>5. QED
    BY <2>3, <2>4
<1>7. QED
  BY <1>5, <1>6

\* The turn of one watcher.
Turn(who, s, w, b, f, pinSet) == IF w \in who THEN Look(w, s, Target(w, b, f), pinSet) ELSE s

LEMMA TurnKeeps ==
  ASSUME NEW f \in Chain, NEW b \in Chain, NEW s, LookOk(s, f), NEW who, NEW pinSet,
         NEW w \in {"best", "finalized"}, NEW r, r = Turn(who, s, w, b, f, pinSet)
  PROVE  /\ LookOk(r, f)
         /\ DOMAIN r.memory.blocks \subseteq DOMAIN s.memory.blocks
         /\ \A c \in DOMAIN s.memory.blocks : f \in Path[c] => c \in DOMAIN r.memory.blocks
         /\ w = "best" /\ "best" \in who /\ b \in DOMAIN s.memory.blocks
              => r.shown["best"] # <<>> /\ r.shown["best"].block = b
         /\ w # "best" \/ "best" \notin who => r.shown["best"] = s.shown["best"]
<1>1. CASE w \notin who
  BY <1>1 DEF Turn
<1>2. CASE w \in who
  <2> DEFINE t == Target(w, b, f)
  <2>1. t \in Chain /\ (w = "finalized" => t = f) /\ (w = "best" => t = b)
    BY DEF Target
  <2>2. r = Look(w, s, t, pinSet)
    BY <1>2 DEF Turn
  <2> HIDE DEF t
  <2>3. /\ LookOk(r, f)
        /\ \A v \in {"best", "finalized"} \ {w} : r.shown[v] = s.shown[v]
        /\ t \in DOMAIN s.memory.blocks => r.shown[w] = s.memory.blocks[t]
        /\ DOMAIN r.memory.blocks \subseteq DOMAIN s.memory.blocks
        /\ \A c \in DOMAIN s.memory.blocks : f \in Path[c] => c \in DOMAIN r.memory.blocks
    BY <2>1, <2>2, LookKeeps
  <2>4. ASSUME w = "best", b \in DOMAIN s.memory.blocks
        PROVE  r.shown["best"] # <<>> /\ r.shown["best"].block = b
    <3>1. r.shown["best"] = s.memory.blocks[b]
      BY <2>1, <2>3, <2>4
    <3>2. MemoryBlockOk(s.memory.blocks[b], b)
      BY <2>4 DEF LookOk, MemoryOk
    <3>3. QED
      BY <3>1, <3>2 DEF MemoryBlockOk
  <2>5. QED
    BY <1>2, <2>3, <2>4
<1>3. QED
  BY <1>1, <1>2

LEMMA WatchersTakeTurns ==
  ASSUME watchers \in SomeWatchers, NEW who, NEW mem, NEW b, NEW f, NEW pinSet,
         AllLook(who, mem, b, f, pinSet)
  PROVE  LET base == [memory |-> mem, shown |-> shown, reports |-> reports]
             one  == Turn(who, base, watchers[1], b, f, pinSet)
             end  == IF Len(watchers) = 1 THEN one ELSE Turn(who, one, watchers[2], b, f, pinSet)
         IN  memory' = end.memory /\ shown' = end.shown /\ reports' = end.reports
<1> DEFINE base == [memory |-> mem, shown |-> shown, reports |-> reports]
           turn(s, i) == Turn(who, s, watchers[i], b, f, pinSet)
           D == DOMAIN watchers
           Is(g) == g = [d \in SUBSET D |->
                           IF d = {} THEN base ELSE turn(g[d \ {Max(d)}], Max(d))]
           it == CHOOSE g : Is(g)
           one == turn(base, 1)
           g == [d \in SUBSET D |-> IF d = {} THEN base
                                    ELSE IF d = {1} THEN one
                                    ELSE IF d = {2} THEN turn(base, 2)
                                    ELSE turn(one, 2)]
<1>1. (D = {1} /\ Len(watchers) = 1) \/ (D = {1, 2} /\ Len(watchers) = 2)
  BY DEF SomeWatchers
<1>2. memory' = it[D].memory /\ shown' = it[D].shown /\ reports' = it[D].reports
  BY DEF AllLook, FoldLeft, MapThenFoldSet, Turn
<1> HIDE DEF base, D, one
<1>3. \A d \in SUBSET D : d = {} \/ d = {1} \/ d = {2} \/ d = {1, 2}
  BY <1>1
<1>4. Max({1}) = 1 /\ Max({2}) = 2 /\ Max({1, 2}) = 2
  <2>1. \A m \in {{1}, {2}, {1, 2}} : IsFiniteSet(m) /\ m \subseteq Int /\ m # {}
    <3>1. IsFiniteSet({1, 2})
      <4>1. \A n \in Nat : IsFiniteSet(1 .. n)
        BY FS_Interval
      <4>2. 1 .. 2 = {1, 2} /\ 2 \in Nat
        OBVIOUS
      <4>3. QED
        BY <4>1, <4>2, Zenon
    <3>2. QED
      BY <3>1, FS_Subset
  <2>2. \A m \in {{1}, {2}, {1, 2}} : Max(m) \in m /\ \A c \in m : c <= Max(m)
    BY <2>1, MaxIsHighest
  <2>3. QED
    BY <2>2
<1>5. ASSUME NEW d \in SUBSET D
      PROVE  g[d] = IF d = {} THEN base ELSE turn(g[d \ {Max(d)}], Max(d))
  <2> HIDE DEF turn
  <2>1. CASE d = {}
    BY <2>1
  <2>2. CASE d = {1}
    <3>1. d \ {Max(d)} = {}
      BY <1>4, <2>2
    <3>2. g[d \ {Max(d)}] = base /\ g[d] = one /\ Max(d) = 1
      BY <1>4, <2>2, <3>1
    <3>3. QED
      BY <2>2, <3>2 DEF one
  <2>3. CASE d = {2}
    <3>1. d \ {Max(d)} = {} /\ {2} # {1}
      BY <1>4, <2>3
    <3>2. g[d \ {Max(d)}] = base /\ g[d] = turn(base, 2) /\ Max(d) = 2
      BY <1>4, <2>3, <3>1
    <3>3. QED
      BY <2>3, <3>2
  <2>4. CASE d = {1, 2}
    <3>1. d \ {Max(d)} = {1} /\ {1, 2} # {1} /\ {1, 2} # {2}
      BY <1>4, <2>4
    <3>2. g[d \ {Max(d)}] = one /\ g[d] = turn(one, 2) /\ Max(d) = 2
      BY <1>4, <2>4, <3>1
    <3>3. QED
      BY <2>4, <3>2
  <2>5. QED
    BY <1>3, <2>1, <2>2, <2>3, <2>4
<1>6. g = [d \in SUBSET D |-> g[d]]
  OBVIOUS
<1> HIDE DEF g, turn
<1>7. Is(g)
  BY <1>5, <1>6, Zenon
<1>8. Is(it)
  BY <1>7
<1> HIDE DEF it
<1>9. \A d \in SUBSET D : it[d] = IF d = {} THEN base ELSE turn(it[d \ {Max(d)}], Max(d))
  BY <1>8
<1>10. it[{}] = base
  BY <1>9
<1>11. it[{1}] = one
  <2>1. {1} \in SUBSET D /\ {1} # {} /\ {1} \ {Max({1})} = {}
    BY <1>1, <1>4
  <2>2. it[{1}] = turn(it[{1} \ {Max({1})}], Max({1}))
    BY <1>9, <2>1
  <2>3. QED
    BY <1>4, <1>10, <2>1, <2>2 DEF one
<1>12. D = {1, 2} => it[D] = turn(one, 2)
  <2> SUFFICES ASSUME D = {1, 2} PROVE it[D] = turn(one, 2)
    OBVIOUS
  <2>1. D \in SUBSET D /\ D # {} /\ Max(D) = 2 /\ D \ {Max(D)} = {1}
    BY <1>4
  <2>2. it[D] = turn(it[D \ {Max(D)}], Max(D))
    BY <1>9, <2>1
  <2>3. QED
    BY <1>11, <2>1, <2>2
<1>13. it[D] = IF Len(watchers) = 1 THEN one ELSE turn(one, 2)
  BY <1>1, <1>11, <1>12
<1>14. QED
  BY <1>2, <1>13 DEF one, turn, base

LEMMA AllLookKeeps ==
  ASSUME watchers \in SomeWatchers, NEW who, NEW mem, MemoryOk(mem), mem # <<>>,
         NEW b \in Chain, NEW f \in Chain, ShownOk(shown, reports, f),
         NEW pinSet, AllLook(who, mem, b, f, pinSet)
  PROVE  /\ memory' # <<>> /\ MemoryOk(memory') /\ ShownOk(shown', reports', f)
         /\ DOMAIN memory'.blocks \subseteq DOMAIN mem.blocks
         /\ \A c \in DOMAIN mem.blocks : f \in Path[c] => c \in DOMAIN memory'.blocks
         /\ "best" \in who /\ "best" \in Range(watchers) /\ b \in DOMAIN memory'.blocks
              => shown'["best"] # <<>> /\ shown'["best"].block = b
         /\ "best" \notin who => shown'["best"] = shown["best"]
<1> DEFINE base == [memory |-> mem, shown |-> shown, reports |-> reports]
           one  == Turn(who, base, watchers[1], b, f, pinSet)
           two  == Turn(who, one, watchers[2], b, f, pinSet)
           end  == IF Len(watchers) = 1 THEN one ELSE two
<1>1. memory' = end.memory /\ shown' = end.shown /\ reports' = end.reports
  BY WatchersTakeTurns
<1>2. /\ base.memory = mem /\ base.shown = shown /\ base.reports = reports
      /\ LookOk(base, f)
  BY DEF LookOk
<1>3. /\ watchers[1] \in {"best", "finalized"}
      /\ Len(watchers) = 1 \/ Len(watchers) = 2
      /\ Len(watchers) = 2 => watchers[2] \in {"best", "finalized"} /\ watchers[2] # watchers[1]
      /\ Len(watchers) = 1 => Range(watchers) = {watchers[1]}
      /\ Len(watchers) = 2 => Range(watchers) = {watchers[1], watchers[2]}
  BY DEF SomeWatchers, Range
<1> DEFINE Kept(s, r, w) ==
             /\ LookOk(r, f)
             /\ DOMAIN r.memory.blocks \subseteq DOMAIN s.memory.blocks
             /\ \A c \in DOMAIN s.memory.blocks : f \in Path[c] => c \in DOMAIN r.memory.blocks
             /\ w = "best" /\ "best" \in who /\ b \in DOMAIN s.memory.blocks
                  => r.shown["best"] # <<>> /\ r.shown["best"].block = b
             /\ w # "best" \/ "best" \notin who => r.shown["best"] = s.shown["best"]
<1> HIDE DEF base, one, two
<1>4. Kept(base, one, watchers[1])
  BY <1>2, <1>3, TurnKeeps DEF one
<1>5. Len(watchers) = 2 => Kept(one, two, watchers[2])
  BY <1>3, <1>4, TurnKeeps DEF two
<1>6. CASE Len(watchers) = 1
  <2>1. memory' = one.memory /\ shown' = one.shown /\ reports' = one.reports
    BY <1>1, <1>6
  <2>2. QED
    BY <1>2, <1>3, <1>4, <1>6, <2>1 DEF LookOk
<1>7. CASE Len(watchers) = 2
  <2>1. memory' = two.memory /\ shown' = two.shown /\ reports' = two.reports
    BY <1>1, <1>7
  <2>2. Kept(one, two, watchers[2]) /\ watchers[2] # watchers[1]
    BY <1>3, <1>5, <1>7
  <2>3. memory' # <<>> /\ MemoryOk(memory') /\ ShownOk(shown', reports', f)
    BY <2>1, <2>2 DEF LookOk
  <2>4. /\ DOMAIN memory'.blocks \subseteq DOMAIN one.memory.blocks
        /\ DOMAIN one.memory.blocks \subseteq DOMAIN mem.blocks
    BY <1>2, <1>4, <2>1, <2>2
  <2>5. \A c \in DOMAIN mem.blocks : f \in Path[c] => c \in DOMAIN memory'.blocks
    BY <1>2, <1>4, <2>1, <2>2
  <2>6. ASSUME "best" \in who, "best" \in Range(watchers), b \in DOMAIN memory'.blocks
        PROVE  shown'["best"] # <<>> /\ shown'["best"].block = b
    <3>1. CASE watchers[1] = "best"
      <4>1. one.shown["best"] # <<>> /\ one.shown["best"].block = b
        BY <1>2, <1>4, <2>4, <2>6, <3>1
      <4>2. two.shown["best"] = one.shown["best"]
        BY <2>2, <3>1
      <4>3. QED
        BY <2>1, <4>1, <4>2
    <3>2. CASE watchers[2] = "best"
      BY <2>1, <2>2, <2>4, <2>6, <3>2
    <3>3. QED
      BY <1>3, <1>7, <2>6, <3>1, <3>2
  <2>7. "best" \notin who => shown'["best"] = shown["best"]
    BY <1>2, <1>4, <2>1, <2>2
  <2>8. QED
    BY <2>3, <2>4, <2>5, <2>6, <2>7
<1>8. QED
  BY <1>3, <1>6, <1>7

\* A job that lossLessExhaustMap starts is traced to the memory it was given.
LEMMA StartJobOk ==
  ASSUME NEW q, QueuedOk(q), q # <<>>, NEW mem, mem # <<>>, MemoryOk(mem), NEW pinSet,
         NEW j, j = StartJob(q, mem, pinSet)
  PROVE  /\ JobOk(j)
         /\ j # Idle => j.kind = "restart" \/ (j.kind = "update" /\ j.block = q.best)
         /\ j = Idle => q.best \in DOMAIN mem.blocks
<1> DEFINE above == Closest(Parent[q.best], mem.blocks, pinSet)
           back == [kind |-> "restart", block |-> q.finalized,
                    prev |-> IF mem.finalized \in DOMAIN mem.blocks
                               THEN mem.blocks[mem.finalized] ELSE <<>>,
                    base |-> <<>>, over |-> FALSE]
           on == [kind |-> "update", block |-> q.best, prev |-> mem.blocks[above],
                  base |-> <<>>, over |-> FALSE]
<1>0. q.best \in Chain /\ q.finalized \in Chain
  BY DEF QueuedOk
<1>1. j = IF q.best \in DOMAIN mem.blocks THEN Idle
          ELSE IF q.best \in pinSet \ {Genesis} /\ above # Nothing THEN on
          ELSE back
  BY DEF StartJob
<1>2. on.kind # Idle.kind /\ back.kind # Idle.kind
  BY DEF Idle
<1>3. MemoryOk(<<>>)
  BY DEF MemoryOk
<1>4. JobOk(back)
  BY <1>0, <1>3 DEF JobOk
<1>5. ASSUME q.best \in pinSet \ {Genesis}, above # Nothing PROVE JobOk(on)
  <2>1. Parent[q.best] \in Chain /\ q.best \in DOMAIN Parent /\ Parent[q.best] < q.best
    <3>1. q.best \in DOMAIN Parent
      BY <1>0, <1>5 DEF Chain
    <3>2. QED
      BY <3>1, WatchNumbered
  <2>2. DOMAIN mem.blocks \subseteq Chain
    BY DEF MemoryOk
  <2>3. above \in DOMAIN mem.blocks /\ above \in Path[Parent[q.best]]
    BY <1>5, <2>1, <2>2, ClosestFacts
  <2> HIDE DEF above
  <2>4. above \in Path[q.best] \ {q.best}
    <3>1. above \in Path[q.best]
      BY <2>1, <2>3, PathStep
    <3>2. above \in Chain /\ above <= Parent[q.best] /\ above \in Nat
      BY <2>1, <2>2, <2>3, PathFacts, WatchNumbered
    <3>3. q.best \in Nat /\ Parent[q.best] \in Nat
      BY <1>0, <2>1, WatchNumbered
    <3>4. QED
      BY <2>1, <3>1, <3>2, <3>3
  <2>5. MemoryBlockOk(mem.blocks[above], above)
    BY <2>3 DEF MemoryOk
  <2>6. mem.blocks[above] # <<>>
    BY <2>5 DEF MemoryBlockOk
  <2>7. /\ on.kind = "update" /\ on.block = q.best /\ on.prev = mem.blocks[above]
        /\ on.base = <<>>
        /\ on = [kind |-> on.kind, block |-> on.block, prev |-> on.prev, base |-> on.base,
                 over |-> on.over]
    OBVIOUS
  <2> HIDE DEF on
  <2>8. QED
    BY <1>0, <1>3, <2>4, <2>5, <2>6, <2>7 DEF JobOk
<1>6. JobOk(Idle)
  BY DEF JobOk
<1>7. on.kind = "update" /\ on.block = q.best /\ back.kind = "restart"
  OBVIOUS
<1> HIDE DEF on, back, above
<1>8. QED
  BY <1>1, <1>2, <1>4, <1>5, <1>6, <1>7

LEMMA InitialJobOk ==
  ASSUME NEW b \in Chain
  PROVE  JobOk(InitialJob(b)) /\ InitialJob(b) # Idle /\ InitialJob(b).kind = "initial"
<1>1. MemoryOk(<<>>)
  BY DEF MemoryOk
<1>2. InitialJob(b).kind = "initial" /\ Idle.kind = "none"
  BY DEF InitialJob, Idle
<1>3. JobOk(InitialJob(b))
  BY <1>1 DEF JobOk, InitialJob
<1>4. QED
  BY <1>2, <1>3

LEMMA NextJobKeeps ==
  ASSUME NEW q, QueuedOk(q), NEW mem, MemoryOk(mem), NEW old \in BOOLEAN, old => mem # <<>>,
         NEW pinSet, NEW late \in BOOLEAN, stuck \in BOOLEAN,
         NextJob(q, mem, old, pinSet, late)
  PROVE  /\ JobOk(job') /\ queued' = <<>> /\ missed' \in BOOLEAN /\ stuck' \in BOOLEAN
         /\ job' # Idle => (job'.kind = "initial" <=> mem = <<>>)
         /\ ~missed' => ~late
         /\ ~stuck' => ~stuck
         /\ mem # <<>> /\ ~missed' /\ ~stuck' =>
              IF job' = Idle THEN q = <<>> \/ (~old /\ q.best \in DOMAIN mem.blocks)
              ELSE q # <<>> /\ job'.kind = "update" /\ job'.block = q.best
<1> DEFINE next == IF q = <<>> THEN Idle
                   ELSE IF mem = <<>> THEN InitialJob(q.finalized)
                   ELSE StartJob(q, mem, pinSet)
           throws == next.kind = "restart" /\ next.block \notin pinSet
           moved == [next EXCEPT !.base = mem]
<1>1. /\ job' = IF throws THEN Idle ELSE IF old /\ next # Idle THEN moved ELSE next
      /\ stuck' = (stuck \/ throws)
      /\ missed' = (late \/ next.kind = "restart" \/ (old /\ q # <<>> /\ next = Idle))
      /\ queued' = <<>>
  BY DEF NextJob
<1>2. JobOk(Idle) /\ Idle.kind = "none"
  BY DEF JobOk, Idle
<1>3. /\ JobOk(next)
      /\ next # Idle => q # <<>> /\ (next.kind = "initial" <=> mem = <<>>)
      /\ next # Idle /\ mem # <<>> => next.kind = "restart" \/ (next.kind = "update" /\ next.block = q.best)
      /\ next = Idle => q = <<>> \/ (mem # <<>> /\ q.best \in DOMAIN mem.blocks)
  <2>1. CASE q = <<>>
    BY <1>2, <2>1
  <2>2. CASE q # <<>> /\ mem = <<>>
    <3>1. next = InitialJob(q.finalized) /\ q.finalized \in Chain
      BY <2>2 DEF QueuedOk
    <3> HIDE DEF next
    <3>2. QED
      BY <2>2, <3>1, InitialJobOk
  <2>3. CASE q # <<>> /\ mem # <<>>
    <3>1. next = StartJob(q, mem, pinSet)
      BY <2>3
    <3> HIDE DEF next
    <3>2. /\ JobOk(next)
          /\ next # Idle => next.kind = "restart" \/ (next.kind = "update" /\ next.block = q.best)
          /\ next = Idle => q.best \in DOMAIN mem.blocks
      BY <2>3, <3>1, StartJobOk
    <3>3. QED
      BY <2>3, <3>2
  <2>4. QED
    BY <2>1, <2>2, <2>3
<1> HIDE DEF next, throws
<1>4. ASSUME next # Idle
      PROVE  /\ JobOk(moved) /\ moved.kind = next.kind /\ moved.block = next.block /\ moved # Idle
  <2>1. /\ next = [kind |-> next.kind, block |-> next.block, prev |-> next.prev,
                   base |-> next.base, over |-> next.over]
        /\ next.kind # "none"
    BY <1>3, <1>4 DEF JobOk
  <2>2. moved = [kind |-> next.kind, block |-> next.block, prev |-> next.prev,
                 base |-> mem, over |-> next.over]
    BY <2>1
  <2>3. /\ moved.kind = next.kind /\ moved.block = next.block /\ moved.prev = next.prev
        /\ moved.base = mem
        /\ moved = [kind |-> moved.kind, block |-> moved.block, prev |-> moved.prev,
                    base |-> moved.base, over |-> moved.over]
    BY <2>2
  <2> HIDE DEF moved
  <2>4. JobOk(moved)
    BY <1>3, <1>4, <2>3 DEF JobOk
  <2>5. QED
    BY <1>2, <2>1, <2>3, <2>4
<1> HIDE DEF moved
<1>5. JobOk(job')
  BY <1>1, <1>2, <1>3, <1>4
<1>6. missed' \in BOOLEAN /\ stuck' \in BOOLEAN
  BY <1>1
<1>7. job' # Idle => next # Idle /\ job'.kind = next.kind /\ job'.block = next.block
  BY <1>1, <1>4
<1>8. ~missed' => ~late /\ next.kind # "restart" /\ ~(old /\ q # <<>> /\ next = Idle)
  BY <1>1
<1>9. ~stuck' => ~stuck /\ ~throws
  BY <1>1
<1>10. ~throws /\ job' = Idle => next = Idle
  BY <1>1, <1>4
<1>11. ASSUME mem # <<>>, ~missed', ~stuck'
       PROVE  IF job' = Idle THEN q = <<>> \/ (~old /\ q.best \in DOMAIN mem.blocks)
              ELSE q # <<>> /\ job'.kind = "update" /\ job'.block = q.best
  <2>1. CASE job' = Idle
    BY <1>3, <1>8, <1>9, <1>10, <1>11, <2>1
  <2>2. CASE job' # Idle
    BY <1>3, <1>7, <1>8, <1>11, <2>2
  <2>3. QED
    BY <2>1, <2>2
<1>12. QED
  BY <1>1, <1>3, <1>5, <1>6, <1>7, <1>8, <1>9, <1>11

\* The memory block that a job is for.
LEMMA RemembersOk ==
  ASSUME JobOk(job), job # Idle, MemoryOk(memory), job.kind = "update" => memory # <<>>,
         NEW mem, mem = Remembers(MemoryBlock(job.block, job.prev))
  PROVE  /\ MemoryOk(mem) /\ mem # <<>> /\ job.block \in DOMAIN mem.blocks
<1> DEFINE b == job.block
           x == MemoryBlock(b, job.prev)
           x0 == [x EXCEPT !.prev = Nothing]
           base == IF job.base = <<>> THEN memory ELSE job.base
<1>0. job.kind \in {"initial", "update", "restart"} /\ b \in Chain /\ MemoryOk(job.base)
  BY DEF JobOk
<1>a. Nothing \notin Chain
  BY WatchNumbered
<1>1. x = [block |-> b, prev |-> IF job.prev = <<>> THEN Nothing ELSE job.prev.block,
           entries |-> Content[b],
           deltas |-> Deltas(IF job.prev = <<>> THEN <<>> ELSE job.prev.entries, Content[b])]
  BY DEF MemoryBlock
<1>2. /\ x.block = b /\ x.entries = Content[b]
      /\ job.prev # <<>> => x.prev = job.prev.block /\ x.deltas = Deltas(job.prev.entries, Content[b])
      /\ x # <<>>
  <2>1. "block" \in DOMAIN x /\ DOMAIN <<>> = {}
    BY <1>1
  <2>2. x # <<>>
    BY <2>1
  <2>3. QED
    BY <1>1, <2>2
<1>3. x0.block = b /\ x0.entries = Content[b] /\ x0.prev = Nothing /\ x0 # <<>>
  <2>1. x0 = [block |-> b, prev |-> Nothing, entries |-> Content[b],
              deltas |-> Deltas(IF job.prev = <<>> THEN <<>> ELSE job.prev.entries, Content[b])]
    BY <1>1
  <2>2. "block" \in DOMAIN x0 /\ DOMAIN <<>> = {}
    BY <2>1
  <2>3. x0 # <<>>
    BY <2>2
  <2>4. QED
    BY <2>1, <2>3
<1>4. mem = IF job.kind = "update" THEN Learn(base, x)
            ELSE [blocks |-> [c \in {x.block} |-> x0], finalized |-> x.block]
  BY DEF Remembers
<1> HIDE DEF x, x0
<1>5. CASE job.kind = "update"
  <2>1. PICK c \in Path[b] \ {b} : MemoryBlockOk(job.prev, c)
    BY <1>5 DEF JobOk
  <2>2. job.prev # <<>> /\ job.prev.block = c /\ job.prev.entries = Content[c]
    BY <2>1 DEF MemoryBlockOk
  <2>3. MemoryBlockOk(x, b)
    BY <1>2, <2>1, <2>2 DEF MemoryBlockOk
  <2>4. base # <<>> /\ MemoryOk(base)
    BY <1>0, <1>5
  <2> HIDE DEF base, b
  <2>5. base = [blocks |-> base.blocks, finalized |-> base.finalized]
    BY <2>4 DEF MemoryOk
  <2> DEFINE bs == [d \in DOMAIN base.blocks \cup {b} |-> IF d = b THEN x ELSE base.blocks[d]]
  <2>6. mem = [base EXCEPT !.blocks = bs]
    BY <1>2, <1>4, <1>5 DEF Learn
  <2>7. DOMAIN bs = DOMAIN base.blocks \cup {b}
        /\ \A d \in DOMAIN bs : bs[d] = IF d = b THEN x ELSE base.blocks[d]
    OBVIOUS
  <2> HIDE DEF bs
  <2>8. mem = [blocks |-> bs, finalized |-> base.finalized]
    BY <2>5, <2>6
  <2>9. mem.blocks = bs /\ mem = [blocks |-> mem.blocks, finalized |-> mem.finalized]
    BY <2>8
  <2>10. mem # <<>>
    <3>1. "blocks" \in DOMAIN mem /\ DOMAIN <<>> = {}
      BY <2>8
    <3>2. QED
      BY <3>1
  <2>11. DOMAIN bs \subseteq Chain
    BY <1>0, <2>4, <2>7 DEF MemoryOk
  <2>12. \A d \in DOMAIN bs : MemoryBlockOk(bs[d], d)
    BY <2>3, <2>4, <2>7 DEF MemoryOk
  <2>13. QED
    BY <2>7, <2>9, <2>10, <2>11, <2>12 DEF MemoryOk, b
<1>6. CASE job.kind # "update"
  <2> DEFINE bs == [c \in {b} |-> x0]
  <2>1. mem = [blocks |-> bs, finalized |-> b]
    BY <1>2, <1>4, <1>6
  <2>2. DOMAIN bs = {b} /\ bs[b] = x0
    OBVIOUS
  <2> HIDE DEF bs
  <2>3. mem.blocks = bs /\ mem = [blocks |-> mem.blocks, finalized |-> mem.finalized]
    BY <2>1
  <2>4. mem # <<>>
    <3>1. "blocks" \in DOMAIN mem /\ DOMAIN <<>> = {}
      BY <2>1
    <3>2. QED
      BY <3>1
  <2>5. MemoryBlockOk(x0, b)
    BY <1>3 DEF MemoryBlockOk
  <2> HIDE DEF b
  <2>6. QED
    BY <1>0, <2>2, <2>3, <2>4, <2>5 DEF MemoryOk, b
<1>7. QED
  BY <1>5, <1>6

LEMMA JobEndsKeeps == WatchInv /\ JobEnds => WatchInv'
<1> SUFFICES ASSUME WatchInv, JobEnds PROVE WatchInv'
  OBVIOUS
<1> DEFINE mem == Remembers(MemoryBlock(job.block, job.prev))
           old == job.kind = "restart" \/ job.base # <<>>
<1>0. /\ PinsOk /\ MemoryOk(memory) /\ JobOk(job) /\ QueuedOk(queued)
      /\ ShownOk(shown, reports, final) /\ Following /\ watchers \in SomeWatchers
      /\ missed \in BOOLEAN /\ stuck \in BOOLEAN
  BY DEF WatchInv
<1>1. /\ job # Idle /\ Busy
      /\ AllLook(Range(watchers), mem, top, final, pins)
      /\ IF job.kind = "initial"
           THEN job' = Idle /\ queued' = <<>> /\ UNCHANGED <<missed, stuck>>
           ELSE NextJob(queued, IF old THEN memory ELSE memory', old, pins, missed)
      /\ pins' = pins /\ top' = top /\ final' = final /\ losses' = losses /\ watchers' = watchers
  BY DEF JobEnds, Busy, pinsVars
<1>2. top \in Chain /\ final \in Chain /\ final \in Path[top]
  BY <1>0 DEF PinsOk
<1>3. /\ job.kind \in {"initial", "update", "restart"} /\ (job.kind = "initial" <=> memory = <<>>)
  BY <1>0, <1>1 DEF JobOk, Following
<1>4. MemoryOk(mem) /\ mem # <<>> /\ job.block \in DOMAIN mem.blocks
  BY <1>0, <1>1, <1>3, RemembersOk
<1> HIDE DEF mem
<1>5. /\ memory' # <<>> /\ MemoryOk(memory') /\ ShownOk(shown', reports', final)
      /\ \A c \in DOMAIN mem.blocks : final \in Path[c] => c \in DOMAIN memory'.blocks
      /\ "best" \in Range(watchers) /\ top \in DOMAIN memory'.blocks
           => shown'["best"] # <<>> /\ shown'["best"].block = top
  BY <1>0, <1>1, <1>2, <1>4, AllLookKeeps
<1>6. PinsOk' /\ ShownOk(shown', reports', final') /\ BestShown(memory, shown, top)'
  BY <1>0, <1>1, <1>5 DEF PinsOk, BestShown
<1>7. job.block = top => top \in DOMAIN memory'.blocks
  BY <1>2, <1>4, <1>5
<1>8. JobOk(job') /\ queued' = <<>> /\ missed' \in BOOLEAN /\ stuck' \in BOOLEAN /\ Following'
  <2>1. CASE job.kind = "initial"
    <3>1. job' = Idle /\ queued' = <<>> /\ missed' = missed /\ stuck' = stuck
      BY <1>1, <2>1
    <3>2. missed
      BY <1>0, <1>3, <2>1 DEF Following
    <3>3. QED
      BY <1>0, <1>5, <3>1, <3>2 DEF Following, JobOk, Busy
  <2>2. CASE job.kind # "initial"
    <3> DEFINE m == IF old THEN memory ELSE memory'
    <3>1. NextJob(queued, m, old, pins, missed)
      BY <1>1, <2>2
    <3>2. m # <<>> /\ MemoryOk(m) /\ old \in BOOLEAN /\ (~old => m = memory')
      BY <1>0, <1>3, <1>5, <2>2
    <3> HIDE DEF m, old
    <3>3. /\ JobOk(job') /\ queued' = <<>> /\ missed' \in BOOLEAN /\ stuck' \in BOOLEAN
          /\ job' # Idle => (job'.kind = "initial" <=> m = <<>>)
          /\ ~missed' => ~missed
          /\ ~stuck' => ~stuck
          /\ ~missed' /\ ~stuck' =>
               IF job' = Idle THEN queued = <<>> \/ (~old /\ queued.best \in DOMAIN m.blocks)
               ELSE queued # <<>> /\ job'.kind = "update" /\ job'.block = queued.best
      BY <1>0, <3>1, <3>2, NextJobKeeps
    <3>4. ASSUME ~missed', ~stuck'
          PROVE  IF job' = Idle THEN top \in DOMAIN memory'.blocks
                 ELSE job'.kind = "update" /\ job'.block = top
      <4>1. IF queued = <<>> THEN job.block = top ELSE queued.best = top
        BY <1>0, <1>1, <1>3, <2>2, <3>3, <3>4 DEF Following
      <4>2. CASE job' = Idle
        BY <1>7, <3>2, <3>3, <3>4, <4>1, <4>2
      <4>3. CASE job' # Idle
        BY <3>3, <3>4, <4>1, <4>3
      <4>4. QED
        BY <4>2, <4>3
    <3>5. Following'
      BY <1>1, <1>5, <3>2, <3>3, <3>4 DEF Following, Busy
    <3>6. QED
      BY <3>3, <3>5
  <2>3. QED
    BY <2>1, <2>2
<1>9. MemoryOk(memory)' /\ JobOk(job)' /\ QueuedOk(queued)' /\ ShownOk(shown, reports, final)'
  <2>1. MemoryOk(memory)'
    BY <1>5 DEF MemoryOk, MemoryBlockOk
  <2>2. JobOk(job)'
    BY <1>8 DEF JobOk, MemoryOk, MemoryBlockOk, Idle
  <2>3. ShownOk(shown, reports, final)'
    BY <1>6 DEF ShownOk, MemoryBlockOk
  <2>4. QED
    BY <1>8, <2>1, <2>2, <2>3 DEF QueuedOk
<1>10. QED
  BY <1>0, <1>1, <1>6, <1>8, <1>9 DEF WatchInv

\* A chain event: b is the best block, f the finalized one.
LEMMA NoteKeeps ==
  ASSUME MemoryOk(memory), JobOk(job), QueuedOk(queued), Following,
         missed \in BOOLEAN, stuck \in BOOLEAN,
         NEW b \in Chain, NEW f \in Chain, NEW pinSet, b \in pinSet, b \in Path[b],
         Note(b, f, pinSet)
  PROVE  /\ JobOk(job') /\ QueuedOk(queued') /\ missed' \in BOOLEAN /\ stuck' \in BOOLEAN
         /\ memory = <<>> => missed'
         /\ job' = Idle => queued' = <<>>
         /\ job' # Idle => (job'.kind = "initial" <=> memory = <<>>)
         /\ memory # <<>> /\ ~missed' /\ ~stuck' =>
              IF job' = Idle THEN b \in DOMAIN memory.blocks
              ELSE IF queued' = <<>> THEN job'.kind = "update" /\ job'.block = b
              ELSE queued'.best = b
<1> DEFINE gone == job.block \notin pinSet /\ Number(job.block) <= Number(f)
           cut == job.block \in pinSet /\ ~job.over /\ job.block \notin Path[b]
           news == IF memory = <<>> THEN f # final ELSE b # top
           now == [best |-> b, finalized |-> f]
           q == IF news THEN now ELSE queued
           late == IF b = top THEN missed ELSE memory = <<>>
           seen == [job EXCEPT !.over = @ \/ job.block \notin pinSet \/ job.block \in Path[f]]
<1>1. IF stuck THEN UNCHANGED <<job, queued, missed, stuck>>
      ELSE IF Busy /\ ~gone /\ ~cut
        THEN queued' = q /\ missed' = late /\ job' = seen /\ UNCHANGED stuck
        ELSE NextJob(q, memory, FALSE, pinSet, late)
  BY DEF Note
<1>2. now # <<>> /\ now.best = b /\ now.finalized = f
  <2>1. "best" \in DOMAIN now /\ DOMAIN <<>> = {}
    OBVIOUS
  <2>2. now # <<>>
    BY <2>1
  <2>3. QED
    BY <2>2
<1> HIDE DEF now
<1>3. QueuedOk(q)
  BY <1>2 DEF QueuedOk
<1>4. late \in BOOLEAN /\ (memory = <<>> => late) /\ (~late /\ b = top => ~missed)
  BY DEF Following
<1>f. /\ memory = <<>> => missed
      /\ job = Idle => queued = <<>>
      /\ job # Idle => (job.kind = "initial" <=> memory = <<>>)
      /\ memory # <<>> /\ ~missed /\ ~stuck =>
           IF job = Idle THEN top \in DOMAIN memory.blocks
           ELSE IF queued = <<>> THEN job.kind = "update" /\ job.block = top
           ELSE queued.best = top
  BY DEF Following, Busy
<1>q. memory # <<>> /\ q = <<>> => b = top /\ queued = <<>>
  BY <1>2
<1>b. memory # <<>> /\ q # <<>> => q.best = b \/ (b = top /\ q = queued)
  BY <1>2
<1>5. CASE stuck
  BY <1>1, <1>5, <1>f
<1>6. CASE ~stuck /\ Busy /\ ~gone /\ ~cut
  <2>1. queued' = q /\ missed' = late /\ job' = seen /\ stuck' = stuck /\ job # Idle
    BY <1>1, <1>6 DEF Busy
  <2>2. /\ job = [kind |-> job.kind, block |-> job.block, prev |-> job.prev, base |-> job.base,
                  over |-> job.over]
        /\ job.kind # "none" /\ Idle.kind = "none"
    BY <2>1 DEF JobOk, Idle
  <2>3. PICK o : seen = [kind |-> job.kind, block |-> job.block, prev |-> job.prev,
                         base |-> job.base, over |-> o]
    <3>1. \A k, x, p, m, v, o :
            [[kind |-> k, block |-> x, prev |-> p, base |-> m, over |-> v] EXCEPT !.over = o]
              = [kind |-> k, block |-> x, prev |-> p, base |-> m, over |-> o]
      OBVIOUS
    <3> DEFINE o == job.over \/ job.block \notin pinSet \/ job.block \in Path[f]
    <3>2. seen = [job EXCEPT !.over = o]
      OBVIOUS
    <3> HIDE DEF seen, o
    <3>3. seen = [kind |-> job.kind, block |-> job.block, prev |-> job.prev,
                  base |-> job.base, over |-> o]
      BY <2>2, <3>1, <3>2
    <3>4. QED
      BY <3>3
  <2>4. /\ seen.kind = job.kind /\ seen.block = job.block /\ seen.prev = job.prev
        /\ seen.base = job.base
        /\ seen = [kind |-> seen.kind, block |-> seen.block, prev |-> seen.prev,
                   base |-> seen.base, over |-> seen.over]
    BY <2>3
  <2> HIDE DEF seen
  <2>5. JobOk(seen) /\ seen # Idle
    BY <2>1, <2>2, <2>4 DEF JobOk
  <2> HIDE DEF q, late
  <2>6. ASSUME memory # <<>>, ~missed', ~stuck'
        PROVE  IF queued' = <<>> THEN job'.kind = "update" /\ job'.block = b
               ELSE queued'.best = b
    <3>1. CASE q = <<>>
      BY <1>4, <1>6, <1>f, <1>q, <2>1, <2>4, <2>6, <3>1
    <3>2. CASE q # <<>>
      BY <1>4, <1>6, <1>b, <1>f, <2>1, <2>6, <3>2
    <3>3. QED
      BY <3>1, <3>2
  <2>7. QED
    BY <1>3, <1>4, <1>6, <1>f, <2>1, <2>4, <2>5, <2>6
<1>7. CASE ~stuck /\ ~(Busy /\ ~gone /\ ~cut)
  <2>1. NextJob(q, memory, FALSE, pinSet, late)
    BY <1>1, <1>7
  <2>2. Busy => gone \/ cut
    BY <1>7
  <2> HIDE DEF q, late
  <2>3. /\ JobOk(job') /\ queued' = <<>> /\ missed' \in BOOLEAN /\ stuck' \in BOOLEAN
        /\ job' # Idle => (job'.kind = "initial" <=> memory = <<>>)
        /\ ~missed' => ~late
        /\ ~stuck' => ~stuck
        /\ memory # <<>> /\ ~missed' /\ ~stuck' =>
             IF job' = Idle THEN q = <<>> \/ q.best \in DOMAIN memory.blocks
             ELSE q # <<>> /\ job'.kind = "update" /\ job'.block = q.best
    <3> DEFINE no == FALSE
    <3>1. MemoryOk(memory) /\ no \in BOOLEAN /\ ~no /\ (no => memory # <<>>) /\ late \in BOOLEAN
      BY <1>4
    <3>2. NextJob(q, memory, no, pinSet, late)
      BY <2>1
    <3> HIDE DEF no
    <3>3. QED
      BY <1>3, <3>1, <3>2, NextJobKeeps
  <2>4. ASSUME memory # <<>>, ~missed', ~stuck'
        PROVE  IF job' = Idle THEN b \in DOMAIN memory.blocks
               ELSE job'.kind = "update" /\ job'.block = b
    <3>1. ~late /\ (b = top => ~missed)
      BY <1>4, <2>3, <2>4
    <3>2. CASE q = <<>>
      <4>1. b = top /\ queued = <<>> /\ job' = Idle
        BY <1>q, <2>3, <2>4, <3>2
      <4>2. ~Busy
        <5> SUFFICES ASSUME Busy PROVE FALSE
          OBVIOUS
        <5>1. job.block = b
          BY <1>7, <1>f, <2>4, <3>1, <4>1 DEF Busy
        <5>2. QED
          BY <2>2, <5>1
      <4>3. QED
        BY <1>7, <1>f, <2>4, <3>1, <4>1, <4>2 DEF Busy
    <3>3. CASE q # <<>>
      <4>1. q.best = b
        <5>1. CASE b = top /\ q = queued
          BY <1>7, <1>f, <2>4, <3>1, <3>3, <5>1
        <5>2. QED
          BY <1>b, <2>4, <3>3, <5>1
      <4>2. QED
        BY <2>3, <2>4, <3>3, <4>1
    <3>4. QED
      BY <3>2, <3>3
  <2>5. QueuedOk(queued')
    BY <2>3 DEF QueuedOk
  <2>6. QED
    BY <1>4, <2>3, <2>4, <2>5
<1>8. QED
  BY <1>5, <1>6, <1>7

LEMMA ChainEventKeeps ==
  ASSUME WatchInv, NEW b \in Chain, NEW f \in Chain, f \in Path[b], final \in Path[f],
         NEW pinSet, pinSet \subseteq Chain, b \in pinSet, f \in pinSet,
         Path[b] \ Path[f] \subseteq pinSet, losses' \in 0 .. MaxLosses, ChainEvent(b, f, pinSet)
  PROVE  WatchInv'
<1>0. /\ PinsOk /\ MemoryOk(memory) /\ JobOk(job) /\ QueuedOk(queued)
      /\ ShownOk(shown, reports, final) /\ Following /\ watchers \in SomeWatchers
      /\ missed \in BOOLEAN /\ stuck \in BOOLEAN /\ BestShown(memory, shown, top)
  BY DEF WatchInv
<1> DEFINE who == {w \in Range(watchers) : Target(w, b, f) # Target(w, top, final)}
<1>1. /\ pins' = pinSet /\ top' = b /\ final' = f /\ watchers' = watchers
      /\ Note(b, f, pinSet)
      /\ IF memory = <<>> THEN Silent(memory) ELSE AllLook(who, memory, b, f, pinSet)
  BY DEF ChainEvent
<1>2. PinsOk'
  BY <1>1 DEF PinsOk
<1>3. b \in Path[b] /\ Path[final] \subseteq Path[f]
  BY PathFacts, <1>0 DEF PinsOk
<1>4. ShownOk(shown, reports, f)
  BY <1>0, <1>3 DEF ShownOk
<1>5. /\ JobOk(job') /\ QueuedOk(queued') /\ missed' \in BOOLEAN /\ stuck' \in BOOLEAN
      /\ memory = <<>> => missed'
      /\ job' = Idle => queued' = <<>>
      /\ job' # Idle => (job'.kind = "initial" <=> memory = <<>>)
      /\ memory # <<>> /\ ~missed' /\ ~stuck' =>
           IF job' = Idle THEN b \in DOMAIN memory.blocks
           ELSE IF queued' = <<>> THEN job'.kind = "update" /\ job'.block = b
           ELSE queued'.best = b
  BY <1>0, <1>1, <1>3, NoteKeeps
<1>6. /\ memory' = <<>> <=> memory = <<>>
      /\ MemoryOk(memory') /\ ShownOk(shown', reports', f)
      /\ memory # <<>> /\ b \in DOMAIN memory.blocks => b \in DOMAIN memory'.blocks
      /\ "best" \in Range(watchers) /\ memory' # <<>> /\ b \in DOMAIN memory'.blocks
           => shown'["best"] # <<>> /\ shown'["best"].block = b
  <2>1. CASE memory = <<>>
    BY <1>0, <1>1, <1>4, <2>1 DEF Silent
  <2>2. CASE memory # <<>>
    <3>1. AllLook(who, memory, b, f, pinSet)
      BY <1>1, <2>2
    <3>2. "best" \in who <=> "best" \in Range(watchers) /\ b # top
      BY DEF Target
    <3> HIDE DEF who
    <3>3. /\ memory' # <<>> /\ MemoryOk(memory') /\ ShownOk(shown', reports', f)
          /\ DOMAIN memory'.blocks \subseteq DOMAIN memory.blocks
          /\ \A c \in DOMAIN memory.blocks : f \in Path[c] => c \in DOMAIN memory'.blocks
          /\ "best" \in who /\ "best" \in Range(watchers) /\ b \in DOMAIN memory'.blocks
               => shown'["best"] # <<>> /\ shown'["best"].block = b
          /\ "best" \notin who => shown'["best"] = shown["best"]
      BY <1>0, <1>4, <2>2, <3>1, AllLookKeeps
    <3>4. ASSUME "best" \in Range(watchers), b \in DOMAIN memory'.blocks
          PROVE  shown'["best"] # <<>> /\ shown'["best"].block = b
      <4>1. CASE b = top
        BY <1>0, <2>2, <3>2, <3>3, <3>4, <4>1 DEF BestShown
      <4>2. CASE b # top
        BY <3>2, <3>3, <3>4, <4>2
      <4>3. QED
        BY <4>1, <4>2
    <3>5. QED
      BY <2>2, <3>3, <3>4
  <2>3. QED
    BY <2>1, <2>2
<1>7. Following'
  BY <1>1, <1>5, <1>6 DEF Following, Busy
<1>8. BestShown(memory, shown, top)'
  BY <1>1, <1>6 DEF BestShown
<1>9. MemoryOk(memory)' /\ JobOk(job)' /\ QueuedOk(queued)' /\ ShownOk(shown, reports, final)'
  <2>1. MemoryOk(memory)'
    BY <1>6 DEF MemoryOk, MemoryBlockOk
  <2>2. JobOk(job)'
    BY <1>5 DEF JobOk, MemoryOk, MemoryBlockOk, Idle
  <2>3. ShownOk(shown, reports, final)'
    BY <1>1, <1>6 DEF ShownOk, MemoryBlockOk
  <2>4. QueuedOk(queued)'
    BY <1>5 DEF QueuedOk
  <2>5. QED
    BY <2>1, <2>2, <2>3, <2>4
<1>10. QED
  BY <1>0, <1>1, <1>2, <1>5, <1>7, <1>8, <1>9 DEF WatchInv

LEMMA WatchInvNext == WatchInv /\ [WatchNext]_watchVars => WatchInv'
<1> SUFFICES ASSUME WatchInv, [WatchNext]_watchVars PROVE WatchInv'
  OBVIOUS
<1>0. /\ pins \subseteq Chain /\ top \in pins /\ final \in pins /\ final \in Path[top]
      /\ Path[top] \ Path[final] \subseteq pins
      /\ top \in Chain /\ final \in Chain /\ losses \in 0 .. MaxLosses
  BY DEF WatchInv, PinsOk
<1>1. CASE JobEnds
  BY <1>1, JobEndsKeeps
<1>2. CASE TopChanges
  <2>1. PICK b \in Chain \ {top} :
          final \in Path[b] /\ ChainEvent(b, final, pins \cup (Path[b] \ Path[final]))
    BY <1>2 DEF TopChanges
  <2>2. losses' = losses
    BY <1>2 DEF TopChanges
  <2> DEFINE pinSet == pins \cup (Path[b] \ Path[final])
  <2>3. /\ pinSet \subseteq Chain /\ final \in pinSet /\ final \in Path[final]
        /\ Path[b] \ Path[final] \subseteq pinSet
    BY <1>0, PathFacts
  <2>4. b \in pinSet
    <3>1. b \in Path[b]
      BY PathFacts
    <3>2. CASE b \in Path[final]
      <4>1. b = final
        BY <1>0, <2>1, <3>2, PathFacts
      <4>2. QED
        BY <1>0, <4>1
    <3>3. QED
      BY <3>1, <3>2
  <2> HIDE DEF pinSet
  <2>5. ChainEvent(b, final, pinSet)
    BY <2>1 DEF pinSet
  <2>6. QED
    BY <1>0, <2>1, <2>2, <2>3, <2>4, <2>5, ChainEventKeeps
<1>3. CASE FinalChanges
  <2>1. PICK f \in Path[top] \ Path[final] : ChainEvent(top, f, pins)
    BY <1>3 DEF FinalChanges
  <2>2. losses' = losses
    BY <1>3 DEF FinalChanges
  <2>3. f \in Chain /\ f \in Path[top] /\ final \in Path[f]
    BY <1>0, PathFacts
  <2>4. f \in pins /\ Path[top] \ Path[f] \subseteq pins
    <3>1. Path[final] \subseteq Path[f]
      BY <1>0, <2>3, PathFacts
    <3>2. QED
      BY <1>0, <2>1, <3>1
  <2>5. QED
    BY <1>0, <2>1, <2>2, <2>3, <2>4, ChainEventKeeps
<1>4. CASE Lose
  <2>1. PICK f \in Chain \ pins, b \in Chain :
          /\ final \in Path[f] /\ f \in Path[b]
          /\ ChainEvent(b, f, {f} \cup (Path[b] \ Path[f]))
    BY <1>4 DEF Lose
  <2>2. losses < MaxLosses /\ losses' = losses + 1
    BY <1>4 DEF Lose
  <2>3. losses' \in 0 .. MaxLosses
    BY <1>0, <2>2, WatchAssumption
  <2> DEFINE pinSet == {f} \cup (Path[b] \ Path[f])
  <2>4. pinSet \subseteq Chain /\ f \in pinSet /\ Path[b] \ Path[f] \subseteq pinSet
    BY PathFacts
  <2>5. b \in pinSet
    BY <2>1, PathFacts
  <2> HIDE DEF pinSet
  <2>6. ChainEvent(b, f, pinSet)
    BY <2>1 DEF pinSet
  <2>7. QED
    BY <2>1, <2>3, <2>4, <2>5, <2>6, ChainEventKeeps
<1>5. CASE Tidy
  <2>1. /\ pins' \subseteq pins
        /\ UNCHANGED <<top, final, losses, memoryVars, watchers, shown, reports>>
        /\ \A b \in pins : final \in Path[b] => b \in pins'
    BY <1>5 DEF Tidy
  <2>2. final \in Path[final]
    BY <1>0, PathFacts
  <2>0. \A b \in Path[top] \ Path[final] : final \in Path[b]
    BY <1>0, PathFacts
  <2>3. PinsOk'
    BY <1>0, <2>0, <2>1, <2>2 DEF PinsOk
  <2>4. /\ memory' = memory /\ job' = job /\ queued' = queued /\ missed' = missed /\ stuck' = stuck
        /\ top' = top /\ final' = final /\ watchers' = watchers /\ shown' = shown
        /\ reports' = reports
    BY <2>1 DEF memoryVars
  <2>5. QED
    BY <2>3, <2>4 DEF WatchInv, Following, Busy, BestShown
<1>6. CASE UNCHANGED watchVars
  <2>1. /\ memory' = memory /\ job' = job /\ queued' = queued /\ missed' = missed /\ stuck' = stuck
        /\ top' = top /\ final' = final /\ watchers' = watchers /\ shown' = shown
        /\ reports' = reports /\ pins' = pins /\ losses' = losses
    BY <1>6 DEF watchVars, pinsVars, memoryVars
  <2>2. QED
    BY <2>1 DEF WatchInv, PinsOk, Following, Busy, BestShown
<1>7. QED
  BY <1>1, <1>2, <1>3, <1>4, <1>5, <1>6 DEF WatchNext

LEMMA WatchInvInit == WatchInit => WatchInv
<1> SUFFICES ASSUME WatchInit PROVE WatchInv
  OBVIOUS
<1>1. /\ pins = {Genesis} /\ top = Genesis /\ final = Genesis /\ losses = 0
      /\ memory = <<>> /\ job = InitialJob(Genesis) /\ queued = <<>>
      /\ missed = TRUE /\ stuck = FALSE /\ watchers \in SomeWatchers
      /\ shown = [w \in {"best", "finalized"} |-> <<>>]
      /\ reports = [w \in {"best", "finalized"} |-> <<>>]
  BY DEF WatchInit, SomeWatchers
<1>2. Genesis \in Chain /\ Genesis \in Path[Genesis]
  BY WatchNumbered, PathFacts
<1>3. PinsOk
  BY <1>1, <1>2, WatchAssumption DEF PinsOk
<1>4. MemoryOk(memory) /\ QueuedOk(queued) /\ BestShown(memory, shown, top)
  BY <1>1 DEF MemoryOk, QueuedOk, BestShown
<1>5. JobOk(job) /\ job # Idle /\ job.kind = "initial"
  BY <1>1, <1>2, InitialJobOk
<1>6. ShownOk(shown, reports, final)
  BY <1>1 DEF ShownOk
<1>7. Following
  BY <1>1, <1>5 DEF Following, Busy
<1>8. QED
  BY <1>1, <1>3, <1>4, <1>5, <1>6, <1>7 DEF WatchInv

LEMMA WatchInvSuffices == WatchInv => EntriesAreRight
<1> SUFFICES ASSUME WatchInv PROVE EntriesAreRight
  OBVIOUS
<1>0. /\ PinsOk /\ MemoryOk(memory) /\ JobOk(job) /\ QueuedOk(queued)
      /\ ShownOk(shown, reports, final) /\ Following /\ watchers \in SomeWatchers
      /\ missed \in BOOLEAN /\ stuck \in BOOLEAN /\ BestShown(memory, shown, top)
  BY DEF WatchInv
<1>1. Range(watchers) \subseteq {"best", "finalized"}
  BY <1>0 DEF SomeWatchers, Range
<1>2. ASSUME NEW w \in {"best", "finalized"}, NEW i \in DOMAIN reports[w]
      PROVE  /\ reports[w][i].block \in Chain
             /\ reports[w][i].entries = Content[reports[w][i].block]
             /\ i \in 1 .. Len(reports[w])
  <2>1. reports[w] \in Seq(RightReport)
    BY <1>0 DEF ShownOk
  <2>2. i \in 1 .. Len(reports[w]) /\ reports[w][i] \in RightReport
    BY <2>1, LenProperties
  <2>3. QED
    BY <2>2 DEF RightReport
<1>3. WatchTypeOK
  <2>1. pins \subseteq Chain /\ {top, final} \subseteq pins /\ losses \in 0 .. MaxLosses
    BY <1>0 DEF PinsOk
  <2>2. memory # <<>> => DOMAIN memory.blocks \subseteq Chain
    BY <1>0 DEF MemoryOk
  <2>3. job.kind \in {"none", "initial", "update", "restart"}
    BY <1>0 DEF JobOk, Idle
  <2>4. QED
    BY <1>0, <1>1, <1>2, <2>1, <2>2, <2>3 DEF WatchTypeOK, QueuedOk
<1>4. DeltasAddUp
  BY <1>1, <1>2 DEF DeltasAddUp
<1>5. FinalIsReported
  BY <1>0, <1>2 DEF FinalIsReported, ShownOk
<1>6. BestIsReported
  <2> SUFFICES ASSUME "best" \in Range(watchers), ~Busy, ~missed, ~stuck, memory # <<>>
               PROVE  reports["best"] # <<>> /\ Last(reports["best"]).block = top
    BY DEF BestIsReported
  <2>1. top \in DOMAIN memory.blocks
    BY <1>0 DEF Following
  <2>2. shown["best"] # <<>> /\ shown["best"].block = top
    BY <1>0, <2>1 DEF BestShown
  <2>3. Len(reports["best"]) > 0 /\ reports["best"][Len(reports["best"])].block = top
    BY <1>0, <2>2 DEF ShownOk
  <2>4. reports["best"] # <<>>
    BY <2>3
  <2>5. QED
    BY <2>3, <2>4 DEF Last
<1>7. QED
  BY <1>3, <1>4, <1>5, <1>6 DEF EntriesAreRight

\* For any chain and contents, whatever is lost, reorganised or skipped: who applies the
\* deltas of watchEntries has the entries of each block reported, the finalized watcher
\* reports finalized blocks, and the best one gets to the best block unless that was
\* missed.
THEOREM EntriesStayRight == WatchSpec => []EntriesAreRight
<1>1. WatchSpec => []WatchInv
  BY WatchInvInit, WatchInvNext, PTL DEF WatchSpec
<1>2. QED
  BY <1>1, WatchInvSuffices, PTL

(***************************************************************************)
(* Transactions: what is encoded is read back.                             *)
(***************************************************************************)

\* The decoder takes no negative number of bytes.
LEMMA LengthIsNat ==
  ASSUME NEW id, NEW bytes
  PROVE  Length(id, bytes) \in Nat
<1>1. QED
  BY DEF Length

\* Where values end is defined by recursion over the pipeline.
LEMMA EndsFacts ==
  ASSUME NEW S, NEW p \in Seq(S), NEW bytes
  PROVE  /\ ValueEnds(p, bytes) \in [0 .. Len(p) -> Nat]
         /\ ValueEnds(p, bytes)[0] = 0
         /\ \A i \in 1 .. Len(p) :
               ValueEnds(p, bytes)[i] =
                 ValueEnds(p, bytes)[i - 1]
                 + Length(p[i], SubSeq(bytes, ValueEnds(p, bytes)[i - 1] + 1, Len(bytes)))
<1> DEFINE n == Len(p)
           Next1(i, v) == v + Length(p[i], SubSeq(bytes, v + 1, Len(bytes)))
           Is(g) == g = [i \in 0 .. n |-> IF i = 0 THEN 0 ELSE Next1(i, g[i - 1])]
           end == CHOOSE g : Is(g)
           G == [i \in 1 .. n |-> [v \in Nat |-> Next1(i, v)]]
<1>0. n \in Nat
  BY LenProperties
<1>1. \A i \in 1 .. n : \A v \in Nat : Next1(i, v) \in Nat
  BY LengthIsNat
<1>2. ValueEnds(p, bytes) = end
  BY DEF ValueEnds
<1> HIDE DEF n, Next1
<1>3. \A i \in 1 .. n : \A v \in Nat : G[i][v] = Next1(i, v) /\ G[i][v] \in Nat
  BY <1>1
<1> HIDE DEF G
<1>4. Climbable(n, Nat, 0, G)
  BY <1>0, <1>3 DEF Climbable
<1>5. PICK g \in [0 .. n -> Nat] : Climbs(g, n, 0, G)
  BY <1>4, RecursionUp
<1>6. g[0] = 0 /\ \A i \in 1 .. n : g[i] = Next1(i, g[i - 1])
  <2> SUFFICES ASSUME NEW i \in 1 .. n PROVE g[i] = Next1(i, g[i - 1])
    BY <1>5 DEF Climbs
  <2>1. g[i] = G[i][g[i - 1]] /\ g[i - 1] \in Nat
    BY <1>0, <1>5 DEF Climbs
  <2>2. QED
    BY <1>3, <2>1
<1>7. ASSUME NEW i \in 0 .. n PROVE g[i] = IF i = 0 THEN 0 ELSE Next1(i, g[i - 1])
  <2>1. i # 0 => i \in 1 .. n
    BY <1>0
  <2>2. QED
    BY <1>6, <2>1
<1>8. g = [i \in 0 .. n |-> g[i]]
  BY <1>5
<1>9. Is(g)
  BY <1>7, <1>8, Zenon
<1>10. Is(end)
  BY <1>9
<1> HIDE DEF end
<1>11. end[0] = 0 /\ \A i \in 1 .. n : end[i] = Next1(i, end[i - 1])
  <2>1. 0 \in 0 .. n /\ \A i \in 1 .. n : i \in 0 .. n /\ i # 0
    BY <1>0
  <2>2. QED
    BY <1>10, <2>1
<1> DEFINE T == {i \in Nat : i \in 0 .. n => end[i] \in Nat}
<1>12. 0 \in T
  BY <1>11
<1>13. ASSUME NEW i \in Nat, i \in T PROVE i + 1 \in T
  <2> DEFINE k == i + 1
  <2> SUFFICES ASSUME k \in 0 .. n PROVE end[k] \in Nat
    OBVIOUS
  <2>1. k \in 1 .. n /\ k - 1 = i /\ i \in 0 .. n
    BY <1>0
  <2>2. end[i] \in Nat
    BY <1>13, <2>1
  <2> HIDE DEF k, T
  <2>3. end[k] = Next1(k, end[k - 1])
    BY <1>11, <2>1
  <2>4. QED
    BY <1>1, <2>1, <2>2, <2>3
<1> HIDE DEF T
<1>14. Nat \subseteq T
  BY <1>12, <1>13, InductionOverNat
<1>15. \A i \in 0 .. n : end[i] \in Nat
  <2>1. \A i \in 0 .. n : i \in T
    BY <1>0, <1>14
  <2>2. QED
    BY <2>1 DEF T
<1>16. end \in [0 .. n -> Nat]
  <2>1. end = [i \in 0 .. n |-> end[i]]
    BY <1>10
  <2>2. QED
    BY <1>15, <2>1
<1>17. QED
  BY <1>2, <1>11, <1>16 DEF n, Next1

\* What encoded data is made of.
Atom == {"call", "version", "Signed", "signature", "one", "zero", "digest", "genesis", "block",
         "none", "some", "custom", "implicit", "transaction_version", "spec_version"}
        \cup DOMAIN KindOf
        \cup UNION {{a.nonce, a.mortality, a.tip, a.asset} : a \in Requests}

\* A value from whose beginning the decoder knows where it ends.
Fits(id, x) ==
  x \in Seq(Atom) /\ \A rest \in Seq(Atom) : Length(id, x \o rest) = Len(x)

\* The values of a pipeline, one after the other, and what comes after them; read back.
Written(body, p, s, tail) ==
  /\ p \in Seq(Extension) /\ s \in Seq(Seq(Atom)) /\ tail \in Seq(Atom)
  /\ Len(s) = Len(p) /\ \A i \in 1 .. Len(p) : Fits(p[i], s[i])
  /\ body = FlattenSeq(s) \o tail

\* What is read from a body: each value of s, and then the tail.
Read(body, p, s, tail, end) ==
  /\ \A i \in 1 .. Len(p) : SubSeq(body, end[i - 1] + 1, end[i]) = s[i]
  /\ SubSeq(body, end[Len(p)] + 1, Len(body)) = tail

\* The decoder finds each value where it was put.
LEMMA ReadsBack ==
  ASSUME NEW p, NEW s, NEW tail, NEW body, Written(body, p, s, tail)
  PROVE  Read(body, p, s, tail, ValueEnds(p, body))
<1> DEFINE n == Len(p)
           Q == Seq(Atom)
           end == ValueEnds(p, body)
<1>w. /\ p \in Seq(Extension) /\ s \in Seq(Seq(Atom)) /\ tail \in Seq(Atom)
      /\ Len(s) = Len(p) /\ \A i \in 1 .. Len(p) : Fits(p[i], s[i])
      /\ body = FlattenSeq(s) \o tail
  BY DEF Written
<1>0. n \in Nat /\ \A i \in 1 .. n : s[i] \in Q
  BY <1>w, LenProperties
<1>1. PICK f : Flattens(f, s, Atom) /\ FlattenSeq(s) = f[n]
  BY <1>w, FlattenExists
<1>2. /\ \A i \in 0 .. n : f[i] \in Q
      /\ f[0] = <<>>
      /\ \A i \in 1 .. n : f[i] = f[i - 1] \o s[i]
  BY <1>1, <1>w DEF Flattens
<1>3. /\ end[0] = 0
      /\ \A i \in 1 .. n :
           end[i] = end[i - 1] + Length(p[i], SubSeq(body, end[i - 1] + 1, Len(body)))
  BY <1>w, EndsFacts
<1>4. \A i \in 1 .. n : Fits(p[i], s[i])
  BY <1>w
<1>5. body = f[n] \o tail
  BY <1>1, <1>w
<1>6. \A x, y, z \in Q : (x \o y) \o z = x \o (y \o z)
  BY ConcatAssociative
<1>7. \A x, y, z \in Q : x \o y = x \o z => y = z
  BY ConcatSimplifications
<1>8. \A x, y \in Q : x \o y \in Q /\ Len(x \o y) = Len(x) + Len(y)
  BY ConcatProperties
<1>9. \A x, y \in Q : SubSeq(x \o y, Len(x) + 1, Len(x \o y)) = y
  BY BehindPart
<1>10. \A x, y, z \in Q : SubSeq(x \o (y \o z), Len(x) + 1, Len(x) + Len(y)) = y
  BY BehindPart
<1>11. tail \in Q
  BY <1>w
<1> HIDE DEF n, Q, end
<1> DEFINE Rest(k) == \E r \in Q : body = f[n - k] \o r
           T == {k \in Nat : k \in 0 .. n => Rest(k)}
<1>12. 0 \in T
  <2>1. n - 0 = n
    BY <1>0
  <2>2. \E r \in Q : body = f[n - 0] \o r
    BY <1>5, <1>11, <2>1
  <2>3. QED
    BY <2>2
<1>13. ASSUME NEW k \in Nat, k \in T PROVE k + 1 \in T
  <2> DEFINE j == n - k
  <2> HIDE DEF Rest
  <2> SUFFICES ASSUME k + 1 \in 0 .. n PROVE Rest(k + 1)
    OBVIOUS
  <2>1. k \in 0 .. n /\ j \in 1 .. n /\ n - (k + 1) = j - 1 /\ j - 1 \in 0 .. n
    BY <1>0
  <2>2. PICK r \in Q : body = f[j] \o r
    <3>1. Rest(k)
      BY <1>13, <2>1
    <3>2. QED
      BY <3>1 DEF Rest
  <2> HIDE DEF j, T
  <2> DEFINE a == f[j - 1]
             b == s[j]
  <2>3. f[j] = a \o b /\ a \in Q /\ b \in Q
    BY <1>0, <1>2, <2>1
  <2>4. f[n - (k + 1)] = a
    BY <2>1
  <2> HIDE DEF a, b
  <2>5. body = (a \o b) \o r
    BY <2>2, <2>3
  <2>6. (a \o b) \o r = a \o (b \o r) /\ b \o r \in Q
    <3>1. (a \o b) \o r = a \o (b \o r)
      BY <1>6, <2>3
    <3>2. b \o r \in Q
      BY <1>8, <2>3
    <3>3. QED
      BY <3>1, <3>2
  <2>7. QED
    BY <2>4, <2>5, <2>6 DEF Rest
<1> HIDE DEF T
<1>14. Nat \subseteq T
  BY <1>12, <1>13, InductionOverNat
<1>15. ASSUME NEW i \in 0 .. n PROVE \E r \in Q : body = f[i] \o r
  <2>1. n - i \in 0 .. n /\ n - i \in T /\ n - (n - i) = i
    BY <1>0, <1>14
  <2>2. QED
    BY <2>1 DEF T
\* What is to be read behind the values that were.
<1>16. ASSUME NEW i \in 1 .. n
       PROVE  \E r \in Q : body = f[i - 1] \o (s[i] \o r) /\ s[i] \o r \in Q
  <2>1. i \in 0 .. n /\ i - 1 \in 0 .. n
    BY <1>0
  <2>2. PICK r \in Q : body = f[i] \o r
    BY <1>15, <2>1
  <2> DEFINE a == f[i - 1]
             b == s[i]
  <2>3. f[i] = a \o b /\ a \in Q /\ b \in Q
    BY <1>0, <1>2, <2>1
  <2> HIDE DEF a, b
  <2>4. body = (a \o b) \o r
    BY <2>2, <2>3
  <2>5. (a \o b) \o r = a \o (b \o r) /\ b \o r \in Q
    BY <1>6, <1>8, <2>3
  <2>6. body = a \o (b \o r) /\ b \o r \in Q
    BY <2>4, <2>5
  <2>7. QED
    BY <2>6 DEF a, b
<1> DEFINE U == {i \in Nat : i \in 0 .. n => end[i] = Len(f[i])}
<1>17. ASSUME NEW i \in 1 .. n, end[i - 1] = Len(f[i - 1]) PROVE end[i] = Len(f[i])
  <2>1. PICK r \in Q : body = f[i - 1] \o (s[i] \o r) /\ s[i] \o r \in Q
    BY <1>16
  <2>2. f[i - 1] \in Q /\ s[i] \in Q /\ f[i] = f[i - 1] \o s[i]
    <3>1. i - 1 \in 0 .. n
      BY <1>0
    <3>2. QED
      BY <1>0, <1>2, <3>1
  <2>3. SubSeq(body, Len(f[i - 1]) + 1, Len(body)) = s[i] \o r
    BY <1>9, <2>1, <2>2
  <2>4. Length(p[i], s[i] \o r) = Len(s[i])
    BY <1>4, <2>1 DEF Fits, Q
  <2>5. end[i] = Len(f[i - 1]) + Len(s[i])
    BY <1>3, <1>17, <2>3, <2>4
  <2>6. QED
    BY <1>8, <2>2, <2>5
<1>18. 0 \in U
  <2>1. Len(f[0]) = 0
    BY <1>2
  <2>2. QED
    BY <1>3, <2>1
<1>19. ASSUME NEW i \in Nat, i \in U PROVE i + 1 \in U
  <2> DEFINE k == i + 1
  <2> SUFFICES ASSUME k \in 0 .. n PROVE end[k] = Len(f[k])
    OBVIOUS
  <2>1. k \in 1 .. n /\ k - 1 = i /\ i \in 0 .. n
    BY <1>0
  <2>2. end[i] = Len(f[i])
    BY <1>19, <2>1
  <2> HIDE DEF k, U
  <2>3. QED
    BY <1>17, <2>1, <2>2
<1> HIDE DEF U
<1>20. Nat \subseteq U
  BY <1>18, <1>19, InductionOverNat
<1>21. ASSUME NEW i \in 0 .. n PROVE end[i] = Len(f[i])
  <2>1. i \in U
    BY <1>0, <1>20
  <2>2. QED
    BY <2>1 DEF U
<1>22. ASSUME NEW i \in 1 .. n PROVE SubSeq(body, end[i - 1] + 1, end[i]) = s[i]
  <2>1. i \in 0 .. n /\ i - 1 \in 0 .. n
    BY <1>0
  <2>2. PICK r \in Q : body = f[i - 1] \o (s[i] \o r)
    BY <1>16
  <2> DEFINE a == f[i - 1]
             b == s[i]
  <2>3. a \in Q /\ b \in Q /\ f[i] = a \o b /\ body = a \o (b \o r)
    BY <1>0, <1>2, <2>1, <2>2
  <2>4. end[i - 1] = Len(a) /\ end[i] = Len(f[i])
    BY <1>21, <2>1
  <2> HIDE DEF a, b
  <2>5. Len(a \o b) = Len(a) + Len(b)
    BY <1>8, <2>3
  <2>6. SubSeq(a \o (b \o r), Len(a) + 1, Len(a) + Len(b)) = b
    BY <1>10, <2>3
  <2>7. end[i] = Len(a) + Len(b)
    BY <2>3, <2>4, <2>5
  <2>8. QED
    BY <2>3, <2>4, <2>6, <2>7 DEF b
<1>23. SubSeq(body, end[n] + 1, Len(body)) = tail
  <2>1. n \in 0 .. n
    BY <1>0
  <2>2. f[n] \in Q /\ end[n] = Len(f[n])
    BY <1>2, <1>21, <2>1
  <2>3. QED
    BY <1>5, <1>9, <1>11, <2>2
<1>24. QED
  BY <1>22, <1>23 DEF n, end, Read

\* Encoded data.
Values == Seq(Atom)

\* Where in a pipeline an extension is.
LEMMA PlaceInPipeline ==
  ASSUME NEW S, NEW p \in Seq(S), NEW id
  PROVE  LET at == PlaceOf(id, p)
         IN  /\ id \in Range(p) => at \in 1 .. Len(p) /\ p[at] = id
             /\ id \notin Range(p) => at = 0
<1> DEFINE A == {i \in 1 .. Len(p) : p[i] = id}
           at == PlaceOf(id, p)
<1>0. Len(p) \in Nat /\ DOMAIN p = 1 .. Len(p)
  BY LenProperties
<1>1. at = IF A # {} THEN Min(A) ELSE 0
  BY DEF PlaceOf, SelectInSeq
<1>2. id \in Range(p) <=> A # {}
  BY <1>0 DEF Range
<1>3. A # {} => Min(A) \in A
  <2>1. IsFiniteSet(1 .. Len(p))
    BY <1>0, FS_Interval
  <2>2. IsFiniteSet(A) /\ A \subseteq Nat /\ A \subseteq Int
    BY <1>0, <2>1, FS_Subset
  <2> HIDE DEF A
  <2>3. QED
    BY <2>2, MaxIsHighest
<1> HIDE DEF at
<1>4. /\ id \in Range(p) => at \in 1 .. Len(p) /\ p[at] = id
      /\ id \notin Range(p) => at = 0
  BY <1>1, <1>2, <1>3
<1>5. QED
  BY <1>4 DEF at

\* Joined values, and joined values of which one is apart.
LEMMA JoinedOf ==
  ASSUME NEW p \in Seq(Extension), NEW x, \A id \in Range(p) : x[id] \in Values
  PROVE  /\ [i \in DOMAIN p |-> x[p[i]]] \in Seq(Values)
         /\ Len([i \in DOMAIN p |-> x[p[i]]]) = Len(p)
         /\ Joined(p, x) \in Values
         /\ \A y : (\A id \in Range(p) : y[id] = x[id]) => Joined(p, y) = Joined(p, x)
<1> DEFINE s == [i \in DOMAIN p |-> x[p[i]]]
<1>0. Len(p) \in Nat /\ DOMAIN p = 1 .. Len(p)
  BY LenProperties
<1>1. \A i \in 1 .. Len(p) : p[i] \in Range(p)
  BY <1>0 DEF Range
<1>2. s \in [1 .. Len(p) -> Values]
  BY <1>0, <1>1
<1>3. s \in Seq(Values) /\ Len(s) = Len(p)
  <2> HIDE DEF s
  <2>1. QED
    BY <1>0, <1>2
<1>4. Joined(p, x) \in Values
  <2>1. s \in Seq(Seq(Atom))
    BY <1>3 DEF Values
  <2> HIDE DEF s
  <2>2. <<>> \in Seq(Seq(Atom))
    OBVIOUS
  <2>3. FlattenSeq(s) \in Seq(Atom)
    BY <2>1, <2>2, FlattenConcat
  <2>4. QED
    BY <2>3 DEF Joined, Values, s
<1>5. ASSUME NEW y, \A id \in Range(p) : y[id] = x[id] PROVE Joined(p, y) = Joined(p, x)
  <2>1. [i \in DOMAIN p |-> y[p[i]]] = [i \in DOMAIN p |-> x[p[i]]]
    BY <1>0, <1>1, <1>5
  <2>2. QED
    BY <2>1 DEF Joined
<1>6. QED
  BY <1>3, <1>4, <1>5

\* The values of a pipeline are those before an extension, its own, and those after it.
LEMMA JoinedAround ==
  ASSUME NEW p \in Seq(Extension), NEW x, \A id \in Range(p) : x[id] \in Values,
         NEW at \in 1 .. Len(p)
  PROVE  LET before == SubSeq(p, 1, at - 1)
             after  == SubSeq(p, at + 1, Len(p))
         IN  /\ before \in Seq(Extension) /\ Range(before) \subseteq Range(p)
             /\ after \in Seq(Extension) /\ Range(after) \subseteq Range(p)
             /\ IsInjective(p) => p[at] \notin Range(before) /\ p[at] \notin Range(after)
             /\ Joined(p, x) = (Joined(before, x) \o x[p[at]]) \o Joined(after, x)
<1> DEFINE before == SubSeq(p, 1, at - 1)
           after  == SubSeq(p, at + 1, Len(p))
           n == Len(p)
<1>0. n \in Nat /\ DOMAIN p = 1 .. n /\ \A i \in 1 .. n : p[i] \in Extension
  BY LenProperties
<1>1. /\ before \in Seq(Extension) /\ Len(before) = at - 1
      /\ \A i \in 1 .. at - 1 : before[i] = p[i]
  <2>1. 1 \in Int /\ 1 >= 1 /\ at - 1 \in Int /\ at - 1 <= Len(p)
    BY <1>0
  <2>2. /\ before \in Seq(Extension)
        /\ Len(before) = IF 1 <= at - 1 THEN (at - 1) - 1 + 1 ELSE 0
        /\ \A i \in 1 .. (at - 1) - 1 + 1 : before[i] = p[1 + i - 1]
    BY <2>1, Piece
  <2> HIDE DEF before
  <2>3. QED
    BY <1>0, <2>2
<1>2. /\ after \in Seq(Extension) /\ Len(after) = n - at
      /\ \A i \in 1 .. n - at : after[i] = p[at + i]
  <2>1. at + 1 \in Int /\ at + 1 >= 1 /\ n \in Int /\ n <= Len(p)
    BY <1>0
  <2>2. /\ after \in Seq(Extension)
        /\ Len(after) = IF at + 1 <= n THEN n - (at + 1) + 1 ELSE 0
        /\ \A i \in 1 .. n - (at + 1) + 1 : after[i] = p[at + 1 + i - 1]
    BY <2>1, Piece
  <2>3. at \in 1 .. n
    OBVIOUS
  <2> HIDE DEF after, n
  <2>4. n - (at + 1) + 1 = n - at /\ \A i \in 1 .. n - at : at + 1 + i - 1 = at + i
    BY <1>0, <2>3
  <2>5. QED
    BY <1>0, <2>2, <2>3, <2>4
<1> HIDE DEF before, after, n
<1>3. DOMAIN before = 1 .. at - 1 /\ DOMAIN after = 1 .. n - at
  BY <1>1, <1>2, LenProperties
<1>4. at \in 1 .. n
  BY DEF n
<1>5. Range(before) \subseteq Range(p) /\ Range(after) \subseteq Range(p) /\ p[at] \in Range(p)
  <2>1. \A i \in 1 .. at - 1 : i \in 1 .. n
    BY <1>0, <1>4
  <2>2. \A i \in 1 .. n - at : at + i \in 1 .. n
    BY <1>0, <1>4
  <2>3. \A i \in 1 .. n : p[i] \in Range(p)
    BY <1>0 DEF Range
  <2>4. \A i \in 1 .. at - 1 : before[i] \in Range(p)
    BY <1>1, <2>1, <2>3
  <2>5. \A i \in 1 .. n - at : after[i] \in Range(p)
    BY <1>2, <2>2, <2>3
  <2>6. Range(before) \subseteq Range(p) /\ Range(after) \subseteq Range(p)
    BY <1>3, <2>4, <2>5 DEF Range
  <2>7. QED
    BY <1>4, <2>3, <2>6
<1>6. ASSUME IsInjective(p) PROVE p[at] \notin Range(before) /\ p[at] \notin Range(after)
  <2>1. \A i \in 1 .. n : p[i] = p[at] => i = at
    BY <1>0, <1>4, <1>6 DEF IsInjective
  <2>2. ASSUME NEW i \in 1 .. at - 1 PROVE before[i] # p[at]
    <3>1. i \in 1 .. n /\ i # at
      BY <1>0, <1>4
    <3>2. QED
      BY <1>1, <2>1, <3>1
  <2>3. ASSUME NEW i \in 1 .. n - at PROVE after[i] # p[at]
    <3>1. at + i \in 1 .. n /\ at + i # at
      BY <1>0, <1>4
    <3>2. QED
      BY <1>2, <2>1, <3>1
  <2>4. QED
    BY <1>3, <2>2, <2>3 DEF Range
<1> DEFINE s == [i \in DOMAIN p |-> x[p[i]]]
           b == [i \in DOMAIN before |-> x[before[i]]]
           c == [i \in DOMAIN after |-> x[after[i]]]
           e == x[p[at]]
<1>7. /\ s \in Seq(Values) /\ Len(s) = n
      /\ b \in Seq(Values) /\ Len(b) = at - 1
      /\ c \in Seq(Values) /\ Len(c) = n - at
      /\ e \in Values
  <2>1. s \in Seq(Values) /\ Len(s) = n
    BY JoinedOf DEF n
  <2>2. b \in Seq(Values) /\ Len(b) = at - 1
    <3>1. \A id \in Range(before) : x[id] \in Values
      BY <1>5
    <3>2. QED
      BY <1>1, <3>1, JoinedOf
  <2>3. c \in Seq(Values) /\ Len(c) = n - at
    <3>1. \A id \in Range(after) : x[id] \in Values
      BY <1>5
    <3>2. QED
      BY <1>2, <3>1, JoinedOf
  <2>4. QED
    BY <1>5, <2>1, <2>2, <2>3
<1>8. /\ \A i \in 1 .. n : s[i] = x[p[i]]
      /\ \A i \in 1 .. at - 1 : b[i] = x[p[i]]
      /\ \A i \in 1 .. n - at : c[i] = x[p[at + i]]
  BY <1>0, <1>1, <1>2, <1>3
<1>9. /\ FlattenSeq(s) = Joined(p, x) /\ FlattenSeq(b) = Joined(before, x)
      /\ FlattenSeq(c) = Joined(after, x)
  BY DEF Joined
<1>10. e = x[p[at]]
  OBVIOUS
<1> HIDE DEF s, b, c, e
<1>11. <<e>> \in Seq(Values) /\ Len(<<e>>) = 1 /\ <<e>>[1] = e
  BY <1>7
<1>12. /\ b \o <<e>> \in Seq(Values) /\ Len(b \o <<e>>) = at
       /\ \A i \in 1 .. at : (b \o <<e>>)[i] = x[p[i]]
  <2>1. /\ b \o <<e>> \in Seq(Values) /\ Len(b \o <<e>>) = Len(b) + Len(<<e>>)
        /\ \A i \in 1 .. Len(b) + Len(<<e>>) :
              (b \o <<e>>)[i] = IF i <= Len(b) THEN b[i] ELSE <<e>>[i - Len(b)]
    BY <1>7, <1>11, ConcatProperties
  <2>2. Len(b) + Len(<<e>>) = at /\ Len(b) = at - 1
    BY <1>4, <1>7, <1>11
  <2>3. ASSUME NEW i \in 1 .. at PROVE (b \o <<e>>)[i] = x[p[i]]
    <3>1. CASE i <= at - 1
      BY <1>8, <2>1, <2>2, <3>1
    <3>2. CASE i = at
      <4>1. ~(i <= at - 1) /\ i - (at - 1) = 1
        BY <1>4, <3>2
      <4>2. (b \o <<e>>)[i] = <<e>>[1]
        BY <2>1, <2>2, <4>1
      <4>3. QED
        BY <1>10, <1>11, <3>2, <4>2
    <3>3. i <= at - 1 \/ i = at
      BY <1>0, <1>4
    <3>4. QED
      BY <3>1, <3>2, <3>3
  <2>4. QED
    BY <2>1, <2>2, <2>3
<1>13. s = (b \o <<e>>) \o c
  <2> DEFINE d == b \o <<e>>
  <2>1. d \in Seq(Values) /\ Len(d) = at /\ \A i \in 1 .. at : d[i] = x[p[i]]
    BY <1>12
  <2> HIDE DEF d
  <2>2. /\ d \o c \in Seq(Values) /\ Len(d \o c) = Len(d) + Len(c)
        /\ \A i \in 1 .. Len(d) + Len(c) :
              (d \o c)[i] = IF i <= Len(d) THEN d[i] ELSE c[i - Len(d)]
    BY <1>7, <2>1, ConcatProperties
  <2>3. Len(d) + Len(c) = n
    BY <1>0, <1>4, <1>7, <2>1
  <2>4. ASSUME NEW i \in 1 .. n PROVE s[i] = (d \o c)[i]
    <3>1. CASE i <= at
      BY <1>8, <2>1, <2>2, <2>3, <3>1
    <3>2. CASE ~(i <= at)
      <4>1. i - at \in 1 .. n - at /\ at + (i - at) = i
        BY <1>0, <1>4, <3>2
      <4>2. (d \o c)[i] = c[i - at]
        BY <2>1, <2>2, <2>3, <3>2
      <4>3. c[i - at] = x[p[at + (i - at)]]
        BY <1>8, <4>1
      <4>4. QED
        BY <1>8, <4>1, <4>2, <4>3
    <3>3. QED
      BY <3>1, <3>2
  <2>5. s = d \o c
    BY <1>7, <2>2, <2>3, <2>4, SeqEqual
  <2>6. QED
    BY <2>5 DEF d
<1>14. FlattenSeq(s) = (FlattenSeq(b) \o e) \o FlattenSeq(c)
  <2>1. /\ b \in Seq(Seq(Atom)) /\ c \in Seq(Seq(Atom)) /\ e \in Seq(Atom)
        /\ b \o <<e>> \in Seq(Seq(Atom))
    BY <1>7, <1>12 DEF Values
  <2>2. <<e>> \in Seq(Seq(Atom)) /\ FlattenSeq(<<e>>) = e
    BY <2>1, FlattenOne
  <2>3. FlattenSeq((b \o <<e>>) \o c) = FlattenSeq(b \o <<e>>) \o FlattenSeq(c)
    BY <2>1, FlattenConcat
  <2>4. FlattenSeq(b \o <<e>>) = FlattenSeq(b) \o FlattenSeq(<<e>>)
    BY <2>1, <2>2, FlattenConcat
  <2>5. QED
    BY <1>13, <2>2, <2>3, <2>4
<1>15. QED
  BY <1>1, <1>2, <1>5, <1>6, <1>9, <1>10, <1>14 DEF before, after, n

\* A call is encoded data.
LEMMA CallIsData == Call \in Seq(Atom)
<1>1. "call" \in Atom
  BY DEF Atom
<1>2. QED
  BY <1>1 DEF Call

\* x is what tx carries for each extension of its pipeline p; the decoder finds it.
Carries(m, tx, p, x) ==
  /\ p \in Seq(Extension) /\ IsInjective(p) /\ p = DecodedPipeline(m, tx)
  /\ \A id \in Range(p) : Fits(id, x[id])
  /\ tx.body = Joined(p, x) \o Call

\* The decoder finds in tx the values x of a pipeline p, and the call.
Finds(m, tx, p, x) ==
  Decoded(m, tx).extra = [id \in Range(p) |-> x[id]] /\ Decoded(m, tx).callData = Call

\* What a transaction carries is what the decoder finds in it.
LEMMA DecodesWhatIsSent ==
  ASSUME NEW m, NEW tx, NEW p, NEW x, Carries(m, tx, p, x)
  PROVE  Finds(m, tx, p, x)
<1> DEFINE s == [i \in DOMAIN p |-> x[p[i]]]
           body == tx.body
           end == ValueEnds(p, body)
           at(id) == PlaceOf(id, p)
           value(i) == SubSeq(body, end[i - 1] + 1, end[i])
<1>a. /\ p \in Seq(Extension) /\ IsInjective(p) /\ p = DecodedPipeline(m, tx)
      /\ \A id \in Range(p) : Fits(id, x[id])
      /\ tx.body = Joined(p, x) \o Call
  BY DEF Carries
<1>0. Len(p) \in Nat /\ DOMAIN p = 1 .. Len(p) /\ \A i \in 1 .. Len(p) : p[i] \in Range(p)
  BY <1>a, LenProperties DEF Range
<1>1. \A id \in Range(p) : x[id] \in Values
  BY <1>a DEF Fits, Values
<1>2. s \in Seq(Seq(Atom)) /\ Len(s) = Len(p)
  BY <1>1, <1>a, JoinedOf DEF Values
<1>3. \A i \in 1 .. Len(p) : s[i] = x[p[i]]
  BY <1>0
<1>4. Joined(p, x) = FlattenSeq(s)
  BY DEF Joined
<1>5. Call \in Seq(Atom)
  BY CallIsData
<1>6. body = FlattenSeq(s) \o Call
  BY <1>4, <1>a
<1> HIDE DEF s, body
<1>7. \A i \in 1 .. Len(p) : Fits(p[i], s[i])
  BY <1>0, <1>3, <1>a
<1>8. /\ \A i \in 1 .. Len(p) : value(i) = s[i]
      /\ SubSeq(body, end[Len(p)] + 1, Len(body)) = Call
  <2>1. Written(body, p, s, Call)
    BY <1>2, <1>5, <1>6, <1>7, <1>a DEF Written
  <2>2. Read(body, p, s, Call, end)
    BY <2>1, ReadsBack
  <2> HIDE DEF end
  <2>3. QED
    BY <2>2 DEF Read
<1>9. ASSUME NEW id \in Range(p) PROVE at(id) \in 1 .. Len(p) /\ p[at(id)] = id
  BY <1>a, PlaceInPipeline
<1>10. /\ Decoded(m, tx).extra = [id \in Range(p) |-> value(at(id))]
       /\ Decoded(m, tx).callData = SubSeq(body, end[Len(p)] + 1, Len(body))
  BY <1>a DEF Decoded, body
<1> HIDE DEF value, at, end
<1>11. ASSUME NEW id \in Range(p) PROVE value(at(id)) = x[id]
  <2>1. at(id) \in 1 .. Len(p) /\ p[at(id)] = id
    BY <1>9
  <2>2. value(at(id)) = s[at(id)] /\ s[at(id)] = x[p[at(id)]]
    BY <1>3, <1>8, <2>1
  <2>3. QED
    BY <2>1, <2>2
<1>12. QED
  BY <1>8, <1>10, <1>11 DEF Finds

\* A part whose value can be read, and whose implicit part is what the chain takes.
GoodPart(id, part) == Fits(id, part.extra) /\ part.additional = ImplicitOf(id, part.extra)

\* What is joined depends on the values of the pipeline's extensions only.
LEMMA JoinedSame ==
  ASSUME NEW p \in Seq(Extension), NEW x, NEW y, \A id \in Range(p) : x[id] = y[id]
  PROVE  Joined(p, x) = Joined(p, y)
<1>1. DOMAIN p = 1 .. Len(p) /\ \A i \in DOMAIN p : p[i] \in Range(p)
  BY LenProperties DEF Range
<1>2. [i \in DOMAIN p |-> x[p[i]]] = [i \in DOMAIN p |-> y[p[i]]]
  BY <1>1
<1>3. QED
  BY <1>2 DEF Joined

\* What is joined for the signature is what the chain joins.
LEMMA JoinedAsFound ==
  ASSUME NEW p \in Seq(Extension), NEW parts, NEW x,
         \A id \in Range(p) : x[id] = parts[id].extra /\ GoodPart(id, parts[id])
  PROVE  /\ Extras(p, parts) = Joined(p, x) /\ Extras(p, parts) \in Values
         /\ Additionals(p, parts) = Joined(p, [id \in Range(p) |-> ImplicitOf(id, x[id])])
<1>1. Extras(p, parts) = Joined(p, x)
  <2> DEFINE y == [id \in Range(p) |-> parts[id].extra]
  <2>1. \A id \in Range(p) : y[id] = x[id]
    OBVIOUS
  <2>2. Extras(p, parts) = Joined(p, y)
    BY DEF Extras
  <2> HIDE DEF y
  <2>3. QED
    BY <2>1, <2>2, JoinedSame
<1>2. Additionals(p, parts) = Joined(p, [id \in Range(p) |-> ImplicitOf(id, x[id])])
  <2>1. [id \in Range(p) |-> parts[id].additional] = [id \in Range(p) |-> ImplicitOf(id, x[id])]
    BY DEF GoodPart
  <2>2. QED
    BY <2>1 DEF Additionals
<1>3. \A id \in Range(p) : x[id] \in Values
  BY DEF GoodPart, Fits, Values
<1>4. QED
  BY <1>1, <1>2, <1>3, JoinedOf

\* What TxAssumption says of a pipeline.
LEMMA PipelineFacts ==
  ASSUME NEW m \in Metadatas, NEW v \in 1 .. Len(m.versions)
  PROVE  /\ m.versions \in Seq(Seq(Extension)) /\ Len(m.versions) \in Nat /\ 1 <= Len(m.versions)
         /\ DOMAIN m.versions = 1 .. Len(m.versions)
         /\ m.versions[v] \in Seq(Extension) /\ IsInjective(m.versions[v])
         /\ Range(m.versions[v]) \subseteq Extensions(m)
         /\ m.number # 16 => v = 1
<1>1. m.versions \in Seq(Seq(Extension)) /\ m.versions # <<>>
      /\ (\A w \in DOMAIN m.versions : IsInjective(m.versions[w]))
      /\ (m.number # 16 => Len(m.versions) = 1)
  BY TxAssumption
<1> DEFINE vs == m.versions
<1> HIDE DEF vs
<1>2. vs \in Seq(Seq(Extension)) /\ vs # <<>>
  BY <1>1 DEF vs
<1>3. Len(vs) \in Nat /\ 1 <= Len(vs) /\ DOMAIN vs = 1 .. Len(vs)
      /\ \A w \in 1 .. Len(vs) : vs[w] \in Seq(Extension)
  BY <1>2, LenProperties, EmptySeq
<1>4. QED
  BY <1>1, <1>3 DEF vs, Extensions

\* A signed transaction decodes to its parts, and its signature covers them.
LEMMA SignedCovers ==
  ASSUME NEW m \in Metadatas, NEW parts, Signature \notin Range(m.versions[1]),
         \A id \in Range(m.versions[1]) : GoodPart(id, parts[id])
  PROVE  LET tx == Signed(m.versions[1], parts)
         IN  /\ Covers(m, tx)
             /\ Decoded(m, tx).extra = [id \in Range(m.versions[1]) |-> parts[id].extra]
<1> DEFINE p == m.versions[1]
           tx == Signed(p, parts)
           x == [id \in Range(p) |-> parts[id].extra]
           at == PlaceOf(Signature, p)
<1>0. 1 \in 1 .. Len(m.versions)
  BY TxAssumption, LenProperties, EmptySeq
<1>1. p \in Seq(Extension) /\ IsInjective(p)
  BY <1>0, PipelineFacts
<1>2. \A id \in Range(p) : x[id] = parts[id].extra /\ GoodPart(id, parts[id])
  OBVIOUS
<1>3. \A id \in Range(p) : Fits(id, x[id])
  BY <1>2 DEF GoodPart
<1>4. /\ tx.kind = "signed" /\ tx.version = 0
      /\ tx.over = Call \o Extras(p, parts) \o Additionals(p, parts)
      /\ tx.body = Extras(p, parts) \o Call
      /\ DecodedPipeline(m, tx) = p
      /\ m.versions[tx.version + 1] = p
  BY DEF Signed, DecodedPipeline
<1>5. x = [id \in Range(p) |-> x[id]]
  OBVIOUS
<1>s. Signature \notin Range(p)
  OBVIOUS
<1> HIDE DEF p, tx, x
<1>6. /\ Extras(p, parts) = Joined(p, x)
      /\ Additionals(p, parts) = Joined(p, [id \in Range(p) |-> ImplicitOf(id, x[id])])
  BY <1>1, <1>2, JoinedAsFound
<1>7. Decoded(m, tx).extra = x /\ Decoded(m, tx).callData = Call
  <2>1. Carries(m, tx, p, x)
    BY <1>1, <1>3, <1>4, <1>6 DEF Carries
  <2>2. Finds(m, tx, p, x)
    BY <2>1, DecodesWhatIsSent
  <2>3. QED
    BY <1>5, <2>2 DEF Finds
<1>8. at = 0
  BY <1>1, <1>s, PlaceInPipeline
<1>9. SubSeq(p, at + 1, Len(p)) = p
  BY <1>1, <1>8, SubSeqFull
<1>10. Call \in Values /\ <<>> \o Call = Call
  <2>1. Call \in Seq(Atom)
    BY CallIsData
  <2>2. QED
    BY <2>1, ConcatEmptySeq DEF Values
<1> HIDE DEF at
<1>11. Covers(m, tx)
  BY <1>4, <1>6, <1>7, <1>9, <1>10 DEF Covers, at
<1>12. QED
  BY <1>7, <1>11 DEF p, tx, x

\* So does a general one, whose signature is one of its extensions.
LEMMA GeneralCovers ==
  ASSUME NEW m \in Metadatas, NEW v \in 1 .. Len(m.versions), NEW parts,
         Signature \in Range(m.versions[v]),
         \A id \in Range(m.versions[v]) \ {Signature} : GoodPart(id, parts[id])
  PROVE  LET tx == General(m.versions[v], v - 1, parts)
         IN  /\ Covers(m, tx)
             /\ Decoded(m, tx).extra =
                  [id \in Range(m.versions[v]) |->
                      IF id = Signature THEN <<"Signed", "signature">> ELSE parts[id].extra]
<1> DEFINE p == m.versions[v]
           tx == General(p, v - 1, parts)
           x == [id \in Range(p) |->
                    IF id = Signature THEN <<"Signed", "signature">> ELSE parts[id].extra]
           at == PlaceOf(Signature, p)
           before == SubSeq(p, 1, at - 1)
           after  == SubSeq(p, at + 1, Len(p))
<1>1. p \in Seq(Extension) /\ IsInjective(p) /\ Len(m.versions) \in Nat
      /\ (m.number # 16 => v = 1) /\ v \in Nat /\ v - 1 + 1 = v
  BY PipelineFacts
<1>2. Signature \in Range(p)
  OBVIOUS
<1>3. \A id \in Range(p) \ {Signature} : x[id] = parts[id].extra /\ GoodPart(id, parts[id])
  OBVIOUS
<1>4. x[Signature] = <<"Signed", "signature">>
  BY <1>2
<1>5. /\ tx.kind = "general" /\ tx.version = v - 1
      /\ tx.over = <<"version">> \o Call \o Extras(after, parts) \o Additionals(after, parts)
      /\ tx.body = Extras(before, parts) \o <<"Signed", "signature">> \o Extras(after, parts) \o Call
      /\ m.versions[tx.version + 1] = p
  BY <1>1 DEF General
<1>6. DecodedPipeline(m, tx) = p
  BY <1>1, <1>5 DEF DecodedPipeline
<1>7. x = [id \in Range(p) |-> x[id]]
  OBVIOUS
<1> HIDE DEF p, tx, x
<1>8. Fits(Signature, x[Signature]) /\ x[Signature] \in Values
  <2>1. x[Signature] \in Seq(Atom) /\ Len(x[Signature]) = 2
    <3>1. "Signed" \in Atom /\ "signature" \in Atom
      BY DEF Atom
    <3>2. QED
      BY <1>4, <3>1
  <2>2. \A bytes : Length(Signature, bytes) = 2
    BY DEF Length, Signature
  <2>3. QED
    BY <2>1, <2>2 DEF Fits, Values
<1>9. \A id \in Range(p) : Fits(id, x[id]) /\ x[id] \in Values
  BY <1>3, <1>8 DEF GoodPart, Fits, Values
<1>10. at \in 1 .. Len(p) /\ p[at] = Signature
  BY <1>1, <1>2, PlaceInPipeline
<1> HIDE DEF at
<1>11. /\ before \in Seq(Extension) /\ Range(before) \subseteq Range(p)
       /\ after \in Seq(Extension) /\ Range(after) \subseteq Range(p)
       /\ Signature \notin Range(before) /\ Signature \notin Range(after)
       /\ Joined(p, x) = (Joined(before, x) \o x[Signature]) \o Joined(after, x)
  BY <1>1, <1>9, <1>10, JoinedAround
<1> HIDE DEF before, after
<1>12. Extras(before, parts) = Joined(before, x)
  <2>1. \A id \in Range(before) : x[id] = parts[id].extra /\ GoodPart(id, parts[id])
    BY <1>3, <1>11
  <2>2. QED
    BY <1>11, <2>1, JoinedAsFound
<1>13. /\ Extras(after, parts) = Joined(after, x)
       /\ Additionals(after, parts)
            = Joined(after, [id \in Range(after) |-> ImplicitOf(id, x[id])])
  <2>1. \A id \in Range(after) : x[id] = parts[id].extra /\ GoodPart(id, parts[id])
    BY <1>3, <1>11
  <2>2. after \in Seq(Extension)
    BY <1>11
  <2>3. QED
    BY <2>1, <2>2, JoinedAsFound
<1>14. tx.body = Joined(p, x) \o Call
  BY <1>4, <1>5, <1>11, <1>12, <1>13
<1>15. Decoded(m, tx).extra = x /\ Decoded(m, tx).callData = Call
  <2>1. Carries(m, tx, p, x)
    BY <1>1, <1>6, <1>9, <1>14 DEF Carries
  <2>2. Finds(m, tx, p, x)
    BY <2>1, DecodesWhatIsSent
  <2>3. QED
    BY <1>7, <2>2 DEF Finds
<1>16. Covers(m, tx)
  BY <1>5, <1>13, <1>15 DEF Covers, at, after
<1>17. QED
  BY <1>15, <1>16 DEF p, tx, x

(***************************************************************************)
(* Transactions: the values of extensions.                                 *)
(***************************************************************************)

\* A concatenation begins with its first part.
LEMMA Begins ==
  ASSUME NEW x \in Values, NEW rest \in Values, NEW i \in 1 .. Len(x)
  PROVE  (x \o rest)[i] = x[i]
<1>1. x \in Seq(Atom) /\ rest \in Seq(Atom) /\ Len(x) \in Nat /\ Len(rest) \in Nat
  BY LenProperties DEF Values
<1>2. i \in 1 .. Len(x) + Len(rest) /\ i <= Len(x)
  BY <1>1
<1>3. \A j \in 1 .. Len(x) + Len(rest) :
         (x \o rest)[j] = IF j <= Len(x) THEN x[j] ELSE rest[j - Len(x)]
  BY <1>1, ConcatProperties
<1>4. QED
  BY <1>2, <1>3

\* What the known extensions, and the others, are encoded with.
LEMMA Atoms ==
  /\ \A a \in Requests : {a.nonce, a.mortality, a.tip, a.asset} \subseteq Atom
  /\ \A id \in DOMAIN KindOf : id \in Atom
  /\ {"one", "zero", "digest", "genesis", "block", "none", "some", "custom", "implicit",
      "transaction_version", "spec_version"} \subseteq Atom
BY DEF Atom

\* An extension of the enhancers is neither the signature nor one of the other kinds.
LEMMA CommonAreKnown ==
  \A id \in CommonExtensions : id \notin DOMAIN KindOf /\ id # Signature
BY TxAssumption DEF CommonExtensions, Signature

\* A value fits if what is behind it does not change how much is read.
LEMMA ShortFit ==
  ASSUME NEW id, NEW x \in Values,
         \A rest \in Values : Length(id, x \o rest) = Len(x)
  PROVE  Fits(id, x)
BY DEF Fits, Values

\* How the decoder and the chain take the extensions that are known.
LEMMA Lengths ==
  /\ \A id \in {"CheckTxVersion", "CheckSpecVersion", "CheckGenesis"} :
        \A bytes : Length(id, bytes) = 0
  /\ \A id \in {"CheckNonce", "CheckMortality", "CheckMetadataHash", "ChargeTransactionPayment"} :
        \A bytes : Length(id, bytes) = 1
  /\ \A bytes : Length("ChargeAssetTxPayment", bytes) = IF bytes[2] = "some" THEN 3 ELSE 2
<1>1. \A id \in {"CheckTxVersion", "CheckSpecVersion", "CheckGenesis"} :
        \A bytes : Length(id, bytes) = 0
  BY DEF Length, Signature
<1>2. \A id \in {"CheckNonce", "CheckMortality", "CheckMetadataHash", "ChargeTransactionPayment"} :
        \A bytes : Length(id, bytes) = 1
  BY DEF Length, Signature
<1>3. \A bytes : Length("ChargeAssetTxPayment", bytes) = IF bytes[2] = "some" THEN 3 ELSE 2
  BY DEF Length, Signature
<1>4. QED
  BY <1>1, <1>2, <1>3

\* What the runtime computes for what is signed but not sent.
LEMMA Implicits ==
  /\ \A extra : ImplicitOf("CheckTxVersion", extra) = <<"transaction_version">>
  /\ \A extra : ImplicitOf("CheckSpecVersion", extra) = <<"spec_version">>
  /\ \A extra : ImplicitOf("CheckGenesis", extra) = <<"genesis">>
  /\ \A extra : ImplicitOf("CheckMetadataHash", extra) =
                    IF extra = <<"one">> THEN <<"one", "digest">> ELSE <<"zero">>
  /\ \A extra : ImplicitOf("CheckMortality", extra) =
                    IF extra = <<"zero">> THEN <<"genesis">> ELSE <<"block">> \o extra
  /\ \A id \in {"CheckNonce", "ChargeTransactionPayment", "ChargeAssetTxPayment"} :
        \A extra : ImplicitOf(id, extra) = <<>>
<1>0. \A id \in CommonExtensions : id \notin DOMAIN KindOf
  BY CommonAreKnown
<1>a. {"CheckTxVersion", "CheckSpecVersion", "CheckGenesis", "CheckMetadataHash",
       "CheckMortality", "CheckNonce", "ChargeTransactionPayment", "ChargeAssetTxPayment"}
      \cap DOMAIN KindOf = {}
  BY <1>0 DEF CommonExtensions
<1>1. \A extra : ImplicitOf("CheckTxVersion", extra) = <<"transaction_version">>
  BY <1>a DEF ImplicitOf
<1>2. \A extra : ImplicitOf("CheckSpecVersion", extra) = <<"spec_version">>
  BY <1>a DEF ImplicitOf
<1>3. \A extra : ImplicitOf("CheckGenesis", extra) = <<"genesis">>
  BY <1>a DEF ImplicitOf
<1>4. \A extra : ImplicitOf("CheckMetadataHash", extra) =
                    IF extra = <<"one">> THEN <<"one", "digest">> ELSE <<"zero">>
  BY <1>a DEF ImplicitOf
<1>5. \A extra : ImplicitOf("CheckMortality", extra) =
                    IF extra = <<"zero">> THEN <<"genesis">> ELSE <<"block">> \o extra
  BY <1>a DEF ImplicitOf
<1>6. \A id \in {"CheckNonce", "ChargeTransactionPayment", "ChargeAssetTxPayment"} :
        \A extra : ImplicitOf(id, extra) = <<>>
  BY <1>a DEF ImplicitOf
<1>7. QED
  BY <1>1, <1>2, <1>3, <1>4, <1>5, <1>6

\* The hash of the metadata, checked, is what the runtime computes.
LEMMA CheckedIsGood == GoodPart("CheckMetadataHash", Checked)
<1>1. Checked.extra = <<"one">> /\ Checked.additional = <<"one", "digest">>
  BY DEF Checked, Part
<1>2. <<"one">> \in Values /\ Len(<<"one">>) = 1
  BY Atoms DEF Values
<1>3. \A bytes : Length("CheckMetadataHash", bytes) = 1
  BY Lengths
<1>4. Fits("CheckMetadataHash", <<"one">>)
  BY <1>2, <1>3, ShortFit
<1>5. ImplicitOf("CheckMetadataHash", <<"one">>) = <<"one", "digest">>
  BY Implicits
<1>6. QED
  BY <1>1, <1>4, <1>5 DEF GoodPart

\* What the enhancers add can be read back, and has the implicit part the runtime computes.
LEMMA KnownIsGood ==
  ASSUME NEW a \in Requests, NEW id \in CommonExtensions
  PROVE  GoodPart(id, KnownExtension(id, a))
<1> DEFINE part == KnownExtension(id, a)
<1>0. id \notin DOMAIN KindOf /\ id # Signature
  BY CommonAreKnown
<1>a. {a.nonce, a.mortality, a.tip, a.asset} \subseteq Atom
  BY Atoms
<1>n. <<>> \in Values /\ Len(<<>>) = 0
  BY DEF Values
<1>o. ASSUME NEW e \in Atom PROVE <<e>> \in Values /\ Len(<<e>>) = 1
  BY DEF Values
<1>1. CASE id \in {"CheckTxVersion", "CheckSpecVersion", "CheckGenesis"}
  <2>1. part.extra = <<>> /\ part.additional = ImplicitOf(id, <<>>)
    BY <1>1, Implicits DEF KnownExtension, Part
  <2>2. \A bytes : Length(id, bytes) = 0
    BY <1>1, Lengths
  <2>3. Fits(id, <<>>)
    BY <1>n, <2>2, ShortFit
  <2>4. QED
    BY <2>1, <2>3 DEF GoodPart
<1>2. CASE id \in {"CheckNonce", "ChargeTransactionPayment"}
  <2>1. PICK e \in Atom : part = Part(<<e>>, <<>>)
    BY <1>2, <1>a DEF KnownExtension
  <2>2. part.extra = <<e>> /\ part.additional = <<>>
    BY <2>1 DEF Part
  <2>3. ImplicitOf(id, <<e>>) = <<>>
    BY <1>0, <1>2, Implicits
  <2>4. \A bytes : Length(id, bytes) = 1
    BY <1>2, Lengths
  <2>5. Fits(id, <<e>>)
    BY <1>o, <2>4, ShortFit
  <2>6. QED
    BY <2>2, <2>3, <2>5 DEF GoodPart
<1>3. CASE id = "CheckMortality"
  <2>1. \A bytes : Length(id, bytes) = 1
    BY <1>3, Lengths
  <2>2. CASE a.mortality = "immortal"
    <3>1. part.extra = <<"zero">> /\ part.additional = <<"genesis">>
      BY <1>3, <2>2 DEF KnownExtension, Part
    <3>2. ImplicitOf(id, <<"zero">>) = <<"genesis">>
      BY <1>3, Implicits
    <3>3. Fits(id, <<"zero">>)
      BY <1>o, <2>1, Atoms, ShortFit
    <3>4. QED
      BY <3>1, <3>2, <3>3 DEF GoodPart
  <2>3. CASE a.mortality # "immortal"
    <3> DEFINE e == a.mortality
    <3>1. e # "zero" /\ e \in Atom
      BY <1>a, <2>3, TxAssumption
    <3>2. part.extra = <<e>> /\ part.additional = <<"block", e>>
      BY <1>3, <2>3 DEF KnownExtension, Part
    <3> HIDE DEF e
    <3>3. <<"block">> \o <<e>> = <<"block", e>>
      BY Glued
    <3>4. <<e>> # <<"zero">>
      BY <3>1
    <3>5. ImplicitOf(id, <<e>>) = <<"block", e>>
      BY <1>3, <3>3, <3>4, Implicits
    <3>6. Fits(id, <<e>>)
      BY <1>o, <2>1, <3>1, ShortFit
    <3>7. QED
      BY <3>2, <3>5, <3>6 DEF GoodPart
  <2>4. QED
    BY <2>2, <2>3
<1>4. CASE id = "CheckMetadataHash"
  <2>1. part.extra = <<"zero">> /\ part.additional = <<"zero">>
    BY <1>4 DEF KnownExtension, Part
  <2>2. ImplicitOf(id, <<"zero">>) = <<"zero">>
    <3>1. <<"zero">> # <<"one">>
      OBVIOUS
    <3>2. QED
      BY <1>4, <3>1, Implicits
  <2>3. \A bytes : Length(id, bytes) = 1
    BY <1>4, Lengths
  <2>4. Fits(id, <<"zero">>)
    BY <1>o, <2>3, Atoms, ShortFit
  <2>5. QED
    BY <2>1, <2>2, <2>4 DEF GoodPart
<1>5. CASE id = "ChargeAssetTxPayment"
  <2>1. \A bytes : Length(id, bytes) = IF bytes[2] = "some" THEN 3 ELSE 2
    BY <1>5, Lengths
  <2>2. \A extra : ImplicitOf(id, extra) = <<>>
    BY <1>0, <1>5, Implicits
  <2>3. CASE a.asset = "none"
    <3> DEFINE x == <<a.tip, "none">>
    <3>1. <<a.tip>> \o <<"none">> = x
      BY Glued
    <3>2. part.extra = x /\ part.additional = <<>>
      BY <1>5, <2>3, <3>1 DEF KnownExtension, Part
    <3>3. x \in Values /\ Len(x) = 2 /\ x[2] = "none"
      BY <1>a, Atoms DEF Values
    <3> HIDE DEF x
    <3>4. ASSUME NEW rest \in Values PROVE Length(id, x \o rest) = Len(x)
      <4>0. 2 \in 1 .. Len(x)
        BY <3>3
      <4>1. (x \o rest)[2] = x[2]
        BY <3>3, <4>0, Begins
      <4>2. QED
        BY <2>1, <3>3, <4>1
    <3>5. Fits(id, x)
      BY <3>3, <3>4, ShortFit
    <3>6. QED
      BY <2>2, <3>2, <3>5 DEF GoodPart
  <2>4. CASE a.asset # "none"
    <3> DEFINE x == <<a.tip, "some", a.asset>>
    <3>1. <<a.tip>> \o <<"some", a.asset>> = x
      BY Glued
    <3>2. part.extra = x /\ part.additional = <<>>
      BY <1>5, <2>4, <3>1 DEF KnownExtension, Part
    <3>3. x \in Values /\ Len(x) = 3 /\ x[2] = "some"
      BY <1>a, Atoms DEF Values
    <3> HIDE DEF x
    <3>4. ASSUME NEW rest \in Values PROVE Length(id, x \o rest) = Len(x)
      <4>0. 2 \in 1 .. Len(x)
        BY <3>3
      <4>1. (x \o rest)[2] = x[2]
        BY <3>3, <4>0, Begins
      <4>2. QED
        BY <2>1, <3>3, <4>1
    <3>5. Fits(id, x)
      BY <3>3, <3>4, ShortFit
    <3>6. QED
      BY <2>2, <3>2, <3>5 DEF GoodPart
  <2>5. QED
    BY <2>3, <2>4
<1>6. QED
  BY <1>1, <1>2, <1>3, <1>4, <1>5 DEF CommonExtensions

\* What the decoder and the runtime make of an extension that no enhancer knows.
LEMMA Kinds ==
  ASSUME NEW id \in DOMAIN KindOf
  PROVE  /\ id \notin CommonExtensions /\ id # Signature /\ id # "none"
         /\ KindOf[id] \in {"void", "option", "required"}
         /\ \A bytes : Length(id, bytes) =
              IF KindOf[id] = "void" THEN 0
              ELSE IF KindOf[id] = "required" THEN 1
              ELSE IF bytes[1] = "some" THEN 2 ELSE 1
         /\ \A extra : ImplicitOf(id, extra) =
              IF KindOf[id] = "void" \/ extra = <<"none">> THEN <<>> ELSE <<"implicit">>
<1>1. /\ id \notin CommonExtensions /\ id # Signature /\ id # "none"
      /\ KindOf[id] \in {"void", "option", "required"}
  BY TxAssumption
<1>2. QED
  BY <1>1 DEF Length, ImplicitOf, CommonExtensions

\* An extension that needs no value can be left empty.
LEMMA EmptyIsGood ==
  ASSUME NEW id \in DOMAIN KindOf, KindOf[id] # "required"
  PROVE  GoodPart(id, Empty(id)) /\ (KindOf[id] = "option" => Empty(id).extra = <<"none">>)
<1>1. CASE KindOf[id] = "option"
  <2>1. Empty(id).extra = <<"none">> /\ Empty(id).additional = <<>>
    BY <1>1 DEF Empty, Part
  <2> DEFINE x == <<"none">>
  <2>2. x \in Values /\ Len(x) = 1 /\ x[1] = "none"
    BY Atoms DEF Values
  <2>3. ImplicitOf(id, x) = <<>>
    BY Kinds
  <2> HIDE DEF x
  <2>4. ASSUME NEW rest \in Values PROVE Length(id, x \o rest) = Len(x)
    <3>0. 1 \in 1 .. Len(x)
      BY <2>2
    <3>1. (x \o rest)[1] = x[1]
      BY <2>2, <3>0, Begins
    <3>2. QED
      BY <1>1, <2>2, <3>1, Kinds
  <2>5. Fits(id, x)
    BY <2>2, <2>4, ShortFit
  <2>6. QED
    BY <2>1, <2>3, <2>5 DEF GoodPart, x
<1>2. CASE KindOf[id] = "void"
  <2>1. Empty(id).extra = <<>> /\ Empty(id).additional = <<>>
    BY <1>2 DEF Empty, Part
  <2>2. <<>> \in Values /\ Len(<<>>) = 0
    BY DEF Values
  <2>3. \A bytes : Length(id, bytes) = 0
    BY <1>2, Kinds
  <2>4. Fits(id, <<>>)
    BY <2>2, <2>3, ShortFit
  <2>5. ImplicitOf(id, <<>>) = <<>>
    BY <1>2, Kinds
  <2>6. QED
    BY <1>2, <2>1, <2>4, <2>5 DEF GoodPart
<1>3. QED
  BY <1>1, <1>2, Kinds

\* A value the user gives can be read back.
LEMMA CustomIsGood ==
  ASSUME NEW id \in DOMAIN KindOf
  PROVE  /\ GoodPart(id, Custom(id))
         /\ KindOf[id] # "void" => Custom(id).extra \notin {<<>>, <<"none">>}
<1>0. id \in Atom /\ id # "none"
  BY Atoms, Kinds
<1>1. CASE KindOf[id] = "option"
  <2> DEFINE x == <<"some", id>>
  <2>1. Custom(id).extra = x /\ Custom(id).additional = <<"implicit">>
    BY <1>1 DEF Custom, Part
  <2>2. x \in Values /\ Len(x) = 2 /\ x[1] = "some" /\ x # <<"none">> /\ x # <<>>
    BY <1>0, Atoms DEF Values
  <2> HIDE DEF x
  <2>3. ImplicitOf(id, x) = <<"implicit">>
    BY <1>1, <2>2, Kinds
  <2>4. ASSUME NEW rest \in Values PROVE Length(id, x \o rest) = Len(x)
    <3>0. 1 \in 1 .. Len(x)
      BY <2>2
    <3>1. (x \o rest)[1] = x[1]
      BY <2>2, <3>0, Begins
    <3>2. QED
      BY <1>1, <2>2, <3>1, Kinds
  <2>5. Fits(id, x)
    BY <2>2, <2>4, ShortFit
  <2>6. QED
    BY <2>1, <2>2, <2>3, <2>5 DEF GoodPart
<1>2. CASE KindOf[id] = "required"
  <2> DEFINE x == <<id>>
  <2>1. Custom(id).extra = x /\ Custom(id).additional = <<"implicit">>
    BY <1>2 DEF Custom, Part
  <2>2. x \in Values /\ Len(x) = 1 /\ x # <<"none">> /\ x # <<>>
    BY <1>0 DEF Values
  <2> HIDE DEF x
  <2>3. ImplicitOf(id, x) = <<"implicit">>
    BY <1>2, <2>2, Kinds
  <2>4. \A bytes : Length(id, bytes) = 1
    BY <1>2, Kinds
  <2>5. Fits(id, x)
    BY <2>2, <2>4, ShortFit
  <2>6. QED
    BY <2>1, <2>2, <2>3, <2>5 DEF GoodPart
<1>3. CASE KindOf[id] = "void"
  <2>1. Custom(id).extra = <<>> /\ Custom(id).additional = <<>>
    BY <1>3 DEF Custom, Part
  <2>2. <<>> \in Values /\ Len(<<>>) = 0
    BY DEF Values
  <2>3. \A bytes : Length(id, bytes) = 0
    BY <1>3, Kinds
  <2>4. Fits(id, <<>>)
    BY <2>2, <2>3, ShortFit
  <2>5. ImplicitOf(id, <<>>) = <<>>
    BY <1>3, Kinds
  <2>6. QED
    BY <1>3, <2>1, <2>4, <2>5 DEF GoodPart
<1>4. QED
  BY <1>1, <1>2, <1>3, Kinds

(***************************************************************************)
(* Transactions: what is asked for, and the JSON payload.                  *)
(***************************************************************************)

\* What was found for the extensions is what the enhancers add.
GoodPayload(a, m, parts) ==
  /\ DOMAIN parts \subseteq Extensions(m) \ {Signature}
  /\ \A id \in DOMAIN parts \cap CommonExtensions :
        parts[id] = IF id = "CheckMetadataHash" /\ a.digest THEN Checked ELSE KnownExtension(id, a)
  /\ \A id \in DOMAIN parts \ CommonExtensions :
        /\ id \in DOMAIN KindOf
        /\ parts[id] = IF id \in a.custom THEN Custom(id) ELSE Empty(id)
        /\ id \in a.custom \/ KindOf[id] # "required"

\* What AskedIsSent says of the value of one extension.
Asked(a, id, x) ==
  /\ id = "CheckNonce" => x = <<a.nonce>>
  /\ id = "ChargeTransactionPayment" => x = <<a.tip>>
  /\ id = "ChargeAssetTxPayment" =>
        x[1] = a.tip /\ (a.asset # "none" => a.asset \in Range(x))
  /\ id = "CheckMortality" =>
        x = <<IF a.mortality = "immortal" THEN "zero" ELSE a.mortality>>
  /\ id \in a.custom \cap DOMAIN KindOf /\ KindOf[id] # "void" => x # <<"none">>
  /\ id = "CheckMetadataHash" /\ a.digest => x = <<"one">>

\* What an enhancer adds is what the options ask for.
LEMMA KnownIsAsked ==
  ASSUME NEW a \in Requests, NEW id \in CommonExtensions, ~(id = "CheckMetadataHash" /\ a.digest)
  PROVE  Asked(a, id, KnownExtension(id, a).extra)
<1>0. id \notin DOMAIN KindOf
  BY CommonAreKnown
<1> DEFINE x == KnownExtension(id, a).extra
<1>1. id = "CheckNonce" => x = <<a.nonce>>
  BY DEF KnownExtension, Part
<1>2. id = "ChargeTransactionPayment" => x = <<a.tip>>
  BY DEF KnownExtension, Part
<1>3. ASSUME id = "ChargeAssetTxPayment"
      PROVE  x[1] = a.tip /\ (a.asset # "none" => a.asset \in Range(x))
  <2>1. x = <<a.tip>> \o (IF a.asset = "none" THEN <<"none">> ELSE <<"some", a.asset>>)
    BY <1>3 DEF KnownExtension, Part
  <2>2. CASE a.asset = "none"
    <3>1. x = <<a.tip, "none">>
      BY <2>1, <2>2, Glued
    <3>2. QED
      BY <2>2, <3>1
  <2>3. CASE a.asset # "none"
    <3>0. <<a.tip>> \o <<"some", a.asset>> = <<a.tip, "some", a.asset>>
      BY Glued
    <3>1. x = <<a.tip, "some", a.asset>>
      BY <2>1, <2>3, <3>0
    <3>2. DOMAIN x = 1 .. 3 /\ x[1] = a.tip /\ x[3] = a.asset
      BY <3>1
    <3>3. QED
      BY <3>2 DEF Range
  <2>4. QED
    BY <2>2, <2>3
<1>4. id = "CheckMortality" => x = <<IF a.mortality = "immortal" THEN "zero" ELSE a.mortality>>
  BY DEF KnownExtension, Part
<1>5. QED
  BY <1>0, <1>1, <1>2, <1>3, <1>4 DEF Asked

\* So is the check of the metadata's hash.
LEMMA CheckedIsAsked ==
  ASSUME NEW a \in Requests
  PROVE  Asked(a, "CheckMetadataHash", Checked.extra)
<1>1. "CheckMetadataHash" \notin DOMAIN KindOf
  BY CommonAreKnown DEF CommonExtensions
<1>2. QED
  BY <1>1 DEF Asked, Checked, Part

\* What is in the payload can be read, is what the chain takes and what was asked for.
LEMMA PayloadParts ==
  ASSUME NEW a \in Requests, NEW m, NEW parts, GoodPayload(a, m, parts), NEW id \in DOMAIN parts
  PROVE  GoodPart(id, parts[id]) /\ Asked(a, id, parts[id].extra)
<1>1. CASE id \in CommonExtensions
  <2>1. parts[id] = IF id = "CheckMetadataHash" /\ a.digest THEN Checked ELSE KnownExtension(id, a)
    BY <1>1 DEF GoodPayload
  <2>2. CASE id = "CheckMetadataHash" /\ a.digest
    BY <2>1, <2>2, CheckedIsGood, CheckedIsAsked
  <2>3. CASE ~(id = "CheckMetadataHash" /\ a.digest)
    BY <1>1, <2>1, <2>3, KnownIsGood, KnownIsAsked
  <2>4. QED
    BY <2>2, <2>3
<1>2. CASE id \notin CommonExtensions
  <2>1. /\ id \in DOMAIN KindOf
        /\ parts[id] = IF id \in a.custom THEN Custom(id) ELSE Empty(id)
        /\ id \in a.custom \/ KindOf[id] # "required"
    BY <1>2 DEF GoodPayload
  <2>2. GoodPart(id, parts[id])
    BY <2>1, CustomIsGood, EmptyIsGood
  <2>3. id \in a.custom /\ KindOf[id] # "void" => parts[id].extra # <<"none">>
    BY <2>1, CustomIsGood
  <2>4. QED
    BY <1>2, <2>2, <2>3 DEF Asked, CommonExtensions
<1>3. QED
  BY <1>1, <1>2

\* What the fields of the JSON payload mean for a request.
FieldValues(a) ==
  [genesisHash |-> <<"genesis">>, nonce |-> <<a.nonce>>,
   transactionVersion |-> <<"transaction_version">>, specVersion |-> <<"spec_version">>,
   era |-> KnownExtension("CheckMortality", a).extra,
   blockHash |-> KnownExtension("CheckMortality", a).additional,
   tip |-> <<a.tip>>, assetId |-> <<a.asset>>, metadataHash |-> <<"digest">>]

\* The fields it can have.
FieldNames(a) ==
  {k \in DOMAIN FieldValues(a) : /\ k = "assetId" => a.asset # "none"
                                 /\ k = "metadataHash" => a.digest}

\* The fields that an extension gives.
NamesOf(id, a) ==
  {k \in FieldNames(a) :
      \/ id = "CheckGenesis" /\ k = "genesisHash"
      \/ id = "CheckNonce" /\ k = "nonce"
      \/ id = "CheckTxVersion" /\ k = "transactionVersion"
      \/ id = "CheckSpecVersion" /\ k = "specVersion"
      \/ id = "CheckMortality" /\ k \in {"era", "blockHash"}
      \/ id = "ChargeTransactionPayment" /\ k = "tip"
      \/ id = "ChargeAssetTxPayment" /\ k \in {"tip", "assetId"}
      \/ id = "CheckMetadataHash" /\ k = "metadataHash"}

\* A JSON payload with some of these fields.
FieldsOver(S, a) == [k \in S |-> FieldValues(a)[k]]

\* The fields of one extension are what the request means.
LEMMA FieldsGiven ==
  ASSUME NEW a \in Requests, NEW m, NEW parts, GoodPayload(a, m, parts), NEW id \in DOMAIN parts
  PROVE  Fields(id, parts[id]) = FieldsOver(NamesOf(id, a), a)
<1> DEFINE part == parts[id]
           fields == Fields(id, part)
           over == FieldsOver(NamesOf(id, a), a)
<1>0. /\ id \in CommonExtensions =>
            part = IF id = "CheckMetadataHash" /\ a.digest THEN Checked ELSE KnownExtension(id, a)
  BY DEF GoodPayload
<1>n. DOMAIN FieldValues(a) = {"genesisHash", "nonce", "transactionVersion", "specVersion", "era",
                               "blockHash", "tip", "assetId", "metadataHash"}
  BY DEF FieldValues
<1>1. CASE id = "CheckGenesis"
  <2>1. part.additional = <<"genesis">>
    BY <1>0, <1>1 DEF CommonExtensions, KnownExtension, Part
  <2>2. fields = [genesisHash |-> <<"genesis">>]
    BY <1>1, <2>1 DEF Fields
  <2>3. NamesOf(id, a) = {"genesisHash"}
    BY <1>1, <1>n DEF NamesOf, FieldNames
  <2>4. QED
    BY <2>2, <2>3 DEF FieldsOver, FieldValues
<1>2. CASE id = "CheckNonce"
  <2>1. part.extra = <<a.nonce>>
    BY <1>0, <1>2 DEF CommonExtensions, KnownExtension, Part
  <2>2. fields = [nonce |-> <<a.nonce>>]
    BY <1>2, <2>1 DEF Fields
  <2>3. NamesOf(id, a) = {"nonce"}
    BY <1>2, <1>n DEF NamesOf, FieldNames
  <2>4. QED
    BY <2>2, <2>3 DEF FieldsOver, FieldValues
<1>3. CASE id = "CheckTxVersion"
  <2>1. part.additional = <<"transaction_version">>
    BY <1>0, <1>3 DEF CommonExtensions, KnownExtension, Part
  <2>2. fields = [transactionVersion |-> <<"transaction_version">>]
    BY <1>3, <2>1 DEF Fields
  <2>3. NamesOf(id, a) = {"transactionVersion"}
    BY <1>3, <1>n DEF NamesOf, FieldNames
  <2>4. QED
    BY <2>2, <2>3 DEF FieldsOver, FieldValues
<1>4. CASE id = "CheckSpecVersion"
  <2>1. part.additional = <<"spec_version">>
    BY <1>0, <1>4 DEF CommonExtensions, KnownExtension, Part
  <2>2. fields = [specVersion |-> <<"spec_version">>]
    BY <1>4, <2>1 DEF Fields
  <2>3. NamesOf(id, a) = {"specVersion"}
    BY <1>4, <1>n DEF NamesOf, FieldNames
  <2>4. QED
    BY <2>2, <2>3 DEF FieldsOver, FieldValues
<1>5. CASE id = "CheckMortality"
  <2>1. part = KnownExtension("CheckMortality", a)
    BY <1>0, <1>5 DEF CommonExtensions
  <2>2. fields = [era |-> part.extra, blockHash |-> part.additional]
    BY <1>5 DEF Fields
  <2>3. NamesOf(id, a) = {"era", "blockHash"}
    BY <1>5, <1>n DEF NamesOf, FieldNames
  <2>4. QED
    BY <2>1, <2>2, <2>3 DEF FieldsOver, FieldValues
<1>6. CASE id = "ChargeTransactionPayment"
  <2>1. part.extra = <<a.tip>>
    BY <1>0, <1>6 DEF CommonExtensions, KnownExtension, Part
  <2>2. fields = [tip |-> <<a.tip>>]
    BY <1>6, <2>1 DEF Fields
  <2>3. NamesOf(id, a) = {"tip"}
    BY <1>6, <1>n DEF NamesOf, FieldNames
  <2>4. QED
    BY <2>2, <2>3 DEF FieldsOver, FieldValues
<1>7. CASE id = "ChargeAssetTxPayment"
  <2>1. part.extra = <<a.tip>> \o (IF a.asset = "none" THEN <<"none">> ELSE <<"some", a.asset>>)
    BY <1>0, <1>7 DEF CommonExtensions, KnownExtension, Part
  <2>f. fields = IF part.extra[2] = "some"
                 THEN [tip |-> <<part.extra[1]>>, assetId |-> SubSeq(part.extra, 3, 3)]
                 ELSE [tip |-> <<part.extra[1]>>]
    BY <1>7 DEF Fields
  <2>2. CASE a.asset = "none"
    <3>1. part.extra = <<a.tip, "none">>
      BY <2>1, <2>2, Glued
    <3>2. fields = [tip |-> <<a.tip>>]
      BY <2>f, <3>1
    <3>3. NamesOf(id, a) = {"tip"}
      BY <1>7, <1>n, <2>2 DEF NamesOf, FieldNames
    <3>4. QED
      BY <3>2, <3>3 DEF FieldsOver, FieldValues
  <2>3. CASE a.asset # "none"
    <3> DEFINE x == <<a.tip, "some", a.asset>>
    <3>1. part.extra = x
      <4>1. part.extra = <<a.tip>> \o <<"some", a.asset>>
        BY <2>1, <2>3
      <4>2. \A u, v, w : <<u>> \o <<v, w>> = <<u, v, w>>
        BY Glued
      <4> HIDE DEF part
      <4>3. QED
        BY <4>1, <4>2, Zenon
    <3>2. SubSeq(x, 3, 3) = <<a.asset>>
      <4>1. x \in Values /\ Len(x) = 3 /\ x[3] = a.asset
        BY Atoms DEF Values
      <4> HIDE DEF x
      <4>2. /\ SubSeq(x, 3, 3) \in Values /\ Len(SubSeq(x, 3, 3)) = 1
            /\ SubSeq(x, 3, 3)[1] = x[3]
        <5>1. x \in Seq(Atom) /\ 3 \in Int /\ 3 >= 1 /\ 3 <= Len(x)
          BY <4>1 DEF Values
        <5>2. /\ SubSeq(x, 3, 3) \in Seq(Atom)
              /\ Len(SubSeq(x, 3, 3)) = IF 3 <= 3 THEN 3 - 3 + 1 ELSE 0
              /\ \A i \in 1 .. 3 - 3 + 1 : SubSeq(x, 3, 3)[i] = x[3 + i - 1]
          BY <5>1, Piece
        <5>3. QED
          BY <5>2 DEF Values
      <4>3. <<a.asset>> \in Values /\ Len(<<a.asset>>) = 1
        BY Atoms DEF Values
      <4> DEFINE y == SubSeq(x, 3, 3)
                 z == <<a.asset>>
      <4>4. y \in Seq(Atom) /\ z \in Seq(Atom) /\ Len(y) = 1 /\ Len(z) = 1 /\ y[1] = z[1]
        BY <4>1, <4>2, <4>3 DEF Values
      <4> HIDE DEF y, z
      <4>5. y = z
        <5>1. \A i \in 1 .. Len(y) : y[i] = z[i]
          BY <4>4
        <5>2. QED
          BY <4>4, <5>1, SeqEqual
      <4>6. QED
        BY <4>5 DEF y, z
    <3>3. x[1] = a.tip /\ x[2] = "some"
      OBVIOUS
    <3> HIDE DEF x
    <3>4. fields = [tip |-> <<a.tip>>, assetId |-> <<a.asset>>]
      BY <2>f, <3>1, <3>2, <3>3
    <3>5. NamesOf(id, a) = {"tip", "assetId"}
      BY <1>7, <1>n, <2>3 DEF NamesOf, FieldNames
    <3>6. QED
      BY <3>4, <3>5 DEF FieldsOver, FieldValues
  <2>4. QED
    BY <2>2, <2>3
<1>8. CASE id = "CheckMetadataHash"
  <2>1. CASE a.digest
    <3>1. part.extra = <<"one">> /\ part.additional = <<"one", "digest">>
      BY <1>0, <1>8, <2>1 DEF CommonExtensions, Checked, Part
    <3>2. Tail(<<"one", "digest">>) = <<"digest">>
      OBVIOUS
    <3>3. fields = [metadataHash |-> <<"digest">>]
      BY <1>8, <3>1, <3>2 DEF Fields
    <3>4. NamesOf(id, a) = {"metadataHash"}
      BY <1>8, <1>n, <2>1 DEF NamesOf, FieldNames
    <3>5. QED
      BY <3>3, <3>4 DEF FieldsOver, FieldValues
  <2>2. CASE ~a.digest
    <3>1. part.extra = <<"zero">>
      BY <1>0, <1>8, <2>2 DEF CommonExtensions, KnownExtension, Part
    <3>2. part.extra # <<"one">>
      BY <3>1
    <3>3. fields = <<>>
      BY <1>8, <3>2 DEF Fields
    <3>4. NamesOf(id, a) = {}
      BY <1>8, <1>n, <2>2 DEF NamesOf, FieldNames
    <3>5. QED
      BY <3>3, <3>4 DEF FieldsOver
  <2>3. QED
    BY <2>1, <2>2
<1>9. CASE id \notin CommonExtensions
  <2>1. fields = <<>>
    BY <1>9 DEF Fields, CommonExtensions
  <2>2. NamesOf(id, a) = {}
    BY <1>9 DEF NamesOf, CommonExtensions
  <2>3. QED
    BY <2>1, <2>2 DEF FieldsOver
<1>10. QED
  BY <1>1, <1>2, <1>3, <1>4, <1>5, <1>6, <1>7, <1>8, <1>9 DEF CommonExtensions

\* The JSON has the fields of each extension, and none that is not known.
Gathered(f, p, a) ==
  \E S \in SUBSET FieldNames(a) :
     /\ f = FieldsOver(S, a)
     /\ \A id \in Range(p) : NamesOf(id, a) \subseteq S

\* Fields of several extensions agree.
LEMMA FieldsJoin ==
  ASSUME NEW a, NEW S, NEW T
  PROVE  OrElse(FieldsOver(S, a), FieldsOver(T, a)) = FieldsOver(S \cup T, a)
BY DEF OrElse, FieldsOver

\* The JSON of a pipeline has the fields of each of its extensions.
LEMMA JsonGathers ==
  ASSUME NEW a \in Requests, NEW m \in Metadatas, NEW parts, GoodPayload(a, m, parts),
         Json(m, parts) # Failed
  PROVE  Gathered(Json(m, parts).fields, m.versions[1], a)
<1> DEFINE p == m.versions[1]
           n == Len(p)
           V == {FieldsOver(S, a) : S \in SUBSET FieldNames(a)}
           With(v, i) == OrElse(Fields(p[i], parts[p[i]]), v)
           Is(g) == g = [d \in SUBSET (1 .. n) |->
                           IF d = {} THEN <<>> ELSE With(g[d \ {Max(d)}], Max(d))]
           it == CHOOSE g : Is(g)
<1>1. 1 \in 1 .. Len(m.versions)
  BY TxAssumption, LenProperties, EmptySeq
<1>2. p \in Seq(Extension)
  BY <1>1, PipelineFacts
<1>3. n \in Nat /\ DOMAIN p = 1 .. n
  BY <1>2, LenProperties
<1>4. Range(p) \subseteq DOMAIN parts
  BY DEF Json
<1>5. Json(m, parts).fields = it[1 .. n]
  BY <1>3 DEF Json, FoldLeft, MapThenFoldSet
<1>6. \A i \in 1 .. n : p[i] \in Range(p) /\ p[i] \in DOMAIN parts
  BY <1>3, <1>4 DEF Range
<1>7. \A i \in 1 .. n : Fields(p[i], parts[p[i]]) = FieldsOver(NamesOf(p[i], a), a)
  BY <1>6, FieldsGiven
<1>8. \A id : NamesOf(id, a) \subseteq FieldNames(a)
  BY DEF NamesOf
<1>9. <<>> \in V
  <2>1. FieldsOver({}, a) = <<>>
    BY DEF FieldsOver
  <2>2. QED
    BY <2>1
<1>10. \A i \in 1 .. n : \A S \in SUBSET FieldNames(a) :
          With(FieldsOver(S, a), i) = FieldsOver(NamesOf(p[i], a) \cup S, a)
  BY <1>7, FieldsJoin
<1>11. ASSUME NEW i \in 1 .. n, NEW v \in V PROVE With(v, i) \in V
  <2>1. PICK S \in SUBSET FieldNames(a) : v = FieldsOver(S, a)
    OBVIOUS
  <2>2. With(v, i) = FieldsOver(NamesOf(p[i], a) \cup S, a)
    BY <1>10, <2>1
  <2>3. NamesOf(p[i], a) \cup S \in SUBSET FieldNames(a)
    BY <1>8
  <2> HIDE DEF With
  <2>4. QED
    BY <2>2, <2>3
<1>12. IsFiniteSet(1 .. n) /\ 1 .. n \subseteq Int
  <2>1. n \in Int
    BY <1>3
  <2> HIDE DEF n
  <2>2. IsFiniteSet(1 .. n)
    BY <2>1, FS_Interval
  <2>3. QED
    BY <2>1, <2>2
<1>13. \A d \in SUBSET (1 .. n) : d # {} => Max(d) \in d /\ \A c \in d : c <= Max(d)
  <2>1. \A d \in SUBSET (1 .. n) : IsFiniteSet(d) /\ d \subseteq Int
    BY <1>12, FS_Subset
  <2>2. QED
    BY <2>1, MaxIsHighest
<1> HIDE DEF n, p, With, V
<1>14. \E g : Is(g)
  <2> DEFINE G == [i \in 1 .. n |-> [v \in V |-> With(v, i)]]
  <2>1. \A i \in 1 .. n : \A v \in V : G[i][v] = With(v, i)
    OBVIOUS
  <2> HIDE DEF G
  <2>2. \A i \in 1 .. n : \A v \in V : G[i][v] \in V
    BY <1>11, <2>1
  <2>3. Applicable(1 .. n, V, <<>>, G)
    BY <1>9, <1>12, <2>2 DEF Applicable
  <2>4. PICK g \in [SUBSET (1 .. n) -> V] : FoldsUp(g, 1 .. n, <<>>, G)
    BY <2>3, FoldExists
  <2>5. \A d \in SUBSET (1 .. n) :
           g[d] = IF d = {} THEN <<>> ELSE With(g[d \ {Max(d)}], Max(d))
    <3> SUFFICES ASSUME NEW d \in SUBSET (1 .. n)
                 PROVE  g[d] = IF d = {} THEN <<>> ELSE With(g[d \ {Max(d)}], Max(d))
      OBVIOUS
    <3>1. g[d] = IF d = {} THEN <<>> ELSE G[Max(d)][g[d \ {Max(d)}]]
      BY <2>4 DEF FoldsUp
    <3>2. g[d \ {Max(d)}] \in V
      OBVIOUS
    <3>3. d # {} => Max(d) \in 1 .. n
      BY <1>13
    <3>4. QED
      BY <2>1, <3>1, <3>2, <3>3
  <2>6. g = [d \in SUBSET (1 .. n) |-> g[d]]
    OBVIOUS
  <2>7. Is(g)
    BY <2>5, <2>6, Zenon
  <2>8. QED
    BY <2>7
<1>15. \A d \in SUBSET (1 .. n) :
          it[d] = IF d = {} THEN <<>> ELSE With(it[d \ {Max(d)}], Max(d))
  <2>1. Is(it)
    BY <1>14
  <2> HIDE DEF it
  <2>2. QED
    BY <2>1
<1> HIDE DEF it
<1> DEFINE Has(i) == \E S \in SUBSET FieldNames(a) :
                        /\ it[1 .. i] = FieldsOver(S, a)
                        /\ \A j \in 1 .. i : NamesOf(p[j], a) \subseteq S
           T == {i \in Nat : i \in 0 .. n => Has(i)}
<1>16. 0 \in T
  <2>1. 1 .. 0 = {} /\ 1 .. 0 \in SUBSET (1 .. n)
    BY <1>3
  <2>2. it[1 .. 0] = <<>>
    BY <1>15, <2>1
  <2>3. FieldsOver({}, a) = <<>>
    BY DEF FieldsOver
  <2>4. Has(0)
    BY <2>1, <2>2, <2>3
  <2>5. QED
    BY <2>4
<1>17. ASSUME NEW i \in Nat, i \in T PROVE i + 1 \in T
  <2> DEFINE k == i + 1
             d == 1 .. k
  <2> SUFFICES ASSUME k \in 0 .. n PROVE Has(k)
    OBVIOUS
  <2>1. k \in 1 .. n /\ i \in 0 .. n /\ k \in Int /\ d \in SUBSET (1 .. n) /\ d # {} /\ k \in d
    BY <1>3
  <2>2. Max(d) \in d /\ k <= Max(d)
    BY <1>13, <2>1
  <2>3. Max(d) = k
    BY <2>1, <2>2
  <2>4. d \ {k} = 1 .. i
    BY <2>1
  <2>5. it[d] = With(it[1 .. i], k)
    BY <1>15, <2>1, <2>3, <2>4
  <2>6. Has(i)
    BY <1>17, <2>1
  <2>7. PICK S \in SUBSET FieldNames(a) :
               /\ it[1 .. i] = FieldsOver(S, a)
               /\ \A j \in 1 .. i : NamesOf(p[j], a) \subseteq S
    BY <2>6
  <2> DEFINE R == NamesOf(p[k], a) \cup S
  <2>8. it[d] = FieldsOver(R, a)
    BY <1>10, <2>1, <2>5, <2>7
  <2>9. R \in SUBSET FieldNames(a)
    BY <1>8
  <2>10. \A j \in 1 .. k : j \in 1 .. i \/ j = k
    BY <2>1
  <2>11. \A j \in 1 .. k : NamesOf(p[j], a) \subseteq R
    BY <2>7, <2>10
  <2> HIDE DEF R
  <2>12. QED
    BY <2>8, <2>9, <2>11
<1> HIDE DEF T
<1>18. Nat \subseteq T
  BY <1>16, <1>17, InductionOverNat
<1>19. Has(n)
  <2>1. n \in T /\ n \in 0 .. n
    BY <1>3, <1>18
  <2>2. QED
    BY <2>1 DEF T
<1>20. PICK S \in SUBSET FieldNames(a) :
               /\ it[1 .. n] = FieldsOver(S, a)
               /\ \A j \in 1 .. n : NamesOf(p[j], a) \subseteq S
  BY <1>19
<1>21. \A id \in Range(p) : NamesOf(id, a) \subseteq S
  BY <1>3, <1>20 DEF Range
<1>22. QED
  BY <1>5, <1>20, <1>21 DEF Gathered, p

\* What the wallet builds anew is what was in the payload; the metadata may be checked.
LEMMA RebuiltIsPart ==
  ASSUME NEW a \in Requests, NEW m \in Metadatas, NEW parts, GoodPayload(a, m, parts),
         NEW own \in BOOLEAN, NEW id \in Range(m.versions[1]),
         Json(m, parts) # Failed, Readable(Json(m, parts).fields)
  PROVE  Rebuilt(id, Json(m, parts).fields, own)
           = IF own /\ id = "CheckMetadataHash" THEN Checked ELSE parts[id]
<1> DEFINE f == Json(m, parts).fields
           part == parts[id]
<1>1. PICK S \in SUBSET FieldNames(a) :
              f = FieldsOver(S, a) /\ \A i \in Range(m.versions[1]) : NamesOf(i, a) \subseteq S
  BY JsonGathers DEF Gathered
<1>2. /\ DOMAIN f = S /\ NamesOf(id, a) \subseteq DOMAIN f
      /\ \A k \in DOMAIN f : k \in FieldNames(a) /\ f[k] = FieldValues(a)[k]
  BY <1>1 DEF FieldsOver
<1>3. {"era", "nonce", "tip"} \subseteq DOMAIN f
      /\ (f.era = <<"zero">> => "genesisHash" \in DOMAIN f)
  BY DEF Readable
<1>4. /\ Range(m.versions[1]) \subseteq DOMAIN parts
      /\ \A i \in Range(m.versions[1]) : ~Unsupported(i, parts[i])
  BY DEF Json
<1>5. id \in DOMAIN parts /\ (id \in DOMAIN KindOf => part = Part(<<>>, <<>>))
  BY <1>4 DEF Unsupported
<1>6. id \in CommonExtensions =>
        part = IF id = "CheckMetadataHash" /\ a.digest THEN Checked ELSE KnownExtension(id, a)
  BY <1>5 DEF GoodPayload
<1>n. DOMAIN FieldValues(a) = {"genesisHash", "nonce", "transactionVersion", "specVersion", "era",
                               "blockHash", "tip", "assetId", "metadataHash"}
  BY DEF FieldValues
<1>v. /\ FieldValues(a).genesisHash = <<"genesis">> /\ FieldValues(a).nonce = <<a.nonce>>
      /\ FieldValues(a).era = KnownExtension("CheckMortality", a).extra
      /\ FieldValues(a).blockHash = KnownExtension("CheckMortality", a).additional
      /\ FieldValues(a).tip = <<a.tip>> /\ FieldValues(a).assetId = <<a.asset>>
      /\ FieldValues(a).metadataHash = <<"digest">>
  BY DEF FieldValues
<1> HIDE DEF f
<1>7. CASE id = "CheckNonce"
  <2>1. Rebuilt(id, f, own) = Part(f.nonce, <<>>)
    BY <1>7 DEF Rebuilt
  <2>2. part = Part(<<a.nonce>>, <<>>)
    BY <1>6, <1>7 DEF CommonExtensions, KnownExtension
  <2>3. f.nonce = <<a.nonce>>
    BY <1>2, <1>3, <1>v
  <2>4. QED
    BY <1>7, <2>1, <2>2, <2>3 DEF f
<1>8. CASE id = "CheckTxVersion"
  BY <1>6, <1>8 DEF Rebuilt, CommonExtensions, KnownExtension, f
<1>9. CASE id = "CheckSpecVersion"
  BY <1>6, <1>9 DEF Rebuilt, CommonExtensions, KnownExtension, f
<1>10. CASE id = "CheckMortality"
  <2>1. Rebuilt(id, f, own) = Part(f.era, IF f.era = <<"zero">> THEN f.genesisHash ELSE f.blockHash)
    BY <1>10 DEF Rebuilt
  <2>2. part = KnownExtension("CheckMortality", a)
    BY <1>6, <1>10 DEF CommonExtensions
  <2>3. NamesOf(id, a) = {"era", "blockHash"}
    BY <1>10, <1>n DEF NamesOf, FieldNames
  <2>4. f.era = part.extra /\ f.blockHash = part.additional
    BY <1>2, <1>v, <2>2, <2>3
  <2>5. CASE a.mortality = "immortal"
    <3>1. part = Part(<<"zero">>, <<"genesis">>)
      BY <2>2, <2>5 DEF KnownExtension
    <3>2. part.extra = <<"zero">>
      BY <3>1 DEF Part
    <3>3. f.genesisHash = <<"genesis">>
      BY <1>2, <1>3, <1>v, <2>4, <3>2
    <3>4. QED
      BY <1>10, <2>1, <2>4, <3>1, <3>2, <3>3 DEF f
  <2>6. CASE a.mortality # "immortal"
    <3>1. part = Part(<<a.mortality>>, <<"block", a.mortality>>)
      BY <2>2, <2>6 DEF KnownExtension
    <3>2. part.extra = <<a.mortality>> /\ part.additional = <<"block", a.mortality>>
      BY <3>1 DEF Part
    <3>3. a.mortality # "zero"
      BY <2>6, TxAssumption
    <3>4. f.era # <<"zero">>
      BY <2>4, <3>2, <3>3
    <3>5. QED
      BY <1>10, <2>1, <2>4, <3>1, <3>2, <3>4 DEF f
  <2>7. QED
    BY <2>5, <2>6
<1>11. CASE id = "CheckMetadataHash"
  <2>1. CASE own
    <3>1. Rebuilt(id, f, own) = Checked
      BY <1>11, <2>1 DEF Rebuilt
    <3>2. QED
      BY <1>11, <2>1, <3>1 DEF f
  <2>2. CASE ~own
    <3>1. Rebuilt(id, f, own) = IF "metadataHash" \in DOMAIN f
                                THEN Part(<<"one">>, <<"one">> \o f.metadataHash)
                                ELSE Part(<<"zero">>, <<"zero">>)
      BY <1>11, <2>2 DEF Rebuilt
    <3>2. CASE a.digest
      <4>1. NamesOf(id, a) = {"metadataHash"}
        BY <1>11, <1>n, <3>2 DEF NamesOf, FieldNames
      <4>2. "metadataHash" \in DOMAIN f /\ f.metadataHash = <<"digest">>
        BY <1>2, <1>v, <4>1
      <4>3. <<"one">> \o <<"digest">> = <<"one", "digest">>
        BY Glued
      <4>4. Rebuilt(id, f, own) = Checked
        BY <3>1, <4>2, <4>3 DEF Checked
      <4>5. part = Checked
        BY <1>6, <1>11, <3>2 DEF CommonExtensions
      <4>6. QED
        BY <2>2, <4>4, <4>5 DEF f
    <3>3. CASE ~a.digest
      <4>1. "metadataHash" \notin DOMAIN f
        BY <1>2, <3>3 DEF FieldNames
      <4>2. part = Part(<<"zero">>, <<"zero">>)
        BY <1>6, <1>11, <3>3 DEF CommonExtensions, KnownExtension
      <4>3. QED
        BY <2>2, <3>1, <4>1, <4>2 DEF f
    <3>4. QED
      BY <3>2, <3>3
  <2>3. QED
    BY <2>1, <2>2
<1>12. CASE id = "CheckGenesis"
  <2>1. Rebuilt(id, f, own) = Part(<<>>, f.genesisHash)
    BY <1>12 DEF Rebuilt
  <2>2. part = Part(<<>>, <<"genesis">>)
    BY <1>6, <1>12 DEF CommonExtensions, KnownExtension
  <2>3. NamesOf(id, a) = {"genesisHash"}
    BY <1>12, <1>n DEF NamesOf, FieldNames
  <2>4. f.genesisHash = <<"genesis">>
    BY <1>2, <1>v, <2>3
  <2>5. QED
    BY <1>12, <2>1, <2>2, <2>4 DEF f
<1>13. CASE id = "ChargeTransactionPayment"
  <2>1. Rebuilt(id, f, own) = Part(f.tip, <<>>)
    BY <1>13 DEF Rebuilt
  <2>2. part = Part(<<a.tip>>, <<>>)
    BY <1>6, <1>13 DEF CommonExtensions, KnownExtension
  <2>3. f.tip = <<a.tip>>
    BY <1>2, <1>3, <1>v
  <2>4. QED
    BY <1>13, <2>1, <2>2, <2>3 DEF f
<1>14. CASE id = "ChargeAssetTxPayment"
  <2>1. Rebuilt(id, f, own) =
          Part(f.tip \o (IF "assetId" \in DOMAIN f THEN <<"some">> \o f.assetId ELSE <<"none">>), <<>>)
    BY <1>14 DEF Rebuilt
  <2>2. part = Part(<<a.tip>> \o (IF a.asset = "none" THEN <<"none">> ELSE <<"some", a.asset>>), <<>>)
    BY <1>6, <1>14 DEF CommonExtensions, KnownExtension
  <2>3. f.tip = <<a.tip>>
    BY <1>2, <1>3, <1>v
  <2>4. CASE a.asset = "none"
    <3>1. "assetId" \notin DOMAIN f
      BY <1>2, <2>4 DEF FieldNames
    <3>2. QED
      BY <1>14, <2>1, <2>2, <2>3, <2>4, <3>1 DEF f
  <2>5. CASE a.asset # "none"
    <3>1. NamesOf(id, a) = {"tip", "assetId"}
      BY <1>14, <1>n, <2>5 DEF NamesOf, FieldNames
    <3>2. "assetId" \in DOMAIN f /\ f.assetId = <<a.asset>>
      BY <1>2, <1>v, <3>1
    <3>3. <<"some">> \o <<a.asset>> = <<"some", a.asset>>
      BY Glued
    <3>4. QED
      BY <1>14, <2>1, <2>2, <2>3, <2>5, <3>2, <3>3 DEF f
  <2>6. QED
    BY <2>4, <2>5
<1>15. CASE id \notin CommonExtensions
  <2>1. /\ id \in DOMAIN KindOf
        /\ part = IF id \in a.custom THEN Custom(id) ELSE Empty(id)
        /\ id \in a.custom \/ KindOf[id] # "required"
    BY <1>5, <1>15 DEF GoodPayload
  <2>2. Rebuilt(id, f, own) = Empty(id)
    BY <1>15 DEF Rebuilt, CommonExtensions
  <2>3. part = Part(<<>>, <<>>) /\ part.extra = <<>>
    BY <1>5, <2>1 DEF Part
  <2>4. KindOf[id] = "void"
    <3>1. id \in a.custom => KindOf[id] = "void"
      BY <2>1, <2>3, CustomIsGood
    <3>2. id \notin a.custom => KindOf[id] # "option"
      <4>1. <<"none">> # <<>>
        OBVIOUS
      <4>2. QED
        BY <2>1, <2>3, <4>1, EmptyIsGood
    <3>3. QED
      BY <2>1, <3>1, <3>2, Kinds
  <2>5. Empty(id) = Part(<<>>, <<>>)
    BY <2>4 DEF Empty
  <2>6. id # "CheckMetadataHash"
    BY <1>15 DEF CommonExtensions
  <2>7. QED
    BY <2>2, <2>3, <2>5, <2>6 DEF f
<1>16. QED
  BY <1>7, <1>8, <1>9, <1>10, <1>11, <1>12, <1>13, <1>14, <1>15 DEF CommonExtensions

(***************************************************************************)
(* Transactions: the enhancers.                                            *)
(***************************************************************************)

Enhancer ==
  CommonExtensions \cup {"withMetadataHash", "withCustomExtensions", "withEmptyExtensions"}

\* The enhancers come in an order in which what is found first is what is meant.
InOrder(plan, a) ==
  /\ plan \in Seq(Enhancer)
  /\ \A e \in Enhancer \ {"withMetadataHash"} : \E i \in 1 .. Len(plan) : plan[i] = e
  /\ \A i \in 1 .. Len(plan) : plan[i] = "withMetadataHash" => a.digest
  /\ a.digest => plan[1] = "withMetadataHash"
  /\ \A i \in 1 .. Len(plan) : plan[i] = "withCustomExtensions" =>
        \A e \in CommonExtensions : \E j \in 1 .. i - 1 : plan[j] = e
  /\ \A i \in 1 .. Len(plan) : plan[i] = "withEmptyExtensions" =>
        \E j \in 1 .. i - 1 : plan[j] = "withCustomExtensions"

\* A creator's enhancers come in an order in which none loses what another adds.
LEMMA PlanInOrder ==
  ASSUME NEW a \in Requests
  PROVE  InOrder(EnhancersOf(a), a)
<1> DEFINE first == IF a.digest THEN <<"withMetadataHash">> ELSE <<>>
           ten == <<"CheckNonce", "CheckTxVersion", "CheckSpecVersion", "CheckMortality",
                    "CheckMetadataHash", "CheckGenesis", "ChargeTransactionPayment",
                    "ChargeAssetTxPayment", "withCustomExtensions", "withEmptyExtensions">>
           d == Len(first)
           plan == EnhancersOf(a)
<1>1. /\ Len(ten) = 10 /\ ten[1] = "CheckNonce" /\ ten[2] = "CheckTxVersion"
      /\ ten[3] = "CheckSpecVersion" /\ ten[4] = "CheckMortality" /\ ten[5] = "CheckMetadataHash"
      /\ ten[6] = "CheckGenesis" /\ ten[7] = "ChargeTransactionPayment"
      /\ ten[8] = "ChargeAssetTxPayment" /\ ten[9] = "withCustomExtensions"
      /\ ten[10] = "withEmptyExtensions"
  OBVIOUS
<1>2. ten \in Seq(Enhancer)
  <2>1. {"CheckNonce", "CheckTxVersion", "CheckSpecVersion", "CheckMortality",
         "CheckMetadataHash", "CheckGenesis", "ChargeTransactionPayment",
         "ChargeAssetTxPayment", "withCustomExtensions", "withEmptyExtensions"} \subseteq Enhancer
    BY DEF Enhancer, CommonExtensions
  <2> HIDE DEF Enhancer
  <2>2. QED
    BY <2>1
<1>3. /\ first \in Seq(Enhancer) /\ d \in {0, 1}
      /\ a.digest => d = 1 /\ first[1] = "withMetadataHash"
      /\ d = 1 => a.digest /\ first[1] = "withMetadataHash"
  <2>1. "withMetadataHash" \in Enhancer
    BY DEF Enhancer
  <2>2. QED
    BY <2>1
<1>4. plan = first \o ten
  BY DEF EnhancersOf
<1> HIDE DEF first, ten, plan, d
<1>5. /\ plan \in Seq(Enhancer) /\ Len(plan) = d + 10
      /\ \A i \in 1 .. d + 10 : plan[i] = IF i <= d THEN first[i] ELSE ten[i - d]
  <2>1. /\ first \o ten \in Seq(Enhancer) /\ Len(first \o ten) = Len(first) + Len(ten)
        /\ \A i \in 1 .. Len(first) + Len(ten) :
              (first \o ten)[i] = IF i <= Len(first) THEN first[i] ELSE ten[i - Len(first)]
    BY <1>2, <1>3, ConcatProperties
  <2>2. Len(first) = d
    BY DEF d
  <2>3. QED
    BY <1>1, <1>4, <2>1, <2>2
<1>6. \A i \in 1 .. 10 : d + i \in 1 .. Len(plan) /\ d + i > d /\ (d + i) - d = i
  BY <1>3, <1>5
<1>6a. \A i \in 1 .. 10 : plan[d + i] = ten[i]
  <2> SUFFICES ASSUME NEW i \in 1 .. 10 PROVE plan[d + i] = ten[i]
    OBVIOUS
  <2>1. d + i \in 1 .. d + 10 /\ ~(d + i <= d) /\ (d + i) - d = i
    BY <1>3
  <2>2. QED
    BY <1>5, <2>1
<1>7. \A e \in CommonExtensions : \E i \in 1 .. 8 : ten[i] = e
  BY <1>1 DEF CommonExtensions
<1>8. \A i \in 1 .. 10 : /\ ten[i] # "withMetadataHash"
                         /\ ten[i] = "withCustomExtensions" => i = 9
                         /\ ten[i] = "withEmptyExtensions" => i = 10
  BY <1>1
<1>9. \A i \in 1 .. Len(plan) : \/ i = d /\ d = 1 /\ plan[i] = "withMetadataHash"
                                \/ i - d \in 1 .. 10 /\ plan[i] = ten[i - d]
  BY <1>3, <1>5
<1>10. ASSUME NEW e \in Enhancer \ {"withMetadataHash"} PROVE \E i \in 1 .. Len(plan) : plan[i] = e
  <2>1. \E i \in 1 .. 10 : ten[i] = e
    BY <1>1, <1>7 DEF Enhancer
  <2>2. PICK i \in 1 .. 10 : ten[i] = e
    BY <2>1
  <2>3. d + i \in 1 .. Len(plan) /\ plan[d + i] = e
    BY <1>6, <1>6a, <2>2
  <2>4. QED
    BY <2>3
<1>11. ASSUME NEW i \in 1 .. Len(plan), plan[i] = "withMetadataHash" PROVE a.digest
  <2>1. ~(i - d \in 1 .. 10 /\ plan[i] = ten[i - d])
    BY <1>8, <1>11
  <2>2. d = 1
    BY <1>9, <2>1
  <2>3. QED
    BY <1>3, <2>2
<1>12. a.digest => plan[1] = "withMetadataHash"
  BY <1>3, <1>5
<1>13. ASSUME NEW i \in 1 .. Len(plan), plan[i] = "withCustomExtensions", NEW e \in CommonExtensions
       PROVE  \E j \in 1 .. i - 1 : plan[j] = e
  <2>1. i = d + 9
    <3>1. i - d \in 1 .. 10 /\ ten[i - d] = "withCustomExtensions"
      BY <1>9, <1>13
    <3>2. i - d = 9
      BY <1>8, <3>1
    <3>3. QED
      BY <1>3, <3>2
  <2>2. PICK k \in 1 .. 8 : ten[k] = e
    BY <1>7
  <2>3. d + k \in 1 .. i - 1 /\ plan[d + k] = e
    <3>1. k \in 1 .. 10 /\ d + k \in 1 .. i - 1
      BY <1>3, <2>1
    <3>2. QED
      BY <1>6a, <2>2, <3>1
  <2>4. QED
    BY <2>3
<1>14. ASSUME NEW i \in 1 .. Len(plan), plan[i] = "withEmptyExtensions"
       PROVE  \E j \in 1 .. i - 1 : plan[j] = "withCustomExtensions"
  <2>1. i = d + 10
    <3>1. i - d \in 1 .. 10 /\ ten[i - d] = "withEmptyExtensions"
      BY <1>9, <1>14
    <3>2. i - d = 10
      BY <1>8, <3>1
    <3>3. QED
      BY <1>3, <3>2
  <2>2. d + 9 \in 1 .. i - 1 /\ plan[d + 9] = "withCustomExtensions"
    BY <1>1, <1>3, <1>6a, <2>1
  <2>3. QED
    BY <2>2
<1>15. QED
  BY <1>5, <1>10, <1>11, <1>12, <1>13, <1>14 DEF InOrder, plan

\* The enhancers of the creator.
Plan == EnhancersOf(options)

\* What the enhancers that have run leave.
PayloadInv ==
  /\ md \in Metadatas /\ options \in Requests
  /\ GoodPayload(options, md, payload)
  /\ made = NotMade =>
       /\ enhancers \in Seq(Enhancer) /\ Len(enhancers) <= Len(Plan)
       /\ \A i \in 1 .. Len(enhancers) : enhancers[i] = Plan[Len(Plan) - Len(enhancers) + i]
       /\ Len(enhancers) = Len(Plan) => DOMAIN payload = {}
       /\ \A i \in 1 .. Len(Plan) - Len(enhancers) : DOMAIN Added(Plan[i]) \subseteq DOMAIN payload

\* What an enhancer adds.
LEMMA AddedBy ==
  /\ Added("withMetadataHash") = [id \in {"CheckMetadataHash"} |-> Checked]
  /\ Added("withCustomExtensions") = [id \in options.custom \cap Extensions(md) |-> Custom(id)]
  /\ Added("withEmptyExtensions") = [id \in Fillable(md) |-> Empty(id)]
  /\ \A e \in CommonExtensions :
        Added(e) = [id \in {e} \cap Extensions(md) |-> KnownExtension(id, options)]
<1>1. Added("withMetadataHash") = [id \in {"CheckMetadataHash"} |-> Checked]
  BY DEF Added
<1>2. Added("withCustomExtensions") = [id \in options.custom \cap Extensions(md) |-> Custom(id)]
  BY DEF Added
<1>3. Added("withEmptyExtensions") = [id \in Fillable(md) |-> Empty(id)]
  BY DEF Added
<1>4. ASSUME NEW e \in CommonExtensions
      PROVE  Added(e) = [id \in {e} \cap Extensions(md) |-> KnownExtension(id, options)]
  <2>1. e \notin {"withMetadataHash", "withCustomExtensions", "withEmptyExtensions"}
    BY DEF CommonExtensions
  <2>2. QED
    BY <2>1 DEF Added
<1>5. QED
  BY <1>1, <1>2, <1>3, <1>4

\* What the metadata has is known, or of a kind, or the signature.
LEMMA ExtensionsAre ==
  ASSUME NEW m \in Metadatas
  PROVE  Extensions(m) \subseteq Extension
<1>1. m.versions \in Seq(Seq(Extension))
  BY TxAssumption
<1> DEFINE vs == m.versions
<1> HIDE DEF vs
<1>2. \A v \in DOMAIN vs : vs[v] \in Seq(Extension)
  BY <1>1 DEF vs
<1>3. \A v \in DOMAIN vs : Range(vs[v]) \subseteq Extension
  BY <1>2 DEF Range
<1>4. QED
  BY <1>3 DEF Extensions, vs

\* What an enhancer adds to what is there already is good.
LEMMA AddedIsGood ==
  ASSUME PayloadInv, made = NotMade, NEW k \in 1 .. Len(Plan),
         k = Len(Plan) - Len(enhancers) + 1, ~Refuses(Plan[k]),
         NEW id \in DOMAIN Added(Plan[k]) \ DOMAIN payload
  PROVE  /\ id \in Extensions(md) \ {Signature}
         /\ id \in CommonExtensions =>
              Added(Plan[k])[id] = IF id = "CheckMetadataHash" /\ options.digest
                                   THEN Checked ELSE KnownExtension(id, options)
         /\ id \notin CommonExtensions =>
              /\ id \in DOMAIN KindOf
              /\ Added(Plan[k])[id] = IF id \in options.custom THEN Custom(id) ELSE Empty(id)
              /\ id \in options.custom \/ KindOf[id] # "required"
<1> DEFINE e == Plan[k]
<1>1. /\ md \in Metadatas /\ options \in Requests
      /\ \A i \in 1 .. k - 1 : DOMAIN Added(Plan[i]) \subseteq DOMAIN payload
      /\ Len(enhancers) \in Nat /\ Len(Plan) \in Nat /\ Plan \in Seq(Enhancer)
  <2>1. Plan \in Seq(Enhancer)
    BY PlanInOrder DEF InOrder, Plan, PayloadInv
  <2>2. enhancers \in Seq(Enhancer)
    BY DEF PayloadInv
  <2>3. Len(enhancers) \in Nat /\ Len(Plan) \in Nat
    BY <2>1, <2>2, LenProperties
  <2>4. Len(Plan) - Len(enhancers) = k - 1
    BY <2>3
  <2>5. QED
    BY <2>1, <2>3, <2>4 DEF PayloadInv
<1>2. InOrder(Plan, options)
  BY <1>1, PlanInOrder DEF Plan
<1>3. e \in Enhancer
  BY <1>1
<1>4. Extensions(md) \subseteq CommonExtensions \cup DOMAIN KindOf \cup {Signature}
  BY <1>1, ExtensionsAre DEF Extension
<1>5. /\ \A i \in DOMAIN KindOf : i \notin CommonExtensions /\ i # Signature
      /\ \A i \in CommonExtensions : i # Signature
  BY Kinds, CommonAreKnown
<1>a. e \in CommonExtensions \/ e = "withMetadataHash" \/ e = "withCustomExtensions"
      \/ e = "withEmptyExtensions"
  BY <1>3 DEF Enhancer
<1> HIDE DEF e
<1>6. CASE e = "withMetadataHash"
  <2>1. Added(e) = [i \in {"CheckMetadataHash"} |-> Checked]
    BY <1>6, AddedBy
  <2>2. id = "CheckMetadataHash" /\ Added(e)[id] = Checked
    BY <2>1 DEF e
  <2>3. options.digest
    BY <1>2, <1>6 DEF InOrder, e
  <2>4. id \in Extensions(md)
    BY <1>6, <2>2 DEF Refuses, e
  <2>5. id \in CommonExtensions
    BY <2>2 DEF CommonExtensions
  <2>6. QED
    BY <1>5, <2>2, <2>3, <2>4, <2>5 DEF e
<1>7. CASE e \in CommonExtensions
  <2>1. Added(e) = [i \in {e} \cap Extensions(md) |-> KnownExtension(i, options)]
    BY <1>7, AddedBy
  <2>2. id = e /\ id \in Extensions(md) /\ Added(e)[id] = KnownExtension(id, options)
    BY <2>1 DEF e
  <2>3. ASSUME id = "CheckMetadataHash", options.digest PROVE FALSE
    <3>1. Plan[1] = "withMetadataHash"
      BY <1>2, <2>3 DEF InOrder
    <3>2. e # "withMetadataHash"
      BY <1>7 DEF CommonExtensions
    <3>3. 1 \in 1 .. k - 1
      BY <1>1, <3>1, <3>2 DEF e
    <3>4. DOMAIN Added("withMetadataHash") \subseteq DOMAIN payload
      BY <1>1, <3>1, <3>3
    <3>5. "CheckMetadataHash" \in DOMAIN payload
      BY <3>4, AddedBy
    <3>6. QED
      BY <2>3, <3>5
  <2>4. QED
    BY <1>5, <1>7, <2>2, <2>3 DEF e
<1>8. CASE e = "withCustomExtensions"
  <2>1. Added(e) = [i \in options.custom \cap Extensions(md) |-> Custom(i)]
    BY <1>8, AddedBy
  <2>2. id \in options.custom /\ id \in Extensions(md) /\ Added(e)[id] = Custom(id)
    BY <2>1 DEF e
  <2>3. id # Signature
    BY <1>1, <2>2, TxAssumption
  <2>4. ASSUME id \in CommonExtensions PROVE FALSE
    <3>1. PICK j \in 1 .. k - 1 : Plan[j] = id
      BY <1>2, <1>8, <2>4 DEF InOrder, e
    <3>2. DOMAIN Added(id) \subseteq DOMAIN payload
      BY <1>1, <3>1
    <3>3. Added(id) = [i \in {id} \cap Extensions(md) |-> KnownExtension(i, options)]
      BY <2>4, AddedBy
    <3>3a. id \in DOMAIN payload
      BY <2>2, <3>2, <3>3
    <3>4. QED
      BY <3>3a
  <2>5. QED
    BY <1>4, <2>2, <2>3, <2>4 DEF e
<1>9. CASE e = "withEmptyExtensions"
  <2>1. Added(e) = [i \in Fillable(md) |-> Empty(i)]
    BY <1>9, AddedBy
  <2>2. id \in Fillable(md) /\ Added(e)[id] = Empty(id)
    BY <2>1 DEF e
  <2>3. id \in Extensions(md) /\ id \in DOMAIN KindOf /\ KindOf[id] # "required"
    BY <2>2 DEF Fillable
  <2>4. ASSUME id \in options.custom PROVE FALSE
    <3>1. PICK j \in 1 .. k - 1 : Plan[j] = "withCustomExtensions"
      BY <1>2, <1>9 DEF InOrder, e
    <3>2. DOMAIN Added("withCustomExtensions") \subseteq DOMAIN payload
      BY <1>1, <3>1
    <3>3. id \in DOMAIN payload
      BY <2>3, <2>4, <3>2, AddedBy
    <3>4. QED
      BY <3>3
  <2>5. QED
    BY <1>5, <2>2, <2>3, <2>4 DEF e
<1>10. QED
  BY <1>6, <1>7, <1>8, <1>9, <1>a

\* An enhancer adds what the request asks for, and takes nothing away.
LEMMA EnhanceKeeps ==
  ASSUME PayloadInv, Enhance
  PROVE  PayloadInv'
<1> DEFINE n == Len(Plan)
           k == n - Len(enhancers) + 1
           e == Head(enhancers)
<1>1. /\ md \in Metadatas /\ options \in Requests /\ GoodPayload(options, md, payload)
      /\ enhancers \in Seq(Enhancer) /\ Len(enhancers) <= n /\ made = NotMade
      /\ \A i \in 1 .. Len(enhancers) : enhancers[i] = Plan[n - Len(enhancers) + i]
      /\ \A i \in 1 .. n - Len(enhancers) : DOMAIN Added(Plan[i]) \subseteq DOMAIN payload
  BY DEF PayloadInv, Enhance
<1>2. /\ enhancers # <<>> /\ enhancers' = Tail(enhancers)
      /\ md' = md /\ options' = options /\ Plan' = Plan
      /\ Refuses(e) => made' = Failed /\ payload' = payload
      /\ ~Refuses(e) => made' = made /\ payload' = OrElse(payload, Added(e))
  BY DEF Enhance, Plan, EnhancersOf
<1>3. \A x : Added(x)' = Added(x)
  BY <1>2 DEF Added, Fillable
<1>4. Plan \in Seq(Enhancer)
  BY <1>1, PlanInOrder DEF InOrder, Plan
<1>5. n \in Nat /\ Len(enhancers) \in Nat /\ Len(enhancers) > 0 /\ k \in 1 .. n
  BY <1>1, <1>2, <1>4, LenProperties, EmptySeq
<1>6. /\ enhancers' \in Seq(Enhancer) /\ Len(enhancers') = Len(enhancers) - 1
      /\ \A i \in 1 .. Len(enhancers) - 1 : enhancers'[i] = enhancers[i + 1]
      /\ e = enhancers[1]
  BY <1>1, <1>2, HeadTailProperties
<1>7. e = Plan[k]
  BY <1>1, <1>5, <1>6
<1> HIDE DEF Plan
<1>8. CASE Refuses(e)
  <2>1. made' # NotMade
    BY <1>2, <1>8 DEF Failed, NotMade
  <2>2. GoodPayload(options', md', payload')
    BY <1>1, <1>2, <1>8
  <2>3. QED
    BY <1>1, <1>2, <2>1, <2>2 DEF PayloadInv
<1>9. CASE ~Refuses(e)
  <2>1. payload' = OrElse(payload, Added(e)) /\ made' = NotMade
    BY <1>1, <1>2, <1>9
  <2>2. /\ DOMAIN payload' = DOMAIN payload \cup DOMAIN Added(e)
        /\ \A id \in DOMAIN payload : payload'[id] = payload[id]
        /\ \A id \in DOMAIN Added(e) \ DOMAIN payload : payload'[id] = Added(e)[id]
    BY <2>1 DEF OrElse
  <2>3. ASSUME NEW id \in DOMAIN Added(e) \ DOMAIN payload
        PROVE  /\ id \in Extensions(md) \ {Signature}
               /\ id \in CommonExtensions =>
                    Added(e)[id] = IF id = "CheckMetadataHash" /\ options.digest
                                   THEN Checked ELSE KnownExtension(id, options)
               /\ id \notin CommonExtensions =>
                    /\ id \in DOMAIN KindOf
                    /\ Added(e)[id] = IF id \in options.custom THEN Custom(id) ELSE Empty(id)
                    /\ id \in options.custom \/ KindOf[id] # "required"
    <3>1. k = Len(Plan) - Len(enhancers) + 1
      OBVIOUS
    <3> HIDE DEF k, n, e
    <3>2. k \in 1 .. Len(Plan)
      BY <1>5 DEF n
    <3>3. id \in DOMAIN Added(Plan[k]) \ DOMAIN payload /\ ~Refuses(Plan[k])
      BY <1>7, <1>9
    <3>4. QED
      BY <1>1, <1>7, <3>1, <3>2, <3>3, AddedIsGood
  <2> HIDE DEF e
  <2>4. GoodPayload(options, md, payload')
    <3>1. DOMAIN payload' \subseteq Extensions(md) \ {Signature}
      BY <1>1, <2>2, <2>3 DEF GoodPayload
    <3>2. ASSUME NEW id \in DOMAIN payload' \cap CommonExtensions
          PROVE  payload'[id] = IF id = "CheckMetadataHash" /\ options.digest
                                THEN Checked ELSE KnownExtension(id, options)
      <4>1. CASE id \in DOMAIN payload
        BY <1>1, <2>2, <4>1 DEF GoodPayload
      <4>2. CASE id \notin DOMAIN payload
        BY <2>2, <2>3, <4>2
      <4>3. QED
        BY <4>1, <4>2
    <3>3. ASSUME NEW id \in DOMAIN payload' \ CommonExtensions
          PROVE  /\ id \in DOMAIN KindOf
                 /\ payload'[id] = IF id \in options.custom THEN Custom(id) ELSE Empty(id)
                 /\ id \in options.custom \/ KindOf[id] # "required"
      <4>1. CASE id \in DOMAIN payload
        BY <1>1, <2>2, <4>1 DEF GoodPayload
      <4>2. CASE id \notin DOMAIN payload
        BY <2>2, <2>3, <4>2
      <4>3. QED
        BY <4>1, <4>2
    <3>4. QED
      BY <3>1, <3>2, <3>3 DEF GoodPayload
  <2>5. \A i \in 1 .. Len(enhancers') : enhancers'[i] = Plan[n - Len(enhancers') + i]
    <3> SUFFICES ASSUME NEW i \in 1 .. Len(enhancers')
                 PROVE  enhancers'[i] = Plan[n - Len(enhancers') + i]
      OBVIOUS
    <3>1. i + 1 \in 1 .. Len(enhancers) /\ i \in 1 .. Len(enhancers) - 1
          /\ n - Len(enhancers') + i = n - Len(enhancers) + (i + 1)
      BY <1>5, <1>6
    <3>2. QED
      BY <1>1, <1>6, <3>1
  <2>6. ASSUME NEW i \in 1 .. n - Len(enhancers')
        PROVE  DOMAIN Added(Plan[i]) \subseteq DOMAIN payload'
    <3>1. i \in 1 .. n - Len(enhancers) \/ i = k
      <4>1. n - Len(enhancers') = k
        BY <1>5, <1>6
      <4>2. i \in 1 .. k /\ n - Len(enhancers) = k - 1 /\ k \in Nat
        BY <1>5, <4>1
      <4> HIDE DEF n, k
      <4>3. QED
        BY <4>2
    <3>2. QED
      BY <1>1, <1>7, <2>2, <3>1
  <2>7. Len(enhancers') <= n /\ Len(enhancers') # n
    BY <1>1, <1>5, <1>6
  <2>8. \A i \in 1 .. n - Len(enhancers') : DOMAIN Added(Plan[i])' \subseteq DOMAIN payload'
    BY <1>2, <1>3, <2>6
  <2> HIDE DEF k
  <2>9. QED
    BY <1>1, <1>2, <1>3, <1>6, <2>4, <2>5, <2>6, <2>7 DEF PayloadInv
<1>10. QED
  BY <1>8, <1>9

(***************************************************************************)
(* Transactions: the creators and the wallet.                              *)
(***************************************************************************)

\* All that can be filled in or was given is there.
Complete(a, m, parts) ==
  /\ CommonExtensions \cap Extensions(m) \subseteq DOMAIN parts
  /\ a.custom \cap Extensions(m) \subseteq DOMAIN parts
  /\ Fillable(m) \subseteq DOMAIN parts

\* The user gave what a pipeline requires.
Given(a, p) ==
  \A id \in Range(p) \cap DOMAIN KindOf : KindOf[id] = "required" => id \in a.custom

\* All enhancers have run.
LEMMA PayloadComplete ==
  ASSUME PayloadInv, made = NotMade, enhancers = <<>>
  PROVE  Complete(options, md, payload)
<1>1. InOrder(Plan, options)
  BY PlanInOrder DEF PayloadInv, Plan
<1>2. Len(Plan) \in Nat /\ Len(enhancers) = 0
  BY <1>1, LenProperties DEF InOrder
<1>3. \A i \in 1 .. Len(Plan) : DOMAIN Added(Plan[i]) \subseteq DOMAIN payload
  <2>1. Len(Plan) - Len(enhancers) = Len(Plan)
    BY <1>2
  <2>2. QED
    BY <2>1 DEF PayloadInv
<1>4. \A e \in Enhancer \ {"withMetadataHash"} : DOMAIN Added(e) \subseteq DOMAIN payload
  BY <1>1, <1>3 DEF InOrder
<1>5. ASSUME NEW id \in CommonExtensions \cap Extensions(md) PROVE id \in DOMAIN payload
  <2>1. id \in Enhancer \ {"withMetadataHash"}
    BY DEF Enhancer, CommonExtensions
  <2>2. Added(id) = [i \in {id} \cap Extensions(md) |-> KnownExtension(i, options)]
    BY AddedBy
  <2>3. QED
    BY <1>4, <2>1, <2>2
<1>6. options.custom \cap Extensions(md) \subseteq DOMAIN payload
  <2>1. "withCustomExtensions" \in Enhancer \ {"withMetadataHash"}
    BY DEF Enhancer
  <2>2. DOMAIN Added("withCustomExtensions") = options.custom \cap Extensions(md)
    BY AddedBy
  <2>3. QED
    BY <1>4, <2>1, <2>2
<1>7. Fillable(md) \subseteq DOMAIN payload
  <2>1. "withEmptyExtensions" \in Enhancer \ {"withMetadataHash"}
    BY DEF Enhancer
  <2>2. DOMAIN Added("withEmptyExtensions") = Fillable(md)
    BY AddedBy
  <2>3. QED
    BY <1>4, <2>1, <2>2
<1>8. QED
  BY <1>5, <1>6, <1>7 DEF Complete

\* What is missing from a pipeline is a value that must be given, or the signature.
LEMMA GivenIsThere ==
  ASSUME NEW a, NEW m \in Metadatas, NEW parts, Complete(a, m, parts),
         NEW v \in 1 .. Len(m.versions), Given(a, m.versions[v])
  PROVE  Range(m.versions[v]) \ {Signature} \subseteq DOMAIN parts
<1> SUFFICES ASSUME NEW id \in Range(m.versions[v]) \ {Signature} PROVE id \in DOMAIN parts
  OBVIOUS
<1>1. id \in Extensions(m)
  BY PipelineFacts
<1>2. id \in CommonExtensions \/ id \in DOMAIN KindOf
  BY <1>1, ExtensionsAre DEF Extension
<1>3. CASE id \in CommonExtensions
  BY <1>1, <1>3 DEF Complete
<1>4. CASE id \in DOMAIN KindOf /\ KindOf[id] # "required"
  BY <1>1, <1>4 DEF Complete, Fillable
<1>5. CASE id \in DOMAIN KindOf /\ KindOf[id] = "required"
  BY <1>1, <1>5 DEF Complete, Given
<1>6. QED
  BY <1>2, <1>3, <1>4, <1>5

\* The digest of the metadata is checked by who signs.
Checks(a) == a.signer \in {"ledger", "walletOfToken"}

\* What the properties say of a transaction.
Right(a, m, tx) ==
  LET carried == Decoded(m, tx).extra
  IN  /\ Covers(m, tx)
      /\ \A id \in DOMAIN carried :
            /\ Asked(a, id, carried[id])
            /\ Checks(a) /\ id = "CheckMetadataHash" => carried[id] = <<"one">>

\* The parts a signer takes: those of the payload, but that the metadata may be checked.
Taken(a, parts, found, p) ==
  /\ Range(p) \subseteq DOMAIN found
  /\ \A id \in Range(p) :
        parts[id] = IF Checks(a) /\ id = "CheckMetadataHash" THEN Checked ELSE found[id]

\* A signed transaction made of parts that were found has what was asked for.
LEMMA SignedIsRight ==
  ASSUME NEW a \in Requests, NEW m \in Metadatas, NEW found, GoodPayload(a, m, found),
         NEW parts, Taken(a, parts, found, m.versions[1])
  PROVE  Right(a, m, Signed(m.versions[1], parts))
<1> DEFINE p == m.versions[1]
           tx == Signed(p, parts)
<1>1. Signature \notin Range(p)
  BY DEF GoodPayload, Taken
<1>2. ASSUME NEW id \in Range(p)
      PROVE  /\ GoodPart(id, parts[id]) /\ Asked(a, id, parts[id].extra)
             /\ Checks(a) /\ id = "CheckMetadataHash" => parts[id].extra = <<"one">>
  <2>1. /\ id \in DOMAIN found
        /\ parts[id] = IF Checks(a) /\ id = "CheckMetadataHash" THEN Checked ELSE found[id]
    BY DEF Taken
  <2>2. CASE Checks(a) /\ id = "CheckMetadataHash"
    <3>1. parts[id] = Checked /\ Checked.extra = <<"one">>
      BY <2>1, <2>2 DEF Checked, Part
    <3>2. QED
      BY <2>2, <3>1, CheckedIsGood, CheckedIsAsked
  <2>3. CASE ~(Checks(a) /\ id = "CheckMetadataHash")
    <3>1. parts[id] = found[id]
      BY <2>1, <2>3
    <3>2. QED
      BY <2>1, <2>3, <3>1, PayloadParts
  <2>4. QED
    BY <2>2, <2>3
<1>3. Covers(m, tx) /\ Decoded(m, tx).extra = [id \in Range(p) |-> parts[id].extra]
  BY <1>1, <1>2, SignedCovers
<1> HIDE DEF p, tx
<1>4. QED
  BY <1>2, <1>3 DEF Right, p, tx

\* So has a general transaction.
LEMMA GeneralIsRight ==
  ASSUME NEW a \in Requests, NEW m \in Metadatas, NEW found, GoodPayload(a, m, found), ~Checks(a),
         NEW v \in 1 .. Len(m.versions), Signature \in Range(m.versions[v]),
         Range(m.versions[v]) \ {Signature} \subseteq DOMAIN found
  PROVE  Right(a, m, General(m.versions[v], v - 1, found))
<1> DEFINE p == m.versions[v]
           tx == General(p, v - 1, found)
           x == [id \in Range(p) |->
                    IF id = Signature THEN <<"Signed", "signature">> ELSE found[id].extra]
<1>1. \A id \in Range(p) \ {Signature} : GoodPart(id, found[id]) /\ Asked(a, id, found[id].extra)
  BY PayloadParts
<1>2. Covers(m, tx) /\ Decoded(m, tx).extra = x
  <2>1. \A id \in Range(m.versions[v]) \ {Signature} : GoodPart(id, found[id])
    BY <1>1
  <2>2. QED
    BY <2>1, GeneralCovers
<1>3. Asked(a, Signature, x[Signature])
  <2>1. Signature \notin a.custom
    BY TxAssumption
  <2> HIDE DEF x
  <2>2. QED
    BY <2>1 DEF Asked, Signature
<1>4. DOMAIN x = Range(p) /\ \A id \in DOMAIN x : Asked(a, id, x[id])
  <2>1. \A id \in Range(p) \ {Signature} : x[id] = found[id].extra
    OBVIOUS
  <2>2. DOMAIN x = Range(p)
    OBVIOUS
  <2> HIDE DEF x, p
  <2>3. QED
    BY <1>1, <1>3, <2>1, <2>2
<1> HIDE DEF p, tx, x
<1>5. Right(a, m, tx)
  BY <1>2, <1>4 DEF Right
<1>6. QED
  BY <1>5 DEF p, tx

\* The version that fits has the signature and all its values, if there is one.
LEMMA FittingVersionFits ==
  ASSUME NEW m \in Metadatas, NEW parts
  PROVE  LET fits(v) == /\ Signature \in Range(m.versions[v])
                        /\ Range(m.versions[v]) \ {Signature} \subseteq DOMAIN parts
         IN  \/ FittingVersion(m, parts) \in 1 .. Len(m.versions) /\ fits(FittingVersion(m, parts))
             \/ FittingVersion(m, parts) = 0 /\ \A v \in 1 .. Len(m.versions) : ~fits(v)
<1> DEFINE fits(v) == /\ Signature \in Range(m.versions[v])
                      /\ Range(m.versions[v]) \ {Signature} \subseteq DOMAIN parts
           n == Len(m.versions)
           A == {v \in 1 .. n : fits(v)}
           at == FittingVersion(m, parts)
<1>1. at = IF A # {} THEN Min(A) ELSE 0
  BY DEF FittingVersion, SelectInSeq
<1>2. n \in Nat
  BY TxAssumption, LenProperties
<1> HIDE DEF n, fits, at
<1>3. A # {} => Min(A) \in A
  <2>1. IsFiniteSet(1 .. n)
    BY <1>2, FS_Interval
  <2>2. IsFiniteSet(A) /\ A \subseteq Nat /\ A \subseteq Int
    BY <1>2, <2>1, FS_Subset
  <2> HIDE DEF A
  <2>3. QED
    BY <2>2, MaxIsHighest
<1>4. \/ at \in 1 .. n /\ fits(at)
      \/ at = 0 /\ \A v \in 1 .. n : ~fits(v)
  BY <1>1, <1>3
<1>5. QED
  BY <1>4 DEF n, fits, at

\* What a signer makes of the payload.
Creation(a, m, parts) ==
  CASE a.signer = "v4"     -> CreateV4(m, parts)
    [] a.signer = "ledger" -> CreateOnLedger(m, parts)
    [] a.signer = "v5"     -> CreateV5(m, a, parts)
    [] a.signer = "wallet" -> WalletCreates(m, Json(m, parts), FALSE)
    [] a.signer = "walletOfToken" -> WalletCreates(m, Json(m, parts), TRUE)

\* Why a transaction may be refused; see RefusedForAReason.
Reason(a, m) ==
  LET pipelines == IF a.signer # "v5" THEN {m.versions[1]}
                   ELSE {m.versions[v] : v \in {w \in DOMAIN m.versions :
                            /\ Signature \in Range(m.versions[w])
                            /\ a.version >= 0 => w = a.version + 1}}
  IN  \/ a.invalid \/ a.signer \in {"wallet", "walletOfToken"}
      \/ a.digest /\ "CheckMetadataHash" \notin Extensions(m)
      \/ a.signer = "ledger" /\ "CheckMetadataHash" \notin Range(m.versions[1])
      \/ a.signer # "v5" /\ Signature \in Range(m.versions[1])
      \/ \A p \in pipelines : ~Given(a, p)

\* What was asked for was made, or there was a reason to refuse it.
Answers(tx, a, m) ==
  \/ tx.kind \in {"signed", "general"} /\ Right(a, m, tx)
  \/ tx = Failed /\ Reason(a, m)

\* A creator of version 4, or a device, answers.
LEMMA V4Answers ==
  ASSUME NEW a \in Requests, NEW m \in Metadatas, NEW found, GoodPayload(a, m, found),
         Complete(a, m, found), a.signer \in {"v4", "ledger"},
         NEW parts, DOMAIN parts = DOMAIN found,
         Range(m.versions[1]) \subseteq DOMAIN parts => Taken(a, parts, found, m.versions[1])
  PROVE  Answers(CreateV4(m, parts), a, m)
<1> DEFINE p == m.versions[1]
<1>1. CASE Range(p) \subseteq DOMAIN parts
  <2>1. CreateV4(m, parts) = Signed(p, parts)
    BY <1>1 DEF CreateV4
  <2>2. Right(a, m, Signed(p, parts))
    BY <1>1, SignedIsRight
  <2>3. Signed(p, parts).kind = "signed"
    BY DEF Signed
  <2>4. QED
    BY <2>1, <2>2, <2>3 DEF Answers
<1>2. CASE ~(Range(p) \subseteq DOMAIN parts)
  <2>1. CreateV4(m, parts) = Failed
    BY <1>2 DEF CreateV4
  <2>2. 1 \in 1 .. Len(m.versions)
    BY TxAssumption, LenProperties, EmptySeq
  <2>3. Signature \in Range(p) \/ ~Given(a, p)
    BY <1>2, <2>2, GivenIsThere
  <2>4. Reason(a, m)
    BY <2>3 DEF Reason
  <2>5. QED
    BY <2>1, <2>4 DEF Answers
<1>3. QED
  BY <1>1, <1>2

\* A creator of version 5 answers.
LEMMA V5Answers ==
  ASSUME NEW a \in Requests, NEW m \in Metadatas, NEW found, GoodPayload(a, m, found),
         Complete(a, m, found), a.signer = "v5"
  PROVE  Answers(CreateV5(m, a, found), a, m)
<1> DEFINE fits(w) == /\ Signature \in Range(m.versions[w])
                      /\ Range(m.versions[w]) \ {Signature} \subseteq DOMAIN found
           v == IF a.version >= 0 THEN a.version + 1 ELSE FittingVersion(m, found)
           n == Len(m.versions)
<1>1. n \in Nat /\ DOMAIN m.versions = 1 .. n
  BY TxAssumption, LenProperties
<1>2. CreateV5(m, a, found)
        = IF v \in 1 .. n /\ fits(v) THEN General(m.versions[v], v - 1, found) ELSE Failed
  BY <1>1 DEF CreateV5
<1>3. a.version \in Int /\ ~Checks(a)
  BY TxAssumption DEF Checks
<1>4. CASE v \in 1 .. n /\ fits(v)
  <2> DEFINE tx == General(m.versions[v], v - 1, found)
  <2>1. CreateV5(m, a, found) = tx
    BY <1>2, <1>4
  <2> HIDE DEF v
  <2>2. Right(a, m, tx)
    BY <1>3, <1>4, GeneralIsRight
  <2>3. tx.kind = "general"
    BY DEF General
  <2> HIDE DEF tx
  <2>4. QED
    BY <2>1, <2>2, <2>3 DEF Answers
<1>5. CASE ~(v \in 1 .. n /\ fits(v))
  <2>1. CreateV5(m, a, found) = Failed
    BY <1>2, <1>5
  <2>2. ASSUME NEW w \in 1 .. n, Signature \in Range(m.versions[w]),
               a.version >= 0 => w = a.version + 1, Given(a, m.versions[w])
        PROVE  FALSE
    <3>1. fits(w)
      BY <2>2, GivenIsThere
    <3>2. CASE a.version >= 0
      BY <1>5, <2>2, <3>1, <3>2
    <3>3. CASE ~(a.version >= 0)
      <4>1. v = FittingVersion(m, found)
        BY <3>3
      <4> HIDE DEF v
      <4>2. QED
        BY <1>5, <3>1, <4>1, FittingVersionFits
    <3>4. QED
      BY <3>2, <3>3
  <2>3. Reason(a, m)
    BY <1>1, <2>2 DEF Reason
  <2>4. QED
    BY <2>1, <2>3 DEF Answers
<1>6. QED
  BY <1>4, <1>5

\* A wallet answers from the JSON payload.
LEMMA WalletAnswers ==
  ASSUME NEW a \in Requests, NEW m \in Metadatas, NEW found, GoodPayload(a, m, found),
         NEW own \in BOOLEAN, a.signer = IF own THEN "walletOfToken" ELSE "wallet"
  PROVE  Answers(WalletCreates(m, Json(m, found), own), a, m)
<1> DEFINE json == Json(m, found)
           p == m.versions[1]
           parts == [id \in Range(p) |-> Rebuilt(id, json.fields, own)]
<1>1. CASE json # Failed /\ Readable(json.fields)
  <2>1. WalletCreates(m, json, own) = Signed(p, parts)
    BY <1>1 DEF WalletCreates
  <2>2. Range(p) \subseteq DOMAIN found
    BY <1>1 DEF Json
  <2>3. ASSUME NEW id \in Range(p)
        PROVE  parts[id] = IF Checks(a) /\ id = "CheckMetadataHash" THEN Checked ELSE found[id]
    <3>1. Checks(a) <=> own
      BY DEF Checks
    <3>2. parts[id] = Rebuilt(id, json.fields, own)
      OBVIOUS
    <3>3. QED
      BY <1>1, <3>1, <3>2, RebuiltIsPart
  <2>4. Taken(a, parts, found, p)
    BY <2>2, <2>3 DEF Taken
  <2> HIDE DEF parts
  <2>5. Right(a, m, Signed(p, parts))
    BY <2>4, SignedIsRight
  <2>6. Signed(p, parts).kind = "signed"
    BY DEF Signed
  <2>7. QED
    BY <2>1, <2>5, <2>6 DEF Answers
<1>2. CASE ~(json # Failed /\ Readable(json.fields))
  <2>1. WalletCreates(m, json, own) = Failed
    BY <1>2 DEF WalletCreates
  <2>2. Reason(a, m)
    BY DEF Reason
  <2>3. QED
    BY <2>1, <2>2 DEF Answers
<1>3. QED
  BY <1>1, <1>2

\* Every creator answers.
LEMMA CreationAnswers ==
  ASSUME NEW a \in Requests, NEW m \in Metadatas, NEW found, GoodPayload(a, m, found),
         Complete(a, m, found)
  PROVE  Answers(Creation(a, m, found), a, m)
<1>1. a.signer \in {"v4", "v5", "ledger", "wallet", "walletOfToken"}
  BY TxAssumption
<1>2. CASE a.signer = "v4"
  <2>1. ~Checks(a)
    BY <1>2 DEF Checks
  <2>2. Range(m.versions[1]) \subseteq DOMAIN found => Taken(a, found, found, m.versions[1])
    BY <2>1 DEF Taken
  <2>3. Creation(a, m, found) = CreateV4(m, found)
    BY <1>2 DEF Creation
  <2>4. QED
    BY <1>2, <2>2, <2>3, V4Answers
<1>3. CASE a.signer = "ledger"
  <2> DEFINE p == m.versions[1]
             parts == [id \in DOMAIN found |-> IF id = "CheckMetadataHash" THEN Checked ELSE found[id]]
  <2>1. Creation(a, m, found) = CreateOnLedger(m, found)
    BY <1>3 DEF Creation
  <2>2. CASE "CheckMetadataHash" \in Range(p)
    <3>1. CreateOnLedger(m, found) = CreateV4(m, parts)
      BY <2>2 DEF CreateOnLedger
    <3>2. Checks(a)
      BY <1>3 DEF Checks
    <3>3. DOMAIN parts = DOMAIN found /\ (Range(p) \subseteq DOMAIN parts => Taken(a, parts, found, p))
      BY <3>2 DEF Taken
    <3> HIDE DEF parts
    <3>4. QED
      BY <1>3, <2>1, <3>1, <3>3, V4Answers
  <2>3. CASE "CheckMetadataHash" \notin Range(p)
    <3>1. CreateOnLedger(m, found) = Failed
      BY <2>3 DEF CreateOnLedger
    <3>2. Reason(a, m)
      BY <1>3, <2>3 DEF Reason
    <3>3. QED
      BY <2>1, <3>1, <3>2 DEF Answers
  <2>4. QED
    BY <2>2, <2>3
<1>4. CASE a.signer = "v5"
  <2>1. Creation(a, m, found) = CreateV5(m, a, found)
    BY <1>4 DEF Creation
  <2>2. QED
    BY <1>4, <2>1, V5Answers
<1>5. CASE a.signer = "wallet"
  <2>1. Creation(a, m, found) = WalletCreates(m, Json(m, found), FALSE)
    BY <1>5 DEF Creation
  <2>2. QED
    BY <1>5, <2>1, WalletAnswers
<1>6. CASE a.signer = "walletOfToken"
  <2>1. Creation(a, m, found) = WalletCreates(m, Json(m, found), TRUE)
    BY <1>6 DEF Creation
  <2>2. QED
    BY <1>6, <2>1, WalletAnswers
<1>7. QED
  BY <1>1, <1>2, <1>3, <1>4, <1>5, <1>6

(***************************************************************************)
(* Transactions: the inductive invariant.                                  *)
(***************************************************************************)

\* What is added is asked for and complete, and what is made answers the request.
TxInv ==
  /\ PayloadInv
  /\ made = NotMade \/ Answers(made, options, md)

\* This is what a run checks.
LEMMA TxInvSuffices ==
  ASSUME TxInv
  PROVE  TxTypeOK /\ SignatureHolds /\ AskedIsSent /\ RefusedForAReason
<1>1. md \in Metadatas /\ options \in Requests /\ GoodPayload(options, md, payload)
  BY DEF TxInv, PayloadInv
<1>2. \/ made = NotMade /\ made.kind = "nothing"
      \/ made.kind \in {"signed", "general"} /\ Right(options, md, made)
      \/ made = Failed /\ made.kind = "failed" /\ Reason(options, md)
  BY DEF TxInv, Answers, NotMade, Failed
<1>3. TxTypeOK
  BY <1>1, <1>2 DEF TxTypeOK, GoodPayload
<1>4. IsMade => Right(options, md, made)
  BY <1>2 DEF IsMade
<1>5. SignatureHolds
  BY <1>4 DEF SignatureHolds, Right
<1>6. ASSUME IsMade PROVE AskedIsSent
  <2> DEFINE carried == Decoded(md, made).extra
  <2>1. \A id \in DOMAIN carried :
            /\ Asked(options, id, carried[id])
            /\ Checks(options) /\ id = "CheckMetadataHash" => carried[id] = <<"one">>
    BY <1>4, <1>6 DEF Right
  <2> HIDE DEF carried
  <2>2. "CheckNonce" \in DOMAIN carried => carried["CheckNonce"] = <<options.nonce>>
    BY <2>1 DEF Asked
  <2>3. "ChargeTransactionPayment" \in DOMAIN carried =>
            carried["ChargeTransactionPayment"] = <<options.tip>>
    BY <2>1 DEF Asked
  <2>4. "ChargeAssetTxPayment" \in DOMAIN carried =>
            /\ carried["ChargeAssetTxPayment"][1] = options.tip
            /\ options.asset # "none" => options.asset \in Range(carried["ChargeAssetTxPayment"])
    BY <2>1 DEF Asked
  <2>5. "CheckMortality" \in DOMAIN carried =>
            carried["CheckMortality"] =
                <<IF options.mortality = "immortal" THEN "zero" ELSE options.mortality>>
    BY <2>1 DEF Asked
  <2>6. \A id \in options.custom \cap DOMAIN KindOf \cap DOMAIN carried :
            KindOf[id] # "void" => carried[id] # <<"none">>
    BY <2>1 DEF Asked
  <2>7. /\ options.digest \/ options.signer \in {"ledger", "walletOfToken"}
        /\ "CheckMetadataHash" \in DOMAIN carried
        => carried["CheckMetadataHash"] = <<"one">>
    BY <2>1 DEF Asked, Checks
  <2>8. QED
    BY <2>2, <2>3, <2>4, <2>5, <2>6, <2>7 DEF AskedIsSent, carried
<1>7. AskedIsSent
  <2>1. ~IsMade => AskedIsSent
    BY DEF AskedIsSent
  <2>2. QED
    BY <1>6, <2>1
<1>8. RefusedForAReason
  <2>1. made.kind = "failed" => Reason(options, md)
    BY <1>2
  <2>2. QED
    BY <2>1 DEF RefusedForAReason, Reason, Given
<1>9. QED
  BY <1>3, <1>5, <1>7, <1>8

\* It holds when nothing was added.
LEMMA TxInvInit == TxInit => TxInv
<1> SUFFICES ASSUME TxInit PROVE TxInv
  OBVIOUS
<1>1. /\ md \in Metadatas /\ options \in Requests /\ payload = <<>>
      /\ enhancers = Plan /\ made = NotMade
  BY DEF TxInit, Plan
<1>2. DOMAIN payload = {}
  BY <1>1
<1>3. GoodPayload(options, md, payload)
  BY <1>2 DEF GoodPayload
<1>4. Plan \in Seq(Enhancer)
  BY <1>1, PlanInOrder DEF InOrder, Plan
<1>5. Len(Plan) \in Nat
  BY <1>4, LenProperties
<1> HIDE DEF Plan
<1>6. QED
  BY <1>1, <1>2, <1>3, <1>4, <1>5 DEF TxInv, PayloadInv

\* It is inductive.
LEMMA TxInvNext == TxInv /\ [TxNext]_txVars => TxInv'
<1> SUFFICES ASSUME TxInv, [TxNext]_txVars PROVE TxInv'
  OBVIOUS
<1>1. CASE Enhance
  <2>1. PayloadInv'
    BY <1>1, EnhanceKeeps DEF TxInv
  <2>2. CASE Refuses(Head(enhancers))
    <3>1. made' = Failed /\ options' = options /\ md' = md
      BY <1>1, <2>2 DEF Enhance
    <3>2. Reason(options, md)
      <4>1. CASE Head(enhancers) = "withMetadataHash"
        <5>1. options.digest
          <6>1. /\ InOrder(Plan, options) /\ enhancers \in Seq(Enhancer) /\ enhancers # <<>>
                /\ Len(enhancers) <= Len(Plan)
                /\ \A i \in 1 .. Len(enhancers) :
                      enhancers[i] = Plan[Len(Plan) - Len(enhancers) + i]
            BY <1>1, PlanInOrder DEF TxInv, PayloadInv, Enhance, Plan
          <6>2. Len(Plan) \in Nat /\ Len(enhancers) \in Nat /\ Len(enhancers) > 0
            BY <6>1, LenProperties, EmptySeq DEF InOrder
          <6>3. Head(enhancers) = enhancers[1]
            BY <6>1, HeadTailProperties
          <6> DEFINE k == Len(Plan) - Len(enhancers) + 1
          <6>4. k \in 1 .. Len(Plan) /\ Plan[k] = "withMetadataHash"
            BY <4>1, <6>1, <6>2, <6>3
          <6> HIDE DEF k
          <6>5. QED
            BY <6>1, <6>4 DEF InOrder
        <5>2. QED
          BY <2>2, <4>1, <5>1 DEF Refuses, Reason
      <4>2. CASE Head(enhancers) # "withMetadataHash"
        BY <2>2, <4>2 DEF Refuses, Reason
      <4>3. QED
        BY <4>1, <4>2
    <3>3. Answers(Failed, options, md)
      BY <3>2 DEF Answers
    <3>4. QED
      BY <2>1, <3>1, <3>3 DEF TxInv
  <2>3. CASE ~Refuses(Head(enhancers))
    <3>1. made' = NotMade
      BY <1>1, <2>3 DEF Enhance
    <3>2. QED
      BY <2>1, <3>1 DEF TxInv
  <2>4. QED
    BY <2>2, <2>3
<1>2. CASE Create
  <2>1. /\ made = NotMade /\ enhancers = <<>> /\ UNCHANGED <<md, options, payload, enhancers>>
        /\ made' = Creation(options, md, payload)
    BY <1>2 DEF Create, Creation
  <2>2. /\ PayloadInv /\ md \in Metadatas /\ options \in Requests
        /\ GoodPayload(options, md, payload)
    BY DEF TxInv, PayloadInv
  <2>3. Answers(made', options, md)
    BY <2>1, <2>2, PayloadComplete, CreationAnswers
  <2>4. PayloadInv'
    <3>1. Plan' = Plan /\ \A e : Added(e)' = Added(e)
      BY <2>1 DEF Plan, Added
    <3>2. QED
      BY <2>1, <2>2, <3>1 DEF PayloadInv
  <2>5. QED
    BY <2>1, <2>3, <2>4 DEF TxInv
<1>3. CASE UNCHANGED txVars
  <2>1. UNCHANGED <<md, options, payload, enhancers, made>>
    BY <1>3 DEF txVars
  <2>2. Plan' = Plan /\ \A e : Added(e)' = Added(e)
    BY <2>1 DEF Plan, Added
  <2>3. PayloadInv'
    BY <2>1, <2>2 DEF PayloadInv, TxInv
  <2>4. QED
    BY <2>1, <2>3 DEF TxInv
<1>4. QED
  BY <1>1, <1>2, <1>3 DEF TxNext

(***************************************************************************)
(* Transactions: mortality.                                                *)
(***************************************************************************)

\* The powers of two up to 4096.
LEMMA Powers ==
  /\ 2 ^ 0 = 1
  /\ 2 ^ 1 = 2
  /\ 2 ^ 2 = 4
  /\ 2 ^ 3 = 8
  /\ 2 ^ 4 = 16
  /\ 2 ^ 5 = 32
  /\ 2 ^ 6 = 64
  /\ 2 ^ 7 = 128
  /\ 2 ^ 8 = 256
  /\ 2 ^ 9 = 512
  /\ 2 ^ 10 = 1024
  /\ 2 ^ 11 = 2048
  /\ 2 ^ 12 = 4096
  /\ 2 ^ 13 = 8192
  /\ 2 ^ 14 = 16384
  /\ 2 ^ 15 = 32768
  /\ 2 ^ 16 = 65536
  /\ 2 ^ 17 = 131072
  /\ 2 ^ 18 = 262144
  /\ 2 ^ 19 = 524288
  /\ 2 ^ 20 = 1048576
  /\ 2 ^ 21 = 2097152
  /\ 2 ^ 22 = 4194304
  /\ 2 ^ 23 = 8388608
  /\ 2 ^ 24 = 16777216
  /\ 2 ^ 25 = 33554432
  /\ 2 ^ 26 = 67108864
  /\ 2 ^ 27 = 134217728
  /\ 2 ^ 28 = 268435456
  /\ 2 ^ 29 = 536870912
  /\ 2 ^ 30 = 1073741824
OBVIOUS

\* Powers of two that the provers do not expand.
TwoTo(k) == 2 ^ k

\* Their values.
LEMMA TwoToIs ==
  /\ TwoTo(0) = 1
  /\ TwoTo(1) = 2
  /\ TwoTo(2) = 4
  /\ TwoTo(3) = 8
  /\ TwoTo(4) = 16
  /\ TwoTo(5) = 32
  /\ TwoTo(6) = 64
  /\ TwoTo(7) = 128
  /\ TwoTo(8) = 256
  /\ TwoTo(9) = 512
  /\ TwoTo(10) = 1024
  /\ TwoTo(11) = 2048
  /\ TwoTo(12) = 4096
  /\ TwoTo(13) = 8192
  /\ TwoTo(14) = 16384
  /\ TwoTo(15) = 32768
  /\ TwoTo(16) = 65536
  /\ TwoTo(17) = 131072
  /\ TwoTo(18) = 262144
  /\ TwoTo(19) = 524288
  /\ TwoTo(20) = 1048576
  /\ TwoTo(21) = 2097152
  /\ TwoTo(22) = 4194304
  /\ TwoTo(23) = 8388608
  /\ TwoTo(24) = 16777216
  /\ TwoTo(25) = 33554432
  /\ TwoTo(26) = 67108864
  /\ TwoTo(27) = 134217728
  /\ TwoTo(28) = 268435456
  /\ TwoTo(29) = 536870912
  /\ TwoTo(30) = 1073741824
BY Powers DEF TwoTo

\* The lengths that an era has.
EraLength == {4, 8, 16, 32, 64, 128, 256, 512, 1024, 2048, 4096}

\* Those from 4 to 4096 are the lengths an era can have.
LEMMA PowersAre ==
  /\ \A k \in 0 .. 12 : TwoTo(k) \in EraLength \cup {1, 2}
  /\ \A k \in 13 .. 30 : TwoTo(k - 1) \in Nat /\ TwoTo(k - 1) >= 4096 /\ TwoTo(k) > 4096
  /\ \A x \in EraLength : \E k \in 2 .. 12 : TwoTo(k) = x
<1>1. ASSUME NEW k \in 0 .. 12 PROVE TwoTo(k) \in EraLength \cup {1, 2}
  <2>1. k \in {0, 1, 2, 3, 4, 5, 6, 7, 8, 9, 10, 11, 12}
    OBVIOUS
  <2>2. QED
    BY <2>1, TwoToIs DEF EraLength
<1>2. ASSUME NEW k \in 13 .. 30 PROVE TwoTo(k - 1) \in Nat /\ TwoTo(k - 1) >= 4096 /\ TwoTo(k) > 4096
  <2>13. ASSUME k = 13 PROVE TwoTo(k - 1) \in Nat /\ TwoTo(k - 1) >= 4096 /\ TwoTo(k) > 4096
    <3>1. k - 1 = 12
      BY <2>13
    <3>2. QED
      BY <2>13, <3>1, TwoToIs
  <2>14. ASSUME k = 14 PROVE TwoTo(k - 1) \in Nat /\ TwoTo(k - 1) >= 4096 /\ TwoTo(k) > 4096
    <3>1. k - 1 = 13
      BY <2>14
    <3>2. QED
      BY <2>14, <3>1, TwoToIs
  <2>15. ASSUME k = 15 PROVE TwoTo(k - 1) \in Nat /\ TwoTo(k - 1) >= 4096 /\ TwoTo(k) > 4096
    <3>1. k - 1 = 14
      BY <2>15
    <3>2. QED
      BY <2>15, <3>1, TwoToIs
  <2>16. ASSUME k = 16 PROVE TwoTo(k - 1) \in Nat /\ TwoTo(k - 1) >= 4096 /\ TwoTo(k) > 4096
    <3>1. k - 1 = 15
      BY <2>16
    <3>2. QED
      BY <2>16, <3>1, TwoToIs
  <2>17. ASSUME k = 17 PROVE TwoTo(k - 1) \in Nat /\ TwoTo(k - 1) >= 4096 /\ TwoTo(k) > 4096
    <3>1. k - 1 = 16
      BY <2>17
    <3>2. QED
      BY <2>17, <3>1, TwoToIs
  <2>18. ASSUME k = 18 PROVE TwoTo(k - 1) \in Nat /\ TwoTo(k - 1) >= 4096 /\ TwoTo(k) > 4096
    <3>1. k - 1 = 17
      BY <2>18
    <3>2. QED
      BY <2>18, <3>1, TwoToIs
  <2>19. ASSUME k = 19 PROVE TwoTo(k - 1) \in Nat /\ TwoTo(k - 1) >= 4096 /\ TwoTo(k) > 4096
    <3>1. k - 1 = 18
      BY <2>19
    <3>2. QED
      BY <2>19, <3>1, TwoToIs
  <2>20. ASSUME k = 20 PROVE TwoTo(k - 1) \in Nat /\ TwoTo(k - 1) >= 4096 /\ TwoTo(k) > 4096
    <3>1. k - 1 = 19
      BY <2>20
    <3>2. QED
      BY <2>20, <3>1, TwoToIs
  <2>21. ASSUME k = 21 PROVE TwoTo(k - 1) \in Nat /\ TwoTo(k - 1) >= 4096 /\ TwoTo(k) > 4096
    <3>1. k - 1 = 20
      BY <2>21
    <3>2. QED
      BY <2>21, <3>1, TwoToIs
  <2>22. ASSUME k = 22 PROVE TwoTo(k - 1) \in Nat /\ TwoTo(k - 1) >= 4096 /\ TwoTo(k) > 4096
    <3>1. k - 1 = 21
      BY <2>22
    <3>2. QED
      BY <2>22, <3>1, TwoToIs
  <2>23. ASSUME k = 23 PROVE TwoTo(k - 1) \in Nat /\ TwoTo(k - 1) >= 4096 /\ TwoTo(k) > 4096
    <3>1. k - 1 = 22
      BY <2>23
    <3>2. QED
      BY <2>23, <3>1, TwoToIs
  <2>24. ASSUME k = 24 PROVE TwoTo(k - 1) \in Nat /\ TwoTo(k - 1) >= 4096 /\ TwoTo(k) > 4096
    <3>1. k - 1 = 23
      BY <2>24
    <3>2. QED
      BY <2>24, <3>1, TwoToIs
  <2>25. ASSUME k = 25 PROVE TwoTo(k - 1) \in Nat /\ TwoTo(k - 1) >= 4096 /\ TwoTo(k) > 4096
    <3>1. k - 1 = 24
      BY <2>25
    <3>2. QED
      BY <2>25, <3>1, TwoToIs
  <2>26. ASSUME k = 26 PROVE TwoTo(k - 1) \in Nat /\ TwoTo(k - 1) >= 4096 /\ TwoTo(k) > 4096
    <3>1. k - 1 = 25
      BY <2>26
    <3>2. QED
      BY <2>26, <3>1, TwoToIs
  <2>27. ASSUME k = 27 PROVE TwoTo(k - 1) \in Nat /\ TwoTo(k - 1) >= 4096 /\ TwoTo(k) > 4096
    <3>1. k - 1 = 26
      BY <2>27
    <3>2. QED
      BY <2>27, <3>1, TwoToIs
  <2>28. ASSUME k = 28 PROVE TwoTo(k - 1) \in Nat /\ TwoTo(k - 1) >= 4096 /\ TwoTo(k) > 4096
    <3>1. k - 1 = 27
      BY <2>28
    <3>2. QED
      BY <2>28, <3>1, TwoToIs
  <2>29. ASSUME k = 29 PROVE TwoTo(k - 1) \in Nat /\ TwoTo(k - 1) >= 4096 /\ TwoTo(k) > 4096
    <3>1. k - 1 = 28
      BY <2>29
    <3>2. QED
      BY <2>29, <3>1, TwoToIs
  <2>30. ASSUME k = 30 PROVE TwoTo(k - 1) \in Nat /\ TwoTo(k - 1) >= 4096 /\ TwoTo(k) > 4096
    <3>1. k - 1 = 29
      BY <2>30
    <3>2. QED
      BY <2>30, <3>1, TwoToIs
  <2>31. k \in {13, 14, 15, 16, 17, 18, 19, 20, 21, 22, 23, 24, 25, 26, 27, 28, 29, 30}
    OBVIOUS
  <2>32. QED
    BY <2>13, <2>14, <2>15, <2>16, <2>17, <2>18, <2>19, <2>20, <2>21, <2>22, <2>23, <2>24, <2>25, <2>26, <2>27, <2>28, <2>29, <2>30, <2>31
<1>3. ASSUME NEW x \in EraLength PROVE \E k \in 2 .. 12 : TwoTo(k) = x
  BY TwoToIs DEF EraLength
<1>4. QED
  BY <1>1, <1>2, <1>3

\* The periods that are asked for.
Periods == 1 .. 4096

\* The era of a period, for a length that is a power of two.
LEMMA MortalIs ==
  ASSUME NEW period \in Periods, NEW start \in Nat
  PROVE  \E k \in 2 .. 12 : /\ TwoTo(k) \in EraLength /\ period <= TwoTo(k)
                             /\ Mortal(period, start) = (k - 1) + 16 * (start % TwoTo(k))
<1> DEFINE PowerOf(k) == TwoTo(k) >= period /\ (k = 0 \/ TwoTo(k - 1) < period)
           power  == CHOOSE k \in 0 .. 30 : PowerOf(k)
           length == Min({Max({TwoTo(power), 4}), 65536})
           factor == Max({length \div 4096, 1})
           log    == CHOOSE k \in 2 .. 16 : TwoTo(k) = length
           left   == Min({Max({log - 1, 1}), 15})
<1>1. Mortal(period, start) = left + 16 * ((start % length) \div factor)
  BY DEF Mortal, TwoTo
<1>2. power \in 0 .. 12 /\ TwoTo(power) >= period
  <2>1. \E k \in 0 .. 30 : PowerOf(k)
    <3>0. CASE period = 1
      BY <3>0, TwoToIs
    <3>1. CASE 1 < period /\ period <= 2
      <4>1. PowerOf(1)
        BY <3>1, TwoToIs
      <4>2. QED
        BY <4>1
    <3>2. CASE 2 < period /\ period <= 4
      <4>1. PowerOf(2)
        BY <3>2, TwoToIs
      <4>2. QED
        BY <4>1
    <3>3. CASE 4 < period /\ period <= 8
      <4>1. PowerOf(3)
        BY <3>3, TwoToIs
      <4>2. QED
        BY <4>1
    <3>4. CASE 8 < period /\ period <= 16
      <4>1. PowerOf(4)
        BY <3>4, TwoToIs
      <4>2. QED
        BY <4>1
    <3>5. CASE 16 < period /\ period <= 32
      <4>1. PowerOf(5)
        BY <3>5, TwoToIs
      <4>2. QED
        BY <4>1
    <3>6. CASE 32 < period /\ period <= 64
      <4>1. PowerOf(6)
        BY <3>6, TwoToIs
      <4>2. QED
        BY <4>1
    <3>7. CASE 64 < period /\ period <= 128
      <4>1. PowerOf(7)
        BY <3>7, TwoToIs
      <4>2. QED
        BY <4>1
    <3>8. CASE 128 < period /\ period <= 256
      <4>1. PowerOf(8)
        BY <3>8, TwoToIs
      <4>2. QED
        BY <4>1
    <3>9. CASE 256 < period /\ period <= 512
      <4>1. PowerOf(9)
        BY <3>9, TwoToIs
      <4>2. QED
        BY <4>1
    <3>10. CASE 512 < period /\ period <= 1024
      <4>1. PowerOf(10)
        BY <3>10, TwoToIs
      <4>2. QED
        BY <4>1
    <3>11. CASE 1024 < period /\ period <= 2048
      <4>1. PowerOf(11)
        BY <3>11, TwoToIs
      <4>2. QED
        BY <4>1
    <3>12. CASE 2048 < period /\ period <= 4096
      <4>1. PowerOf(12)
        BY <3>12, TwoToIs
      <4>2. QED
        BY <4>1
    <3>13. \/ period = 1
           \/ 1 < period /\ period <= 2
           \/ 2 < period /\ period <= 4
           \/ 4 < period /\ period <= 8
           \/ 8 < period /\ period <= 16
           \/ 16 < period /\ period <= 32
           \/ 32 < period /\ period <= 64
           \/ 64 < period /\ period <= 128
           \/ 128 < period /\ period <= 256
           \/ 256 < period /\ period <= 512
           \/ 512 < period /\ period <= 1024
           \/ 1024 < period /\ period <= 2048
           \/ 2048 < period /\ period <= 4096
      BY DEF Periods
    <3> HIDE DEF PowerOf
    <3>14. QED
      BY <3>0, <3>1, <3>2, <3>3, <3>4, <3>5, <3>6, <3>7, <3>8, <3>9, <3>10, <3>11, <3>12, <3>13
  <2>2. power \in 0 .. 30 /\ PowerOf(power)
    BY <2>1
  <2> HIDE DEF power
  <2>3. ~(power \in 13 .. 30)
    <3>1. SUFFICES ASSUME power \in 13 .. 30 PROVE FALSE
      OBVIOUS
    <3>2. TwoTo(power - 1) >= 4096 /\ TwoTo(power - 1) < period
      BY <2>2, <3>1, PowersAre
    <3> DEFINE x == TwoTo(power - 1)
    <3>3. x \in Int
      BY <3>1, PowersAre
    <3> HIDE DEF x
    <3>4. x >= 4096 /\ x < period
      BY <3>2 DEF x
    <3>5. period \in Int /\ period <= 4096
      BY DEF Periods
    <3> HIDE DEF PowerOf
    <3>6. QED
      BY <3>3, <3>4, <3>5
  <2>4. QED
    BY <2>2, <2>3
<1> HIDE DEF power
<1>3. length \in EraLength /\ period <= length
  <2> DEFINE x == TwoTo(power)
  <2>1. x \in EraLength \cup {1, 2} /\ x >= period
    BY <1>2, PowersAre
  <2> HIDE DEF x
  <2>2. x \in Int /\ x <= 4096 /\ (x >= 4 => x \in EraLength)
    BY <2>1 DEF EraLength
  <2>3. Max({x, 4}) = IF x >= 4 THEN x ELSE 4
    BY <2>2, PairMax
  <2> DEFINE y == Max({x, 4})
  <2>4. y \in EraLength /\ y >= period /\ y \in Int /\ y <= 4096
    BY <2>1, <2>2, <2>3 DEF EraLength, Periods
  <2> HIDE DEF y
  <2>5. Min({y, 65536}) = y
    BY <2>4, PairMin
  <2>6. length = Min({y, 65536})
    BY DEF x, y
  <2>7. QED
    BY <2>4, <2>5, <2>6
<1> HIDE DEF length
<1>4. factor = 1
  <2>1. length \div 4096 \in {0, 1}
    BY <1>3 DEF EraLength
  <2>2. QED
    BY <2>1, PairMax
<1>5. log \in 2 .. 12 /\ TwoTo(log) = length
  <2>1. \E k \in 2 .. 16 : TwoTo(k) = length
    <3>1. PICK k \in 2 .. 12 : TwoTo(k) = length
      BY <1>3, PowersAre
    <3>2. QED
      BY <3>1
  <2>2. log \in 2 .. 16 /\ TwoTo(log) = length
    BY <2>1
  <2> HIDE DEF log
  <2>3. ~(log \in 13 .. 16)
    <3> DEFINE x == TwoTo(log)
    <3>1. log \in 13 .. 16 => x > 4096
      BY PowersAre
    <3> HIDE DEF x
    <3>2. x = length /\ length \in EraLength
      BY <1>3, <2>2 DEF x
    <3>3. x <= 4096 /\ x \in Int
      BY <3>2 DEF EraLength
    <3>4. QED
      BY <3>1, <3>3
  <2>4. QED
    BY <2>2, <2>3
<1> HIDE DEF log
<1>6. left = log - 1
  <2>1. Max({log - 1, 1}) = log - 1
    BY <1>5, PairMax
  <2>2. Min({log - 1, 15}) = log - 1
    BY <1>5, PairMin
  <2>3. QED
    BY <2>1, <2>2
<1> HIDE DEF left, factor
<1>7. (start % length) \div factor = start % length
  <2> DEFINE r == start % length
  <2>1. r \in Int
    BY <1>3 DEF EraLength
  <2> HIDE DEF r
  <2>2. r \div 1 = r
    BY <2>1
  <2>3. QED
    BY <1>4, <2>2 DEF r
<1>8. QED
  BY <1>1, <1>3, <1>5, <1>6, <1>7

\* What is decoded from such an era.
LEMMA EraDecodes ==
  ASSUME NEW k \in 2 .. 12, NEW start \in Nat
  PROVE  LET era == (k - 1) + 16 * (start % TwoTo(k))
         IN  Period(era) = TwoTo(k) /\ Phase(era) = start % TwoTo(k)
<1> DEFINE x == TwoTo(k)
           r == start % x
           era == (k - 1) + 16 * r
<1>1. x \in EraLength
  <2>1. k \in {2, 3, 4, 5, 6, 7, 8, 9, 10, 11, 12}
    OBVIOUS
  <2>2. QED
    BY <2>1, TwoToIs DEF EraLength
<1>2. 2 * TwoTo(k - 1) = x
  <2>2. CASE k = 2
    <3>1. k - 1 = 1
      BY <2>2
    <3>2. QED
      BY <2>2, <3>1, TwoToIs
  <2>3. CASE k = 3
    <3>1. k - 1 = 2
      BY <2>3
    <3>2. QED
      BY <2>3, <3>1, TwoToIs
  <2>4. CASE k = 4
    <3>1. k - 1 = 3
      BY <2>4
    <3>2. QED
      BY <2>4, <3>1, TwoToIs
  <2>5. CASE k = 5
    <3>1. k - 1 = 4
      BY <2>5
    <3>2. QED
      BY <2>5, <3>1, TwoToIs
  <2>6. CASE k = 6
    <3>1. k - 1 = 5
      BY <2>6
    <3>2. QED
      BY <2>6, <3>1, TwoToIs
  <2>7. CASE k = 7
    <3>1. k - 1 = 6
      BY <2>7
    <3>2. QED
      BY <2>7, <3>1, TwoToIs
  <2>8. CASE k = 8
    <3>1. k - 1 = 7
      BY <2>8
    <3>2. QED
      BY <2>8, <3>1, TwoToIs
  <2>9. CASE k = 9
    <3>1. k - 1 = 8
      BY <2>9
    <3>2. QED
      BY <2>9, <3>1, TwoToIs
  <2>10. CASE k = 10
    <3>1. k - 1 = 9
      BY <2>10
    <3>2. QED
      BY <2>10, <3>1, TwoToIs
  <2>11. CASE k = 11
    <3>1. k - 1 = 10
      BY <2>11
    <3>2. QED
      BY <2>11, <3>1, TwoToIs
  <2>12. CASE k = 12
    <3>1. k - 1 = 11
      BY <2>12
    <3>2. QED
      BY <2>12, <3>1, TwoToIs
  <2>13. k \in {2, 3, 4, 5, 6, 7, 8, 9, 10, 11, 12}
    OBVIOUS
  <2>14. QED
    BY <2>2, <2>3, <2>4, <2>5, <2>6, <2>7, <2>8, <2>9, <2>10, <2>11, <2>12, <2>13
<1> HIDE DEF x
<1>3. r \in Nat
  BY <1>1 DEF EraLength
<1> HIDE DEF r
<1>4. era % 16 = k - 1 /\ era \div 16 = r
  BY <1>3
<1>5. Max({x \div 4096, 1}) = 1
  <2>1. x \div 4096 \in {0, 1}
    BY <1>1 DEF EraLength
  <2>2. QED
    BY <2>1, PairMax
<1> HIDE DEF era
<1>6. Period(era) = x
  <2>1. Period(era) = 2 * TwoTo(era % 16)
    BY Zenon DEF Period, TwoTo
  <2>2. QED
    BY <1>2, <1>4, <2>1
<1>7. Phase(era) = r
  BY <1>3, <1>4, <1>5, <1>6 DEF Phase
<1>8. QED
  BY <1>6, <1>7 DEF era, r, x

\* A block at which an era began where it started.
BornAt(x, start, h) ==
  /\ start % x \in Nat /\ start % x <= h
  /\ ((h - (start % x)) \div x) * x + (start % x) = start

\* From where it started until it is over an era began where it started.
LEMMA SameBirth ==
  ASSUME NEW x \in EraLength, NEW start \in Nat, NEW h \in Nat, start <= h, h < start + x
  PROVE  BornAt(x, start, h)
<1>2. CASE x = 4
  BY <1>2 DEF BornAt
<1>3. CASE x = 8
  BY <1>3 DEF BornAt
<1>4. CASE x = 16
  BY <1>4 DEF BornAt
<1>5. CASE x = 32
  BY <1>5 DEF BornAt
<1>6. CASE x = 64
  BY <1>6 DEF BornAt
<1>7. CASE x = 128
  BY <1>7 DEF BornAt
<1>8. CASE x = 256
  BY <1>8 DEF BornAt
<1>9. CASE x = 512
  BY <1>9 DEF BornAt
<1>10. CASE x = 1024
  BY <1>10 DEF BornAt
<1>11. CASE x = 2048
  BY <1>11 DEF BornAt
<1>12. CASE x = 4096
  BY <1>12 DEF BornAt
<1>13. QED
  BY <1>2, <1>3, <1>4, <1>5, <1>6, <1>7, <1>8, <1>9, <1>10, <1>11, <1>12 DEF EraLength

\* An era that began at start, seen by a block in it, began there.
LEMMA BirthIsStart ==
  ASSUME NEW period \in Periods, NEW start \in Nat, NEW h \in Nat,
         start <= h, h < start + period
  PROVE  Birth(Mortal(period, start), h) = start
<1>1. PICK k \in 2 .. 12 : /\ TwoTo(k) \in EraLength /\ period <= TwoTo(k)
                            /\ Mortal(period, start) = (k - 1) + 16 * (start % TwoTo(k))
  BY MortalIs
<1> DEFINE era == Mortal(period, start)
           x == TwoTo(k)
           r == start % x
<1>2. Period(era) = x /\ Phase(era) = r
  BY <1>1, EraDecodes
<1>3. x \in EraLength /\ period <= x
  BY <1>1
<1> HIDE DEF era, x
<1>4. x \in Int /\ h < start + x
  BY <1>3 DEF EraLength, Periods
<1>5. r \in Nat /\ r <= h /\ ((h - r) \div x) * x + r = start
  <2>1. BornAt(x, start, h)
    BY <1>3, <1>4, SameBirth
  <2>2. QED
    BY <2>1 DEF BornAt
<1> HIDE DEF r
<1>6. Max({h, r}) = h
  BY <1>5, PairMax
<1>7. QED
  BY <1>2, <1>5, <1>6 DEF Birth, era

\* An era is the same at the block that was signed, at the best one and at the last.
LEMMA ErasHold ==
  ASSUME options \in Requests
  PROVE  EraHolds
<1> SUFFICES ASSUME options.mortality \in DOMAIN Eras PROVE EraHolds
  BY DEF EraHolds
<1> DEFINE e == Eras[options.mortality]
           most == e.best - e.finalized + e.period
           period == Min({most, 4096})
           last == e.finalized + period - 1
<1>1. e.finalized \in Nat /\ e.best \in Nat /\ e.period \in Nat \ {0} /\ e.finalized <= e.best
  BY TxAssumption
<1> HIDE DEF e
<1>2. most \in Int /\ most >= 1 /\ most > e.best - e.finalized
  BY <1>1
<1> HIDE DEF most
<1>3. period = IF most <= 4096 THEN most ELSE 4096
  <2>1. most \in Int /\ 4096 \in Int
    BY <1>2
  <2>2. QED
    BY <2>1, PairMin
<1> HIDE DEF period
<1>4. period \in Int /\ 1 <= period /\ period <= 4096
  BY <1>2, <1>3
<1>4a. period \in Periods
  BY <1>4 DEF Periods
<1>5. last \in Int /\ e.finalized <= last
  BY <1>1, <1>4
<1>6. Min({e.best, last}) = IF e.best <= last THEN e.best ELSE last
  BY <1>1, <1>5, PairMin
<1>7. ASSUME NEW h \in {e.finalized, Min({e.best, last}), last}
      PROVE  Birth(EraOf(e), h) = e.finalized
  <2>1. h \in Nat /\ e.finalized <= h /\ h < e.finalized + period
    BY <1>1, <1>4, <1>5, <1>6
  <2>2. EraOf(e) = Mortal(period, e.finalized)
    BY DEF EraOf, period, most
  <2>3. QED
    BY <1>1, <1>4a, <2>1, <2>2, BirthIsStart
<1> HIDE DEF last
<1>8. QED
  BY <1>7 DEF EraHolds, last, period, most, e

\* For any metadata, kinds of extensions, creator and options: what the chain decodes of a
\* transaction that was made is what was signed, with the value that was asked for in every
\* extension; one that was not made was refused for a reason; and a mortal one is valid
\* from the block that was signed until the period asked for is over.
THEOREM TransactionsStayRight == TxSpec => []TransactionsAreRight
<1>1. TxInv => TransactionsAreRight
  BY TxInvSuffices, ErasHold DEF TransactionsAreRight, TxInv, PayloadInv
<1>2. QED
  BY <1>1, TxInvInit, TxInvNext, PTL DEF TxSpec
===============================================================================
