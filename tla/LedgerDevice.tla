----------------------------- MODULE LedgerDevice -----------------------------
(***************************************************************************)
(* The calls of a LedgerSigner on one device (ledger-signer.ts).           *)
(*                                                                         *)
(* The transport takes one exchange at a time: #send waits until it is     *)
(* free. Before anything is asked of the Polkadot app, #safeSend finds out *)
(* once which app runs. Public keys are cached by path; what is signed     *)
(* goes to the device in chunks, each of them an exchange of its own. The  *)
(* transport and the app on the device are external.                       *)
(***************************************************************************)
EXTENDS Integers, Sequences, FiniteSets

CONSTANTS
    LedgerCalls, \* call |-> [op |-> "appInfo" | "pubkey" | "show" | "sign", path, chunks]
    MaxDenied    \* exchanges that the device answers with an error

\* What else may have the transport is no call of the user.
NoCall == "nobody"
Info   == "appInfo"

ASSUME LedgerAssumption ==
    /\ \A c \in DOMAIN LedgerCalls :
         /\ LedgerCalls[c].op \in {"appInfo", "pubkey", "show", "sign"}
         /\ LedgerCalls[c].op = "sign" => LedgerCalls[c].chunks \in Nat \ {0, 1}
         /\ c \notin {NoCall, Info}
    /\ MaxDenied \in Nat

VARIABLES
    step,     \* what a call waits for: "idle", "verified", "free", "sent", "key", "info",
              \* and in the end "done" or "failed"
    woken,    \* the calls that waited while the transport was busy, and it is not any more
    chunk,    \* how many chunks of it are sent
    owner,    \* path |-> the call whose promise is the cached key, or NoCall
    shares,   \* call |-> the call whose promise it was given
    info,     \* #appInfo: "none", "free", "sent", "polkadot", "other" or "failed"
    infoWoken,
    verified, \* #verified was set
    busy,     \* who has the exchange: a call, Info, or NoCall
    app,      \* the app that runs on the device
    signing,  \* the device: <<call, chunk>> of what came since the first chunk, or <<>>
    signed,   \* call |-> the chunks that it got a signature of, or <<>>
    interleaved, \* the calls that sign at the same time as another one
    appAsked, \* how often the app was asked for
    early,    \* something was asked of the Polkadot app before it was known to run
    clash,    \* the transport was used while it was busy
    denied

keyVars    == <<owner, shares>>
deviceVars == <<app, signing, signed>>
ghostVars  == <<interleaved, appAsked, early, clash>>
ownVars    == <<step, woken, chunk, keyVars, info, infoWoken, verified>>
ledgerVars == <<ownVars, busy, deviceVars, ghostVars, denied>>

LedgerCall == DOMAIN LedgerCalls
Op(c)      == LedgerCalls[c].op
KeyPath(c) == LedgerCalls[c].path

Ended == {"done", "failed"}

Signing(c) == Op(c) = "sign" /\ step[c] \notin {"idle"} \cup Ended

-----------------------------------------------------------------------------
(* The library *)

\* appInfo, from a call or from the verification: asked once, whatever the answer is.
InfoAsked == IF info = "none" THEN "free" ELSE info

\* #safeSend starts the verification if nobody did.
SafeSend(c, where) ==
    /\ step' = [step EXCEPT ![c] = where]
    /\ verified' = TRUE
    /\ info' = IF verified THEN info ELSE InfoAsked

\* A call of the user.
Start(c) ==
    /\ step[c] = "idle"
    /\ CASE Op(c) = "appInfo" ->
              /\ info' = InfoAsked
              /\ step' = [step EXCEPT ![c] = "info"]
              /\ UNCHANGED <<keyVars, verified>>
         [] Op(c) = "pubkey" /\ owner[KeyPath(c)] # NoCall ->
              /\ step' = [step EXCEPT ![c] = "key"]
              /\ shares' = [shares EXCEPT ![c] = owner[KeyPath(c)]]
              /\ UNCHANGED <<owner, info, verified>>
         [] Op(c) \in {"pubkey", "show"} /\ (Op(c) = "show" \/ owner[KeyPath(c)] = NoCall) ->
              /\ owner' = [owner EXCEPT ![KeyPath(c)] = c]
              /\ SafeSend(c, "verified") /\ UNCHANGED shares
         [] Op(c) = "sign" -> SafeSend(c, "verified") /\ UNCHANGED <<owner, shares>>
    /\ interleaved' = IF Op(c) = "sign" /\ \E d \in LedgerCall : Signing(d)
                  THEN interleaved \cup {c} \cup {d \in LedgerCall : Signing(d)} ELSE interleaved
    /\ UNCHANGED <<woken, chunk, infoWoken, busy, deviceVars, appAsked, early, clash, denied>>

\* The promise of the verification, or of the app, or of a key, is there.
Verified(c) ==
    /\ step[c] = "verified" /\ info \in {"polkadot", "other", "failed"}
    /\ step' = [step EXCEPT ![c] = IF info = "polkadot" THEN "free" ELSE "failed"]
    /\ UNCHANGED <<woken, chunk, keyVars, info, infoWoken, verified, busy,
                   deviceVars, ghostVars, denied>>

Shared(c) ==
    /\ \/ /\ step[c] = "info" /\ info \in {"polkadot", "other", "failed"}
          /\ step' = [step EXCEPT ![c] = IF info = "failed" THEN "failed" ELSE "done"]
       \/ /\ step[c] = "key" /\ step[shares[c]] \in Ended
          /\ step' = [step EXCEPT ![c] = step[shares[c]]]
    /\ UNCHANGED <<woken, chunk, keyVars, info, infoWoken, verified, busy,
                   deviceVars, ghostVars, denied>>

\* Mutant: it looks again only once.
SendsOnceWoken(wasWoken) == busy = NoCall \/ wasWoken

\* Whether #send goes on: it looks again after every exchange it waited for.
MaySend(wasWoken) == busy = NoCall

\* The call is given to the transport; the device has the message at once.
SendChunk(c) ==
    /\ step[c] = "free" /\ MaySend(c \in woken)
    /\ step' = [step EXCEPT ![c] = "sent"]
    /\ woken' = woken \ {c}
    /\ busy' = c
    /\ clash' = (clash \/ busy # NoCall)
    /\ chunk' = IF Op(c) = "sign" THEN [chunk EXCEPT ![c] = @ + 1] ELSE chunk
    /\ signing' = IF Op(c) # "sign" THEN signing
                  ELSE IF chunk[c] = 0 THEN <<<<c, 1>>>>
                  ELSE IF signing = <<>> THEN <<>>
                  ELSE Append(signing, <<c, chunk[c] + 1>>)
    /\ early' = (early \/ info # "polkadot")
    /\ UNCHANGED <<keyVars, info, infoWoken, verified, app, signed, interleaved, appAsked,
                   denied>>

SendInfo ==
    /\ info = "free" /\ MaySend(infoWoken)
    /\ info' = "sent" /\ infoWoken' = FALSE
    /\ busy' = Info
    /\ clash' = (clash \/ busy # NoCall)
    /\ appAsked' = appAsked + 1
    /\ UNCHANGED <<step, woken, chunk, keyVars, verified, deviceVars, interleaved, early, denied>>

\* The exchange is over: whoever waited for it looks again.
Freed ==
    /\ busy' = NoCall
    /\ woken' = woken \cup {d \in LedgerCall : step[d] = "free"}
    /\ infoWoken' = (infoWoken \/ info = "free")

-----------------------------------------------------------------------------
(* The device *)

\* The user opens the Polkadot app.
OpenApp ==
    /\ app # "polkadot" /\ app' = "polkadot"
    /\ UNCHANGED <<ownVars, busy, signing, signed, ghostVars, denied>>

InfoComes ==
    /\ busy = Info /\ Freed
    /\ \/ info' = app /\ UNCHANGED denied
       \/ info' = "failed" /\ denied < MaxDenied /\ denied' = denied + 1
    /\ UNCHANGED <<step, chunk, keyVars, verified, deviceVars, ghostVars>>

\* The device is asked for more of a message that it did not get the start of.
Lost(c) == Op(c) = "sign" /\ signing = <<>>

\* The answer to a chunk: the next one is sent, or the call ends with the signature of
\* what the device has. An error ends the call.
AnswerComes(c) ==
    /\ busy = c /\ Freed
    /\ \/ /\ ~Lost(c)
          /\ LET more == Op(c) = "sign" /\ chunk[c] < LedgerCalls[c].chunks
             IN  /\ step' = [step EXCEPT ![c] = IF more THEN "verified" ELSE "done"]
                 /\ IF Op(c) = "sign" /\ ~more
                    THEN signed' = [signed EXCEPT ![c] = signing] /\ signing' = <<>>
                    ELSE UNCHANGED <<signed, signing>>
          /\ UNCHANGED denied
       \/ /\ step' = [step EXCEPT ![c] = "failed"]
          /\ signing' = IF Op(c) = "sign" THEN <<>> ELSE signing
          /\ IF Lost(c) THEN UNCHANGED denied ELSE denied < MaxDenied /\ denied' = denied + 1
          /\ UNCHANGED signed
    /\ UNCHANGED <<chunk, keyVars, info, verified, app, ghostVars>>

-----------------------------------------------------------------------------
LedgerInit ==
    /\ step = [c \in LedgerCall |-> "idle"] /\ woken = {} /\ chunk = [c \in LedgerCall |-> 0]
    /\ owner = [p \in {KeyPath(c) : c \in LedgerCall} |-> NoCall]
    /\ shares = [c \in LedgerCall |-> NoCall]
    /\ info = "none" /\ infoWoken = FALSE /\ verified = FALSE
    /\ busy = NoCall /\ app \in {"polkadot", "other"}
    /\ signing = <<>> /\ signed = [c \in LedgerCall |-> <<>>] /\ interleaved = {}
    /\ appAsked = 0 /\ early = FALSE /\ clash = FALSE /\ denied = 0

\* What goes on by itself: microtasks run, and the device answers in the end.
Owed == \/ \E c \in LedgerCall : Verified(c) \/ Shared(c) \/ SendChunk(c) \/ AnswerComes(c)
        \/ SendInfo \/ InfoComes

LedgerNext == (\E c \in LedgerCall : Start(c)) \/ OpenApp \/ Owed

LedgerFairness == WF_ledgerVars(Owed)

LedgerSpec == LedgerInit /\ [][LedgerNext]_ledgerVars /\ LedgerFairness

-----------------------------------------------------------------------------
(* Properties *)

LedgerTypeOK ==
    /\ woken \cup interleaved \subseteq LedgerCall
    /\ busy \in LedgerCall \cup {Info, NoCall}
    /\ \A c \in LedgerCall : step[c] = "sent" => busy = c

\* The transport is never used while it is busy, though every call waits for it alone.
NeverClashes == ~clash

\* The device is asked once which app it runs, and nothing else before it told; nothing
\* is asked of another app.
AsksTheAppFirst == appAsked <= 1 /\ ~early

OwnChunks(c) == [i \in 1 .. LedgerCalls[c].chunks |-> <<c, i>>]

\* A signature is over the message of the call, in order, unless another one was signed
\* in the same time.
SignsItsMessage ==
    \A c \in LedgerCall : signed[c] # <<>> /\ c \notin interleaved => signed[c] = OwnChunks(c)

\* A call fails for a reason: the device, the app that was open, a key that the call
\* shares with one that failed, or another signature in the same time.
FailsForAReason ==
    \A c \in LedgerCall : step[c] = "failed" =>
        denied > 0 \/ info = "other" \/ c \in interleaved

LedgerIsRight == NeverClashes /\ AsksTheAppFirst /\ SignsItsMessage /\ FailsForAReason

\* README.md:29 of the signer: several calls are queued, so that they do not clash.
SignaturesDoNotClash ==
    \A c \in LedgerCall : signed[c] # <<>> => signed[c] = OwnChunks(c)
===============================================================================
