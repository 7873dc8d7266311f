----------------------------- MODULE SyncProvider -----------------------------
(***************************************************************************)
(* getSyncProvider of json-rpc-provider-proxy: it starts the inner         *)
(* provider (a WebSocket, a smoldot chain), hands its connections to the   *)
(* proxy of JsonRpcProxy, and starts it again after every halt. Timers     *)
(* fire when no other code runs; how long they wait is left out.           *)
(***************************************************************************)
EXTENDS JsonRpcProxy

VARIABLES
    startTimers,   \* timers armed by start()
    zeroTimers,    \* timers armed by startNow()
    attempts,      \* calls of `input` whose result did not come yet
    stop,          \* what the variable `stop` cancels
    isOn,          \* the latest connection did not halt
    hasConnection, \* the inner provider may still call onHalt
    afterHalt,     \* the start() that follows onHalt(e) did not run yet
    inCallback     \* the consumer was just handed a message

timerVars == <<startTimers, zeroTimers, attempts, stop>>
syncVars  == <<timerVars, isOn, hasConnection, afterHalt, inCallback>>
allVars   == <<vars, syncVars>>

SyncTypeOK ==
    /\ TypeOK
    /\ {startTimers, zeroTimers, attempts} \subseteq Nat
    /\ stop \in {"noop", "clearZero", "abort"}
    /\ {isOn, hasConnection, afterHalt, inCallback} \subseteq BOOLEAN

SyncInit ==
    /\ Init
    /\ startTimers = 0
    /\ zeroTimers = 1
    /\ attempts = 0
    /\ stop = "clearZero"
    /\ isOn = FALSE
    /\ hasConnection = FALSE
    /\ afterHalt = FALSE
    /\ inCallback = FALSE

Idle == ~InLoop /\ ~afterHalt

StartNow ==
    /\ Idle
    /\ startTimers > 0
    /\ startTimers' = startTimers - 1
    /\ zeroTimers' = zeroTimers + 1
    /\ stop' = "clearZero"
    /\ UNCHANGED <<vars, attempts, isOn, hasConnection, afterHalt>>
    /\ inCallback' = FALSE

CallInput ==
    /\ Idle
    /\ zeroTimers > 0
    /\ zeroTimers' = zeroTimers - 1
    /\ attempts' = attempts + 1
    /\ stop' = "abort"
    /\ UNCHANGED <<vars, startTimers, isOn, hasConnection, afterHalt>>
    /\ inCallback' = FALSE

\* Mutant: no new attempt.
InputFailsForGood ==
    /\ Idle
    /\ attempts > 0
    /\ attempts' = attempts - 1
    /\ stop' = "noop"
    /\ UNCHANGED <<vars, startTimers, zeroTimers, isOn, hasConnection, afterHalt>>
    /\ inCallback' = FALSE

\* The inner provider could not be started.
InputFails ==
    /\ Idle
    /\ attempts > 0
    /\ attempts' = attempts - 1
    /\ stop' = "noop"
    /\ startTimers' = startTimers + 1
    /\ UNCHANGED <<vars, zeroTimers, isOn, hasConnection, afterHalt>>
    /\ inCallback' = FALSE

\* It is there; nobody connects to it if the consumer has gone.
InputSucceeds ==
    /\ Idle
    /\ attempts > 0
    /\ attempts' = attempts - 1
    /\ stop' = "noop"
    /\ IF gone
         THEN UNCHANGED <<vars, isOn, hasConnection>>
         ELSE Connect /\ isOn' = TRUE /\ hasConnection' = TRUE
    /\ inCallback' = FALSE
    /\ UNCHANGED <<startTimers, zeroTimers, afterHalt>>

\* Mutant: every report of a halt starts a new attempt.
InnerHaltUnguarded ==
    /\ hasConnection
    /\ IF isOn THEN Halt ELSE UNCHANGED vars
    /\ isOn' = FALSE
    /\ afterHalt' = TRUE
    /\ inCallback' = FALSE
    /\ UNCHANGED <<timerVars, hasConnection>>

\* The inner provider may report the same halt several times.
InnerHalt ==
    /\ hasConnection
    /\ IF isOn
         THEN /\ Halt
              /\ isOn' = FALSE
              /\ afterHalt' = TRUE
         ELSE UNCHANGED <<vars, isOn, afterHalt>>
    /\ inCallback' = FALSE
    /\ UNCHANGED <<timerVars, hasConnection>>

\* onHalt(e) returned: start() runs, whatever happened in the meantime.
StartAfterHalt ==
    /\ afterHalt
    /\ toStop = {} /\ toSettle = {}
    /\ afterHalt' = FALSE
    /\ startTimers' = startTimers + 1
    /\ inCallback' = FALSE
    /\ UNCHANGED <<vars, zeroTimers, attempts, stop, isOn, hasConnection>>

\* The consumer calls from code of its own, or from inside a callback.
MayCall == Idle \/ inCallback

\* Mutant: stop() is not called.
SyncDisconnectKeepsTrying ==
    /\ MayCall
    /\ Disconnect
    /\ startTimers' = IF startTimers = 0 THEN 0 ELSE startTimers - 1
    /\ hasConnection' = (hasConnection /\ LateHalts)
    /\ UNCHANGED <<zeroTimers, attempts, stop, isOn, afterHalt, inCallback>>

\* `token` and `stop` are the latest timer and the latest attempt. A halt that
\* is being reported will still be reported if LateHalts.
SyncDisconnect ==
    /\ MayCall
    /\ Disconnect
    /\ startTimers' = IF startTimers = 0 THEN 0 ELSE startTimers - 1
    /\ zeroTimers' = IF stop = "clearZero" THEN zeroTimers - 1 ELSE zeroTimers
    /\ attempts' = IF stop = "abort" THEN attempts - 1 ELSE attempts
    /\ stop' = "noop"
    /\ hasConnection' = (hasConnection /\ LateHalts)
    /\ UNCHANGED <<isOn, afterHalt, inCallback>>

ConsumerCall ==
    /\ MayCall
    /\ \/ \E r \in Requests : Request(r)
       \/ \E o \in Operations : \E s \in live : Unfollow(o, s)
       \/ \E b \in Broadcasts : Broadcast(b) \/ StopBroadcast(b)
    /\ UNCHANGED syncVars

\* What goes through the proxy and is none of getSyncProvider's business.
ProxyStep ==
    /\ Loops \/ Server
    /\ inCallback' = (<<replies, stopped>>' # <<replies, stopped>>)
    /\ UNCHANGED <<timerVars, isOn, hasConnection, afterHalt>>

Timers == StartNow \/ CallInput

SyncNext ==
    \/ Timers
    \/ InputFails \/ InputSucceeds
    \/ InnerHalt \/ StartAfterHalt
    \/ SyncDisconnect
    \/ ConsumerCall \/ ProxyStep

SyncSpec == SyncInit /\ [][SyncNext]_allVars

(***************************************************************************)
(* What follows the loops and the timers runs, and an inner provider that  *)
(* is tried again and again is found at last. Nothing else in getSync-     *)
(* Provider constrains the steps of the proxy's own fairness.              *)
(***************************************************************************)
SyncFairSpec ==
    /\ SyncSpec
    /\ Fairness
    /\ WF_allVars(StartAfterHalt)
    /\ WF_allVars(Timers)
    /\ WF_allVars(InputFails \/ InputSucceeds)
    /\ SF_allVars(InputSucceeds)

-------------------------------------------------------------------------------
Running == startTimers + zeroTimers + attempts

\* At any time there is one connection, or one way to the next one: repeated
\* halts and failed attempts never start two of them.
OneAttempt ==
    ~gone =>
        Running + (IF isOn THEN 1 ELSE 0) + (IF afterHalt THEN 1 ELSE 0) = 1

\* connect is never called on a proxy that is not Connecting, where it would
\* throw "Nonesense".
ConnectIsLegal == ~gone /\ Running > 0 => state = "Connecting"

\* `stop` always cancels what is under way.
StopIsCurrent ==
    ~gone =>
        /\ stop = "clearZero" <=> zeroTimers > 0
        /\ stop = "abort" <=> attempts > 0

\* Disconnecting cancels whatever was under way, outside of onHalt.
DisconnectCancels ==
    [][~gone /\ gone' /\ ~afterHalt => Running' = 0]_allVars

\* A session that is not connected, for whatever reason, connects again.
Reconnects == state = "Connecting" ~> state = "Connected" \/ gone

\* However often halts are reported and attempts fail, there is a connection, or
\* one way to the next one, which `stop` cancels and the proxy waits for.
OneWayBack == OneAttempt /\ ConnectIsLegal /\ StopIsCurrent

\* The session connects again, every request is answered over whatever halts, and
\* broadcasts that were stopped end.
NothingWaitsForever == Reconnects /\ EveryRequestAnswered /\ StoppedBroadcastEnds
===============================================================================
