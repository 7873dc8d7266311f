---------------------------- MODULE LegacyRequests ----------------------------
(***************************************************************************)
(* withLegacy (ws-middleware): what a client asks of a node that has no    *)
(* chainHead, archive or transaction functions. Each operation becomes     *)
(* requests of the old API: descendants are asked for page by page, and    *)
(* values that are refused are asked for again in halves. The blocks of a  *)
(* subscription are in LegacyBlocks.                                       *)
(***************************************************************************)
EXTENDS Naturals, Sequences, SequencesExt, FiniteSets

CONSTANTS NKeys,       \* the descendants of the key that is asked for are 1 .. NKeys
          PageSize,    \* keys in a page: 1000 in the code
          MaxSplits,   \* batches of values are halved until there were more: 3
          Asked,       \* what the n-th operation may ask: "call" alone, or storage items
          MaxFollows,  \* bounds: subscriptions and broadcasts
          MaxBroadcasts

ASSUME PagesAssumption == NKeys \in Nat /\ PageSize \in Nat /\ PageSize > 1 /\ MaxSplits \in Nat

\* There is one key to ask the descendants of.
ASSUME AskedAssumption ==
    /\ MaxFollows \in Nat
    /\ Asked \in Seq(SUBSET Seq({"call", "value", "hash", "absent", "descendants"}))
    /\ \A n \in DOMAIN Asked : \A items \in Asked[n] : \A i, j \in DOMAIN items :
          items[i] = "descendants" /\ items[j] = "descendants" => i = j

\* Who an operation belongs to, besides the subscriptions 1 .. MaxFollows.
Archive == 0
Nobody  == MaxFollows + 1

VARIABLES
    followers,   \* subscriptions: Map of chain-head.ts
    nFollows,    \* tokens given
    operations,  \* [owner, items]: owner is a follower, Archive or Nobody
    running,     \* those that are subscribed to their requests
    logs,        \* what the client heard of each: keys, 0 for a single value, and its end
    asking,      \* the requests that wait for an answer
    casts,       \* broadcasts: sent, waiting (for 5 s), accepted or over
    repeats,     \* a page of the node starts with the key it continues from
    link         \* "on", "failed" when its blocks failed, "halted" or "left"

legacyVars == <<followers, nFollows, operations, running, logs, asking, casts, repeats, link>>

Key(k)   == <<"key", k>>
End(how) == <<"end", how>>
Ends     == {End("done"), End("error"), End("given up")}

\* Those in the maps of chain-head.ts and archive.ts: single requests of the archive
\* are in none.
Tracked == {o \in running : operations[o].owner # Nobody}

LegacyInit ==
    /\ followers = {} /\ nFollows = 0
    /\ operations = <<>> /\ running = {} /\ logs = <<>> /\ asking = {}
    /\ casts = <<>>
    /\ repeats \in BOOLEAN
    /\ link = "on"

-------------------------------------------------------------------------------
(***************************************************************************)
(* Requests of an operation                                                *)
(***************************************************************************)
Ask(o, k, what) == [op |-> o, item |-> k, what |-> what, from |-> 0, keys |-> <<>>, splits |-> 0]

\* getStg$, runtimeCall and getBody: the first request of each item.
FirstAsk(o, k, item) == Ask(o, k, IF item = "descendants" THEN "page" ELSE item)

\* getValues: no request for no keys.
AskValues(r, keys, splits) ==
    IF keys = <<>> THEN {}
    ELSE {[r EXCEPT !.what = "values", !.from = 0, !.keys = keys, !.splits = splits]}

\* state_getKeysPaged: from a key on, which some nodes repeat.
PageFrom(key) ==
    LET first == IF repeats /\ key > 0 THEN key ELSE key + 1
        left  == NKeys + 1 - first
    IN  [i \in 1 .. (IF left < PageSize THEN left ELSE PageSize) |-> first + i - 1]

\* An answer: the client hears `heard`, and there are `more` requests; the last
\* answer of an operation ends it.
GoesOn(r, heard, more) ==
    LET left == (asking \ {r}) \cup more
        over == ~\E q \in left : q.op = r.op
    IN  /\ asking' = left
        /\ logs' = [logs EXCEPT ![r.op] = @ \o heard \o (IF over THEN <<End("done")>> ELSE <<>>)]
        /\ running' = IF over THEN running \ {r.op} ELSE running
        /\ UNCHANGED <<followers, nFollows, operations, casts, repeats, link>>

\* These operations end at once, with nothing asked any more.
EndAll(ends, how) ==
    /\ asking' = {q \in asking : q.op \notin ends}
    /\ logs' = [o \in DOMAIN logs |-> IF o \in ends THEN Append(logs[o], End(how)) ELSE logs[o]]
    /\ running' = running \ ends

\* obsRequest: a single value, "absent" is a value that is null, and a hash
ValueComes(r) ==
    /\ r.what \in {"call", "value", "absent", "hash"}
    /\ GoesOn(r, IF r.what \in {"value", "hash"} THEN <<Key(0)>> ELSE <<>>, {})

\* Mutant: the next page starts after the last key, whoever repeats it.
PageComesRepeated(r) ==
    LET received == PageFrom(r.from)
    IN  /\ r.what = "page"
        /\ GoesOn(r, <<>>,
                  AskValues(r, received, 0)
                  \cup IF Len(received) < PageSize THEN {}
                       ELSE {[r EXCEPT !.from = Last(received)]})

\* getKeys: a page without the key it repeats, and the next one if it was full.
PageComes(r) ==
    LET received == PageFrom(r.from)
        keys == IF received # <<>> /\ received[1] = r.from THEN Tail(received) ELSE received
    IN  /\ r.what = "page"
        /\ GoesOn(r, <<>>,
                  AskValues(r, keys, 0)
                  \cup IF Len(received) < PageSize THEN {}
                       ELSE {[r EXCEPT !.from = Last(received)]})

\* getValues
ValuesCome(r) == r.what = "values" /\ GoesOn(r, [k \in DOMAIN r.keys |-> Key(r.keys[k])], {})

\* stgHash: a node that does not know the hashes is asked for the value.
NoSuchMethod(r) == r.what = "hash" /\ GoesOn(r, <<>>, {[r EXCEPT !.what = "value"]})

\* Too many values for an answer: they are asked for in halves.
Halved(r) ==
    LET mid == Len(r.keys) \div 2
    IN  /\ r.what = "values" /\ r.splits <= MaxSplits
        /\ GoesOn(r, <<>>, AskValues(r, SubSeq(r.keys, 1, mid), r.splits + 1)
                           \cup AskValues(r, SubSeq(r.keys, mid + 1, Len(r.keys)), r.splits + 1))

\* Every other error ends the operation.
Fails(r) ==
    /\ r.what = "values" => r.splits > MaxSplits
    /\ EndAll({r.op}, "error")
    /\ UNCHANGED <<followers, nFollows, operations, casts, repeats, link>>

-------------------------------------------------------------------------------
(***************************************************************************)
(* The client                                                              *)
(***************************************************************************)
\* _follow: -32800 to the third one, which changes nothing.
NewFollower ==
    /\ link = "on" /\ nFollows < MaxFollows
    /\ Cardinality(followers) # 2
    /\ nFollows' = nFollows + 1
    /\ followers' = followers \cup {nFollows'}
    /\ UNCHANGED <<operations, running, logs, asking, casts, repeats, link>>

\* cleanUp of a subscription
OperationsOf(f) == {o \in running : operations[o].owner = f}

\* _unfollow
EndFollower(f) ==
    /\ link \in {"on", "failed"} /\ f \in followers
    /\ followers' = followers \ {f}
    /\ EndAll(OperationsOf(f), "given up")
    /\ UNCHANGED <<nFollows, operations, casts, repeats, link>>

\* _call, _body, _stg and those of archive.ts
Operation(owner, items) ==
    LET o == Len(operations) + 1
    IN  /\ link \in {"on", "failed"}
        /\ o <= Len(Asked) /\ items \in Asked[o]
        /\ operations' = Append(operations, [owner |-> owner, items |-> items])
        /\ asking' = asking \cup {FirstAsk(o, k, items[k]) : k \in DOMAIN items}
        \* No item: the merge completes while it is subscribed to.
        /\ logs' = Append(logs, IF items = <<>> THEN <<End("done")>> ELSE <<>>)
        /\ running' = IF items = <<>> THEN running ELSE running \cup {o}
        /\ UNCHANGED <<followers, nFollows, casts, repeats, link>>

\* _stopOperation, and archive_v1_stopStorage
StopOperation(o) ==
    /\ link \in {"on", "failed"} /\ o \in Tracked
    /\ EndAll({o}, "given up")
    /\ UNCHANGED <<followers, nFollows, operations, casts, repeats, link>>

-------------------------------------------------------------------------------
(***************************************************************************)
(* Broadcasts (createTransactionFns)                                       *)
(***************************************************************************)
Cast(c, phase) ==
    /\ casts' = [casts EXCEPT ![c] = phase]
    /\ UNCHANGED <<followers, nFollows, operations, running, logs, asking, repeats, link>>

Submit ==
    /\ link = "on" /\ Len(casts) < MaxBroadcasts
    /\ casts' = Append(casts, "sent")
    /\ UNCHANGED <<followers, nFollows, operations, running, logs, asking, repeats, link>>

SubmitAnswered(c) == link \in {"on", "failed"} /\ casts[c] = "sent" /\ Cast(c, "accepted")

\* catchError: five seconds later it is sent again, for as long as it takes.
SubmitFails(c) == link \in {"on", "failed"} /\ casts[c] = "sent" /\ Cast(c, "waiting")

SubmitAgain(c) == casts[c] = "waiting" /\ Cast(c, "sent")

StopSubmit(c) == link \in {"on", "failed"} /\ casts[c] \in {"sent", "waiting"} /\ Cast(c, "over")

CastsOver == [c \in DOMAIN casts |-> IF casts[c] = "accepted" THEN "accepted" ELSE "over"]

-------------------------------------------------------------------------------
(***************************************************************************)
(* The end                                                                 *)
(***************************************************************************)
\* The stream of finalized blocks fails: takeUntil of a broadcast, and the error of
\* blocks$, which cleans each subscription up before it sends the stop event.
BlocksFail ==
    /\ link = "on"
    /\ link' = "failed"
    /\ followers' = {}
    /\ EndAll({o \in running : operations[o].owner \in followers}, "given up")
    /\ casts' = CastsOver
    /\ UNCHANGED <<nFollows, operations, repeats>>

\* clean: the stop of each group
CleanedUp ==
    /\ followers' = {}
    /\ casts' = CastsOver
    /\ UNCHANGED <<nFollows, operations, repeats>>

\* onHalt: single requests are never answered.
LinkHalts ==
    /\ link \in {"on", "failed"}
    /\ link' = "halted"
    /\ EndAll(Tracked, "given up")
    /\ CleanedUp

\* disconnect: the client of the requests rejects those that are left.
LeaveNode ==
    /\ link \in {"on", "failed"}
    /\ link' = "left"
    /\ asking' = {}
    /\ logs' = [o \in DOMAIN logs |->
                   CASE o \in Tracked -> Append(logs[o], End("given up"))
                     [] o \in running \ Tracked -> Append(logs[o], End("error"))
                     [] OTHER -> logs[o]]
    /\ running' = {}
    /\ CleanedUp

LegacyNext ==
    \/ link \in {"on", "failed"} /\ \E r \in asking :
          ValueComes(r) \/ PageComes(r) \/ ValuesCome(r) \/ NoSuchMethod(r) \/ Halved(r) \/ Fails(r)
    \/ NewFollower
    \/ \E f \in followers : EndFollower(f)
    \/ \E owner \in followers \cup {Archive}, items \in UNION ToSet(Asked) :
          Operation(owner, items)
    \/ Operation(Nobody, <<"call">>)
    \/ \E o \in Tracked : StopOperation(o)
    \/ Submit
    \/ \E c \in DOMAIN casts : SubmitAnswered(c) \/ SubmitFails(c) \/ SubmitAgain(c) \/ StopSubmit(c)
    \/ BlocksFail \/ LinkHalts \/ LeaveNode

-------------------------------------------------------------------------------
Heard(o, what) == Cardinality({i \in DOMAIN logs[o] : logs[o][i] = what})
Values(o)      == {k \in DOMAIN operations[o].items : operations[o].items[k] \in {"value", "hash"}}

\* The client hears the end of an operation once and nothing after it, also if it gave
\* the operation up.
EndsOnce ==
    \A o \in DOMAIN operations :
        /\ \A i \in DOMAIN logs[o] : logs[o][i] \in Ends => i = Len(logs[o])
        /\ (o \in running) <=> ~\E i \in DOMAIN logs[o] : logs[o][i] \in Ends

\* An operation that goes on waits for the node; one that ended asks for nothing.
RunningAsks ==
    \A o \in DOMAIN operations : o \in running <=> \E r \in asking : r.op = o

\* Pages and halves give every key once, whatever pages start with and whatever was
\* refused: none twice on the way, none left out at the end.
KeysComeOnce ==
    \A o \in DOMAIN operations :
        /\ \A k \in 1 .. NKeys : Heard(o, Key(k)) <= 1
        /\ Heard(o, End("done")) = 1 =>
              /\ Heard(o, Key(0)) = Cardinality(Values(o))
              /\ Contains(operations[o].items, "descendants") => \A k \in 1 .. NKeys : Heard(o, Key(k)) = 1

\* Nothing goes on for a subscription that is gone, or on a connection that is.
NothingOutlives ==
    /\ Cardinality(followers) <= 2
    /\ \A o \in Tracked : operations[o].owner \in followers \cup {Archive}
    /\ link \in {"halted", "left"} =>
          /\ Tracked = {} /\ followers = {}
          /\ \A c \in DOMAIN casts : casts[c] \in {"accepted", "over"}

\* withLegacy: every operation that is started comes to its one end with everything it
\* asked for, and nothing of it is left when it, its subscription or the link ended.
OperationsAreRight == EndsOnce /\ RunningAsks /\ KeysComeOnce /\ NothingOutlives
===============================================================================
