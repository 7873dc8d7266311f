------------------------ MODULE ChainHeadFollowProofs -------------------------
(***************************************************************************)
(* What a client that follows a chain guarantees, for any number of        *)
(* operations and of stops, refusals and failed requests; and what its     *)
(* queue of refused operations does, for any number of tasks and any limit *)
(* of the server.                                                          *)
(***************************************************************************)
EXTENDS ChainHeadFollow, OperationQueue, SequenceLemmas

Sent(k, x) == Message(k, x) \in Range(toServer)
Coming(k, x) == Message(k, x) \in Range(toClient)

-------------------------------------------------------------------------------
(***************************************************************************)
(* Messages.                                                               *)
(***************************************************************************)
LEMMA MessagesDiffer ==
  \A k, l, x, y : Message(k, x) = Message(l, y) <=> k = l /\ x = y
BY DEF Message

LEMMA MessagesTyped ==
  /\ \A i \in Follower :
       /\ Message("follow", i) \in Messages
       /\ Message("unfollow", i) \in Messages
       /\ Message("followed", i) \in Messages
       /\ Message("refused", i) \in Messages
       /\ Message("initialized", i) \in Messages
       /\ Message("stop", i) \in Messages
  /\ \A o \in Op :
       /\ Message("operation", o) \in Messages
       /\ Message("stopOperation", o) \in Messages
       /\ Message("started", o) \in Messages
       /\ Message("failed", o) \in Messages
       /\ Message("done", o) \in Messages
BY DEF Message, Messages

Channel(q) == q \in Seq(Messages) /\ IsInjective(q)

\* What a channel holds when a message is added,
LEMMA Adding ==
  ASSUME NEW q, Channel(q), NEW k, NEW x,
         Message(k, x) \in Messages, Message(k, x) \notin Range(q)
  PROVE  /\ Channel(Append(q, Message(k, x)))
         /\ \A l, y : Message(l, y) \in Range(Append(q, Message(k, x))) <=>
                        Message(l, y) \in Range(q) \/ (l = k /\ y = x)
BY AppendElements, MessagesDiffer DEF Channel

\* and when one is taken.
LEMMA Taking ==
  ASSUME NEW q, Channel(q), q # <<>>, NEW k, NEW x, Head(q) = Message(k, x)
  PROVE  /\ Message(k, x) \in Range(q)
         /\ Channel(Tail(q))
         /\ \A l, y : Message(l, y) \in Range(Tail(q)) <=>
                        Message(l, y) \in Range(q) /\ ~(l = k /\ y = x)
BY TailElements, MessagesDiffer DEF Channel

NoRepetition == Channel(toServer) /\ Channel(toClient)

LEMMA Received ==
  ASSUME NoRepetition, NEW k, NEW x, Receive(k, x)
  PROVE  /\ Coming(k, x)
         /\ Channel(toClient')
         /\ \A l, y : Coming(l, y)' <=> Coming(l, y) /\ ~(l = k /\ y = x)
BY Taking DEF NoRepetition, Receive, Coming

LEMMA Served ==
  ASSUME NoRepetition, NEW k, NEW x, Serve(k, x)
  PROVE  /\ Sent(k, x)
         /\ Channel(toServer')
         /\ \A l, y : Sent(l, y)' <=> Sent(l, y) /\ ~(l = k /\ y = x)
BY Taking DEF NoRepetition, Serve, Sent

LEMMA ToClient ==
  ASSUME NoRepetition, NEW k, NEW x, Message(k, x) \in Messages, ~Coming(k, x),
         toClient' = Append(toClient, Message(k, x))
  PROVE  /\ Channel(toClient')
         /\ \A l, y : Coming(l, y)' <=> Coming(l, y) \/ (l = k /\ y = x)
BY Adding DEF NoRepetition, Coming

LEMMA ToServer ==
  ASSUME NoRepetition, NEW k, NEW x, Message(k, x) \in Messages, ~Sent(k, x),
         toServer' = Append(toServer, Message(k, x))
  PROVE  /\ Channel(toServer')
         /\ \A l, y : Sent(l, y)' <=> Sent(l, y) \/ (l = k /\ y = x)
BY Adding DEF NoRepetition, Sent

LEMMA SameMessages ==
  /\ toServer' = toServer => \A l, y : Sent(l, y)' <=> Sent(l, y)
  /\ toClient' = toClient => \A l, y : Coming(l, y)' <=> Coming(l, y)
BY DEF Sent, Coming

-------------------------------------------------------------------------------
(***************************************************************************)
(* The inductive invariant, in parts. Where the messages about a follower  *)
(* are:                                                                    *)
(***************************************************************************)
SilentFollower(i) ==
    /\ ~Coming("followed", i)
    /\ ~Coming("refused", i)
    /\ ~Coming("initialized", i)
    /\ ~Coming("stop", i)

Unanswered(i) == sub[i] = "waiting" \/ i \in abandoned

FollowerAt(i) ==
    /\ sub[i] = "none" =>
         SilentFollower(i) /\ ~Sent("follow", i) /\ i \notin serverSubs
    /\ Sent("follow", i) =>
         Unanswered(i) /\ SilentFollower(i) /\ i \notin serverSubs
    /\ Coming("followed", i) => Unanswered(i) /\ ~Sent("unfollow", i)
    /\ Coming("refused", i) =>
         /\ Unanswered(i) /\ i \notin serverSubs
         /\ ~Coming("followed", i)
         /\ ~Coming("initialized", i)
         /\ ~Coming("stop", i)
    /\ Coming("stop", i) => i \notin serverSubs
    /\ Sent("unfollow", i) =>
         sub[i] = "null" /\ ~Sent("follow", i) /\ ~Coming("refused", i)

\* about an operation:
SilentOp(o) == ~Coming("started", o) /\ ~Coming("failed", o) /\ ~Coming("done", o)

OpAt(o) ==
    /\ stage[o] \in {"idle", "early"} =>
         SilentOp(o) /\ ~Sent("operation", o) /\ o \notin serverOps
    /\ Sent("operation", o) => SilentOp(o) /\ o \notin serverOps
    /\ Coming("started", o) => ~Coming("failed", o)
    /\ Coming("failed", o) => o \notin serverOps /\ ~Coming("done", o)
    /\ Coming("done", o) => o \notin serverOps
    /\ Coming("started", o) \/ Coming("failed", o) \/ Sent("operation", o) =>
         stage[o] \in {"requested", "over"} /\ ~Sent("stopOperation", o)
    /\ Sent("stopOperation", o) => stage[o] = "over"
    /\ stage[o] # "idle" => home[o] \in Follower

Followers == \A i \in Follower : FollowerAt(i)
Operations == \A o \in Op : OpAt(o)

\* Each disturbance leads to one call of chainHead() at most: those that did, and
\* those that may still.
Lost == {i \in Follower : Coming("stop", i) \/ Coming("refused", i)}

Counted ==
    /\ Called = 1 .. Cardinality(Called)
    /\ Cardinality(Called) + Cardinality(Lost) + Len(timers) <= disturbances + 1

\* What getFollow$ does, unless a subscription that was given up was refused.
Control ==
    /\ isDone => Alive = {}
    /\ Alive \subseteq Current
    /\ phase # "broken"
    /\ ~isDone /\ follower # 0 => sub[follower] \in {"waiting", "active"}
    /\ ~isDone /\ follower = 0 => phase = "expecting"
    /\ /\ ~isDone /\ follower # 0
       /\ sub[follower] = "waiting" \/ Coming("initialized", follower)
       => phase = "expecting"
    /\ \A n \in 1 .. Len(timers) :
         timers[n] = "follow" =>
           n = Len(timers) /\ tokenArmed /\ follower = 0 /\ ~isDone

Inv ==
    /\ TypeOK
    /\ NoRepetition
    /\ Followers
    /\ Operations
    /\ Counted
    /\ OperationsAreAttached
    /\ NoLeakedSubscription
    /\ ~crossed => Control

-------------------------------------------------------------------------------
(***************************************************************************)
(* Numbers.                                                                *)
(***************************************************************************)
LEMMA FiniteFollowers ==
  /\ IsFiniteSet(Follower)
  /\ \A T \in SUBSET Follower : IsFiniteSet(T) /\ Cardinality(T) \in Nat
<1>1. IsFiniteSet(Follower)
  BY BoundAssumption, FS_Interval DEF Follower
<1>2. ASSUME NEW T \in SUBSET Follower PROVE IsFiniteSet(T) /\ Cardinality(T) \in Nat
  BY <1>1, FS_Subset, FS_CardinalityType
<1>3. QED
  BY <1>1, <1>2

LEMMA LostTyped == Lost \subseteq Follower /\ Called \subseteq Follower
  BY DEF Lost, Called

\* There is a number left for the next follower.
LEMMA Room ==
  ASSUME TypeOK, Counted, Lost # {} \/ timers # <<>>
  PROVE  /\ NextFollower \in Follower
         /\ NextFollower # 0
         /\ sub[NextFollower] = "none"
         /\ Called \cup {NextFollower} = 1 .. NextFollower
<1>1. /\ Cardinality(Called) \in Nat
      /\ IsFiniteSet(Lost) /\ Cardinality(Lost) \in Nat
  BY FiniteFollowers, LostTyped
<1>2. Lost # {} => Cardinality(Lost) # 0
  BY <1>1, FS_EmptySet
<1>3. Len(timers) \in Nat /\ (timers # <<>> => Len(timers) # 0)
  BY LenProperties, EmptySeq DEF TypeOK
<1>4. disturbances \in Nat /\ disturbances <= MaxDisturbances /\ MaxDisturbances \in Nat
  BY BoundAssumption DEF TypeOK
<1>5. NextFollower \in Nat /\ NextFollower >= 1 /\ NextFollower <= MaxDisturbances + 1
  BY <1>1, <1>2, <1>3, <1>4 DEF Counted, NextFollower
<1>6. NextFollower \in Follower
  BY <1>4, <1>5 DEF Follower
<1>7. NextFollower \notin Called
  BY <1>1, <1>5 DEF Counted, NextFollower
<1>8. Called \cup {NextFollower} = 1 .. NextFollower
  BY <1>1, <1>5 DEF Counted, NextFollower
<1>9. QED
  BY <1>5, <1>6, <1>7, <1>8 DEF Called

LEMMA Counting ==
  ASSUME TypeOK, TypeOK', Counted, Called' = Called,
         Cardinality(Lost') + Len(timers') + disturbances
           <= Cardinality(Lost) + Len(timers) + disturbances'
  PROVE  Counted'
<1>1. /\ Cardinality(Called) \in Nat
      /\ Cardinality(Lost) \in Nat /\ Cardinality(Lost') \in Nat
  BY FiniteFollowers DEF Lost, Called
<1>2. Len(timers) \in Nat /\ Len(timers') \in Nat
  BY LenProperties DEF TypeOK
<1>3. disturbances \in Nat /\ disturbances' \in Nat
  BY DEF TypeOK
<1>4. Cardinality(Called') = Cardinality(Called)
  OBVIOUS
<1>5. Cardinality(Called) + Cardinality(Lost) + Len(timers) <= disturbances + 1
  BY DEF Counted
<1>6. Cardinality(Called') + Cardinality(Lost') + Len(timers') <= disturbances' + 1
  BY <1>1, <1>2, <1>3, <1>4, <1>5
<1>7. QED
  BY <1>6 DEF Counted

LEMMA CountingOneMore ==
  ASSUME TypeOK, TypeOK', Counted, Lost # {} \/ timers # <<>>,
         Called' = Called \cup {NextFollower}, disturbances' = disturbances,
         Cardinality(Lost') + Len(timers') + 1 <= Cardinality(Lost) + Len(timers)
  PROVE  Counted'
<1>1. /\ Cardinality(Called) \in Nat
      /\ Cardinality(Lost) \in Nat /\ Cardinality(Lost') \in Nat
  BY FiniteFollowers DEF Lost, Called
<1>2. Len(timers) \in Nat /\ Len(timers') \in Nat
  BY LenProperties DEF TypeOK
<1>3. disturbances \in Nat
  BY DEF TypeOK
<1>4. Called' = 1 .. NextFollower /\ NextFollower \in Nat /\ NextFollower >= 1
  BY Room DEF Follower
<1>5. Cardinality(Called') = NextFollower
  <2>1. \A n \in Nat : n >= 1 => Cardinality(1 .. n) = n
    BY FS_Interval
  <2>2. QED
    BY <1>4, <2>1
<1>6. QED
  BY <1>1, <1>2, <1>3, <1>4, <1>5 DEF Counted, NextFollower

\* Those that are lost, when one of them is noticed and when one more is.
LEMMA LostChange ==
  /\ Lost' = Lost => Cardinality(Lost') = Cardinality(Lost)
  /\ \A i : i \in Lost /\ Lost' = Lost \ {i} =>
              Cardinality(Lost') = Cardinality(Lost) - 1
  /\ \A i : Lost' = Lost \cup {i} =>
              Cardinality(Lost') <= Cardinality(Lost) + 1
<1>1. IsFiniteSet(Lost) /\ Cardinality(Lost) \in Nat
  BY FiniteFollowers DEF Lost
<1>2. ASSUME NEW i PROVE /\ i \in Lost => Cardinality(Lost \ {i}) = Cardinality(Lost) - 1
                         /\ Cardinality(Lost \cup {i}) <= Cardinality(Lost) + 1
  <2>1. i \in Lost => Cardinality(Lost \ {i}) = Cardinality(Lost) - 1
    BY <1>1, FS_RemoveElement
  <2>2. CASE i \in Lost
    <3>1. Lost \cup {i} = Lost
      BY <2>2
    <3>2. Cardinality(Lost \cup {i}) <= Cardinality(Lost) + 1
      BY <1>1, <3>1
    <3>3. QED
      BY <2>1, <3>2
  <2>3. CASE i \notin Lost
    <3>1. Cardinality(Lost \cup {i}) = Cardinality(Lost) + 1
      BY <1>1, <2>3, FS_AddElement
    <3>2. Cardinality(Lost \cup {i}) <= Cardinality(Lost) + 1
      BY <1>1, <3>1
    <3>3. QED
      BY <2>1, <3>2
  <2>4. QED
    BY <2>2, <2>3
<1>3. QED
  BY <1>2

\* Timers: one is armed, one fires, the last one is cleared.
LEMMA TimersTyped ==
  ASSUME NEW ts \in Seq({"follow", "reset"})
  PROVE  /\ Len(ts) \in Nat
         /\ \A t \in {"follow", "reset"} :
              /\ Append(ts, t) \in Seq({"follow", "reset"})
              /\ Append(ts, t) # <<>>
              /\ Len(Append(ts, t)) = Len(ts) + 1
         /\ ts # <<>> =>
              /\ Tail(ts) \in Seq({"follow", "reset"})
              /\ Len(Tail(ts)) = Len(ts) - 1
              /\ Len(ts) # 0
         /\ \A armed \in BOOLEAN :
              /\ WithoutToken(ts, armed) \in Seq({"follow", "reset"})
              /\ Len(WithoutToken(ts, armed)) <= Len(ts)
<1>1. Len(ts) \in Nat
  BY LenProperties
<1>2. \A t \in {"follow", "reset"} :
        /\ Append(ts, t) \in Seq({"follow", "reset"})
        /\ Append(ts, t) # <<>>
        /\ Len(Append(ts, t)) = Len(ts) + 1
  BY AppendProperties
<1>3. ts # <<>> =>
        /\ Tail(ts) \in Seq({"follow", "reset"})
        /\ Len(Tail(ts)) = Len(ts) - 1
        /\ Len(ts) # 0
  BY HeadTailProperties, EmptySeq
<1>4. ASSUME NEW armed \in BOOLEAN
      PROVE  /\ WithoutToken(ts, armed) \in Seq({"follow", "reset"})
             /\ Len(WithoutToken(ts, armed)) <= Len(ts)
  <2>1. CASE armed /\ ts # <<>>
    BY <1>1, <2>1, FrontElements DEF WithoutToken
  <2>2. CASE ~(armed /\ ts # <<>>)
    BY <1>1, <2>2 DEF WithoutToken
  <2>3. QED
    BY <2>1, <2>2
<1>5. QED
  BY <1>1, <1>2, <1>3, <1>4

-------------------------------------------------------------------------------
(***************************************************************************)
(* What is sent by the operators that several actions share.               *)
(***************************************************************************)
LEMMA SendingEarly ==
  ASSUME NoRepetition, NEW D \in SUBSET Op,
         \A o \in D : ~Sent("operation", o),
         toServer' = toServer \o [n \in 1 .. Cardinality(D) |->
                                    Message("operation", SetToSeq(D)[n])]
  PROVE  /\ Channel(toServer')
         /\ \A l, y : Sent(l, y)' <=> Sent(l, y) \/ (l = "operation" /\ y \in D)
<1> DEFINE N == Cardinality(D)
           f == SetToSeq(D)
           m == [n \in 1 .. N |-> Message("operation", f[n])]
<1>1. /\ N \in Nat
      /\ f \in [1 .. N -> D] /\ IsInjective(f)
      /\ \A o \in D : \E n \in 1 .. N : f[n] = o
  BY OpAssumption, FS_Subset, FS_CardinalityType, SetAsSequence
<1> HIDE DEF N, f
<1>2. m \in Seq(Messages) /\ Len(m) = N
  <2>1. \A n \in 1 .. N : Message("operation", f[n]) \in Messages
    BY <1>1, MessagesTyped
  <2>2. QED
    BY <1>1, <2>1
<1>3. Range(m) = {Message("operation", o) : o \in D}
  <2>1. Range(m) = {m[n] : n \in 1 .. N}
    BY <1>2, RangeEquality
  <2>2. QED
    BY <1>1, <2>1
<1>4. IsInjective(m)
  <2>1. \A a, b \in 1 .. N : f[a] = f[b] => a = b
    BY <1>1 DEF IsInjective
  <2>2. QED
    BY <2>1, <1>1, MessagesDiffer DEF IsInjective
<1> HIDE DEF m
<1>5. Range(toServer) \cap Range(m) = {}
  BY <1>3 DEF Sent
<1>6. toServer' = toServer \o m
  BY DEF m, f, N
<1>7. Channel(toServer') /\ Range(toServer') = Range(toServer) \cup Range(m)
  <2>1. toServer \in Seq(Messages) /\ IsInjective(toServer)
    BY DEF NoRepetition, Channel
  <2>2. /\ toServer \o m \in Seq(Messages)
        /\ Range(toServer \o m) = Range(toServer) \cup Range(m)
        /\ IsInjective(toServer \o m)
    BY <1>2, <1>4, <1>5, <2>1, ConcatElements
  <2>3. QED
    BY <1>6, <2>2 DEF Channel
<1>8. QED
  BY <1>3, <1>7, MessagesDiffer DEF Sent

LEMMA FollowingAgain ==
  ASSUME TypeOK, Counted, Lost # {} \/ timers # <<>>,
         NEW given \in SUBSET Called, NEW q, Channel(q),
         Message("follow", NextFollower) \notin Range(q),
         SetFollower(given, q)
  PROVE  /\ follower' = NextFollower
         /\ NextFollower \in Follower
         /\ NextFollower # 0
         /\ sub[NextFollower] = "none"
         /\ sub' \in [Follower -> {"none", "waiting", "active", "null"}]
         /\ sub'[NextFollower] = "waiting"
         /\ \A i \in Follower : i # NextFollower =>
              sub'[i] = IF i \in given THEN "null" ELSE sub[i]
         /\ Called' = Called \cup {NextFollower}
         /\ Channel(toServer')
         /\ \A l, y : Sent(l, y)' <=>
              Message(l, y) \in Range(q) \/ (l = "follow" /\ y = NextFollower)
<1>1. /\ NextFollower \in Follower
      /\ NextFollower # 0
      /\ sub[NextFollower] = "none"
  BY Room
<1>2. sub' = [i \in Follower |-> IF i = NextFollower THEN "waiting"
                                 ELSE IF i \in given THEN "null" ELSE sub[i]]
  BY DEF SetFollower
<1>3. /\ sub' \in [Follower -> {"none", "waiting", "active", "null"}]
      /\ sub'[NextFollower] = "waiting"
      /\ \A i \in Follower : i # NextFollower =>
           sub'[i] = IF i \in given THEN "null" ELSE sub[i]
  BY <1>1, <1>2 DEF TypeOK
<1>4. Called' = Called \cup {NextFollower}
  BY <1>1, <1>3 DEF Called
<1>5. /\ Channel(toServer')
      /\ \A l, y : Sent(l, y)' <=>
           Message(l, y) \in Range(q) \/ (l = "follow" /\ y = NextFollower)
  <2>1. toServer' = Append(q, Message("follow", NextFollower))
    BY DEF SetFollower
  <2>2. Message("follow", NextFollower) \in Messages
    BY <1>1, MessagesTyped
  <2>3. QED
    BY <2>1, <2>2, Adding DEF Sent
<1>6. QED
  BY <1>1, <1>3, <1>4, <1>5 DEF SetFollower

LEMMA Unfollowing ==
  ASSUME TypeOK, NoRepetition, Followers
  PROVE  /\ Channel(UnfollowNow)
         /\ \A l, y : Message(l, y) \in Range(UnfollowNow) <=>
              \/ Sent(l, y)
              \/ l = "unfollow" /\ y \in Current /\ sub[y] = "active"
<1>1. CASE \E i \in Current : sub[i] = "active"
  <2>1. /\ follower \in Follower /\ Current = {follower}
        /\ sub[follower] = "active"
        /\ UnfollowNow = Append(toServer, Message("unfollow", follower))
    BY <1>1 DEF Current, UnfollowNow, TypeOK
  <2>2. Message("unfollow", follower) \in Messages /\ ~Sent("unfollow", follower)
    BY <2>1, MessagesTyped DEF Followers, FollowerAt
  <2>3. QED
    BY <2>1, <2>2, Adding DEF NoRepetition, Sent
<1>2. CASE ~ \E i \in Current : sub[i] = "active"
  BY <1>2 DEF UnfollowNow, NoRepetition, Sent
<1>3. QED
  BY <1>1, <1>2

-------------------------------------------------------------------------------
(***************************************************************************)
(* What an action leaves as it was, when it is about something else.       *)
(***************************************************************************)
FollowerKinds == {"follow", "unfollow", "followed", "refused", "initialized", "stop"}
OpKinds == {"operation", "stopOperation", "started", "failed", "done"}

Same(kinds) ==
    \A k \in kinds : \A x : (Sent(k, x)' <=> Sent(k, x)) /\ (Coming(k, x)' <=> Coming(k, x))
NoMore(kinds) ==
    \A k \in kinds : \A x : (Sent(k, x)' => Sent(k, x)) /\ (Coming(k, x)' => Coming(k, x))

LEMMA FollowersAsBefore ==
  ASSUME Inv, TypeOK', UNCHANGED <<followVars, subVars, crossed, disturbances, serverSubs>>,
         Same(FollowerKinds)
  PROVE  Followers' /\ Counted' /\ NoLeakedSubscription' /\ (~crossed' => Control')
<1>1. \A i :
        /\ Sent("follow", i)' <=> Sent("follow", i)
        /\ Sent("unfollow", i)' <=> Sent("unfollow", i)
        /\ Coming("followed", i)' <=> Coming("followed", i)
        /\ Coming("refused", i)' <=> Coming("refused", i)
        /\ Coming("initialized", i)' <=> Coming("initialized", i)
        /\ Coming("stop", i)' <=> Coming("stop", i)
  BY DEF Same, FollowerKinds
<1>2. Followers'
  BY <1>1 DEF Inv, Followers, FollowerAt, SilentFollower, Unanswered, subVars
<1>3. NoLeakedSubscription'
  BY <1>1 DEF Inv, NoLeakedSubscription, subVars, Sent, Coming
<1>4. Counted'
  BY <1>1 DEF Inv, Counted, Lost, Called, followVars, subVars
<1>5. ~crossed' => Control'
  BY <1>1 DEF Inv, Control, Alive, Current, followVars, subVars
<1>6. QED
  BY <1>2, <1>3, <1>4, <1>5

LEMMA OperationsAsBefore ==
  ASSUME Inv, NEW D, Enter(D, "over") \/ stage' = stage, home' = home,
         \A o \in D \cap Op : stage[o] # "idle",
         serverOps' \subseteq serverOps, NoMore(OpKinds)
  PROVE  Operations'
<1>1. \A o :
        /\ Sent("operation", o)' => Sent("operation", o)
        /\ Sent("stopOperation", o)' => Sent("stopOperation", o)
        /\ Coming("started", o)' => Coming("started", o)
        /\ Coming("failed", o)' => Coming("failed", o)
        /\ Coming("done", o)' => Coming("done", o)
  BY DEF NoMore, OpKinds
<1>2. \A o \in Op : stage'[o] = stage[o] \/ (stage'[o] = "over" /\ o \in D)
  BY DEF Enter
<1>3. ASSUME NEW o \in Op PROVE OpAt(o)'
  <2>1. OpAt(o)
    BY DEF Inv, Operations
  <2>2. QED
    BY <1>1, <1>2, <1>3, <2>1 DEF OpAt, SilentOp
<1>4. QED
  BY <1>3 DEF Operations

LEMMA OperationsUntouched ==
  ASSUME Inv, UNCHANGED <<stage, home>>, serverOps' \subseteq serverOps, NoMore(OpKinds)
  PROVE  Operations'
<1>1. \A o \in {} \cap Op : stage[o] # "idle"
  OBVIOUS
<1>2. QED
  BY <1>1, OperationsAsBefore

\* Requests that were rejected are attached to nothing.
LEMMA AttachedAsBefore ==
  ASSUME Inv, NEW D, Enter(D, "over") \/ stage' = stage, home' = home,
         \A i \in Follower : sub[i] = "active" =>
           \/ sub'[i] = "active"
           \/ Of(i, {"requested", "listening"}) \subseteq D /\ Enter(D, "over")
  PROVE  OperationsAreAttached'
<1>1. \A o \in Op : stage'[o] = stage[o] \/ stage'[o] = "over"
  BY DEF Enter
<1>2. ASSUME NEW o \in Op, stage'[o] \in {"requested", "listening"}
      PROVE  sub'[home'[o]] = "active"
  <2>1. stage[o] = stage'[o]
    BY <1>1, <1>2
  <2>2. sub[home[o]] = "active" /\ home[o] \in Follower
    BY <1>2, <2>1 DEF Inv, OperationsAreAttached, Operations, OpAt
  <2>3. Enter(D, "over") => o \notin D
    BY <1>2 DEF Enter
  <2>4. o \in Of(home[o], {"requested", "listening"})
    BY <1>2, <2>1 DEF Of
  <2>5. QED
    BY <2>2, <2>3, <2>4
<1>3. QED
  BY <1>2 DEF OperationsAreAttached

-------------------------------------------------------------------------------
(***************************************************************************)
(* Actions of the operations.                                              *)
(***************************************************************************)
LEMMA CallKeeps == ASSUME Inv, NEW o \in Op, Call(o) PROVE Inv'
<1> USE DEF Inv
<1>1. /\ stage[o] = "idle" /\ follower \in Follower
      /\ StageOfCall \in {"early", "requested", "over"}
      /\ StageOfCall = "requested" => sub[follower] = "active"
  BY DEF Call, StageOfCall, TypeOK
<1>2. /\ stage' = [stage EXCEPT ![o] = StageOfCall]
      /\ home' = [home EXCEPT ![o] = follower]
      /\ UNCHANGED <<followVars, subVars, aborted, toClient, serverVars, crossed>>
  BY DEF Call, Enter, TypeOK
<1>3. OpAt(o)
  BY DEF Operations
<1>4. /\ Channel(toServer')
      /\ \A l, y : Sent(l, y)' <=>
           Sent(l, y) \/ (StageOfCall = "requested" /\ l = "operation" /\ y = o)
  <2>1. CASE StageOfCall = "requested"
    <3>1. toServer' = Append(toServer, Message("operation", o)) /\ ~Sent("operation", o)
      BY <1>1, <1>3, <2>1 DEF Call, OpAt
    <3>2. QED
      BY <2>1, <3>1, ToServer, MessagesTyped
  <2>2. CASE StageOfCall # "requested"
    BY <2>2, SameMessages DEF Call, NoRepetition
  <2>3. QED
    BY <2>1, <2>2
<1>5. Channel(toClient') /\ \A l, y : Coming(l, y)' <=> Coming(l, y)
  BY <1>2, SameMessages DEF NoRepetition
<1>6. TypeOK'
  BY <1>1, <1>2, <1>4 DEF TypeOK, Channel, followVars, subVars, serverVars
<1>7. Operations'
  <2>1. ASSUME NEW p \in Op, p # o PROVE OpAt(p)'
    BY <1>2, <1>4, <1>5, <2>1 DEF Operations, OpAt, SilentOp, serverVars, TypeOK
  <2>2. OpAt(o)'
    BY <1>1, <1>2, <1>3, <1>4, <1>5 DEF OpAt, SilentOp, serverVars, TypeOK
  <2>3. QED
    BY <2>1, <2>2 DEF Operations
<1>8. OperationsAreAttached'
  BY <1>1, <1>2 DEF OperationsAreAttached, TypeOK, subVars
<1>9. Followers' /\ Counted' /\ NoLeakedSubscription' /\ (~crossed' => Control')
  <2>1. Same(FollowerKinds)
    BY <1>4, <1>5 DEF Same, FollowerKinds
  <2>2. QED
    BY <1>2, <1>6, <2>1, FollowersAsBefore DEF serverVars
<1>10. QED
  BY <1>4, <1>5, <1>6, <1>7, <1>8, <1>9 DEF NoRepetition

LEMMA AbortKeeps == ASSUME Inv, NEW o \in Op, Abort(o) PROVE Inv'
<1> USE DEF Inv
<1>1. /\ aborted' = aborted \cup {o}
      /\ UNCHANGED <<followVars, subVars, home, toClient, serverVars, crossed>>
  BY DEF Abort
<1>2. OpAt(o)
  BY DEF Operations
<1>3. /\ Channel(toServer')
      /\ \A l, y : Sent(l, y)' <=>
           Sent(l, y) \/ (stage[o] = "listening" /\ l = "stopOperation" /\ y = o)
      /\ stage' = [stage EXCEPT ![o] = IF stage[o] = "listening" THEN "over" ELSE stage[o]]
  <2>1. CASE stage[o] = "listening"
    <3>1. /\ toServer' = Append(toServer, Message("stopOperation", o))
          /\ ~Sent("stopOperation", o)
          /\ Enter({o}, "over")
      BY <1>2, <2>1 DEF Abort, OpAt
    <3>2. stage' = [stage EXCEPT ![o] = "over"]
      BY <3>1 DEF Enter, TypeOK
    <3>3. /\ Channel(toServer')
          /\ \A l, y : Sent(l, y)' <=> Sent(l, y) \/ (l = "stopOperation" /\ y = o)
      BY <3>1, ToServer, MessagesTyped
    <3>4. QED
      BY <2>1, <3>2, <3>3
  <2>2. CASE stage[o] # "listening"
    BY <2>2, SameMessages DEF Abort, NoRepetition, TypeOK
  <2>3. QED
    BY <2>1, <2>2
<1>4. Channel(toClient') /\ \A l, y : Coming(l, y)' <=> Coming(l, y)
  BY <1>1, SameMessages DEF NoRepetition
<1>5. TypeOK'
  BY <1>1, <1>3 DEF TypeOK, Channel, followVars, subVars, serverVars
<1>6. Operations'
  <2>1. ASSUME NEW p \in Op, p # o PROVE OpAt(p)'
    BY <1>1, <1>3, <1>4, <2>1 DEF Operations, OpAt, SilentOp, serverVars, TypeOK
  <2>2. OpAt(o)'
    BY <1>1, <1>2, <1>3, <1>4 DEF OpAt, SilentOp, serverVars, TypeOK
  <2>3. QED
    BY <2>1, <2>2 DEF Operations
<1>7. OperationsAreAttached'
  BY <1>1, <1>3 DEF OperationsAreAttached, TypeOK, subVars
<1>8. Followers' /\ Counted' /\ NoLeakedSubscription' /\ (~crossed' => Control')
  <2>1. Same(FollowerKinds)
    BY <1>3, <1>4 DEF Same, FollowerKinds
  <2>2. QED
    BY <1>1, <1>5, <2>1, FollowersAsBefore DEF serverVars
<1>9. QED
  BY <1>3, <1>4, <1>5, <1>6, <1>7, <1>8 DEF NoRepetition

LEMMA OnStartedKeeps == ASSUME Inv, NEW o \in Op, OnStarted(o) PROVE Inv'
<1> USE DEF Inv
<1> DEFINE next == IF stage[o] # "requested" THEN stage[o]
                   ELSE IF o \in aborted THEN "over" ELSE "listening"
<1>1. UNCHANGED <<followVars, subVars, home, aborted, serverVars, crossed>>
  BY DEF OnStarted
<1>2. /\ Coming("started", o)
      /\ Channel(toClient')
      /\ \A l, y : Coming(l, y)' <=> Coming(l, y) /\ ~(l = "started" /\ y = o)
  BY Received DEF OnStarted
<1>3. OpAt(o)
  BY DEF Operations
<1>4. /\ Channel(toServer')
      /\ \A l, y : Sent(l, y)' <=>
           \/ Sent(l, y)
           \/ stage[o] = "requested" /\ o \in aborted /\ l = "stopOperation" /\ y = o
      /\ stage' = [stage EXCEPT ![o] = next]
  <2>1. CASE stage[o] = "requested" /\ o \in aborted
    <3>1. /\ toServer' = Append(toServer, Message("stopOperation", o))
          /\ ~Sent("stopOperation", o)
          /\ Enter({o}, "over")
      BY <1>2, <1>3, <2>1 DEF OnStarted, OpAt
    <3>2. stage' = [stage EXCEPT ![o] = "over"]
      BY <3>1 DEF Enter, TypeOK
    <3>3. /\ Channel(toServer')
          /\ \A l, y : Sent(l, y)' <=> Sent(l, y) \/ (l = "stopOperation" /\ y = o)
      BY <3>1, ToServer, MessagesTyped
    <3>4. QED
      BY <2>1, <3>2, <3>3
  <2>2. CASE stage[o] = "requested" /\ o \notin aborted
    BY <2>2, SameMessages DEF OnStarted, NoRepetition, Enter, TypeOK
  <2>3. CASE stage[o] # "requested"
    BY <2>3, SameMessages DEF OnStarted, NoRepetition, TypeOK
  <2>4. QED
    BY <2>1, <2>2, <2>3
<1>5. TypeOK'
  BY <1>1, <1>2, <1>4 DEF TypeOK, Channel, followVars, subVars, serverVars
<1>6. Operations'
  <2>1. ASSUME NEW p \in Op, p # o PROVE OpAt(p)'
    BY <1>1, <1>2, <1>4, <2>1 DEF Operations, OpAt, SilentOp, serverVars, TypeOK
  <2>2. OpAt(o)'
    BY <1>1, <1>2, <1>3, <1>4 DEF OpAt, SilentOp, serverVars, TypeOK
  <2>3. QED
    BY <2>1, <2>2 DEF Operations
<1>7. OperationsAreAttached'
  BY <1>1, <1>4 DEF OperationsAreAttached, TypeOK, subVars
<1>8. Followers' /\ Counted' /\ NoLeakedSubscription' /\ (~crossed' => Control')
  <2>1. Same(FollowerKinds)
    BY <1>2, <1>4 DEF Same, FollowerKinds
  <2>2. QED
    BY <1>1, <1>5, <2>1, FollowersAsBefore DEF serverVars
<1>9. QED
  BY <1>2, <1>4, <1>5, <1>6, <1>7, <1>8 DEF NoRepetition

\* A failure and an end only end something.
LEMMA OnFailedOrDoneKeeps ==
  ASSUME Inv, NEW o \in Op, OnFailed(o) \/ OnDone(o)
  PROVE  Inv'
<1> USE DEF Inv
<1>1. PICK k \in {"failed", "done"}, D \in SUBSET {o} :
        /\ Receive(k, o)
        /\ Enter(D, "over")
        /\ \A p \in D : stage[p] # "idle"
        /\ UNCHANGED <<followVars, subVars, home, aborted, toServer, serverVars, crossed>>
  BY DEF OnFailed, OnDone, Of
<1>2. /\ Channel(toClient')
      /\ \A l, y : Coming(l, y)' <=> Coming(l, y) /\ ~(l = k /\ y = o)
  BY <1>1, Received
<1>3. Channel(toServer') /\ \A l, y : Sent(l, y)' <=> Sent(l, y)
  BY <1>1, SameMessages DEF NoRepetition
<1>4. TypeOK'
  BY <1>1, <1>2, <1>3 DEF TypeOK, Channel, followVars, subVars, serverVars, Enter
<1>5. Operations'
  <2>1. NoMore(OpKinds)
    BY <1>2, <1>3 DEF NoMore
  <2>2. QED
    BY <1>1, <2>1, OperationsAsBefore DEF serverVars
<1>6. OperationsAreAttached'
  BY <1>1, AttachedAsBefore DEF subVars
<1>7. Followers' /\ Counted' /\ NoLeakedSubscription' /\ (~crossed' => Control')
  <2>1. Same(FollowerKinds)
    BY <1>2, <1>3 DEF Same, FollowerKinds
  <2>2. QED
    BY <1>1, <1>4, <2>1, FollowersAsBefore DEF serverVars
<1>8. QED
  BY <1>2, <1>3, <1>4, <1>5, <1>6, <1>7 DEF NoRepetition

-------------------------------------------------------------------------------
(***************************************************************************)
(* Actions of the server.                                                  *)
(***************************************************************************)
ClientAlone == UNCHANGED <<followVars, subVars, opVars, crossed>>

LEMMA ServerOperationKeeps ==
  ASSUME Inv, ClientAlone, NEW o \in Op,
         StartOperation(o) \/ FailOperation(o) \/ StopOperation(o) \/ Complete(o)
  PROVE  Inv'
<1> USE DEF Inv
<1>1. UNCHANGED <<followVars, subVars, opVars, crossed, serverSubs, disturbances>>
  BY DEF ClientAlone, StartOperation, FailOperation, StopOperation, Complete
<1>2. OpAt(o)
  BY DEF Operations
<1>3. NoRepetition' /\ serverOps' \subseteq Op /\ Same(FollowerKinds) /\ Operations'
  <2>1. CASE StartOperation(o)
    <3>1. /\ Sent("operation", o)
          /\ Channel(toServer')
          /\ \A l, y : Sent(l, y)' <=> Sent(l, y) /\ ~(l = "operation" /\ y = o)
      BY <2>1, Served DEF StartOperation
    <3>2. ~Coming("started", o)
      BY <1>2, <3>1 DEF OpAt, SilentOp
    <3>3. /\ Channel(toClient')
          /\ \A l, y : Coming(l, y)' <=> Coming(l, y) \/ (l = "started" /\ y = o)
      BY <2>1, <3>2, ToClient, MessagesTyped DEF StartOperation
    <3>4. serverOps' = serverOps \cup {o}
      BY <2>1 DEF StartOperation
    <3>5. ASSUME NEW p \in Op PROVE OpAt(p)'
      BY <1>1, <1>2, <3>1, <3>3, <3>4 DEF Operations, OpAt, SilentOp, opVars
    <3>6. Same(FollowerKinds)
      BY <3>1, <3>3 DEF Same, FollowerKinds
    <3>7. QED
      BY <3>1, <3>3, <3>4, <3>5, <3>6 DEF NoRepetition, Operations, TypeOK
  <2>2. CASE FailOperation(o)
    <3>1. /\ Sent("operation", o)
          /\ Channel(toServer')
          /\ \A l, y : Sent(l, y)' <=> Sent(l, y) /\ ~(l = "operation" /\ y = o)
      BY <2>2, Served DEF FailOperation
    <3>2. ~Coming("failed", o)
      BY <1>2, <3>1 DEF OpAt, SilentOp
    <3>3. /\ Channel(toClient')
          /\ \A l, y : Coming(l, y)' <=> Coming(l, y) \/ (l = "failed" /\ y = o)
      BY <2>2, <3>2, ToClient, MessagesTyped DEF FailOperation
    <3>4. serverOps' = serverOps
      BY <2>2 DEF FailOperation
    <3>5. ASSUME NEW p \in Op PROVE OpAt(p)'
      BY <1>1, <1>2, <3>1, <3>3, <3>4 DEF Operations, OpAt, SilentOp, opVars
    <3>6. Same(FollowerKinds)
      BY <3>1, <3>3 DEF Same, FollowerKinds
    <3>7. QED
      BY <3>1, <3>3, <3>4, <3>5, <3>6 DEF NoRepetition, Operations, TypeOK
  <2>3. CASE StopOperation(o)
    <3>1. /\ Channel(toServer')
          /\ \A l, y : Sent(l, y)' <=> Sent(l, y) /\ ~(l = "stopOperation" /\ y = o)
      BY <2>3, Served DEF StopOperation
    <3>2. Channel(toClient') /\ \A l, y : Coming(l, y)' <=> Coming(l, y)
      BY <2>3, SameMessages DEF StopOperation, NoRepetition
    <3>3. serverOps' = serverOps \ {o}
      BY <2>3 DEF StopOperation
    <3>4. NoMore(OpKinds) /\ Same(FollowerKinds)
      BY <3>1, <3>2 DEF NoMore, Same, FollowerKinds
    <3>5. Operations'
      BY <1>1, <3>3, <3>4, OperationsUntouched DEF opVars
    <3>6. QED
      BY <3>1, <3>2, <3>3, <3>4, <3>5 DEF NoRepetition, TypeOK
  <2>4. CASE Complete(o)
    <3>1. /\ o \in serverOps /\ serverOps' = serverOps \ {o}
          /\ toClient' = Append(toClient, Message("done", o))
      BY <2>4 DEF Complete
    <3>2. ~Coming("done", o)
      BY <1>2, <3>1 DEF OpAt
    <3>3. /\ Channel(toClient')
          /\ \A l, y : Coming(l, y)' <=> Coming(l, y) \/ (l = "done" /\ y = o)
      BY <3>1, <3>2, ToClient, MessagesTyped
    <3>4. Channel(toServer') /\ \A l, y : Sent(l, y)' <=> Sent(l, y)
      BY <2>4, SameMessages DEF Complete, NoRepetition
    <3>5. ASSUME NEW p \in Op PROVE OpAt(p)'
      BY <1>1, <1>2, <3>1, <3>3, <3>4 DEF Operations, OpAt, SilentOp, opVars
    <3>6. Same(FollowerKinds)
      BY <3>3, <3>4 DEF Same, FollowerKinds
    <3>7. QED
      BY <3>1, <3>3, <3>4, <3>5, <3>6 DEF NoRepetition, Operations, TypeOK
  <2>5. QED
    BY <2>1, <2>2, <2>3, <2>4
<1>4. TypeOK'
  BY <1>1, <1>3 DEF TypeOK, NoRepetition, Channel, followVars, subVars, opVars
<1>5. OperationsAreAttached'
  BY <1>1 DEF OperationsAreAttached, subVars, opVars
<1>6. Followers' /\ Counted' /\ NoLeakedSubscription' /\ (~crossed' => Control')
  BY <1>1, <1>3, <1>4, FollowersAsBefore
<1>7. QED
  BY <1>3, <1>4, <1>5, <1>6

LEMMA AcceptFollowKeeps ==
  ASSUME Inv, ClientAlone, NEW i \in Follower, AcceptFollow(i)
  PROVE  Inv'
<1> USE DEF Inv
<1>1. /\ UNCHANGED <<followVars, subVars, opVars, crossed, serverOps, disturbances>>
      /\ serverSubs' = serverSubs \cup {i}
  BY DEF ClientAlone, AcceptFollow
<1>2. /\ Sent("follow", i)
      /\ Channel(toServer')
      /\ \A l, y : Sent(l, y)' <=> Sent(l, y) /\ ~(l = "follow" /\ y = i)
  BY Served DEF AcceptFollow
<1>3. FollowerAt(i)
  BY DEF Followers
<1>4. /\ Channel(toClient')
      /\ \A l, y : Coming(l, y)' <=>
           Coming(l, y) \/ (l \in {"followed", "initialized"} /\ y = i)
  <2> DEFINE q == Append(toClient, Message("followed", i))
  <2>1. toClient' = Append(q, Message("initialized", i))
    BY DEF AcceptFollow, TypeOK
  <2>2. ~Coming("followed", i) /\ ~Coming("initialized", i)
    BY <1>2, <1>3 DEF FollowerAt, SilentFollower
  <2>3. /\ Channel(q)
        /\ \A l, y : Message(l, y) \in Range(q) <=>
             Coming(l, y) \/ (l = "followed" /\ y = i)
    BY <2>2, Adding, MessagesTyped DEF NoRepetition, Coming
  <2> HIDE DEF q
  <2>4. QED
    BY <2>1, <2>2, <2>3, Adding, MessagesTyped DEF Coming
<1>5. TypeOK'
  BY <1>1, <1>2, <1>4 DEF TypeOK, Channel, followVars, subVars, opVars
<1>6. Followers'
  <2>1. ASSUME NEW j \in Follower PROVE FollowerAt(j)'
    BY <1>1, <1>2, <1>3, <1>4 DEF Followers, FollowerAt, SilentFollower, Unanswered, subVars
  <2>2. QED
    BY <2>1 DEF Followers
<1>7. Operations'
  <2>1. NoMore(OpKinds)
    BY <1>2, <1>4 DEF NoMore, OpKinds
  <2>2. QED
    BY <1>1, <2>1, OperationsUntouched DEF opVars
<1>8. OperationsAreAttached'
  BY <1>1 DEF OperationsAreAttached, subVars, opVars
<1>9. Counted'
  <2>1. Lost' = Lost /\ Called' = Called
    BY <1>1, <1>4 DEF Lost, Called, subVars
  <2>2. QED
    BY <1>1, <2>1 DEF Counted, followVars
<1>10. NoLeakedSubscription'
  <2>1. ASSUME NEW j \in serverSubs'
        PROVE  \/ sub'[j] = "active"
               \/ /\ sub'[j] = "waiting" \/ j \in abandoned'
                  /\ Coming("followed", j)'
               \/ Sent("unfollow", j)'
    <3>1. CASE j = i
      BY <1>1, <1>2, <1>3, <1>4, <3>1 DEF FollowerAt, Unanswered, subVars
    <3>2. CASE j # i
      BY <1>1, <1>2, <1>4, <2>1, <3>2 DEF NoLeakedSubscription, Sent, Coming, subVars
    <3>3. QED
      BY <3>1, <3>2
  <2>2. QED
    BY <2>1 DEF NoLeakedSubscription, Sent, Coming
<1>11. ~crossed' => Control'
  BY <1>1, <1>2, <1>3, <1>4
     DEF Control, Alive, Current, FollowerAt, Unanswered, followVars, subVars, TypeOK
<1>12. QED
  BY <1>2, <1>4, <1>5, <1>6, <1>7, <1>8, <1>9, <1>10, <1>11 DEF NoRepetition

LEMMA RefuseFollowKeeps ==
  ASSUME Inv, ClientAlone, NEW i \in Follower, RefuseFollow(i)
  PROVE  Inv'
<1> USE DEF Inv
<1>1. /\ UNCHANGED <<followVars, subVars, opVars, crossed, serverOps, serverSubs>>
      /\ disturbances < MaxDisturbances /\ disturbances' = disturbances + 1
  BY DEF ClientAlone, RefuseFollow
<1>2. /\ Sent("follow", i)
      /\ Channel(toServer')
      /\ \A l, y : Sent(l, y)' <=> Sent(l, y) /\ ~(l = "follow" /\ y = i)
  BY Served DEF RefuseFollow
<1>3. FollowerAt(i)
  BY DEF Followers
<1>4. /\ Channel(toClient')
      /\ \A l, y : Coming(l, y)' <=> Coming(l, y) \/ (l = "refused" /\ y = i)
  <2>1. toClient' = Append(toClient, Message("refused", i)) /\ ~Coming("refused", i)
    BY <1>2, <1>3 DEF RefuseFollow, FollowerAt, SilentFollower
  <2>2. QED
    BY <2>1, ToClient, MessagesTyped
<1>5. TypeOK'
  <2>1. disturbances' \in 0 .. MaxDisturbances
    BY <1>1, BoundAssumption DEF TypeOK
  <2>2. QED
    BY <1>1, <1>2, <1>4, <2>1 DEF TypeOK, Channel, followVars, subVars, opVars
<1>6. Followers'
  <2>1. ASSUME NEW j \in Follower PROVE FollowerAt(j)'
    BY <1>1, <1>2, <1>3, <1>4 DEF Followers, FollowerAt, SilentFollower, Unanswered, subVars
  <2>2. QED
    BY <2>1 DEF Followers
<1>7. Operations'
  <2>1. NoMore(OpKinds)
    BY <1>2, <1>4 DEF NoMore, OpKinds
  <2>2. QED
    BY <1>1, <2>1, OperationsUntouched DEF opVars
<1>8. OperationsAreAttached'
  BY <1>1 DEF OperationsAreAttached, subVars, opVars
<1>9. Counted'
  <2>1. Lost' = Lost \cup {i} /\ Called' = Called
    BY <1>1, <1>4 DEF Lost, Called, subVars
  <2>2. Cardinality(Lost') <= Cardinality(Lost) + 1
    BY <2>1, LostChange
  <2>3. timers' = timers /\ Len(timers) \in Nat /\ disturbances \in Nat
    BY <1>1, LenProperties DEF TypeOK, followVars
  <2>4. Cardinality(Lost) \in Nat /\ Cardinality(Lost') \in Nat
    BY <1>5, FiniteFollowers DEF Lost
  <2>5. Cardinality(Lost') + Len(timers') + disturbances
          <= Cardinality(Lost) + Len(timers) + disturbances'
    BY <1>1, <2>2, <2>3, <2>4
  <2>6. QED
    BY <1>5, <2>1, <2>5, Counting
<1>10. NoLeakedSubscription'
  BY <1>1, <1>2, <1>4 DEF NoLeakedSubscription, Sent, Coming, subVars
<1>11. ~crossed' => Control'
  BY <1>1, <1>4 DEF Control, Alive, Current, followVars, subVars
<1>12. QED
  BY <1>2, <1>4, <1>5, <1>6, <1>7, <1>8, <1>9, <1>10, <1>11 DEF NoRepetition

LEMMA ServeUnfollowKeeps ==
  ASSUME Inv, ClientAlone, NEW i \in Follower, ServeUnfollow(i)
  PROVE  Inv'
<1> USE DEF Inv
<1>1. /\ UNCHANGED <<followVars, subVars, opVars, crossed, toClient, disturbances>>
      /\ serverSubs' = serverSubs \ {i}
      /\ serverOps' \subseteq serverOps
  BY DEF ClientAlone, ServeUnfollow
<1>2. /\ Channel(toServer')
      /\ \A l, y : Sent(l, y)' <=> Sent(l, y) /\ ~(l = "unfollow" /\ y = i)
  BY Served DEF ServeUnfollow
<1>3. Channel(toClient') /\ \A l, y : Coming(l, y)' <=> Coming(l, y)
  BY <1>1, SameMessages DEF NoRepetition
<1>4. TypeOK'
  BY <1>1, <1>2, <1>3 DEF TypeOK, Channel, followVars, subVars, opVars
<1>5. Followers'
  <2>1. ASSUME NEW j \in Follower PROVE FollowerAt(j)'
    BY <1>1, <1>2, <1>3 DEF Followers, FollowerAt, SilentFollower, Unanswered, subVars
  <2>2. QED
    BY <2>1 DEF Followers
<1>6. Operations'
  <2>1. NoMore(OpKinds)
    BY <1>2, <1>3 DEF NoMore
  <2>2. QED
    BY <1>1, <2>1, OperationsUntouched DEF opVars
<1>7. OperationsAreAttached'
  BY <1>1 DEF OperationsAreAttached, subVars, opVars
<1>8. Counted'
  BY <1>1, <1>3 DEF Counted, Lost, Called, followVars, subVars
<1>9. NoLeakedSubscription'
  BY <1>1, <1>2, <1>3 DEF NoLeakedSubscription, Sent, Coming, subVars
<1>10. ~crossed' => Control'
  BY <1>1, <1>3 DEF Control, Alive, Current, followVars, subVars
<1>11. QED
  BY <1>2, <1>3, <1>4, <1>5, <1>6, <1>7, <1>8, <1>9, <1>10 DEF NoRepetition

LEMMA ServerStopKeeps ==
  ASSUME Inv, ClientAlone, NEW i \in Follower, ServerStop(i)
  PROVE  Inv'
<1> USE DEF Inv
<1>1. /\ UNCHANGED <<followVars, subVars, opVars, crossed, toServer>>
      /\ i \in serverSubs /\ serverSubs' = serverSubs \ {i}
      /\ serverOps' \subseteq serverOps
      /\ disturbances < MaxDisturbances /\ disturbances' = disturbances + 1
  BY DEF ClientAlone, ServerStop
<1>2. FollowerAt(i)
  BY DEF Followers
<1>3. Channel(toServer') /\ \A l, y : Sent(l, y)' <=> Sent(l, y)
  BY <1>1, SameMessages DEF NoRepetition
<1>4. /\ Channel(toClient')
      /\ \A l, y : Coming(l, y)' <=> Coming(l, y) \/ (l = "stop" /\ y = i)
  <2>1. toClient' = Append(toClient, Message("stop", i)) /\ ~Coming("stop", i)
    BY <1>1, <1>2 DEF ServerStop, FollowerAt
  <2>2. QED
    BY <2>1, ToClient, MessagesTyped
<1>5. TypeOK'
  <2>1. disturbances' \in 0 .. MaxDisturbances
    BY <1>1, BoundAssumption DEF TypeOK
  <2>2. QED
    BY <1>1, <1>3, <1>4, <2>1 DEF TypeOK, Channel, followVars, subVars, opVars
<1>6. Followers'
  <2>1. ASSUME NEW j \in Follower PROVE FollowerAt(j)'
    BY <1>1, <1>2, <1>3, <1>4 DEF Followers, FollowerAt, SilentFollower, Unanswered, subVars
  <2>2. QED
    BY <2>1 DEF Followers
<1>7. Operations'
  <2>1. NoMore(OpKinds)
    BY <1>3, <1>4 DEF NoMore, OpKinds
  <2>2. QED
    BY <1>1, <2>1, OperationsUntouched DEF opVars
<1>8. OperationsAreAttached'
  BY <1>1 DEF OperationsAreAttached, subVars, opVars
<1>9. Counted'
  <2>1. Lost' = Lost \cup {i} /\ Called' = Called
    BY <1>1, <1>4 DEF Lost, Called, subVars
  <2>2. Cardinality(Lost') <= Cardinality(Lost) + 1
    BY <2>1, LostChange
  <2>3. timers' = timers /\ Len(timers) \in Nat /\ disturbances \in Nat
    BY <1>1, LenProperties DEF TypeOK, followVars
  <2>4. Cardinality(Lost) \in Nat /\ Cardinality(Lost') \in Nat
    BY <1>5, FiniteFollowers DEF Lost
  <2>5. Cardinality(Lost') + Len(timers') + disturbances
          <= Cardinality(Lost) + Len(timers) + disturbances'
    BY <1>1, <2>2, <2>3, <2>4
  <2>6. QED
    BY <1>5, <2>1, <2>5, Counting
<1>10. NoLeakedSubscription'
  BY <1>1, <1>3, <1>4 DEF NoLeakedSubscription, Sent, Coming, subVars
<1>11. ~crossed' => Control'
  BY <1>1, <1>4 DEF Control, Alive, Current, followVars, subVars
<1>12. QED
  BY <1>3, <1>4, <1>5, <1>6, <1>7, <1>8, <1>9, <1>10, <1>11 DEF NoRepetition

-------------------------------------------------------------------------------
(***************************************************************************)
(* Events of a subscription.                                               *)
(***************************************************************************)
LEMMA OnFollowedKeeps ==
  ASSUME Inv, NEW i \in Follower, OnFollowed(i)
  PROVE  Inv'
<1> USE DEF Inv
<1>1. UNCHANGED <<followVars, abandoned, home, aborted, serverVars, crossed>>
  BY DEF OnFollowed
<1>2. /\ Coming("followed", i)
      /\ Channel(toClient')
      /\ \A l, y : Coming(l, y)' <=> Coming(l, y) /\ ~(l = "followed" /\ y = i)
  BY Received DEF OnFollowed
<1>3. FollowerAt(i)
  BY DEF Followers
<1>4. CASE sub[i] = "waiting"
  <2> DEFINE early == Of(i, {"early"})
  <2>1. /\ sub' = [sub EXCEPT ![i] = "active"]
        /\ Enter(early, "requested")
        /\ toServer' = toServer \o [n \in 1 .. Cardinality(early) |->
                         Message("operation", SetToSeq(early)[n])]
    BY <1>4 DEF OnFollowed
  <2>2. early \subseteq Op /\ \A o \in early : stage[o] = "early" /\ home[o] = i
    BY DEF Of
  <2> HIDE DEF early
  <2>3. /\ Channel(toServer')
        /\ \A l, y : Sent(l, y)' <=> Sent(l, y) \/ (l = "operation" /\ y \in early)
    <3>1. \A o \in early : ~Sent("operation", o)
      BY <2>2 DEF Operations, OpAt
    <3>2. QED
      BY <2>1, <2>2, <3>1, SendingEarly
  <2>4. /\ sub'[i] = "active"
        /\ \A j \in Follower : j # i => sub'[j] = sub[j]
        /\ sub' \in [Follower -> {"none", "waiting", "active", "null"}]
    BY <2>1 DEF TypeOK
  <2>5. /\ \A o \in Op : stage'[o] = IF o \in early THEN "requested" ELSE stage[o]
        /\ stage' \in [Op -> {"idle", "early", "requested", "listening", "over"}]
    BY <2>1 DEF TypeOK, Enter
  <2>6. TypeOK'
    BY <1>1, <1>2, <1>4, <2>3, <2>4, <2>5 DEF TypeOK, Channel, followVars, serverVars
  <2>7. Followers'
    <3>1. ASSUME NEW j \in Follower PROVE FollowerAt(j)'
      BY <1>1, <1>2, <1>3, <1>4, <2>3, <2>4
         DEF Followers, FollowerAt, SilentFollower, Unanswered, serverVars
    <3>2. QED
      BY <3>1 DEF Followers
  <2>8. Operations'
    <3>1. ASSUME NEW o \in Op PROVE OpAt(o)'
      BY <1>1, <1>2, <2>2, <2>3, <2>5 DEF Operations, OpAt, SilentOp, serverVars
    <3>2. QED
      BY <3>1 DEF Operations
  <2>9. OperationsAreAttached'
    <3>1. ASSUME NEW o \in Op, stage'[o] \in {"requested", "listening"}
          PROVE  sub'[home'[o]] = "active"
      BY <1>1, <1>4, <2>2, <2>4, <2>5, <3>1 DEF OperationsAreAttached, Operations, OpAt
    <3>2. QED
      BY <3>1 DEF OperationsAreAttached
  <2>10. Counted'
    <3>1. Lost' = Lost /\ Called' = Called
      BY <1>2, <1>4, <2>4 DEF Lost, Called
    <3>2. QED
      BY <1>1, <3>1 DEF Counted, followVars, serverVars
  <2>11. NoLeakedSubscription'
    BY <1>1, <1>2, <2>3, <2>4 DEF NoLeakedSubscription, Sent, Coming, serverVars, TypeOK
  <2>12. ~crossed' => Control'
    BY <1>1, <1>2, <1>4, <2>4 DEF Control, Alive, Current, followVars, TypeOK
  <2>13. QED
    BY <1>2, <2>3, <2>6, <2>7, <2>8, <2>9, <2>10, <2>11, <2>12 DEF NoRepetition
<1>5. CASE sub[i] # "waiting"
  <2>1. i \in abandoned /\ sub[i] = "null" /\ ~Sent("unfollow", i)
    BY <1>2, <1>3, <1>5 DEF FollowerAt, Unanswered, TypeOK
  <2>2. /\ toServer' = Append(toServer, Message("unfollow", i))
        /\ UNCHANGED <<sub, stage>>
    BY <1>5, <2>1 DEF OnFollowed
  <2>3. /\ Channel(toServer')
        /\ \A l, y : Sent(l, y)' <=> Sent(l, y) \/ (l = "unfollow" /\ y = i)
    BY <2>1, <2>2, ToServer, MessagesTyped
  <2>4. TypeOK'
    BY <1>1, <1>2, <2>2, <2>3 DEF TypeOK, Channel, followVars, serverVars
  <2>5. Followers'
    <3>1. ASSUME NEW j \in Follower PROVE FollowerAt(j)'
      BY <1>1, <1>2, <1>3, <2>1, <2>2, <2>3
         DEF Followers, FollowerAt, SilentFollower, Unanswered, serverVars
    <3>2. QED
      BY <3>1 DEF Followers
  <2>6. Operations'
    <3>1. NoMore(OpKinds)
      BY <1>2, <2>3 DEF NoMore, OpKinds
    <3>2. QED
      BY <1>1, <2>2, <3>1, OperationsUntouched DEF serverVars
  <2>7. OperationsAreAttached'
    BY <1>1, <2>2 DEF OperationsAreAttached
  <2>8. Counted'
    <3>1. Lost' = Lost /\ Called' = Called
      BY <1>2, <2>2 DEF Lost, Called
    <3>2. QED
      BY <1>1, <3>1 DEF Counted, followVars, serverVars
  <2>9. NoLeakedSubscription'
    BY <1>1, <1>2, <2>2, <2>3 DEF NoLeakedSubscription, Sent, Coming, serverVars
  <2>10. ~crossed' => Control'
    BY <1>1, <1>2, <2>2 DEF Control, Alive, Current, followVars
  <2>11. QED
    BY <1>2, <2>3, <2>4, <2>5, <2>6, <2>7, <2>8, <2>9, <2>10 DEF NoRepetition
<1>6. QED
  BY <1>4, <1>5

LEMMA OnInitializedKeeps ==
  ASSUME Inv, NEW i \in Follower, OnInitialized(i)
  PROVE  Inv'
<1> USE DEF Inv
<1>1. UNCHANGED <<isDone, follower, timers, tokenArmed, subVars, opVars, toServer,
                  serverVars, crossed>>
  BY DEF OnInitialized
<1>2. /\ Coming("initialized", i)
      /\ Channel(toClient')
      /\ \A l, y : Coming(l, y)' <=> Coming(l, y) /\ ~(l = "initialized" /\ y = i)
  BY Received DEF OnInitialized
<1>3. Channel(toServer') /\ \A l, y : Sent(l, y)' <=> Sent(l, y)
  BY <1>1, SameMessages DEF NoRepetition
<1>4. \/ phase' = phase /\ (isDone \/ sub[i] # "active")
      \/ /\ ~isDone /\ sub[i] = "active"
         /\ phase' = IF phase = "expecting" THEN "inner" ELSE "broken"
  BY DEF OnInitialized
<1>5. TypeOK'
  BY <1>1, <1>2, <1>3, <1>4 DEF TypeOK, Channel, subVars, opVars, serverVars
<1>6. Followers'
  <2>1. ASSUME NEW j \in Follower PROVE FollowerAt(j)'
    BY <1>1, <1>2, <1>3
       DEF Followers, FollowerAt, SilentFollower, Unanswered, subVars, serverVars
  <2>2. QED
    BY <2>1 DEF Followers
<1>7. Operations'
  <2>1. NoMore(OpKinds)
    BY <1>2, <1>3 DEF NoMore
  <2>2. QED
    BY <1>1, <2>1, OperationsUntouched DEF opVars, serverVars
<1>8. OperationsAreAttached'
  BY <1>1 DEF OperationsAreAttached, subVars, opVars
<1>9. Counted'
  <2>1. Lost' = Lost /\ Called' = Called
    BY <1>1, <1>2 DEF Lost, Called, subVars
  <2>2. QED
    BY <1>1, <2>1 DEF Counted, serverVars
<1>10. NoLeakedSubscription'
  BY <1>1, <1>2, <1>3 DEF NoLeakedSubscription, Sent, Coming, subVars, serverVars
<1>11. ASSUME ~crossed' PROVE Control'
  <2>1. Control
    BY <1>1, <1>11
  <2>2. ~isDone /\ sub[i] = "active" => i = follower /\ phase = "expecting"
    BY <1>2, <2>1 DEF Control, Alive, Current
  <2>3. phase' = phase \/ (i = follower /\ sub[i] = "active" /\ phase' = "inner")
    BY <1>4, <2>2
  <2>4. CASE phase' = phase
    BY <1>1, <1>2, <2>1, <2>4 DEF Control, Alive, Current, subVars
  <2>5. CASE i = follower /\ sub[i] = "active" /\ phase' = "inner"
    BY <1>1, <1>2, <2>1, <2>5 DEF Control, Alive, Current, subVars, TypeOK, Follower
  <2>6. QED
    BY <2>3, <2>4, <2>5
<1>12. QED
  BY <1>2, <1>3, <1>5, <1>6, <1>7, <1>8, <1>9, <1>10, <1>11 DEF NoRepetition

LEMMA OnRefusedKeeps ==
  ASSUME Inv, NEW i \in Follower, OnRefused(i)
  PROVE  Inv'
<1> USE DEF Inv
<1>1. /\ UNCHANGED <<isDone, phase, abandoned, home, aborted, toServer, serverVars>>
      /\ follower' = 0
      /\ sub' = [sub EXCEPT ![i] = "null"]
      /\ Enter(Of(i, {"early"}), "over")
      /\ crossed' = (crossed \/ (i \in abandoned /\ ~isDone))
  BY DEF OnRefused
<1>2. /\ Coming("refused", i)
      /\ Channel(toClient')
      /\ \A l, y : Coming(l, y)' <=> Coming(l, y) /\ ~(l = "refused" /\ y = i)
  BY Received DEF OnRefused
<1>3. Channel(toServer') /\ \A l, y : Sent(l, y)' <=> Sent(l, y)
  BY <1>1, SameMessages DEF NoRepetition
<1>4. FollowerAt(i) /\ Unanswered(i) /\ sub[i] \in {"waiting", "null"}
  BY <1>2 DEF Followers, FollowerAt, Unanswered, TypeOK
<1>5. /\ sub'[i] = "null"
      /\ \A j \in Follower : j # i => sub'[j] = sub[j]
      /\ sub' \in [Follower -> {"none", "waiting", "active", "null"}]
  BY <1>1 DEF TypeOK
<1>6. \/ ~isDone /\ timers' = Append(timers, "follow") /\ tokenArmed' = TRUE
      \/ isDone /\ UNCHANGED <<timers, tokenArmed>>
  BY DEF OnRefused, RetryFollow, TypeOK
<1>7. /\ timers \in Seq({"follow", "reset"}) /\ timers' \in Seq({"follow", "reset"})
      /\ tokenArmed' \in BOOLEAN /\ (tokenArmed' => timers' # <<>>)
      /\ Len(timers) \in Nat /\ Len(timers') \in Nat /\ Len(timers') <= Len(timers) + 1
  <2>1. /\ timers \in Seq({"follow", "reset"}) /\ Len(timers) \in Nat
        /\ tokenArmed \in BOOLEAN /\ (tokenArmed => timers # <<>>)
    BY TimersTyped DEF TypeOK
  <2>2. /\ Append(timers, "follow") \in Seq({"follow", "reset"})
        /\ Append(timers, "follow") # <<>>
        /\ Len(Append(timers, "follow")) = Len(timers) + 1
    BY <2>1, TimersTyped
  <2>3. CASE isDone
    <3>1. timers' = timers /\ tokenArmed' = tokenArmed
      BY <1>6, <2>3
    <3>2. QED
      BY <2>1, <3>1
  <2>4. CASE ~isDone
    <3>1. timers' = Append(timers, "follow") /\ tokenArmed' = TRUE
      BY <1>6, <2>4
    <3>2. Len(timers') = Len(timers) + 1 /\ Len(timers) \in Nat
      BY <2>1, <2>2, <3>1
    <3>3. Len(timers') \in Nat /\ Len(timers') <= Len(timers) + 1
      BY <3>2
    <3>4. QED
      BY <2>1, <2>2, <3>1, <3>3
  <2>5. QED
    BY <2>3, <2>4
<1>8. TypeOK'
  BY <1>1, <1>2, <1>3, <1>5, <1>7 DEF TypeOK, Channel, serverVars, Enter
<1>9. Followers'
  <2>1. ASSUME NEW j \in Follower PROVE FollowerAt(j)'
    BY <1>1, <1>2, <1>3, <1>4, <1>5
       DEF Followers, FollowerAt, SilentFollower, Unanswered, serverVars
  <2>2. QED
    BY <2>1 DEF Followers
<1>10. Operations'
  <2>1. NoMore(OpKinds)
    BY <1>2, <1>3 DEF NoMore
  <2>2. \A o \in Of(i, {"early"}) \cap Op : stage[o] # "idle"
    BY DEF Of
  <2>3. QED
    BY <1>1, <2>1, <2>2, OperationsAsBefore DEF serverVars
<1>11. OperationsAreAttached'
  <2>1. \A j \in Follower : sub[j] = "active" => sub'[j] = "active"
    BY <1>4, <1>5
  <2>2. QED
    BY <1>1, <2>1, AttachedAsBefore
<1>12. Counted'
  <2>1. i \in Lost /\ Lost' = Lost \ {i} /\ Called' = Called
    BY <1>2, <1>4, <1>5 DEF Lost, Called, FollowerAt
  <2>2. Cardinality(Lost') = Cardinality(Lost) - 1
    BY <2>1, LostChange
  <2>3. Cardinality(Lost) \in Nat /\ Cardinality(Lost') \in Nat
        /\ disturbances \in Nat /\ disturbances' = disturbances
    BY <1>1, FiniteFollowers DEF Lost, TypeOK, serverVars
  <2>4. Cardinality(Lost') + Len(timers') + disturbances
          <= Cardinality(Lost) + Len(timers) + disturbances'
    BY <1>7, <2>2, <2>3
  <2>5. QED
    BY <1>8, <2>1, <2>4, Counting
<1>13. NoLeakedSubscription'
  BY <1>1, <1>2, <1>3, <1>4, <1>5
     DEF FollowerAt, NoLeakedSubscription, Sent, Coming, serverVars, TypeOK
<1>14. ASSUME ~crossed' PROVE Control'
  <2>1. Control
    BY <1>1, <1>14
  <2>2. CASE isDone
    BY <1>1, <1>5, <1>6, <2>1, <2>2 DEF Control, Alive, Current
  <2>3. CASE ~isDone
    <3>1. i \in Alive
      BY <1>1, <1>4, <1>14, <2>3 DEF Unanswered, Alive
    <3>2. i = follower /\ sub[follower] = "waiting" /\ follower # 0
      BY <1>1, <1>4, <1>14, <2>1, <2>3, <3>1 DEF Control, Current, Unanswered
    <3>3. Alive' = {}
      BY <1>5, <2>1, <3>2 DEF Control, Current, Alive
    <3>4. phase = "expecting"
      BY <2>1, <2>3, <3>2 DEF Control
    <3>5. ASSUME NEW n \in 1 .. Len(timers'), timers'[n] = "follow"
          PROVE  n = Len(timers')
      <4>1. \A k \in 1 .. Len(timers) : timers[k] # "follow"
        BY <2>1, <3>2 DEF Control
      <4>2. /\ Len(timers') = Len(timers) + 1
            /\ \A k \in 1 .. Len(timers) : timers'[k] = timers[k]
        BY <1>6, <1>7, <2>3, AppendProperties
      <4>3. QED
        BY <1>7, <3>5, <4>1, <4>2
    <3>6. QED
      BY <1>1, <1>6, <2>1, <2>3, <3>3, <3>4, <3>5 DEF Control
  <2>4. QED
    BY <2>2, <2>3
<1>15. QED
  BY <1>2, <1>3, <1>8, <1>9, <1>10, <1>11, <1>12, <1>13, <1>14 DEF NoRepetition

LEMMA OnStopKeeps ==
  ASSUME Inv, NEW i \in Follower, OnStop(i)
  PROVE  Inv'
<1> USE DEF Inv
<1>1. UNCHANGED <<isDone, timers, tokenArmed, abandoned, home, aborted, serverVars, crossed>>
  BY DEF OnStop
<1>2. /\ Coming("stop", i)
      /\ Channel(toClient')
      /\ \A l, y : Coming(l, y)' <=> Coming(l, y) /\ ~(l = "stop" /\ y = i)
  BY Received DEF OnStop
<1>3. FollowerAt(i) /\ i \notin serverSubs
  BY <1>2 DEF Followers, FollowerAt
<1>4. i \in Lost /\ Lost' = Lost \ {i}
  <2>1. ~Coming("refused", i)
    BY <1>2, <1>3 DEF FollowerAt
  <2>2. QED
    BY <1>2, <2>1 DEF Lost
<1>5. Cardinality(Lost') = Cardinality(Lost) - 1 /\ Cardinality(Lost) \in Nat
  BY <1>4, LostChange, FiniteFollowers, LostTyped
<1>6. Len(timers) \in Nat /\ disturbances \in Nat
  BY LenProperties DEF TypeOK
<1> DEFINE D == Of(i, {"requested", "listening"})
<1>7. \A o \in D \cap Op : stage[o] # "idle"
  BY DEF Of
<1>8. CASE sub[i] = "active" /\ ~isDone
  <2>1. SetFollower({i}, toServer) /\ phase' = "expecting" /\ Enter(D, "over")
    BY <1>8 DEF OnStop, RejectOperations
  <2>2. /\ follower' = NextFollower
        /\ NextFollower \in Follower
        /\ NextFollower # 0
        /\ sub[NextFollower] = "none"
        /\ sub' \in [Follower -> {"none", "waiting", "active", "null"}]
        /\ sub'[NextFollower] = "waiting"
        /\ \A j \in Follower : j # NextFollower =>
             sub'[j] = IF j = i THEN "null" ELSE sub[j]
        /\ Called' = Called \cup {NextFollower}
        /\ Channel(toServer')
        /\ \A l, y : Sent(l, y)' <=> Sent(l, y) \/ (l = "follow" /\ y = NextFollower)
    <3>1. Lost # {} /\ i \in Called
      BY <1>4, <1>8 DEF Called
    <3>2. NextFollower \in Follower /\ sub[NextFollower] = "none"
      BY <3>1, Room
    <3>3. Message("follow", NextFollower) \notin Range(toServer)
      BY <3>2 DEF Followers, FollowerAt, Sent
    <3>4. {i} \in SUBSET Called /\ Channel(toServer)
      BY <3>1 DEF NoRepetition
    <3>5. \A l, y : Message(l, y) \in Range(toServer) <=> Sent(l, y)
      BY DEF Sent
    <3>6. \A j : j \in {i} <=> j = i
      OBVIOUS
    <3>7. QED
      BY <2>1, <3>1, <3>3, <3>4, <3>5, <3>6, FollowingAgain
  <2> HIDE DEF D
  <2>3. TypeOK'
    BY <1>1, <1>2, <1>8, <2>1, <2>2 DEF TypeOK, Channel, serverVars, Enter
  <2>4. Followers'
    <3>1. ASSUME NEW j \in Follower PROVE FollowerAt(j)'
      BY <1>1, <1>2, <1>3, <1>8, <2>2
         DEF Followers, FollowerAt, SilentFollower, Unanswered, serverVars, TypeOK
    <3>2. QED
      BY <3>1 DEF Followers
  <2>5. Operations'
    <3>1. NoMore(OpKinds)
      BY <1>2, <2>2 DEF NoMore, OpKinds
    <3>2. QED
      BY <1>1, <1>7, <2>1, <3>1, OperationsAsBefore DEF serverVars
  <2>6. OperationsAreAttached'
    <3>1. \A j \in Follower : sub[j] = "active" =>
            \/ sub'[j] = "active"
            \/ Of(j, {"requested", "listening"}) \subseteq D /\ Enter(D, "over")
      BY <2>1, <2>2 DEF D
    <3>2. QED
      BY <1>1, <2>1, <3>1, AttachedAsBefore
  <2>7. Counted'
    BY <1>1, <1>4, <1>5, <1>6, <2>2, <2>3, CountingOneMore DEF serverVars
  <2>8. NoLeakedSubscription'
    BY <1>1, <1>2, <1>3, <2>2
       DEF NoLeakedSubscription, Sent, Coming, serverVars, TypeOK, Followers, FollowerAt
  <2>9. ASSUME ~crossed' PROVE Control'
    <3>1. Control
      BY <1>1, <2>9
    <3>2. i = follower
      BY <1>8, <3>1 DEF Control, Alive, Current
    <3>3. Alive' = {NextFollower}
      BY <2>2, <3>1, <3>2 DEF Control, Alive, Current
    <3>4. follower # 0
      BY <3>2 DEF Follower
    <3>5. QED
      BY <1>1, <1>8, <2>1, <2>2, <3>1, <3>3, <3>4 DEF Control, Current
  <2>10. QED
    BY <1>2, <2>2, <2>3, <2>4, <2>5, <2>6, <2>7, <2>8, <2>9 DEF NoRepetition
<1>9. CASE sub[i] = "active" /\ isDone
  <2>1. /\ follower' = 0
        /\ sub' = [sub EXCEPT ![i] = "null"]
        /\ Enter(D, "over")
        /\ UNCHANGED <<phase, toServer>>
    BY <1>9 DEF OnStop, RejectOperations
  <2> HIDE DEF D
  <2>2. /\ sub'[i] = "null"
        /\ \A j \in Follower : j # i => sub'[j] = sub[j]
        /\ sub' \in [Follower -> {"none", "waiting", "active", "null"}]
    BY <2>1 DEF TypeOK
  <2>3. Channel(toServer') /\ \A l, y : Sent(l, y)' <=> Sent(l, y)
    BY <2>1, SameMessages DEF NoRepetition
  <2>4. TypeOK'
    BY <1>1, <1>2, <2>1, <2>2, <2>3 DEF TypeOK, Channel, serverVars, Enter
  <2>5. Followers'
    <3>1. ASSUME NEW j \in Follower PROVE FollowerAt(j)'
      BY <1>1, <1>2, <1>3, <1>9, <2>2, <2>3
         DEF Followers, FollowerAt, SilentFollower, Unanswered, serverVars, TypeOK
    <3>2. QED
      BY <3>1 DEF Followers
  <2>6. Operations'
    <3>1. NoMore(OpKinds)
      BY <1>2, <2>3 DEF NoMore
    <3>2. QED
      BY <1>1, <1>7, <2>1, <3>1, OperationsAsBefore DEF serverVars
  <2>7. OperationsAreAttached'
    <3>1. \A j \in Follower : sub[j] = "active" =>
            \/ sub'[j] = "active"
            \/ Of(j, {"requested", "listening"}) \subseteq D /\ Enter(D, "over")
      BY <2>1, <2>2 DEF D
    <3>2. QED
      BY <1>1, <2>1, <3>1, AttachedAsBefore
  <2>8. Counted'
    <3>1. Called' = Called
      BY <1>9, <2>2 DEF Called
    <3>2. Cardinality(Lost') + Len(timers') + disturbances
            <= Cardinality(Lost) + Len(timers) + disturbances'
      BY <1>1, <1>5, <1>6 DEF serverVars
    <3>3. QED
      BY <2>4, <3>1, <3>2, Counting
  <2>9. NoLeakedSubscription'
    BY <1>1, <1>2, <1>3, <2>2, <2>3
       DEF NoLeakedSubscription, Sent, Coming, serverVars, TypeOK
  <2>10. ~crossed' => Control'
    BY <1>1, <1>9 DEF Control, Alive
  <2>11. QED
    BY <1>2, <2>3, <2>4, <2>5, <2>6, <2>7, <2>8, <2>9, <2>10 DEF NoRepetition
<1>10. CASE sub[i] # "active"
  <2>1. UNCHANGED <<follower, phase, sub, stage, toServer>>
    BY <1>10 DEF OnStop
  <2>2. Channel(toServer') /\ \A l, y : Sent(l, y)' <=> Sent(l, y)
    BY <2>1, SameMessages DEF NoRepetition
  <2>3. TypeOK'
    BY <1>1, <1>2, <2>1, <2>2 DEF TypeOK, Channel, serverVars
  <2>4. Followers'
    <3>1. ASSUME NEW j \in Follower PROVE FollowerAt(j)'
      BY <1>1, <1>2, <2>1, <2>2
         DEF Followers, FollowerAt, SilentFollower, Unanswered, serverVars
    <3>2. QED
      BY <3>1 DEF Followers
  <2>5. Operations'
    <3>1. NoMore(OpKinds)
      BY <1>2, <2>2 DEF NoMore
    <3>2. QED
      BY <1>1, <2>1, <3>1, OperationsUntouched DEF serverVars
  <2>6. OperationsAreAttached'
    BY <1>1, <2>1 DEF OperationsAreAttached
  <2>7. Counted'
    <3>1. Called' = Called
      BY <2>1 DEF Called
    <3>2. Cardinality(Lost') + Len(timers') + disturbances
            <= Cardinality(Lost) + Len(timers) + disturbances'
      BY <1>1, <1>5, <1>6 DEF serverVars
    <3>3. QED
      BY <2>3, <3>1, <3>2, Counting
  <2>8. NoLeakedSubscription'
    BY <1>1, <1>2, <2>1, <2>2 DEF NoLeakedSubscription, Sent, Coming, serverVars
  <2>9. ~crossed' => Control'
    BY <1>1, <1>2, <2>1 DEF Control, Alive, Current
  <2>10. QED
    BY <1>2, <2>2, <2>3, <2>4, <2>5, <2>6, <2>7, <2>8, <2>9 DEF NoRepetition
<1>11. QED
  BY <1>8, <1>9, <1>10

-------------------------------------------------------------------------------
(***************************************************************************)
(* Actions of getFollow$.                                                  *)
(***************************************************************************)
LEMMA InnerKeeps ==
  ASSUME Inv, Inner
  PROVE  Inv'
<1> USE DEF Inv
<1>1. /\ phase = "inner" /\ phase' \in {"initialized", "failed"}
      /\ UNCHANGED <<isDone, follower, subVars, opVars, toServer, toClient,
                     serverSubs, serverOps, crossed>>
      /\ \/ /\ UNCHANGED <<timers, tokenArmed>>
            /\ disturbances' \in {disturbances, disturbances + 1}
         \/ /\ ~isDone
            /\ timers' = Append(timers, "reset") /\ tokenArmed' = TRUE
            /\ disturbances' = disturbances + 1
      /\ disturbances' \in 0 .. MaxDisturbances
  BY BoundAssumption DEF Inner, InnerSucceeds, InnerFails, TypeOK, serverVars
<1>2. /\ \A l, y : Sent(l, y)' <=> Sent(l, y)
      /\ \A l, y : Coming(l, y)' <=> Coming(l, y)
  BY <1>1, SameMessages
<1>3. /\ timers \in Seq({"follow", "reset"}) /\ Len(timers) \in Nat
      /\ Append(timers, "reset") \in Seq({"follow", "reset"})
      /\ Append(timers, "reset") # <<>>
      /\ Len(Append(timers, "reset")) = Len(timers) + 1
  BY TimersTyped DEF TypeOK
<1>4. /\ timers' \in Seq({"follow", "reset"})
      /\ tokenArmed' \in BOOLEAN /\ (tokenArmed' => timers' # <<>>)
  <2>1. CASE UNCHANGED <<timers, tokenArmed>>
    BY <1>3, <2>1 DEF TypeOK
  <2>2. CASE timers' = Append(timers, "reset") /\ tokenArmed' = TRUE
    BY <1>3, <2>2
  <2>3. QED
    BY <1>1, <2>1, <2>2
<1>5. TypeOK'
  BY <1>1, <1>4 DEF TypeOK, subVars, opVars
<1>6. Followers'
  <2>1. ASSUME NEW j \in Follower PROVE FollowerAt(j)'
    BY <1>1, <1>2 DEF Followers, FollowerAt, SilentFollower, Unanswered, subVars
  <2>2. QED
    BY <2>1 DEF Followers
<1>7. Operations'
  <2>1. NoMore(OpKinds)
    BY <1>2 DEF NoMore
  <2>2. QED
    BY <1>1, <2>1, OperationsUntouched DEF opVars
<1>8. OperationsAreAttached'
  BY <1>1 DEF OperationsAreAttached, subVars, opVars
<1>9. Counted'
  <2>1. Lost' = Lost /\ Called' = Called
    BY <1>1, <1>2 DEF Lost, Called, subVars
  <2>2. Cardinality(Lost) \in Nat /\ disturbances \in Nat
    BY FiniteFollowers DEF Lost, TypeOK
  <2>3. Len(timers') + disturbances <= Len(timers) + disturbances'
    <3>1. CASE timers' = timers
      BY <1>1, <1>3, <2>2, <3>1
    <3>2. CASE timers' = Append(timers, "reset") /\ disturbances' = disturbances + 1
      BY <1>3, <2>2, <3>2
    <3>3. QED
      BY <1>1, <3>1, <3>2
  <2>4. Len(timers') \in Nat /\ disturbances' \in Nat
    BY <1>5, LenProperties DEF TypeOK
  <2>5. Cardinality(Lost') + Len(timers') + disturbances
          <= Cardinality(Lost) + Len(timers) + disturbances'
    BY <1>3, <2>1, <2>2, <2>3, <2>4
  <2>6. QED
    BY <1>5, <2>1, <2>5, Counting
<1>10. NoLeakedSubscription'
  BY <1>1, <1>2 DEF NoLeakedSubscription, Sent, Coming, subVars
<1>11. ASSUME ~crossed' PROVE Control'
  <2>1. Control
    BY <1>1, <1>11
  <2>2. \A n \in 1 .. Len(timers') :
          timers'[n] = "follow" =>
            n = Len(timers') /\ tokenArmed' /\ follower' = 0 /\ ~isDone'
    <3>1. CASE UNCHANGED <<timers, tokenArmed>>
      BY <1>1, <2>1, <3>1 DEF Control
    <3>2. CASE ~isDone /\ timers' = Append(timers, "reset")
      <4>1. follower # 0
        BY <1>1, <2>1, <3>2 DEF Control
      <4>2. \A n \in 1 .. Len(timers) : timers[n] # "follow"
        BY <2>1, <4>1 DEF Control
      <4>3. \A n \in 1 .. Len(timers') :
              timers'[n] = "reset" \/ (n \in 1 .. Len(timers) /\ timers'[n] = timers[n])
        BY <1>3, <3>2, AppendProperties
      <4>4. QED
        BY <4>2, <4>3
    <3>3. QED
      BY <1>1, <3>1, <3>2
  <2>3. QED
    BY <1>1, <1>2, <2>1, <2>2 DEF Control, Alive, Current, subVars
<1>12. QED
  BY <1>1, <1>5, <1>6, <1>7, <1>8, <1>9, <1>10, <1>11 DEF NoRepetition

LEMMA FollowTimerKeeps ==
  ASSUME Inv, FollowTimer
  PROVE  Inv'
<1> USE DEF Inv
<1>1. /\ timers # <<>> /\ Head(timers) = "follow"
      /\ timers' = Tail(timers)
      /\ tokenArmed' = (tokenArmed /\ Tail(timers) # <<>>)
      /\ SetFollower({}, toServer)
      /\ UNCHANGED <<isDone, phase, abandoned, opVars, toClient, serverVars, crossed>>
  BY DEF FollowTimer
<1>2. /\ follower' = NextFollower
      /\ NextFollower \in Follower
      /\ NextFollower # 0
      /\ sub[NextFollower] = "none"
      /\ sub' \in [Follower -> {"none", "waiting", "active", "null"}]
      /\ sub'[NextFollower] = "waiting"
      /\ \A j \in Follower : j # NextFollower => sub'[j] = sub[j]
      /\ Called' = Called \cup {NextFollower}
      /\ Channel(toServer')
      /\ \A l, y : Sent(l, y)' <=> Sent(l, y) \/ (l = "follow" /\ y = NextFollower)
  <2>1. NextFollower \in Follower /\ sub[NextFollower] = "none"
    BY <1>1, Room
  <2>2. Message("follow", NextFollower) \notin Range(toServer)
    BY <2>1 DEF Followers, FollowerAt, Sent
  <2>3. {} \in SUBSET Called /\ Channel(toServer)
    BY DEF NoRepetition
  <2>4. \A l, y : Message(l, y) \in Range(toServer) <=> Sent(l, y)
    BY DEF Sent
  <2>5. /\ follower' = NextFollower
        /\ NextFollower \in Follower
        /\ NextFollower # 0
        /\ sub[NextFollower] = "none"
        /\ sub' \in [Follower -> {"none", "waiting", "active", "null"}]
        /\ sub'[NextFollower] = "waiting"
        /\ \A j \in Follower : j # NextFollower =>
             sub'[j] = IF j \in {} THEN "null" ELSE sub[j]
        /\ Called' = Called \cup {NextFollower}
        /\ Channel(toServer')
        /\ \A l, y : Sent(l, y)' <=>
             Message(l, y) \in Range(toServer) \/ (l = "follow" /\ y = NextFollower)
    BY <1>1, <2>2, <2>3, FollowingAgain
  <2>6. QED
    BY <2>4, <2>5
<1>3. Channel(toClient') /\ \A l, y : Coming(l, y)' <=> Coming(l, y)
  BY <1>1, SameMessages DEF NoRepetition
<1>4. /\ timers' \in Seq({"follow", "reset"})
      /\ Len(timers) \in Nat /\ Len(timers) # 0 /\ Len(timers') = Len(timers) - 1
  BY <1>1, TimersTyped DEF TypeOK
<1>5. TypeOK'
  BY <1>1, <1>2, <1>3, <1>4 DEF TypeOK, Channel, opVars, serverVars
<1>6. Followers'
  <2>1. ASSUME NEW j \in Follower PROVE FollowerAt(j)'
    BY <1>1, <1>2, <1>3
       DEF Followers, FollowerAt, SilentFollower, Unanswered, serverVars, TypeOK
  <2>2. QED
    BY <2>1 DEF Followers
<1>7. Operations'
  <2>1. NoMore(OpKinds)
    BY <1>2, <1>3 DEF NoMore, OpKinds
  <2>2. QED
    BY <1>1, <2>1, OperationsUntouched DEF opVars, serverVars
<1>8. OperationsAreAttached'
  <2>1. \A j \in Follower : sub[j] = "active" => sub'[j] = "active"
    BY <1>2
  <2>2. QED
    BY <1>1, <2>1 DEF OperationsAreAttached, Operations, OpAt, opVars
<1>9. Counted'
  <2>1. Lost' = Lost
    BY <1>3 DEF Lost
  <2>2. Cardinality(Lost) \in Nat
    BY FiniteFollowers DEF Lost
  <2>3. Cardinality(Lost') + Len(timers') + 1 <= Cardinality(Lost) + Len(timers)
    BY <1>4, <2>1, <2>2
  <2>4. QED
    BY <1>1, <1>2, <1>5, <2>3, CountingOneMore DEF serverVars
<1>10. NoLeakedSubscription'
  BY <1>1, <1>2, <1>3
     DEF NoLeakedSubscription, Sent, Coming, serverVars, TypeOK, Followers, FollowerAt
<1>11. ASSUME ~crossed' PROVE Control'
  <2>1. Control
    BY <1>1, <1>11
  <2>2. timers[1] = "follow" /\ 1 \in 1 .. Len(timers)
    BY <1>1, <1>4
  <2>3. Len(timers) = 1 /\ follower = 0 /\ ~isDone
    BY <2>1, <2>2 DEF Control
  <2>4. Alive' = {NextFollower}
    BY <1>2, <2>1, <2>3 DEF Control, Alive, Current
  <2>5. \A n \in 1 .. Len(timers') : FALSE
    BY <1>4, <2>3
  <2>6. QED
    BY <1>1, <1>2, <2>1, <2>3, <2>4, <2>5 DEF Control, Current
<1>12. QED
  BY <1>2, <1>3, <1>5, <1>6, <1>7, <1>8, <1>9, <1>10, <1>11 DEF NoRepetition

\* No timer that follows again survives when the last one is cleared.
LEMMA TokenCleared ==
  ASSUME NEW ts \in Seq({"follow", "reset"}), NEW armed \in BOOLEAN,
         \A n \in 1 .. Len(ts) : ts[n] = "follow" => n = Len(ts) /\ armed
  PROVE  \A n \in 1 .. Len(WithoutToken(ts, armed)) : WithoutToken(ts, armed)[n] # "follow"
<1>1. CASE armed /\ ts # <<>>
  <2>1. /\ WithoutToken(ts, armed) = Front(ts)
        /\ Len(Front(ts)) = Len(ts) - 1 /\ Len(ts) \in Nat
        /\ \A n \in 1 .. Len(ts) - 1 : Front(ts)[n] = ts[n]
    BY <1>1, FrontElements, LenProperties DEF WithoutToken
  <2>2. \A n \in 1 .. Len(ts) - 1 : n \in 1 .. Len(ts) /\ n # Len(ts)
    BY <2>1
  <2>3. QED
    BY <2>1, <2>2
<1>2. CASE ~armed \/ ts = <<>>
  <2>1. WithoutToken(ts, armed) = ts
    BY <1>2 DEF WithoutToken
  <2>2. QED
    BY <1>2, <2>1
<1>3. QED
  BY <1>1, <1>2

\* What is given up: an active subscription is unfollowed now, one that waits when
\* the response comes, and the operations that wait for an answer are rejected.
GivenUp == IF follower = 0 THEN {} ELSE Of(follower, {"requested", "listening"})

LEMMA GivingUp ==
  ASSUME TypeOK
  PROVE  /\ Given \in SUBSET Called
         /\ \A i \in Follower : i \in Current /\ sub[i] # "none" <=> i \in Given
         /\ \A i : i \in Given => i \in Follower /\ i = follower
         /\ \A i : i \in UnfollowLater <=> i \in abandoned \/ (i \in Current /\ sub[i] = "waiting")
         /\ \A o \in GivenUp \cap Op : stage[o] # "idle"
<1>1. Current \subseteq Follower /\ \A i \in Current : i = follower
  BY DEF Current, TypeOK
<1>2. QED
  BY <1>1 DEF Given, Called, UnfollowLater, GivenUp, Of

LEMMA RejectingGivenUp ==
  ASSUME Inv, home' = home,
         IF follower = 0 THEN UNCHANGED stage ELSE RejectOperations(follower),
         \A i \in Follower : i \notin Given /\ sub[i] = "active" => sub'[i] = "active"
  PROVE  /\ Enter(GivenUp, "over") \/ stage' = stage
         /\ stage' \in [Op -> {"idle", "early", "requested", "listening", "over"}]
         /\ OperationsAreAttached'
<1>1. follower # 0 => Enter(GivenUp, "over")
  BY DEF GivenUp, RejectOperations
<1>2. Enter(GivenUp, "over") \/ stage' = stage
  BY <1>1
<1>3. stage' \in [Op -> {"idle", "early", "requested", "listening", "over"}]
  BY <1>2 DEF Inv, TypeOK, Enter
<1>4. ASSUME NEW i \in Follower, sub[i] = "active"
      PROVE  \/ sub'[i] = "active"
             \/ Of(i, {"requested", "listening"}) \subseteq GivenUp /\ Enter(GivenUp, "over")
  <2>1. CASE i \in Given
    <3>1. i = follower
      BY <2>1 DEF Given, Current
    <3>2. i # 0
      BY BoundAssumption DEF Follower
    <3>3. QED
      BY <1>1, <3>1, <3>2 DEF GivenUp
  <2>2. CASE i \notin Given
    BY <1>4, <2>2
  <2>3. QED
    BY <2>1, <2>2
<1>5. QED
  BY <1>2, <1>3, <1>4, AttachedAsBefore

LEMMA UnfollowKeeps ==
  ASSUME Inv, Unfollow
  PROVE  Inv'
<1> USE DEF Inv
<1>1. /\ ~isDone /\ isDone' = TRUE
      /\ timers' = WithoutToken(timers, tokenArmed)
      /\ tokenArmed' = FALSE
      /\ toServer' = UnfollowNow
      /\ abandoned' = UnfollowLater
      /\ sub' = [i \in Follower |-> IF i \in Given THEN "null" ELSE sub[i]]
      /\ IF follower = 0 THEN UNCHANGED stage ELSE RejectOperations(follower)
      /\ UNCHANGED <<follower, phase, home, aborted, toClient, serverVars, crossed>>
  BY DEF Unfollow, LeftWhenDone
<1>2. /\ Channel(toServer')
      /\ \A l, y : Sent(l, y)' <=>
           Sent(l, y) \/ (l = "unfollow" /\ y \in Current /\ sub[y] = "active")
  <2>1. \A l, y : Sent(l, y)' <=> Message(l, y) \in Range(UnfollowNow)
    BY <1>1 DEF Sent
  <2>2. QED
    BY <1>1, <2>1, Unfollowing
<1>3. Channel(toClient') /\ \A l, y : Coming(l, y)' <=> Coming(l, y)
  BY <1>1, SameMessages DEF NoRepetition
<1>4. /\ timers' \in Seq({"follow", "reset"})
      /\ Len(timers) \in Nat /\ Len(timers') <= Len(timers)
  BY <1>1, TimersTyped DEF TypeOK
<1>5. /\ \A i \in Follower : i \in Given => i \in Current /\ sub'[i] = "null"
      /\ \A i \in Follower : i \notin Given => sub'[i] = sub[i]
      /\ \A i \in Follower : i \in Current /\ sub[i] # "none" => i \in Given
      /\ \A i : i \in Given => i \in Follower /\ sub[i] # "none"
      /\ \A i \in Follower : i \in abandoned' <=>
           i \in abandoned \/ (i \in Current /\ sub[i] = "waiting")
      /\ sub' \in [Follower -> {"none", "waiting", "active", "null"}]
  BY <1>1, GivingUp DEF TypeOK, Called
<1>6. /\ Enter(GivenUp, "over") \/ stage' = stage
      /\ stage' \in [Op -> {"idle", "early", "requested", "listening", "over"}]
      /\ OperationsAreAttached'
  BY <1>1, <1>5, RejectingGivenUp
<1>7. abandoned' \subseteq {i \in Follower : sub'[i] = "null"}
  <2>1. \A i \in abandoned : i \in Follower /\ sub[i] = "null"
    BY DEF TypeOK
  <2>2. \A i \in abandoned' : i \in abandoned \/ (i \in Current /\ sub[i] = "waiting")
    BY <1>1, GivingUp
  <2>3. Current \subseteq Follower
    BY DEF Current, TypeOK
  <2>4. ASSUME NEW i \in abandoned' PROVE i \in Follower /\ sub'[i] = "null"
    BY <1>5, <2>1, <2>2, <2>3, <2>4
  <2>5. QED
    BY <2>4
<1>8. TypeOK'
  BY <1>1, <1>2, <1>3, <1>4, <1>5, <1>6, <1>7 DEF TypeOK, Channel, serverVars
<1>9. Followers'
  <2>1. ASSUME NEW j \in Follower PROVE FollowerAt(j)'
    <3>1. FollowerAt(j)
      BY DEF Followers
    <3>2. CASE j \in Given
      BY <1>1, <1>2, <1>3, <1>5, <3>1, <3>2
         DEF FollowerAt, SilentFollower, Unanswered, serverVars, TypeOK
    <3>3. CASE j \notin Given
      BY <1>1, <1>2, <1>3, <1>5, <3>1, <3>3
         DEF FollowerAt, SilentFollower, Unanswered, serverVars
    <3>4. QED
      BY <3>2, <3>3
  <2>2. QED
    BY <2>1 DEF Followers
<1>10. Operations'
  <2>1. NoMore(OpKinds)
    BY <1>2, <1>3 DEF NoMore, OpKinds
  <2>2. \A o \in GivenUp \cap Op : stage[o] # "idle"
    BY GivingUp
  <2>3. home' = home /\ serverOps' \subseteq serverOps
    BY <1>1 DEF serverVars
  <2>4. QED
    BY <1>6, <2>1, <2>2, <2>3, OperationsAsBefore
<1>11. Counted'
  <2>1. Called' = Called
    BY <1>5 DEF Called
  <2>2. Lost' = Lost /\ Cardinality(Lost) \in Nat
    BY <1>3, FiniteFollowers, LostTyped DEF Lost
  <2>3. disturbances' = disturbances /\ disturbances \in Nat
    BY <1>1 DEF serverVars, TypeOK
  <2>4. Len(timers') \in Nat
    BY <1>4, LenProperties
  <2>5. Cardinality(Lost') + Len(timers') + disturbances
          <= Cardinality(Lost) + Len(timers) + disturbances'
    BY <1>4, <2>2, <2>3, <2>4
  <2>6. QED
    BY <1>8, <2>1, <2>5, Counting
<1>12. NoLeakedSubscription'
  <2>1. ASSUME NEW i \in serverSubs'
        PROVE  \/ sub'[i] = "active"
               \/ (sub'[i] = "waiting" \/ i \in abandoned') /\ Coming("followed", i)'
               \/ Sent("unfollow", i)'
    <3>1. /\ i \in Follower
          /\ \/ sub[i] = "active"
             \/ (sub[i] = "waiting" \/ i \in abandoned) /\ Coming("followed", i)
             \/ Sent("unfollow", i)
      BY <1>1, <2>1 DEF NoLeakedSubscription, Sent, Coming, serverVars, TypeOK
    <3>2. QED
      BY <1>2, <1>3, <1>5, <3>1
  <2>2. QED
    BY <2>1 DEF NoLeakedSubscription, Sent, Coming
<1>13. ASSUME ~crossed' PROVE Control'
  <2>1. Control
    BY <1>1, <1>13
  <2>2. Alive' = {}
    BY <1>5, <2>1 DEF Control, Alive
  <2>3. \A n \in 1 .. Len(timers') : timers'[n] # "follow"
    <3>1. \A n \in 1 .. Len(timers) : timers[n] = "follow" => n = Len(timers) /\ tokenArmed
      BY <2>1 DEF Control
    <3>2. timers \in Seq({"follow", "reset"}) /\ tokenArmed \in BOOLEAN
      BY DEF TypeOK
    <3>3. QED
      BY <1>1, <3>1, <3>2, TokenCleared
  <2>4. QED
    BY <1>1, <2>1, <2>2, <2>3 DEF Control
<1>14. QED
  BY <1>2, <1>3, <1>6, <1>8, <1>9, <1>10, <1>11, <1>12, <1>13 DEF NoRepetition

LEMMA IdleResetKeeps ==
  ASSUME Inv, ResetTimer, isDone
  PROVE  Inv'
<1> USE DEF Inv
<1>1. /\ timers # <<>>
      /\ timers' = Tail(timers)
      /\ tokenArmed' = (tokenArmed /\ Tail(timers) # <<>>)
      /\ UNCHANGED <<isDone, follower, phase, subVars, opVars, toServer, toClient,
                     serverVars, crossed>>
  BY DEF ResetTimer, opVars
<1>2. /\ \A l, y : Sent(l, y)' <=> Sent(l, y)
      /\ \A l, y : Coming(l, y)' <=> Coming(l, y)
  BY <1>1, SameMessages
<1>3. /\ timers' \in Seq({"follow", "reset"})
      /\ Len(timers) \in Nat /\ Len(timers) # 0 /\ Len(timers') = Len(timers) - 1
  BY <1>1, TimersTyped DEF TypeOK
<1>4. TypeOK'
  BY <1>1, <1>3 DEF TypeOK, subVars, opVars, serverVars
<1>5. Followers'
  <2>1. ASSUME NEW j \in Follower PROVE FollowerAt(j)'
    BY <1>1, <1>2 DEF Followers, FollowerAt, SilentFollower, Unanswered, subVars, serverVars
  <2>2. QED
    BY <2>1 DEF Followers
<1>6. Operations'
  <2>1. NoMore(OpKinds)
    BY <1>2 DEF NoMore
  <2>2. QED
    BY <1>1, <2>1, OperationsUntouched DEF opVars, serverVars
<1>7. OperationsAreAttached'
  BY <1>1 DEF OperationsAreAttached, subVars, opVars
<1>8. Counted'
  <2>1. Lost' = Lost /\ Called' = Called
    BY <1>1, <1>2 DEF Lost, Called, subVars
  <2>2. Cardinality(Lost) \in Nat /\ disturbances \in Nat
    BY FiniteFollowers, LostTyped DEF TypeOK
  <2>3. Cardinality(Lost') + Len(timers') + disturbances
          <= Cardinality(Lost) + Len(timers) + disturbances'
    BY <1>1, <1>3, <2>1, <2>2 DEF serverVars
  <2>4. QED
    BY <1>4, <2>1, <2>3, Counting
<1>9. NoLeakedSubscription'
  BY <1>1, <1>2 DEF NoLeakedSubscription, Sent, Coming, subVars, serverVars
<1>10. ASSUME ~crossed' PROVE Control'
  <2>1. Control
    BY <1>1, <1>10
  <2>2. \A n \in 1 .. Len(timers) : timers[n] # "follow"
    BY <2>1 DEF Control
  <2>3. \A n \in 1 .. Len(timers') : timers'[n] = timers[n + 1] /\ n + 1 \in 1 .. Len(timers)
    BY <1>1, <1>3, HeadTailProperties DEF TypeOK
  <2>4. \A n \in 1 .. Len(timers') : timers'[n] # "follow"
    BY <2>2, <2>3
  <2>5. QED
    BY <1>1, <1>2, <2>1, <2>4 DEF Control, Alive, Current, subVars
<1>11. QED
  BY <1>1, <1>4, <1>5, <1>6, <1>7, <1>8, <1>9, <1>10 DEF NoRepetition

LEMMA ResetKeeps ==
  ASSUME Inv, ResetTimer, ~isDone
  PROVE  Inv'
<1> USE DEF Inv
<1>1. /\ timers # <<>> /\ Head(timers) = "reset"
      /\ timers' = WithoutToken(Tail(timers), tokenArmed)
      /\ tokenArmed' = FALSE
      /\ phase' = "expecting"
      /\ IF follower = 0 THEN UNCHANGED stage ELSE RejectOperations(follower)
      /\ abandoned' = UnfollowLater
      /\ SetFollower(Given, UnfollowNow)
      /\ UNCHANGED <<isDone, home, aborted, toClient, serverVars, crossed>>
  BY DEF ResetTimer, ResetGivesUp
<1>2. /\ follower' = NextFollower
      /\ NextFollower \in Follower
      /\ NextFollower # 0
      /\ sub[NextFollower] = "none"
      /\ sub' \in [Follower -> {"none", "waiting", "active", "null"}]
      /\ sub'[NextFollower] = "waiting"
      /\ \A i \in Follower : i # NextFollower =>
           sub'[i] = IF i \in Given THEN "null" ELSE sub[i]
      /\ Called' = Called \cup {NextFollower}
      /\ Channel(toServer')
      /\ \A l, y : Sent(l, y)' <=>
           \/ Sent(l, y)
           \/ l = "unfollow" /\ y \in Current /\ sub[y] = "active"
           \/ l = "follow" /\ y = NextFollower
  <2>1. NextFollower \in Follower /\ sub[NextFollower] = "none"
    BY <1>1, Room
  <2>2. /\ Channel(UnfollowNow)
        /\ \A l, y : Message(l, y) \in Range(UnfollowNow) <=>
             \/ Sent(l, y)
             \/ l = "unfollow" /\ y \in Current /\ sub[y] = "active"
    BY Unfollowing
  <2>3. Message("follow", NextFollower) \notin Range(UnfollowNow)
    <3>1. ~Sent("follow", NextFollower)
      BY <2>1 DEF Followers, FollowerAt
    <3>2. QED
      BY <2>2, <3>1
  <2>4. Given \in SUBSET Called
    BY GivingUp
  <2>5. /\ follower' = NextFollower
        /\ NextFollower \in Follower
        /\ NextFollower # 0
        /\ sub[NextFollower] = "none"
        /\ sub' \in [Follower -> {"none", "waiting", "active", "null"}]
        /\ sub'[NextFollower] = "waiting"
        /\ \A i \in Follower : i # NextFollower =>
             sub'[i] = IF i \in Given THEN "null" ELSE sub[i]
        /\ Called' = Called \cup {NextFollower}
        /\ Channel(toServer')
        /\ \A l, y : Sent(l, y)' <=>
             Message(l, y) \in Range(UnfollowNow) \/ (l = "follow" /\ y = NextFollower)
    BY <1>1, <2>2, <2>3, <2>4, FollowingAgain
  <2>6. QED
    BY <2>2, <2>5
<1>3. Channel(toClient') /\ \A l, y : Coming(l, y)' <=> Coming(l, y)
  BY <1>1, SameMessages DEF NoRepetition
<1>4. /\ Tail(timers) \in Seq({"follow", "reset"}) /\ tokenArmed \in BOOLEAN
      /\ timers' \in Seq({"follow", "reset"})
      /\ Len(timers) \in Nat /\ Len(timers) # 0
      /\ Len(Tail(timers)) = Len(timers) - 1
      /\ Len(timers') <= Len(timers) - 1
  BY <1>1, TimersTyped DEF TypeOK
<1>5. /\ \A i \in Follower : i \in Given => i \in Current /\ sub'[i] = "null"
      /\ \A i \in Follower : i \notin Given /\ i # NextFollower => sub'[i] = sub[i]
      /\ \A i \in Follower : i \in Current /\ sub[i] # "none" => i \in Given
      /\ \A i : i \in Given => i \in Follower /\ sub[i] # "none"
      /\ \A i \in Follower : i \in abandoned' <=>
           i \in abandoned \/ (i \in Current /\ sub[i] = "waiting")
  <2>1. /\ Given \in SUBSET Called
        /\ \A i \in Follower : i \in Current /\ sub[i] # "none" <=> i \in Given
        /\ \A i : i \in Given => i \in Follower /\ i = follower
        /\ \A i : i \in UnfollowLater <=> i \in abandoned \/ (i \in Current /\ sub[i] = "waiting")
    BY GivingUp
  <2>2. \A i : i \in Given => i \in Follower /\ sub[i] # "none"
    BY <2>1 DEF Called
  <2>3. \A i \in Follower : i \in Given => i \in Current /\ i # NextFollower
    BY <1>2, <2>1
  <2>4. QED
    BY <1>1, <1>2, <2>1, <2>2, <2>3
<1>6. /\ Enter(GivenUp, "over") \/ stage' = stage
      /\ stage' \in [Op -> {"idle", "early", "requested", "listening", "over"}]
      /\ OperationsAreAttached'
  <2>1. \A i \in Follower : i \notin Given /\ sub[i] = "active" => sub'[i] = "active"
    BY <1>2, <1>5
  <2>2. home' = home
    BY <1>1
  <2>3. QED
    BY <1>1, <2>1, <2>2, RejectingGivenUp
<1>7. abandoned' \subseteq {i \in Follower : sub'[i] = "null"}
  <2>1. \A i \in abandoned : i \in Follower /\ sub[i] = "null"
    BY DEF TypeOK
  <2>2. \A i \in abandoned' : i \in abandoned \/ (i \in Current /\ sub[i] = "waiting")
    BY <1>1, GivingUp
  <2>3. Current \subseteq Follower
    BY DEF Current, TypeOK
  <2>4. ASSUME NEW i \in abandoned' PROVE i \in Follower /\ sub'[i] = "null"
    BY <1>2, <1>5, <2>1, <2>2, <2>3, <2>4
  <2>5. QED
    BY <2>4
<1>8. TypeOK'
  BY <1>1, <1>2, <1>3, <1>4, <1>6, <1>7 DEF TypeOK, Channel, serverVars
<1>9. Followers'
  <2>1. ASSUME NEW j \in Follower PROVE FollowerAt(j)'
    <3>1. FollowerAt(j)
      BY DEF Followers
    <3>2. CASE j \in Given
      BY <1>1, <1>2, <1>3, <1>5, <3>1, <3>2
         DEF FollowerAt, SilentFollower, Unanswered, serverVars, TypeOK
    <3>3. CASE j \notin Given /\ j # NextFollower
      BY <1>1, <1>2, <1>3, <1>5, <3>1, <3>3
         DEF FollowerAt, SilentFollower, Unanswered, serverVars
    <3>4. CASE j = NextFollower
      BY <1>1, <1>2, <1>3, <1>5, <3>1, <3>4
         DEF FollowerAt, SilentFollower, Unanswered, serverVars
    <3>5. QED
      BY <3>2, <3>3, <3>4
  <2>2. QED
    BY <2>1 DEF Followers
<1>10. Operations'
  <2>1. NoMore(OpKinds)
    BY <1>2, <1>3 DEF NoMore, OpKinds
  <2>2. \A o \in GivenUp \cap Op : stage[o] # "idle"
    BY GivingUp
  <2>3. home' = home /\ serverOps' \subseteq serverOps
    BY <1>1 DEF serverVars
  <2>4. QED
    BY <1>6, <2>1, <2>2, <2>3, OperationsAsBefore
<1>11. Counted'
  <2>1. Lost' = Lost /\ Cardinality(Lost) \in Nat
    BY <1>3, FiniteFollowers, LostTyped DEF Lost
  <2>2. Len(timers') \in Nat
    BY <1>4, LenProperties
  <2>3. Cardinality(Lost') + Len(timers') + 1 <= Cardinality(Lost) + Len(timers)
    BY <1>4, <2>1, <2>2
  <2>4. disturbances' = disturbances
    BY <1>1 DEF serverVars
  <2>5. QED
    BY <1>1, <1>2, <1>8, <2>3, <2>4, CountingOneMore
<1>12. NoLeakedSubscription'
  <2>1. ASSUME NEW i \in serverSubs'
        PROVE  \/ sub'[i] = "active"
               \/ (sub'[i] = "waiting" \/ i \in abandoned') /\ Coming("followed", i)'
               \/ Sent("unfollow", i)'
    <3>1. /\ i \in Follower /\ i \in serverSubs
          /\ \/ sub[i] = "active"
             \/ (sub[i] = "waiting" \/ i \in abandoned) /\ Coming("followed", i)
             \/ Sent("unfollow", i)
      BY <1>1, <2>1 DEF NoLeakedSubscription, Sent, Coming, serverVars, TypeOK
    <3>2. i # NextFollower
      BY <1>2, <3>1 DEF Followers, FollowerAt
    <3>3. QED
      BY <1>2, <1>3, <1>5, <3>1, <3>2
  <2>2. QED
    BY <2>1 DEF NoLeakedSubscription, Sent, Coming
<1>13. ASSUME ~crossed' PROVE Control'
  <2>1. Control
    BY <1>1, <1>13
  <2>2. Alive' = {NextFollower}
    BY <1>2, <1>5, <2>1 DEF Control, Alive
  <2>3. \A n \in 1 .. Len(Tail(timers)) : Tail(timers)[n] = "follow" =>
          n = Len(Tail(timers)) /\ tokenArmed
    <3>1. \A n \in 1 .. Len(timers) : timers[n] = "follow" => n = Len(timers) /\ tokenArmed
      BY <2>1 DEF Control
    <3>2. \A n \in 1 .. Len(Tail(timers)) :
            Tail(timers)[n] = timers[n + 1] /\ n + 1 \in 1 .. Len(timers)
      BY <1>1, <1>4, HeadTailProperties DEF TypeOK
    <3>3. \A n \in 1 .. Len(Tail(timers)) : n + 1 = Len(timers) => n = Len(Tail(timers))
      <4>1. Len(timers) \in Nat /\ Len(Tail(timers)) = Len(timers) - 1
        BY <1>4
      <4> HIDE DEF Inv
      <4>2. QED
        BY ONLY <4>1
    <3>4. QED
      BY <3>1, <3>2, <3>3
  <2>4. \A n \in 1 .. Len(timers') : timers'[n] # "follow"
    <3>1. Tail(timers) \in Seq({"follow", "reset"}) /\ tokenArmed \in BOOLEAN
      BY <1>4
    <3>2. \A n \in 1 .. Len(WithoutToken(Tail(timers), tokenArmed)) :
            WithoutToken(Tail(timers), tokenArmed)[n] # "follow"
      BY <2>3, <3>1, TokenCleared
    <3>3. QED
      BY <1>1, <3>2
  <2>5. ~Coming("initialized", follower)'
    <3>1. FollowerAt(NextFollower)
      BY <1>2 DEF Followers
    <3>2. ~Coming("initialized", NextFollower)
      BY <1>2, <3>1 DEF FollowerAt, SilentFollower
    <3>3. \A l, y : Coming(l, y)' <=> Coming(l, y)
      BY <1>3
    <3>4. follower' = NextFollower
      BY <1>2
    <3>5. QED
      BY <3>2, <3>3, <3>4 DEF Coming
  <2>6. QED
    BY <1>1, <1>2, <2>1, <2>2, <2>4, <2>5 DEF Control, Current
<1>14. QED
  BY <1>2, <1>3, <1>6, <1>8, <1>9, <1>10, <1>11, <1>12, <1>13 DEF NoRepetition

-------------------------------------------------------------------------------
(***************************************************************************)
(* Every state has it.                                                     *)
(***************************************************************************)
LEMMA InvInit == Init => Inv
<1> SUFFICES ASSUME Init PROVE Inv
  OBVIOUS
<1>1. 1 \in Follower /\ 0 \in 0 .. MaxDisturbances
  BY BoundAssumption DEF Follower
<1>2. \A i \in Follower : sub[i] = IF i = 1 THEN "waiting" ELSE "none"
  BY DEF Init
<1>3. /\ Channel(toClient)
      /\ \A l, y : ~Coming(l, y)
  <2>1. toClient = <<>> /\ <<>> \in Seq(Messages) /\ Len(toClient) = 0
    BY EmptySeq DEF Init
  <2>2. Range(toClient) = {}
    <3>1. Range(toClient) = {toClient[n] : n \in 1 .. Len(toClient)}
      <4>1. toClient \in Seq(Messages)
        BY <2>1
      <4>2. QED
        BY <4>1, RangeEquality
    <3>2. 1 .. Len(toClient) = {}
      BY <2>1
    <3>3. QED
      BY <3>1, <3>2
  <2>3. IsInjective(toClient)
    BY <2>1 DEF IsInjective, Init
  <2>4. QED
    BY <2>1, <2>2, <2>3 DEF Channel, Coming
<1>4. /\ Channel(toServer)
      /\ \A l, y : Sent(l, y) <=> l = "follow" /\ y = 1
  <2>1. toServer = <<Message("follow", 1)>> /\ Message("follow", 1) \in Messages
    BY <1>1, MessagesTyped DEF Init
  <2>2. toServer \in Seq(Messages) /\ Len(toServer) = 1 /\ toServer[1] = Message("follow", 1)
    BY <2>1
  <2>3. Range(toServer) = {Message("follow", 1)}
    BY <2>2, RangeEquality
  <2>4. IsInjective(toServer)
    <3>1. DOMAIN toServer = 1 .. 1
      BY <2>2
    <3>2. \A a, b \in 1 .. 1 : a = b
      OBVIOUS
    <3>3. QED
      BY <3>1, <3>2 DEF IsInjective
  <2>5. QED
    BY <2>2, <2>3, <2>4, MessagesDiffer DEF Channel, Sent
<1>5. TypeOK
  <2>1. timers \in Seq({"follow", "reset"})
    BY EmptySeq DEF Init
  <2>2. toServer \in Seq(Messages) /\ toClient \in Seq(Messages)
    BY <1>3, <1>4 DEF Channel
  <2>3. sub \in [Follower -> {"none", "waiting", "active", "null"}]
    BY DEF Init
  <2>4. QED
    BY <1>1, <2>1, <2>2, <2>3 DEF Init, TypeOK
<1>6. Followers
  <2>1. ASSUME NEW j \in Follower PROVE FollowerAt(j)
    BY <1>2, <1>3, <1>4, <2>1 DEF Init, FollowerAt, SilentFollower, Unanswered
  <2>2. QED
    BY <2>1 DEF Followers
<1>7. Operations
  <2>1. \A o \in Op : stage[o] = "idle"
    BY DEF Init
  <2>2. QED
    BY <1>3, <1>4, <2>1 DEF Init, Operations, OpAt, SilentOp
<1>8. Counted
  <2>1. Called = {1} /\ Lost = {}
    BY <1>1, <1>2, <1>3 DEF Called, Lost
  <2>2. Cardinality(Called) = 1 /\ Cardinality(Lost) = 0
    BY <2>1, FS_Singleton, FS_EmptySet
  <2>3. Len(timers) = 0 /\ disturbances = 0
    BY EmptySeq DEF Init
  <2>4. 1 .. 1 = {1}
    OBVIOUS
  <2>5. QED
    BY <2>1, <2>2, <2>3, <2>4 DEF Counted
<1>9. OperationsAreAttached /\ NoLeakedSubscription
  BY DEF Init, OperationsAreAttached, NoLeakedSubscription
<1>10. Control
  <2>1. Len(timers) = 0
    BY EmptySeq DEF Init
  <2>2. follower = 1 /\ ~isDone /\ phase = "expecting"
    BY DEF Init
  <2>3. Alive \subseteq {1} /\ Current = {1} /\ sub[1] = "waiting"
    BY <1>1, <1>2, <2>2 DEF Alive, Current
  <2>4. \A n \in 1 .. Len(timers) : FALSE
    BY <2>1
  <2>5. QED
    BY <2>2, <2>3, <2>4 DEF Control
<1>11. QED
  BY <1>3, <1>4, <1>5, <1>6, <1>7, <1>8, <1>9, <1>10 DEF Inv, NoRepetition

LEMMA StutterKeeps == ASSUME Inv, UNCHANGED vars PROVE Inv'
<1>1. /\ UNCHANGED <<followVars, subVars, opVars, serverVars, toServer, toClient, crossed>>
      /\ UNCHANGED <<isDone, follower, timers, tokenArmed, phase, sub, abandoned, stage,
                     home, aborted, serverSubs, serverOps, disturbances>>
  BY DEF vars, followVars, subVars, opVars, serverVars
<1>2. /\ \A l, y : Sent(l, y)' <=> Sent(l, y)
      /\ \A l, y : Coming(l, y)' <=> Coming(l, y)
  BY <1>1, SameMessages
<1>3. TypeOK'
  BY <1>1 DEF Inv, TypeOK
<1>4. Followers' /\ Counted' /\ NoLeakedSubscription' /\ (~crossed' => Control')
  BY <1>1, <1>2, <1>3, FollowersAsBefore DEF Same
<1>5. Operations'
  <2>1. NoMore(OpKinds)
    BY <1>2 DEF NoMore
  <2>2. QED
    BY <1>1, <2>1, OperationsUntouched
<1>6. OperationsAreAttached'
  BY <1>1 DEF Inv, OperationsAreAttached
<1>7. NoRepetition'
  BY <1>1 DEF Inv, NoRepetition, Channel
<1>8. QED
  BY <1>3, <1>4, <1>5, <1>6, <1>7 DEF Inv

LEMMA InvNext == Inv /\ [Next]_vars => Inv'
<1> SUFFICES ASSUME Inv, [Next]_vars PROVE Inv'
  OBVIOUS
<1>1. CASE User
  BY <1>1, UnfollowKeeps, CallKeeps, AbortKeeps DEF User
<1>2. CASE Receiving
  BY <1>2, OnFollowedKeeps, OnRefusedKeeps, OnInitializedKeeps, OnStopKeeps,
     OnStartedKeeps, OnFailedOrDoneKeeps DEF Receiving
<1>3. CASE Inner
  BY <1>3, InnerKeeps
<1>4. CASE Timers
  BY <1>4, FollowTimerKeeps, IdleResetKeeps, ResetKeeps DEF Timers
<1>5. CASE Server
  BY <1>5, AcceptFollowKeeps, RefuseFollowKeeps, ServeUnfollowKeeps, ServerStopKeeps,
     ServerOperationKeeps DEF Server, Serving, ClientAlone
<1>6. CASE UNCHANGED vars
  BY <1>6, StutterKeeps
<1>7. QED
  BY <1>1, <1>2, <1>3, <1>4, <1>5, <1>6 DEF Next

LEMMA Tracked == Spec => []Inv
  BY InvInit, InvNext, PTL DEF Spec

-------------------------------------------------------------------------------
(***************************************************************************)
(* The guarantees.                                                         *)
(***************************************************************************)
\* The variables have the types that the code gives them.
THEOREM TypeCorrect == Spec => []TypeOK
<1>1. Inv => TypeOK
  BY DEF Inv
<1>2. QED
  BY <1>1, Tracked, PTL

\* getFollow$ has one subscription at a time, and the reducer is told of a stop
\* between two of them, as long as none that was given up was refused.
THEOREM OneSubscription == Spec => []OneFollow
<1>1. Inv => OneFollow
  BY DEF Inv, OneFollow, Control
<1>2. QED
  BY <1>1, Tracked, PTL

\* Every subscription that the server has is used, or it is going to be unfollowed
\* by a request on its way or by the response that is awaited (getChainHead).
THEOREM NoSubscriptionLeaks == Spec => []NoLeakedSubscription
<1>1. Inv => NoLeakedSubscription
  BY DEF Inv
<1>2. QED
  BY <1>1, Tracked, PTL

\* The operations that were requested, and did not end, belong to an active
\* subscription: stopEverything missed none (fRequest, createOperationPromise).
THEOREM NobodyWaitsForTheGone == Spec => []OperationsAreAttached
<1>1. Inv => OperationsAreAttached
  BY DEF Inv
<1>2. QED
  BY <1>1, Tracked, PTL

LEMMA QuietStep == Inv /\ Inv' /\ [Next]_vars => [isDone /\ ~crossed => Called' = Called]_vars
<1> SUFFICES ASSUME Inv, Next, isDone, ~crossed PROVE Called' = Called
  OBVIOUS
<1>1. Control /\ NoRepetition /\ Followers /\ TypeOK
  BY DEF Inv
<1>2. sub' = sub => Called' = Called
  BY DEF Called
<1>3. ASSUME NEW i \in Follower, sub[i] # "none", NEW v \in {"active", "null"},
             sub' = [sub EXCEPT ![i] = v]
      PROVE  Called' = Called
  BY <1>1, <1>3 DEF Called, TypeOK
<1>4. CASE User
  BY <1>2, <1>4 DEF User, Unfollow, Call, Abort, subVars
<1>5. ASSUME NEW i \in Follower, OnFollowed(i) PROVE Called' = Called
  BY <1>2, <1>3, <1>5 DEF OnFollowed
<1>6. ASSUME NEW i \in Follower, OnRefused(i) PROVE Called' = Called
  <2>1. Coming("refused", i) /\ sub' = [sub EXCEPT ![i] = "null"]
    BY <1>1, <1>6, Received DEF OnRefused
  <2>2. sub[i] # "none"
    BY <1>1, <2>1 DEF Followers, FollowerAt, SilentFollower
  <2>3. QED
    BY <1>3, <2>1, <2>2
<1>7. ASSUME NEW i \in Follower, OnInitialized(i) PROVE Called' = Called
  BY <1>2, <1>7 DEF OnInitialized, subVars
<1>8. ASSUME NEW i \in Follower, OnStop(i) PROVE Called' = Called
  BY <1>2, <1>3, <1>8 DEF OnStop
<1>9. ASSUME NEW o \in Op, OnStarted(o) \/ OnFailed(o) \/ OnDone(o) PROVE Called' = Called
  BY <1>2, <1>9 DEF OnStarted, OnFailed, OnDone, subVars
<1>10. CASE Receiving
  BY <1>5, <1>6, <1>7, <1>8, <1>9, <1>10 DEF Receiving
<1>11. CASE Inner
  BY <1>2, <1>11 DEF Inner, InnerSucceeds, InnerFails, subVars
<1>12. ~FollowTimer
  <2>1. ASSUME timers # <<>> PROVE 1 \in 1 .. Len(timers)
    BY <1>1, <2>1, TimersTyped DEF TypeOK
  <2>2. \A n \in 1 .. Len(timers) : timers[n] # "follow"
    BY <1>1 DEF Control
  <2>3. FollowTimer => timers # <<>> /\ timers[1] = "follow"
    BY DEF FollowTimer
  <2>4. QED
    BY <2>1, <2>2, <2>3
<1>13. CASE Timers
  BY <1>2, <1>12, <1>13 DEF Timers, ResetTimer, subVars
<1>14. CASE Server
  BY <1>2, <1>14 DEF Server, subVars
<1>15. QED
  BY <1>4, <1>10, <1>11, <1>13, <1>14 DEF Next

\* Once unfollow was called, nothing is followed again: no timer and no stop calls
\* chainHead(), unless a subscription that was given up was refused.
THEOREM StaysQuietAfterUnfollow == Spec => NoFollowUnlessCrossed
<1>1. QED
  BY QuietStep, Tracked, PTL DEF Spec, NoFollowUnlessCrossed

\* There is one subscription, none stays open behind it, and no operation waits
\* for one that is gone (getFollow$, getChainHead).
THEOREM SubscriptionsStayRight == Spec => []SubscriptionsAreRight
<1>1. OneFollow /\ NoLeakedSubscription /\ OperationsAreAttached => SubscriptionsAreRight
  BY DEF SubscriptionsAreRight
<1>2. QED
  BY <1>1, OneSubscription, NoSubscriptionLeaks, NobodyWaitsForTheGone, PTL

-------------------------------------------------------------------------------
(***************************************************************************)
(* Types.                                                                  *)
(***************************************************************************)
LEMMA QueueMessagesTyped ==
  ASSUME NEW t \in Task
  PROVE  /\ TaskOperation(t) \in Requests
         /\ StopTask(t) \in Requests
         /\ TaskMessage("started", t) \in TaskMessages
         /\ TaskMessage("limitReached", t) \in TaskMessages
         /\ TaskMessage("done", t) \in TaskMessages
BY DEF TaskOperation, StopTask, TaskMessage, Requests, TaskMessages

LEMMA EmptySlotTyped ==
  ASSUME QueueTypeOK, NEW st \in [Task -> Statuses], NEW rest \in Seq(Requests),
         OnEmptySlot(st, rest)
  PROVE  /\ status' \in [Task -> Statuses]
         /\ pendingTasks' \in Seq(Task)
         /\ taskRequests' \in Seq(Requests)
<1>1. CASE pendingTasks = <<>>
  BY <1>1 DEF OnEmptySlot, QueueTypeOK
<1>2. CASE pendingTasks # <<>>
  <2>1. Head(pendingTasks) \in Task /\ Tail(pendingTasks) \in Seq(Task)
    BY <1>2, HeadTailProperties DEF QueueTypeOK
  <2>2. Append(rest, TaskOperation(Head(pendingTasks))) \in Seq(Requests)
    BY <2>1, QueueMessagesTyped, AppendProperties
  <2>3. QED
    BY <1>2, <2>1, <2>2 DEF OnEmptySlot, Statuses
<1>3. QED
  BY <1>1, <1>2

\* Every variable keeps its type, for any number of tasks.
THEOREM QueueTypeCorrect == QueueSpec => []QueueTypeOK
<1>1. QueueInit => QueueTypeOK
  BY EmptySeq DEF QueueInit, QueueTypeOK, Statuses
<1>2. QueueTypeOK /\ [QueueNext]_queueVars => QueueTypeOK'
  <2> SUFFICES ASSUME QueueTypeOK, [QueueNext]_queueVars PROVE QueueTypeOK'
    OBVIOUS
  <2> USE DEF QueueTypeOK
  <2>1. ASSUME NEW t \in Task, Subscribe(t) PROVE QueueTypeOK'
    <3>1. /\ Append(taskRequests, TaskOperation(t)) \in Seq(Requests)
          /\ Append(pendingTasks, t) \in Seq(Task)
          /\ <<t>> \o pendingTasks \in Seq(Task)
      BY QueueMessagesTyped, AppendProperties, ConsElements
    <3>2. QED
      BY <2>1, <3>1 DEF Subscribe, Statuses
  <2>2. ASSUME NEW t \in Task, UnsubscribeQueued(t) PROVE QueueTypeOK'
    <3>1. ASSUME NEW i \in 1 .. Len(pendingTasks)
          PROVE  RemoveAt(pendingTasks, i) \in Seq(Task)
      <4>1. /\ Len(pendingTasks) \in Nat
            /\ \A j \in 1 .. Len(pendingTasks) : pendingTasks[j] \in Task
        BY LenProperties, ElementOfSeq
      <4>2. SubSeq(pendingTasks, 1, i - 1) \in Seq(Task)
        BY <4>1, SubSeqProperties
      <4>3. SubSeq(pendingTasks, i + 1, Len(pendingTasks)) \in Seq(Task)
        BY <4>1, SubSeqProperties
      <4>4. QED
        BY <4>2, <4>3, ConcatProperties DEF RemoveAt
    <3>2. QED
      BY <2>2, <3>1 DEF UnsubscribeQueued, Statuses
  <2>3. ASSUME NEW t \in Task, UnsubscribeRequested(t) PROVE QueueTypeOK'
    <3>1. [status EXCEPT ![t] = "stopped"] \in [Task -> Statuses]
      BY DEF Statuses
    <3>2. QED
      BY <2>3, <3>1, EmptySlotTyped DEF UnsubscribeRequested
  <2>4. ASSUME NEW t \in Task, UnsubscribeStarted(t) PROVE QueueTypeOK'
    <3>1. /\ [status EXCEPT ![t] = "stopped"] \in [Task -> Statuses]
          /\ Append(taskRequests, StopTask(t)) \in Seq(Requests)
      BY QueueMessagesTyped, AppendProperties DEF Statuses
    <3>2. QED
      BY <2>4, <3>1, EmptySlotTyped DEF UnsubscribeStarted
  <2>5. ASSUME NEW t \in Task, OnTaskStarted(t) PROVE QueueTypeOK'
    <3>1. Tail(taskResponses) \in Seq(TaskMessages)
      BY <2>5, HeadTailProperties DEF OnTaskStarted, TaskReceives
    <3>2. Append(taskRequests, StopTask(t)) \in Seq(Requests)
      BY QueueMessagesTyped, AppendProperties
    <3>3. QED
      BY <2>5, <3>1, <3>2 DEF OnTaskStarted, TaskReceives, Statuses
  <2>6. ASSUME NEW t \in Task, OnLimitReached(t) PROVE QueueTypeOK'
    <3>1. Tail(taskResponses) \in Seq(TaskMessages)
      BY <2>6, HeadTailProperties DEF OnLimitReached, TaskReceives
    <3>2. <<t>> \o pendingTasks \in Seq(Task)
      BY ConsElements
    <3>3. QED
      BY <2>6, <3>1, <3>2 DEF OnLimitReached, TaskReceives, Statuses
  <2>7. ASSUME NEW t \in Task, OnTaskDone(t) PROVE QueueTypeOK'
    <3>1. Tail(taskResponses) \in Seq(TaskMessages)
      BY <2>7, HeadTailProperties DEF OnTaskDone, TaskReceives
    <3>2. [status EXCEPT ![t] = "done"] \in [Task -> Statuses]
      BY DEF Statuses
    <3>3. QED
      BY <2>7, <3>1, <3>2, EmptySlotTyped DEF OnTaskDone, TaskReceives
  <2>8. ASSUME NEW t \in Task, ServeOperation(t) PROVE QueueTypeOK'
    <3>1. Tail(taskRequests) \in Seq(Requests)
      BY <2>8, HeadTailProperties DEF ServeOperation
    <3>2. /\ Append(taskResponses, TaskMessage("started", t)) \in Seq(TaskMessages)
          /\ Append(taskResponses, TaskMessage("limitReached", t)) \in Seq(TaskMessages)
      BY QueueMessagesTyped, AppendProperties
    <3>3. QED
      BY <2>8, <3>1, <3>2 DEF ServeOperation, queueClientVars
  <2>9. ASSUME NEW t \in Task, ServeStop(t) PROVE QueueTypeOK'
    <3>1. Tail(taskRequests) \in Seq(Requests)
      BY <2>9, HeadTailProperties DEF ServeStop
    <3>2. QED
      BY <2>9, <3>1 DEF ServeStop, queueClientVars
  <2>10. ASSUME NEW t \in Task, TaskEnds(t) PROVE QueueTypeOK'
    <3>1. Append(taskResponses, TaskMessage("done", t)) \in Seq(TaskMessages)
      BY QueueMessagesTyped, AppendProperties
    <3>2. QED
      BY <2>10, <3>1 DEF TaskEnds, queueClientVars
  <2>11. CASE UNCHANGED queueVars
    BY <2>11 DEF queueVars, queueClientVars
  <2>12. QED
    BY <2>1, <2>2, <2>3, <2>4, <2>5, <2>6, <2>7, <2>8, <2>9, <2>10, <2>11
       DEF QueueNext, QueueUser, QueueClient, QueueServer
<1>3. QED
  BY <1>1, <1>2, PTL DEF QueueSpec

-------------------------------------------------------------------------------
(***************************************************************************)
(* The inductive invariant: where the messages of a task are, for each     *)
(* status it may have. Nothing is anywhere twice.                          *)
(***************************************************************************)
Untouched(t) ==
    /\ TaskOperation(t) \notin Range(taskRequests)
    /\ StopTask(t) \notin Range(taskRequests)
    /\ TaskMessage("started", t) \notin Range(taskResponses)
    /\ TaskMessage("limitReached", t) \notin Range(taskResponses)
    /\ TaskMessage("done", t) \notin Range(taskResponses)
    /\ t \notin slots
    /\ t \notin abortedTasks

Awaited(t) == status[t] = "requested" \/ t \in abortedTasks

Whereabouts(t) ==
    /\ status[t] \in {"idle", "queued", "cancelled"} => Untouched(t)
    /\ t \in abortedTasks => status[t] = "stopped"
    /\ TaskOperation(t) \in Range(taskRequests) =>
         /\ Awaited(t)
         /\ StopTask(t) \notin Range(taskRequests)
         /\ TaskMessage("started", t) \notin Range(taskResponses)
         /\ TaskMessage("limitReached", t) \notin Range(taskResponses)
         /\ TaskMessage("done", t) \notin Range(taskResponses)
         /\ t \notin slots
    /\ TaskMessage("limitReached", t) \in Range(taskResponses) =>
         /\ Awaited(t)
         /\ StopTask(t) \notin Range(taskRequests)
         /\ TaskMessage("started", t) \notin Range(taskResponses)
         /\ TaskMessage("done", t) \notin Range(taskResponses)
         /\ t \notin slots
    /\ TaskMessage("started", t) \in Range(taskResponses) =>
         /\ Awaited(t)
         /\ StopTask(t) \notin Range(taskRequests)
    /\ StopTask(t) \in Range(taskRequests) => status[t] = "stopped"
    /\ t \in slots =>
         /\ TaskMessage("done", t) \notin Range(taskResponses)
         /\ status[t] = "requested" => TaskMessage("started", t) \in Range(taskResponses)
         /\ \/ status[t] \in {"requested", "started"}
            \/ StopTask(t) \in Range(taskRequests)
            \/ t \in abortedTasks /\ TaskMessage("started", t) \in Range(taskResponses)

QueueNoRepetition ==
    /\ IsInjective(pendingTasks)
    /\ IsInjective(taskRequests)
    /\ IsInjective(taskResponses)

Waiting == Range(pendingTasks) = {t \in Task : status[t] = "queued"}

QueueInv == QueueNoRepetition /\ Waiting /\ \A t \in Task : Whereabouts(t)

\* Messages differ by what they say and by their task.
LEMMA QueueMessagesDiffer ==
  /\ \A t, u : TaskOperation(t) = TaskOperation(u) => t = u
  /\ \A t, u : StopTask(t) = StopTask(u) => t = u
  /\ \A t, u : TaskOperation(t) # StopTask(u)
  /\ \A t, u : TaskMessage("started", t) = TaskMessage("started", u) => t = u
  /\ \A t, u : TaskMessage("limitReached", t) = TaskMessage("limitReached", u) => t = u
  /\ \A t, u : TaskMessage("done", t) = TaskMessage("done", u) => t = u
  /\ \A t, u : TaskMessage("started", t) # TaskMessage("limitReached", u)
  /\ \A t, u : TaskMessage("started", t) # TaskMessage("done", u)
  /\ \A t, u : TaskMessage("limitReached", t) # TaskMessage("done", u)
BY DEF TaskOperation, StopTask, TaskMessage

\* onEmptySlot sends the operation of at most one of the tasks that wait.
LEMMA EmptySlot ==
  ASSUME QueueTypeOK, QueueInv, NEW st \in [Task -> Statuses], NEW rest \in Seq(Requests),
         IsInjective(rest),
         \A h \in Range(pendingTasks) : TaskOperation(h) \notin Range(rest),
         OnEmptySlot(st, rest)
  PROVE  \E H \in SUBSET Range(pendingTasks) :
           /\ \A u \in Task : status'[u] = IF u \in H THEN "requested" ELSE st[u]
           /\ Range(taskRequests') = Range(rest) \cup {TaskOperation(h) : h \in H}
           /\ Range(pendingTasks') = Range(pendingTasks) \ H
           /\ IsInjective(taskRequests')
           /\ IsInjective(pendingTasks')
<1>1. CASE pendingTasks = <<>>
  <2>1. status' = st /\ taskRequests' = rest /\ pendingTasks' = pendingTasks
    BY <1>1 DEF OnEmptySlot
  <2>2. WITNESS {} \in SUBSET Range(pendingTasks)
  <2>3. QED
    BY <2>1 DEF QueueInv, QueueNoRepetition
<1>2. CASE pendingTasks # <<>>
  <2> DEFINE h == Head(pendingTasks)
  <2>1. /\ h \in Range(pendingTasks)
        /\ h \in Task
        /\ Range(pendingTasks) = {h} \cup Range(Tail(pendingTasks))
        /\ IsInjective(Tail(pendingTasks))
        /\ h \notin Range(Tail(pendingTasks))
    BY <1>2, TailElements DEF QueueTypeOK, QueueInv, QueueNoRepetition
  <2>2. /\ status' = [st EXCEPT ![h] = "requested"]
        /\ taskRequests' = Append(rest, TaskOperation(h))
        /\ pendingTasks' = Tail(pendingTasks)
    BY <1>2 DEF OnEmptySlot
  <2> HIDE DEF h
  <2>3. /\ Range(taskRequests') = Range(rest) \cup {TaskOperation(h)}
        /\ IsInjective(taskRequests')
    BY <2>1, <2>2, QueueMessagesTyped, AppendElements
  <2> {h} \in SUBSET Range(pendingTasks)
    BY <2>1
  <2> WITNESS {h} \in SUBSET Range(pendingTasks)
  <2>4. QED
    BY <2>1, <2>2, <2>3
<1>3. QED
  BY <1>1, <1>2

\* What happens to the messages when one arrives.
LEMMA ClientTakes ==
  ASSUME QueueTypeOK, QueueInv, NEW k, NEW t, TaskReceives(k, t)
  PROVE  /\ TaskMessage(k, t) \in Range(taskResponses)
         /\ Range(taskResponses') = Range(taskResponses) \ {TaskMessage(k, t)}
         /\ IsInjective(taskResponses')
BY TailElements DEF TaskReceives, QueueTypeOK, QueueInv, QueueNoRepetition

LEMMA ServerTakes ==
  ASSUME QueueTypeOK, QueueInv, taskRequests # <<>>, taskRequests' = Tail(taskRequests)
  PROVE  /\ Head(taskRequests) \in Range(taskRequests)
         /\ Range(taskRequests') = Range(taskRequests) \ {Head(taskRequests)}
         /\ IsInjective(taskRequests')
BY TailElements DEF QueueTypeOK, QueueInv, QueueNoRepetition

LEMMA QueueInvInit == QueueInit => QueueInv
<1> SUFFICES ASSUME QueueInit PROVE QueueInv
  OBVIOUS
<1>1. Range(<<>>) = {} /\ IsInjective(<<>>)
  BY DEF Range, IsInjective
<1>2. QED
  BY <1>1 DEF QueueInit, QueueInv, QueueNoRepetition, Waiting, Whereabouts, Untouched

LEMMA QueueInvNext == QueueTypeOK /\ QueueInv /\ [QueueNext]_queueVars => QueueInv'
  <1> SUFFICES ASSUME QueueTypeOK, QueueInv, [QueueNext]_queueVars PROVE QueueInv'
    OBVIOUS
  <1> USE DEF Whereabouts, Untouched, Awaited
  <1>0. /\ status \in [Task -> Statuses]
        /\ Range(pendingTasks) \subseteq Task
        /\ \A h \in Range(pendingTasks) : status[h] = "queued" /\ Whereabouts(h)
    BY DEF QueueTypeOK, QueueInv, Waiting
  <1>1. ASSUME NEW t \in Task, Subscribe(t) PROVE QueueInv'
    <2>1. /\ status[t] = "idle" /\ Untouched(t) /\ t \notin Range(pendingTasks)
          /\ UNCHANGED <<abortedTasks, taskResponses, slots>>
      BY <1>0, <1>1 DEF Subscribe, QueueInv
    <2>2. CASE pendingTasks = <<>>
      <3>1. /\ status' = [status EXCEPT ![t] = "requested"]
            /\ pendingTasks' = pendingTasks
            /\ Range(taskRequests') = Range(taskRequests) \cup {TaskOperation(t)}
            /\ IsInjective(taskRequests')
        <4>1. /\ status' = [status EXCEPT ![t] = "requested"]
              /\ pendingTasks' = pendingTasks
              /\ taskRequests' = Append(taskRequests, TaskOperation(t))
          BY <1>1, <2>2 DEF Subscribe
        <4>2. taskRequests \in Seq(Requests) /\ IsInjective(taskRequests)
          BY DEF QueueTypeOK, QueueInv, QueueNoRepetition
        <4>3. QED
          BY <2>1, <4>1, <4>2, QueueMessagesTyped, AppendElements
      <3>2. QED
        BY <1>0, <2>1, <3>1, QueueMessagesDiffer DEF QueueInv, QueueNoRepetition, Waiting
    <2>3. CASE pendingTasks # <<>>
      <3>1. /\ status' = [status EXCEPT ![t] = "queued"]
            /\ taskRequests' = taskRequests
            /\ Range(pendingTasks') = Range(pendingTasks) \cup {t}
            /\ IsInjective(pendingTasks')
        <4>1. /\ status' = [status EXCEPT ![t] = "queued"]
              /\ taskRequests' = taskRequests
              /\ pendingTasks' \in {Append(pendingTasks, t), <<t>> \o pendingTasks}
          BY <1>1, <2>3 DEF Subscribe
        <4>2. pendingTasks \in Seq(Task) /\ IsInjective(pendingTasks)
          BY DEF QueueTypeOK, QueueInv, QueueNoRepetition
        <4>3. CASE pendingTasks' = Append(pendingTasks, t)
          BY <2>1, <4>1, <4>2, <4>3, AppendElements
        <4>4. CASE pendingTasks' = <<t>> \o pendingTasks
          BY <2>1, <4>1, <4>2, <4>4, ConsElements
        <4>5. QED
          BY <4>1, <4>3, <4>4
      <3>2. QED
        BY <1>0, <2>1, <3>1 DEF QueueInv, QueueNoRepetition, Waiting
    <2>4. QED
      BY <2>2, <2>3
  <1>2. ASSUME NEW t \in Task, UnsubscribeQueued(t) PROVE QueueInv'
    <2>1. /\ status[t] = "queued"
          /\ status' = [status EXCEPT ![t] = "cancelled"]
          /\ UNCHANGED <<abortedTasks, taskRequests, taskResponses, slots>>
      BY <1>2 DEF UnsubscribeQueued
    <2>2. Range(pendingTasks') = Range(pendingTasks) \ {t} /\ IsInjective(pendingTasks')
      BY <1>2, RemoveElement DEF UnsubscribeQueued, QueueTypeOK, QueueInv, QueueNoRepetition
    <2>3. QED
      BY <1>0, <2>1, <2>2 DEF QueueInv, QueueNoRepetition, Waiting
  <1>3. ASSUME NEW t \in Task, UnsubscribeRequested(t) PROVE QueueInv'
    <2> DEFINE st == [status EXCEPT ![t] = "stopped"]
    <2>1. PICK H \in SUBSET Range(pendingTasks) :
            /\ \A u \in Task : status'[u] = IF u \in H THEN "requested" ELSE st[u]
            /\ Range(taskRequests') = Range(taskRequests) \cup {TaskOperation(h) : h \in H}
            /\ Range(pendingTasks') = Range(pendingTasks) \ H
            /\ IsInjective(taskRequests')
            /\ IsInjective(pendingTasks')
      BY <1>0, <1>3, EmptySlot DEF UnsubscribeRequested, QueueTypeOK, QueueInv, QueueNoRepetition,
                                   Statuses
    <2>2. /\ status[t] = "requested"
          /\ abortedTasks' = abortedTasks \cup {t}
          /\ UNCHANGED <<taskResponses, slots>>
      BY <1>3 DEF UnsubscribeRequested
    <2>3. QED
      BY <1>0, <2>1, <2>2, QueueMessagesDiffer DEF QueueInv, QueueNoRepetition, Waiting
  <1>4. ASSUME NEW t \in Task, UnsubscribeStarted(t) PROVE QueueInv'
    <2> DEFINE st == [status EXCEPT ![t] = "stopped"]
               rest == Append(taskRequests, StopTask(t))
    <2>1. /\ status[t] = "started"
          /\ UNCHANGED <<abortedTasks, taskResponses, slots>>
          /\ OnEmptySlot(st, rest)
      BY <1>4 DEF UnsubscribeStarted
    <2>2. /\ rest \in Seq(Requests)
          /\ Range(rest) = Range(taskRequests) \cup {StopTask(t)}
          /\ IsInjective(rest)
      BY <2>1, QueueMessagesTyped, AppendElements DEF QueueTypeOK, QueueInv, QueueNoRepetition
    <2>3. st \in [Task -> Statuses]
      BY <1>0 DEF Statuses
    <2> HIDE DEF rest
    <2>4. \A h \in Range(pendingTasks) : TaskOperation(h) \notin Range(rest)
      BY <1>0, <2>2, QueueMessagesDiffer
    <2>5. PICK H \in SUBSET Range(pendingTasks) :
            /\ \A u \in Task : status'[u] = IF u \in H THEN "requested" ELSE st[u]
            /\ Range(taskRequests') = Range(rest) \cup {TaskOperation(h) : h \in H}
            /\ Range(pendingTasks') = Range(pendingTasks) \ H
            /\ IsInjective(taskRequests')
            /\ IsInjective(pendingTasks')
      BY <2>1, <2>2, <2>3, <2>4, EmptySlot
    <2>6. QED
      BY <1>0, <2>1, <2>2, <2>5, QueueMessagesDiffer DEF QueueInv, QueueNoRepetition, Waiting
  <1>5. ASSUME NEW t \in Task, OnTaskStarted(t) PROVE QueueInv'
    <2>1. /\ TaskMessage("started", t) \in Range(taskResponses)
          /\ Range(taskResponses') = Range(taskResponses) \ {TaskMessage("started", t)}
          /\ IsInjective(taskResponses')
          /\ UNCHANGED <<pendingTasks, abortedTasks, slots>>
      BY <1>5, ClientTakes DEF OnTaskStarted
    <2>2. Awaited(t) /\ StopTask(t) \notin Range(taskRequests)
      BY <2>1 DEF QueueInv
    <2>3. CASE t \in abortedTasks
      <3>1. /\ Range(taskRequests') = Range(taskRequests) \cup {StopTask(t)}
            /\ IsInjective(taskRequests')
            /\ status' = status
        <4>1. taskRequests' = Append(taskRequests, StopTask(t)) /\ status' = status
          BY <1>5, <2>3 DEF OnTaskStarted
        <4>2. taskRequests \in Seq(Requests) /\ IsInjective(taskRequests)
          BY DEF QueueTypeOK, QueueInv, QueueNoRepetition
        <4>3. QED
          BY <2>2, <4>1, <4>2, QueueMessagesTyped, AppendElements
      <3>2. QED
        BY <1>0, <2>1, <2>2, <2>3, <3>1, QueueMessagesDiffer
           DEF QueueInv, QueueNoRepetition, Waiting
    <2>4. CASE t \notin abortedTasks
      <3>1. taskRequests' = taskRequests /\ status' = [status EXCEPT ![t] = "started"]
        BY <1>5, <2>4 DEF OnTaskStarted
      <3>2. QED
        BY <1>0, <2>1, <2>2, <2>4, <3>1, QueueMessagesDiffer
           DEF QueueInv, QueueNoRepetition, Waiting
    <2>5. QED
      BY <2>3, <2>4
  <1>6. ASSUME NEW t \in Task, OnLimitReached(t) PROVE QueueInv'
    <2>1. /\ TaskMessage("limitReached", t) \in Range(taskResponses)
          /\ Range(taskResponses') = Range(taskResponses) \ {TaskMessage("limitReached", t)}
          /\ IsInjective(taskResponses')
          /\ UNCHANGED <<abortedTasks, taskRequests, slots>>
      BY <1>6, ClientTakes DEF OnLimitReached
    <2>2. Awaited(t)
      BY <2>1 DEF QueueInv
    <2>3. CASE t \in abortedTasks
      <3>1. UNCHANGED <<status, pendingTasks>>
        BY <1>6, <2>3 DEF OnLimitReached
      <3>2. QED
        BY <1>0, <2>1, <3>1, QueueMessagesDiffer DEF QueueInv, QueueNoRepetition, Waiting
    <2>4. CASE t \notin abortedTasks
      <3>1. t \notin Range(pendingTasks)
        BY <1>0, <2>2, <2>4
      <3>2. /\ status' = [status EXCEPT ![t] = "queued"]
            /\ Range(pendingTasks') = {t} \cup Range(pendingTasks)
            /\ IsInjective(pendingTasks')
        <4>1. /\ status' = [status EXCEPT ![t] = "queued"]
              /\ pendingTasks' = <<t>> \o pendingTasks
          BY <1>6, <2>4 DEF OnLimitReached
        <4>2. pendingTasks \in Seq(Task) /\ IsInjective(pendingTasks)
          BY DEF QueueTypeOK, QueueInv, QueueNoRepetition
        <4>3. QED
          BY <3>1, <4>1, <4>2, ConsElements
      <3>3. QED
        BY <1>0, <2>1, <2>2, <2>4, <3>2, QueueMessagesDiffer
           DEF QueueInv, QueueNoRepetition, Waiting
    <2>5. QED
      BY <2>3, <2>4
  <1>7. ASSUME NEW t \in Task, OnTaskDone(t) PROVE QueueInv'
    <2>1. /\ TaskMessage("done", t) \in Range(taskResponses)
          /\ Range(taskResponses') = Range(taskResponses) \ {TaskMessage("done", t)}
          /\ IsInjective(taskResponses')
          /\ UNCHANGED <<abortedTasks, slots>>
      BY <1>7, ClientTakes DEF OnTaskDone
    <2>2. CASE status[t] = "started"
      <3> DEFINE st == [status EXCEPT ![t] = "done"]
      <3>1. PICK H \in SUBSET Range(pendingTasks) :
              /\ \A u \in Task : status'[u] = IF u \in H THEN "requested" ELSE st[u]
              /\ Range(taskRequests') = Range(taskRequests) \cup {TaskOperation(h) : h \in H}
              /\ Range(pendingTasks') = Range(pendingTasks) \ H
              /\ IsInjective(taskRequests')
              /\ IsInjective(pendingTasks')
        BY <1>0, <1>7, <2>2, EmptySlot DEF OnTaskDone, QueueTypeOK, QueueInv, QueueNoRepetition, Statuses
      <3>2. QED
        BY <1>0, <2>1, <2>2, <3>1, QueueMessagesDiffer DEF QueueInv, QueueNoRepetition, Waiting
    <2>3. CASE status[t] # "started"
      <3>1. UNCHANGED <<status, pendingTasks, taskRequests>>
        BY <1>7, <2>3 DEF OnTaskDone
      <3>2. QED
        BY <1>0, <2>1, <3>1, QueueMessagesDiffer DEF QueueInv, QueueNoRepetition, Waiting
    <2>4. QED
      BY <2>2, <2>3
  <1>8. ASSUME NEW t \in Task, ServeOperation(t) PROVE QueueInv'
    <2>1. /\ TaskOperation(t) \in Range(taskRequests)
          /\ Range(taskRequests') = Range(taskRequests) \ {TaskOperation(t)}
          /\ IsInjective(taskRequests')
          /\ UNCHANGED <<status, pendingTasks, abortedTasks>>
      BY <1>8, ServerTakes DEF ServeOperation, queueClientVars
    <2>2. /\ Awaited(t)
          /\ StopTask(t) \notin Range(taskRequests)
          /\ TaskMessage("started", t) \notin Range(taskResponses)
          /\ TaskMessage("limitReached", t) \notin Range(taskResponses)
          /\ TaskMessage("done", t) \notin Range(taskResponses)
          /\ t \notin slots
      BY <2>1 DEF QueueInv
    <2>3. CASE Cardinality(slots) < Limit
      <3>1. /\ slots' = slots \cup {t}
            /\ Range(taskResponses') = Range(taskResponses) \cup {TaskMessage("started", t)}
            /\ IsInjective(taskResponses')
        <4>1. slots' = slots \cup {t} /\ taskResponses' = Append(taskResponses, TaskMessage("started", t))
          BY <1>8, <2>3 DEF ServeOperation
        <4>2. taskResponses \in Seq(TaskMessages) /\ IsInjective(taskResponses)
          BY DEF QueueTypeOK, QueueInv, QueueNoRepetition
        <4>3. QED
          BY <2>2, <4>1, <4>2, QueueMessagesTyped, AppendElements
      <3>2. QED
        BY <1>0, <2>1, <2>2, <3>1, QueueMessagesDiffer DEF QueueInv, QueueNoRepetition, Waiting
    <2>4. CASE ~(Cardinality(slots) < Limit)
      <3>1. /\ slots' = slots
            /\ Range(taskResponses') = Range(taskResponses) \cup {TaskMessage("limitReached", t)}
            /\ IsInjective(taskResponses')
        <4>1. slots' = slots /\ taskResponses' = Append(taskResponses, TaskMessage("limitReached", t))
          BY <1>8, <2>4 DEF ServeOperation
        <4>2. taskResponses \in Seq(TaskMessages) /\ IsInjective(taskResponses)
          BY DEF QueueTypeOK, QueueInv, QueueNoRepetition
        <4>3. QED
          BY <2>2, <4>1, <4>2, QueueMessagesTyped, AppendElements
      <3>2. QED
        BY <1>0, <2>1, <2>2, <3>1, QueueMessagesDiffer DEF QueueInv, QueueNoRepetition, Waiting
    <2>5. QED
      BY <2>3, <2>4
  <1>9. ASSUME NEW t \in Task, ServeStop(t) PROVE QueueInv'
    <2>1. /\ StopTask(t) \in Range(taskRequests)
          /\ Range(taskRequests') = Range(taskRequests) \ {StopTask(t)}
          /\ IsInjective(taskRequests')
          /\ slots' = slots \ {t}
          /\ UNCHANGED <<status, pendingTasks, abortedTasks, taskResponses>>
      BY <1>9, ServerTakes DEF ServeStop, queueClientVars
    <2>2. QED
      BY <1>0, <2>1, QueueMessagesDiffer DEF QueueInv, QueueNoRepetition, Waiting
  <1>10. ASSUME NEW t \in Task, TaskEnds(t) PROVE QueueInv'
    <2>1. TaskMessage("done", t) \notin Range(taskResponses)
      BY <1>10 DEF TaskEnds, QueueInv
    <2>2. /\ t \in slots
          /\ slots' = slots \ {t}
          /\ Range(taskResponses') = Range(taskResponses) \cup {TaskMessage("done", t)}
          /\ IsInjective(taskResponses')
          /\ UNCHANGED <<status, pendingTasks, abortedTasks, taskRequests>>
      BY <1>10, <2>1, QueueMessagesTyped, AppendElements
         DEF TaskEnds, queueClientVars, QueueTypeOK, QueueInv, QueueNoRepetition
    <2>3. QED
      BY <1>0, <2>2, QueueMessagesDiffer DEF QueueInv, QueueNoRepetition, Waiting
  <1>11. CASE UNCHANGED queueVars
    BY <1>11 DEF queueVars, queueClientVars, QueueInv, QueueNoRepetition, Waiting
  <1>12. QED
    BY <1>1, <1>2, <1>3, <1>4, <1>5, <1>6, <1>7, <1>8, <1>9, <1>10, <1>11
       DEF QueueNext, QueueUser, QueueClient, QueueServer

LEMMA QueueTracked == QueueSpec => [](QueueTypeOK /\ QueueInv)
  BY QueueTypeCorrect, QueueInvInit, QueueInvNext, PTL DEF QueueSpec

\* Whatever is refused, unsubscribed from and woken, each task that waits is in
\* the queue, once.
THEOREM QueueHoldsWhoWaits == QueueSpec => []QueueIsRight
<1>1. QueueTypeOK /\ QueueInv => QueueIsRight
  BY InjectiveLength DEF QueueTypeOK, QueueInv, QueueNoRepetition, Waiting, QueueIsRight
<1>2. QED
  BY <1>1, QueueTracked, PTL

\* No operation of the server is forgotten by the client.
THEOREM NoOperationLeaks == QueueSpec => []NoLeakedOperation
<1>1. QueueTypeOK /\ QueueInv => NoLeakedOperation
  BY DEF QueueTypeOK, QueueInv, Whereabouts, NoLeakedOperation, Active
<1>2. QED
  BY <1>1, QueueTracked, PTL

-------------------------------------------------------------------------------
(***************************************************************************)
(* Why somebody wakes the queue: a refusal is followed, on the way to the  *)
(* client, by the end of an operation that had a slot, unless that one     *)
(* still runs. The order of the messages is what makes it so.              *)
(***************************************************************************)
Wakes(u, i) ==
    \/ u \in slots
    \/ \E j \in 1 .. Len(taskResponses) : j > i /\ taskResponses[j] = TaskMessage("done", u)

Refused(i, t) ==
    i \in 1 .. Len(taskResponses) /\ taskResponses[i] = TaskMessage("limitReached", t)

WakeInv ==
    Stopped = {} =>
      /\ pendingTasks # <<>> => Active # {}
      /\ \A t \in Task, i \in Nat :
           Refused(i, t) => \E u \in Active : Wakes(u, i)

LEMMA WakeInvInit == QueueInit => WakeInv
  BY DEF QueueInit, WakeInv, Refused

\* Only a task that waits changes its status when a slot is free.
LEMMA EmptySlotStatus ==
  ASSUME QueueTypeOK, QueueInv, NEW st \in [Task -> Statuses], NEW rest,
         OnEmptySlot(st, rest)
  PROVE  /\ \A u \in Task :
              \/ status'[u] = st[u]
              \/ status[u] = "queued" /\ status'[u] = "requested"
         /\ pendingTasks' # <<>> => \E u \in Task : status'[u] = "requested"
<1>1. CASE pendingTasks = <<>>
  <2>1. status' = st /\ pendingTasks' = <<>>
    BY <1>1 DEF OnEmptySlot
  <2>2. QED
    BY <2>1
<1>2. CASE pendingTasks # <<>>
  <2>1. Head(pendingTasks) \in Range(pendingTasks)
    BY <1>2, TailElements DEF QueueTypeOK
  <2>2. Head(pendingTasks) \in Task /\ status[Head(pendingTasks)] = "queued"
    BY <2>1 DEF QueueInv, Waiting
  <2>3. status' = [st EXCEPT ![Head(pendingTasks)] = "requested"]
    BY <1>2 DEF OnEmptySlot
  <2>4. status'[Head(pendingTasks)] = "requested"
    BY <2>2, <2>3
  <2>5. \A u \in Task : u # Head(pendingTasks) => status'[u] = st[u]
    BY <2>3
  <2>6. QED
    BY <2>2, <2>4, <2>5
<1>3. QED
  BY <1>1, <1>2

\* A message that is added goes behind the others, and one that is taken was
\* before them.
LEMMA RefusedBehind ==
  ASSUME QueueTypeOK, NEW m \in TaskMessages, taskResponses' = Append(taskResponses, m),
         NEW t \in Task, NEW u \in Task, NEW i \in Nat
  PROVE  /\ Refused(i, t)' =>
               Refused(i, t) \/ (i = Len(taskResponses) + 1 /\ m = TaskMessage("limitReached", t))
         /\ Refused(i, t) /\ m = TaskMessage("done", u) => Wakes(u, i)'
         /\ Wakes(u, i) => Wakes(u, i)' \/ u \in slots \ slots'
<1>1. /\ Len(taskResponses) \in Nat
      /\ Len(taskResponses') = Len(taskResponses) + 1
      /\ \A j \in 1 .. Len(taskResponses) : taskResponses'[j] = taskResponses[j]
      /\ taskResponses'[Len(taskResponses) + 1] = m
  BY AppendProperties, LenProperties DEF QueueTypeOK
<1>2. Refused(i, t)' =>
          Refused(i, t) \/ (i = Len(taskResponses) + 1 /\ m = TaskMessage("limitReached", t))
  BY <1>1 DEF Refused
<1>3. Refused(i, t) /\ m = TaskMessage("done", u) => Wakes(u, i)'
  BY <1>1 DEF Refused, Wakes
<1>4. Wakes(u, i) => Wakes(u, i)' \/ u \in slots \ slots'
  BY <1>1 DEF Wakes
<1>5. QED
  BY <1>2, <1>3, <1>4

LEMMA RefusedBefore ==
  ASSUME QueueTypeOK, taskResponses # <<>>, taskResponses' = Tail(taskResponses), slots' = slots,
         NEW t \in Task, NEW u \in Task, NEW i \in Nat
  PROVE  /\ Refused(i, t)' => Refused(i + 1, t)
         /\ i >= 1 /\ Wakes(u, i + 1) => Wakes(u, i)'
<1>1. /\ Len(taskResponses) \in Nat \ {0}
      /\ Len(taskResponses') = Len(taskResponses) - 1
      /\ \A j \in 1 .. Len(taskResponses') : taskResponses'[j] = taskResponses[j + 1]
  BY HeadTailProperties, EmptySeq DEF QueueTypeOK
<1>2. Refused(i, t)' => Refused(i + 1, t)
  BY <1>1 DEF Refused
<1>3. ASSUME i >= 1, NEW j \in 1 .. Len(taskResponses), j > i + 1,
             taskResponses[j] = TaskMessage("done", u)
      PROVE  Wakes(u, i)'
  <2>1. j - 1 \in 1 .. Len(taskResponses') /\ j - 1 > i /\ taskResponses'[j - 1] = taskResponses[j]
    BY <1>1, <1>3
  <2>2. QED
    BY <2>1, <1>3 DEF Wakes
<1>4. QED
  BY <1>2, <1>3 DEF Wakes

\* While nobody stopped anything, the server runs operations of active tasks.
LEMMA SlotsAreActive ==
  ASSUME QueueTypeOK, QueueInv, Stopped = {}, NEW u \in slots
  PROVE  u \in Active
BY DEF QueueTypeOK, QueueInv, Whereabouts, Stopped, Active

\* A step that changes no message to the client and takes no slot from the
\* server leaves the refusals as they were.
LEMMA WakesAsBefore ==
  ASSUME WakeInv, Stopped = {}, Active \subseteq Active', slots \subseteq slots',
         taskResponses' = taskResponses
  PROVE  \A t \in Task, i \in Nat : Refused(i, t)' => \E u \in Active' : Wakes(u, i)'
BY DEF WakeInv, Refused, Wakes

LEMMA WakeInvNext == QueueTypeOK /\ QueueInv /\ WakeInv /\ [QueueNext]_queueVars => WakeInv'
  <1> DEFINE Answered == \A t \in Task, i \in Nat :
                           Refused(i, t) => \E u \in Active : Wakes(u, i)
  <1> SUFFICES ASSUME QueueTypeOK, QueueInv, WakeInv, [QueueNext]_queueVars, Stopped' = {}
               PROVE  (pendingTasks' # <<>> => Active' # {}) /\ Answered'
    BY DEF WakeInv
  <1>0. /\ status \in [Task -> Statuses]
        /\ \A u \in Task : Whereabouts(u)
        /\ \A u \in Task : status'[u] # "stopped"
    BY DEF QueueTypeOK, QueueInv, Stopped
  <1> DEFINE Goal == (pendingTasks' # <<>> => Active' # {}) /\ Answered'
  <1> HIDE DEF Answered
  <1>1. ASSUME NEW t \in Task, Subscribe(t) PROVE Goal
    <2>1. /\ \A u \in Task : u # t => status'[u] = status[u]
          /\ status[t] = "idle" /\ status'[t] \in {"queued", "requested"}
          /\ UNCHANGED <<taskResponses, slots>>
      BY <1>0, <1>1 DEF Subscribe
    <2>2. Stopped = {} /\ Active \subseteq Active'
      BY <1>0, <2>1 DEF Stopped, Active
    <2>3. Answered'
      BY <2>1, <2>2, WakesAsBefore DEF Answered
    <2>4. pendingTasks' # <<>> => Active' # {}
      <3>1. CASE pendingTasks = <<>>
        BY <1>1, <3>1 DEF Subscribe
      <3>2. CASE pendingTasks # <<>>
        BY <2>2, <3>2 DEF WakeInv
      <3>3. QED
        BY <3>1, <3>2
    <2>5. QED
      BY <2>3, <2>4
  <1>2. ASSUME NEW t \in Task, UnsubscribeQueued(t) PROVE Goal
    <2>1. /\ \A u \in Task : u # t => status'[u] = status[u]
          /\ status[t] = "queued" /\ status'[t] = "cancelled"
          /\ UNCHANGED <<taskResponses, slots>>
          /\ t \in Range(pendingTasks)
      BY <1>0, <1>2 DEF UnsubscribeQueued, QueueInv, Waiting
    <2>2. Stopped = {} /\ Active \subseteq Active'
      BY <1>0, <2>1 DEF Stopped, Active
    <2>3. pendingTasks # <<>>
      BY <2>1 DEF Range
    <2>4. Answered'
      BY <2>1, <2>2, WakesAsBefore DEF Answered
    <2>5. QED
      BY <2>2, <2>3, <2>4 DEF WakeInv
  <1>3. ASSUME NEW t \in Task, UnsubscribeRequested(t) \/ UnsubscribeStarted(t)
        PROVE  Goal
    <2> DEFINE st == [status EXCEPT ![t] = "stopped"]
    <2>1. /\ status[t] \in {"requested", "started"}
          /\ \E rest : OnEmptySlot(st, rest)
      BY <1>3 DEF UnsubscribeRequested, UnsubscribeStarted
    <2>2. st \in [Task -> Statuses] /\ st[t] = "stopped"
      BY <1>0 DEF Statuses
    <2> HIDE DEF st
    <2>3. status'[t] = "stopped"
      BY <2>1, <2>2, EmptySlotStatus
    <2>4. QED
      BY <1>0, <2>3
  <1>4. ASSUME NEW t \in Task, OnTaskStarted(t) PROVE Goal
    <2>1. /\ TaskMessage("started", t) \in Range(taskResponses)
          /\ taskResponses # <<>> /\ taskResponses' = Tail(taskResponses)
          /\ UNCHANGED <<pendingTasks, slots>>
      BY <1>4, ClientTakes DEF OnTaskStarted, TaskReceives
    <2>2. \A u \in Task : status'[u] = status[u] \/ (status'[u] = "started" /\ u = t)
      BY <1>0, <1>4 DEF OnTaskStarted
    <2>3. status[t] = "requested" \/ status[t] = "stopped"
      BY <1>0, <2>1 DEF Whereabouts, Awaited
    <2>4. t \notin abortedTasks => status[t] = "requested"
      BY <1>0, <2>1 DEF Whereabouts, Awaited
    <2>5. t \in abortedTasks => status' = status
      BY <1>4 DEF OnTaskStarted
    <2>6. Stopped = {} /\ Active \subseteq Active'
      BY <1>0, <2>2, <2>3, <2>4, <2>5 DEF Stopped, Active
    <2>7. Answered'
      <3> SUFFICES ASSUME NEW v \in Task, NEW i \in Nat, Refused(i, v)'
                   PROVE  \E u \in Active' : Wakes(u, i)'
        BY DEF Answered
      <3>1. Refused(i + 1, v) /\ i >= 1
        BY <2>1, RefusedBefore DEF Refused
      <3>2. PICK u \in Active : Wakes(u, i + 1)
        BY <2>6, <3>1 DEF WakeInv
      <3>3. u \in Task
        BY DEF Active
      <3>4. Wakes(u, i)'
        BY <2>1, <3>1, <3>2, <3>3, RefusedBefore
      <3>5. QED
        BY <2>6, <3>4
    <2>8. QED
      BY <2>1, <2>6, <2>7 DEF WakeInv
  <1>5. ASSUME NEW t \in Task, OnLimitReached(t) PROVE Goal
    <2>1. /\ TaskMessage("limitReached", t) \in Range(taskResponses)
          /\ taskResponses # <<>> /\ taskResponses' = Tail(taskResponses)
          /\ Head(taskResponses) = TaskMessage("limitReached", t)
          /\ slots' = slots
      BY <1>5, ClientTakes DEF OnLimitReached, TaskReceives
    <2>2. /\ status[t] = "requested" \/ status[t] = "stopped"
          /\ t \notin slots
          /\ TaskMessage("done", t) \notin Range(taskResponses)
      BY <1>0, <2>1 DEF Whereabouts, Awaited
    <2>3. t \in abortedTasks => status' = status /\ status[t] = "stopped"
      BY <1>0, <1>5 DEF OnLimitReached, Whereabouts
    <2>4. t \notin abortedTasks => status[t] = "requested" /\ status' = [status EXCEPT ![t] = "queued"]
      BY <1>0, <1>5, <2>1 DEF OnLimitReached, Whereabouts, Awaited
    <2>5. Stopped = {} /\ Active \ {t} \subseteq Active'
      BY <1>0, <2>3, <2>4 DEF Stopped, Active
    <2>6. \A i \in Nat : ~Wakes(t, i)
      <3>1. \A j \in 1 .. Len(taskResponses) : taskResponses[j] \in Range(taskResponses)
        BY LenProperties DEF QueueTypeOK, Range
      <3>2. QED
        BY <2>2, <3>1 DEF Wakes
    <2>7. \A v \in Task, i \in Nat :
            Refused(i, v) => \E u \in Active : u # t /\ Wakes(u, i)
      BY <2>5, <2>6 DEF WakeInv
    <2>8. Answered'
      <3> SUFFICES ASSUME NEW v \in Task, NEW i \in Nat, Refused(i, v)'
                   PROVE  \E u \in Active' : Wakes(u, i)'
        BY DEF Answered
      <3>1. Refused(i + 1, v) /\ i >= 1
        BY <2>1, RefusedBefore DEF Refused
      <3>2. PICK u \in Active : u # t /\ Wakes(u, i + 1)
        BY <2>7, <3>1
      <3>3. u \in Task
        BY DEF Active
      <3>4. Wakes(u, i)'
        BY <2>1, <3>1, <3>2, <3>3, RefusedBefore
      <3>5. QED
        BY <2>5, <3>2, <3>4
    <2>9. Active' # {}
      <3>1. taskResponses[1] = TaskMessage("limitReached", t) /\ 1 \in 1 .. Len(taskResponses)
        BY <2>1, EmptySeq DEF QueueTypeOK
      <3>2. Refused(1, t)
        BY <3>1 DEF Refused
      <3>3. QED
        BY <2>5, <2>7, <3>2
    <2>10. QED
      BY <2>8, <2>9
  <1>6. ASSUME NEW t \in Task, OnTaskDone(t) PROVE Goal
    <2>1. /\ TaskMessage("done", t) \in Range(taskResponses)
          /\ taskResponses # <<>> /\ taskResponses' = Tail(taskResponses)
          /\ Head(taskResponses) = TaskMessage("done", t)
          /\ slots' = slots
      BY <1>6, ClientTakes DEF OnTaskDone, TaskReceives
    <2>2. t \notin slots
      BY <1>0, <2>1 DEF Whereabouts
    <2>3. \A i \in Nat : i >= 1 => ~Wakes(t, i)
      <3>1. /\ taskResponses[1] = TaskMessage("done", t)
            /\ 1 \in 1 .. Len(taskResponses)
            /\ \A j \in 1 .. Len(taskResponses) : taskResponses[j] = taskResponses[1] => j = 1
        BY <2>1, EmptySeq, LenProperties DEF QueueTypeOK, QueueInv, QueueNoRepetition, IsInjective
      <3>2. QED
        BY <2>2, <3>1 DEF Wakes
    <2>4. /\ Stopped = {}
          /\ Active \ {t} \subseteq Active'
          /\ pendingTasks' # <<>> => Active' # {}
      <3>1. CASE status[t] = "started"
        <4> DEFINE st == [status EXCEPT ![t] = "done"]
        <4>1. OnEmptySlot(st, taskRequests) /\ st \in [Task -> Statuses]
          BY <1>0, <1>6, <3>1 DEF OnTaskDone, Statuses
        <4>2. \A u \in Task : st[u] = IF u = t THEN "done" ELSE status[u]
          BY <1>0
        <4> HIDE DEF st
        <4>3. /\ \A u \in Task :
                   \/ status'[u] = st[u]
                   \/ status[u] = "queued" /\ status'[u] = "requested"
              /\ pendingTasks' # <<>> => \E u \in Task : status'[u] = "requested"
          BY <4>1, EmptySlotStatus
        <4>4. QED
          BY <1>0, <3>1, <4>2, <4>3 DEF Stopped, Active
      <3>2. CASE status[t] # "started"
        <4>1. UNCHANGED <<status, pendingTasks>>
          BY <1>6, <3>2 DEF OnTaskDone
        <4>2. Stopped = {} /\ Active' = Active
          BY <4>1 DEF Stopped, Active
        <4>3. QED
          BY <4>1, <4>2 DEF WakeInv
      <3>3. QED
        BY <3>1, <3>2
    <2>5. Answered'
      <3> SUFFICES ASSUME NEW v \in Task, NEW i \in Nat, Refused(i, v)'
                   PROVE  \E u \in Active' : Wakes(u, i)'
        BY DEF Answered
      <3>1. Refused(i + 1, v) /\ i >= 1
        BY <2>1, RefusedBefore DEF Refused
      <3>2. PICK u \in Active : Wakes(u, i + 1)
        BY <2>4, <3>1 DEF WakeInv
      <3>3. u \in Task /\ u # t
        BY <2>3, <3>1, <3>2 DEF Active
      <3>4. Wakes(u, i)'
        BY <2>1, <3>1, <3>2, <3>3, RefusedBefore
      <3>5. QED
        BY <2>4, <3>2, <3>3, <3>4
    <2>6. QED
      BY <2>4, <2>5
  <1>7. ASSUME NEW t \in Task, ServeOperation(t) PROVE Goal
    <2>1. UNCHANGED <<status, pendingTasks>> /\ slots \subseteq slots'
      BY <1>7 DEF ServeOperation, queueClientVars
    <2>2. Stopped = {} /\ Active' = Active
      BY <2>1 DEF Stopped, Active
    <2>3. PICK m \in TaskMessages :
            /\ taskResponses' = Append(taskResponses, m)
            /\ \A v \in Task : m = TaskMessage("limitReached", v) => slots # {}
      <3>1. CASE Cardinality(slots) < Limit
        <4>1. taskResponses' = Append(taskResponses, TaskMessage("started", t))
          BY <1>7, <3>1 DEF ServeOperation
        <4>2. QED
          BY <4>1, QueueMessagesTyped, QueueMessagesDiffer
      <3>2. CASE ~(Cardinality(slots) < Limit)
        <4>1. taskResponses' = Append(taskResponses, TaskMessage("limitReached", t))
          BY <1>7, <3>2 DEF ServeOperation
        <4>2. slots # {}
          BY <3>2, LimitAssumption, FS_EmptySet
        <4>3. QED
          BY <4>1, <4>2, QueueMessagesTyped
      <3>3. QED
        BY <3>1, <3>2
    <2>4. Answered'
      <3> SUFFICES ASSUME NEW v \in Task, NEW i \in Nat, Refused(i, v)'
                   PROVE  \E u \in Active' : Wakes(u, i)'
        BY DEF Answered
      <3>1. CASE Refused(i, v)
        <4>1. PICK u \in Active : Wakes(u, i)
          BY <2>2, <3>1 DEF WakeInv
        <4>2. u \in Task
          BY DEF Active
        <4>3. Wakes(u, i)'
          BY <2>1, <2>3, <4>1, <4>2, RefusedBehind
        <4>4. QED
          BY <2>2, <4>3
      <3>2. CASE ~Refused(i, v)
        <4>1. m = TaskMessage("limitReached", v)
          BY <2>3, <3>2, RefusedBehind
        <4>2. PICK u \in slots : TRUE
          BY <2>3, <4>1
        <4>3. u \in Active
          BY <2>2, SlotsAreActive
        <4>4. Wakes(u, i)'
          BY <2>1 DEF Wakes
        <4>5. QED
          BY <2>2, <4>3, <4>4
      <3>3. QED
        BY <3>1, <3>2
    <2>5. QED
      BY <2>1, <2>2, <2>4 DEF WakeInv
  <1>8. ASSUME NEW t \in Task, ServeStop(t) PROVE Goal
    <2>1. StopTask(t) \in Range(taskRequests) /\ status' = status
      BY <1>8, ServerTakes DEF ServeStop, queueClientVars
    <2>2. status[t] = "stopped"
      BY <1>0, <2>1 DEF Whereabouts
    <2>3. QED
      BY <1>0, <2>1, <2>2
  <1>9. ASSUME NEW t \in Task, TaskEnds(t) PROVE Goal
    <2>1. /\ UNCHANGED <<status, pendingTasks>>
          /\ slots' = slots \ {t}
          /\ taskResponses' = Append(taskResponses, TaskMessage("done", t))
          /\ TaskMessage("done", t) \in TaskMessages
      BY <1>9, QueueMessagesTyped DEF TaskEnds, queueClientVars
    <2>2. Stopped = {} /\ Active' = Active
      BY <2>1 DEF Stopped, Active
    <2>3. Answered'
      <3> SUFFICES ASSUME NEW v \in Task, NEW i \in Nat, Refused(i, v)'
                   PROVE  \E u \in Active' : Wakes(u, i)'
        BY DEF Answered
      <3>1. Refused(i, v)
        BY <2>1, RefusedBehind, QueueMessagesDiffer
      <3>2. PICK u \in Active : Wakes(u, i)
        BY <2>2, <3>1 DEF WakeInv
      <3>3. u \in Task
        BY DEF Active
      <3>4. CASE u = t
        BY <2>1, <2>2, <3>1, <3>3, <3>4, RefusedBehind
      <3>5. CASE u # t
        <4>1. Wakes(u, i)'
          BY <2>1, <3>2, <3>3, <3>5, RefusedBehind
        <4>2. QED
          BY <2>2, <4>1
      <3>6. QED
        BY <3>4, <3>5
    <2>4. QED
      BY <2>1, <2>2, <2>3 DEF WakeInv
  <1>10. CASE UNCHANGED queueVars
    <2>1. UNCHANGED <<status, pendingTasks, taskResponses, slots>>
      BY <1>10 DEF queueVars, queueClientVars
    <2>2. Stopped = {} /\ Active' = Active
      BY <2>1 DEF Stopped, Active
    <2>3. Answered'
      BY <2>1, <2>2, WakesAsBefore DEF Answered
    <2>4. QED
      BY <2>1, <2>2, <2>3 DEF WakeInv
  <1>11. QED
    BY <1>1, <1>2, <1>3, <1>4, <1>5, <1>6, <1>7, <1>8, <1>9, <1>10
       DEF QueueNext, QueueUser, QueueClient, QueueServer

LEMMA WakeTracked == QueueSpec => []WakeInv
  BY QueueTracked, WakeInvInit, WakeInvNext, PTL DEF QueueSpec

\* A task that waits is woken by the end of another one, unless users stopped
\* one that had been sent.
THEOREM SomebodyAlwaysWakes == QueueSpec => []SomebodyWillWake
<1>1. WakeInv => SomebodyWillWake
  BY DEF WakeInv, SomebodyWillWake
<1>2. QED
  BY <1>1, WakeTracked, PTL

\* Whoever waits is in the queue, once, and somebody will wake it (getWithRecovery).
THEOREM QueueKeepsMoving == QueueSpec => []QueueMoves
<1>1. QueueIsRight /\ SomebodyWillWake => QueueMoves
  BY DEF QueueMoves
<1>2. QED
  BY <1>1, QueueHoldsWhoWaits, SomebodyAlwaysWakes, PTL
===============================================================================
