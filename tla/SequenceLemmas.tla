---------------------------- MODULE SequenceLemmas ----------------------------
(***************************************************************************)
(* Sequences without repetitions, as queues and channels use them;         *)
(* induction and recursion over the natural numbers; the highest of a      *)
(* finite set; folds; and sequences of sequences.                          *)
(***************************************************************************)
EXTENDS Integers, Sequences, FiniteSets, SequencesExt, TLAPS, SequenceTheorems,
        FiniteSetTheorems

\* What Append does to the elements of a queue.
LEMMA AppendElements ==
  ASSUME NEW S, NEW s \in Seq(S), NEW e \in S
  PROVE  /\ Append(s, e) \in Seq(S)
         /\ Range(Append(s, e)) = Range(s) \cup {e}
         /\ IsInjective(s) /\ e \notin Range(s) => IsInjective(Append(s, e))
<1> DEFINE t == Append(s, e)
<1>1. /\ t \in Seq(S)
      /\ Len(t) = Len(s) + 1
      /\ \A i \in 1 .. Len(s) : t[i] = s[i]
      /\ t[Len(s) + 1] = e
  BY AppendProperties
<1>2. /\ Len(s) \in Nat
      /\ Range(s) = {s[i] : i \in 1 .. Len(s)}
      /\ Range(t) = {t[i] : i \in 1 .. Len(t)}
      /\ DOMAIN s = 1 .. Len(s)
      /\ DOMAIN t = 1 .. Len(t)
  BY <1>1, RangeEquality, LenProperties
<1> HIDE DEF t
<1>3. Range(t) = Range(s) \cup {e}
  <2>1. ASSUME NEW x \in Range(t) PROVE x \in Range(s) \cup {e}
    <3>1. PICK i \in 1 .. Len(s) + 1 : x = t[i]
      BY <1>1, <1>2, <2>1
    <3>2. QED
      BY <3>1, <1>1, <1>2
  <2>2. ASSUME NEW x \in Range(s) PROVE x \in Range(t)
    <3>1. PICK i \in 1 .. Len(s) : x = s[i]
      BY <1>2, <2>2
    <3>2. i \in 1 .. Len(t) /\ x = t[i]
      BY <3>1, <1>1, <1>2
    <3>3. QED
      BY <3>2, <1>2
  <2>3. e \in Range(t)
    <3>1. Len(s) + 1 \in 1 .. Len(t)
      BY <1>1, <1>2
    <3>2. QED
      BY <3>1, <1>1, <1>2
  <2>4. QED
    BY <2>1, <2>2, <2>3
<1>4. ASSUME IsInjective(s), e \notin Range(s) PROVE IsInjective(t)
  <2> SUFFICES ASSUME NEW a \in 1 .. Len(t), NEW b \in 1 .. Len(t), t[a] = t[b]
               PROVE  a = b
    BY <1>2 DEF IsInjective
  <2>1. \A i \in 1 .. Len(s) : s[i] # e
    BY <1>2, <1>4
  <2>2. \A i, j \in 1 .. Len(s) : s[i] = s[j] => i = j
    BY <1>2, <1>4 DEF IsInjective
  <2>3. QED
    BY <2>1, <2>2, <1>1, <1>2
<1>5. QED
  BY <1>1, <1>3, <1>4 DEF t

\* What Tail does to them.
LEMMA TailElements ==
  ASSUME NEW S, NEW s \in Seq(S), s # <<>>
  PROVE  /\ Head(s) \in Range(s)
         /\ Range(s) \subseteq S
         /\ Tail(s) \in Seq(S)
         /\ Range(s) = {Head(s)} \cup Range(Tail(s))
         /\ IsInjective(s) =>
              /\ IsInjective(Tail(s))
              /\ Head(s) \notin Range(Tail(s))
<1> DEFINE t == Tail(s)
<1>1. /\ t \in Seq(S)
      /\ Len(t) = Len(s) - 1
      /\ \A i \in 1 .. Len(t) : t[i] = s[i + 1]
  BY HeadTailProperties
<1>2. /\ Len(s) \in Nat \ {0}
      /\ Range(s) = {s[i] : i \in 1 .. Len(s)}
      /\ Range(t) = {t[i] : i \in 1 .. Len(t)}
      /\ DOMAIN s = 1 .. Len(s)
      /\ DOMAIN t = 1 .. Len(t)
  BY <1>1, RangeEquality, LenProperties, EmptySeq
<1>3. Head(s) = s[1]
  OBVIOUS
<1> HIDE DEF t
<1>4. Head(s) \in Range(s)
  BY <1>2, <1>3
<1>5. Range(s) = {Head(s)} \cup Range(t)
  <2>1. ASSUME NEW x \in Range(s) PROVE x \in {Head(s)} \cup Range(t)
    <3>1. PICK i \in 1 .. Len(s) : x = s[i]
      BY <1>2, <2>1
    <3>2. CASE i = 1
      BY <3>1, <3>2, <1>3
    <3>3. CASE i # 1
      <4>1. i - 1 \in 1 .. Len(t) /\ t[i - 1] = s[i]
        BY <3>1, <3>3, <1>1, <1>2
      <4>2. QED
        BY <4>1, <3>1, <1>2
    <3>4. QED
      BY <3>2, <3>3
  <2>2. ASSUME NEW x \in Range(t) PROVE x \in Range(s)
    <3>1. PICK i \in 1 .. Len(t) : x = t[i]
      BY <1>2, <2>2
    <3>2. i + 1 \in 1 .. Len(s) /\ x = s[i + 1]
      BY <3>1, <1>1, <1>2
    <3>3. QED
      BY <3>2, <1>2
  <2>3. QED
    BY <2>1, <2>2, <1>4
<1>6. ASSUME IsInjective(s) PROVE IsInjective(t) /\ Head(s) \notin Range(t)
  <2>1. \A i, j \in 1 .. Len(s) : s[i] = s[j] => i = j
    BY <1>2, <1>6 DEF IsInjective
  <2>2. \A i \in 1 .. Len(t) : i + 1 \in 1 .. Len(s) /\ t[i] = s[i + 1]
    BY <1>1, <1>2
  <2>3. \A i, j \in 1 .. Len(t) : t[i] = t[j] => i = j
    BY <2>1, <2>2
  <2>4. \A i \in 1 .. Len(t) : t[i] # s[1]
    BY <2>1, <2>2, <1>2
  <2>5. QED
    BY <2>3, <2>4, <1>2, <1>3 DEF IsInjective
<1>7. Range(s) \subseteq S
  BY RangeOfSeq
<1>8. QED
  BY <1>1, <1>4, <1>5, <1>6, <1>7 DEF t

\* What a new head does to them.
LEMMA ConsElements ==
  ASSUME NEW S, NEW s \in Seq(S), NEW e \in S
  PROVE  /\ <<e>> \o s \in Seq(S)
         /\ Range(<<e>> \o s) = {e} \cup Range(s)
         /\ IsInjective(s) /\ e \notin Range(s) => IsInjective(<<e>> \o s)
<1> DEFINE t == <<e>> \o s
<1>1. <<e>> \in Seq(S) /\ Len(<<e>>) = 1 /\ <<e>>[1] = e
  OBVIOUS
<1>2. Len(s) \in Nat /\ DOMAIN s = 1 .. Len(s) /\ Range(s) = {s[i] : i \in 1 .. Len(s)}
  BY LenProperties, RangeEquality
<1>3. /\ t \in Seq(S)
      /\ Len(t) = Len(s) + 1
      /\ \A i \in 1 .. Len(s) + 1 : t[i] = IF i <= 1 THEN e ELSE s[i - 1]
  BY <1>1, <1>2, ConcatProperties
<1>4. DOMAIN t = 1 .. Len(t)
  <2> HIDE DEF t
  <2>1. QED
    BY <1>3, LenProperties
<1>5. Range(t) = {e} \cup Range(s)
  <2>1. Range(t) = Range(<<e>>) \cup Range(s)
    <3>1. \A q \in Seq(S) : Range(q \o s) = Range(q) \cup Range(s)
      BY RangeConcatenation
    <3>2. QED
      BY <1>1, <3>1
  <2>2. Range(<<e>>) = {<<e>>[i] : i \in 1 .. 1}
    BY <1>1, RangeEquality
  <2>3. Range(<<e>>) = {e}
    BY <2>2, <1>1
  <2>4. QED
    BY <2>1, <2>3
<1> HIDE DEF t
<1>6. ASSUME IsInjective(s), e \notin Range(s) PROVE IsInjective(t)
  <2>1. \A i \in 1 .. Len(s) : s[i] # e
    BY <1>2, <1>6
  <2>2. \A i, j \in 1 .. Len(s) : s[i] = s[j] => i = j
    BY <1>2, <1>6 DEF IsInjective
  <2>3. Len(s) \in Nat /\ Len(t) = Len(s) + 1
    BY <1>2, <1>3
  <2>4. t[1] = e
    BY <1>3, <2>3
  <2>5. \A i \in 1 .. Len(t) : i # 1 => i - 1 \in 1 .. Len(s) /\ t[i] = s[i - 1]
    BY <1>3, <2>3
  <2>6. SUFFICES ASSUME NEW a \in 1 .. Len(t), NEW b \in 1 .. Len(t), t[a] = t[b]
                 PROVE  a = b
    BY <1>4 DEF IsInjective
  <2>7. CASE a = 1 \/ b = 1
    BY <2>1, <2>4, <2>5, <2>6, <2>7
  <2>8. CASE a # 1 /\ b # 1
    <3>1. a - 1 = b - 1
      BY <2>2, <2>5, <2>6, <2>8
    <3>2. QED
      BY <3>1, <2>3
  <2>9. QED
    BY <2>7, <2>8
<1>7. QED
  BY <1>3, <1>5, <1>6 DEF t

\* What the removal of one of them does to the others.
LEMMA RemoveElement ==
  ASSUME NEW S, NEW s \in Seq(S), NEW n \in 1 .. Len(s), IsInjective(s)
  PROVE  /\ RemoveAt(s, n) \in Seq(S)
         /\ IsInjective(RemoveAt(s, n))
         /\ Range(RemoveAt(s, n)) = Range(s) \ {s[n]}
<1> DEFINE a == SubSeq(s, 1, n - 1)
           b == SubSeq(s, n + 1, Len(s))
           t == a \o b
<1>1. /\ Len(s) \in Nat
      /\ \A i \in 1 .. Len(s) : s[i] \in S
      /\ DOMAIN s = 1 .. Len(s)
      /\ Range(s) = {s[i] : i \in 1 .. Len(s)}
  BY LenProperties, RangeEquality, ElementOfSeq
<1>2. /\ a \in Seq(S)
      /\ Len(a) = n - 1
      /\ \A i \in 1 .. n - 1 : a[i] = s[i]
  <2>1. n - 1 \in Int /\ 1 \in Int /\ \A i \in 1 .. n - 1 : s[i] \in S
    BY <1>1
  <2>2. /\ a \in Seq(S)
        /\ Len(a) = IF 1 <= n - 1 THEN (n - 1) - 1 + 1 ELSE 0
        /\ \A i \in 1 .. (n - 1) - 1 + 1 : a[i] = s[1 + i - 1]
    BY <2>1, SubSeqProperties
  <2>3. QED
    BY <2>2
<1>3. /\ b \in Seq(S)
      /\ Len(b) = Len(s) - n
      /\ \A i \in 1 .. Len(s) - n : b[i] = s[n + i]
  <2>1. n + 1 \in Int /\ Len(s) \in Int /\ \A i \in n + 1 .. Len(s) : s[i] \in S
    BY <1>1
  <2>2. /\ b \in Seq(S)
        /\ Len(b) = IF n + 1 <= Len(s) THEN Len(s) - (n + 1) + 1 ELSE 0
        /\ \A i \in 1 .. Len(s) - (n + 1) + 1 : b[i] = s[(n + 1) + i - 1]
    BY <2>1, SubSeqProperties
  <2>3. Len(b) = Len(s) - n
    <3>1. Len(s) \in Nat /\ n \in Nat /\ 1 <= n /\ n <= Len(s)
      BY LenProperties
    <3>2. Len(b) = IF n + 1 <= Len(s) THEN Len(s) - (n + 1) + 1 ELSE 0
      BY <2>2
    <3>3. (IF n + 1 <= Len(s) THEN Len(s) - (n + 1) + 1 ELSE 0) = Len(s) - n
      BY <3>1
    <3>4. QED
      BY <3>2, <3>3
  <2>4. ASSUME NEW i \in 1 .. Len(s) - n PROVE b[i] = s[n + i]
    <3>1. i \in 1 .. Len(s) - (n + 1) + 1 /\ (n + 1) + i - 1 = n + i
      BY <1>1
    <3>2. b[i] = s[(n + 1) + i - 1]
      BY <2>2, <3>1
    <3>3. QED
      BY <3>1, <3>2
  <2>5. QED
    BY <2>2, <2>3, <2>4
<1> HIDE DEF a, b
<1>4. /\ t \in Seq(S)
      /\ Len(t) = Len(s) - 1
      /\ \A i \in 1 .. Len(s) - 1 : t[i] = IF i <= n - 1 THEN a[i] ELSE b[i - (n - 1)]
  <2>1. /\ t \in Seq(S)
        /\ Len(t) = Len(a) + Len(b)
        /\ \A i \in 1 .. Len(a) + Len(b) :
              t[i] = IF i <= Len(a) THEN a[i] ELSE b[i - Len(a)]
    BY <1>2, <1>3, ConcatProperties
  <2>2. Len(a) + Len(b) = Len(s) - 1
    BY <1>1, <1>2, <1>3
  <2>3. QED
    BY <1>2, <2>1, <2>2
<1>5. DOMAIN t = 1 .. Len(t) /\ Range(t) = {t[i] : i \in 1 .. Len(t)}
  BY <1>4, LenProperties, RangeEquality
<1> HIDE DEF t
<1>6. \A i \in 1 .. Len(s) - 1 : t[i] = IF i < n THEN s[i] ELSE s[i + 1]
  BY <1>1, <1>2, <1>3, <1>4
<1>7. \A i, j \in 1 .. Len(s) : s[i] = s[j] => i = j
  BY <1>1 DEF IsInjective
<1>8. IsInjective(t)
  <2> SUFFICES ASSUME NEW i \in 1 .. Len(t), NEW j \in 1 .. Len(t), t[i] = t[j]
               PROVE  i = j
    BY <1>5 DEF IsInjective
  <2>1. /\ i \in 1 .. Len(s) - 1 /\ j \in 1 .. Len(s) - 1
        /\ i + 1 \in 1 .. Len(s) /\ j + 1 \in 1 .. Len(s)
        /\ i \in 1 .. Len(s) /\ j \in 1 .. Len(s)
    BY <1>1, <1>4
  <2>2. (IF i < n THEN s[i] ELSE s[i + 1]) = IF j < n THEN s[j] ELSE s[j + 1]
    BY <1>6, <2>1
  <2>3. (IF i < n THEN i ELSE i + 1) = IF j < n THEN j ELSE j + 1
    BY <1>7, <2>1, <2>2
  <2>4. QED
    BY <1>1, <2>1, <2>3
<1>9. Range(t) = Range(s) \ {s[n]}
  <2>1. ASSUME NEW x \in Range(t) PROVE x \in Range(s) \ {s[n]}
    <3>1. PICK i \in 1 .. Len(s) - 1 : x = t[i]
      BY <1>4, <1>5, <2>1
    <3>2. PICK j \in 1 .. Len(s) : x = s[j] /\ j # n
      BY <3>1, <1>1, <1>6
    <3>3. QED
      BY <3>2, <1>1, <1>7
  <2>2. ASSUME NEW x \in Range(s) \ {s[n]} PROVE x \in Range(t)
    <3>1. PICK j \in 1 .. Len(s) : x = s[j]
      BY <1>1, <2>2
    <3>2. j # n
      BY <3>1, <2>2
    <3>3. PICK i \in 1 .. Len(s) - 1 : t[i] = s[j]
      <4>1. CASE j < n
        BY <4>1, <1>1, <1>6
      <4>2. CASE j > n
        <5>1. j - 1 \in 1 .. Len(s) - 1 /\ t[j - 1] = s[j]
          BY <4>2, <1>1, <1>6
        <5>2. QED
          BY <5>1
      <4>3. QED
        BY <3>2, <4>1, <4>2
    <3>4. QED
      BY <3>1, <3>3, <1>4, <1>5
  <2>3. QED
    BY <2>1, <2>2
<1>10. QED
  BY <1>4, <1>8, <1>9 DEF t, a, b, RemoveAt

\* It is as long as it has elements.
LEMMA InjectiveLength ==
  ASSUME NEW S, NEW s \in Seq(S), IsInjective(s)
  PROVE  Cardinality(Range(s)) = Len(s)
<1>1. /\ Len(s) \in Nat
      /\ DOMAIN s = 1 .. Len(s)
      /\ Range(s) = {s[i] : i \in 1 .. Len(s)}
      /\ s \in [1 .. Len(s) -> S]
  BY LenProperties, RangeEquality
<1>2. s \in [1 .. Len(s) -> Range(s)]
  BY <1>1
<1>3. s \in Bijection(1 .. Len(s), Range(s))
  BY <1>1, <1>2 DEF Bijection, Injection, Surjection, IsInjective
<1>4. ExistsBijection(1 .. Len(s), Range(s))
  BY <1>3 DEF ExistsBijection
<1>5. QED
  BY <1>1, <1>4, FS_CountingElements

\* Two of them, one behind the other.
LEMMA ConcatElements ==
  ASSUME NEW S, NEW s \in Seq(S), NEW u \in Seq(S)
  PROVE  /\ s \o u \in Seq(S)
         /\ Range(s \o u) = Range(s) \cup Range(u)
         /\ IsInjective(s) /\ IsInjective(u) /\ Range(s) \cap Range(u) = {} =>
              IsInjective(s \o u)
<1> DEFINE t == s \o u
<1>1. /\ t \in Seq(S)
      /\ Len(t) = Len(s) + Len(u)
      /\ \A i \in 1 .. Len(s) + Len(u) : t[i] = IF i <= Len(s) THEN s[i] ELSE u[i - Len(s)]
  BY ConcatProperties
<1>2. Range(t) = Range(s) \cup Range(u)
  BY RangeConcatenation
<1> HIDE DEF t
<1>3. /\ Len(s) \in Nat /\ Len(u) \in Nat
      /\ DOMAIN s = 1 .. Len(s) /\ DOMAIN u = 1 .. Len(u) /\ DOMAIN t = 1 .. Len(t)
      /\ Range(s) = {s[i] : i \in 1 .. Len(s)}
      /\ Range(u) = {u[i] : i \in 1 .. Len(u)}
  BY <1>1, LenProperties, RangeEquality
<1>4. ASSUME IsInjective(s), IsInjective(u), Range(s) \cap Range(u) = {}
      PROVE  IsInjective(t)
  <2>1. /\ \A i, j \in 1 .. Len(s) : s[i] = s[j] => i = j
        /\ \A i, j \in 1 .. Len(u) : u[i] = u[j] => i = j
    BY <1>3, <1>4 DEF IsInjective
  <2>2. \A i \in 1 .. Len(s), j \in 1 .. Len(u) : s[i] # u[j]
    BY <1>3, <1>4
  <2>3. \A i \in 1 .. Len(t) :
          \/ i \in 1 .. Len(s) /\ t[i] = s[i]
          \/ i - Len(s) \in 1 .. Len(u) /\ t[i] = u[i - Len(s)]
    BY <1>1, <1>3
  <2>4. SUFFICES ASSUME NEW a \in 1 .. Len(t), NEW b \in 1 .. Len(t), t[a] = t[b]
                 PROVE  a = b
    BY <1>3 DEF IsInjective
  <2>5. \/ a \in 1 .. Len(s) /\ b \in 1 .. Len(s) /\ s[a] = s[b]
        \/ /\ a - Len(s) \in 1 .. Len(u) /\ b - Len(s) \in 1 .. Len(u)
           /\ u[a - Len(s)] = u[b - Len(s)]
    BY <2>2, <2>3, <2>4
  <2>6. a = b \/ a - Len(s) = b - Len(s)
    BY <2>1, <2>5
  <2>7. QED
    BY <2>6, <1>1, <1>3
<1>5. QED
  BY <1>1, <1>2, <1>4 DEF t

\* A set as a sequence.
LEMMA SetAsSequence ==
  ASSUME NEW S, IsFiniteSet(S)
  PROVE  /\ SetToSeq(S) \in [1 .. Cardinality(S) -> S]
         /\ IsInjective(SetToSeq(S))
         /\ \A e \in S : \E n \in 1 .. Cardinality(S) : SetToSeq(S)[n] = e
<1> DEFINE n == Cardinality(S)
<1>1. n \in Nat /\ ExistsBijection(1 .. n, S)
  BY FS_CardinalityType
<1> HIDE DEF n
<1>2. PICK g \in Bijection(1 .. n, S) : TRUE
  BY <1>1 DEF ExistsBijection
<1>3. g \in [1 .. n -> S] /\ IsInjective(g)
  BY <1>2 DEF Bijection, Injection
<1> DEFINE f == SetToSeq(S)
<1>4. f \in [1 .. n -> S] /\ IsInjective(f)
  BY <1>3 DEF SetToSeq, n
<1> HIDE DEF f
<1>5. ASSUME NEW e \in S PROVE \E i \in 1 .. n : f[i] = e
  <2>1. f \in Injection(1 .. n, S)
    BY <1>4 DEF Injection
  <2>2. IsFiniteSet(1 .. n) /\ Cardinality(1 .. n) = n
    BY <1>1, FS_Interval
  <2>3. f \in Surjection(1 .. n, S)
    BY <2>1, <2>2, FS_Injection DEF n
  <2>4. QED
    BY <2>3 DEF Surjection
<1>6. QED
  BY <1>4, <1>5 DEF f, n

\* All but the last.
LEMMA FrontElements ==
  ASSUME NEW S, NEW s \in Seq(S), s # <<>>
  PROVE  /\ Front(s) \in Seq(S)
         /\ Len(Front(s)) = Len(s) - 1
         /\ \A i \in 1 .. Len(s) - 1 : Front(s)[i] = s[i]
<1>1. /\ Len(s) \in Nat \ {0}
      /\ \A i \in 1 .. Len(s) : s[i] \in S
  BY LenProperties, EmptySeq, ElementOfSeq
<1>2. Len(s) - 1 \in Int /\ 1 \in Int /\ \A i \in 1 .. Len(s) - 1 : s[i] \in S
  BY <1>1
<1>3. /\ Front(s) \in Seq(S)
      /\ Len(Front(s)) = IF 1 <= Len(s) - 1 THEN (Len(s) - 1) - 1 + 1 ELSE 0
      /\ \A i \in 1 .. (Len(s) - 1) - 1 + 1 : Front(s)[i] = s[1 + i - 1]
  BY <1>2, SubSeqProperties DEF Front
<1>4. (IF 1 <= Len(s) - 1 THEN (Len(s) - 1) - 1 + 1 ELSE 0) = Len(s) - 1
  <2>1. \A k \in Nat : k # 0 =>
          (IF 1 <= k - 1 THEN (k - 1) - 1 + 1 ELSE 0) = k - 1
    OBVIOUS
  <2>2. QED
    BY <1>1, <2>1
<1>5. ASSUME NEW i \in 1 .. Len(s) - 1 PROVE Front(s)[i] = s[i]
  <2>1. i \in 1 .. (Len(s) - 1) - 1 + 1 /\ 1 + i - 1 = i
    BY <1>1
  <2>2. QED
    BY <1>3, <2>1
<1>6. QED
  BY <1>3, <1>4, <1>5

-------------------------------------------------------------------------------
(***************************************************************************)
(* Induction and recursion. Sets and functions stand for the predicate of  *)
(* an induction and for the step of a recursion, and the pigeonhole        *)
(* principle for the induction: were m outside S, so would be everything   *)
(* below it, and n - 1 would take the numbers up to m that are outside to  *)
(* themselves but m, without a collision.                                  *)
(***************************************************************************)

\* Induction over the natural numbers.
LEMMA InductionOverNat ==
  ASSUME NEW S, 0 \in S, \A n \in Nat : n \in S => n + 1 \in S
  PROVE  Nat \subseteq S
<1> SUFFICES ASSUME NEW m \in Nat, m \notin S
             PROVE  FALSE
  OBVIOUS
<1> DEFINE Out == {n \in 1 .. m : n \notin S}
           down == [n \in Out |-> n - 1]
<1>1. IsFiniteSet(1 .. m)
  BY FS_Interval
<1>2. Out \in SUBSET (1 .. m)
  OBVIOUS
<1>3. IsFiniteSet(Out)
  BY <1>1, <1>2, FS_Subset
<1>4. m \in Out
  BY m # 0
<1>5. /\ IsFiniteSet(Out \ {m})
      /\ Cardinality(Out \ {m}) = Cardinality(Out) - 1
  BY <1>3, <1>4, FS_RemoveElement
<1>6. Cardinality(Out) \in Nat
  BY <1>3, FS_CardinalityType
<1>7. down \in [Out -> Out \ {m}]
  <2>1. ASSUME NEW n \in Out PROVE n - 1 \in Out \ {m}
    <3>1. n \in 1 .. m /\ n - 1 \in Nat /\ n \notin S /\ (n - 1) + 1 = n
      OBVIOUS
    <3>2. n - 1 \notin S
      BY <3>1
    <3>3. n - 1 # 0
      BY <3>2
    <3>4. QED
      BY <3>1, <3>2, <3>3
  <2>2. QED
    BY <2>1
<1>8. Cardinality(Out \ {m}) < Cardinality(Out)
  BY <1>5, <1>6
<1> HIDE DEF Out
<1>9. \E x, y \in Out : x # y /\ down[x] = down[y]
  <2> HIDE DEF down
  <2>1. QED
    BY <1>3, <1>5, <1>7, <1>8, FS_PigeonHole
<1>10. \A x, y \in Out : down[x] = down[y] => x = y
  BY <1>2
<1>11. QED
  BY <1>9, <1>10

\* `rank` goes down from everything but the roots to what is below it.
Ranks(rank, below, Root, D) ==
  /\ rank \in [D -> Nat]
  /\ below \in [D -> D]
  /\ \A d \in D : d \in Root \/ rank[below[d]] < rank[d]

\* The values at the roots, and the steps from the value below.
Steps(start, F, D, V) == start \in [D -> V] /\ F \in [D -> [V -> V]]

Solves(g, start, F, below, Root, D) ==
  \A d \in D : /\ d \in Root => g[d] = start[d]
               /\ d \notin Root => g[d] = F[d][g[below[d]]]

\* A function defined from its value at one argument of a lower rank exists.
LEMMA RecursionByRank ==
  ASSUME NEW D, NEW V, NEW rank, NEW below, NEW Root, NEW start, NEW F,
         Ranks(rank, below, Root, D), Steps(start, F, D, V)
  PROVE  \E g \in [D -> V] : Solves(g, start, F, below, Root, D)
<1>0. /\ rank \in [D -> Nat]
      /\ below \in [D -> D]
      /\ \A d \in D : d \in Root \/ rank[below[d]] < rank[d]
      /\ start \in [D -> V]
      /\ F \in [D -> [V -> V]]
  BY DEF Ranks, Steps
<1> DEFINE Right(g, d) == /\ d \in Root => g[d] = start[d]
                          /\ d \notin Root => g[d] = F[d][g[below[d]]]
           UpTo(n) == {g \in [D -> V] : \A d \in D : rank[d] <= n => Right(g, d)}
<1> USE <1>0
<1>1. \A n \in Nat : UpTo(n) # {}
  <2> DEFINE S == {n \in Nat : UpTo(n) # {}}
  <2>1. 0 \in S
    <3>1. \A d \in D : rank[d] <= 0 => d \in Root
      OBVIOUS
    <3>2. start \in UpTo(0)
      BY <3>1
    <3>3. QED
      BY <3>2
  <2>2. ASSUME NEW n \in Nat, n \in S PROVE n + 1 \in S
    <3>1. PICK g \in [D -> V] : \A d \in D : rank[d] <= n => Right(g, d)
      BY <2>2
    <3> DEFINE h == [d \in D |-> IF d \in Root THEN start[d]
                                 ELSE F[d][g[below[d]]]]
    <3>2. h \in [D -> V]
      OBVIOUS
    <3>3. \A d \in D : rank[d] <= n => h[d] = g[d]
      BY <3>1
    <3>4. ASSUME NEW d \in D, rank[d] <= n + 1 PROVE Right(h, d)
      <4>1. CASE d \in Root
        BY <4>1
      <4>2. CASE d \notin Root
        <5>1. below[d] \in D /\ rank[below[d]] <= n
          BY <4>2, <3>4
        <5>2. h[below[d]] = g[below[d]]
          BY <5>1, <3>3
        <5>3. QED
          BY <5>2, <4>2
      <4>3. QED
        BY <4>1, <4>2
    <3>5. h \in UpTo(n + 1)
      BY <3>2, <3>4
    <3> HIDE DEF UpTo, h
    <3>6. n + 1 \in Nat /\ UpTo(n + 1) # {}
      BY <3>5
    <3>7. QED
      BY <3>6
  <2> HIDE DEF S
  <2>3. Nat \subseteq S
    BY <2>1, <2>2, InductionOverNat
  <2>4. QED
    BY <2>3 DEF S
<1>2. ASSUME NEW n \in Nat, NEW m \in Nat, NEW g \in UpTo(n), NEW h \in UpTo(m), NEW e \in D,
             rank[e] <= n, rank[e] <= m
      PROVE  g[e] = h[e]
  <2> DEFINE S == {k \in Nat : \A d \in D :
                               rank[d] <= k /\ rank[d] <= n /\ rank[d] <= m => g[d] = h[d]}
  <2>1. 0 \in S
    <3>1. \A d \in D : rank[d] <= 0 => d \in Root
      OBVIOUS
    <3>2. QED
      BY <3>1
  <2>2. ASSUME NEW k \in Nat, k \in S PROVE k + 1 \in S
    <3>1. ASSUME NEW d \in D, rank[d] <= k + 1, rank[d] <= n, rank[d] <= m
          PROVE  g[d] = h[d]
      <4>1. CASE d \in Root
        BY <4>1, <3>1
      <4>2. CASE d \notin Root
        <5>1. /\ below[d] \in D
              /\ rank[below[d]] <= k
              /\ rank[below[d]] <= n
              /\ rank[below[d]] <= m
          BY <4>2, <3>1
        <5>2. h[below[d]] = g[below[d]]
          BY <5>1, <2>2
        <5>3. QED
          BY <5>2, <4>2, <3>1
      <4>3. QED
        BY <4>1, <4>2
    <3>2. QED
      BY <3>1
  <2> HIDE DEF S
  <2>3. Nat \subseteq S
    BY <2>1, <2>2, InductionOverNat
  <2>4. rank[e] \in S
    BY <2>3
  <2>5. QED
    BY <2>4, <1>2 DEF S
<1> DEFINE pick == [n \in Nat |-> CHOOSE g \in [D -> V] : g \in UpTo(n)]
           g == [d \in D |-> pick[rank[d]][d]]
<1>3. \A n \in Nat : pick[n] \in UpTo(n)
  BY <1>1
<1> HIDE DEF pick
<1>4. g \in [D -> V]
  BY <1>3
<1>5. ASSUME NEW d \in D PROVE Right(g, d)
  <2>1. Right(pick[rank[d]], d)
    BY <1>3
  <2>2. CASE d \in Root
    BY <2>1, <2>2
  <2>3. CASE d \notin Root
    <3>1. /\ below[d] \in D
          /\ rank[below[d]] <= rank[d]
      BY <2>3
    <3>2. /\ pick[rank[d]] \in UpTo(rank[d])
          /\ pick[rank[below[d]]] \in UpTo(rank[below[d]])
      BY <3>1, <1>3
    <3> HIDE DEF UpTo
    <3>3. pick[rank[d]][below[d]] = pick[rank[below[d]]][below[d]]
      BY <3>1, <3>2, <1>2
    <3>4. QED
      BY <2>1, <2>3, <3>1, <3>3
  <2>4. QED
    BY <2>2, <2>3
<1>6. QED
  BY <1>4, <1>5 DEF Solves

\* A finite set of numbers has a highest one.
LEMMA HighestExists ==
  ASSUME NEW A, IsFiniteSet(A), A # {}, A \subseteq Int
  PROVE  \E a \in A : \A c \in A : c <= a
<1> DEFINE S == {n \in Nat : \A B \in SUBSET A : B # {} /\ Cardinality(B) <= n =>
                               \E a \in B : \A c \in B : c <= a}
<1>0. \A B \in SUBSET A : IsFiniteSet(B) /\ Cardinality(B) \in Nat /\ (Cardinality(B) = 0 <=> B = {})
  BY FS_Subset, FS_CardinalityType, FS_EmptySet
<1>1. 0 \in S
  <2>1. ASSUME NEW B \in SUBSET A, B # {} PROVE ~(Cardinality(B) <= 0)
    <3>1. IsFiniteSet(B)
      BY FS_Subset
    <3>2. Cardinality(B) \in Nat /\ Cardinality(B) # 0
      BY <2>1, <3>1, FS_CardinalityType, FS_EmptySet
    <3>3. QED
      BY <3>2
  <2>2. QED
    BY <2>1
<1>2. ASSUME NEW n \in Nat, n \in S PROVE n + 1 \in S
  <2> SUFFICES ASSUME NEW B \in SUBSET A, B # {}, Cardinality(B) <= n + 1
               PROVE  \E a \in B : \A c \in B : c <= a
    OBVIOUS
  <2>1. PICK x \in B : TRUE
    OBVIOUS
  <2> DEFINE C == B \ {x}
  <2>2. C \in SUBSET A /\ Cardinality(C) = Cardinality(B) - 1
    BY <1>0, <2>1, FS_RemoveElement
  <2>3. CASE C = {}
    BY <2>1, <2>3
  <2>4. CASE C # {}
    <3>1. PICK y \in C : \A c \in C : c <= y
      BY <1>0, <1>2, <2>2, <2>4
    <3>2. x \in Int /\ y \in Int /\ \A c \in B : c \in Int
      BY <2>1
    <3>3. CASE x <= y
      BY <3>1, <3>3
    <3>4. CASE y <= x
      BY <3>1, <3>2, <3>4
    <3>5. QED
      BY <3>2, <3>3, <3>4
  <2>5. QED
    BY <2>3, <2>4
<1> HIDE DEF S
<1>3. Nat \subseteq S
  BY <1>1, <1>2, InductionOverNat
<1>4. Cardinality(A) \in S /\ Cardinality(A) <= Cardinality(A) /\ A \in SUBSET A
  BY <1>0, <1>3
<1>5. QED
  BY <1>4 DEF S

\* A set of numbers has a greatest one, which Max chooses, and a least one.
LEMMA MaxIsHighest ==
  ASSUME NEW A, A \subseteq Int, IsFiniteSet(A), A # {}
  PROVE  /\ Max(A) \in A /\ \A c \in A : c <= Max(A)
         /\ A \subseteq Nat => Min(A) \in A
<1>1. PICK m \in A : \A c \in A : c <= m
  BY HighestExists
<1>2. \E x \in A : \A c \in A : x >= c
  BY <1>1
<1>3. Max(A) \in A /\ \A c \in A : Max(A) >= c
  BY <1>2 DEF Max
<1>4. ASSUME A \subseteq Nat PROVE Min(A) \in A
  <2> DEFINE T == {-c : c \in A}
    <2>1. T \subseteq Int /\ T # {}
    OBVIOUS
  <2>2. IsFiniteSet(T)
    <3> DEFINE f == [c \in A |-> -c]
    <3>1. f \in Surjection(A, T)
      BY DEF Surjection
    <3>2. QED
      BY <3>1, FS_Surjection
  <2>3. PICK t \in T : \A c \in T : c <= t
    BY <2>1, <2>2, HighestExists
  <2>4. PICK x \in A : t = -x
    OBVIOUS
  <2>5. ASSUME NEW c \in A PROVE x <= c
    <3>1. -c \in T
      BY <2>5
    <3>2. -c <= -x /\ c \in Int /\ x \in Int
      BY <2>3, <2>4, <2>5, <3>1
    <3>3. QED
      BY <3>2
  <2>6. \E y \in A : \A c \in A : y <= c
    BY <2>5
  <2>7. QED
    BY <2>6 DEF Min
<1>5. QED
  BY <1>3, <1>4

\* g is a fold over the numbers in A, the least one first; what it computes exists.
FoldsUp(g, A, base, G) ==
  \A d \in SUBSET A : g[d] = IF d = {} THEN base ELSE G[Max(d)][g[d \ {Max(d)}]]

Applicable(A, V, base, G) ==
  /\ A \subseteq Int /\ IsFiniteSet(A)
  /\ base \in V /\ \A i \in A : \A v \in V : G[i][v] \in V

LEMMA FoldExists ==
  ASSUME NEW A, NEW V, NEW base, NEW G, Applicable(A, V, base, G)
  PROVE  \E g \in [SUBSET A -> V] : FoldsUp(g, A, base, G)
<1> DEFINE D == SUBSET A
           start == [d \in D |-> base]
           below == [d \in D |-> IF d = {} THEN {} ELSE d \ {Max(d)}]
           F == [d \in D |-> [v \in V |-> IF d = {} THEN v ELSE G[Max(d)][v]]]
           rank == [d \in D |-> Cardinality(d)]
<1>0. /\ \A d \in D : below[d] = IF d = {} THEN {} ELSE d \ {Max(d)}
      /\ \A d \in D : start[d] = base
      /\ \A d \in D : \A v \in V : F[d][v] = IF d = {} THEN v ELSE G[Max(d)][v]
  OBVIOUS
<1>i. /\ A \subseteq Int /\ IsFiniteSet(A)
      /\ base \in V /\ \A i \in A : \A v \in V : G[i][v] \in V
  BY DEF Applicable
<1>a. ASSUME NEW d \in D PROVE IsFiniteSet(d) /\ d \subseteq Int /\ (d # {} => Max(d) \in d)
  <2>1. IsFiniteSet(d) /\ d \subseteq Int
    BY <1>i, FS_Subset
  <2>2. QED
    BY <2>1, MaxIsHighest
<1>b. below \in [D -> D] /\ {} \in D
  OBVIOUS
<1>1. Steps(start, F, D, V)
  <2>1. ASSUME NEW d \in D PROVE F[d] \in [V -> V]
    <3>1. ASSUME d # {}, NEW v \in V PROVE G[Max(d)][v] \in V
      BY <1>a, <1>i, <3>1
    <3>2. QED
      BY <1>i, <3>1
  <2>2. start \in [D -> V]
    BY <1>i
  <2> HIDE DEF F, start
  <2>3. F \in [D -> [V -> V]]
    BY <2>1 DEF F
  <2>4. QED
    BY <2>2, <2>3 DEF Steps
<1>2. Ranks(rank, below, {{}}, D)
  <2>1. \A d \in D : Cardinality(d) \in Nat
    BY <1>a, FS_CardinalityType
  <2>2. rank \in [D -> Nat]
    BY <2>1
  <2>3. ASSUME NEW d \in D, d # {} PROVE rank[below[d]] < rank[d]
    <3>1. Max(d) \in d /\ d \ {Max(d)} \in D
      BY <1>a, <2>3
    <3>2. Cardinality(d \ {Max(d)}) = Cardinality(d) - 1
      BY <1>a, <3>1, FS_RemoveElement
    <3>3. below[d] = d \ {Max(d)} /\ Cardinality(d) \in Nat
      BY <2>1, <2>3
    <3>4. rank[below[d]] = Cardinality(d \ {Max(d)}) /\ rank[d] = Cardinality(d)
      BY <3>1, <3>3
    <3>5. QED
      BY <3>2, <3>3, <3>4
  <2> HIDE DEF rank, below
  <2>4. QED
    BY <1>b, <2>2, <2>3 DEF Ranks
<1> HIDE DEF start, F, below, rank, D
<1>3. PICK g \in [D -> V] : Solves(g, start, F, below, {{}}, D)
  BY <1>1, <1>2, RecursionByRank
<1>4. \A d \in D : g[d] = IF d = {} THEN base ELSE G[Max(d)][g[d \ {Max(d)}]]
  <2> SUFFICES ASSUME NEW d \in D
               PROVE  g[d] = IF d = {} THEN base ELSE G[Max(d)][g[d \ {Max(d)}]]
    OBVIOUS
  <2>1. CASE d = {}
    BY <1>0, <1>3, <2>1 DEF Solves
  <2>2. CASE d # {}
    <3>1. g[d] = F[d][g[below[d]]]
      BY <1>3, <2>2 DEF Solves
    <3>2. below[d] = d \ {Max(d)} /\ g[below[d]] \in V
      BY <1>0, <1>b, <1>3, <2>2
    <3>3. QED
      BY <1>0, <2>2, <3>1, <3>2
  <2>3. QED
    BY <2>1, <2>2
<1>5. QED
  BY <1>3, <1>4 DEF D, FoldsUp

\* What a part of a sequence has.
LEMMA Piece ==
  ASSUME NEW S, NEW s \in Seq(S), NEW a \in Int, a >= 1, NEW z \in Int, z <= Len(s)
  PROVE  /\ SubSeq(s, a, z) \in Seq(S)
         /\ Len(SubSeq(s, a, z)) = IF a <= z THEN z - a + 1 ELSE 0
         /\ a > z => SubSeq(s, a, z) = <<>>
         /\ \A i \in 1 .. z - a + 1 : SubSeq(s, a, z)[i] = s[a + i - 1]
<1>1. Len(s) \in Nat /\ \A i \in 1 .. Len(s) : s[i] \in S
  BY LenProperties
<1>2. \A i \in a .. z : s[i] \in S
  BY <1>1
<1>3. QED
  BY <1>2, SubSeqProperties, SubSeqEmpty

\* g starts with base, and goes from each value to the next one by G.
Climbs(g, n, base, G) == g[0] = base /\ \A i \in 1 .. n : g[i] = G[i][g[i - 1]]

\* Each step of G stays in V.
Climbable(n, V, base, G) ==
  n \in Nat /\ base \in V /\ \A i \in 1 .. n : \A v \in V : G[i][v] \in V

\* A function on 0 .. n is defined by its first value and the step to the next one.
LEMMA RecursionUp ==
  ASSUME NEW n, NEW V, NEW base, NEW G, Climbable(n, V, base, G)
  PROVE  \E g \in [0 .. n -> V] : Climbs(g, n, base, G)
<1>0. n \in Nat /\ base \in V /\ \A i \in 1 .. n : \A v \in V : G[i][v] \in V
  BY DEF Climbable
<1> DEFINE D == 0 .. n
           start == [d \in D |-> base]
           below == [d \in D |-> IF d = 0 THEN 0 ELSE d - 1]
           F == [d \in D |-> [v \in V |-> IF d = 0 THEN v ELSE G[d][v]]]
           rank == [d \in D |-> d]
<1>1. /\ \A d \in D : below[d] = IF d = 0 THEN 0 ELSE d - 1
      /\ \A d \in D : start[d] = base
      /\ \A d \in D : \A v \in V : F[d][v] = IF d = 0 THEN v ELSE G[d][v]
  OBVIOUS
<1>2. /\ below \in [D -> D] /\ 0 \in D
      /\ \A i \in 1 .. n : i \in D /\ i # 0 /\ i - 1 \in D
  BY <1>0
<1>3. Steps(start, F, D, V)
  <2>1. start \in [D -> V]
    BY <1>0
  <2>2. ASSUME NEW d \in D PROVE F[d] \in [V -> V]
    <3>1. d # 0 => d \in 1 .. n
      BY <1>0
    <3>2. QED
      BY <1>0, <3>1
  <2> HIDE DEF F, start
  <2>3. F \in [D -> [V -> V]]
    BY <2>2 DEF F
  <2>4. QED
    BY <2>1, <2>3 DEF Steps
<1>4. Ranks(rank, below, {0}, D)
  BY <1>0 DEF Ranks
<1> HIDE DEF start, F, below, rank
<1>5. PICK g \in [D -> V] : Solves(g, start, F, below, {0}, D)
  BY <1>3, <1>4, RecursionByRank
<1>6. g[0] = base
  BY <1>1, <1>2, <1>5 DEF Solves
<1>7. ASSUME NEW i \in 1 .. n PROVE g[i] = G[i][g[i - 1]]
  <2>1. i \in D /\ i # 0 /\ i - 1 \in D
    BY <1>0
  <2>2. g[i] = F[i][g[below[i]]]
    BY <1>5, <2>1 DEF Solves
  <2>3. below[i] = i - 1 /\ g[i - 1] \in V
    BY <1>1, <1>5, <2>1
  <2>4. QED
    BY <1>1, <2>1, <2>2, <2>3
<1>8. QED
  BY <1>5, <1>6, <1>7 DEF Climbs

\* f is s flattened, up to each position.
Flattens(f, s, S) ==
  /\ f \in [0 .. Len(s) -> Seq(S)]
  /\ f[0] = <<>> /\ \A i \in 1 .. Len(s) : f[i] = f[i - 1] \o s[i]

\* FlattenSeq is built up from the left.
LEMMA FlattenExists ==
  ASSUME NEW S, NEW s \in Seq(Seq(S))
  PROVE  \E f : Flattens(f, s, S) /\ FlattenSeq(s) = f[Len(s)]
<1> DEFINE n == Len(s)
           Q == Seq(S)
<1>0. n \in Nat /\ (\A i \in 1 .. n : s[i] \in Q) /\ <<>> \in Q
  BY LenProperties, EmptySeq
<1>1. CASE n = 0
  <2> DEFINE f == [i \in 0 .. n |-> <<>>]
  <2>1. s = <<>>
    BY <1>0, <1>1, EmptySeq
  <2>2. FlattenSeq(s) = <<>>
    BY <1>1, <2>1 DEF FlattenSeq
  <2> HIDE DEF Q
  <2>3. Flattens(f, s, S)
    BY <1>0, <1>1 DEF Flattens, Q
  <2>4. QED
    BY <1>0, <1>1, <2>2, <2>3
<1>2. CASE n # 0
  <2> DEFINE G == [i \in 1 .. n |-> [v \in Q |-> v \o s[i]]]
  <2> HIDE DEF n
  <2>1. \A i \in 1 .. n : \A v \in Q : G[i][v] = v \o s[i] /\ G[i][v] \in Q
    BY <1>0, ConcatProperties
  <2> HIDE DEF G
  <2>2. PICK f \in [0 .. n -> Q] : Climbs(f, n, <<>>, G)
    <3> HIDE DEF Q
    <3>1. Climbable(n, Q, <<>>, G)
      BY <1>0, <2>1 DEF Climbable
    <3>2. QED
      BY <3>1, RecursionUp
  <2>3. f[0] = <<>> /\ \A i \in 1 .. n : f[i] = f[i - 1] \o s[i]
    <3> SUFFICES ASSUME NEW i \in 1 .. n PROVE f[i] = f[i - 1] \o s[i]
      BY <2>2 DEF Climbs
    <3>1. i - 1 \in 0 .. n /\ f[i] = G[i][f[i - 1]]
      BY <1>0, <2>2 DEF Climbs
    <3> HIDE DEF Q
    <3>2. f[i - 1] \in Q
      BY <3>1
    <3>3. QED
      BY <2>1, <3>1, <3>2
  <2>4. Flattens(f, s, S)
    BY <2>2, <2>3 DEF Flattens, n
  <2> DEFINE Is(g) == g = [i \in 1 .. n |-> IF i = 1 THEN s[i] ELSE g[i - 1] \o s[i]]
             flat == CHOOSE g : Is(g)
             h == [i \in 1 .. n |-> f[i]]
  <2>5. f[1] = s[1]
    <3>1. 1 \in 1 .. n /\ 1 - 1 = 0
      BY <1>0, <1>2
    <3>2. f[1] = f[0] \o s[1] /\ s[1] \in Q
      BY <1>0, <2>3, <3>1
    <3>3. QED
      BY <2>3, <3>2, ConcatEmptySeq
  <2>6. ASSUME NEW i \in 1 .. n PROVE h[i] = IF i = 1 THEN s[i] ELSE h[i - 1] \o s[i]
    <3>1. i # 1 => i - 1 \in 1 .. n
      BY <1>0
    <3>2. QED
      BY <2>3, <2>5, <3>1
  <2> HIDE DEF h
  <2>7. h = [i \in 1 .. n |-> h[i]]
    BY DEF h
  <2>8. Is(h)
    BY <2>6, <2>7, Zenon
  <2>9. Is(flat)
    BY <2>8
  <2>10. FlattenSeq(s) = flat[n]
    BY <1>2 DEF FlattenSeq, n
  <2> HIDE DEF flat
  <2> DEFINE T == {i \in Nat : i + 1 \in 1 .. n => flat[i + 1] = f[i + 1]}
  <2>11. 0 \in T
    BY <1>0, <1>2, <2>5, <2>9
  <2>12. ASSUME NEW i \in Nat, i \in T PROVE i + 1 \in T
    <3> DEFINE k == i + 1 + 1
    <3> SUFFICES ASSUME k \in 1 .. n PROVE flat[k] = f[k]
      OBVIOUS
    <3>1. k # 1 /\ k - 1 = i + 1 /\ i + 1 \in 1 .. n
      BY <1>0
    <3>2. flat[i + 1] = f[i + 1]
      BY <2>12, <3>1
    <3> HIDE DEF k
    <3>3. flat[k] = flat[k - 1] \o s[k]
      BY <2>9, <3>1
    <3>4. f[k] = f[k - 1] \o s[k]
      BY <2>3
    <3>5. QED
      BY <3>1, <3>2, <3>3, <3>4
  <2> HIDE DEF T
  <2>13. Nat \subseteq T
    BY <2>11, <2>12, InductionOverNat
  <2>14. n - 1 \in Nat /\ n - 1 + 1 = n /\ n \in 1 .. n
    BY <1>0, <1>2
  <2>15. n - 1 \in T
    BY <2>13, <2>14
  <2>16. flat[n] = f[n]
    BY <2>14, <2>15 DEF T
  <2>17. QED
    BY <2>4, <2>10, <2>16 DEF n
<1>3. QED
  BY <1>1, <1>2

\* A flattening is determined.
LEMMA FlattenUnique ==
  ASSUME NEW S, NEW s \in Seq(Seq(S)), NEW f, Flattens(f, s, S)
  PROVE  FlattenSeq(s) = f[Len(s)]
<1> DEFINE n == Len(s)
<1>0. n \in Nat
  BY LenProperties
<1>1. PICK g : Flattens(g, s, S) /\ FlattenSeq(s) = g[n]
  BY FlattenExists
<1> HIDE DEF n
<1> DEFINE T == {i \in Nat : i \in 0 .. n => g[i] = f[i]}
<1>2. 0 \in T
  BY <1>0, <1>1 DEF Flattens
<1>3. ASSUME NEW i \in Nat, i \in T PROVE i + 1 \in T
  <2> DEFINE k == i + 1
  <2> SUFFICES ASSUME k \in 0 .. n PROVE g[k] = f[k]
    OBVIOUS
  <2>1. k \in 1 .. n /\ k - 1 = i /\ i \in 0 .. n
    BY <1>0
  <2>1a. g[i] = f[i]
    BY <1>3, <2>1
  <2> HIDE DEF k
  <2>2. g[k] = g[k - 1] \o s[k] /\ f[k] = f[k - 1] \o s[k]
    BY <1>1, <2>1 DEF Flattens, n
  <2>3. QED
    BY <2>1, <2>1a, <2>2
<1> HIDE DEF T
<1>4. Nat \subseteq T
  BY <1>2, <1>3, InductionOverNat
<1>5. n \in T /\ n \in 0 .. n
  BY <1>0, <1>4
<1>6. QED
  BY <1>1, <1>5 DEF T, n

\* The flattening of a concatenation, and of a single sequence.
LEMMA FlattenConcat ==
  ASSUME NEW S, NEW s \in Seq(Seq(S)), NEW t \in Seq(Seq(S))
  PROVE  /\ FlattenSeq(s) \in Seq(S)
         /\ FlattenSeq(s \o t) = FlattenSeq(s) \o FlattenSeq(t)
<1>a. \A x, y, z \in Seq(S) : (x \o y) \o z = x \o (y \o z)
  BY ConcatAssociative
<1> DEFINE a == Len(s)
           b == Len(t)
           r == s \o t
<1>0. /\ a \in Nat /\ b \in Nat
      /\ \A i \in 1 .. b : t[i] \in Seq(S)
  BY LenProperties
<1>1. /\ r \in Seq(Seq(S)) /\ Len(r) = a + b
      /\ \A i \in 1 .. a + b : r[i] = IF i <= a THEN s[i] ELSE t[i - a]
  BY ConcatProperties
<1>2. PICK f : Flattens(f, s, S) /\ FlattenSeq(s) = f[a]
  BY FlattenExists
<1>3. PICK g : Flattens(g, t, S) /\ FlattenSeq(t) = g[b]
  BY FlattenExists
<1>4. /\ f \in [0 .. a -> Seq(S)] /\ f[0] = <<>>
      /\ \A i \in 1 .. a : f[i] = f[i - 1] \o s[i]
  BY <1>2 DEF Flattens
<1>5. /\ g \in [0 .. b -> Seq(S)] /\ g[0] = <<>>
      /\ \A i \in 1 .. b : g[i] = g[i - 1] \o t[i]
  BY <1>3 DEF Flattens
<1>6. f[a] \in Seq(S)
  BY <1>0, <1>4
<1> HIDE DEF a, b, r
<1> DEFINE h == [i \in 0 .. a + b |-> IF i <= a THEN f[i] ELSE f[a] \o g[i - a]]
<1>7. ASSUME NEW i \in 0 .. a + b PROVE h[i] \in Seq(S)
  <2>1. CASE i <= a
    BY <1>0, <1>4, <2>1
  <2>2. CASE ~(i <= a)
    <3>1. i - a \in 0 .. b
      BY <1>0, <2>2
    <3>2. g[i - a] \in Seq(S)
      BY <1>5, <3>1
    <3>3. QED
      BY <1>6, <2>2, <3>2, ConcatProperties
  <2>3. QED
    BY <2>1, <2>2
<1>8. ASSUME NEW i \in 1 .. a + b PROVE h[i] = h[i - 1] \o r[i]
  <2>0. i \in 0 .. a + b /\ i - 1 \in 0 .. a + b
    BY <1>0
  <2>1. CASE i <= a
    <3>1. i \in 1 .. a /\ i - 1 <= a
      BY <1>0, <2>1
    <3>2. h[i] = f[i] /\ h[i - 1] = f[i - 1]
      BY <2>0, <2>1, <3>1
    <3>3. QED
      BY <1>1, <1>4, <2>1, <3>1, <3>2
  <2>2. CASE ~(i <= a)
    <3> DEFINE j == i - a
    <3>1. j \in 1 .. b /\ j - 1 \in 0 .. b /\ i - 1 - a = j - 1
      BY <1>0, <2>2
    <3>2. h[i] = f[a] \o g[j] /\ r[i] = t[j]
      BY <1>1, <2>0, <2>2
    <3>3. h[i - 1] = f[a] \o g[j - 1]
      <4>1. CASE i - 1 <= a
        <5>1. i - 1 = a /\ j - 1 = 0
          BY <1>0, <2>2, <4>1
        <5>2. h[i - 1] = f[a]
          BY <2>0, <4>1, <5>1
        <5>3. f[a] \o <<>> = f[a]
          BY <1>6, ConcatEmptySeq
        <5> HIDE DEF h, j
        <5>4. QED
          BY <1>5, <5>1, <5>2, <5>3
      <4>2. CASE ~(i - 1 <= a)
        BY <2>0, <3>1, <4>2
      <4>3. QED
        BY <4>1, <4>2
    <3> HIDE DEF h, j
    <3>4. g[j] = g[j - 1] \o t[j] /\ g[j - 1] \in Seq(S) /\ t[j] \in Seq(S)
      BY <1>0, <1>5, <3>1
    <3>5. f[a] \o (g[j - 1] \o t[j]) = (f[a] \o g[j - 1]) \o t[j]
      <4>1. g[j - 1] \in Seq(S) /\ t[j] \in Seq(S)
        BY <3>4
      <4>2. QED
        BY <1>6, <1>a, <4>1
    <3>6. QED
      BY <3>2, <3>3, <3>4, <3>5
  <2>3. QED
    BY <2>1, <2>2
<1>9. h[0] = <<>>
  BY <1>0, <1>4
<1>10. h \in [0 .. a + b -> Seq(S)]
  BY <1>7
<1>11. h[a + b] = f[a] \o g[b]
  <2>1. CASE b = 0
    <3>1. a + b = a /\ f[a] \o <<>> = f[a]
      BY <1>0, <1>6, <2>1, ConcatEmptySeq
    <3>2. h[a + b] = f[a]
      BY <1>0, <3>1
    <3> HIDE DEF h
    <3>3. QED
      BY <1>5, <2>1, <3>1, <3>2
  <2>2. CASE b # 0
    <3>1. a + b \in 0 .. a + b /\ ~(a + b <= a) /\ (a + b) - a = b
      BY <1>0, <2>2
    <3>2. QED
      BY <3>1
  <2>3. QED
    BY <2>1, <2>2
<1> HIDE DEF h
<1>12. Flattens(h, r, S)
  BY <1>1, <1>8, <1>9, <1>10 DEF Flattens
<1>13. FlattenSeq(r) = h[a + b]
  BY <1>1, <1>12, FlattenUnique
<1>14. QED
  BY <1>2, <1>3, <1>6, <1>11, <1>13 DEF r

\* One sequence, flattened, is that sequence.
LEMMA FlattenOne ==
  ASSUME NEW S, NEW e \in Seq(S)
  PROVE  <<e>> \in Seq(Seq(S)) /\ FlattenSeq(<<e>>) = e
<1> DEFINE s == <<e>>
<1>1. s \in Seq(Seq(S)) /\ Len(s) = 1 /\ s[1] = e
  OBVIOUS
<1> DEFINE f == [i \in 0 .. 1 |-> IF i = 0 THEN <<>> ELSE e]
<1>2. f[0] = <<>> /\ f[1] = e
  OBVIOUS
<1>3. f[0] \o e = e
  BY <1>2, ConcatEmptySeq
<1>4. f \in [0 .. 1 -> Seq(S)]
  OBVIOUS
<1> HIDE DEF s, f
<1>5. ASSUME NEW i \in 1 .. 1 PROVE f[i] = f[i - 1] \o s[i]
  <2>1. i = 1 /\ i - 1 = 0
    OBVIOUS
  <2>2. QED
    BY <1>1, <1>2, <1>3, <2>1
<1>6. Flattens(f, s, S)
  BY <1>1, <1>2, <1>4, <1>5 DEF Flattens
<1>7. QED
  BY <1>1, <1>2, <1>6, FlattenUnique DEF s

\* What is behind a part that is known, and what is between two.
LEMMA BehindPart ==
  ASSUME NEW S, NEW a \in Seq(S), NEW b \in Seq(S), NEW c \in Seq(S)
  PROVE  /\ SubSeq(a \o b, Len(a) + 1, Len(a \o b)) = b
         /\ SubSeq(a \o (b \o c), Len(a) + 1, Len(a) + Len(b)) = b
<1>0. Len(a) \in Nat /\ Len(b) \in Nat /\ Len(c) \in Nat
      /\ \A i \in 1 .. Len(b) : b[i] \in S
  BY LenProperties
<1>1. ASSUME NEW d \in Seq(S), NEW n \in Int, n = Len(a) + Len(b), n <= Len(d),
             \A i \in 1 .. Len(b) : d[Len(a) + i] = b[i]
      PROVE  SubSeq(d, Len(a) + 1, n) = b
  <2> DEFINE m == Len(a) + 1
             e == SubSeq(d, m, n)
  <2>1. \A i \in m .. n : d[i] \in S
    <3>1. Len(d) \in Nat /\ \A i \in 1 .. Len(d) : d[i] \in S
      BY LenProperties
    <3>2. QED
      BY <1>0, <1>1, <3>1
  <2>2. m \in Int /\ n \in Int /\ n - m + 1 = Len(b)
    BY <1>0, <1>1
  <2>3. /\ e \in Seq(S) /\ Len(e) = IF m <= n THEN n - m + 1 ELSE 0
        /\ \A i \in 1 .. n - m + 1 : e[i] = d[m + i - 1]
    <3> HIDE DEF m
    <3>1. QED
      BY <2>1, <2>2, SubSeqProperties
  <2>4. Len(e) = Len(b)
    BY <1>0, <1>1, <2>2, <2>3
  <2>5. \A i \in 1 .. Len(b) : e[i] = b[i]
    <3> SUFFICES ASSUME NEW i \in 1 .. Len(b) PROVE e[i] = b[i]
      OBVIOUS
    <3>1. e[i] = d[m + i - 1] /\ m + i - 1 = Len(a) + i
      BY <1>0, <2>2, <2>3
    <3>2. QED
      BY <1>1, <3>1
  <2> HIDE DEF e
  <2>6. QED
    BY <2>3, <2>4, <2>5, SeqEqual DEF e
<1>2. /\ a \o b \in Seq(S) /\ Len(a \o b) = Len(a) + Len(b)
      /\ \A i \in 1 .. Len(b) : (a \o b)[Len(a) + i] = b[i]
  <2>1. /\ a \o b \in Seq(S) /\ Len(a \o b) = Len(a) + Len(b)
        /\ \A i \in 1 .. Len(a) + Len(b) :
              (a \o b)[i] = IF i <= Len(a) THEN a[i] ELSE b[i - Len(a)]
    BY ConcatProperties
  <2>2. QED
    BY <1>0, <2>1
<1>3. /\ b \o c \in Seq(S) /\ Len(b \o c) = Len(b) + Len(c)
      /\ \A i \in 1 .. Len(b) + Len(c) :
            (b \o c)[i] = IF i <= Len(b) THEN b[i] ELSE c[i - Len(b)]
  BY ConcatProperties
<1>4. /\ a \o (b \o c) \in Seq(S) /\ Len(a \o (b \o c)) = Len(a) + (Len(b) + Len(c))
      /\ \A i \in 1 .. Len(b) : (a \o (b \o c))[Len(a) + i] = b[i]
  <2> DEFINE d == b \o c
  <2>1. d \in Seq(S) /\ Len(d) = Len(b) + Len(c) /\ \A i \in 1 .. Len(b) : d[i] = b[i]
    BY <1>0, <1>3
  <2> HIDE DEF d
  <2>2. /\ a \o d \in Seq(S) /\ Len(a \o d) = Len(a) + Len(d)
        /\ \A i \in 1 .. Len(a) + Len(d) :
              (a \o d)[i] = IF i <= Len(a) THEN a[i] ELSE d[i - Len(a)]
    <3>1. d \in Seq(S)
      BY <2>1
    <3>2. QED
      BY <3>1, ConcatProperties
  <2>3. QED
    BY <1>0, <2>1, <2>2 DEF d
<1>5. SubSeq(a \o b, Len(a) + 1, Len(a \o b)) = b
  <2> DEFINE d == a \o b
  <2>1. d \in Seq(S) /\ Len(d) = Len(a) + Len(b) /\ \A i \in 1 .. Len(b) : d[Len(a) + i] = b[i]
    BY <1>2
  <2> HIDE DEF d
  <2>2. SubSeq(d, Len(a) + 1, Len(d)) = b
    <3>1. Len(d) \in Int /\ Len(d) <= Len(d)
      BY <1>0, <2>1
    <3>2. QED
      BY <1>1, <2>1, <3>1
  <2>3. QED
    BY <2>2 DEF d
<1>6. SubSeq(a \o (b \o c), Len(a) + 1, Len(a) + Len(b)) = b
  <2> DEFINE d == a \o (b \o c)
  <2>1. /\ d \in Seq(S) /\ Len(d) = Len(a) + (Len(b) + Len(c))
        /\ \A i \in 1 .. Len(b) : d[Len(a) + i] = b[i]
    BY <1>4
  <2> HIDE DEF d
  <2>2. SubSeq(d, Len(a) + 1, Len(a) + Len(b)) = b
    BY <1>0, <1>1, <2>1
  <2>3. QED
    BY <2>2 DEF d
<1>7. QED
  BY <1>5, <1>6

\* Short concatenations.
LEMMA Glued ==
  ASSUME NEW a, NEW b, NEW c
  PROVE  <<a>> \o <<b>> = <<a, b>> /\ <<a>> \o <<b, c>> = <<a, b, c>>
<1> DEFINE S == {a, b, c}
<1>1. <<a>> \in Seq(S) /\ <<b>> \in Seq(S) /\ <<b, c>> \in Seq(S)
      /\ <<a, b>> \in Seq(S) /\ <<a, b, c>> \in Seq(S)
  OBVIOUS
<1>2. /\ Len(<<a>>) = 1 /\ <<a>>[1] = a
      /\ Len(<<b>>) = 1 /\ <<b>>[1] = b
      /\ Len(<<b, c>>) = 2 /\ <<b, c>>[1] = b /\ <<b, c>>[2] = c
      /\ Len(<<a, b>>) = 2 /\ <<a, b>>[1] = a /\ <<a, b>>[2] = b
      /\ Len(<<a, b, c>>) = 3 /\ <<a, b, c>>[1] = a /\ <<a, b, c>>[2] = b /\ <<a, b, c>>[3] = c
  OBVIOUS
<1> HIDE DEF S
<1>3. <<a>> \o <<b>> = <<a, b>>
  <2> DEFINE x == <<a>>
             y == <<b>>
             z == <<a, b>>
  <2>1. x \in Seq(S) /\ y \in Seq(S) /\ z \in Seq(S) /\ Len(x) = 1 /\ Len(y) = 1 /\ Len(z) = 2
        /\ z[1] = x[1] /\ z[2] = y[1]
    BY <1>1, <1>2
  <2> HIDE DEF x, y, z
  <2>2. x \o y \in Seq(S) /\ Len(x \o y) = Len(x) + Len(y)
        /\ \A i \in 1 .. Len(x) + Len(y) : (x \o y)[i] = IF i <= Len(x) THEN x[i] ELSE y[i - Len(x)]
    BY <2>1, ConcatProperties
  <2>3. \A i \in 1 .. Len(z) : (x \o y)[i] = z[i]
    BY <2>1, <2>2
  <2>4. x \o y = z
    BY <2>1, <2>2, <2>3, SeqEqual
  <2>5. QED
    BY <2>4 DEF x, y, z
<1>4. <<a>> \o <<b, c>> = <<a, b, c>>
  <2> DEFINE x == <<a>>
             y == <<b, c>>
             z == <<a, b, c>>
  <2>1. x \in Seq(S) /\ y \in Seq(S) /\ z \in Seq(S) /\ Len(x) = 1 /\ Len(y) = 2 /\ Len(z) = 3
        /\ z[1] = x[1] /\ z[2] = y[1] /\ z[3] = y[2]
    BY <1>1, <1>2
  <2> HIDE DEF x, y, z
  <2>2. x \o y \in Seq(S) /\ Len(x \o y) = Len(x) + Len(y)
        /\ \A i \in 1 .. Len(x) + Len(y) : (x \o y)[i] = IF i <= Len(x) THEN x[i] ELSE y[i - Len(x)]
    BY <2>1, ConcatProperties
  <2>3. \A i \in 1 .. Len(z) : (x \o y)[i] = z[i]
    BY <2>1, <2>2
  <2>4. x \o y = z
    BY <2>1, <2>2, <2>3, SeqEqual
  <2>5. QED
    BY <2>4 DEF x, y, z
<1>5. QED
  BY <1>3, <1>4

\* The greater of two numbers.
LEMMA PairMax ==
  ASSUME NEW x \in Int, NEW y \in Int
  PROVE  Max({x, y}) = IF x >= y THEN x ELSE y
<1> DEFINE A == {x, y}
           m == IF x >= y THEN x ELSE y
<1>1. m \in A /\ \A c \in A : m >= c
  OBVIOUS
<1>2. \A c \in A : (\A d \in A : c >= d) => c = m
  OBVIOUS
<1> HIDE DEF A, m
<1>3. Max(A) = m
  BY <1>1, <1>2 DEF Max
<1>4. QED
  BY <1>3 DEF A, m

\* The lesser of two numbers.
LEMMA PairMin ==
  ASSUME NEW x \in Int, NEW y \in Int
  PROVE  Min({x, y}) = IF x <= y THEN x ELSE y
<1> DEFINE A == {x, y}
           m == IF x <= y THEN x ELSE y
<1>1. m \in A /\ \A c \in A : m <= c
  OBVIOUS
<1>2. \A c \in A : (\A d \in A : c <= d) => c = m
  OBVIOUS
<1> HIDE DEF A, m
<1>3. Min(A) = m
  BY <1>1, <1>2 DEF Min
<1>4. QED
  BY <1>3 DEF A, m
===============================================================================
