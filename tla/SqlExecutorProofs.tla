------------------------- MODULE SqlExecutorProofs -------------------------
(***************************************************************************)
(* That the statements say what the requests mean, and the answers what    *)
(* the statements did, for any table, requests and number of callers.      *)
(***************************************************************************)
EXTENDS SqlExecutor, SequenceTheorems, FiniteSetTheorems, WellFoundedInduction, TLAPS

----------------------------------------------------------------------------
(* Sequences one behind the other.                                         *)

LEMMA FirstOnes ==
  ASSUME NEW n \in Nat, NEW S, 0 \in S, \A k \in 0 .. n - 1 : k \in S => k + 1 \in S
  PROVE  \A k \in 0 .. n : k \in S
  <1> DEFINE T == {k \in Nat : k <= n /\ k \notin S}
  <1>1. SUFFICES ASSUME T # {} PROVE FALSE
    OBVIOUS
  <1>2. T \in SUBSET Nat
    OBVIOUS
  <1> HIDE DEF T
  <1>3. PICK m \in T : \A i \in T : <<i, m>> \notin OpToRel(<, Nat)
    BY <1>1, <1>2, WFMin, NatLessThanWellFounded, Zenon
  <1>4. \A i \in T : ~(i < m)
    BY <1>2, <1>3, Zenon DEF OpToRel
  <1> USE DEF T
  <1>5. m # 0
    OBVIOUS
  <1>6. m - 1 \in 0 .. n - 1 /\ m - 1 \notin T
    BY <1>4, <1>5
  <1> QED
    BY <1>6

LEMMA ASequence ==
  ASSUME NEW n \in Nat, NEW S, NEW f \in [1 .. n -> S]
  PROVE  f \in Seq(S) /\ Len(f) = n /\ DOMAIN f = 1 .. n
  OBVIOUS

\* upTo exists: it is the table built one sequence at a time.
LEMMA ConcatIs ==
  ASSUME NEW seqs, Len(seqs) \in Nat
  PROVE  /\ Concat(seqs, 0) = <<>>
         /\ \A k \in 0 .. Len(seqs) - 1 : Concat(seqs, k + 1) = Concat(seqs, k) \o seqs[k + 1]
  <1> DEFINE n == Len(seqs)
             Is(f, m) == f = [k \in 0 .. m |-> IF k = 0 THEN <<>> ELSE f[k - 1] \o seqs[k]]
             S == {m \in Nat : \E f : Is(f, m)}
  <1> HIDE DEF n
  <1>n. n \in Nat
    BY DEF n
  <1>1. 0 \in S
    <2> DEFINE f == [k \in 0 .. 0 |-> <<>>]
    <2>1. Is(f, 0)
      OBVIOUS
    <2> QED
      BY <2>1, Zenon
  <1>2. ASSUME NEW m \in 0 .. n - 1, m \in S PROVE m + 1 \in S
    <2>1. PICK f : Is(f, m)
      BY <1>2
    <2> DEFINE g == [k \in 0 .. m + 1 |-> IF k = m + 1 THEN f[m] \o seqs[m + 1] ELSE f[k]]
    <2>2. \A k \in 0 .. m : g[k] = f[k]
      BY <1>n
    <2>3. \A k \in 0 .. m + 1 : g[k] = IF k = 0 THEN <<>> ELSE g[k - 1] \o seqs[k]
      <3>1. ASSUME NEW k \in 0 .. m PROVE g[k] = IF k = 0 THEN <<>> ELSE g[k - 1] \o seqs[k]
        <4>1. f[k] = IF k = 0 THEN <<>> ELSE f[k - 1] \o seqs[k]
          BY <2>1
        <4>2. k # 0 => k - 1 \in 0 .. m
          BY <1>n
        <4> QED
          BY <2>2, <4>1, <4>2
      <3>2. g[m + 1] = g[m] \o seqs[m + 1] /\ m + 1 # 0 /\ m + 1 - 1 = m
        BY <1>n, <2>2
      <3>3. \A k \in 0 .. m + 1 : k \in 0 .. m \/ k = m + 1
        BY <1>n
      <3> QED
        <4> HIDE DEF g
        <4> SUFFICES ASSUME NEW k \in 0 .. m + 1 PROVE g[k] = IF k = 0 THEN <<>> ELSE g[k - 1] \o seqs[k]
          OBVIOUS
        <4>1. CASE k \in 0 .. m
          BY <3>1, <4>1
        <4>2. CASE k = m + 1
          <5>1. k # 0 /\ k - 1 = m
            BY <3>2, <4>2
          <5>2. g[k] = g[k - 1] \o seqs[k]
            BY <3>2, <4>2, <5>1, Zenon
          <5> QED
            BY <5>1, <5>2, Zenon
        <4> QED
          BY <3>3, <4>1, <4>2
    <2>4. Is(g, m + 1)
      BY <2>3
    <2>5. m + 1 \in Nat
      BY <1>n
    <2> QED
      BY <2>4, <2>5, Zenon
  <1>3. n \in S
    <2> HIDE DEF S
    <2>1. \A k \in 0 .. n : k \in S
      BY <1>n, <1>1, <1>2, FirstOnes, Zenon
    <2> QED
      BY <1>n, <2>1
  <1> DEFINE upTo == CHOOSE f : Is(f, n)
  <1>4. Is(upTo, n)
    BY <1>3
  <1>5. \A k : Concat(seqs, k) = upTo[k]
    BY DEF Concat, n
  <1> HIDE DEF upTo
  <1>6. /\ upTo[0] = <<>>
        /\ \A k \in 0 .. n - 1 : upTo[k + 1] = upTo[k] \o seqs[k + 1]
    <2>1. upTo = [k \in 0 .. n |-> IF k = 0 THEN <<>> ELSE upTo[k - 1] \o seqs[k]]
      BY <1>4
    <2> HIDE DEF Is
    <2>2. \A k \in 0 .. n : upTo[k] = IF k = 0 THEN <<>> ELSE upTo[k - 1] \o seqs[k]
      BY <2>1
    <2>3. \A k \in 0 .. n - 1 : k + 1 \in 0 .. n /\ k + 1 # 0 /\ (k + 1) - 1 = k
      BY <1>n
    <2>4. 0 \in 0 .. n
      BY <1>n
    <2> QED
      BY <2>2, <2>3, <2>4
  <1> QED
    BY <1>5, <1>6 DEF n

LEMMA ConcatTyped ==
  ASSUME NEW V, NEW seqs \in Seq(Seq(V))
  PROVE  \A k \in 0 .. Len(seqs) : Concat(seqs, k) \in Seq(V) /\ Len(Concat(seqs, k)) \in Nat
  <1> DEFINE S == {k \in Nat : Concat(seqs, k) \in Seq(V)}
  <1>n. Len(seqs) \in Nat
    BY LenProperties
  <1>c. /\ Concat(seqs, 0) = <<>>
        /\ \A k \in 0 .. Len(seqs) - 1 : Concat(seqs, k + 1) = Concat(seqs, k) \o seqs[k + 1]
    BY <1>n, ConcatIs, Zenon
  <1>1. 0 \in S
    BY <1>c, EmptySeq
  <1>2. \A k \in 0 .. Len(seqs) - 1 : k \in S => k + 1 \in S
    <2> SUFFICES ASSUME NEW k \in 0 .. Len(seqs) - 1, k \in S PROVE k + 1 \in S
      OBVIOUS
    <2>1. Concat(seqs, k + 1) = Concat(seqs, k) \o seqs[k + 1]
      BY <1>n, <1>c
    <2>2. seqs[k + 1] \in Seq(V) /\ Concat(seqs, k) \in Seq(V)
      BY <1>n
    <2>3. Concat(seqs, k + 1) \in Seq(V)
      BY <2>1, <2>2, ConcatProperties
    <2> QED
      BY <2>3, <1>n
  <1> HIDE DEF S
  <1>3. \A k \in 0 .. Len(seqs) : k \in S
    BY <1>n, <1>1, <1>2, FirstOnes, Zenon
  <1> QED
    BY <1>3 DEF S

\* Where the j-th element of the i-th sequence comes to stand, in Concat up to any later one.
LEMMA ConcatPlaces ==
  ASSUME NEW V, NEW seqs \in Seq(Seq(V)), NEW i \in 1 .. Len(seqs), NEW j \in 1 .. Len(seqs[i])
  PROVE  \A k \in i .. Len(seqs) :
            /\ Len(Concat(seqs, i - 1)) + j \in 1 .. Len(Concat(seqs, k))
            /\ Concat(seqs, k)[Len(Concat(seqs, i - 1)) + j] = seqs[i][j]
  <1> DEFINE b == Len(Concat(seqs, i - 1))
             Good(k) == b + j \in 1 .. Len(Concat(seqs, k)) /\ Concat(seqs, k)[b + j] = seqs[i][j]
             S == {k \in Nat : k < i \/ Good(k)}
  <1>n. Len(seqs) \in Nat
    BY LenProperties
  <1>c. /\ Concat(seqs, 0) = <<>>
        /\ \A k \in 0 .. Len(seqs) - 1 : Concat(seqs, k + 1) = Concat(seqs, k) \o seqs[k + 1]
    BY <1>n, ConcatIs, Zenon
  <1>1. 0 \in S
    OBVIOUS
  <1>2. \A k \in 0 .. Len(seqs) - 1 : k \in S => k + 1 \in S
    <2> SUFFICES ASSUME NEW k \in 0 .. Len(seqs) - 1, k \in S, k + 1 >= i PROVE Good(k + 1)
      OBVIOUS
    <2> DEFINE s == Concat(seqs, k)
    <2>1. Concat(seqs, k + 1) = s \o seqs[k + 1]
      BY <1>n, <1>c
    <2>2. seqs[k + 1] \in Seq(V) /\ s \in Seq(V) /\ Len(s) \in Nat
      BY ConcatTyped
    <2>3. b \in Nat
      BY ConcatTyped
    <2>4. CASE k + 1 = i
      <3>0. i - 1 = k
        BY <2>4
      <3>1. b = Len(s)
        BY <3>0, Zenon
      <3> HIDE DEF s, b
      <3>2. /\ Len(s \o seqs[k + 1]) = Len(s) + Len(seqs[k + 1])
            /\ \A p \in 1 .. Len(s) + Len(seqs[k + 1]) :
                  (s \o seqs[k + 1])[p] = IF p <= Len(s) THEN s[p] ELSE seqs[k + 1][p - Len(s)]
        BY <2>2, ConcatProperties
      <3>3. Len(s) + j \in 1 .. Len(s) + Len(seqs[k + 1]) /\ ~(Len(s) + j <= Len(s)) /\ Len(s) + j - Len(s) = j
        BY <2>2, <2>4
      <3>4. (s \o seqs[k + 1])[Len(s) + j] = seqs[k + 1][j]
        BY <3>2, <3>3
      <3> QED
        BY <2>1, <2>4, <3>1, <3>2, <3>3, <3>4
    <2>5. CASE k + 1 # i
      <3>1. Good(k)
        BY <2>5
      <3> HIDE DEF s, b
      <3>2. b + j \in 1 .. Len(s) /\ s[b + j] = seqs[i][j]
        BY <3>1 DEF s
      <3>3. Concat(seqs, k + 1) \in Seq(V) /\ Len(Concat(seqs, k + 1)) = Len(s) + Len(seqs[k + 1])
            /\ \A p \in 1 .. Len(s) + Len(seqs[k + 1]) :
                  Concat(seqs, k + 1)[p] = IF p <= Len(s) THEN s[p] ELSE seqs[k + 1][p - Len(s)]
        <4> DEFINE u == seqs[k + 1]
        <4>1. Concat(seqs, k + 1) = s \o u /\ u \in Seq(V) /\ s \in Seq(V)
          BY <2>1, <2>2
        <4> HIDE DEF u
        <4>2. /\ s \o u \in Seq(V) /\ Len(s \o u) = Len(s) + Len(u)
              /\ \A p \in 1 .. Len(s) + Len(u) : (s \o u)[p] = IF p <= Len(s) THEN s[p] ELSE u[p - Len(s)]
          BY <4>1, ConcatProperties, Zenon
        <4> QED
          BY <4>1, <4>2, Zenon DEF u
      <3>4. b + j \in 1 .. Len(s) + Len(seqs[k + 1]) /\ b + j <= Len(s)
        BY <2>2, <2>3, <3>2
      <3> QED
        BY <3>2, <3>3, <3>4
    <2> QED
      BY <2>4, <2>5
  <1> HIDE DEF S
  <1>3. \A k \in 0 .. Len(seqs) : k \in S
    BY <1>n, <1>1, <1>2, FirstOnes, Zenon
  <1>4. \A k \in i .. Len(seqs) : k \in 0 .. Len(seqs) /\ ~(k < i)
    BY <1>n
  <1> HIDE DEF Good
  <1>5. \A k \in i .. Len(seqs) : Good(k)
    BY <1>3, <1>4, Zenon DEF S
  <1> QED
    BY <1>5, Zenon DEF Good

\* Nothing else stands there.
LEMMA ConcatOrigin ==
  ASSUME NEW V, NEW seqs \in Seq(Seq(V))
  PROVE  \A k \in 0 .. Len(seqs) : \A n \in 1 .. Len(Concat(seqs, k)) :
            \E i \in 1 .. k : \E j \in 1 .. Len(seqs[i]) : n = Len(Concat(seqs, i - 1)) + j
  <1> DEFINE Good(k) == \A n \in 1 .. Len(Concat(seqs, k)) :
                \E i \in 1 .. k : \E j \in 1 .. Len(seqs[i]) : n = Len(Concat(seqs, i - 1)) + j
             S == {k \in Nat : Good(k)}
  <1>n. Len(seqs) \in Nat
    BY LenProperties
  <1>c. /\ Concat(seqs, 0) = <<>>
        /\ \A k \in 0 .. Len(seqs) - 1 : Concat(seqs, k + 1) = Concat(seqs, k) \o seqs[k + 1]
    BY <1>n, ConcatIs, Zenon
  <1>1. 0 \in S
    BY <1>n, <1>c
  <1>2. \A k \in 0 .. Len(seqs) - 1 : k \in S => k + 1 \in S
    <2> SUFFICES ASSUME NEW k \in 0 .. Len(seqs) - 1, Good(k) PROVE Good(k + 1)
      <3> HIDE DEF Good
      <3> QED
        BY <1>n
    <2> SUFFICES ASSUME NEW n \in 1 .. Len(Concat(seqs, k + 1))
                 PROVE  \E i \in 1 .. k + 1 : \E j \in 1 .. Len(seqs[i]) : n = Len(Concat(seqs, i - 1)) + j
      OBVIOUS
    <2> DEFINE s == Concat(seqs, k)
    <2>1. Concat(seqs, k + 1) = s \o seqs[k + 1]
      BY <1>n, <1>c
    <2>2. seqs[k + 1] \in Seq(V) /\ s \in Seq(V) /\ Len(s) \in Nat
      BY ConcatTyped
    <2>3. CASE n <= Len(s)
      <3>1. n \in 1 .. Len(s)
        BY <2>2, <2>3
      <3>2. PICK i \in 1 .. k : \E j \in 1 .. Len(seqs[i]) : n = Len(Concat(seqs, i - 1)) + j
        BY <3>1
      <3> QED
        BY <3>2
    <2>4. CASE n > Len(s)
      <3> DEFINE j == n - Len(s)
      <3> HIDE DEF s
      <3>1. j \in 1 .. Len(seqs[k + 1]) /\ n = Len(s) + j
        BY <2>1, <2>2, <2>4
      <3>2. k + 1 \in 1 .. k + 1 /\ (k + 1) - 1 = k
        OBVIOUS
      <3> QED
        BY <3>1, <3>2 DEF s
    <2> QED
      BY <2>2, <2>3, <2>4
  <1> HIDE DEF S
  <1>3. \A k \in 0 .. Len(seqs) : k \in S
    BY <1>n, <1>1, <1>2, FirstOnes, Zenon
  <1> QED
    BY <1>3 DEF S

\* How far they reach depends on the lengths alone.
LEMMA ConcatLengths ==
  ASSUME NEW V, NEW s \in Seq(Seq(V)), NEW W, NEW t \in Seq(Seq(W)), Len(s) = Len(t),
         \A k \in 1 .. Len(s) : Len(s[k]) = Len(t[k])
  PROVE  \A k \in 0 .. Len(s) : Len(Concat(s, k)) = Len(Concat(t, k))
  <1> DEFINE S == {k \in Nat : Len(Concat(s, k)) = Len(Concat(t, k))}
  <1>n. Len(s) \in Nat /\ Len(t) \in Nat
    BY LenProperties
  <1>c. /\ Concat(s, 0) = <<>> /\ Concat(t, 0) = <<>>
        /\ \A k \in 0 .. Len(s) - 1 : Concat(s, k + 1) = Concat(s, k) \o s[k + 1]
        /\ \A k \in 0 .. Len(t) - 1 : Concat(t, k + 1) = Concat(t, k) \o t[k + 1]
    BY <1>n, ConcatIs, Zenon
  <1>1. 0 \in S
    BY <1>n, <1>c
  <1>2. \A k \in 0 .. Len(s) - 1 : k \in S => k + 1 \in S
    <2> SUFFICES ASSUME NEW k \in 0 .. Len(s) - 1, k \in S PROVE k + 1 \in S
      OBVIOUS
    <2>1. Concat(s, k + 1) = Concat(s, k) \o s[k + 1] /\ Concat(t, k + 1) = Concat(t, k) \o t[k + 1]
      BY <1>n, <1>c
    <2>2. /\ Concat(s, k) \in Seq(V) /\ s[k + 1] \in Seq(V)
          /\ Concat(t, k) \in Seq(W) /\ t[k + 1] \in Seq(W)
      BY ConcatTyped
    <2>3. /\ Len(Concat(s, k + 1)) = Len(Concat(s, k)) + Len(s[k + 1])
          /\ Len(Concat(t, k + 1)) = Len(Concat(t, k)) + Len(t[k + 1])
      BY <2>1, <2>2
    <2> QED
      BY <2>3
  <1> HIDE DEF S
  <1>3. \A k \in 0 .. Len(s) : k \in S
    BY <1>n, <1>1, <1>2, FirstOnes, Zenon
  <1> QED
    BY <1>3 DEF S

LEMMA IsSeqOf ==
  ASSUME NEW V, NEW s \in Seq(V)
  PROVE  IsSeq(s)
  <1>1. s \in [1 .. Len(s) -> ToSet(s)] /\ Len(s) \in Nat
    BY LenProperties DEF ToSet
  <1> QED
    BY <1>1, ASequence DEF IsSeq

LEMMA SeqIs ==
  ASSUME NEW s, IsSeq(s)
  PROVE  Len(s) \in Nat /\ DOMAIN s = 1 .. Len(s) /\ \A i \in 1 .. Len(s) : s[i] \in ToSet(s)
  BY LenProperties DEF IsSeq, ToSet

LEMMA SeqOfSeqs ==
  ASSUME NEW s, IsSeq(s), \A i \in DOMAIN s : IsSeq(s[i])
  PROVE  s \in Seq(Seq(UNION {ToSet(s[i]) : i \in DOMAIN s}))
  <1> DEFINE X == UNION {ToSet(s[i]) : i \in DOMAIN s}
  <1>1. Len(s) \in Nat /\ DOMAIN s = 1 .. Len(s) /\ s \in [1 .. Len(s) -> ToSet(s)]
    BY LenProperties DEF IsSeq
  <1>2. ASSUME NEW i \in 1 .. Len(s) PROVE s[i] \in Seq(X)
    <2>1. s[i] \in Seq(ToSet(s[i]))
      BY <1>1 DEF IsSeq
    <2>2. ToSet(s[i]) \subseteq X
      BY <1>1
    <2> QED
      BY <2>1, <2>2, SeqMonotonic, Zenon
  <1> HIDE DEF X
  <1>3. s \in [1 .. Len(s) -> Seq(X)]
    BY <1>1, <1>2
  <1>4. s \in Seq(Seq(X))
    BY <1>1, <1>3, ASequence, Zenon
  <1> QED
    BY <1>4 DEF X

\* What Flat puts together are the elements of its sequences.
LEMMA FlatHolds ==
  ASSUME NEW s, IsSeq(s), \A i \in DOMAIN s : IsSeq(s[i])
  PROVE  /\ IsSeq(Flat(s))
         /\ \A n \in DOMAIN Flat(s) : \E i \in DOMAIN s : \E j \in DOMAIN s[i] : Flat(s)[n] = s[i][j]
         /\ \A i \in DOMAIN s : \A j \in DOMAIN s[i] : \E n \in DOMAIN Flat(s) : Flat(s)[n] = s[i][j]
  <1> DEFINE V == UNION {ToSet(s[i]) : i \in DOMAIN s}
  <1>1. s \in Seq(Seq(V))
    BY SeqOfSeqs, Zenon
  <1> HIDE DEF V
  <1>2. Len(s) \in Nat /\ DOMAIN s = 1 .. Len(s) /\ Len(s) \in 0 .. Len(s)
    BY SeqIs
  <1>3. \A i \in 1 .. Len(s) : DOMAIN s[i] = 1 .. Len(s[i]) /\ Len(s[i]) \in Nat
    BY <1>2, SeqIs
  <1>4. Flat(s) \in Seq(V) /\ DOMAIN Flat(s) = 1 .. Len(Flat(s)) /\ Len(Flat(s)) \in Nat
    BY <1>1, <1>2, ConcatTyped, LenProperties DEF Flat
  <1>5. ASSUME NEW i \in 1 .. Len(s), NEW j \in 1 .. Len(s[i])
        PROVE  /\ Len(Concat(s, i - 1)) + j \in 1 .. Len(Flat(s))
               /\ Flat(s)[Len(Concat(s, i - 1)) + j] = s[i][j]
    <2>1. Len(s) \in i .. Len(s)
      BY <1>2
    <2> QED
      BY <1>1, <2>1, ConcatPlaces, Zenon DEF Flat
  <1>6. ASSUME NEW n \in 1 .. Len(Flat(s))
        PROVE  \E i \in 1 .. Len(s) : \E j \in 1 .. Len(s[i]) : Flat(s)[n] = s[i][j]
    <2>1. PICK i \in 1 .. Len(s) : \E j \in 1 .. Len(s[i]) : n = Len(Concat(s, i - 1)) + j
      BY <1>1, <1>2, ConcatOrigin, Zenon DEF Flat
    <2> QED
      BY <1>5, <2>1, Zenon
  <1>7. ASSUME NEW n \in DOMAIN Flat(s)
        PROVE  \E i \in DOMAIN s : \E j \in DOMAIN s[i] : Flat(s)[n] = s[i][j]
    <2>1. PICK i \in 1 .. Len(s) : \E j \in 1 .. Len(s[i]) : Flat(s)[n] = s[i][j]
      BY <1>4, <1>6, Zenon
    <2>2. i \in DOMAIN s /\ DOMAIN s[i] = 1 .. Len(s[i])
      BY <1>2, <1>3, Zenon
    <2> QED
      BY <2>1, <2>2, Zenon
  <1>8. ASSUME NEW i \in DOMAIN s, NEW j \in DOMAIN s[i]
        PROVE  \E n \in DOMAIN Flat(s) : Flat(s)[n] = s[i][j]
    <2>1. i \in 1 .. Len(s)
      BY <1>2, Zenon
    <2>2. j \in 1 .. Len(s[i])
      BY <1>3, <2>1, Zenon
    <2> QED
      BY <1>4, <1>5, <2>1, <2>2, Zenon
  <1>9. IsSeq(Flat(s))
    BY <1>4, IsSeqOf, Zenon
  <1> QED
    BY <1>7, <1>8, <1>9, Zenon

----------------------------------------------------------------------------
(* The text of a statement.                                                *)

\* What the counter is given: a sequence of parts, each with a sequence of values.
ArePartsOf(parts) == IsSeq(parts) /\ \A i \in DOMAIN parts : IsSeq(parts[i].vals)

\* The parts stand in the order of the text: those of the k-th place end at cuts[k].
InOrder(parts, cuts) ==
    /\ cuts \in [0 .. 5 -> 0 .. Len(parts)]
    /\ cuts[0] = 0 /\ cuts[5] = Len(parts)
    /\ \A k \in 0 .. 4 : cuts[k] <= cuts[k + 1]
    /\ \A k \in 0 .. 4 : \A i \in DOMAIN parts :
          parts[i].at = Order[k + 1] <=> cuts[k] < i /\ i <= cuts[k + 1]

LEMMA PlacedIs ==
  ASSUME NEW cl, IsSeq(cl), NEW place, NEW a \in 0 .. Len(cl), NEW b \in a .. Len(cl),
         \A i \in DOMAIN cl : cl[i].at = place <=> a < i /\ i <= b
  PROVE  Placed(cl, place) = SubSeq(cl, a + 1, b)
  <1> DEFINE V == ToSet(cl)
             m == Len(cl)
             pieces == [i \in DOMAIN cl |-> IF cl[i].at = place THEN <<cl[i]>> ELSE <<>>]
             upTo(n) == SubSeq(cl, a + 1, IF n <= b THEN n ELSE b)
             S == {n \in Nat : Concat(pieces, n) = upTo(n)}
  <1>m. m \in Nat /\ DOMAIN cl = 1 .. m /\ cl \in Seq(V) /\ \A i \in 1 .. m : cl[i] \in V
    BY SeqIs DEF IsSeq
  <1> HIDE DEF V, m
  <1>a. a \in Nat /\ b \in Nat /\ a <= b /\ b <= m
    BY <1>m DEF m
  <1>1. pieces \in [1 .. m -> Seq(V)]
    BY <1>m, EmptySeq
  <1>2. pieces \in Seq(Seq(V)) /\ Len(pieces) = m
    BY <1>1, <1>m, ASequence, Zenon
  <1>3. \A i \in 1 .. m : pieces[i] = IF a < i /\ i <= b THEN <<cl[i]>> ELSE <<>>
    BY <1>m
  <1> HIDE DEF pieces
  <1>c. /\ Concat(pieces, 0) = <<>>
        /\ \A n \in 0 .. m - 1 : Concat(pieces, n + 1) = Concat(pieces, n) \o pieces[n + 1]
    BY <1>2, <1>m, ConcatIs, Zenon
  <1>4. 0 \in S
    <2>1. upTo(0) = <<>>
      BY <1>a, SubSeqEmpty
    <2> QED
      BY <1>c, <2>1
  <1>5. \A n \in 0 .. m - 1 : n \in S => n + 1 \in S
    <2> SUFFICES ASSUME NEW n \in 0 .. m - 1, n \in S PROVE n + 1 \in S
      OBVIOUS
    <2>n. n \in Nat /\ n + 1 \in 1 .. m /\ n + 1 \in Nat
      BY <1>m
    <2>1. Concat(pieces, n + 1) = upTo(n) \o pieces[n + 1]
      BY <1>c
    <2>2. CASE a < n + 1 /\ n + 1 <= b
      <3>1. pieces[n + 1] = SubSeq(cl, n + 1, n + 1)
        <4>1. pieces[n + 1] = <<cl[n + 1]>>
          BY <1>3, <2>2, <2>n
        <4> QED
          BY <4>1, <1>m, <2>n
      <3>2. upTo(n) = SubSeq(cl, a + 1, n) /\ upTo(n + 1) = SubSeq(cl, a + 1, n + 1)
        BY <2>2, <2>n, <1>a
      <3>3. a + 1 \in 1 .. Len(cl) + 1 /\ n \in a + 1 - 1 .. Len(cl) /\ n + 1 \in n .. Len(cl)
        BY <1>a, <1>m, <2>2, <2>n DEF m
      <3>4. SubSeq(cl, a + 1, n) \o SubSeq(cl, n + 1, n + 1) = SubSeq(cl, a + 1, n + 1)
        <4> DEFINE p == a + 1
                   q == n + 1
        <4>1. cl \in Seq(V) /\ p \in 1 .. Len(cl) + 1 /\ n \in p - 1 .. Len(cl) /\ q \in n .. Len(cl)
          BY <1>m, <3>3
        <4> HIDE DEF p, q
        <4>2. SubSeq(cl, p, n) \o SubSeq(cl, n + 1, q) = SubSeq(cl, p, q)
          BY <4>1, ConcatAdjacentSubSeq, Zenon
        <4> QED
          BY <4>2 DEF p, q
      <3> QED
        BY <2>1, <2>n, <3>1, <3>2, <3>4
    <2>3. CASE ~(a < n + 1 /\ n + 1 <= b)
      <3>1. pieces[n + 1] = <<>>
        BY <1>3, <2>3, <2>n
      <3>2. upTo(n) \in Seq(V)
        <4> DEFINE e == IF n <= b THEN n ELSE b
        <4>1. e \in Int /\ a + 1 \in Int /\ \A i \in a + 1 .. e : cl[i] \in V
          BY <1>a, <1>m, <2>n
        <4> HIDE DEF e
        <4>2. SubSeq(cl, a + 1, e) \in Seq(V)
          BY <4>1, SubSeqProperties, Zenon
        <4> QED
          BY <4>2 DEF e
      <3>3. upTo(n + 1) = upTo(n)
        <4>1. CASE n + 1 <= a
          <5>1. upTo(n + 1) = <<>> /\ upTo(n) = <<>>
            BY <1>a, <2>n, <4>1, SubSeqEmpty
          <5> QED
            BY <5>1
        <4>2. CASE n + 1 > b
          BY <1>a, <2>n, <4>2
        <4> QED
          BY <1>a, <2>3, <2>n, <4>1, <4>2
      <3> HIDE DEF upTo
      <3>4. upTo(n) \o <<>> = upTo(n)
        BY <3>2, ConcatEmptySeq
      <3> QED
        BY <2>1, <2>n, <3>1, <3>3, <3>4
    <2> QED
      BY <2>2, <2>3
  <1> HIDE DEF S
  <1>6. \A n \in 0 .. m : n \in S
    BY <1>m, <1>4, <1>5, FirstOnes, Zenon
  <1>7. Concat(pieces, m) = upTo(m)
    BY <1>6, <1>m DEF S
  <1>8. upTo(m) = SubSeq(cl, a + 1, b)
    BY <1>a, <1>m
  <1> QED
    BY <1>2, <1>7, <1>8, Zenon DEF Placed, Flat, pieces

\* What is in order is the text as it stands.
LEMMA TextIs ==
  ASSUME NEW cl, IsSeq(cl), NEW cuts, InOrder(cl, cuts)
  PROVE  Text(cl) = cl
  <1> DEFINE V == ToSet(cl)
             m == Len(cl)
             pieces == [k \in DOMAIN Order |-> Placed(cl, Order[k])]
             S == {k \in Nat : Concat(pieces, k) = SubSeq(cl, 1, cuts[k])}
  <1>m. m \in Nat /\ DOMAIN cl = 1 .. m /\ cl \in Seq(V) /\ \A i \in 1 .. m : cl[i] \in V
    BY SeqIs DEF IsSeq
  <1>o. DOMAIN Order = 1 .. 5
    BY DEF Order
  <1> HIDE DEF V, m
  <1>1. ASSUME NEW k \in 0 .. 4
        PROVE  /\ cuts[k] \in 0 .. m /\ cuts[k + 1] \in cuts[k] .. m
               /\ pieces[k + 1] = SubSeq(cl, cuts[k] + 1, cuts[k + 1])
    <2>1. cuts[k] \in 0 .. m /\ cuts[k + 1] \in cuts[k] .. m
      BY <1>m DEF InOrder, m
    <2>2. \A i \in DOMAIN cl : cl[i].at = Order[k + 1] <=> cuts[k] < i /\ i <= cuts[k + 1]
      BY DEF InOrder
    <2>3. k + 1 \in 1 .. 5
      OBVIOUS
    <2>4. pieces[k + 1] = Placed(cl, Order[k + 1])
      BY <1>o, <2>3
    <2>5. Placed(cl, Order[k + 1]) = SubSeq(cl, cuts[k] + 1, cuts[k + 1])
      BY <2>1, <2>2, PlacedIs, Zenon DEF m
    <2> QED
      BY <2>1, <2>4, <2>5
  <1>2. Len(pieces) = 5
    BY <1>o
  <1> HIDE DEF pieces
  <1>c. /\ Concat(pieces, 0) = <<>>
        /\ \A k \in 0 .. 4 : Concat(pieces, k + 1) = Concat(pieces, k) \o pieces[k + 1]
    <2>1. Len(pieces) \in Nat /\ Len(pieces) - 1 = 4
      BY <1>2
    <2> QED
      BY <2>1, ConcatIs
  <1>3. 0 \in S
    <2>1. SubSeq(cl, 1, 0) = <<>>
      BY SubSeqEmpty
    <2> QED
      BY <1>c, <2>1 DEF InOrder
  <1>4. ASSUME NEW k \in 0 .. 4, k \in S PROVE k + 1 \in S
    <2>0. Concat(pieces, k) = SubSeq(cl, 1, cuts[k])
      BY <1>4
    <2>1. Concat(pieces, k + 1) = SubSeq(cl, 1, cuts[k]) \o SubSeq(cl, cuts[k] + 1, cuts[k + 1])
      BY <1>c, <1>1, <2>0
    <2>2. 1 \in 1 .. Len(cl) + 1 /\ cuts[k] \in 1 - 1 .. Len(cl) /\ cuts[k + 1] \in cuts[k] .. Len(cl)
      <3>1. cuts[k] \in 0 .. m /\ cuts[k + 1] \in cuts[k] .. m
        BY <1>1
      <3> QED
        BY <3>1, <1>m DEF m
    <2>3. SubSeq(cl, 1, cuts[k]) \o SubSeq(cl, cuts[k] + 1, cuts[k + 1]) = SubSeq(cl, 1, cuts[k + 1])
      BY <1>m, <2>2, ConcatAdjacentSubSeq, Zenon
    <2>4. Concat(pieces, k + 1) = SubSeq(cl, 1, cuts[k + 1])
      BY <2>1, <2>3, Zenon
    <2>5. k + 1 \in Nat
      OBVIOUS
    <2> QED
      BY <2>4, <2>5
  <1> HIDE DEF S
  <1>5. 5 \in S
    <2>1. 5 \in Nat /\ 5 - 1 = 4 /\ 5 \in 0 .. 5
      OBVIOUS
    <2>2. \A k \in 0 .. 5 - 1 : k \in S => k + 1 \in S
      BY <1>4, <2>1
    <2> QED
      BY <1>3, <2>1, <2>2, FirstOnes, Zenon
  <1>6. Concat(pieces, 5) = SubSeq(cl, 1, m)
    BY <1>5 DEF S, InOrder, m
  <1>7. SubSeq(cl, 1, m) = cl
    BY <1>m, SubSeqFull DEF m
  <1> QED
    BY <1>2, <1>6, <1>7 DEF Text, Flat, pieces

\* A statement whose parts are in order has them for clauses, and under either
\* dialect the values bound to a clause are the values of its part.
LEMMA StatementIs ==
  ASSUME NEW verb, NEW one, NEW parts, ArePartsOf(parts), NEW cuts, InOrder(parts, cuts),
         NEW st, st = Statement(verb, one, parts), NEW d \in Dialects
  PROVE  /\ DOMAIN st.clauses = DOMAIN parts
         /\ \A i \in DOMAIN parts :
               /\ st.clauses[i].at = parts[i].at
               /\ st.clauses[i].col = parts[i].col
               /\ st.clauses[i].op = parts[i].op
               /\ Bound(d, st, i) = parts[i].vals
  <1> DEFINE m == Len(parts)
             cl == Numbered(parts)
             vals == Values(parts)
             marks == [i \in DOMAIN cl |-> cl[i].marks]
             X == UNION {ToSet(vals[i]) : i \in DOMAIN vals}
  <1>1. m \in Nat /\ DOMAIN parts = 1 .. m
    BY SeqIs DEF ArePartsOf
  <1>2. /\ vals = [i \in 1 .. m |-> parts[i].vals]
        /\ vals \in Seq(Seq(X)) /\ Len(vals) = m
    <2>1. vals = [i \in 1 .. m |-> parts[i].vals]
      BY <1>1 DEF Values
    <2>2. vals \in [1 .. m -> ToSet(vals)]
      BY <2>1 DEF ToSet
    <2>3. IsSeq(vals) /\ Len(vals) = m /\ DOMAIN vals = 1 .. m
      BY <1>1, <2>2, ASequence, Zenon DEF IsSeq
    <2>4. \A i \in DOMAIN vals : IsSeq(vals[i])
      BY <1>1, <2>1 DEF ArePartsOf
    <2> QED
      BY <2>1, <2>3, <2>4, SeqOfSeqs, Zenon
  <1> HIDE DEF m, vals, X
  <1>3. \A i \in 1 .. m : Len(parts[i].vals) \in Nat /\ DOMAIN parts[i].vals = 1 .. Len(parts[i].vals)
    BY <1>1, SeqIs DEF ArePartsOf
  <1> DEFINE before(i) == Len(Concat(vals, i - 1))
  <1>4. \A i \in 1 .. m : before(i) \in Nat
    BY <1>1, <1>2, ConcatTyped
  <1>5. /\ DOMAIN cl = 1 .. m
        /\ \A i \in 1 .. m :
              /\ cl[i].at = parts[i].at /\ cl[i].col = parts[i].col /\ cl[i].op = parts[i].op
              /\ cl[i].marks = [j \in DOMAIN parts[i].vals |-> before(i) + j]
    BY <1>1 DEF Numbered, vals
  <1>6. cl = [i \in 1 .. m |-> cl[i]]
    BY <1>1 DEF Numbered
  <1> HIDE DEF cl, before
  <1>7. IsSeq(cl) /\ Len(cl) = m
    <2>1. cl \in [1 .. m -> ToSet(cl)]
      BY <1>5, <1>6 DEF ToSet
    <2> QED
      BY <1>1, <2>1, ASequence, Zenon DEF IsSeq
  <1>8. InOrder(cl, cuts)
    BY <1>1, <1>5, <1>7 DEF InOrder, m
  <1>9. /\ st.clauses = cl /\ st.args = Flat(vals)
    BY <1>7, <1>8, TextIs DEF Statement, cl, vals
  <1>10. /\ marks = [i \in 1 .. m |-> cl[i].marks] /\ DOMAIN marks = 1 .. m
         /\ \E Y : marks \in Seq(Seq(Y))
         /\ Len(marks) = m
         /\ \A i \in 1 .. m : Len(marks[i]) = Len(vals[i])
    <2>1. marks = [i \in 1 .. m |-> cl[i].marks] /\ DOMAIN marks = 1 .. m
      BY <1>5
    <2>2. ASSUME NEW i \in 1 .. m
          PROVE  marks[i] \in Seq(Nat) /\ Len(marks[i]) = Len(vals[i])
      <3> DEFINE k == Len(parts[i].vals)
                 b == before(i)
      <3>1. marks[i] = [j \in 1 .. k |-> b + j] /\ k \in Nat /\ b \in Nat
        BY <1>3, <1>4, <1>5, <2>1
      <3> HIDE DEF k, b
      <3>2. marks[i] \in [1 .. k -> Nat]
        BY <3>1
      <3>3. marks[i] \in Seq(Nat) /\ Len(marks[i]) = k
        BY <3>1, <3>2, ASequence, Zenon
      <3> QED
        BY <1>2, <3>3 DEF k
    <2>3. marks \in [1 .. m -> Seq(Nat)]
      BY <2>1, <2>2
    <2>4. marks \in Seq(Seq(Nat)) /\ Len(marks) = m
      BY <1>1, <2>3, ASequence, Zenon
    <2> QED
      BY <2>1, <2>2, <2>4, Zenon
  <1> HIDE DEF marks
  <1>11. ASSUME NEW i \in 1 .. m PROVE Len(Concat(marks, i - 1)) = before(i)
    <2>1. PICK Y : marks \in Seq(Seq(Y))
      BY <1>10
    <2>2. \A k \in 1 .. Len(marks) : Len(marks[k]) = Len(vals[k])
      BY <1>10
    <2>3. \A k \in 0 .. Len(marks) : Len(Concat(marks, k)) = Len(Concat(vals, k))
      <3>1. Len(marks) = Len(vals) /\ vals \in Seq(Seq(X))
        BY <1>2, <1>10
      <3> QED
        BY <2>1, <2>2, <3>1, ConcatLengths, Zenon
    <2>4. i - 1 \in 0 .. Len(marks)
      BY <1>1, <1>10
    <2> QED
      BY <2>3, <2>4, Zenon DEF before
  <1>12. ASSUME NEW i \in 1 .. m PROVE Bound(d, st, i) = parts[i].vals
    <2> DEFINE k == Len(parts[i].vals)
    <2>1. marks[i] = [j \in 1 .. k |-> before(i) + j] /\ k \in Nat /\ DOMAIN parts[i].vals = 1 .. k
      BY <1>3, <1>5, <1>10
    <2>2. ASSUME NEW j \in 1 .. k PROVE st.args[before(i) + j] = parts[i].vals[j]
      <3>1. vals[i] = parts[i].vals /\ Len(vals[i]) = k
        BY <1>2
      <3>2. m \in i .. Len(vals) /\ i \in 1 .. Len(vals) /\ j \in 1 .. Len(vals[i])
        BY <1>1, <1>2, <3>1
      <3> HIDE DEF k
      <3>3. Concat(vals, m)[before(i) + j] = vals[i][j]
        BY <1>2, <3>2, ConcatPlaces, Zenon DEF before
      <3> QED
        BY <1>2, <1>9, <3>1, <3>3, Zenon DEF Flat
    <2>3. Bound(d, st, i) =
             [j \in DOMAIN marks[i] |->
                 st.args[IF d = "postgres" THEN marks[i][j] ELSE Len(Concat(marks, i - 1)) + j]]
      <3>1. marks = [j \in DOMAIN st.clauses |-> st.clauses[j].marks]
        BY <1>9, Zenon DEF marks
      <3> DEFINE own == [j \in DOMAIN st.clauses |-> st.clauses[j].marks]
      <3>2. Bound(d, st, i) =
               [j \in DOMAIN own[i] |->
                   st.args[IF d = "postgres" THEN own[i][j] ELSE Len(Concat(own, i - 1)) + j]]
        BY Zenon DEF Bound
      <3> HIDE DEF own
      <3>3. own = marks
        BY <3>1, Zenon DEF own
      <3> QED
        BY <3>2, <3>3, Zenon
    <2>4. DOMAIN marks[i] = 1 .. k /\ \A j \in 1 .. k : marks[i][j] = before(i) + j
      BY <2>1
    <2>5. Bound(d, st, i) = [j \in 1 .. k |-> st.args[before(i) + j]]
      <3>1. \A j \in 1 .. k : (IF d = "postgres" THEN marks[i][j] ELSE Len(Concat(marks, i - 1)) + j) = before(i) + j
        BY <1>11, <2>4
      <3> QED
        BY <2>3, <2>4, <3>1
    <2>6. parts[i].vals = [j \in 1 .. k |-> parts[i].vals[j]]
      BY <1>1, <2>1, LenProperties DEF ArePartsOf, IsSeq
    <2> HIDE DEF k
    <2> QED
      BY <2>2, <2>5, <2>6
  <1> QED
    BY <1>1, <1>5, <1>9, <1>12, Zenon

----------------------------------------------------------------------------
(* What the clauses say.                                                   *)

OkFilter(filter) ==
    /\ IsSeq(filter)
    /\ \A i \in DOMAIN filter :
          /\ IsSeq(filter[i].conds)
          /\ \A j \in DOMAIN filter[i].conds :
                filter[i].conds[j][1] = "in" => IsSeq(filter[i].conds[j][2])

\* The values a condition <<op, value>> is given, and what it asks of v.
CondVals(d, c) == IF c[1] = "in" THEN InValues(d, c[2]) ELSE <<<<c[2]>>>>
CondHolds(v, c) == IF c[1] = "in" THEN v # Null /\ v \in ToSet(c[2]) ELSE Compares(v, c[1], c[2])

LEMMA CondIs ==
  ASSUME NEW d \in Dialects, NEW c, c[1] = "in" => IsSeq(c[2])
  PROVE  IsSeq(CondVals(d, c)) /\ \A v : Meets(v, c[1], CondVals(d, c)) <=> CondHolds(v, c)
  <1>1. CASE c[1] # "in"
    <2>1. CondVals(d, c) = <<<<c[2]>>>>
      BY <1>1 DEF CondVals
    <2>2. \A x : <<x>> \in Seq({x})
      OBVIOUS
    <2>3. IsSeq(CondVals(d, c))
      BY <2>1, <2>2, IsSeqOf, Zenon
    <2>4. CondVals(d, c)[1][1] = c[2]
      BY <2>1
    <2> QED
      BY <1>1, <2>3, <2>4, Zenon DEF Meets, CondHolds
  <1>2. CASE c[1] = "in"
    <2> DEFINE val == c[2]
               vals == InValues(d, val)
    <2>1. Len(val) \in Nat /\ DOMAIN val = 1 .. Len(val)
      BY <1>2, SeqIs
    <2>2. CondVals(d, c) = vals
      BY <1>2 DEF CondVals
    <2>3. ToSet(val) = {val[i] : i \in DOMAIN val}
      BY DEF ToSet
    <2>4. \A v, w : Compares(v, "=", w) <=> v # Null /\ v = w
      BY DEF Compares
    <2>5. \A v : Meets(v, "in", vals) <=> \E j \in DOMAIN vals : \E k \in DOMAIN vals[j] : Compares(v, "=", vals[j][k])
      BY Zenon DEF Meets
    <2> HIDE DEF val
    <2>6. CASE d = "postgres"
      <3>1. vals = <<val>>
        BY <2>6 DEF InValues
      <3>2. DOMAIN vals = {1} /\ vals[1] = val /\ vals \in Seq({val})
        BY <3>1
      <3>3. IsSeq(vals)
        BY <3>2, IsSeqOf, Zenon
      <3> HIDE DEF vals
      <3>4. ASSUME NEW v PROVE Meets(v, "in", vals) <=> v # Null /\ v \in ToSet(val)
        <4>1. Meets(v, "in", vals) <=> \E k \in DOMAIN val : v # Null /\ v = val[k]
          BY <2>4, <2>5, <3>2
        <4> QED
          BY <2>3, <4>1, Zenon
      <3> QED
        BY <1>2, <2>2, <3>3, <3>4, Zenon DEF CondHolds, val
    <2>7. CASE d = "mysql"
      <3>1. vals = [i \in 1 .. Len(val) |-> <<val[i]>>]
        BY <2>1, <2>7 DEF InValues
      <3>2. /\ DOMAIN vals = DOMAIN val
            /\ \A j \in DOMAIN val : vals[j] = <<val[j]>>
        BY <2>1, <3>1
      <3>5. \A j \in DOMAIN val : DOMAIN vals[j] = {1} /\ vals[j][1] = val[j]
        BY <3>2
      <3>3. IsSeq(vals)
        <4>1. vals \in [1 .. Len(val) -> ToSet(vals)]
          BY <3>1 DEF ToSet
        <4> HIDE DEF vals
        <4>2. Len(vals) = Len(val) /\ vals \in Seq(ToSet(vals))
          BY <2>1, <4>1, ASequence, Zenon
        <4> QED
          BY <4>2 DEF IsSeq
      <3> HIDE DEF vals
      <3>4. ASSUME NEW v PROVE Meets(v, "in", vals) <=> v # Null /\ v \in ToSet(val)
        <4>1. Meets(v, "in", vals) <=> \E k \in DOMAIN val : v # Null /\ v = val[k]
          BY <2>4, <2>5, <3>2, <3>5
        <4> QED
          BY <2>3, <4>1, Zenon
      <3> QED
        BY <1>2, <2>2, <3>3, <3>4, Zenon DEF CondHolds, val
    <2> QED
      BY <2>6, <2>7 DEF Dialects
  <1> QED
    BY <1>1, <1>2

\* Each condition of the filter is a clause of WHERE, with its own values, and there are no others.
LEMMA WhereIs ==
  ASSUME NEW d \in Dialects, NEW filter, OkFilter(filter)
  PROVE  /\ ArePartsOf(Where(d, filter))
         /\ \A n \in DOMAIN Where(d, filter) : Where(d, filter)[n].at = "where"
         /\ \A row : (\A n \in DOMAIN Where(d, filter) :
                         Meets(row[Where(d, filter)[n].col], Where(d, filter)[n].op, Where(d, filter)[n].vals))
                     <=> \A i \in DOMAIN filter : \A j \in DOMAIN filter[i].conds :
                            CondHolds(row[filter[i].col], filter[i].conds[j])
  <1> DEFINE part(i, j) == Part("where", filter[i].col, filter[i].conds[j][1], CondVals(d, filter[i].conds[j]))
             s == [i \in DOMAIN filter |-> [j \in DOMAIN filter[i].conds |-> part(i, j)]]
             w == Where(d, filter)
  <1>1. w = Flat(s)
    BY Zenon DEF Where, CondVals
  <1>2. /\ DOMAIN s = DOMAIN filter
        /\ \A i \in DOMAIN filter : DOMAIN s[i] = DOMAIN filter[i].conds
        /\ \A i \in DOMAIN filter : \A j \in DOMAIN filter[i].conds : s[i][j] = part(i, j)
    OBVIOUS
  <1>3. IsSeq(s)
    <2>1. Len(filter) \in Nat /\ DOMAIN filter = 1 .. Len(filter)
      BY SeqIs DEF OkFilter
    <2>2. s \in [1 .. Len(filter) -> ToSet(s)]
      BY <2>1 DEF ToSet
    <2> HIDE DEF s
    <2> QED
      BY <2>1, <2>2, ASequence, IsSeqOf, Zenon
  <1>4. ASSUME NEW i \in DOMAIN s PROVE IsSeq(s[i])
    <2> DEFINE t == s[i]
               n == Len(filter[i].conds)
    <2>1. n \in Nat /\ DOMAIN filter[i].conds = 1 .. n
      BY SeqIs DEF OkFilter
    <2>2. t = [j \in 1 .. n |-> part(i, j)]
      BY <2>1
    <2> HIDE DEF t, n
    <2>3. t \in [1 .. n -> ToSet(t)]
      BY <2>2 DEF ToSet
    <2>4. IsSeq(t)
      BY <2>1, <2>3, ASequence, IsSeqOf, Zenon
    <2> QED
      BY <2>4 DEF t
  <1> HIDE DEF s, w
  <1>5. /\ IsSeq(w)
        /\ \A n \in DOMAIN w : \E i \in DOMAIN s : \E j \in DOMAIN s[i] : w[n] = s[i][j]
        /\ \A i \in DOMAIN s : \A j \in DOMAIN s[i] : \E n \in DOMAIN w : w[n] = s[i][j]
    <2>1. /\ IsSeq(Flat(s))
          /\ \A n \in DOMAIN Flat(s) : \E i \in DOMAIN s : \E j \in DOMAIN s[i] : Flat(s)[n] = s[i][j]
          /\ \A i \in DOMAIN s : \A j \in DOMAIN s[i] : \E n \in DOMAIN Flat(s) : Flat(s)[n] = s[i][j]
      BY <1>3, <1>4, FlatHolds, Zenon
    <2> QED
      BY <1>1, <2>1
  <1>6. ASSUME NEW i \in DOMAIN filter, NEW j \in DOMAIN filter[i].conds
        PROVE  /\ part(i, j).at = "where" /\ part(i, j).col = filter[i].col
               /\ part(i, j).op = filter[i].conds[j][1]
               /\ part(i, j).vals = CondVals(d, filter[i].conds[j])
               /\ IsSeq(part(i, j).vals)
               /\ \A v : Meets(v, part(i, j).op, part(i, j).vals) <=> CondHolds(v, filter[i].conds[j])
    <2>1. /\ part(i, j).at = "where" /\ part(i, j).col = filter[i].col
          /\ part(i, j).op = filter[i].conds[j][1]
          /\ part(i, j).vals = CondVals(d, filter[i].conds[j])
      BY DEF Part
    <2>2. filter[i].conds[j][1] = "in" => IsSeq(filter[i].conds[j][2])
      BY Zenon DEF OkFilter
    <2> DEFINE c == filter[i].conds[j]
    <2>3. c[1] = "in" => IsSeq(c[2])
      BY <2>2, Zenon
    <2> HIDE DEF c
    <2>4. IsSeq(CondVals(d, c)) /\ \A v : Meets(v, c[1], CondVals(d, c)) <=> CondHolds(v, c)
      BY <2>3, CondIs, Zenon
    <2> HIDE DEF part
    <2> QED
      BY <2>1, <2>4, Zenon DEF c
  <1> HIDE DEF part
  <1>7. ASSUME NEW n \in DOMAIN w
        PROVE  \E i \in DOMAIN filter : \E j \in DOMAIN filter[i].conds : w[n] = part(i, j)
    BY <1>2, <1>5
  <1>8. ASSUME NEW i \in DOMAIN filter, NEW j \in DOMAIN filter[i].conds
        PROVE  \E n \in DOMAIN w : w[n] = part(i, j)
    BY <1>2, <1>5
  <1>9. ArePartsOf(w)
    BY <1>5, <1>6, <1>7, Zenon DEF ArePartsOf
  <1>10. \A n \in DOMAIN w : w[n].at = "where"
    BY <1>6, <1>7
  <1>11. ASSUME NEW row
         PROVE  (\A n \in DOMAIN w : Meets(row[w[n].col], w[n].op, w[n].vals))
                <=> \A i \in DOMAIN filter : \A j \in DOMAIN filter[i].conds :
                       CondHolds(row[filter[i].col], filter[i].conds[j])
    <2>1. ASSUME \A n \in DOMAIN w : Meets(row[w[n].col], w[n].op, w[n].vals),
                 NEW i \in DOMAIN filter, NEW j \in DOMAIN filter[i].conds
          PROVE  CondHolds(row[filter[i].col], filter[i].conds[j])
      <3>1. PICK n \in DOMAIN w : w[n] = part(i, j)
        BY <1>8, Zenon
      <3>2. Meets(row[part(i, j).col], part(i, j).op, part(i, j).vals)
        BY <2>1, <3>1, Zenon
      <3> QED
        BY <1>6, <3>2, Zenon
    <2>2. ASSUME \A i \in DOMAIN filter : \A j \in DOMAIN filter[i].conds :
                    CondHolds(row[filter[i].col], filter[i].conds[j]),
                 NEW n \in DOMAIN w
          PROVE  Meets(row[w[n].col], w[n].op, w[n].vals)
      <3>1. PICK i \in DOMAIN filter : \E j \in DOMAIN filter[i].conds : w[n] = part(i, j)
        BY <1>7, Zenon
      <3>2. PICK j \in DOMAIN filter[i].conds : w[n] = part(i, j)
        BY <3>1, Zenon
      <3>3. CondHolds(row[part(i, j).col], filter[i].conds[j])
        BY <1>6, <2>2, Zenon
      <3> QED
        BY <1>6, <3>2, <3>3, Zenon
    <2> QED
      BY <2>1, <2>2, Zenon
  <1> QED
    BY <1>9, <1>10, <1>11, Zenon DEF w

LEMMA OneValue ==
  ASSUME NEW v
  PROVE  IsSeq(<<<<v>>>>) /\ <<<<v>>>>[1][1] = v
  <1>1. <<<<v>>>> \in Seq({<<v>>})
    OBVIOUS
  <1> QED
    BY <1>1, IsSeqOf

LEMMA SetsIs ==
  ASSUME NEW update, IsSeq(update)
  PROVE  /\ ArePartsOf(Sets(update)) /\ DOMAIN Sets(update) = DOMAIN update
         /\ \A n \in DOMAIN update : /\ Sets(update)[n].at = "set"
                                     /\ Sets(update)[n].col = update[n][1]
                                     /\ Sets(update)[n].vals = <<<<update[n][2]>>>>
  <1> DEFINE p == Sets(update)
  <1>1. Len(update) \in Nat /\ DOMAIN update = 1 .. Len(update)
    BY SeqIs
  <1>2. /\ p = [n \in 1 .. Len(update) |-> p[n]] /\ DOMAIN p = 1 .. Len(update)
        /\ \A n \in 1 .. Len(update) : /\ p[n].at = "set" /\ p[n].col = update[n][1]
                                       /\ p[n].vals = <<<<update[n][2]>>>>
    BY <1>1 DEF Sets, Part
  <1> HIDE DEF p
  <1>3. p \in [1 .. Len(update) -> ToSet(p)]
    BY <1>2 DEF ToSet
  <1>4. IsSeq(p)
    BY <1>1, <1>3, ASequence, IsSeqOf, Zenon
  <1>5. \A n \in DOMAIN p : IsSeq(p[n].vals)
    BY <1>2, OneValue
  <1> QED
    BY <1>1, <1>2, <1>4, <1>5 DEF ArePartsOf, p

LEMMA ColumnsListed ==
  ASSUME NEW doc, IsFiniteSet(DOMAIN doc)
  PROVE  IsSeq(ColumnsOf(doc)) /\ ToSet(ColumnsOf(doc)) = DOMAIN doc
  <1> DEFINE D == DOMAIN doc
             n == Cardinality(D)
             f == ColumnsOf(doc)
  <1>1. n \in Nat /\ ExistsBijection(1 .. n, D)
    BY FS_CardinalityType
  <1>2. PICK g \in [1 .. n -> D] : IsInjective(g) /\ \A x \in D : \E j \in 1 .. n : g[j] = x
    <2>1. PICK g : g \in Bijection(1 .. n, D)
      BY <1>1 DEF ExistsBijection
    <2> QED
      BY <2>1 DEF Bijection, Injection, Surjection, IsInjective
  <1>3. f \in [1 .. n -> D] /\ IsInjective(f)
    BY <1>2, Zenon DEF ColumnsOf, SetToSeq
  <1> HIDE DEF f, D, n
  <1>4. f \in Injection(1 .. n, D)
    BY <1>3 DEF Injection
  <1>5. IsFiniteSet(D) /\ IsFiniteSet(1 .. n) /\ Cardinality(1 .. n) = Cardinality(D)
    BY <1>1, FS_Interval DEF D, n
  <1>6. f \in Surjection(1 .. n, D)
    BY <1>4, <1>5, FS_Injection, Zenon
  <1>7. \A x \in D : \E j \in 1 .. n : f[j] = x
    BY <1>6 DEF Surjection
  <1>8. f \in Seq(D) /\ DOMAIN f = 1 .. n
    BY <1>1, <1>3, ASequence, Zenon
  <1> QED
    BY <1>3, <1>7, <1>8, IsSeqOf DEF ToSet, f, D

\* The parts of an INSERT: one of each document and column of the first document.
LEMMA RowsIs ==
  ASSUME NEW ds, IsSeq(ds), IsFiniteSet(DOMAIN ds[1])
  PROVE  /\ ArePartsOf(Rows(ds))
         /\ \A n \in DOMAIN Rows(ds) :
               /\ Rows(ds)[n].at = "row" /\ Rows(ds)[n].op \in DOMAIN ds /\ Rows(ds)[n].col \in DOMAIN ds[1]
               /\ Rows(ds)[n].vals = <<<<Given(ds[Rows(ds)[n].op], Rows(ds)[n].col)>>>>
         /\ \A i \in DOMAIN ds : \A col \in DOMAIN ds[1] :
               \E n \in DOMAIN Rows(ds) : Rows(ds)[n].op = i /\ Rows(ds)[n].col = col
  <1> DEFINE cols == ColumnsOf(ds[1])
             part(i, j) == Part("row", cols[j], i, <<<<Given(ds[i], cols[j])>>>>)
             s == [i \in DOMAIN ds |-> [j \in DOMAIN cols |-> part(i, j)]]
             w == Rows(ds)
  <1>1. w = Flat(s)
    BY Zenon DEF Rows, Given
  <1>c. IsSeq(cols) /\ ToSet(cols) = DOMAIN ds[1]
    BY ColumnsListed, Zenon
  <1> HIDE DEF cols
  <1>2. /\ DOMAIN s = DOMAIN ds
        /\ \A i \in DOMAIN ds : DOMAIN s[i] = DOMAIN cols
        /\ \A i \in DOMAIN ds : \A j \in DOMAIN cols : s[i][j] = part(i, j)
    OBVIOUS
  <1>n. /\ Len(ds) \in Nat /\ DOMAIN ds = 1 .. Len(ds)
        /\ Len(cols) \in Nat /\ DOMAIN cols = 1 .. Len(cols)
    BY <1>c, SeqIs
  <1>3. IsSeq(s)
    <2>2. s \in [1 .. Len(ds) -> ToSet(s)]
      BY <1>n DEF ToSet
    <2> HIDE DEF s
    <2> QED
      BY <1>n, <2>2, ASequence, IsSeqOf, Zenon
  <1>4. ASSUME NEW i \in DOMAIN s PROVE IsSeq(s[i])
    <2> DEFINE t == s[i]
    <2>2. t = [j \in 1 .. Len(cols) |-> part(i, j)]
      BY <1>n
    <2> HIDE DEF t
    <2>3. t \in [1 .. Len(cols) -> ToSet(t)]
      BY <2>2 DEF ToSet
    <2>4. IsSeq(t)
      BY <1>n, <2>3, ASequence, IsSeqOf, Zenon
    <2> QED
      BY <2>4 DEF t
  <1> HIDE DEF s, w
  <1>5. /\ IsSeq(w)
        /\ \A n \in DOMAIN w : \E i \in DOMAIN s : \E j \in DOMAIN s[i] : w[n] = s[i][j]
        /\ \A i \in DOMAIN s : \A j \in DOMAIN s[i] : \E n \in DOMAIN w : w[n] = s[i][j]
    <2>1. /\ IsSeq(Flat(s))
          /\ \A n \in DOMAIN Flat(s) : \E i \in DOMAIN s : \E j \in DOMAIN s[i] : Flat(s)[n] = s[i][j]
          /\ \A i \in DOMAIN s : \A j \in DOMAIN s[i] : \E n \in DOMAIN Flat(s) : Flat(s)[n] = s[i][j]
      BY <1>3, <1>4, FlatHolds, Zenon
    <2> QED
      BY <1>1, <2>1
  <1>6. ASSUME NEW i \in DOMAIN ds, NEW j \in DOMAIN cols
        PROVE  /\ part(i, j).at = "row" /\ part(i, j).op = i /\ part(i, j).col = cols[j]
               /\ part(i, j).vals = <<<<Given(ds[i], cols[j])>>>>
               /\ cols[j] \in DOMAIN ds[1]
    <2>1. cols[j] \in DOMAIN ds[1]
      BY <1>c DEF ToSet
    <2> QED
      BY <2>1 DEF Part
  <1> HIDE DEF part
  <1>7. ASSUME NEW n \in DOMAIN w
        PROVE  \E i \in DOMAIN ds : \E j \in DOMAIN cols : w[n] = part(i, j)
    BY <1>2, <1>5
  <1>8. ASSUME NEW i \in DOMAIN ds, NEW j \in DOMAIN cols
        PROVE  \E n \in DOMAIN w : w[n] = part(i, j)
    BY <1>2, <1>5
  <1>9. ASSUME NEW n \in DOMAIN w
        PROVE  /\ w[n].at = "row" /\ w[n].op \in DOMAIN ds /\ w[n].col \in DOMAIN ds[1]
               /\ w[n].vals = <<<<Given(ds[w[n].op], w[n].col)>>>>
    BY <1>6, <1>7
  <1>10. ArePartsOf(w)
    <2>1. \A n \in DOMAIN w : IsSeq(w[n].vals)
      BY <1>9, OneValue
    <2> QED
      BY <1>5, <2>1 DEF ArePartsOf
  <1>11. ASSUME NEW i \in DOMAIN ds, NEW col \in DOMAIN ds[1]
         PROVE  \E n \in DOMAIN w : w[n].op = i /\ w[n].col = col
    <2>1. PICK j \in DOMAIN cols : cols[j] = col
      BY <1>c DEF ToSet
    <2> QED
      BY <1>6, <1>8, <2>1
  <1> QED
    BY <1>9, <1>10, <1>11, Zenon DEF w

LEMMA OnePlace ==
  ASSUME NEW parts, IsSeq(parts), NEW p \in 1 .. 5, \A n \in DOMAIN parts : parts[n].at = Order[p]
  PROVE  \E cuts : InOrder(parts, cuts)
  <1> DEFINE m == Len(parts)
             cuts == [k \in 0 .. 5 |-> IF k < p THEN 0 ELSE m]
  <1>1. m \in Nat /\ DOMAIN parts = 1 .. m
    BY SeqIs
  <1> HIDE DEF m
  <1>2. \A i, k \in 1 .. 5 : Order[i] = Order[k] <=> i = k
    BY DEF Order
  <1>3. /\ cuts \in [0 .. 5 -> 0 .. m] /\ cuts[0] = 0 /\ cuts[5] = m
        /\ \A k \in 0 .. 4 : cuts[k] <= cuts[k + 1]
    BY <1>1
  <1>4. ASSUME NEW k \in 0 .. 4, NEW i \in 1 .. m
        PROVE  parts[i].at = Order[k + 1] <=> cuts[k] < i /\ i <= cuts[k + 1]
    <2>1. parts[i].at = Order[k + 1] <=> k + 1 = p
      BY <1>1, <1>2
    <2>2. cuts[k] = (IF k < p THEN 0 ELSE m) /\ cuts[k + 1] = (IF k + 1 < p THEN 0 ELSE m)
      OBVIOUS
    <2> HIDE DEF cuts
    <2>3. cuts[k] < i /\ i <= cuts[k + 1] <=> k + 1 = p
      BY <1>1, <2>2
    <2> QED
      BY <2>1, <2>3
  <1> QED
    BY <1>1, <1>3, <1>4 DEF InOrder, m

\* Two sequences one behind the other.
LEMMA JoinIs ==
  ASSUME NEW a, NEW b, IsSeq(a), IsSeq(b)
  PROVE  /\ IsSeq(a \o b) /\ Len(a \o b) = Len(a) + Len(b) /\ Len(a) \in Nat /\ Len(b) \in Nat
         /\ DOMAIN (a \o b) = 1 .. Len(a) + Len(b)
         /\ \A n \in DOMAIN a : n \in 1 .. Len(a) /\ n \in DOMAIN (a \o b) /\ (a \o b)[n] = a[n]
         /\ \A n \in DOMAIN (a \o b) :
               \/ n \in DOMAIN a /\ (a \o b)[n] = a[n]
               \/ n > Len(a) /\ n - Len(a) \in DOMAIN b /\ (a \o b)[n] = b[n - Len(a)]
  <1> DEFINE V == ToSet(a) \union ToSet(b)
             c == a \o b
  <1>1. a \in Seq(V) /\ b \in Seq(V)
    BY SeqMonotonic DEF IsSeq
  <1>2. /\ Len(a) \in Nat /\ DOMAIN a = 1 .. Len(a)
        /\ Len(b) \in Nat /\ DOMAIN b = 1 .. Len(b)
    BY SeqIs
  <1> HIDE DEF V
  <1>3. /\ c \in Seq(V) /\ Len(c) = Len(a) + Len(b)
        /\ \A i \in 1 .. Len(a) + Len(b) : c[i] = IF i <= Len(a) THEN a[i] ELSE b[i - Len(a)]
    BY <1>1, ConcatProperties, Zenon
  <1> HIDE DEF c
  <1>4. IsSeq(c) /\ DOMAIN c = 1 .. Len(a) + Len(b)
    BY <1>3, IsSeqOf, LenProperties
  <1>5. \A n \in DOMAIN a : n \in 1 .. Len(a) /\ n \in DOMAIN c /\ c[n] = a[n]
    BY <1>2, <1>3, <1>4
  <1>7. ASSUME NEW n \in DOMAIN c
        PROVE  \/ n \in DOMAIN a /\ c[n] = a[n]
               \/ n > Len(a) /\ n - Len(a) \in DOMAIN b /\ c[n] = b[n - Len(a)]
    BY <1>2, <1>3, <1>4
  <1> QED
    BY <1>2, <1>3, <1>4, <1>5, <1>7 DEF c

LEMMA JoinLast ==
  ASSUME NEW a, NEW b, IsSeq(a), IsSeq(b), NEW n \in DOMAIN b
  PROVE  Len(a) + n \in DOMAIN (a \o b) /\ (a \o b)[Len(a) + n] = b[n]
  <1> DEFINE V == ToSet(a) \union ToSet(b)
             c == a \o b
             k == Len(a) + n
  <1>1. a \in Seq(V) /\ b \in Seq(V)
    BY SeqMonotonic DEF IsSeq
  <1>2. Len(a) \in Nat /\ Len(b) \in Nat /\ DOMAIN b = 1 .. Len(b)
    BY SeqIs
  <1>3. DOMAIN c = 1 .. Len(a) + Len(b)
    BY JoinIs, Zenon
  <1> HIDE DEF V
  <1>4. \A i \in 1 .. Len(a) + Len(b) : c[i] = IF i <= Len(a) THEN a[i] ELSE b[i - Len(a)]
    BY <1>1, ConcatProperties, Zenon
  <1> HIDE DEF c
  <1>5. k \in 1 .. Len(a) + Len(b) /\ ~(k <= Len(a)) /\ k - Len(a) = n
    BY <1>2
  <1> HIDE DEF k
  <1>6. k \in DOMAIN c /\ c[k] = b[n]
    BY <1>3, <1>4, <1>5
  <1> QED
    BY <1>6, Zenon DEF c, k

LEMMA PartsJoined ==
  ASSUME NEW a, NEW b, ArePartsOf(a), ArePartsOf(b)
  PROVE  ArePartsOf(a \o b)
  <1>1. IsSeq(a) /\ IsSeq(b)
    BY DEF ArePartsOf
  <1>2. \A n \in DOMAIN (a \o b) :
           \/ n \in DOMAIN a /\ (a \o b)[n] = a[n]
           \/ n > Len(a) /\ n - Len(a) \in DOMAIN b /\ (a \o b)[n] = b[n - Len(a)]
    BY <1>1, JoinIs, Zenon
  <1>3. \A n \in DOMAIN (a \o b) : IsSeq((a \o b)[n].vals)
    BY <1>2 DEF ArePartsOf
  <1>4. IsSeq(a \o b)
    BY <1>1, JoinIs, Zenon
  <1> QED
    BY <1>3, <1>4 DEF ArePartsOf

\* The parts of the actions are in the order of the text.
LEMMA UpdateInOrder ==
  ASSUME NEW d \in Dialects, NEW r, IsSeq(r.update), OkFilter(r.filter)
  PROVE  \E cuts : InOrder(UpdateParts(d, r), cuts)
  <1> DEFINE a == Sets(r.update)
             b == Where(d, r.filter)
             c == UpdateParts(d, r)
             p == Len(a)
             q == Len(b)
             cuts == [k \in 0 .. 5 |-> IF k = 0 THEN 0 ELSE IF k <= 2 THEN p ELSE p + q]
  <1>1. c = a \o b
    BY DEF UpdateParts
  <1>2. IsSeq(a) /\ \A n \in DOMAIN a : a[n].at = "set"
    BY SetsIs DEF ArePartsOf
  <1>3. IsSeq(b) /\ \A n \in DOMAIN b : b[n].at = "where"
    BY WhereIs, Zenon DEF ArePartsOf
  <1> HIDE DEF a, b, c
  <1>4. /\ p \in Nat /\ q \in Nat /\ Len(c) = p + q /\ DOMAIN c = 1 .. p + q
        /\ DOMAIN a = 1 .. p
        /\ \A n \in DOMAIN c : \/ n \in DOMAIN a /\ c[n] = a[n]
                               \/ n > p /\ n - p \in DOMAIN b /\ c[n] = b[n - p]
    <2>1. DOMAIN a = 1 .. Len(a)
      BY <1>2, SeqIs
    <2> QED
      BY <1>1, <1>2, <1>3, <2>1, JoinIs
  <1> HIDE DEF p, q
  <1>5. \A n \in 1 .. p + q : (n <= p /\ c[n].at = "set") \/ (n > p /\ c[n].at = "where")
    BY <1>2, <1>3, <1>4
  <1>6. /\ cuts \in [0 .. 5 -> 0 .. p + q] /\ cuts[0] = 0 /\ cuts[5] = p + q
        /\ \A k \in 0 .. 4 : cuts[k] <= cuts[k + 1]
    BY <1>4
  <1>7. /\ cuts[1] = p /\ cuts[2] = p /\ cuts[3] = p + q /\ cuts[4] = p + q
    OBVIOUS
  <1>8. /\ Order[1] = "set" /\ Order[2] = "row" /\ Order[3] = "where" /\ Order[4] = "limit" /\ Order[5] = "offset"
    BY DEF Order
  <1> HIDE DEF cuts
  <1>9. ASSUME NEW k \in 0 .. 4, NEW n \in 1 .. p + q
        PROVE  c[n].at = Order[k + 1] <=> cuts[k] < n /\ n <= cuts[k + 1]
    <2>1. CASE k = 0
      BY <1>4, <1>5, <1>6, <1>7, <1>8, <2>1
    <2>2. CASE k = 1
      BY <1>4, <1>5, <1>6, <1>7, <1>8, <2>2
    <2>3. CASE k = 2
      BY <1>4, <1>5, <1>6, <1>7, <1>8, <2>3
    <2>4. CASE k = 3
      BY <1>4, <1>5, <1>6, <1>7, <1>8, <2>4
    <2>5. CASE k = 4
      BY <1>4, <1>5, <1>6, <1>7, <1>8, <2>5
    <2> QED
      BY <2>1, <2>2, <2>3, <2>4, <2>5
  <1> QED
    BY <1>4, <1>6, <1>9 DEF InOrder, c

LEMMA FindInOrder ==
  ASSUME NEW d \in Dialects, NEW r, OkFilter(r.filter)
  PROVE  /\ ArePartsOf(Where(d, r.filter) \o Bounds(r))
         /\ \E cuts : InOrder(Where(d, r.filter) \o Bounds(r), cuts)
         /\ \A n \in DOMAIN Bounds(r) : Bounds(r)[n].at # "where"
  <1> DEFINE a == Where(d, r.filter)
             b == Bounds(r)
             c == a \o b
             p == Len(a)
             cuts == [k \in 0 .. 5 |-> IF k <= 2 THEN 0 ELSE p + (k - 3)]
  <1>2. ArePartsOf(a) /\ IsSeq(a) /\ \A n \in DOMAIN a : a[n].at = "where"
    BY WhereIs, Zenon DEF ArePartsOf
  <1>3. /\ IsSeq(b) /\ Len(b) = 2 /\ DOMAIN b = 1 .. 2
        /\ b[1].at = "limit" /\ b[2].at = "offset"
        /\ b[1].vals = <<<<r.limit>>>> /\ b[2].vals = <<<<r.skip>>>>
    <2> DEFINE x == Part("limit", "", "", <<<<r.limit>>>>)
               y == Part("offset", "", "", <<<<r.skip>>>>)
    <2>1. b = <<x, y>>
      BY DEF Bounds
    <2>2. /\ x.at = "limit" /\ y.at = "offset"
          /\ x.vals = <<<<r.limit>>>> /\ y.vals = <<<<r.skip>>>>
      BY DEF Part
    <2> HIDE DEF x, y, b
    <2>3. b \in Seq({x, y}) /\ Len(b) = 2 /\ DOMAIN b = 1 .. 2 /\ b[1] = x /\ b[2] = y
      BY <2>1
    <2> QED
      BY <2>2, <2>3, IsSeqOf
  <1> HIDE DEF a, b
  <1>4. ArePartsOf(b)
    BY <1>3, OneValue DEF ArePartsOf
  <1>5. ArePartsOf(c)
    BY <1>2, <1>4, PartsJoined, Zenon
  <1>6. /\ p \in Nat /\ Len(c) = p + 2 /\ DOMAIN c = 1 .. p + 2 /\ DOMAIN a = 1 .. p
        /\ \A n \in DOMAIN c : \/ n \in DOMAIN a /\ c[n] = a[n]
                               \/ n > p /\ n - p \in DOMAIN b /\ c[n] = b[n - p]
    <2>1. DOMAIN a = 1 .. Len(a)
      BY <1>2, SeqIs
    <2> QED
      <3>1. /\ Len(c) = Len(a) + Len(b) /\ Len(a) \in Nat
            /\ DOMAIN c = 1 .. Len(a) + Len(b)
            /\ \A n \in DOMAIN c :
                  \/ n \in DOMAIN a /\ c[n] = a[n]
                  \/ n > Len(a) /\ n - Len(a) \in DOMAIN b /\ c[n] = b[n - Len(a)]
        <4>1. IsSeq(a) /\ IsSeq(b)
          BY <1>2, <1>3
        <4> HIDE DEF p
        <4> QED
          BY <4>1, JoinIs
      <3> QED
        BY <1>3, <2>1, <3>1
  <1> HIDE DEF p, c
  <1>7. \A n \in 1 .. p + 2 : \/ n <= p /\ c[n].at = "where"
                              \/ n = p + 1 /\ c[n].at = "limit"
                              \/ n = p + 2 /\ c[n].at = "offset"
    BY <1>2, <1>3, <1>6
  <1>8. /\ cuts \in [0 .. 5 -> 0 .. p + 2] /\ cuts[0] = 0 /\ cuts[5] = p + 2
        /\ \A k \in 0 .. 4 : cuts[k] <= cuts[k + 1]
    BY <1>6
  <1>9. /\ cuts[1] = 0 /\ cuts[2] = 0 /\ cuts[3] = p /\ cuts[4] = p + 1
    BY <1>6
  <1>10. /\ Order[1] = "set" /\ Order[2] = "row" /\ Order[3] = "where" /\ Order[4] = "limit" /\ Order[5] = "offset"
    BY DEF Order
  <1> HIDE DEF cuts
  <1>11. ASSUME NEW k \in 0 .. 4, NEW n \in 1 .. p + 2
         PROVE  c[n].at = Order[k + 1] <=> cuts[k] < n /\ n <= cuts[k + 1]
    <2>1. CASE k = 0
      BY <1>6, <1>7, <1>8, <1>9, <1>10, <2>1
    <2>2. CASE k = 1
      BY <1>6, <1>7, <1>8, <1>9, <1>10, <2>2
    <2>3. CASE k = 2
      BY <1>6, <1>7, <1>8, <1>9, <1>10, <2>3
    <2>4. CASE k = 3
      BY <1>6, <1>7, <1>8, <1>9, <1>10, <2>4
    <2>5. CASE k = 4
      BY <1>6, <1>7, <1>8, <1>9, <1>10, <2>5
    <2> QED
      BY <2>1, <2>2, <2>3, <2>4, <2>5
  <1>12. InOrder(c, cuts)
    BY <1>6, <1>8, <1>11 DEF InOrder
  <1>13. \A n \in DOMAIN b : b[n].at # "where"
    BY <1>3
  <1> QED
    BY <1>5, <1>12, <1>13 DEF a, b, c

\* The rows a statement selects, by its parts.
LEMMA SelectsIs ==
  ASSUME NEW verb, NEW one, NEW parts, ArePartsOf(parts), NEW cuts, InOrder(parts, cuts),
         NEW st, st = Statement(verb, one, parts), NEW d \in Dialects, NEW row
  PROVE  Selects(d, st, row) <=>
            \A n \in DOMAIN parts : parts[n].at = "where" => Meets(row[parts[n].col], parts[n].op, parts[n].vals)
  <1>1. /\ DOMAIN st.clauses = DOMAIN parts
        /\ \A i \in DOMAIN parts :
              /\ st.clauses[i].at = parts[i].at
              /\ st.clauses[i].col = parts[i].col
              /\ st.clauses[i].op = parts[i].op
              /\ Bound(d, st, i) = parts[i].vals
    BY StatementIs
  <1>2. At(st, "where") = {n \in DOMAIN parts : parts[n].at = "where"}
    BY <1>1 DEF At
  <1>3. \A i \in DOMAIN parts : Meets(row[st.clauses[i].col], st.clauses[i].op, Bound(d, st, i))
                                <=> Meets(row[parts[i].col], parts[i].op, parts[i].vals)
    BY <1>1, Zenon
  <1> QED
    BY <1>2, <1>3 DEF Selects

\* The statement of each action.
LEMMA TranslatedAs ==
  ASSUME NEW r, NEW d
  PROVE  /\ r.action = "find" => Translated(d, r) = Statement("SELECT", FALSE, Where(d, r.filter) \o Bounds(r))
         /\ r.action = "count" => Translated(d, r) = Statement("COUNT", FALSE, Where(d, r.filter))
         /\ r.action = "insert_one" => Translated(d, r) = Statement("INSERT", FALSE, Rows(<<r.docs[1]>>))
         /\ r.action = "insert_many" => Translated(d, r) = Statement("INSERT", FALSE, Rows(r.docs))
         /\ r.action = "update_one" => Translated(d, r) = Statement("UPDATE", FALSE, UpdateParts(d, r))
         /\ r.action \in {"delete_one", "delete_many"} =>
               Translated(d, r) = Statement("DELETE", Single(r), Where(d, r.filter))
  BY Zenon DEF Translated

LEMMA RequestIs ==
  ASSUME NEW r \in Requests
  PROVE  /\ OkFilter(r.filter) /\ IsSeq(r.update) /\ IsSeq(r.docs)
         /\ \A j \in DOMAIN r.update : r.update[j] = <<r.update[j][1], r.update[j][2]>>
  BY SqlAssumption, Zenon DEF SqlAssumption, OkFilter

LEMMA MeantIs ==
  ASSUME NEW r, NEW row
  PROVE  Meant(r, row) <=> \A i \in DOMAIN r.filter : \A j \in DOMAIN r.filter[i].conds :
                              CondHolds(row[r.filter[i].col], r.filter[i].conds[j])
  BY Zenon DEF Meant, CondHolds

\* Under either dialect a statement selects the rows its request means, no others and no fewer.
LEMMA SelectsMeant ==
  ASSUME NEW r \in Requests, NEW d \in Dialects, NEW row,
         r.action \in {"find", "count", "update_one", "delete_one", "delete_many"}
  PROVE  Selects(d, Translated(d, r), row) <=> Meant(r, row)
  <1> DEFINE w == Where(d, r.filter)
             holds(p) == \A n \in DOMAIN p : p[n].at = "where" => Meets(row[p[n].col], p[n].op, p[n].vals)
  <1>1. OkFilter(r.filter) /\ IsSeq(r.update)
    BY RequestIs
  <1>2. ArePartsOf(w) /\ IsSeq(w) /\ \A n \in DOMAIN w : w[n].at = "where"
    BY <1>1, WhereIs, Zenon DEF ArePartsOf
  <1>3. (\A n \in DOMAIN w : Meets(row[w[n].col], w[n].op, w[n].vals)) <=> Meant(r, row)
    BY <1>1, WhereIs, MeantIs, Zenon
  <1> HIDE DEF w
  <1>4. holds(w) <=> Meant(r, row)
    BY <1>2, <1>3, Zenon
  <1>5. CASE r.action \in {"count", "delete_one", "delete_many"}
    <2>1. \E verb, one : Translated(d, r) = Statement(verb, one, w)
      BY <1>5, TranslatedAs, Zenon DEF w
    <2>2. PICK verb, one : Translated(d, r) = Statement(verb, one, w)
      BY <2>1, Zenon
    <2>3. Order[3] = "where" /\ 3 \in 1 .. 5
      BY DEF Order
    <2>4. PICK cuts : InOrder(w, cuts)
      BY <1>2, <2>3, OnePlace
    <2> HIDE DEF holds
    <2>5. Selects(d, Translated(d, r), row) <=> holds(w)
      BY <1>2, <2>2, <2>4, SelectsIs DEF holds
    <2> QED
      BY <1>4, <2>5
  <1>6. CASE r.action = "find"
    <2> DEFINE b == Bounds(r)
               p == w \o b
    <2>1. Translated(d, r) = Statement("SELECT", FALSE, p)
      BY <1>6, TranslatedAs, Zenon DEF w
    <2>2. ArePartsOf(p) /\ (\E cuts : InOrder(p, cuts)) /\ \A n \in DOMAIN b : b[n].at # "where"
      BY <1>1, FindInOrder, Zenon DEF w
    <2>3. IsSeq(b)
      <3>1. b \in Seq({Part("limit", "", "", <<<<r.limit>>>>), Part("offset", "", "", <<<<r.skip>>>>)})
        BY DEF Bounds
      <3> QED
        BY <3>1, IsSeqOf
    <2> HIDE DEF b
    <2>4. /\ \A n \in DOMAIN w : n \in DOMAIN p /\ p[n] = w[n]
          /\ \A n \in DOMAIN p : \/ n \in DOMAIN w /\ p[n] = w[n]
                                 \/ n > Len(w) /\ n - Len(w) \in DOMAIN b /\ p[n] = b[n - Len(w)]
      BY <1>2, <2>3, JoinIs
    <2> HIDE DEF p
    <2>5. holds(p) <=> holds(w)
      <3>1. ASSUME holds(p), NEW n \in DOMAIN w, w[n].at = "where" PROVE Meets(row[w[n].col], w[n].op, w[n].vals)
        BY <2>4, <3>1
      <3>2. ASSUME holds(w), NEW n \in DOMAIN p, p[n].at = "where" PROVE Meets(row[p[n].col], p[n].op, p[n].vals)
        BY <2>2, <2>4, <3>2
      <3> QED
        BY <3>1, <3>2
    <2>6. PICK cuts : InOrder(p, cuts)
      BY <2>2
    <2> HIDE DEF holds
    <2>7. Selects(d, Translated(d, r), row) <=> holds(p)
      BY <2>1, <2>2, <2>6, SelectsIs DEF holds
    <2> QED
      BY <1>4, <2>5, <2>7
  <1>7. CASE r.action = "update_one"
    <2> DEFINE a == Sets(r.update)
               p == a \o w
    <2>1. Translated(d, r) = Statement("UPDATE", FALSE, p)
      BY <1>7, TranslatedAs, Zenon DEF w, UpdateParts
    <2>2. /\ ArePartsOf(a) /\ IsSeq(a) /\ \A n \in DOMAIN a : a[n].at # "where"
      BY <1>1, SetsIs DEF ArePartsOf
    <2>3. \E cuts : InOrder(p, cuts)
      BY <1>1, UpdateInOrder DEF UpdateParts, w
    <2> HIDE DEF a
    <2>4. /\ \A n \in DOMAIN w : Len(a) + n \in DOMAIN p /\ p[Len(a) + n] = w[n]
          /\ \A n \in DOMAIN p : \/ n \in DOMAIN a /\ p[n] = a[n]
                                 \/ n > Len(a) /\ n - Len(a) \in DOMAIN w /\ p[n] = w[n - Len(a)]
      <3>1. IsSeq(a) /\ IsSeq(w)
        BY <1>2, <2>2
      <3>2. \A n \in DOMAIN w : Len(a) + n \in DOMAIN (a \o w) /\ (a \o w)[Len(a) + n] = w[n]
        BY <3>1, JoinLast, Zenon
      <3>3. \A n \in DOMAIN (a \o w) :
               \/ n \in DOMAIN a /\ (a \o w)[n] = a[n]
               \/ n > Len(a) /\ n - Len(a) \in DOMAIN w /\ (a \o w)[n] = w[n - Len(a)]
        BY <3>1, JoinIs, Zenon
      <3> QED
        BY <3>2, <3>3, Zenon
    <2>8. ArePartsOf(p)
      BY <1>2, <2>2, PartsJoined, Zenon
    <2> HIDE DEF p
    <2>5. holds(p) <=> holds(w)
      <3>1. ASSUME holds(p), NEW n \in DOMAIN w, w[n].at = "where" PROVE Meets(row[w[n].col], w[n].op, w[n].vals)
        BY <2>4, <3>1
      <3>2. ASSUME holds(w), NEW n \in DOMAIN p, p[n].at = "where" PROVE Meets(row[p[n].col], p[n].op, p[n].vals)
        BY <2>2, <2>4, <3>2
      <3> QED
        BY <3>1, <3>2
    <2>6. PICK cuts : InOrder(p, cuts)
      BY <2>3
    <2> HIDE DEF holds
    <2>7. Selects(d, Translated(d, r), row) <=> holds(p)
      BY <2>1, <2>8, <2>6, SelectsIs DEF holds
    <2> QED
      BY <1>4, <2>5, <2>7
  <1> QED
    BY <1>5, <1>6, <1>7

\* An UPDATE gives each column its own value and leaves the others.
HasOwnValue(r, old, new, col) ==
    \/ \E j \in DOMAIN r.update : r.update[j] = <<col, new[col]>>
    \/ new[col] = old[col] /\ \A j \in DOMAIN r.update : r.update[j][1] # col

LEMMA AssignedIs ==
  ASSUME NEW r \in Requests, NEW d \in Dialects, NEW row, r.action = "update_one", NEW col \in Columns
  PROVE  HasOwnValue(r, row, Assigned(d, Translated(d, r), row), col)
  <1> DEFINE a == Sets(r.update)
             w == Where(d, r.filter)
             p == a \o w
             st == Translated(d, r)
             set == {i \in At(st, "set") : st.clauses[i].col = col}
  <1>1. OkFilter(r.filter) /\ IsSeq(r.update)
        /\ \A j \in DOMAIN r.update : r.update[j] = <<r.update[j][1], r.update[j][2]>>
    BY RequestIs
  <1>2. /\ ArePartsOf(w) /\ IsSeq(w) /\ \A n \in DOMAIN w : w[n].at # "set"
    BY <1>1, WhereIs DEF ArePartsOf
  <1>3. /\ ArePartsOf(a) /\ IsSeq(a) /\ DOMAIN a = DOMAIN r.update
        /\ \A n \in DOMAIN r.update : /\ a[n].at = "set" /\ a[n].col = r.update[n][1]
                                      /\ a[n].vals = <<<<r.update[n][2]>>>>
    BY <1>1, SetsIs DEF ArePartsOf
  <1>4. st = Statement("UPDATE", FALSE, p)
    BY TranslatedAs, Zenon DEF UpdateParts
  <1>5. PICK cuts : InOrder(p, cuts)
    BY <1>1, UpdateInOrder DEF UpdateParts
  <1>6. Assigned(d, st, row)[col] = IF set = {} THEN row[col] ELSE Bound(d, st, CHOOSE i \in set : TRUE)[1][1]
    BY DEF Assigned
  <1> HIDE DEF a, w, st
  <1>7. /\ \A n \in DOMAIN a : n \in DOMAIN p /\ p[n] = a[n]
        /\ \A n \in DOMAIN p : \/ n \in DOMAIN a /\ p[n] = a[n]
                               \/ n > Len(a) /\ n - Len(a) \in DOMAIN w /\ p[n] = w[n - Len(a)]
    <2>1. IsSeq(a) /\ IsSeq(w)
      BY <1>2, <1>3
    <2>2. /\ \A n \in DOMAIN a : n \in 1 .. Len(a) /\ n \in DOMAIN (a \o w) /\ (a \o w)[n] = a[n]
          /\ \A n \in DOMAIN (a \o w) :
                \/ n \in DOMAIN a /\ (a \o w)[n] = a[n]
                \/ n > Len(a) /\ n - Len(a) \in DOMAIN w /\ (a \o w)[n] = w[n - Len(a)]
      <3>1. \A n \in DOMAIN a : n \in 1 .. Len(a) /\ n \in DOMAIN (a \o w) /\ (a \o w)[n] = a[n]
        BY <2>1, JoinIs
      <3>2. \A n \in DOMAIN (a \o w) :
               \/ n \in DOMAIN a /\ (a \o w)[n] = a[n]
               \/ n > Len(a) /\ n - Len(a) \in DOMAIN w /\ (a \o w)[n] = w[n - Len(a)]
        BY <2>1, JoinIs, Zenon
      <3> QED
        BY <3>1, <3>2, Zenon
    <2> QED
      BY <2>2, Zenon
  <1>8. ArePartsOf(p)
    BY <1>2, <1>3, PartsJoined, Zenon
  <1> HIDE DEF p
  <1>9. /\ DOMAIN st.clauses = DOMAIN p
        /\ \A i \in DOMAIN p :
              /\ st.clauses[i].at = p[i].at
              /\ st.clauses[i].col = p[i].col
              /\ Bound(d, st, i) = p[i].vals
    <2>1. PICK verb, one : st = Statement(verb, one, p)
      BY <1>4, Zenon
    <2> QED
      BY <1>5, <1>8, <2>1, StatementIs
  <1>10. set = {i \in DOMAIN p : p[i].at = "set" /\ p[i].col = col}
    BY <1>9 DEF At
  <1> HIDE DEF set
  <1>11. ASSUME set = {} PROVE HasOwnValue(r, row, Assigned(d, st, row), col)
    <2>1. \A j \in DOMAIN r.update : r.update[j][1] # col
      BY <1>3, <1>7, <1>10, <1>11
    <2>2. Assigned(d, st, row)[col] = row[col]
      BY <1>6, <1>11, Zenon
    <2> QED
      BY <2>1, <2>2, Zenon DEF HasOwnValue
  <1>12. ASSUME set # {} PROVE HasOwnValue(r, row, Assigned(d, st, row), col)
    <2> DEFINE i == CHOOSE i \in set : TRUE
    <2>1. i \in set
      BY <1>12
    <2>2. Assigned(d, st, row)[col] = Bound(d, st, i)[1][1]
      BY <1>6, <1>12
    <2> HIDE DEF i
    <2>3. i \in DOMAIN r.update /\ p[i] = a[i] /\ p[i].col = col /\ i \in DOMAIN p
      BY <1>2, <1>3, <1>7, <1>10, <2>1
    <2>4. r.update[i][1] = col /\ Bound(d, st, i) = <<<<r.update[i][2]>>>>
      BY <1>3, <1>9, <2>3
    <2>5. Bound(d, st, i)[1][1] = r.update[i][2]
      BY <2>4
    <2> QED
      BY <1>1, <2>2, <2>3, <2>4, <2>5, Zenon DEF HasOwnValue
  <1> QED
    BY <1>11, <1>12, Zenon DEF st

\* An INSERT adds a row for each of its documents and none besides, each with
\* its own values in the columns of the first and NULL in the others.
LEMMA InsertedIs ==
  ASSUME NEW d \in Dialects, NEW ds, IsSeq(ds), IsFiniteSet(DOMAIN ds[1]),
         NEW verb, NEW one, NEW st, st = Statement(verb, one, Rows(ds))
  PROVE  /\ IsFiniteSet(DOMAIN Inserted(d, st))
         /\ \A n \in DOMAIN Inserted(d, st) :
               /\ n \in DOMAIN ds
               /\ \A col \in Columns :
                     Inserted(d, st)[n][col] = IF col \in DOMAIN ds[1] THEN Given(ds[n], col) ELSE Null
  <1> DEFINE p == Rows(ds)
             rows == {st.clauses[i].op : i \in At(st, "row")}
             own(n, col) == {i \in At(st, "row") : st.clauses[i].op = n /\ st.clauses[i].col = col}
  <1>1. /\ ArePartsOf(p)
        /\ \A n \in DOMAIN p :
              /\ p[n].at = "row" /\ p[n].op \in DOMAIN ds /\ p[n].col \in DOMAIN ds[1]
              /\ p[n].vals = <<<<Given(ds[p[n].op], p[n].col)>>>>
        /\ \A i \in DOMAIN ds : \A col \in DOMAIN ds[1] :
              \E n \in DOMAIN p : p[n].op = i /\ p[n].col = col
    BY RowsIs, Zenon
  <1>2. Len(ds) \in Nat /\ DOMAIN ds = 1 .. Len(ds)
    BY SeqIs
  <1>i. /\ DOMAIN Inserted(d, st) = rows
        /\ \A n \in rows : \A col \in Columns :
              Inserted(d, st)[n][col] =
                 IF own(n, col) = {} THEN Null ELSE Bound(d, st, CHOOSE i \in own(n, col) : TRUE)[1][1]
    BY DEF Inserted
  <1> HIDE DEF p
  <1>3. PICK cuts : InOrder(p, cuts)
    <2>1. Order[2] = "row" /\ 2 \in 1 .. 5
      BY DEF Order
    <2>2. IsSeq(p) /\ \A n \in DOMAIN p : p[n].at = Order[2]
      BY <1>1, <2>1 DEF ArePartsOf
    <2> QED
      BY <2>1, <2>2, OnePlace, Zenon
  <1>4. /\ DOMAIN st.clauses = DOMAIN p
        /\ \A i \in DOMAIN p :
              /\ st.clauses[i].at = p[i].at
              /\ st.clauses[i].col = p[i].col
              /\ st.clauses[i].op = p[i].op
              /\ Bound(d, st, i) = p[i].vals
    <2>1. st = Statement(verb, one, p)
      BY DEF p
    <2>2. ArePartsOf(p) /\ InOrder(p, cuts)
      BY <1>1, <1>3
    <2> QED
      BY <2>1, <2>2, StatementIs
  <1>5. /\ At(st, "row") = DOMAIN p
        /\ rows = {p[i].op : i \in DOMAIN p}
    <2>1. At(st, "row") = DOMAIN p
      BY <1>1, <1>4 DEF At
    <2>2. \A i \in DOMAIN p : st.clauses[i].op = p[i].op
      BY <1>4
    <2> QED
      BY <2>1, <2>2
  <1> HIDE DEF rows
  <1>8. rows \subseteq DOMAIN ds
    <2>1. \A i \in DOMAIN p : p[i].op \in DOMAIN ds
      BY <1>1
    <2>2. \A x \in rows : \E i \in DOMAIN p : x = p[i].op
      BY <1>5
    <2> QED
      BY <2>1, <2>2
  <1>6. IsFiniteSet(rows)
    <2>1. rows \subseteq DOMAIN ds
      BY <1>8
    <2>2. IsFiniteSet(1 .. Len(ds))
      BY <1>2, FS_Interval
    <2> QED
      BY <1>2, <2>1, <2>2, FS_Subset
  <1>7. ASSUME NEW n \in rows, NEW col \in Columns
        PROVE  Inserted(d, st)[n][col] = IF col \in DOMAIN ds[1] THEN Given(ds[n], col) ELSE Null
    <2>0. own(n, col) = {i \in DOMAIN p : p[i].op = n /\ p[i].col = col}
      BY <1>4, <1>5
    <2>1. CASE col \notin DOMAIN ds[1]
      <3>1. own(n, col) = {}
        BY <1>1, <2>0, <2>1
      <3> QED
        BY <1>i, <2>1, <3>1, Zenon
    <2>2. CASE col \in DOMAIN ds[1]
      <3> DEFINE i == CHOOSE i \in own(n, col) : TRUE
      <3>1. own(n, col) # {}
        <4>1. n \in DOMAIN ds
          BY <1>1, <1>5
        <4>2. PICK k \in DOMAIN p : p[k].op = n /\ p[k].col = col
          BY <1>1, <2>2, <4>1
        <4>3. k \in own(n, col)
          BY <2>0, <4>2
        <4> QED
          BY <4>3
      <3>2. i \in own(n, col)
        BY <3>1
      <3>3. Inserted(d, st)[n][col] = Bound(d, st, i)[1][1]
        <4>1. Inserted(d, st)[n][col] = IF own(n, col) = {} THEN Null ELSE Bound(d, st, i)[1][1]
          BY <1>i, Zenon
        <4> QED
          BY <3>1, <4>1, Zenon
      <3> HIDE DEF i
      <3>4. i \in DOMAIN p /\ p[i].op = n /\ p[i].col = col
        BY <2>0, <3>2
      <3>5. Bound(d, st, i) = <<<<Given(ds[n], col)>>>>
        BY <1>1, <1>4, <3>4
      <3> QED
        BY <2>2, <3>3, <3>5, OneValue
    <2> QED
      BY <2>1, <2>2
  <1> QED
    BY <1>i, <1>6, <1>7, <1>8, Zenon

LEMMA InsertedDocs ==
  ASSUME NEW r \in Requests, NEW d \in Dialects, Translatable(d, r),
         r.action \in {"insert_one", "insert_many"}
  PROVE  /\ IsFiniteSet(DOMAIN Inserted(d, Translated(d, r)))
         /\ \A n \in DOMAIN Inserted(d, Translated(d, r)) : \E j \in DOMAIN r.docs : \A col \in Columns :
               Inserted(d, Translated(d, r))[n][col] =
                  IF col \in DOMAIN r.docs[1] THEN Given(r.docs[j], col) ELSE Null
  <1> DEFINE st == Translated(d, r)
  <1>1. IsSeq(r.docs)
    BY RequestIs
  <1>2. r.docs # <<>> /\ \A i \in DOMAIN r.docs : DOMAIN r.docs[i] \subseteq Columns
    BY DEF Translatable
  <1>3. 1 \in DOMAIN r.docs
    BY <1>1, <1>2, EmptySeq, SeqIs DEF IsSeq
  <1>4. IsFiniteSet(DOMAIN r.docs[1])
    BY <1>2, <1>3, SqlAssumption, FS_Subset DEF SqlAssumption
  <1>5. CASE r.action = "insert_many"
    <2>1. \E verb, one : st = Statement(verb, one, Rows(r.docs))
      BY <1>5, TranslatedAs, Zenon
    <2>2. PICK verb, one : st = Statement(verb, one, Rows(r.docs))
      BY <2>1, Zenon
    <2> HIDE DEF st
    <2>3. /\ IsFiniteSet(DOMAIN Inserted(d, st))
          /\ \A n \in DOMAIN Inserted(d, st) :
                /\ n \in DOMAIN r.docs
                /\ \A col \in Columns :
                      Inserted(d, st)[n][col] = IF col \in DOMAIN r.docs[1] THEN Given(r.docs[n], col) ELSE Null
      BY <1>1, <1>4, <2>2, InsertedIs
    <2> QED
      BY <2>3, Zenon DEF st
  <1>6. CASE r.action = "insert_one"
    <2> DEFINE ds == <<r.docs[1]>>
    <2>1. \E verb, one : st = Statement(verb, one, Rows(ds))
      BY <1>6, TranslatedAs, Zenon
    <2>2. ds \in Seq({r.docs[1]}) /\ ds[1] = r.docs[1] /\ DOMAIN ds = {1}
      OBVIOUS
    <2>3. IsSeq(ds)
      BY <2>2, IsSeqOf, Zenon
    <2> HIDE DEF st, ds
    <2>4. PICK verb, one : st = Statement(verb, one, Rows(ds))
      BY <2>1, Zenon
    <2>5. IsFiniteSet(DOMAIN ds[1])
      BY <1>4, <2>2
    <2>6. /\ IsFiniteSet(DOMAIN Inserted(d, st))
          /\ \A n \in DOMAIN Inserted(d, st) :
                /\ n \in DOMAIN ds
                /\ \A col \in Columns :
                      Inserted(d, st)[n][col] = IF col \in DOMAIN ds[1] THEN Given(ds[n], col) ELSE Null
      BY <2>3, <2>4, <2>5, InsertedIs
    <2>7. \A n \in DOMAIN Inserted(d, st) : \A col \in Columns :
             Inserted(d, st)[n][col] = IF col \in DOMAIN r.docs[1] THEN Given(r.docs[1], col) ELSE Null
      BY <2>2, <2>6
    <2> QED
      BY <1>3, <2>6, <2>7, Zenon DEF st
  <1> QED
    BY <1>5, <1>6

----------------------------------------------------------------------------
(* The answers.                                                            *)

\* What a call in the pool asks, and what one that has no answer yet has done.
AskedInv ==
    /\ dialect \in Dialects
    /\ pc \in [Calls -> {"idle", "pool", "done"}]
    /\ DOMAIN req = Calls /\ DOMAIN query = Calls /\ DOMAIN answer = Calls
    /\ DOMAIN docs = Calls /\ touched = [c \in Calls |-> touched[c]]
    /\ \A c \in Calls :
          /\ pc[c] = "pool" => /\ req[c] \in Requests
                               /\ Translatable(dialect, req[c])
                               /\ query[c] = Translated(dialect, req[c])
          /\ pc[c] # "done" => touched[c] = 0 /\ answer[c].status = "none"

LEMMA VerbOfAction ==
  ASSUME NEW r \in Requests, NEW d, Translatable(d, r)
  PROVE  /\ Translated(d, r).verb = "DELETE" => r.action \in {"delete_one", "delete_many"}
         /\ Translated(d, r).verb = "SELECT" => r.action = "find"
         /\ Translated(d, r).verb = "COUNT"  => r.action = "count"
         /\ Translated(d, r).verb = "UPDATE" => r.action = "update_one"
         /\ Translated(d, r).verb = "INSERT" => r.action \in {"insert_one", "insert_many"}
  <1>1. r.action \in RequestActions \ {"update_many"}
    BY SqlAssumption, Zenon DEF SqlAssumption, Translatable
  <1>2. \A v, o, p : Statement(v, o, p).verb = v
    BY DEF Statement
  <1> DEFINE a == r.action
             v == Translated(d, r).verb
  <1>3. /\ a = "find" => v = "SELECT"
        /\ a = "count" => v = "COUNT"
        /\ a = "insert_one" => v = "INSERT"
        /\ a = "insert_many" => v = "INSERT"
        /\ a = "update_one" => v = "UPDATE"
        /\ a \in {"delete_one", "delete_many"} => v = "DELETE"
    <2>1. \A w, o, p : Translated(d, r) = Statement(w, o, p) => v = w
      BY <1>2, Zenon
    <2> HIDE DEF v
    <2> QED
      BY <2>1, TranslatedAs, Zenon
  <1> HIDE DEF v
  <1> QED
    BY <1>1, <1>3 DEF RequestActions, v

\* A call that has its answer is told by Tells what it touched.
LEMMA TellsTouched ==
  ASSUME NEW c \in Calls, NEW n, NEW m, NEW k, AskedInv, pc[c] = "pool",
         k = IF dialect = "mysql" THEN n ELSE m
  PROVE  \/ Tells(c, n, m) = k
         \/ dialect = "postgres" /\ Says(c) /\ req[c].action \in {"delete_one", "delete_many"}
  <1>1. query[c].verb = "DELETE" => req[c].action \in {"delete_one", "delete_many"}
    <2>1. /\ req[c] \in Requests
          /\ Translatable(dialect, req[c])
          /\ query[c] = Translated(dialect, req[c])
      BY Zenon DEF AskedInv
    <2> QED
      BY <2>1, VerbOfAction, Zenon
  <1>2. dialect \in {"postgres", "mysql"}
    BY DEF AskedInv, Dialects
  <1> QED
    BY <1>1, <1>2 DEF Tells

\* Once a call has its answer nothing of it changes, and the answer is true of it.
AnsweredInv == AskedInv /\ CountsAreTrue

LEMMA AnsweredInit == Init => AnsweredInv
  BY DEF Init, AnsweredInv, AskedInv, CountsAreTrue, NoRequest, NoQuery, Nothing

\* What one call of a step of the server leaves to show for the invariant.
LEMMA AnsweredAfter ==
  ASSUME AnsweredInv, NEW c \in Calls, NEW n, NEW k, pc[c] = "pool",
         UNCHANGED <<dialect, wordy, req, query>>, DOMAIN docs' = Calls,
         Settles(c, n), touched' = [touched EXCEPT ![c] = k],
         \/ n = k
         \/ dialect = "postgres" /\ Says(c) /\ req[c].action \in {"delete_one", "delete_many"}
  PROVE  AnsweredInv'
  <1>1. AskedInv /\ CountsAreTrue
    BY DEF AnsweredInv
  <1>2. /\ pc' = [pc EXCEPT ![c] = "done"]
        /\ DOMAIN answer' = Calls
        /\ \A d \in Calls : d # c => answer'[d] = answer[d] /\ touched'[d] = touched[d] /\ pc'[d] = pc[d]
        /\ pc'[c] = "done" /\ touched'[c] = k
        /\ answer'[c] = [status |-> "ok", n |-> n] \/ answer'[c] = [status |-> "error", n |-> 0]
    BY <1>1 DEF Settles, Answers, Raises, AskedInv
  <1>3. AskedInv'
    <2>1. pc' \in [Calls -> {"idle", "pool", "done"}]
      BY <1>1, <1>2 DEF AskedInv
    <2>2. touched' = [e \in Calls |-> touched'[e]] /\ DOMAIN req' = Calls /\ DOMAIN query' = Calls
      BY <1>1 DEF AskedInv
    <2>3. ASSUME NEW e \in Calls
          PROVE  /\ pc'[e] = "pool" => /\ req'[e] \in Requests
                                       /\ Translatable(dialect', req'[e])
                                       /\ query'[e] = Translated(dialect', req'[e])
                 /\ pc'[e] # "done" => touched'[e] = 0 /\ answer'[e].status = "none"
      <3>1. e # c => pc'[e] = pc[e] /\ touched'[e] = touched[e] /\ answer'[e] = answer[e]
        BY <1>2
      <3>2. dialect' = dialect /\ req' = req /\ query' = query
        OBVIOUS
      <3>3. e = c => pc'[e] # "pool" /\ pc'[e] = "done"
        BY <1>2
      <3> QED
        BY <1>1, <3>1, <3>2, <3>3, Zenon DEF AskedInv
    <2> QED
      BY <1>1, <1>2, <2>1, <2>2, <2>3, Zenon DEF AskedInv
  <1>4. CountsAreTrue'
    <2> SUFFICES ASSUME NEW e \in Calls
                 PROVE  /\ answer'[e].status = "refused" => touched'[e] = 0
                        /\ answer'[e].status = "ok" =>
                              \/ answer'[e].n = touched'[e]
                              \/ dialect' = "postgres" /\ Says(e)' /\ req'[e].action \in {"delete_one", "delete_many"}
      BY Zenon DEF CountsAreTrue
    <2>a. Says(e)' = Says(e)
      BY DEF Says
    <2>1. CASE e = c
      BY <1>2, <2>1, <2>a
    <2>2. CASE e # c
      BY <1>1, <1>2, <2>2, <2>a DEF CountsAreTrue
    <2> QED
      BY <2>1, <2>2
  <1> QED
    BY <1>3, <1>4 DEF AnsweredInv

LEMMA AnsweredNext == AnsweredInv /\ [Next]_vars => AnsweredInv'
  <1> SUFFICES ASSUME AnsweredInv, [Next]_vars PROVE AnsweredInv'
    OBVIOUS
  <1>1. CASE UNCHANGED vars
    BY <1>1 DEF vars, AnsweredInv, AskedInv, CountsAreTrue, Says
  <1> SUFFICES ASSUME NEW c \in Calls,
                      \/ \E r \in Requests : Ask(c, r)
                      \/ Select(c) \/ Count(c) \/ Update(c) \/ Delete(c) \/ Insert(c) \/ Fails(c)
               PROVE  AnsweredInv'
    BY <1>1, Zenon DEF Next
  <1>a. AskedInv /\ CountsAreTrue /\ DOMAIN docs = Calls
    BY DEF AnsweredInv, AskedInv
  <1>2. ASSUME NEW r \in Requests, Ask(c, r) PROVE AnsweredInv'
    <2>1. /\ DOMAIN pc' = Calls /\ DOMAIN req' = Calls /\ DOMAIN query' = Calls /\ DOMAIN answer' = Calls
          /\ \A e \in Calls : e # c => /\ pc'[e] = pc[e] /\ req'[e] = req[e]
                                       /\ query'[e] = query[e] /\ answer'[e] = answer[e]
          /\ UNCHANGED <<dialect, wordy, docs, touched>>
          /\ req'[c] = r /\ pc[c] = "idle"
          /\ \/ /\ pc' = [pc EXCEPT ![c] = "pool"] /\ pc'[c] = "pool" /\ Translatable(dialect, r)
                /\ query'[c] = Translated(dialect, r) /\ answer' = answer
             \/ /\ pc' = [pc EXCEPT ![c] = "done"] /\ pc'[c] = "done" /\ answer'[c] = [status |-> "refused", n |-> 0]
      BY <1>2, <1>a DEF Ask, AskedInv
    <2>2. pc' \in [Calls -> {"idle", "pool", "done"}]
      BY <2>1, <1>a DEF AskedInv
    <2>3. touched[c] = 0 /\ answer[c].status = "none"
      BY <1>a, <2>1 DEF AskedInv
    <2>4. ASSUME NEW e \in Calls
          PROVE  /\ pc'[e] = "pool" => /\ req'[e] \in Requests
                                       /\ Translatable(dialect', req'[e])
                                       /\ query'[e] = Translated(dialect', req'[e])
                 /\ pc'[e] # "done" => touched'[e] = 0 /\ answer'[e].status = "none"
      <3>1. CASE e = c
        <4>1. CASE pc'[c] = "pool"
          BY <2>1, <2>3, <3>1, <4>1
        <4>2. CASE pc'[c] = "done"
          BY <3>1, <4>2
        <4> QED
          BY <2>1, <4>1, <4>2
      <3>2. CASE e # c
        BY <1>a, <2>1, <3>2, Zenon DEF AskedInv
      <3> QED
        BY <3>1, <3>2
    <2>5. AskedInv'
      BY <1>a, <2>1, <2>2, <2>4, Zenon DEF AskedInv
    <2>6. CountsAreTrue'
      <3> SUFFICES ASSUME NEW e \in Calls
                   PROVE  /\ answer'[e].status = "refused" => touched'[e] = 0
                          /\ answer'[e].status = "ok" =>
                                \/ answer'[e].n = touched'[e]
                                \/ dialect' = "postgres" /\ Says(e)' /\ req'[e].action \in {"delete_one", "delete_many"}
        BY Zenon DEF CountsAreTrue
      <3>1. CASE e = c
        BY <2>1, <2>3, <3>1
      <3>2. CASE e # c
        <4>1. Says(e)' = Says(e)
          BY <2>1, <3>2 DEF Says
        <4> QED
          BY <1>a, <2>1, <3>2, <4>1 DEF CountsAreTrue
      <3> QED
        BY <3>1, <3>2
    <2> QED
      BY <2>5, <2>6 DEF AnsweredInv
  <1>3. ASSUME Select(c) PROVE AnsweredInv'
    <2>1. PICK S \in Window(c) : Settles(c, Cardinality(S)) /\ touched' = [touched EXCEPT ![c] = Cardinality(S)]
                                 /\ DOMAIN docs' = DOMAIN docs
      BY <1>3 DEF Select
    <2>2. pc[c] = "pool" /\ UNCHANGED <<dialect, wordy, req, query>>
      BY <1>3 DEF Select
    <2> QED
      BY <1>a, <2>1, <2>2, AnsweredAfter, Zenon
  <1>4. ASSUME Count(c) PROVE AnsweredInv'
    BY <1>4, <1>a, AnsweredAfter DEF Count
  <1>5. ASSUME Update(c) PROVE AnsweredInv'
    <2> DEFINE found == Selected(c)
               new == [i \in DOMAIN table |->
                          IF i \in found THEN Assigned(dialect, query[c], table[i]) ELSE table[i]]
               n == Cardinality({i \in DOMAIN table : new[i] # table[i]})
               m == Cardinality(found)
               k == IF dialect = "mysql" THEN n ELSE m
    <2>1. Settles(c, Tells(c, n, m)) /\ touched' = [touched EXCEPT ![c] = k]
      BY <1>5, Zenon DEF Update
    <2>2. pc[c] = "pool" /\ UNCHANGED <<dialect, wordy, req, query, docs>>
      BY <1>5 DEF Update
    <2> HIDE DEF n, m
    <2>4. \/ Tells(c, n, m) = k
          \/ dialect = "postgres" /\ Says(c) /\ req[c].action \in {"delete_one", "delete_many"}
      BY <1>a, <2>2, TellsTouched, Zenon
    <2> QED
      BY <1>a, <2>1, <2>2, <2>4, AnsweredAfter, Zenon
  <1>6. ASSUME Delete(c) PROVE AnsweredInv'
    <2>1. PICK S : /\ Settles(c, Tells(c, Cardinality(S), Cardinality(S)))
                   /\ touched' = [touched EXCEPT ![c] = Cardinality(S)]
      BY <1>6 DEF Delete
    <2>2. pc[c] = "pool" /\ UNCHANGED <<dialect, wordy, req, query, docs>>
      BY <1>6 DEF Delete
    <2> DEFINE k == Cardinality(S)
    <2> HIDE DEF k
    <2>3. k = IF dialect = "mysql" THEN k ELSE k
      OBVIOUS
    <2>4. \/ Tells(c, k, k) = k
          \/ dialect = "postgres" /\ Says(c) /\ req[c].action \in {"delete_one", "delete_many"}
      BY <1>a, <2>2, <2>3, TellsTouched, Zenon
    <2>5. Settles(c, Tells(c, k, k)) /\ touched' = [touched EXCEPT ![c] = k]
      BY <2>1 DEF k
    <2> QED
      BY <1>a, <2>2, <2>4, <2>5, AnsweredAfter, Zenon
  <1>7. ASSUME Insert(c) PROVE AnsweredInv'
    <2> DEFINE k == Cardinality(DOMAIN Inserted(dialect, query[c]))
    <2>1. Settles(c, Tells(c, k, k)) /\ touched' = [touched EXCEPT ![c] = k]
      BY <1>7 DEF Insert
    <2>2. pc[c] = "pool" /\ UNCHANGED <<dialect, wordy, req, query, docs>>
      BY <1>7 DEF Insert
    <2> HIDE DEF k
    <2>3. k = IF dialect = "mysql" THEN k ELSE k
      OBVIOUS
    <2>4. \/ Tells(c, k, k) = k
          \/ dialect = "postgres" /\ Says(c) /\ req[c].action \in {"delete_one", "delete_many"}
      BY <1>a, <2>2, <2>3, TellsTouched, Zenon
    <2> QED
      BY <1>a, <2>1, <2>2, <2>4, AnsweredAfter, Zenon
  <1>8. ASSUME Fails(c) PROVE AnsweredInv'
    <2>1. /\ touched' = [touched EXCEPT ![c] = 0]
          /\ Settles(c, 0) /\ pc[c] = "pool" /\ UNCHANGED <<dialect, wordy, req, query, docs>>
      <3>1. touched[c] = 0 /\ touched = [e \in Calls |-> touched[e]]
        BY <1>8, <1>a, Zenon DEF Fails, AskedInv
      <3>2. [touched EXCEPT ![c] = 0] = touched
        BY <3>1
      <3> QED
        BY <1>8, <3>2, Zenon DEF Fails, Settles
    <2> QED
      BY <1>a, <2>1, AnsweredAfter, Zenon
  <1> QED
    BY <1>2, <1>3, <1>4, <1>5, <1>6, <1>7, <1>8

\* An answered count is what the statement found, added, removed or changed,
\* and nothing was touched for a refused request.
THEOREM CountsTold == Spec => []CountsAreTrue
  <1>1. AnsweredInv => CountsAreTrue
    BY DEF AnsweredInv
  <1> QED
    BY <1>1, AnsweredInit, AnsweredNext, PTL DEF Spec

----------------------------------------------------------------------------
(* What the statements do.                                                 *)

\* The table stays finite, and a find that has no answer yet has returned no rows.
TableInv ==
    /\ IsFiniteSet(DOMAIN table)
    /\ \A c \in Calls : pc[c] # "done" => docs[c] = {}

StatementInv == AnsweredInv /\ TableInv

LEMMA StatementInit == Init => StatementInv
  <1>1. Init => TableInv
    BY SqlAssumption DEF SqlAssumption, Init, TableInv
  <1> QED
    BY <1>1, AnsweredInit DEF StatementInv

\* In the pool, a call has the statement its request was translated to.
LEMMA PoolIs ==
  ASSUME AnsweredInv, NEW c \in Calls, pc[c] = "pool"
  PROVE  /\ req[c] \in Requests /\ dialect \in Dialects /\ Translatable(dialect, req[c])
         /\ query[c] = Translated(dialect, req[c])
         /\ query[c].verb = "DELETE" => req[c].action \in {"delete_one", "delete_many"}
         /\ query[c].verb = "SELECT" => req[c].action = "find"
         /\ query[c].verb = "COUNT"  => req[c].action = "count"
         /\ query[c].verb = "UPDATE" => req[c].action = "update_one"
         /\ query[c].verb = "INSERT" => req[c].action \in {"insert_one", "insert_many"}
  <1>1. /\ req[c] \in Requests /\ dialect \in Dialects /\ Translatable(dialect, req[c])
        /\ query[c] = Translated(dialect, req[c])
    BY Zenon DEF AnsweredInv, AskedInv
  <1> QED
    BY <1>1, VerbOfAction, Zenon

\* The server's half of a call ends it, whatever it answers.
LEMMA SettlesEnds ==
  ASSUME AnsweredInv, NEW c \in Calls, NEW n, Settles(c, n)
  PROVE  pc' = [pc EXCEPT ![c] = "done"] /\ \A e \in Calls : pc'[e] # "done" => e # c /\ pc'[e] = pc[e]
  BY DEF Settles, Answers, Raises, AnsweredInv, AskedInv

LEMMA TableNext == StatementInv /\ [Next]_vars => TableInv'
  <1> SUFFICES ASSUME StatementInv, [Next]_vars PROVE TableInv'
    OBVIOUS
  <1>a. AnsweredInv /\ TableInv /\ DOMAIN docs = Calls
    BY DEF StatementInv, AnsweredInv, AskedInv
  <1>1. CASE UNCHANGED vars
    BY <1>1, <1>a DEF vars, TableInv
  <1> SUFFICES ASSUME NEW c \in Calls,
                      \/ \E r \in Requests : Ask(c, r)
                      \/ Select(c) \/ Count(c) \/ Update(c) \/ Delete(c) \/ Insert(c) \/ Fails(c)
               PROVE  TableInv'
    BY <1>1, Zenon DEF Next
  <1>2. ASSUME NEW r \in Requests, Ask(c, r) PROVE TableInv'
    <2>1. UNCHANGED <<table, docs>> /\ pc[c] = "idle" /\ \A e \in Calls : e # c => pc'[e] = pc[e]
      BY <1>2, <1>a DEF Ask, AnsweredInv, AskedInv
    <2> QED
      BY <1>a, <2>1 DEF TableInv
  <1>3. ASSUME NEW n, Settles(c, n), IsFiniteSet(DOMAIN table'), \A e \in Calls : e # c => docs'[e] = docs[e]
        PROVE  TableInv'
    <2>1. \A e \in Calls : pc'[e] # "done" => e # c /\ pc'[e] = pc[e]
      BY <1>3, <1>a, SettlesEnds
    <2> QED
      BY <1>3, <1>a, <2>1 DEF TableInv
  <1>4. ASSUME Select(c) PROVE TableInv'
    <2>1. PICK S \in Window(c) : Settles(c, Cardinality(S)) /\ docs' = [docs EXCEPT ![c] = {table[i] : i \in S}]
      BY <1>4, Zenon DEF Select
    <2>2. table' = table
      BY <1>4 DEF Select
    <2>3. IsFiniteSet(DOMAIN table')
      BY <1>a, <2>2 DEF TableInv
    <2>4. \A e \in Calls : e # c => docs'[e] = docs[e]
      BY <1>a, <2>1
    <2> QED
      BY <1>3, <2>1, <2>3, <2>4, Zenon
  <1>5. ASSUME Count(c) PROVE TableInv'
    BY <1>3, <1>5, <1>a DEF Count, TableInv
  <1>6. ASSUME Update(c) PROVE TableInv'
    <2>1. (\E n : Settles(c, n)) /\ docs' = docs /\ DOMAIN table' = DOMAIN table
      BY <1>6 DEF Update
    <2> QED
      BY <1>3, <1>a, <2>1 DEF TableInv
  <1>7. ASSUME Delete(c) PROVE TableInv'
    <2>1. (\E n : Settles(c, n)) /\ docs' = docs /\ DOMAIN table' \subseteq DOMAIN table
      BY <1>7 DEF Delete
    <2>2. IsFiniteSet(DOMAIN table')
      BY <1>a, <2>1, FS_Subset DEF TableInv
    <2> QED
      BY <1>3, <2>1, <2>2
  <1>8. ASSUME Insert(c) PROVE TableInv'
    <2> DEFINE D == DOMAIN Inserted(dialect, query[c])
    <2>1. PICK f \in [D -> Ids \ DOMAIN table] :
             (\E n : Settles(c, n)) /\ DOMAIN table' = DOMAIN table \union {f[n] : n \in D}
      BY <1>8 DEF Insert
    <2>2. docs' = docs /\ pc[c] = "pool" /\ query[c].verb = "INSERT"
      BY <1>8 DEF Insert
    <2>3. IsFiniteSet(D)
      <3>1. /\ req[c] \in Requests /\ dialect \in Dialects /\ Translatable(dialect, req[c])
            /\ req[c].action \in {"insert_one", "insert_many"} /\ query[c] = Translated(dialect, req[c])
        BY <1>a, <2>2, PoolIs
      <3> QED
        BY <3>1, InsertedDocs
    <2> HIDE DEF D
    <2>4. f \in Surjection(D, {f[n] : n \in D})
      BY DEF Surjection
    <2>5. IsFiniteSet({f[n] : n \in D})
      BY <2>3, <2>4, FS_Surjection
    <2>6. IsFiniteSet(DOMAIN table')
      <3> DEFINE T == {f[n] : n \in D}
      <3>1. IsFiniteSet(T) /\ DOMAIN table' = DOMAIN table \union T
        BY <2>1, <2>5
      <3> HIDE DEF T
      <3>2. IsFiniteSet(DOMAIN table)
        BY <1>a DEF TableInv
      <3>3. IsFiniteSet(DOMAIN table \union T)
        BY <3>1, <3>2, FS_Union, Zenon
      <3> QED
        BY <3>1, <3>3
    <2> QED
      BY <1>3, <2>1, <2>2, <2>6
  <1>9. ASSUME Fails(c) PROVE TableInv'
    <2>1. Settles(c, 0) /\ UNCHANGED <<table, docs>>
      BY <1>9 DEF Fails, Settles
    <2> QED
      BY <1>3, <1>a, <2>1 DEF TableInv
  <1> QED
    BY <1>2, <1>4, <1>5, <1>6, <1>7, <1>8, <1>9

LEMMA StatementNext == StatementInv /\ [Next]_vars => StatementInv'
  BY AnsweredNext, TableNext, Zenon DEF StatementInv

\* A step that leaves the table alone does no more than a find may.
LEMMA DoesNothing ==
  ASSUME NEW c \in Calls, UNCHANGED table,
         req[c].action = "find" => \A row \in docs'[c] : Meant(req[c], row)
  PROVE  Does(c)
  <1>1. DOMAIN table' = DOMAIN table /\ DOMAIN table \ DOMAIN table = {}
    OBVIOUS
  <1>2. Cardinality({}) = 0
    BY FS_EmptySet
  <1>3. Cardinality(DOMAIN table \ DOMAIN table') <= 1
    BY <1>1, <1>2
  <1> QED
    BY <1>1, <1>3 DEF Does

LEMMA SelectDoes ==
  ASSUME StatementInv, NEW c \in Calls, Select(c)
  PROVE  Does(c)
  <1>1. pc[c] = "pool" /\ query[c].verb = "SELECT" /\ table' = table
    BY DEF Select
  <1>2. AnsweredInv /\ DOMAIN docs = Calls
    BY DEF StatementInv, AnsweredInv, AskedInv
  <1>3. /\ req[c] \in Requests /\ dialect \in Dialects
        /\ query[c] = Translated(dialect, req[c]) /\ req[c].action = "find"
    BY <1>1, <1>2, PoolIs
  <1>4. PICK S \in Window(c) : docs' = [docs EXCEPT ![c] = {table[i] : i \in S}]
    BY Zenon DEF Select
  <1>5. S \subseteq Selected(c)
    BY <1>4 DEF Window, kSubset
  <1>6. docs'[c] = {table[i] : i \in S}
    BY <1>2, <1>4
  <1>7. ASSUME NEW i \in S PROVE Meant(req[c], table[i])
    <2>1. Selects(dialect, query[c], table[i])
      BY <1>5 DEF Selected
    <2> QED
      BY <1>3, <2>1, SelectsMeant
  <1> QED
    BY <1>1, <1>6, <1>7, DoesNothing

LEMMA UpdateDoes ==
  ASSUME StatementInv, NEW c \in Calls, Update(c)
  PROVE  Does(c)
  <1> DEFINE found == Selected(c)
             new(i) == IF i \in found THEN Assigned(dialect, query[c], table[i]) ELSE table[i]
  <1>1. pc[c] = "pool" /\ query[c].verb = "UPDATE" /\ table' = [i \in DOMAIN table |-> new(i)]
    BY DEF Update
  <1>3. /\ req[c] \in Requests /\ dialect \in Dialects
        /\ query[c] = Translated(dialect, req[c]) /\ req[c].action = "update_one"
    BY <1>1, PoolIs DEF StatementInv
  <1>4. ASSUME NEW i \in DOMAIN table, table'[i] # table[i]
        PROVE  /\ Meant(req[c], table[i])
               /\ table'[i] = Assigned(dialect, Translated(dialect, req[c]), table[i])
    <2>1. i \in found /\ table'[i] = Assigned(dialect, query[c], table[i])
      BY <1>1, <1>4
    <2>2. Selects(dialect, query[c], table[i])
      BY <2>1 DEF Selected
    <2> QED
      BY <1>3, <2>1, <2>2, SelectsMeant
  <1>5. DOMAIN table' = DOMAIN table
    BY <1>1
  <1> HIDE DEF new, found
  <1>6. ASSUME NEW i \in DOMAIN table, table'[i] # table[i], NEW col \in Columns
        PROVE  \/ \E j \in DOMAIN req[c].update : req[c].update[j] = <<col, table'[i][col]>>
               \/ table'[i][col] = table[i][col] /\ \A j \in DOMAIN req[c].update : req[c].update[j][1] # col
    <2> DEFINE row == table[i]
               r == req[c]
               d == dialect
    <2>1. table'[i] = Assigned(d, Translated(d, r), row)
      BY <1>4, <1>6
    <2>2. r \in Requests /\ d \in Dialects /\ r.action = "update_one"
      BY <1>3
    <2> HIDE DEF row, r, d
    <2>3. HasOwnValue(r, row, Assigned(d, Translated(d, r), row), col)
      BY <2>2, AssignedIs, Zenon
    <2>4. HasOwnValue(r, row, table'[i], col)
      BY <2>1, <2>3, Zenon
    <2> QED
      BY <2>4, Zenon DEF row, r, HasOwnValue
  <1>7. \A i \in DOMAIN table : \/ i \in DOMAIN table' /\ table'[i] = table[i]
                                \/ req[c].action \in {"update_one", "delete_one", "delete_many"} /\ Meant(req[c], table[i])
    BY <1>3, <1>4, <1>5
  <1>8. req[c].action # "find" /\ req[c].action # "delete_one" /\ DOMAIN table' \ DOMAIN table = {}
    BY <1>3, <1>5
  <1> QED
    BY <1>6, <1>7, <1>8, Zenon DEF Does

LEMMA DeleteDoes ==
  ASSUME StatementInv, NEW c \in Calls, Delete(c)
  PROVE  Does(c)
  <1>1. pc[c] = "pool" /\ query[c].verb = "DELETE"
    BY DEF Delete
  <1>2. PICK S : /\ S \in IF query[c].one THEN kSubset(Min({1, Cardinality(Selected(c))}), Selected(c))
                           ELSE {Selected(c)}
                 /\ table' = [i \in DOMAIN table \ S |-> table[i]]
    BY Zenon DEF Delete
  <1>3. /\ req[c] \in Requests /\ dialect \in Dialects
        /\ query[c] = Translated(dialect, req[c]) /\ req[c].action \in {"delete_one", "delete_many"}
    BY <1>1, PoolIs DEF StatementInv
  <1>4. S \subseteq Selected(c)
    BY <1>2 DEF kSubset
  <1>5. ASSUME NEW i \in DOMAIN table, i \in S PROVE Meant(req[c], table[i])
    <2>1. Selects(dialect, query[c], table[i])
      BY <1>4, <1>5 DEF Selected
    <2> QED
      BY <1>3, <2>1, SelectsMeant
  <1>6. /\ DOMAIN table' = DOMAIN table \ S
        /\ \A i \in DOMAIN table \ S : table'[i] = table[i]
    BY <1>2
  <1>7. ASSUME req[c].action = "delete_one" PROVE Cardinality(DOMAIN table \ DOMAIN table') <= 1
    <2>1. query[c].one
      <3>1. query[c] = Statement("DELETE", Single(req[c]), Where(dialect, req[c].filter))
        BY <1>3, <1>7, TranslatedAs, Zenon
      <3>2. query[c].one = Single(req[c])
        BY <3>1 DEF Statement
      <3> QED
        BY <1>7, <3>2 DEF Single
    <2> DEFINE k == Cardinality(Selected(c))
    <2>2. k \in Nat
      <3>1. IsFiniteSet(DOMAIN table) /\ Selected(c) \subseteq DOMAIN table
        BY DEF StatementInv, TableInv, Selected
      <3> QED
        BY <3>1, FS_Subset, FS_CardinalityType
    <2>3. Cardinality(S) = Min({1, k})
      BY <1>2, <2>1 DEF kSubset
    <2> HIDE DEF k
    <2>4. Min({1, k}) <= 1
      <3> DEFINE m == IF k < 1 THEN k ELSE 1
      <3>1. m \in {1, k} /\ \A y \in {1, k} : m <= y
        BY <2>2
      <3>2. \E x \in {1, k} : \A y \in {1, k} : x <= y
        BY <3>1
      <3>3. Min({1, k}) \in {1, k} /\ \A y \in {1, k} : Min({1, k}) <= y
        BY <3>2, Zenon DEF Min
      <3> QED
        BY <3>3
    <2>5. DOMAIN table \ DOMAIN table' = S
      <3>1. S \subseteq DOMAIN table
        BY <1>4 DEF Selected
      <3> QED
        BY <1>6, <3>1
    <2> QED
      BY <2>3, <2>4, <2>5
  <1>8. \A i \in DOMAIN table : \/ i \in DOMAIN table' /\ table'[i] = table[i]
                                \/ req[c].action \in {"update_one", "delete_one", "delete_many"} /\ Meant(req[c], table[i])
    BY <1>3, <1>5, <1>6
  <1>9. req[c].action # "find" /\ req[c].action # "update_one" /\ DOMAIN table' \ DOMAIN table = {}
    BY <1>3, <1>6
  <1> QED
    BY <1>7, <1>8, <1>9, Zenon DEF Does

LEMMA InsertDoes ==
  ASSUME StatementInv, NEW c \in Calls, Insert(c)
  PROVE  Does(c)
  <1> DEFINE rows == Inserted(dialect, query[c])
  <1>1. pc[c] = "pool" /\ query[c].verb = "INSERT"
    BY DEF Insert
  <1>2. PICK f \in [DOMAIN rows -> Ids \ DOMAIN table] :
           table' = [i \in DOMAIN table \union {f[n] : n \in DOMAIN rows} |->
                       IF i \in DOMAIN table THEN table[i] ELSE rows[CHOOSE n \in DOMAIN rows : f[n] = i]]
    BY Zenon DEF Insert
  <1>3. /\ req[c] \in Requests /\ dialect \in Dialects /\ Translatable(dialect, req[c])
        /\ query[c] = Translated(dialect, req[c]) /\ req[c].action \in {"insert_one", "insert_many"}
    BY <1>1, PoolIs DEF StatementInv
  <1>4. \A n \in DOMAIN rows : \E j \in DOMAIN req[c].docs : \A col \in Columns :
           rows[n][col] = IF col \in DOMAIN req[c].docs[1] THEN Given(req[c].docs[j], col) ELSE Null
    <2> DEFINE r == req[c]
               d == dialect
    <2>1. r \in Requests /\ d \in Dialects /\ Translatable(d, r) /\ r.action \in {"insert_one", "insert_many"}
      BY <1>3
    <2> HIDE DEF r, d
    <2>2. \A n \in DOMAIN Inserted(d, Translated(d, r)) : \E j \in DOMAIN r.docs : \A col \in Columns :
             Inserted(d, Translated(d, r))[n][col] =
                IF col \in DOMAIN r.docs[1] THEN Given(r.docs[j], col) ELSE Null
      BY <2>1, InsertedDocs, Zenon
    <2>3. rows = Inserted(d, Translated(d, r))
      BY <1>3, Zenon DEF r, d
    <2> HIDE DEF rows
    <2> QED
      BY <2>2, <2>3, Zenon DEF r, d
  <1> HIDE DEF rows
  <1>5. \A i \in DOMAIN table : i \in DOMAIN table' /\ table'[i] = table[i]
    BY <1>2
  <1>6. ASSUME NEW i \in DOMAIN table' \ DOMAIN table
        PROVE  \E j \in DOMAIN req[c].docs : \A col \in Columns :
                  table'[i][col] = IF col \in DOMAIN req[c].docs[1] THEN Given(req[c].docs[j], col) ELSE Null
    <2> DEFINE n == CHOOSE n \in DOMAIN rows : f[n] = i
    <2>1. (\E k \in DOMAIN rows : f[k] = i) /\ table'[i] = rows[n]
      BY <1>2
    <2>2. n \in DOMAIN rows
      BY <2>1
    <2> HIDE DEF n
    <2>3. PICK j \in DOMAIN req[c].docs : \A col \in Columns :
             rows[n][col] = IF col \in DOMAIN req[c].docs[1] THEN Given(req[c].docs[j], col) ELSE Null
      BY <1>4, <2>2, Zenon
    <2> QED
      BY <2>1, <2>3, Zenon
  <1>7. req[c].action # "find" /\ req[c].action # "update_one" /\ req[c].action # "delete_one"
    BY <1>3
  <1> QED
    BY <1>5, <1>6, <1>7, Zenon DEF Does

LEMMA EndingDoes ==
  ASSUME StatementInv, [Next]_vars, NEW c \in Calls, pc[c] = "pool", pc'[c] = "done"
  PROVE  Does(c)
  <1>1. ~ UNCHANGED vars
    BY DEF vars
  <1>2. PICK e \in Calls : \/ \E r \in Requests : Ask(e, r)
                           \/ Select(e) \/ Count(e) \/ Update(e) \/ Delete(e) \/ Insert(e) \/ Fails(e)
    BY <1>1, Zenon DEF Next
  <1>a. AnsweredInv /\ DOMAIN pc = Calls
    BY DEF StatementInv, AnsweredInv, AskedInv
  <1>3. ASSUME \E r \in Requests : Ask(e, r) PROVE FALSE
    <2>1. pc[e] = "idle" /\ \A b \in Calls : b # e => pc'[b] = pc[b]
      BY <1>3, <1>a DEF Ask
    <2> QED
      BY <2>1
  <1>4. e = c
    <2>1. \E n : Settles(e, n)
      <3>1. Fails(e) => Settles(e, 0)
        BY DEF Fails, Settles
      <3>2. Select(e) => \E n : Settles(e, n)
        BY DEF Select
      <3>3. Count(e) => \E n : Settles(e, n)
        BY Zenon DEF Count
      <3>4. Update(e) => \E n : Settles(e, n)
        BY Zenon DEF Update
      <3>5. Delete(e) => \E n : Settles(e, n)
        BY Zenon DEF Delete
      <3>6. Insert(e) => \E n : Settles(e, n)
        BY Zenon DEF Insert
      <3> QED
        BY <1>2, <1>3, <3>1, <3>2, <3>3, <3>4, <3>5, <3>6, Zenon
    <2>2. pc' = [pc EXCEPT ![e] = "done"]
      BY <1>a, <2>1, SettlesEnds
    <2> QED
      BY <1>a, <2>2
  <1>5. ASSUME Count(c) PROVE Does(c)
    <2>1. pc[c] = "pool" /\ query[c].verb = "COUNT" /\ table' = table
      BY <1>5 DEF Count
    <2>2. req[c].action # "find"
      BY <1>a, <2>1, PoolIs
    <2> QED
      BY <2>1, <2>2, DoesNothing
  <1>6. ASSUME Fails(c) PROVE Does(c)
    <2>1. UNCHANGED <<table, docs>> /\ docs[c] = {}
      BY <1>6 DEF Fails, StatementInv, TableInv
    <2> QED
      BY <2>1, DoesNothing
  <1> QED
    BY <1>2, <1>3, <1>4, <1>5, <1>6, SelectDoes, UpdateDoes, DeleteDoes, InsertDoes, Zenon

\* Every value a request holds ends up in its own place: under either dialect's
\* placeholders, and whatever ran in between, a statement changes, removes and
\* returns rows of its filter only, a delete_one at most one, an update gives the
\* columns their own values, an insert adds a row for each document.
THEOREM StatementsMean == Spec => DoesWhatItSays
  <1> DEFINE A == \A c \in Calls : pc[c] = "pool" /\ pc'[c] = "done" => Does(c)
  <1>1. StatementInv /\ [Next]_vars => A
    BY EndingDoes
  <1>2. Spec => []StatementInv
    BY StatementInit, StatementNext, PTL DEF Spec
  <1> QED
    BY <1>1, <1>2, PTL DEF Spec, DoesWhatItSays

=============================================================================
