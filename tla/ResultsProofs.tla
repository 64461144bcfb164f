---------------------------- MODULE ResultsProofs ----------------------------
(***************************************************************************)
(* What an agent is shown, for any documents, policies, pipelines, limits  *)
(* and reloads.                                                            *)
(*                                                                         *)
(* Trees. A document is the set of its nodes, level by level. Nodes of     *)
(* trees that fit (Fits) are closed under going down, and what goes down   *)
(* every step from the root holds of all of them (NodesInduct,             *)
(* BelowIsNode).                                                           *)
(*                                                                         *)
(* Joins. Each collection the server reads for a pipeline stands at a node *)
(* where the guard looks too, and a stage that writes would have a banned  *)
(* operator at a node of an accepted one. CallInv keeps, while a call      *)
(* waits for the server, that it passed both under the policy it holds.    *)
(*                                                                         *)
(* Pages. The documents that were read are those before book.next          *)
(* (PagesInv), since a page is the stretch of the store from there that    *)
(* the limits leave, and its next_skip is where that ends (CappedIs,       *)
(* PageIs).                                                                *)
(*                                                                         *)
(* Masks. The masker's recursion has a value at each object, the deepest   *)
(* first (WalkIs). Whether a place is hidden is told one step at a time    *)
(* (HiddenStep, VisitedStep), as the masker goes; so each node it shows is *)
(* the image of one that is not hidden, or a mark, and each of those has   *)
(* its image there (ShownIsSeen). CacheInv says that what a policy has     *)
(* cached under a key are its rules for that key.                          *)
(*                                                                         *)
(* Names. A stored scalar has its field's name on the way to it, where the *)
(* masker sees it, or came through a path of the pipeline that begins with *)
(* that name, and then the call was refused (SourcesNamed, NameHides).     *)
(***************************************************************************)
EXTENDS Results, SequenceTheorems, FiniteSetTheorems, WellFoundedInduction, TLAPS

----------------------------------------------------------------------------
(* Induction along 0 .. N, and the functions defined by it.                *)

LEMMA UpTo ==
  ASSUME NEW N \in Nat, NEW S, 0 \in S, \A n \in 0 .. N - 1 : n \in S => n + 1 \in S
  PROVE  \A n \in 0 .. N : n \in S
  <1> DEFINE T == {n \in 0 .. N : n \notin S}
  <1>1. SUFFICES ASSUME T # {} PROVE FALSE
    OBVIOUS
  <1>2. T \in SUBSET Nat
    OBVIOUS
  <1>3. PICK m \in T : \A i \in T : <<i, m>> \notin OpToRel(<, Nat)
    BY <1>1, <1>2, WFMin, NatLessThanWellFounded, Zenon
  <1>4. \A i \in T : ~(i < m)
    BY <1>2, <1>3, Zenon DEF OpToRel
  <1> USE DEF T
  <1>5. m # 0
    OBVIOUS
  <1>6. m - 1 \in 0 .. N - 1 /\ m - 1 \notin T
    BY <1>4, <1>5
  <1> QED
    BY <1>6

\* A table filled in from its first entry on: step tells the n-th from the one before.
Filled(f, N, v, step) == f[0] = v /\ \A n \in 1 .. N : f[n] = step[n][f[n - 1]]

LEMMA TableExists ==
  ASSUME NEW N \in Nat, NEW S, NEW v \in S, NEW step \in [1 .. N -> [S -> S]]
  PROVE  \E f \in [0 .. N -> S] : Filled(f, N, v, step)
  <1> DEFINE Is(f, m) == f \in [0 .. m -> S] /\ f[0] = v /\ \A n \in 1 .. m : f[n] = step[n][f[n - 1]]
             M == {m \in 0 .. N : \E f : Is(f, m)}
  <1>1. 0 \in M
    <2>1. Is([n \in 0 .. 0 |-> v], 0)
      OBVIOUS
    <2>2. 0 \in 0 .. N
      OBVIOUS
    <2> HIDE DEF Is
    <2> QED
      BY <2>1, <2>2, Zenon
  <1>2. ASSUME NEW m \in 0 .. N - 1, m \in M PROVE m + 1 \in M
    <2>1. PICK f : Is(f, m)
      BY <1>2
    <2> DEFINE g == [n \in 0 .. m + 1 |-> IF n = m + 1 THEN step[m + 1][f[m]] ELSE f[n]]
    <2>2. f[m] \in S /\ step[m + 1] \in [S -> S]
      BY <2>1
    <2>3. g \in [0 .. m + 1 -> S]
      BY <2>1, <2>2
    <2>4. \A n \in 0 .. m : g[n] = f[n]
      OBVIOUS
    <2>5. g[m + 1] = step[m + 1][g[m]]
      BY <2>4
    <2>6. ASSUME NEW n \in 1 .. m + 1 PROVE g[n] = step[n][g[n - 1]]
      <3>1. CASE n = m + 1
        BY <2>5, <3>1
      <3>2. CASE n \in 1 .. m
        BY <2>1, <2>4, <3>2
      <3> QED
        BY <3>1, <3>2
    <2>7. Is(g, m + 1)
      BY <2>1, <2>3, <2>4, <2>6
    <2>8. m + 1 \in 0 .. N
      OBVIOUS
    <2> HIDE DEF Is
    <2> QED
      BY <2>7, <2>8, Zenon
  <1>3. N \in M
    <2> HIDE DEF M
    <2>1. \A n \in 0 .. N : n \in M
      BY <1>1, <1>2, UpTo, Zenon
    <2> QED
      BY <2>1
  <1> QED
    BY <1>3 DEF Filled

----------------------------------------------------------------------------
(* Places are sequences.                                                   *)

LEMMA AppendPlace ==
  ASSUME NEW s, IsSeq(s), NEW e
  PROVE  /\ IsSeq(Append(s, e)) /\ Append(s, e) # <<>>
         /\ Len(Append(s, e)) = Len(s) + 1 /\ Len(s) \in Nat
         /\ Append(s, e)[Len(s) + 1] = e
         /\ \A i \in 1 .. Len(s) : Append(s, e)[i] = s[i]
  <1> DEFINE V == Range(s) \union {e}
             a == Append(s, e)
  <1>1. s \in Seq(V)
    BY SeqMonotonic DEF IsSeq
  <1>2. /\ a \in Seq(V) /\ a # <<>> /\ Len(a) = Len(s) + 1 /\ a[Len(s) + 1] = e
        /\ \A i \in 1 .. Len(s) : a[i] = s[i]
    BY <1>1, AppendProperties
  <1>3. Len(s) \in Nat
    BY <1>1, LenProperties
  <1>4. a \in Seq(Range(a))
    BY <1>2, SeqOfRange DEF Range
  <1> QED
    BY <1>2, <1>3, <1>4 DEF IsSeq

----------------------------------------------------------------------------
(* Nodes.  Levels is the table its equation describes; what holds of the   *)
(* root and goes down every step holds of every node; and the nodes below  *)
(* a node are nodes, up to MaxNesting steps.                               *)

LEMMA NestingIsNat == MaxNesting \in Nat /\ MaxDepth \in Nat
  BY ResultsAssumption DEF ResultsAssumption

Lower(S) == UNION {Below(x) : x \in S}

LEMMA LevelsAre ==
  ASSUME NEW t
  PROVE  /\ Levels(t)[0] = <<{Root(t)}>>
         /\ \A n \in 1 .. MaxNesting :
               Levels(t)[n] = Append(Levels(t)[n - 1], Lower(Levels(t)[n - 1][n]))
  <1> DEFINE N == MaxNesting
             Entry(f, n) == IF n = 0 THEN <<{Root(t)}>>
                            ELSE Append(f[n - 1], UNION {Below(x) : x \in f[n - 1][n]})
             Is(f, m) == f = [n \in 0 .. m |-> Entry(f, n)]
             M == {m \in 0 .. N : \E f : Is(f, m)}
  <1> HIDE DEF N
  <1>n. N \in Nat
    BY NestingIsNat DEF N
  <1>1. 0 \in M
    <2>1. Is([n \in 0 .. 0 |-> <<{Root(t)}>>], 0)
      OBVIOUS
    <2>2. 0 \in 0 .. N
      BY <1>n
    <2> HIDE DEF Is
    <2> QED
      BY <2>1, <2>2, Zenon
  <1>2. ASSUME NEW m \in 0 .. N - 1, m \in M PROVE m + 1 \in M
    <2>1. PICK f : Is(f, m)
      BY <1>2
    <2> DEFINE g == [n \in 0 .. m + 1 |-> IF n = m + 1 THEN Entry(f, n) ELSE f[n]]
    <2> HIDE DEF Entry
    <2>2. \A n \in 0 .. m : g[n] = f[n]
      BY <1>n
    <2>3. ASSUME NEW n \in 0 .. m + 1 PROVE g[n] = Entry(g, n)
      <3>1. n # 0 => n - 1 \in 0 .. m
        BY <1>n
      <3>2. Entry(g, n) = Entry(f, n)
        <4>1. CASE n = 0
          BY <4>1 DEF Entry
        <4>2. CASE n # 0
          <5>1. g[n - 1] = f[n - 1]
            BY <2>2, <3>1, <4>2
          <5> HIDE DEF g
          <5> QED
            BY <5>1, Zenon DEF Entry
        <4> QED
          BY <4>1, <4>2
      <3>3. CASE n = m + 1
        BY <3>2, <3>3
      <3>4. CASE n # m + 1
        <4>1. n \in 0 .. m
          BY <1>n, <3>4
        <4>2. f[n] = Entry(f, n)
          BY <2>1, <4>1
        <4> QED
          BY <2>2, <3>2, <4>1, <4>2
      <3> QED
        BY <3>3, <3>4
    <2>4. Is(g, m + 1)
      BY <2>3
    <2>5. m + 1 \in 0 .. N
      BY <1>n
    <2> HIDE DEF Is
    <2> QED
      BY <2>4, <2>5, Zenon
  <1>3. N \in M
    <2> HIDE DEF M
    <2>1. \A n \in 0 .. N : n \in M
      BY <1>n, <1>1, <1>2, UpTo, Zenon
    <2> QED
      BY <1>n, <2>1
  <1> DEFINE levels == CHOOSE f : Is(f, N)
  <1>4. Is(levels, N)
    BY <1>3
  <1>5. Levels(t) = levels
    BY DEF Levels, N
  <1> HIDE DEF levels
  <1>6. \A n \in 0 .. N : levels[n] = Entry(levels, n)
    <2> HIDE DEF Entry
    <2> QED
      BY <1>4
  <1>7. levels[0] = <<{Root(t)}>>
    <2>1. 0 \in 0 .. N
      BY <1>n
    <2>2. levels[0] = Entry(levels, 0)
      BY <1>6, <2>1, Zenon
    <2> QED
      BY <2>2
  <1>8. \A n \in 1 .. N : levels[n] = Append(levels[n - 1], Lower(levels[n - 1][n]))
    <2> SUFFICES ASSUME NEW n \in 1 .. N
                 PROVE  levels[n] = Append(levels[n - 1], Lower(levels[n - 1][n]))
      OBVIOUS
    <2>1. n \in 0 .. N /\ n # 0
      BY <1>n
    <2>2. levels[n] = Entry(levels, n)
      BY <1>6, <2>1
    <2> QED
      BY <2>1, <2>2, Zenon DEF Lower
  <1> QED
    BY <1>5, <1>7, <1>8, Zenon DEF N

LevelOf(t, i) == Levels(t)[MaxNesting][i]

LEMMA LevelsStep ==
  ASSUME NEW t
  PROVE  /\ DOMAIN Levels(t)[MaxNesting] = 1 .. MaxNesting + 1
         /\ LevelOf(t, 1) = {Root(t)}
         /\ \A i \in 1 .. MaxNesting : LevelOf(t, i + 1) = Lower(LevelOf(t, i))
  <1> DEFINE N == MaxNesting
             L == Levels(t)
             Ok(n) == /\ IsSeq(L[n]) /\ Len(L[n]) = n + 1 /\ L[n][1] = {Root(t)}
                      /\ \A i \in 1 .. n : L[n][i + 1] = Lower(L[n][i])
             M == {n \in 0 .. N : Ok(n)}
  <1>l. L[0] = <<{Root(t)}>> /\ \A n \in 1 .. N : L[n] = Append(L[n - 1], Lower(L[n - 1][n]))
    BY LevelsAre
  <1> HIDE DEF N, L
  <1>n. N \in Nat
    BY NestingIsNat DEF N
  <1>1. 0 \in M
    <2>1. <<{Root(t)}>> \in Seq({{Root(t)}})
      OBVIOUS
    <2>2. IsSeq(L[0])
      BY <1>l, <2>1, SeqOfRange DEF IsSeq
    <2>3. Ok(0)
      BY <1>l, <2>2
    <2> QED
      BY <1>n, <2>3
  <1>2. ASSUME NEW n \in 0 .. N - 1, n \in M PROVE n + 1 \in M
    <2>1. Ok(n) /\ n + 1 \in 1 .. N /\ n + 1 \in 0 .. N /\ (n + 1) - 1 = n
      BY <1>n, <1>2
    <2>2. L[n + 1] = Append(L[n], Lower(L[n][n + 1]))
      BY <1>l, <2>1, Zenon
    <2>3. /\ IsSeq(L[n + 1]) /\ Len(L[n + 1]) = n + 2 /\ L[n + 1][n + 2] = Lower(L[n][n + 1])
          /\ \A i \in 1 .. n + 1 : L[n + 1][i] = L[n][i]
      <3> DEFINE e == Lower(L[n][n + 1])
      <3> HIDE DEF e
      <3>1. L[n + 1] = Append(L[n], e)
        BY <2>2 DEF e
      <3>2. /\ IsSeq(Append(L[n], e)) /\ Len(Append(L[n], e)) = Len(L[n]) + 1
            /\ Append(L[n], e)[Len(L[n]) + 1] = e
            /\ \A i \in 1 .. Len(L[n]) : Append(L[n], e)[i] = L[n][i]
        BY <2>1, AppendPlace, Zenon
      <3>3. Len(L[n]) = n + 1 /\ (n + 1) + 1 = n + 2
        BY <1>n, <2>1
      <3> QED
        BY <3>1, <3>2, <3>3 DEF e
    <2>4. L[n + 1][1] = {Root(t)}
      BY <1>n, <2>1, <2>3
    <2>5. ASSUME NEW i \in 1 .. n + 1 PROVE L[n + 1][i + 1] = Lower(L[n + 1][i])
      <3>1. L[n + 1][i] = L[n][i]
        BY <2>3
      <3>2. CASE i = n + 1
        <4>1. i + 1 = n + 2
          BY <1>n, <3>2
        <4> QED
          BY <2>3, <3>1, <3>2, <4>1
      <3>3. CASE i \in 1 .. n
        <4>2. i + 1 \in 1 .. n + 1
          BY <1>n, <3>3
        <4>1. L[n + 1][i + 1] = L[n][i + 1]
          BY <2>3, <4>2, Zenon
        <4> QED
          BY <2>1, <3>1, <3>3, <4>1, Zenon
      <3> QED
        BY <1>n, <3>2, <3>3
    <2>6. Len(L[n + 1]) = (n + 1) + 1
      BY <1>n, <2>3
    <2>7. Ok(n + 1)
      BY <2>3, <2>4, <2>5, <2>6, Zenon
    <2> HIDE DEF Ok
    <2> QED
      BY <2>1, <2>7, Zenon
  <1>3. N \in M
    <2> HIDE DEF M
    <2>1. \A n \in 0 .. N : n \in M
      BY <1>n, <1>1, <1>2, UpTo, Zenon
    <2> QED
      BY <1>n, <2>1
  <1>4. Ok(N)
    BY <1>3
  <1>5. DOMAIN L[N] = 1 .. N + 1
    BY <1>4, LenProperties DEF IsSeq
  <1> QED
    BY <1>4, <1>5 DEF LevelOf, N, L

LEMMA NodesAre ==
  ASSUME NEW t
  PROVE  \A x : x \in Nodes(t) <=> \E i \in 1 .. MaxNesting + 1 : x \in LevelOf(t, i)
  BY LevelsStep DEF Nodes, LevelOf, Range

LEMMA RootIsNode ==
  ASSUME NEW t
  PROVE  Root(t) \in Nodes(t)
  <1>1. 1 \in 1 .. MaxNesting + 1
    BY NestingIsNat
  <1> QED
    BY <1>1, NodesAre, LevelsStep, Zenon

\* What holds of the root and goes down every step of the tree holds of every node.
LEMMA NodesInduct ==
  ASSUME NEW t, NEW S, Root(t) \in S,
         \A x \in S \intersect Nodes(t) : Below(x) \subseteq S
  PROVE  Nodes(t) \subseteq S
  <1> DEFINE M == {n \in Nat : LevelOf(t, n + 1) \subseteq S}
  <1>1. 0 \in M
    <2>1. LevelOf(t, 0 + 1) = {Root(t)}
      BY LevelsStep
    <2> QED
      BY <2>1
  <1>2. ASSUME NEW n \in 0 .. MaxNesting - 1, n \in M PROVE n + 1 \in M
    <2>1. n + 1 \in 1 .. MaxNesting /\ n + 1 \in Nat /\ n + 1 \in 1 .. MaxNesting + 1
      BY NestingIsNat
    <2>2. LevelOf(t, n + 1) \subseteq S \intersect Nodes(t)
      BY <1>2, <2>1, NodesAre
    <2>3. LevelOf(t, (n + 1) + 1) = Lower(LevelOf(t, n + 1))
      BY <2>1, LevelsStep, Zenon
    <2>4. LevelOf(t, (n + 1) + 1) \subseteq S
      BY <2>2, <2>3, Zenon DEF Lower
    <2> QED
      BY <2>1, <2>4, Zenon
  <1>3. \A n \in 0 .. MaxNesting : n \in M
    <2> HIDE DEF M
    <2> QED
      BY <1>1, <1>2, UpTo, NestingIsNat, Zenon
  <1>4. ASSUME NEW i \in 1 .. MaxNesting + 1 PROVE LevelOf(t, i) \subseteq S
    <2>1. i - 1 \in 0 .. MaxNesting /\ (i - 1) + 1 = i
      BY NestingIsNat
    <2> QED
      BY <1>3, <2>1
  <1> QED
    BY <1>4, NodesAre

IsNode(x) == x = <<x[1], x[2]>> /\ IsSeq(x[1])

LEMMA BelowIs ==
  ASSUME NEW x, IsNode(x)
  PROVE  \A y \in Below(x) :
            /\ IsNode(y) /\ Len(y[1]) = Len(x[1]) + 1 /\ y[1] # <<>>
            /\ \E e : y[1] = Append(x[1], e)
  <1> SUFFICES ASSUME NEW y \in Below(x)
               PROVE  /\ IsNode(y) /\ Len(y[1]) = Len(x[1]) + 1 /\ y[1] # <<>>
                      /\ \E e : y[1] = Append(x[1], e)
    OBVIOUS
  <1>1. PICK e, t : y = <<Append(x[1], e), t>>
    <2>1. CASE IsObject(x[2])
      BY <2>1 DEF Below, KeyNode
    <2>2. CASE ~IsObject(x[2])
      BY <2>2 DEF Below, ItemNode
    <2> QED
      BY <2>1, <2>2
  <1>2. IsSeq(Append(x[1], e)) /\ Append(x[1], e) # <<>> /\ Len(Append(x[1], e)) = Len(x[1]) + 1
    BY AppendPlace, Zenon DEF IsNode
  <1>3. y[1] = Append(x[1], e) /\ y = <<y[1], y[2]>>
    BY <1>1
  <1> QED
    BY <1>2, <1>3, Zenon DEF IsNode

LEMMA RootIs ==
  ASSUME NEW t
  PROVE  IsNode(Root(t)) /\ Root(t)[1] = <<>> /\ Root(t)[2] = t /\ Len(Root(t)[1]) = 0
  <1>1. <<>> \in Seq({})
    OBVIOUS
  <1>2. IsSeq(<<>>)
    BY <1>1, SeqOfRange DEF IsSeq
  <1> QED
    BY <1>2 DEF Root, IsNode

LEMMA NodesTyped ==
  ASSUME NEW t
  PROVE  /\ \A x \in Nodes(t) : IsNode(x) /\ Len(x[1]) \in Nat
         /\ \A i \in 1 .. MaxNesting + 1 : \A x \in LevelOf(t, i) : IsNode(x) /\ Len(x[1]) = i - 1
  <1> DEFINE Ok(x, n) == IsNode(x) /\ Len(x[1]) = n
             M == {n \in Nat : \A x \in LevelOf(t, n + 1) : Ok(x, n)}
  <1>1. 0 \in M
    <2>1. LevelOf(t, 0 + 1) = {Root(t)}
      BY LevelsStep
    <2> QED
      BY <2>1, RootIs
  <1>2. ASSUME NEW n \in 0 .. MaxNesting - 1, n \in M PROVE n + 1 \in M
    <2>1. n + 1 \in 1 .. MaxNesting /\ n + 1 \in Nat
      BY NestingIsNat
    <2>2. LevelOf(t, (n + 1) + 1) = Lower(LevelOf(t, n + 1))
      BY <2>1, LevelsStep, Zenon
    <2>3. ASSUME NEW y \in LevelOf(t, (n + 1) + 1) PROVE Ok(y, n + 1)
      <3>1. PICK x \in LevelOf(t, n + 1) : y \in Below(x)
        BY <2>2, Zenon DEF Lower
      <3>2. Ok(x, n)
        BY <1>2
      <3>3. IsNode(y) /\ Len(y[1]) = Len(x[1]) + 1
        BY <3>1, <3>2, BelowIs, Zenon
      <3> QED
        BY <3>2, <3>3
    <2> HIDE DEF Ok
    <2> QED
      BY <2>1, <2>3
  <1>3. \A n \in 0 .. MaxNesting : n \in M
    <2> HIDE DEF M
    <2> QED
      BY <1>1, <1>2, UpTo, NestingIsNat, Zenon
  <1>4. ASSUME NEW i \in 1 .. MaxNesting + 1, NEW x \in LevelOf(t, i)
        PROVE  IsNode(x) /\ Len(x[1]) = i - 1 /\ i - 1 \in Nat
    <2>1. i - 1 \in 0 .. MaxNesting /\ (i - 1) + 1 = i
      BY NestingIsNat
    <2> QED
      BY <1>3, <2>1
  <1> QED
    BY <1>4, NodesAre

LEMMA BelowIsNode ==
  ASSUME NEW t, NEW x \in Nodes(t), Len(x[1]) < MaxNesting
  PROVE  Below(x) \subseteq Nodes(t)
  <1>1. PICK i \in 1 .. MaxNesting + 1 : x \in LevelOf(t, i)
    BY NodesAre
  <1>2. Len(x[1]) = i - 1
    BY <1>1, NodesTyped
  <1>3. i \in 1 .. MaxNesting /\ i + 1 \in 1 .. MaxNesting + 1
    BY <1>2, NestingIsNat
  <1>4. LevelOf(t, i + 1) = Lower(LevelOf(t, i))
    BY <1>3, LevelsStep, Zenon
  <1>5. Below(x) \subseteq LevelOf(t, i + 1)
    BY <1>1, <1>4, Zenon DEF Lower
  <1> QED
    BY <1>3, <1>5, NodesAre, Zenon

\* Below a node that stands above the last level only.
LEMMA NodeDepth ==
  ASSUME NEW t, NEW x \in Nodes(t)
  PROVE  Len(x[1]) <= MaxNesting
  <1>1. PICK i \in 1 .. MaxNesting + 1 : x \in LevelOf(t, i)
    BY NodesAre
  <1> QED
    BY <1>1, NodesTyped, NestingIsNat

LEMMA TailPlace ==
  ASSUME NEW s, IsSeq(s), s # <<>>, NEW e
  PROVE  /\ IsSeq(Tail(s)) /\ Len(Tail(s)) = Len(s) - 1 /\ Len(s) >= 1
         /\ Tail(Append(s, e)) = Append(Tail(s), e) /\ Append(s, e)[1] = s[1]
         /\ \A i \in 1 .. Len(s) - 1 : Tail(s)[i] = s[i + 1]
  <1> DEFINE V == Range(s) \union {e}
  <1>1. s \in Seq(V) /\ e \in V
    BY SeqMonotonic DEF IsSeq
  <1> HIDE DEF V
  <1>2. /\ Tail(s) \in Seq(V) /\ Len(Tail(s)) = Len(s) - 1 /\ Len(s) >= 1
        /\ \A i \in 1 .. Len(s) - 1 : Tail(s)[i] = s[i + 1]
    BY <1>1, HeadTailProperties, LenProperties
  <1>3. Tail(Append(s, e)) = Append(Tail(s), e) /\ Append(s, e)[1] = s[1]
    BY <1>1, <1>2
  <1>4. IsSeq(Tail(s))
    BY <1>2, SeqOfRange DEF IsSeq
  <1> QED
    BY <1>2, <1>3, <1>4

\* What is below a tree does not depend on where the tree stands.
LEMMA BelowMoves ==
  ASSUME NEW x, NEW y \in Below(x), NEW p
  PROVE  \E e, t : y = <<Append(x[1], e), t>> /\ <<Append(p, e), t>> \in Below(<<p, x[2]>>)
  <1> DEFINE z == <<p, x[2]>>
  <1>1. z[1] = p /\ z[2] = x[2]
    OBVIOUS
  <1>2. CASE IsObject(x[2])
    <2>1. PICK k \in DOMAIN x[2].object : y = KeyNode(x, k)
      BY <1>2 DEF Below
    <2>2. KeyNode(z, k) \in Below(z)
      <3> HIDE DEF z
      <3> QED
        BY <1>1, <1>2, <2>1 DEF Below
    <2>3. KeyNode(z, k) = <<Append(p, Key(k)), x[2].object[k]>>
      BY DEF KeyNode
    <2>4. y = <<Append(x[1], Key(k)), x[2].object[k]>>
      BY <2>1 DEF KeyNode
    <2> QED
      BY <2>2, <2>3, <2>4
  <1>3. CASE IsList(x[2]) /\ ~IsObject(x[2])
    <2>1. PICK k \in DOMAIN x[2].list : y = ItemNode(x, k)
      BY <1>3 DEF Below
    <2>2. ItemNode(z, k) \in Below(z)
      <3> HIDE DEF z
      <3> QED
        BY <1>1, <1>3, <2>1 DEF Below
    <2>3. ItemNode(z, k) = <<Append(p, Item(k)), x[2].list[k]>>
      BY DEF ItemNode
    <2>4. y = <<Append(x[1], Item(k)), x[2].list[k]>>
      BY <2>1 DEF ItemNode
    <2> QED
      BY <2>2, <2>3, <2>4
  <1> QED
    BY <1>2, <1>3 DEF Below

\* A node is the root or a node of one of the trees directly in it.
LEMMA FirstStep ==
  ASSUME NEW t, NEW x0 \in Nodes(t)
  PROVE  \/ x0 = Root(t)
         \/ /\ x0[1] # <<>>
            /\ \E c \in Below(Root(t)) : c[1] = <<x0[1][1]>> /\ <<Tail(x0[1]), x0[2]>> \in Nodes(c[2])
  <1> DEFINE Under(x) == /\ x[1] # <<>>
                         /\ \E c \in Below(Root(t)) : c[1] = <<x[1][1]>> /\ <<Tail(x[1]), x[2]>> \in Nodes(c[2])
             S == {x \in Nodes(t) \union Lower(Nodes(t)) : x = Root(t) \/ (x \in Nodes(t) => Under(x))}
  <1>1. Root(t) \in S
    BY RootIsNode
  <1>2. ASSUME NEW x \in S \intersect Nodes(t), NEW y \in Below(x) PROVE y \in S
    <2>1. y \in Lower(Nodes(t))
      BY Zenon DEF Lower
    <2> SUFFICES ASSUME y \in Nodes(t) PROVE Under(y)
      BY <2>1
    <2>2. IsNode(x) /\ IsNode(y) /\ Len(y[1]) = Len(x[1]) + 1 /\ y[1] # <<>> /\ Len(x[1]) \in Nat
      BY BelowIs, NodesTyped
    <2>3. Len(y[1]) <= MaxNesting
      BY NodeDepth
    <2>4. CASE x = Root(t)
      <3>1. PICK e : y[1] = Append(<<>>, e)
        BY <2>2, <2>4, RootIs, BelowIs
      <3>2. y[1] = <<e>> /\ y[1] = <<y[1][1]>> /\ Tail(y[1]) = <<>>
        BY <3>1
      <3>3. <<Tail(y[1]), y[2]>> \in Nodes(y[2])
        BY <3>2, RootIsNode DEF Root
      <3> QED
        BY <2>2, <2>4, <3>2, <3>3
    <2>5. CASE Under(x)
      <3>1. PICK c \in Below(Root(t)) : c[1] = <<x[1][1]>> /\ <<Tail(x[1]), x[2]>> \in Nodes(c[2])
        BY <2>5
      <3> DEFINE z == <<Tail(x[1]), x[2]>>
      <3>2. PICK e, v : y = <<Append(x[1], e), v>> /\ <<Append(Tail(x[1]), e), v>> \in Below(z)
        BY BelowMoves, Zenon
      <3>3. /\ Len(Tail(x[1])) = Len(x[1]) - 1 /\ Tail(Append(x[1], e)) = Append(Tail(x[1]), e)
            /\ Append(x[1], e)[1] = x[1][1]
        BY <2>2, <2>5, TailPlace DEF IsNode
      <3>4. Len(z[1]) < MaxNesting
        <4>1. z[1] = Tail(x[1])
          OBVIOUS
        <4> HIDE DEF z
        <4> QED
          BY <2>2, <2>3, <3>3, <4>1, NestingIsNat
      <3>5. Below(z) \subseteq Nodes(c[2])
        BY <3>1, <3>4, BelowIsNode
      <3>6. <<Tail(y[1]), y[2]>> \in Nodes(c[2]) /\ y[1][1] = x[1][1]
        <4>1. y[1] = Append(x[1], e) /\ y[2] = v
          BY <3>2
        <4> QED
          BY <3>2, <3>3, <3>5, <4>1
      <3> QED
        BY <2>2, <3>1, <3>6
    <2> QED
      BY <2>4, <2>5
  <1>3. Nodes(t) \subseteq S
    <2> HIDE DEF S
    <2> QED
      BY <1>1, <1>2, NodesInduct
  <1> QED
    BY <1>3

----------------------------------------------------------------------------
(* The guard sees what the server will read and write.                     *)

LEMMA TextIsFound ==
  ASSUME NEW t, Fits(t), NEW x \in Nodes(t), NEW k \in ForeignKeys
  PROVE  TextAt(x[2], k) \subseteq Collections(t)
  <1> SUFFICES ASSUME IsObject(x[2]), k \in DOMAIN x[2].object, IsText(x[2].object[k])
               PROVE  x[2].object[k].text \in Collections(t)
    BY DEF TextAt
  <1> DEFINE y == KeyNode(x, k)
  <1>1. y \in Nodes(t)
    <2>1. y \in Below(x)
      BY DEF Below
    <2> QED
      BY <2>1 DEF Fits
  <1>2. y[2] = x[2].object[k] /\ y[1] = Append(x[1], Key(k))
    BY DEF KeyNode
  <1>3. /\ IsSeq(x[1])
        /\ Append(x[1], Key(k)) # <<>> /\ Len(Append(x[1], Key(k))) = Len(x[1]) + 1
        /\ Append(x[1], Key(k))[Len(x[1]) + 1] = Key(k)
    <2>1. IsSeq(x[1])
      BY NodesTyped DEF IsNode
    <2> QED
      BY <2>1, AppendPlace, Zenon
  <1>4. y[1] # <<>> /\ y[1][Len(y[1])] = Key(k)
    BY <1>2, <1>3
  <1> HIDE DEF y
  <1> QED
    BY <1>1, <1>2, <1>4 DEF Collections

LEMMA ReadsAreFound ==
  ASSUME NEW stages, Fits([list |-> stages])
  PROVE  ReadsOf(stages) \subseteq Collections([list |-> stages])
  <1> DEFINE t == [list |-> stages]
  <1> HIDE DEF t
  <1>1. ASSUME NEW x \in StagesOf(stages) PROVE ReadBy(x) \subseteq Collections(t)
    <2>1. x \in Nodes(t) /\ IsObject(x[2]) /\ Fits(t)
      BY DEF StagesOf, t
    <2>2. TextAt(x[2], "$unionWith") \subseteq Collections(t)
      BY <2>1, TextIsFound DEF ForeignKeys
    <2>3. ASSUME NEW op, Does(x, op), NEW k \in ForeignKeys
          PROVE  TextAt(x[2].object[op], k) \subseteq Collections(t)
      <3>1. KeyNode(x, op) \in Nodes(t) /\ KeyNode(x, op)[2] = x[2].object[op]
        <4>1. KeyNode(x, op) \in Below(x)
          BY <2>1, <2>3 DEF Does, Below
        <4> QED
          BY <2>1, <4>1 DEF Fits, KeyNode
      <3> QED
        BY <2>1, <3>1, TextIsFound
    <2>4. "from" \in ForeignKeys /\ "coll" \in ForeignKeys
      BY DEF ForeignKeys
    <2> QED
      BY <2>2, <2>3, <2>4 DEF ReadBy
  <1> QED
    BY <1>1 DEF ReadsOf, t

LEMMA NothingIsWritten ==
  ASSUME NEW stages, ValidStages(stages)
  PROVE  WritesOf(stages) = {}
  <1> DEFINE t == [list |-> stages]
  <1> SUFFICES ASSUME NEW x \in WritesOf(stages) PROVE FALSE
    OBVIOUS
  <1>1. /\ x \in Nodes(t) /\ IsObject(x[2]) /\ IsStagePlace(x[1])
        /\ \E op \in BannedStages \intersect BannedOperators : op \in DOMAIN x[2].object
    BY DEF WritesOf, StagesOf, Does, BannedStages, BannedOperators
  <1>2. x # Root(t)
    <2>1. CASE x = Root(t)
      <3>1. Len(x[1]) = 0
        BY <2>1, RootIs
      <3>2. Len(x[1]) % 3 = 1
        BY <1>1 DEF IsStagePlace
      <3> QED
        BY <3>1, <3>2
    <2> QED
      BY <2>1
  <1>3. PICK c \in Below(Root(t)) : <<Tail(x[1]), x[2]>> \in Nodes(c[2])
    BY <1>1, <1>2, FirstStep
  <1>4. PICK i \in DOMAIN stages : c[2] = stages[i]
    <2>1. Root(t)[2] = t /\ ~IsObject(t) /\ IsList(t) /\ t.list = stages
      BY DEF Root, IsObject, IsList
    <2> QED
      BY <2>1 DEF Below, ItemNode
  <1> DEFINE y == <<Tail(x[1]), x[2]>>
             st == stages[i]
  <1>5. y \in Nodes(st) /\ y[2] = x[2] /\ IsObject(st)
    BY <1>3, <1>4 DEF ValidStages
  <1>6. PICK op \in AllowedStages \ BannedStages :
           DOMAIN st.object = {op} /\ ~Dangerous(st.object[op])
    BY <1>4 DEF ValidStages
  <1> HIDE DEF st, y, t
  <1>7. y # Root(st)
    <2>1. CASE y = Root(st)
      <3>1. x[2] = st
        BY <1>5, <2>1, RootIs
      <3> QED
        BY <1>1, <1>6, <3>1
    <2> QED
      BY <2>1
  <1>8. PICK d \in Below(Root(st)) : <<Tail(y[1]), y[2]>> \in Nodes(d[2])
    BY <1>5, <1>7, FirstStep
  <1>9. d[2] = st.object[op]
    <2>1. Root(st)[2] = st
      BY RootIs
    <2> QED
      BY <1>5, <1>6, <2>1 DEF Below, KeyNode
  <1>10. Dangerous(st.object[op])
    <2> DEFINE z == <<Tail(y[1]), y[2]>>
    <2>1. z \in Nodes(st.object[op]) /\ z[2] = x[2]
      BY <1>5, <1>8, <1>9
    <2> HIDE DEF z
    <2> QED
      BY <1>1, <2>1 DEF Dangerous
  <1> QED
    BY <1>6, <1>10

LEMMA NothingInNoStages ==
  ReadsOf(<<>>) = {} /\ WritesOf(<<>>) = {}
  <1> DEFINE t == [list |-> <<>>]
  <1>1. ASSUME NEW x \in StagesOf(<<>>) PROVE FALSE
    <2>1. x \in Nodes(t) /\ IsStagePlace(x[1])
      BY <1>1 DEF StagesOf
    <2>2. Root(t)[2] = t /\ ~IsObject(t) /\ IsList(t) /\ t.list = <<>>
      BY DEF Root, IsObject, IsList
    <2>3. Below(Root(t)) = {}
      BY <2>2 DEF Below
    <2>4. x = Root(t)
      BY <2>1, <2>3, FirstStep
    <2>5. Len(x[1]) = 0 /\ Len(x[1]) % 3 = 1
      BY <2>1, <2>4, RootIs DEF IsStagePlace
    <2> QED
      BY <2>5
  <1> QED
    BY <1>1 DEF ReadsOf, WritesOf

----------------------------------------------------------------------------
(* A call in flight was judged by the policy it holds.                     *)

CallInv ==
    /\ store \in Stores /\ policy \in Policies
    /\ ask # NoCall =>
          /\ ask \in Calls
          /\ held \in Policies
          /\ ask.action = "aggregate" => ValidStages(ask.stages)
          /\ Evaluate(held, Request(ask), 0).status = "allowed"

LEMMA CallsAre ==
  ASSUME NEW a \in Calls
  PROVE  /\ a # NoCall /\ a.db \in Databases
         /\ a.skip = IF a.tool = "db" THEN book.next ELSE 0
         /\ \/ a.action = "find" /\ a.stages = <<>> /\ a.limit \in Limits
            \/ a.action = "aggregate" /\ a.stages \in Pipelines
            \/ a.action = "explain" /\ a.stages = <<>> /\ a.filter \in Range(store)
  <1> DEFINE Call(tool, action, db, limit, stages, filter) ==
                [tool |-> tool, action |-> action, db |-> db, stages |-> stages, filter |-> filter,
                 limit |-> limit, skip |-> IF tool = "db" THEN book.next ELSE 0]
             empty == Object(<<>>)
  <1>1. \/ \E t \in {"db", "export"}, db \in Databases, n \in Limits : a = Call(t, "find", db, n, <<>>, empty)
        \/ \E t \in {"db", "export"}, db \in Databases, p \in Pipelines : a = Call(t, "aggregate", db, 1, p, empty)
        \/ \E db \in Databases, d \in Range(store) : a = Call("db", "explain", db, 1, <<>>, d)
    BY DEF Calls
  <1>2. a # NoCall
    <2>1. a.tool \in {"db", "export"}
      BY <1>1
    <2> QED
      BY <2>1 DEF NoCall
  <1> QED
    BY <1>1, <1>2

\* Calls depends on the book and the store only, which stay while a call waits.
LEMMA CallsStay ==
  ASSUME UNCHANGED <<store, book>>
  PROVE  Calls' = Calls
  BY DEF Calls

LEMMA CallInductive == Spec => []CallInv
  <1>1. Init => CallInv
    BY DEF Init, CallInv
  <1>2. CallInv /\ [Next]_vars => CallInv'
    <2> SUFFICES ASSUME CallInv, [Next]_vars PROVE CallInv'
      OBVIOUS
    <2>1. ASSUME NEW a \in Calls, Ask(a) PROVE CallInv'
      <3>1. ask' = a /\ held' = policy /\ UNCHANGED <<store, policy, book>>
        BY <2>1 DEF Ask
      <3>2. /\ a.action = "aggregate" => ValidStages(a.stages)
            /\ Evaluate(policy, Request(a), 0).status = "allowed"
        BY <2>1 DEF Ask
      <3>3. Calls' = Calls
        BY <3>1, CallsStay
      <3> QED
        BY <2>1, <3>1, <3>2, <3>3 DEF CallInv
    <2>2. CASE Respond
      BY <2>2 DEF Respond, CallInv
    <2>3. ASSUME NEW p \in Policies, Reload(p) PROVE CallInv'
      <3>1. policy' = p /\ UNCHANGED <<store, ask, held, book>>
        BY <2>3 DEF Reload
      <3>2. Calls' = Calls
        BY <3>1, CallsStay
      <3> QED
        BY <3>1, <3>2 DEF CallInv
    <2>4. CASE UNCHANGED vars
      <3>1. UNCHANGED <<store, policy, ask, held, book>>
        BY <2>4 DEF vars
      <3>2. Calls' = Calls
        BY <3>1, CallsStay
      <3> QED
        BY <3>1, <3>2 DEF CallInv
    <2> QED
      BY <2>1, <2>2, <2>3, <2>4 DEF Next
  <1> QED
    BY <1>1, <1>2, PTL DEF Spec

\* What an allowed request may do.
LEMMA AllowedIs ==
  ASSUME NEW p \in Policies, NEW a \in Calls, Evaluate(p, Request(a), 0).status = "allowed"
  PROVE  /\ CollectionPermitted(Coll, ScopeFor(p, a.db))
         /\ \A c \in Collections([list |-> a.stages]) : CollectionPermitted(c, ScopeFor(p, a.db))
         /\ Heads([list |-> a.stages]) \intersect MaskFieldsFor(p, Coll, a.db) = {}
  <1> DEFINE req == Request(a)
  <1>1. /\ req.coll = Coll /\ req.action = a.action /\ req.db = a.db
        /\ req.refs = Collections([list |-> a.stages]) /\ req.uses = Heads([list |-> a.stages])
    BY DEF Request
  <1> HIDE DEF req
  <1>2. PipelinePermitted(p, req) /\ ~Forbidden(p, req)
    BY DEF Evaluate, EngineDecision, req
  <1>3. a.action \notin DbLevelActions
    BY CallsAre DEF DbLevelActions
  <1> QED
    BY <1>1, <1>2, <1>3 DEF PipelinePermitted, Forbidden

----------------------------------------------------------------------------

LEMMA RespondJoins ==
  ASSUME CallInv, Respond
  PROVE  JoinsOnlyPermitted'
  <1> DEFINE raw == Executed(ask)
  <1>1. /\ ask # NoCall
        /\ answer' = Success(ask, raw, Cached(held, ask.db)[<<held, CacheKey(ask.db)>>])
    BY DEF Respond
  <1>2. /\ answer'.by = held /\ answer'.db = ask.db
        /\ answer'.reads = {Coll} \union ReadsOf(ask.stages) /\ answer'.writes = WritesOf(ask.stages)
    BY <1>1 DEF Success
  <1>3. ask \in Calls /\ held \in Policies /\ (ask.action = "aggregate" => ValidStages(ask.stages))
    BY <1>1 DEF CallInv
  <1>4. /\ CollectionPermitted(Coll, ScopeFor(held, ask.db))
        /\ \A c \in Collections([list |-> ask.stages]) : CollectionPermitted(c, ScopeFor(held, ask.db))
    BY <1>1, <1>3, AllowedIs DEF CallInv
  <1>5. /\ ReadsOf(ask.stages) \subseteq Collections([list |-> ask.stages])
        /\ WritesOf(ask.stages) = {}
    <2>1. CASE ask.action = "aggregate"
      <3>1. Fits([list |-> ask.stages])
        BY <1>3, <2>1, CallsAre, ResultsAssumption DEF ResultsAssumption
      <3> QED
        BY <1>3, <2>1, <3>1, ReadsAreFound, NothingIsWritten
    <2>2. CASE ask.action # "aggregate"
      BY <1>3, <2>2, CallsAre, NothingInNoStages
    <2> QED
      BY <2>1, <2>2
  <1>6. \A c \in answer'.reads : CollectionPermitted(c, ScopeFor(answer'.by, answer'.db))
    BY <1>2, <1>4, <1>5
  <1> QED
    BY <1>2, <1>5, <1>6 DEF JoinsOnlyPermitted, Given

\* guard.py:52-89.  For any pipelines, policies and reloads: what a pipeline
\* reads, however deep it joins, is permitted in the call's database, and no
\* stage of it writes.
THEOREM JoinsPermitted == Spec => []JoinsOnlyPermitted
  <1>1. Init => JoinsOnlyPermitted
    BY DEF Init, JoinsOnlyPermitted, Given
  <1>2. CallInv /\ JoinsOnlyPermitted /\ [Next]_vars => JoinsOnlyPermitted'
    <2> SUFFICES ASSUME CallInv, JoinsOnlyPermitted, [Next]_vars PROVE JoinsOnlyPermitted'
      OBVIOUS
    <2>1. ASSUME NEW a \in Calls, Ask(a) PROVE JoinsOnlyPermitted'
      BY <2>1 DEF Ask, JoinsOnlyPermitted, Given
    <2>2. CASE Respond
      BY <2>2, RespondJoins
    <2>3. ASSUME NEW p \in Policies, Reload(p) PROVE JoinsOnlyPermitted'
      BY <2>3 DEF Reload, JoinsOnlyPermitted, Given
    <2>4. CASE UNCHANGED vars
      BY <2>4 DEF vars, JoinsOnlyPermitted, Given
    <2> QED
      BY <2>1, <2>2, <2>3, <2>4 DEF Next
  <1> QED
    BY <1>1, <1>2, CallInductive, PTL DEF Spec

----------------------------------------------------------------------------
(* Pages.                                                                  *)

Sized(docs) == IsSeq(docs) /\ \A i \in 1 .. Len(docs) : Size(docs[i]) \in Nat

LEMMA SizeOfIs ==
  ASSUME NEW docs, Sized(docs)
  PROVE  /\ SizeOf(docs) \in Nat
         /\ Len(docs) = 0 => SizeOf(docs) = 0
         /\ Len(docs) = 1 => SizeOf(docs) = Size(docs[1])
  <1> DEFINE N == Len(docs)
             Is(f) == f = [n \in 0 .. N |-> IF n = 0 THEN 0 ELSE f[n - 1] + Size(docs[n])]
             step == [n \in 1 .. N |-> [v \in Nat |-> v + Size(docs[n])]]
  <1>n. N \in Nat /\ \A i \in 1 .. N : Size(docs[i]) \in Nat
    BY LenProperties DEF Sized, IsSeq
  <1> HIDE DEF N
  <1>1. step \in [1 .. N -> [Nat -> Nat]]
    BY <1>n
  <1>2. PICK f \in [0 .. N -> Nat] : Filled(f, N, 0, step)
    <2> HIDE DEF step
    <2>1. 0 \in Nat
      OBVIOUS
    <2> QED
      BY <1>n, <1>1, <2>1, TableExists, Zenon
  <1>3. \A n \in 1 .. N : f[n] = f[n - 1] + Size(docs[n])
    <2> SUFFICES ASSUME NEW n \in 1 .. N PROVE f[n] = f[n - 1] + Size(docs[n])
      OBVIOUS
    <2>1. f[n - 1] \in Nat
      BY <1>n
    <2> QED
      BY <1>2, <2>1 DEF Filled
  <1>4. Is(f)
    BY <1>n, <1>2, <1>3 DEF Filled
  <1> DEFINE sum == CHOOSE g : Is(g)
  <1>5. Is(sum)
    BY <1>4
  <1>6. SizeOf(docs) = sum[N]
    BY DEF SizeOf, N
  <1> HIDE DEF sum
  <1>7. sum[0] = 0 /\ \A n \in 0 .. N - 1 : sum[n + 1] = sum[n] + Size(docs[n + 1])
    <2>1. \A n \in 0 .. N : sum[n] = IF n = 0 THEN 0 ELSE sum[n - 1] + Size(docs[n])
      BY <1>5
    <2> QED
      BY <1>n, <2>1
  <1> DEFINE M == {n \in 0 .. N : sum[n] \in Nat}
  <1>8. 0 \in M
    BY <1>n, <1>7
  <1>9. ASSUME NEW n \in 0 .. N - 1, n \in M PROVE n + 1 \in M
    BY <1>n, <1>7, <1>9
  <1>10. N \in M
    <2> HIDE DEF M
    <2>1. \A n \in 0 .. N : n \in M
      BY <1>n, <1>8, <1>9, UpTo, Zenon
    <2> QED
      BY <1>n, <2>1
  <1>11. N = 1 => sum[1] = Size(docs[1])
    BY <1>n, <1>7
  <1> QED
    BY <1>6, <1>7, <1>10, <1>11 DEF N

LEMMA SliceIs ==
  ASSUME NEW docs, IsSeq(docs), NEW m \in 1 .. Len(docs) + 1, NEW n \in m - 1 .. Len(docs)
  PROVE  /\ IsSeq(SubSeq(docs, m, n)) /\ Len(SubSeq(docs, m, n)) = n - m + 1
         /\ \A i \in 1 .. n - m + 1 : SubSeq(docs, m, n)[i] = docs[m + i - 1]
  <1>1. docs \in Seq(Range(docs)) /\ Len(docs) \in Nat
    BY LenProperties DEF IsSeq
  <1>2. \A i \in m .. n : docs[i] \in Range(docs)
    BY <1>1, ElementOfSeq
  <1>3. /\ SubSeq(docs, m, n) \in Seq(Range(docs))
        /\ Len(SubSeq(docs, m, n)) = IF m <= n THEN n - m + 1 ELSE 0
        /\ \A i \in 1 .. n - m + 1 : SubSeq(docs, m, n)[i] = docs[m + i - 1]
    <2>1. m \in Int /\ n \in Int
      BY <1>1
    <2> QED
      BY <1>2, <2>1, SubSeqProperties
  <1>4. IsSeq(SubSeq(docs, m, n))
    BY <1>3, SeqOfRange DEF IsSeq
  <1> QED
    BY <1>1, <1>3, <1>4

LEMMA SlicesSized ==
  ASSUME NEW docs, Sized(docs), NEW m \in 1 .. Len(docs) + 1, NEW n \in m - 1 .. Len(docs)
  PROVE  Sized(SubSeq(docs, m, n))
  <1>1. IsSeq(docs) /\ Len(docs) \in Nat
    BY LenProperties DEF Sized, IsSeq
  <1>2. /\ IsSeq(SubSeq(docs, m, n)) /\ Len(SubSeq(docs, m, n)) = n - m + 1
        /\ \A i \in 1 .. n - m + 1 : SubSeq(docs, m, n)[i] = docs[m + i - 1]
    BY <1>1, SliceIs
  <1>3. \A i \in 1 .. n - m + 1 : m + i - 1 \in 1 .. Len(docs)
    BY <1>1
  <1> QED
    BY <1>2, <1>3 DEF Sized

\* A prefix within the budget, and the longest.
LEMMA CappedIs ==
  ASSUME NEW docs, Sized(docs)
  PROVE  \E n \in 0 .. Len(docs) :
            /\ Capped(docs) = SubSeq(docs, 1, n)
            /\ n < Len(docs) => SizeOf(SubSeq(docs, 1, n + 1)) > Budget
  <1> DEFINE N == Len(docs)
             C(n) == SizeOf(SubSeq(docs, 1, n))
             Ends(n) == C(n) <= Budget /\ (n < N => C(n + 1) > Budget)
             M == {n \in 0 .. N : C(n) <= Budget}
  <1>n. N \in Nat /\ Budget \in Nat
    BY LenProperties, ResultsAssumption DEF Sized, IsSeq, ResultsAssumption
  <1>1. \A n \in 0 .. N : C(n) \in Nat
    <2> SUFFICES ASSUME NEW n \in 0 .. N PROVE C(n) \in Nat
      OBVIOUS
    <2>1. 1 \in 1 .. Len(docs) + 1 /\ n \in 1 - 1 .. Len(docs)
      BY <1>n
    <2> QED
      BY <2>1, SlicesSized, SizeOfIs
  <1>2. C(0) = 0
    <2>1. SubSeq(docs, 1, 0) = <<>>
      BY SubSeqEmpty
    <2>2. Len(<<>>) = 0 /\ IsSeq(<<>>)
      BY EmptySeq, SeqOfRange DEF IsSeq
    <2>3. Sized(<<>>)
      BY <2>2 DEF Sized
    <2> QED
      BY <2>1, <2>2, <2>3, SizeOfIs
  <1>3. \E n \in 0 .. N : Ends(n)
    <2> SUFFICES ASSUME \A n \in 0 .. N : ~Ends(n) PROVE FALSE
      OBVIOUS
    <2>1. 0 \in M
      BY <1>n, <1>2
    <2>2. ASSUME NEW n \in 0 .. N - 1, n \in M PROVE n + 1 \in M
      <3>1. ~Ends(n) /\ n < N /\ n + 1 \in 0 .. N /\ C(n) <= Budget
        BY <1>n, <2>2
      <3>2. C(n + 1) \in Nat
        BY <1>1, <3>1
      <3> HIDE DEF C
      <3> QED
        BY <1>n, <3>1, <3>2
    <2>3. N \in M
      <3> HIDE DEF M
      <3>1. \A n \in 0 .. N : n \in M
        BY <1>n, <2>1, <2>2, UpTo, Zenon
      <3> QED
        BY <1>n, <3>1
    <2>4. Ends(N)
      <3> HIDE DEF C
      <3> QED
        BY <1>n, <2>3
    <2> QED
      BY <1>n, <2>4
  <1> DEFINE k == CHOOSE n \in 0 .. N : Ends(n)
  <1>4. k \in 0 .. N /\ Ends(k)
    <2> HIDE DEF Ends
    <2> QED
      BY <1>3
  <1>5. Capped(docs) = SubSeq(docs, 1, k)
    BY Zenon DEF Capped
  <1> HIDE DEF k
  <1> QED
    BY <1>4, <1>5

LEMMA StoreIs ==
  ASSUME NEW docs \in Stores
  PROVE  /\ Sized(docs) /\ Len(docs) \in Nat
         /\ \A d \in Range(docs) : IsObject(d) /\ Fits(d) /\ Fits(Object([plan |-> d]))
  <1>1. /\ IsSeq(docs)
        /\ \A d \in Range(docs) :
              IsObject(d) /\ IsFiniteSet(Nodes(d)) /\ Fits(d) /\ Fits(Object([plan |-> d]))
    BY ResultsAssumption DEF ResultsAssumption, AreDocuments
  <1>2. Len(docs) \in Nat /\ DOMAIN docs = 1 .. Len(docs)
    BY <1>1, LenProperties DEF IsSeq
  <1>3. ASSUME NEW i \in 1 .. Len(docs) PROVE Size(docs[i]) \in Nat
    <2>1. IsFiniteSet(Nodes(docs[i]))
      BY <1>1, <1>2 DEF Range
    <2> QED
      BY <2>1, FS_CardinalityType DEF Size
  <1> QED
    BY <1>1, <1>2, <1>3 DEF Sized

\* The page after skip is the next n documents; when it is cut, a document that
\* does not fit any more comes next, and one that does not fit alone when n = 0.
IsPage(p, skip, n) ==
    /\ p.docs = SubSeq(store, skip + 1, skip + n) /\ Len(p.docs) = n
    /\ IsSeq(p.docs) /\ p.next = skip + n
    /\ ~p.more => skip + n = Len(store)
    /\ p.more /\ n = 0 => Size(store[skip + 1]) > Budget

LEMMA PageIs ==
  ASSUME store \in Stores, NEW skip \in 0 .. Len(store), NEW limit \in Nat \ {0}
  PROVE  \E n \in 0 .. Len(store) - skip : IsPage(Page(skip, limit), skip, n)
  <1> DEFINE L == Len(store)
             e == IF skip + limit < L THEN skip + limit ELSE L
             docs == Slice(store, skip, limit)
             p == Page(skip, limit)
  <1>s. Sized(store) /\ IsSeq(store) /\ L \in Nat
    BY StoreIs DEF Sized
  <1>1. docs = SubSeq(store, skip + 1, e)
    BY DEF Slice
  <1>2. /\ skip + 1 \in 1 .. L + 1 /\ e \in (skip + 1) - 1 .. L /\ e - skip \in Nat
        /\ e = L \/ e - skip = limit
    BY <1>s
  <1> HIDE DEF L, e
  <1>3. /\ Sized(docs) /\ IsSeq(docs) /\ Len(docs) = e - skip
        /\ \A i \in 1 .. e - skip : docs[i] = store[skip + i]
    <2>1. Sized(docs) /\ IsSeq(docs)
      BY <1>s, <1>1, <1>2, SlicesSized DEF Sized, L
    <2>2. /\ Len(docs) = e - (skip + 1) + 1
          /\ \A i \in 1 .. e - (skip + 1) + 1 : docs[i] = store[(skip + 1) + i - 1]
      BY <1>s, <1>1, <1>2, SliceIs DEF L
    <2> QED
      BY <1>s, <1>2, <2>1, <2>2
  <1> HIDE DEF docs
  <1>4. PICK n \in 0 .. Len(docs) :
           /\ Capped(docs) = SubSeq(docs, 1, n)
           /\ n < Len(docs) => SizeOf(SubSeq(docs, 1, n + 1)) > Budget
    BY <1>3, CappedIs
  <1> DEFINE kept == SubSeq(docs, 1, n)
             page == SubSeq(store, skip + 1, skip + n)
  <1>5. /\ IsSeq(kept) /\ Len(kept) = n /\ \A i \in 1 .. n : kept[i] = docs[i]
    <2>1. 1 \in 1 .. Len(docs) + 1 /\ n \in 1 - 1 .. Len(docs)
      BY <1>2, <1>3
    <2>2. /\ IsSeq(kept) /\ Len(kept) = n - 1 + 1
          /\ \A i \in 1 .. n - 1 + 1 : kept[i] = docs[1 + i - 1]
      BY <1>3, <2>1, SliceIs
    <2> QED
      BY <1>2, <1>3, <2>2
  <1>6. /\ IsSeq(page) /\ Len(page) = n /\ \A i \in 1 .. n : page[i] = store[skip + i]
    <2>1. skip + 1 \in 1 .. Len(store) + 1 /\ skip + n \in (skip + 1) - 1 .. Len(store)
      BY <1>s, <1>2, <1>3 DEF L
    <2>2. /\ IsSeq(page) /\ Len(page) = (skip + n) - (skip + 1) + 1
          /\ \A i \in 1 .. (skip + n) - (skip + 1) + 1 : page[i] = store[(skip + 1) + i - 1]
      BY <1>s, <2>1, SliceIs
    <2> QED
      BY <1>s, <1>2, <1>3, <2>2
  <1>7. kept = page
    <2>1. ASSUME NEW i \in 1 .. n PROVE kept[i] = page[i]
      <3>1. kept[i] = docs[i] /\ page[i] = store[skip + i]
        BY <1>5, <1>6
      <3>2. i \in 1 .. e - skip
        BY <1>2, <1>3
      <3> QED
        BY <1>3, <3>1, <3>2
    <2> DEFINE V == Range(kept) \union Range(page)
    <2>2. kept \in Seq(V) /\ page \in Seq(V)
      BY <1>5, <1>6, SeqMonotonic DEF IsSeq
    <2> HIDE DEF kept, page, V
    <2> QED
      BY <1>5, <1>6, <2>1, <2>2, SeqEqual
  <1>8. /\ p.docs = kept /\ p.next = skip + n
        /\ p.more <=> Len(docs) = limit \/ n < Len(docs)
    BY <1>4, <1>5 DEF Page, docs
  <1> HIDE DEF p, kept, page
  <1>9. ~p.more => skip + n = L
    BY <1>s, <1>2, <1>3, <1>8
  <1>10. p.more /\ n = 0 => Size(store[skip + 1]) > Budget
    <2> SUFFICES ASSUME p.more, n = 0 PROVE Size(store[skip + 1]) > Budget
      OBVIOUS
    <2>1. Len(docs) \in Nat /\ Len(docs) >= 1
      BY <1>2, <1>3, <1>8
    <2> DEFINE one == SubSeq(docs, 1, 0 + 1)
    <2>2. SizeOf(one) > Budget
      BY <1>4, <2>1
    <2>3. 1 \in 1 .. Len(docs) + 1 /\ 1 \in 1 - 1 .. Len(docs)
      BY <2>1
    <2>4. Sized(one) /\ Len(one) = 1 /\ one[1] = docs[1]
      BY <1>3, <2>3, SlicesSized, SliceIs
    <2>5. docs[1] = store[skip + 1]
      BY <1>2, <1>3, <2>1
    <2> QED
      BY <2>2, <2>4, <2>5, SizeOfIs
  <1>11. n \in 0 .. Len(store) - skip
    BY <1>s, <1>2, <1>3 DEF L
  <1> QED
    BY <1>5, <1>7, <1>8, <1>9, <1>10, <1>11 DEF p, L, page, IsPage

PagesInv == book.next \in 0 .. Len(store) /\ PagesTile

LEMMA RespondPages ==
  ASSUME CallInv, PagesInv, Respond
  PROVE  PagesInv'
  <1> DEFINE raw == Executed(ask)
             limit == IF ask.limit < MaxLimit THEN ask.limit ELSE MaxLimit
  <1>1. /\ ask # NoCall /\ store' = store /\ book' = Read(ask, raw)
        /\ answer' = Success(ask, raw, Cached(held, ask.db)[<<held, CacheKey(ask.db)>>])
    BY DEF Respond
  <1>2. ask \in Calls /\ store \in Stores
    BY <1>1 DEF CallInv
  <1>3. Len(store) \in Nat /\ IsSeq(store)
    BY <1>2, StoreIs DEF Sized
  <1>4. CASE ask.action # "find"
    <2>1. book' = book
      BY <1>1, <1>4 DEF Read
    <2>2. answer'.action # "find"
      BY <1>1, <1>4 DEF Success
    <2> QED
      BY <1>1, <2>1, <2>2 DEF PagesInv, PagesTile
  <1>5. CASE ask.action = "find"
    <2>1. raw = Page(ask.skip, limit)
      BY <1>5 DEF Executed
    <2>2. ask.skip \in 0 .. Len(store) /\ limit \in Nat \ {0}
      <3>1. ask.limit \in Nat \ {0} /\ MaxLimit \in Nat \ {0}
        BY <1>2, <1>5, CallsAre, ResultsAssumption DEF ResultsAssumption
      <3>2. ask.skip = IF ask.tool = "db" THEN book.next ELSE 0
        BY <1>2, CallsAre
      <3> QED
        BY <1>3, <3>1, <3>2 DEF PagesInv
    <2> HIDE DEF raw, limit
    <2>0. PICK n \in 0 .. Len(store) - ask.skip : IsPage(raw, ask.skip, n)
      BY <1>2, <2>1, <2>2, PageIs
    <2>3. /\ raw.docs = SubSeq(store, ask.skip + 1, ask.skip + n) /\ Len(raw.docs) = n
          /\ IsSeq(raw.docs) /\ raw.next = ask.skip + n
          /\ ~raw.more => ask.skip + n = Len(store)
          /\ raw.more /\ n = 0 => Size(store[ask.skip + 1]) > Budget
      BY <2>0 DEF IsPage
    <2>4. /\ book'.next \in 0 .. Len(store)
          /\ book'.got = SubSeq(store, 1, book'.next)
          /\ ~book'.more => book'.next = Len(store)
      <3>1. CASE book' = book
        BY <3>1 DEF PagesInv, PagesTile
      <3>2. CASE /\ ask.tool = "db"
                 /\ book' = [next |-> raw.next, got |-> book.got \o raw.docs, more |-> raw.more]
        <4>1. ask.skip = book.next
          BY <1>2, <3>2, CallsAre
        <4>2. SubSeq(store, 1, ask.skip) \o raw.docs = SubSeq(store, 1, ask.skip + n)
          <5>1. store \in Seq(Range(store))
            BY <1>3 DEF IsSeq
          <5>2. /\ 1 \in 1 .. Len(store) + 1 /\ ask.skip \in 1 - 1 .. Len(store)
                /\ ask.skip + n \in ask.skip .. Len(store)
            BY <1>3, <2>2
          <5> QED
            BY <2>3, <5>1, <5>2, ConcatAdjacentSubSeq
        <4>3. ask.skip + n \in 0 .. Len(store)
          BY <1>3, <2>2
        <4> QED
          BY <2>3, <3>2, <4>1, <4>2, <4>3 DEF PagesInv, PagesTile
      <3> QED
        BY <1>1, <3>1, <3>2 DEF Read
    <2>5. answer'.docs = <<>> /\ answer'.more => Size(store[answer'.next + 1]) > Budget
      <3>1. /\ answer'.more = raw.more /\ answer'.next = raw.next
            /\ \E r : answer'.docs = Transform(r, raw.docs)
        BY <1>1, Zenon DEF Success, Returned, raw
      <3> SUFFICES ASSUME answer'.docs = <<>>, raw.more
                   PROVE  Size(store[raw.next + 1]) > Budget
        BY <3>1
      <3>2. PICK r : Transform(r, raw.docs) = <<>>
        BY <3>1
      <3>3. DOMAIN raw.docs = 1 .. n /\ n \in Nat
        BY <1>3, <2>2, <2>3, LenProperties DEF IsSeq
      <3>4. n = 0
        <4>1. CASE raw.docs = <<>>
          BY <2>3, <4>1
        <4>2. CASE [i \in DOMAIN raw.docs |-> Walk(r, raw.docs[i])] = <<>>
          <5>1. DOMAIN raw.docs = {}
            BY <4>2
          <5>2. n # 0 => 1 \in 1 .. n
            BY <3>3
          <5> QED
            BY <3>3, <5>1, <5>2
        <4> QED
          BY <3>2, <4>1, <4>2 DEF Transform
      <3>5. raw.next = ask.skip
        BY <2>2, <2>3, <3>4
      <3> QED
        BY <2>3, <3>4, <3>5
    <2> QED
      BY <1>1, <2>4, <2>5 DEF PagesInv, PagesTile
  <1> QED
    BY <1>4, <1>5

LEMMA PagesInductive == Spec => []PagesInv
  <1>1. Init => PagesInv
    <2> SUFFICES ASSUME Init PROVE PagesInv
      OBVIOUS
    <2>1. /\ store \in Stores /\ answer = NoCall
          /\ book.next = 0 /\ book.got = <<>> /\ book.more
      BY DEF Init
    <2>2. Len(store) \in Nat
      BY <2>1, StoreIs
    <2>3. SubSeq(store, 1, 0) = <<>>
      BY SubSeqEmpty
    <2> QED
      BY <2>1, <2>2, <2>3 DEF PagesInv, PagesTile
  <1>2. CallInv /\ PagesInv /\ [Next]_vars => PagesInv'
    <2> SUFFICES ASSUME CallInv, PagesInv, [Next]_vars PROVE PagesInv'
      OBVIOUS
    <2>1. ASSUME NEW a \in Calls, Ask(a) PROVE PagesInv'
      BY <2>1 DEF Ask, PagesInv, PagesTile
    <2>2. CASE Respond
      BY <2>2, RespondPages
    <2>3. ASSUME NEW p \in Policies, Reload(p) PROVE PagesInv'
      BY <2>3 DEF Reload, PagesInv, PagesTile
    <2>4. CASE UNCHANGED vars
      BY <2>4 DEF vars, PagesInv, PagesTile
    <2> QED
      BY <2>1, <2>2, <2>3, <2>4 DEF Next
  <1> QED
    BY <1>1, <1>2, CallInductive, PTL DEF Spec

\* executor.py:385-394.  For any collection, budget, limits and calls in between:
\* pages tile the collection, and nothing is left where has_more is false.
THEOREM PagesAreTiles == Spec => []PagesTile
  <1>1. PagesInv => PagesTile
    BY DEF PagesInv
  <1> QED
    BY <1>1, PagesInductive, PTL

----------------------------------------------------------------------------
(* Names and what is hidden, one step at a time.                           *)

NamesTable(f, s) ==
    f = [n \in 0 .. Len(s) |->
            IF n = 0 THEN <<>>
            ELSE IF IsKey(s[n]) THEN Append(f[n - 1], s[n].key) ELSE f[n - 1]]

LEMMA NamesTableStep ==
  ASSUME NEW f, NEW s, Len(s) \in Nat, NamesTable(f, s)
  PROVE  /\ f[0] = <<>>
         /\ \A n \in 1 .. Len(s) : f[n] = IF IsKey(s[n]) THEN Append(f[n - 1], s[n].key) ELSE f[n - 1]
  <1>1. \A n \in 0 .. Len(s) :
           f[n] = IF n = 0 THEN <<>>
                  ELSE IF IsKey(s[n]) THEN Append(f[n - 1], s[n].key) ELSE f[n - 1]
    BY DEF NamesTable
  <1> QED
    BY <1>1

LEMMA NamesAre ==
  ASSUME NEW s, IsSeq(s)
  PROVE  /\ \E f : NamesTable(f, s) /\ Names(s) = f[Len(s)]
         /\ IsSeq(Names(s))
  <1> DEFINE N == Len(s)
             K == {s[n].key : n \in 1 .. N}
             step == [n \in 1 .. N |-> [v \in Seq(K) |-> IF IsKey(s[n]) THEN Append(v, s[n].key) ELSE v]]
  <1>n. N \in Nat
    BY LenProperties DEF IsSeq
  <1>e. <<>> \in Seq(K)
    BY EmptySeq
  <1> HIDE DEF N
  <1>1. step \in [1 .. N -> [Seq(K) -> Seq(K)]]
    <2> SUFFICES ASSUME NEW n \in 1 .. N, NEW v \in Seq(K)
                 PROVE  (IF IsKey(s[n]) THEN Append(v, s[n].key) ELSE v) \in Seq(K)
      OBVIOUS
    <2>1. s[n].key \in K
      OBVIOUS
    <2> HIDE DEF K
    <2> QED
      BY <2>1, AppendProperties
  <1>2. PICK f \in [0 .. N -> Seq(K)] : Filled(f, N, <<>>, step)
    <2> HIDE DEF step, K
    <2> QED
      BY <1>n, <1>e, <1>1, TableExists, Zenon
  <1> HIDE DEF K
  <1>3. ASSUME NEW n \in 1 .. N
        PROVE  f[n] = IF IsKey(s[n]) THEN Append(f[n - 1], s[n].key) ELSE f[n - 1]
    <2>1. f[n - 1] \in Seq(K)
      BY <1>n
    <2> QED
      BY <1>2, <2>1 DEF Filled
  <1>4. NamesTable(f, s)
    <2>1. f = [n \in 0 .. N |-> f[n]]
      OBVIOUS
    <2>2. \A n \in 0 .. N : f[n] = IF n = 0 THEN <<>>
                                 ELSE IF IsKey(s[n]) THEN Append(f[n - 1], s[n].key) ELSE f[n - 1]
      <3>1. f[0] = <<>>
        BY <1>2 DEF Filled
      <3>2. \A n \in 0 .. N : n # 0 => n \in 1 .. N
        BY <1>n
      <3> QED
        BY <1>3, <3>1, <3>2, Zenon
    <2> QED
      BY <2>1, <2>2 DEF NamesTable, N
  <1> DEFINE g == CHOOSE h : NamesTable(h, s)
  <1>5. NamesTable(g, s)
    BY <1>4
  <1>6. Names(s) = g[Len(s)]
    BY DEF Names, NamesTable
  <1> HIDE DEF g
  <1>7. IsSeq(g[Len(s)])
    <2>1. /\ g[0] = <<>>
          /\ \A n \in 1 .. N : g[n] = IF IsKey(s[n]) THEN Append(g[n - 1], s[n].key) ELSE g[n - 1]
      BY <1>5, <1>n, NamesTableStep DEF N
    <2> DEFINE M == {n \in Nat : IsSeq(g[n])}
    <2>2. 0 \in M
      BY <1>e, <2>1, SeqOfRange DEF IsSeq
    <2>3. ASSUME NEW n \in 0 .. N - 1, n \in M PROVE n + 1 \in M
      <3>1. /\ n + 1 \in 1 .. N /\ (n + 1) - 1 = n /\ IsSeq(g[n]) /\ n + 1 \in Nat
        BY <1>n, <2>3
      <3>2. g[n + 1] = IF IsKey(s[n + 1]) THEN Append(g[n], s[n + 1].key) ELSE g[n]
        BY <2>1, <3>1
      <3>3. IsSeq(Append(g[n], s[n + 1].key))
        BY <3>1, AppendPlace, Zenon
      <3> QED
        BY <3>1, <3>2, <3>3
    <2>4. \A n \in 0 .. N : n \in M
      <3> HIDE DEF M
      <3> QED
        BY <1>n, <2>2, <2>3, UpTo, Zenon
    <2> QED
      BY <1>n, <2>4 DEF N
  <1> QED
    BY <1>5, <1>6, <1>7

LEMMA NamesStep ==
  ASSUME NEW s, IsSeq(s), NEW e
  PROVE  /\ Names(<<>>) = <<>>
         /\ IsKey(e) => Names(Append(s, e)) = Append(Names(s), e.key)
         /\ ~IsKey(e) => Names(Append(s, e)) = Names(s)
  <1>1. Names(<<>>) = <<>>
    <2>1. IsSeq(<<>>) /\ Len(<<>>) = 0
      BY EmptySeq, SeqOfRange DEF IsSeq
    <2>2. PICK f : NamesTable(f, <<>>) /\ Names(<<>>) = f[0]
      BY <2>1, NamesAre
    <2> QED
      BY <2>1, <2>2, NamesTableStep
  <1> DEFINE a == Append(s, e)
             N == Len(s)
  <1>2. /\ IsSeq(a) /\ Len(a) = N + 1 /\ N \in Nat /\ a[N + 1] = e
        /\ \A i \in 1 .. N : a[i] = s[i]
    BY AppendPlace
  <1> HIDE DEF a
  <1>3. PICK f : NamesTable(f, s) /\ Names(s) = f[N]
    BY NamesAre
  <1>4. PICK g : NamesTable(g, a) /\ Names(a) = g[N + 1]
    BY <1>2, NamesAre
  <1>5. /\ f[0] = <<>>
        /\ \A n \in 1 .. N : f[n] = IF IsKey(s[n]) THEN Append(f[n - 1], s[n].key) ELSE f[n - 1]
    BY <1>2, <1>3, NamesTableStep
  <1>6. /\ g[0] = <<>>
        /\ \A n \in 1 .. N + 1 : g[n] = IF IsKey(a[n]) THEN Append(g[n - 1], a[n].key) ELSE g[n - 1]
    BY <1>2, <1>4, NamesTableStep
  <1> HIDE DEF N
  <1> DEFINE M == {n \in Nat : f[n] = g[n]}
  <1>7. 0 \in M
    BY <1>5, <1>6
  <1>8. ASSUME NEW n \in 0 .. N - 1, n \in M PROVE n + 1 \in M
    <2>1. n + 1 \in 1 .. N /\ n + 1 \in 1 .. N + 1 /\ (n + 1) - 1 = n /\ n + 1 \in Nat /\ f[n] = g[n]
      BY <1>2, <1>8
    <2>2. a[n + 1] = s[n + 1]
      BY <1>2, <2>1
    <2>3. f[n + 1] = IF IsKey(s[n + 1]) THEN Append(f[n], s[n + 1].key) ELSE f[n]
      BY <1>5, <2>1
    <2>4. g[n + 1] = IF IsKey(s[n + 1]) THEN Append(g[n], s[n + 1].key) ELSE g[n]
      BY <1>6, <2>1, <2>2
    <2>5. f[n + 1] = g[n + 1]
      BY <2>1, <2>3, <2>4
    <2> QED
      BY <2>1, <2>5
  <1>9. f[N] = g[N]
    <2>1. \A n \in 0 .. N : n \in M
      <3> HIDE DEF M
      <3> QED
        BY <1>2, <1>7, <1>8, UpTo, Zenon
    <2> QED
      BY <1>2, <2>1
  <1>10. g[N + 1] = IF IsKey(e) THEN Append(g[N], e.key) ELSE g[N]
    <2>1. N + 1 \in 1 .. N + 1 /\ (N + 1) - 1 = N
      BY <1>2
    <2> QED
      BY <1>2, <1>6, <2>1
  <1> QED
    BY <1>1, <1>3, <1>4, <1>9, <1>10 DEF a

LEMMA PrefixOfAppend ==
  ASSUME NEW s, IsSeq(s), NEW e
  PROVE  /\ \A n \in 0 .. Len(s) : SubSeq(Append(s, e), 1, n) = SubSeq(s, 1, n)
         /\ SubSeq(Append(s, e), 1, Len(s) + 1) = Append(s, e)
  <1> DEFINE V == Range(s) \union {e}
  <1>1. s \in Seq(V) /\ e \in V
    BY SeqMonotonic DEF IsSeq
  <1> HIDE DEF V
  <1>2. /\ Append(s, e) \in Seq(V) /\ Len(Append(s, e)) = Len(s) + 1 /\ Len(s) \in Nat
        /\ \A i \in 1 .. Len(s) : Append(s, e)[i] = s[i]
    BY <1>1, AppendProperties, LenProperties
  <1>3. SubSeq(Append(s, e), 1, Len(s) + 1) = Append(s, e)
    BY <1>2, SubSeqFull
  <1>4. ASSUME NEW n \in 0 .. Len(s) PROVE SubSeq(Append(s, e), 1, n) = SubSeq(s, 1, n)
    <2> DEFINE p == SubSeq(Append(s, e), 1, n)
               q == SubSeq(s, 1, n)
    <2>1. \A i \in 1 .. n : Append(s, e)[i] = s[i] /\ s[i] \in V
      BY <1>1, <1>2, ElementOfSeq
    <2>2. p \in Seq(V) /\ Len(p) = n /\ \A i \in 1 .. n : p[i] = s[i]
      BY <1>2, <2>1, SubSeqProperties
    <2>3. q \in Seq(V) /\ Len(q) = n /\ \A i \in 1 .. n : q[i] = s[i]
      BY <1>2, <2>1, SubSeqProperties
    <2> HIDE DEF p, q
    <2> QED
      BY <2>2, <2>3, SeqEqual DEF p, q
  <1> QED
    BY <1>3, <1>4

\* A place is hidden when the one before it is, or when the masker comes to the
\* key of the last step and the rules say something of it.
LEMMA HiddenStep ==
  ASSUME NEW r, NEW s, IsSeq(s), NEW e
  PROVE  /\ ~Hidden(r, <<>>)
         /\ Hidden(r, Append(s, e)) <=>
               Hidden(r, s) \/ (IsKey(e) /\ Visited(s) /\ Cut(r, Append(s, e)))
  <1> DEFINE a == Append(s, e)
             N == Len(s)
             At(p, n) == IsKey(p[n]) /\ Visited(SubSeq(p, 1, n - 1)) /\ Cut(r, SubSeq(p, 1, n))
  <1>1. /\ IsSeq(a) /\ Len(a) = N + 1 /\ N \in Nat /\ a[N + 1] = e
        /\ \A i \in 1 .. N : a[i] = s[i]
    BY AppendPlace
  <1>2. /\ \A n \in 0 .. N : SubSeq(a, 1, n) = SubSeq(s, 1, n)
        /\ SubSeq(a, 1, N + 1) = a
    BY PrefixOfAppend
  <1>3. SubSeq(s, 1, N) = s
    BY SubSeqFull DEF IsSeq
  <1> HIDE DEF a, N
  <1>4. ASSUME NEW n \in 1 .. N PROVE At(a, n) <=> At(s, n)
    <2>1. n \in 0 .. N /\ n - 1 \in 0 .. N
      BY <1>1
    <2>2. a[n] = s[n] /\ SubSeq(a, 1, n) = SubSeq(s, 1, n) /\ SubSeq(a, 1, n - 1) = SubSeq(s, 1, n - 1)
      BY <1>1, <1>2, <2>1
    <2> QED
      BY <2>2
  <1>5. At(a, N + 1) <=> (IsKey(e) /\ Visited(s) /\ Cut(r, a))
    <2>1. (N + 1) - 1 = N /\ N \in 0 .. N
      BY <1>1
    <2>2. SubSeq(a, 1, (N + 1) - 1) = s
      BY <1>2, <1>3, <2>1
    <2> QED
      BY <1>1, <1>2, <2>2
  <1>6. \A n : n \in 1 .. N + 1 <=> n \in 1 .. N \/ n = N + 1
    BY <1>1
  <1>7. Hidden(r, a) <=> \E n \in 1 .. N + 1 : At(a, n)
    BY <1>1 DEF Hidden
  <1>8. Hidden(r, s) <=> \E n \in 1 .. N : At(s, n)
    BY DEF Hidden, N
  <1>9. ~Hidden(r, <<>>)
    BY DEF Hidden
  <1> HIDE DEF At
  <1>10. Hidden(r, a) <=> Hidden(r, s) \/ At(a, N + 1)
    BY <1>4, <1>6, <1>7, <1>8, Zenon
  <1> QED
    BY <1>5, <1>9, <1>10 DEF a

LEMMA VisitedStep ==
  ASSUME NEW s, IsSeq(s), NEW e
  PROVE  /\ Visited(<<>>)
         /\ Visited(Append(s, e)) <=> Visited(s) /\ (s # <<>> => IsKey(s[Len(s)]) \/ IsKey(e))
  <1> DEFINE a == Append(s, e)
             N == Len(s)
  <1>1. /\ Len(a) = N + 1 /\ N \in Nat /\ a[N + 1] = e
        /\ \A i \in 1 .. N : a[i] = s[i]
    BY AppendPlace
  <1>2. s # <<>> <=> N # 0
    BY EmptySeq DEF IsSeq
  <1>3. Visited(<<>>)
    BY DEF Visited
  <1> HIDE DEF a, N
  <1>4. Visited(a) <=> \A i \in 1 .. N : IsKey(a[i]) \/ IsKey(a[i + 1])
    BY <1>1 DEF Visited
  <1>5. \A i \in 1 .. N - 1 : a[i] = s[i] /\ a[i + 1] = s[i + 1]
    BY <1>1
  <1>6. Visited(s) <=> \A i \in 1 .. N - 1 : IsKey(a[i]) \/ IsKey(a[i + 1])
    BY <1>5 DEF Visited, N
  <1>7. N # 0 => a[N] = s[N]
    BY <1>1
  <1>8. \A i : i \in 1 .. N <=> i \in 1 .. N - 1 \/ (N # 0 /\ i = N)
    BY <1>1
  <1> HIDE DEF IsKey, Visited
  <1> QED
    BY <1>1, <1>2, <1>3, <1>4, <1>6, <1>7, <1>8 DEF a, N

----------------------------------------------------------------------------
(* The walk of the masker.                                                 *)

AgreeBelow(f, g, d, x) == \A y \in Objects(d) : Len(y[1]) > Len(x[1]) => f[y] = g[y]

\* What is shown of an object depends on the objects below it only.
LEMMA VisitSame ==
  ASSUME NEW d, Fits(d), NEW r, NEW x \in Objects(d), NEW f, NEW g, AgreeBelow(f, g, d, x)
  PROVE  Visit(r, f, x) = Visit(r, g, x)
  <1>1. x \in Nodes(d) /\ IsObject(x[2]) /\ IsNode(x) /\ Len(x[1]) \in Nat
    BY NodesTyped DEF Objects
  <1>2. ASSUME NEW k \in DOMAIN x[2].object
        PROVE  Shown(r, f, KeyNode(x, k)) = Shown(r, g, KeyNode(x, k))
    <2> DEFINE y == KeyNode(x, k)
    <2>1. y \in Nodes(d) /\ IsNode(y) /\ Len(y[1]) = Len(x[1]) + 1
      <3>1. y \in Below(x)
        BY <1>1 DEF Below
      <3> HIDE DEF y
      <3> QED
        BY <1>1, <3>1, BelowIs DEF Fits
    <2> HIDE DEF y
    <2>2. CASE IsObject(y[2])
      <3>1. f[y] = g[y]
        BY <1>1, <2>1, <2>2 DEF Objects, AgreeBelow
      <3> QED
        BY <2>2, <3>1 DEF Shown, y
    <2>3. CASE IsList(y[2]) /\ ~IsObject(y[2])
      <3>1. ASSUME NEW i \in DOMAIN y[2].list, IsObject(y[2].list[i])
            PROVE  f[ItemNode(y, i)] = g[ItemNode(y, i)]
        <4> DEFINE z == ItemNode(y, i)
        <4>1. z \in Below(y)
          BY <2>3 DEF Below
        <4>2. z[2] = y[2].list[i]
          BY DEF ItemNode
        <4> HIDE DEF z
        <4>3. z \in Nodes(d) /\ Len(z[1]) = Len(y[1]) + 1
          BY <2>1, <4>1, BelowIs DEF Fits
        <4>4. z \in Objects(d) /\ Len(z[1]) > Len(x[1])
          BY <1>1, <2>1, <3>1, <4>2, <4>3 DEF Objects
        <4> QED
          BY <4>4 DEF z, AgreeBelow
      <3>2. [i \in DOMAIN y[2].list |->
                IF IsObject(y[2].list[i]) THEN f[ItemNode(y, i)] ELSE y[2].list[i]]
            = [i \in DOMAIN y[2].list |->
                IF IsObject(y[2].list[i]) THEN g[ItemNode(y, i)] ELSE y[2].list[i]]
        BY <3>1
      <3> QED
        BY <2>3, <3>2, Zenon DEF Shown, y
    <2>4. CASE ~IsList(y[2]) /\ ~IsObject(y[2])
      BY <2>4 DEF Shown, y
    <2> QED
      BY <2>2, <2>3, <2>4 DEF y
  <1> DEFINE K == {n \in DOMAIN x[2].object : x[1] = <<>> => Projects(r, n)}
  <1>3. [k \in K |-> Shown(r, f, KeyNode(x, k))] = [k \in K |-> Shown(r, g, KeyNode(x, k))]
    BY <1>2
  <1> QED
    BY <1>3, Zenon DEF Visit

IsWalk(w, r, d) == \A x \in Objects(d) : w[x] = Visit(r, w, x)

LEMMA WalkIs ==
  ASSUME NEW d, Fits(d), IsObject(d), NEW r
  PROVE  \E w : IsWalk(w, r, d) /\ Walk(r, d) = w[Root(d)]
  <1> DEFINE N == MaxNesting
             T(m) == {x \in Objects(d) : Len(x[1]) >= N + 1 - m}
             Is(f, m) == \A x \in T(m) : f[x] = Visit(r, f, x)
             M == {m \in Nat : \E f : Is(f, m)}
  <1>n. N \in Nat
    BY NestingIsNat
  <1>d. \A x \in Objects(d) : Len(x[1]) \in Nat /\ Len(x[1]) <= N
    BY NodesTyped, NodeDepth DEF Objects
  <1> HIDE DEF N
  <1>1. 0 \in M
    <2>1. T(0) = {}
      BY <1>n, <1>d
    <2>2. Is(0, 0)
      BY <2>1
    <2> HIDE DEF Is
    <2> QED
      BY <2>2
  <1>2. ASSUME NEW m \in 0 .. (N + 1) - 1, m \in M PROVE m + 1 \in M
    <2>1. PICK f : Is(f, m)
      BY <1>2
    <2> DEFINE g == [x \in Objects(d) |-> IF x \in T(m) THEN f[x] ELSE Visit(r, f, x)]
    <2>2. \A x \in T(m) : g[x] = f[x]
      OBVIOUS
    <2>3. ASSUME NEW x \in T(m + 1) PROVE g[x] = Visit(r, g, x)
      <3>0. x \in Objects(d)
        OBVIOUS
      <3>1. g[x] = Visit(r, f, x)
        BY <2>1, <3>0
      <3>2. ASSUME NEW y \in Objects(d), Len(y[1]) > Len(x[1]) PROVE f[y] = g[y]
        <4>1. Len(y[1]) >= N + 1 - m
          BY <1>n, <1>d, <3>2
        <4> HIDE DEF g
        <4> QED
          BY <2>2, <4>1
      <3> HIDE DEF g
      <3>3. Visit(r, f, x) = Visit(r, g, x)
        <4>1. AgreeBelow(f, g, d, x)
          BY <3>2 DEF AgreeBelow
        <4> QED
          BY <3>0, <4>1, VisitSame, Zenon
      <3> QED
        BY <3>1, <3>3
    <2>4. Is(g, m + 1)
      BY <2>3
    <2>5. m + 1 \in Nat
      BY <1>n
    <2> HIDE DEF Is, g
    <2> QED
      BY <2>4, <2>5
  <1>3. N + 1 \in M
    <2> HIDE DEF M
    <2>1. N + 1 \in Nat /\ \A n \in 0 .. N + 1 : n \in M
      BY <1>n, <1>1, <1>2, UpTo
    <2> QED
      BY <1>n, <2>1
  <1>4. PICK f : Is(f, N + 1)
    BY <1>3
  <1>5. T(N + 1) = Objects(d)
    BY <1>n, <1>d
  <1> DEFINE g == [x \in Objects(d) |-> f[x]]
             Does2(h) == h = [x \in Objects(d) |-> Visit(r, h, x)]
  <1>6. Does2(g)
    <2>1. ASSUME NEW x \in Objects(d) PROVE g[x] = Visit(r, g, x)
      <3>1. \A y \in Objects(d) : f[y] = g[y]
        OBVIOUS
      <3>2. f[x] = Visit(r, f, x)
        BY <1>4, <1>5
      <3> HIDE DEF g
      <3>3. Visit(r, f, x) = Visit(r, g, x)
        <4>1. AgreeBelow(f, g, d, x)
          BY <3>1 DEF AgreeBelow
        <4> QED
          BY <4>1, VisitSame, Zenon
      <3> QED
        BY <3>1, <3>2, <3>3
    <2> QED
      BY <2>1
  <1> DEFINE walk == CHOOSE h : Does2(h)
  <1>7. Does2(walk)
    <2> HIDE DEF g, Does2
    <2> QED
      BY <1>6
  <1>8. Walk(r, d) = walk[Root(d)]
    BY DEF Walk
  <1> HIDE DEF walk
  <1>9. \A x \in Objects(d) : walk[x] = Visit(r, walk, x)
    BY <1>7
  <1> QED
    BY <1>8, <1>9 DEF IsWalk

AfterKey(place) == place # <<>> /\ IsKey(place[Len(place)])

\* What is shown where x stands, if anything is.
Seen(w, x) ==
    IF ~Visited(x[1]) THEN x[2]
    ELSE IF IsObject(x[2]) THEN w[x]
    ELSE IF IsList(x[2]) /\ AfterKey(x[1])
    THEN [list |-> [i \in DOMAIN x[2].list |->
            IF IsObject(x[2].list[i]) THEN w[ItemNode(x, i)] ELSE x[2].list[i]]]
    ELSE x[2]

Image(w, x) == <<x[1], Seen(w, x)>>

Mark(z) == z[2] \in Marks

LEMMA MarksAreLeaves ==
  /\ Masked \in Marks
  /\ \A z : Mark(z) => ~IsObject(z[2]) /\ ~IsList(z[2]) /\ Below(z) = {}
  BY DEF Marks, Masked, Mark, IsObject, IsList, Below

\* A child of what is shown is the image of a child that is not hidden, or a mark.
Images(r, w, x) == {Image(w, y) : y \in {v \in Below(x) : ~Hidden(r, v[1])}}

ShownBelow(r, w, x) ==
    /\ Images(r, w, x) \subseteq Below(Image(w, x))
    /\ \A z \in Below(Image(w, x)) : z \in Images(r, w, x) \/ Mark(z)

\* The masker does not change what stands there.
AsItIs(x) ==
    Visited(x[1]) => ~IsObject(x[2]) /\ (IsList(x[2]) => x[1] # <<>> /\ ~AfterKey(x[1]))

LEMMA SeenAsIs ==
  ASSUME NEW r, NEW w, NEW x, IsNode(x), ~Hidden(r, x[1]), AsItIs(x)
  PROVE  ShownBelow(r, w, x)
  <1>1. IsNode(x) /\ IsSeq(x[1])
    BY DEF IsNode
  <1>2. Seen(w, x) = x[2]
    BY DEF Seen, AsItIs
  <1>3. ASSUME NEW y \in Below(x) PROVE ~Hidden(r, y[1]) /\ Image(w, y) = y
    <2>1. IsNode(y)
      BY <1>1, BelowIs
    <2>2. ~Hidden(r, y[1]) /\ ~Visited(y[1])
      <3>1. CASE Visited(x[1])
        <4>1. IsList(x[2]) /\ ~IsObject(x[2])
          BY <3>1 DEF Below, AsItIs
        <4>2. PICK i : y[1] = Append(x[1], Item(i))
          BY <4>1 DEF Below, ItemNode
        <4>3. ~IsKey(Item(i))
          BY DEF IsKey, Item
        <4>4. ~Hidden(r, y[1])
          BY <1>1, <4>2, <4>3, HiddenStep
        <4>5. ~Visited(y[1])
          BY <1>1, <3>1, <4>1, <4>2, <4>3, VisitedStep DEF AfterKey, AsItIs
        <4> QED
          BY <4>4, <4>5
      <3>2. CASE ~Visited(x[1])
        <4>1. PICK e : y[1] = Append(x[1], e)
          BY <1>1, BelowIs
        <4>2. ~Hidden(r, y[1])
          BY <1>1, <3>2, <4>1, HiddenStep
        <4>3. ~Visited(y[1])
          BY <1>1, <3>2, <4>1, VisitedStep
        <4> QED
          BY <4>2, <4>3
      <3> QED
        BY <3>1, <3>2
    <2>3. Seen(w, y) = y[2]
      BY <2>2 DEF Seen
    <2> QED
      BY <2>1, <2>2, <2>3 DEF Image, IsNode
  <1>4. Image(w, x) = x
    BY <1>1, <1>2 DEF Image, IsNode
  <1>5. Images(r, w, x) = Below(x)
    BY <1>3 DEF Images
  <1> QED
    BY <1>4, <1>5 DEF ShownBelow

\* Under a key of a visited object.
LEMMA KeySeen ==
  ASSUME NEW d, NEW r, r.mask # {} \/ r.fields # {}, NEW w, NEW x \in Nodes(d), ~Hidden(r, x[1]),
         Visited(x[1]), IsObject(x[2]), NEW k \in DOMAIN x[2].object
  PROVE  LET y == KeyNode(x, k) IN
         /\ y \in Below(x)
         /\ Hidden(r, y[1]) <=> \/ Hides(r, Names(y[1]))
                                \/ x[1] = <<>> /\ ~Projects(r, k)
                                \/ Len(Names(x[1])) > MaxDepth
         /\ ~Hides(r, Names(y[1])) => Shown(r, w, y) = Seen(w, y)
         /\ Image(w, y) = <<Append(x[1], Key(k)), Seen(w, y)>>
  <1> DEFINE y == KeyNode(x, k)
             s == x[1]
             p == Append(s, Key(k))
  <1>1. IsNode(x) /\ IsSeq(s)
    BY NodesTyped DEF IsNode
  <1>2. y[1] = p /\ y[2] = x[2].object[k] /\ y \in Below(x)
    BY DEF KeyNode, Below
  <1>3. IsKey(Key(k)) /\ Key(k).key = k
    BY DEF IsKey, Key
  <1> HIDE DEF y
  <1>4. /\ p # <<>> /\ Len(p) = Len(s) + 1 /\ Len(s) \in Nat /\ p[Len(s) + 1] = Key(k)
        /\ s = <<>> <=> Len(s) = 0
    BY <1>1, AppendPlace, EmptySeq DEF IsSeq
  <1>5. /\ Names(p) = Append(Names(s), k) /\ Names(<<>>) = <<>>
        /\ Visited(p) /\ (Hidden(r, p) <=> Cut(r, p))
    BY <1>1, <1>3, NamesStep, VisitedStep, HiddenStep
  <1>6. /\ Len(Names(p)) = Len(Names(s)) + 1 /\ Len(Names(s)) \in Nat
        /\ s = <<>> => Names(p)[1] = k
    <2>1. IsSeq(Names(s))
      BY <1>1, NamesAre
    <2> QED
      BY <1>5, <2>1, AppendPlace
  <1> HIDE DEF p
  <1>7. Cut(r, p) <=> \/ Hides(r, Names(p))
                      \/ s = <<>> /\ ~Projects(r, k)
                      \/ Len(Names(s)) > MaxDepth
    BY <1>4, <1>6, NestingIsNat DEF Cut
  <1>8. AfterKey(p)
    BY <1>3, <1>4 DEF AfterKey
  <1>9. ~Hides(r, Names(y[1])) => Shown(r, w, y) = Seen(w, y)
    BY <1>2, <1>5, <1>8 DEF Shown, Seen
  <1> HIDE DEF s
  <1> QED
    BY <1>2, <1>5, <1>7, <1>9 DEF y, s, p, Image

LEMMA ObjectSeen ==
  ASSUME NEW d, NEW r, r.mask # {} \/ r.fields # {}, NEW w, IsWalk(w, r, d),
         NEW x \in Nodes(d), ~Hidden(r, x[1]), Visited(x[1]), IsObject(x[2])
  PROVE  ShownBelow(r, w, x)
  <1> DEFINE s == x[1]
             Y(k) == KeyNode(x, k)
             K == {n \in DOMAIN x[2].object : x[1] = <<>> => Projects(r, n)}
             z == Image(w, x)
  <1>1. z = <<s, Visit(r, w, x)>>
    BY DEF IsWalk, Objects, Image, Seen
  <1>2. \A y \in Below(x) : \E k \in DOMAIN x[2].object : y = Y(k)
    BY DEF Below
  <1>3. \A k \in DOMAIN x[2].object :
           /\ Y(k) \in Below(x)
           /\ Hidden(r, Y(k)[1]) <=> \/ Hides(r, Names(Y(k)[1]))
                                     \/ s = <<>> /\ ~Projects(r, k)
                                     \/ Len(Names(s)) > MaxDepth
           /\ ~Hides(r, Names(Y(k)[1])) => Shown(r, w, Y(k)) = Seen(w, Y(k))
           /\ Image(w, Y(k)) = <<Append(s, Key(k)), Seen(w, Y(k))>>
    BY KeySeen
  <1> HIDE DEF Y
  <1>4. CASE Len(Names(s)) > MaxDepth
    <2>1. Visit(r, w, x) = Redacted
      BY <1>4 DEF Visit
    <2>2. \A u \in Below(z) : Mark(u)
      <3> DEFINE o == [k \in {"***"} |-> [literal |-> "depth-limit-exceeded"]]
      <3>1. z[2] = Object(o)
        BY <1>1, <2>1 DEF Redacted
      <3>2. DOMAIN o = {"***"} /\ IsObject(Object(o)) /\ Object(o).object = o
        BY DEF Object, IsObject
      <3>3. o["***"] \in Marks
        BY DEF Marks
      <3> HIDE DEF z, o
      <3>4. Below(z) = {KeyNode(z, k) : k \in {"***"}}
        BY <3>1, <3>2 DEF Below
      <3> QED
        BY <3>1, <3>2, <3>3, <3>4 DEF KeyNode, Mark
    <2>3. Images(r, w, x) = {}
      BY <1>2, <1>3, <1>4 DEF Images
    <2> QED
      BY <2>2, <2>3 DEF ShownBelow
  <1>5. CASE ~(Len(Names(s)) > MaxDepth)
    <2> DEFINE o == [k \in K |-> Shown(r, w, Y(k))]
    <2>1. Visit(r, w, x) = Object(o)
      BY <1>5, Zenon DEF Visit, Y
    <2>2. Below(z) = {<<Append(s, Key(k)), o[k]>> : k \in K}
      <3>1. z[1] = s /\ z[2] = Object(o)
        BY <1>1, <2>1
      <3>2. DOMAIN o = K /\ IsObject(Object(o)) /\ Object(o).object = o
        BY DEF Object, IsObject
      <3> HIDE DEF z, o, K
      <3> QED
        BY <3>1, <3>2, Zenon DEF Below, KeyNode
    <2>3. ASSUME NEW k \in K PROVE \/ Mark(<<Append(s, Key(k)), o[k]>>)
                                   \/ <<Append(s, Key(k)), o[k]>> \in Images(r, w, x)
      <3>1. o[k] = Shown(r, w, Y(k))
        OBVIOUS
      <3>2. CASE Hides(r, Names(Y(k)[1]))
        <4>1. o[k] = Masked
          BY <3>1, <3>2 DEF Shown
        <4> QED
          BY <4>1 DEF Mark, Marks
      <3>3. CASE ~Hides(r, Names(Y(k)[1]))
        <4>1. o[k] = Seen(w, Y(k)) /\ ~Hidden(r, Y(k)[1]) /\ Y(k) \in Below(x)
          BY <1>3, <1>5, <3>1, <3>3
        <4>2. Image(w, Y(k)) \in Images(r, w, x)
          BY <4>1 DEF Images
        <4> QED
          BY <1>3, <4>1, <4>2
      <3> QED
        BY <3>2, <3>3
    <2>4. ASSUME NEW k \in DOMAIN x[2].object, ~Hidden(r, Y(k)[1])
          PROVE  Image(w, Y(k)) \in Below(z)
      <3>1. k \in K /\ ~Hides(r, Names(Y(k)[1]))
        BY <1>3, <2>4
      <3>2. o[k] = Seen(w, Y(k))
        BY <1>3, <3>1
      <3> QED
        BY <1>3, <2>2, <3>1, <3>2
    <2> HIDE DEF z, K, o
    <2>5. Images(r, w, x) \subseteq Below(z)
      BY <1>2, <2>4 DEF Images
    <2> QED
      BY <2>2, <2>3, <2>5 DEF ShownBelow, z
  <1> QED
    BY <1>4, <1>5

LEMMA ListSeen ==
  ASSUME NEW d, NEW r, NEW w, NEW x \in Nodes(d), ~Hidden(r, x[1]),
         Visited(x[1]), IsList(x[2]), ~IsObject(x[2]), AfterKey(x[1])
  PROVE  ShownBelow(r, w, x)
  <1> DEFINE s == x[1]
             l == x[2].list
             Y(i) == ItemNode(x, i)
             m == [i \in DOMAIN l |-> IF IsObject(l[i]) THEN w[Y(i)] ELSE l[i]]
             z == Image(w, x)
  <1>1. z = <<s, [list |-> m]>>
    BY DEF Image, Seen
  <1>2. IsNode(x) /\ IsSeq(s)
    BY NodesTyped DEF IsNode
  <1>3. Below(x) = {Y(i) : i \in DOMAIN l}
    BY DEF Below
  <1>4. Below(z) = {<<Append(s, Item(i)), m[i]>> : i \in DOMAIN l}
    <2>1. z[1] = s /\ z[2] = [list |-> m] /\ IsList(z[2]) /\ ~IsObject(z[2]) /\ z[2].list = m
      BY <1>1 DEF IsList, IsObject
    <2>2. DOMAIN m = DOMAIN l
      OBVIOUS
    <2> HIDE DEF z, m
    <2> QED
      BY <2>1, <2>2, Zenon DEF Below, ItemNode
  <1>5. ASSUME NEW i \in DOMAIN l
        PROVE  ~Hidden(r, Y(i)[1]) /\ Image(w, Y(i)) = <<Append(s, Item(i)), m[i]>>
    <2> DEFINE p == Append(s, Item(i))
    <2>1. Y(i)[1] = p /\ Y(i)[2] = l[i]
      BY DEF ItemNode
    <2>2. ~IsKey(Item(i))
      BY DEF IsKey, Item
    <2>3. p[Len(p)] = Item(i)
      BY <1>2, AppendPlace
    <2>4. ~Hidden(r, p) /\ Visited(p)
      BY <1>2, <2>2, HiddenStep, VisitedStep DEF AfterKey
    <2>5. ~AfterKey(p)
      BY <2>2, <2>3 DEF AfterKey
    <2> HIDE DEF Y, p
    <2>6. Seen(w, Y(i)) = IF IsObject(l[i]) THEN w[Y(i)] ELSE l[i]
      BY <2>1, <2>4, <2>5 DEF Seen
    <2>7. m[i] = IF IsObject(l[i]) THEN w[Y(i)] ELSE l[i]
      OBVIOUS
    <2> QED
      BY <2>1, <2>4, <2>6, <2>7 DEF Image, p
  <1> HIDE DEF z, m, Y, l, s
  <1>6. Images(r, w, x) = Below(z)
    BY <1>3, <1>4, <1>5 DEF Images
  <1> QED
    BY <1>6 DEF ShownBelow, z

LEMMA NodeSeen ==
  ASSUME NEW d, IsObject(d), NEW r, r.mask # {} \/ r.fields # {}, NEW w, IsWalk(w, r, d),
         NEW x \in Nodes(d), ~Hidden(r, x[1])
  PROVE  ShownBelow(r, w, x)
  <1>1. x[1] = <<>> => IsObject(x[2])
    <2>1. x = Root(d) \/ x[1] # <<>>
      BY FirstStep, Zenon
    <2> QED
      BY <2>1, RootIs
  <1>2. CASE Visited(x[1]) /\ IsObject(x[2])
    BY <1>2, ObjectSeen
  <1>3. CASE Visited(x[1]) /\ IsList(x[2]) /\ ~IsObject(x[2]) /\ AfterKey(x[1])
    BY <1>3, ListSeen
  <1>4. CASE Visited(x[1]) => ~IsObject(x[2]) /\ (IsList(x[2]) => ~AfterKey(x[1]))
    <2>1. AsItIs(x)
      BY <1>1, <1>4 DEF AsItIs
    <2>2. IsNode(x)
      BY NodesTyped
    <2> QED
      BY <2>1, <2>2, SeenAsIs
  <1> QED
    BY <1>2, <1>3, <1>4

\* A node of the shown document is where a visible one was, or it is a mark.
LEMMA ShownIsSeen ==
  ASSUME NEW d, Fits(d), IsObject(d), NEW r, r.mask # {} \/ r.fields # {}, NEW w, IsWalk(w, r, d)
  PROVE  LET visible == {x \in Nodes(d) : ~Hidden(r, x[1])} IN
         /\ \A x \in visible : Image(w, x) \in Nodes(w[Root(d)])
         /\ \A z \in Nodes(w[Root(d)]) : Mark(z) \/ \E x \in visible : z = Image(w, x)
  <1> DEFINE visible == {x \in Nodes(d) : ~Hidden(r, x[1])}
             W == w[Root(d)]
             A == {x \in Nodes(d) : Hidden(r, x[1]) \/ Image(w, x) \in Nodes(W)}
             B == {z \in Nodes(W) \union Lower(Nodes(W)) : Mark(z) \/ \E x \in visible : z = Image(w, x)}
  <1>0. IsSeq(<<>>)
    BY RootIs DEF IsNode
  <1>1. /\ Root(d) \in visible /\ Root(d)[1] = <<>> /\ Image(w, Root(d)) = Root(W)
    <2>1. ~Hidden(r, <<>>) /\ Visited(<<>>)
      BY <1>0, HiddenStep, VisitedStep
    <2>2. Seen(w, Root(d)) = W
      BY <2>1, RootIs DEF Seen
    <2> QED
      BY <2>1, <2>2, RootIs, RootIsNode DEF Image, Root
  <1>2. \A x \in visible : ShownBelow(r, w, x)
    BY NodeSeen
  <1>3. \A x \in visible : Below(x) \subseteq Nodes(d)
    BY DEF Fits
  <1> HIDE DEF W
  <1>4. Nodes(d) \subseteq A
    <2>1. Root(d) \in A
      BY <1>1, RootIsNode
    <2>2. ASSUME NEW x \in A \intersect Nodes(d), NEW y \in Below(x) PROVE y \in A
      <3>1. y \in Nodes(d) /\ IsNode(x) /\ Len(x[1]) \in Nat
        BY NodesTyped DEF Fits
      <3>2. PICK e : y[1] = Append(x[1], e)
        BY <3>1, BelowIs
      <3>3. CASE Hidden(r, x[1])
        BY <3>1, <3>2, <3>3, HiddenStep DEF IsNode
      <3>4. CASE x \in visible /\ y \in visible
        <4>1. Image(w, x) \in Nodes(W) /\ Image(w, x)[1] = x[1]
          BY <3>4 DEF Image
        <4>2. Len(x[1]) < MaxNesting
          <5>1. Len(y[1]) = Len(x[1]) + 1 /\ Len(y[1]) <= MaxNesting
            BY <3>1, BelowIs, NodeDepth
          <5> QED
            BY <3>1, <5>1, NestingIsNat
        <4>3. Below(Image(w, x)) \subseteq Nodes(W)
          BY <4>1, <4>2, BelowIsNode
        <4>4. Image(w, y) \in Below(Image(w, x))
          BY <1>2, <3>4 DEF ShownBelow, Images
        <4> QED
          BY <3>1, <4>3, <4>4
      <3> QED
        BY <3>1, <3>3, <3>4
    <2> HIDE DEF A
    <2> QED
      BY <2>1, <2>2, NodesInduct
  <1>5. Nodes(W) \subseteq B
    <2>1. Root(W) \in B
      BY <1>1, RootIsNode
    <2>2. ASSUME NEW z \in B \intersect Nodes(W), NEW u \in Below(z) PROVE u \in B
      <3>1. u \in Lower(Nodes(W))
        BY Zenon DEF Lower
      <3>2. ~Mark(z)
        BY MarksAreLeaves
      <3>3. PICK x \in visible : z = Image(w, x)
        BY <3>2
      <3>4. u \in Images(r, w, x) \/ Mark(u)
        BY <1>2, <3>3 DEF ShownBelow
      <3>5. CASE u \in Images(r, w, x)
        <4>1. PICK y \in Below(x) : ~Hidden(r, y[1]) /\ u = Image(w, y)
          BY <3>5 DEF Images
        <4>2. y \in visible
          BY <1>3, <4>1
        <4> QED
          BY <3>1, <4>1, <4>2
      <3> QED
        BY <3>1, <3>4, <3>5
    <2> HIDE DEF B
    <2> QED
      BY <2>1, <2>2, NodesInduct
  <1> QED
    BY <1>4, <1>5 DEF W

LEMMA LeafSeen ==
  ASSUME NEW d, Fits(d), NEW r, NEW w, IsWalk(w, r, d), NEW x \in Nodes(d)
  PROVE  \/ IsObject(Seen(w, x)) \/ IsList(Seen(w, x))
         \/ Seen(w, x) = x[2] /\ ~IsObject(x[2]) /\ ~IsList(x[2])
  <1>1. CASE Visited(x[1]) /\ IsObject(x[2])
    <2>1. Seen(w, x) = Visit(r, w, x)
      BY <1>1 DEF Seen, IsWalk, Objects
    <2> QED
      BY <2>1 DEF Visit, Redacted, Object, IsObject
  <1>2. CASE Visited(x[1]) /\ ~IsObject(x[2]) /\ IsList(x[2]) /\ AfterKey(x[1])
    BY <1>2 DEF Seen, IsList
  <1>3. CASE Seen(w, x) = x[2]
    BY <1>3
  <1> QED
    BY <1>1, <1>2, <1>3 DEF Seen

Plain(t) == {x \in Leaves(t) : x[2] \notin Marks}

\* What the walk leaves of a document is all that is not hidden.
LEMMA WalkShows ==
  ASSUME NEW d, Fits(d), IsObject(d), NEW r, r.mask # {} \/ r.fields # {}
  PROVE  Plain(Walk(r, d)) = {x \in Plain(d) : ~Hidden(r, x[1])}
  <1>1. PICK w : IsWalk(w, r, d) /\ Walk(r, d) = w[Root(d)]
    BY WalkIs
  <1> DEFINE W == Walk(r, d)
             visible == {x \in Nodes(d) : ~Hidden(r, x[1])}
  <1>2. /\ \A x \in visible : Image(w, x) \in Nodes(W)
        /\ \A z \in Nodes(W) : Mark(z) \/ \E x \in visible : z = Image(w, x)
    BY <1>1, ShownIsSeen
  <1> HIDE DEF W
  <1>3. ASSUME NEW x \in Nodes(d) PROVE IsNode(x) /\ Image(w, x)[2] = Seen(w, x)
    BY NodesTyped DEF Image
  <1>4. ASSUME NEW z \in Plain(W) PROVE z \in Plain(d) /\ ~Hidden(r, z[1])
    <2>1. z \in Nodes(W) /\ ~IsObject(z[2]) /\ ~IsList(z[2]) /\ ~Mark(z)
      BY DEF Plain, Leaves, Mark
    <2>2. PICK x \in visible : z = Image(w, x)
      BY <1>2, <2>1
    <2>3. Seen(w, x) = x[2] /\ ~IsObject(x[2]) /\ ~IsList(x[2])
      BY <1>1, <1>3, <2>1, <2>2, LeafSeen
    <2>4. z = x
      BY <1>3, <2>2, <2>3 DEF Image, IsNode
    <2> QED
      BY <2>1, <2>4 DEF Plain, Leaves, Mark
  <1>5. ASSUME NEW x \in Plain(d), ~Hidden(r, x[1]) PROVE x \in Plain(W)
    <2>1. x \in Nodes(d) /\ ~IsObject(x[2]) /\ ~IsList(x[2]) /\ x[2] \notin Marks
      BY DEF Plain, Leaves
    <2>2. Seen(w, x) = x[2]
      BY <2>1 DEF Seen
    <2>3. Image(w, x) = x
      BY <1>3, <2>1, <2>2 DEF Image, IsNode
    <2>4. x \in Nodes(W)
      BY <1>2, <1>5, <2>1, <2>3
    <2> QED
      BY <2>1, <2>4 DEF Plain, Leaves
  <1> QED
    BY <1>4, <1>5 DEF W

\* Without rules nothing is hidden.
LEMMA NothingHidden ==
  ASSUME NEW r, r.mask = {}, r.fields = {}, NEW place
  PROVE  ~Hidden(r, place)
  BY DEF Hidden, Cut, Hides, Projects

----------------------------------------------------------------------------
(* The answer.                                                             *)

Within(docs, D) == IsSeq(docs) /\ \A i \in 1 .. Len(docs) : docs[i] \in D

LEMMA TransformShows ==
  ASSUME NEW D, \A d \in D : IsObject(d) /\ Fits(d), NEW docs, Within(docs, D), NEW r
  PROVE  LET shown == Transform(r, docs) IN
         /\ Len(shown) = Len(docs) /\ DOMAIN shown = 1 .. Len(docs)
         /\ \A i \in 1 .. Len(docs) :
               Plain(shown[i]) = {x \in Plain(docs[i]) : ~Hidden(r, x[1])}
  <1> DEFINE shown == Transform(r, docs)
  <1>1. Len(docs) \in Nat /\ DOMAIN docs = 1 .. Len(docs)
    BY LenProperties DEF Within, IsSeq
  <1>2. CASE r.mask = {} /\ r.fields = {}
    <2>1. shown = docs
      BY <1>2 DEF Transform
    <2> QED
      BY <1>1, <1>2, <2>1, NothingHidden
  <1>3. CASE r.mask # {} \/ r.fields # {}
    <2>1. shown = [i \in 1 .. Len(docs) |-> Walk(r, docs[i])]
      BY <1>1, <1>3 DEF Transform
    <2>2. ASSUME NEW i \in 1 .. Len(docs)
          PROVE  Plain(Walk(r, docs[i])) = {x \in Plain(docs[i]) : ~Hidden(r, x[1])}
      BY <1>3, WalkShows DEF Within
    <2> QED
      BY <1>1, <2>1, <2>2
  <1> QED
    BY <1>2, <1>3

LEMMA SliceWithin ==
  ASSUME NEW D, NEW docs, Within(docs, D), NEW m \in 1 .. Len(docs) + 1, NEW n \in m - 1 .. Len(docs)
  PROVE  Within(SubSeq(docs, m, n), D) /\ Len(SubSeq(docs, m, n)) = n - m + 1
  <1>1. IsSeq(docs) /\ Len(docs) \in Nat
    BY LenProperties DEF Within, IsSeq
  <1>2. /\ IsSeq(SubSeq(docs, m, n)) /\ Len(SubSeq(docs, m, n)) = n - m + 1
        /\ \A i \in 1 .. n - m + 1 : SubSeq(docs, m, n)[i] = docs[m + i - 1]
    BY <1>1, SliceIs
  <1>3. \A i \in 1 .. n - m + 1 : m + i - 1 \in 1 .. Len(docs)
    BY <1>1
  <1> QED
    BY <1>2, <1>3 DEF Within

LEMMA MarkerFits == IsObject(Marker) /\ Fits(Marker) /\ Stored(Marker) = {}
  <1> DEFINE K == {"_guardmcp_truncated", "_note"}
             o == [k \in K |-> [literal |-> k]]
             Bare(x) == Below(x) = {} /\ "value" \notin DOMAIN x[2]
             S == {x \in Nodes(Marker) \union Lower(Nodes(Marker)) : x = Root(Marker) \/ Bare(x)}
  <1>1. Marker = Object(o) /\ IsObject(Object(o)) /\ Object(o).object = o
    BY DEF Marker, Object, IsObject
  <1>2. \A k \in K : ~IsObject(o[k]) /\ ~IsList(o[k]) /\ "value" \notin DOMAIN o[k]
    BY DEF IsObject, IsList
  <1>3. DOMAIN o = K
    OBVIOUS
  <1> HIDE DEF o, K
  <1>4. \A y \in Below(Root(Marker)) : Bare(y)
    <2>1. Root(Marker)[2] = Object(o)
      BY <1>1 DEF Root
    <2>2. \A y \in Below(Root(Marker)) : \E k \in K : y[2] = o[k]
      BY <1>1, <1>3, <2>1 DEF Below, KeyNode
    <2>3. ASSUME NEW y \in Below(Root(Marker)) PROVE Bare(y)
      <3>1. ~IsObject(y[2]) /\ ~IsList(y[2]) /\ "value" \notin DOMAIN y[2]
        BY <1>2, <2>2
      <3> QED
        BY <3>1 DEF Below
    <2> QED
      BY <2>3
  <1>5. Nodes(Marker) \subseteq S
    <2>1. Root(Marker) \in S
      BY RootIsNode
    <2>2. ASSUME NEW x \in S \intersect Nodes(Marker), NEW y \in Below(x) PROVE y \in S
      <3>1. y \in Lower(Nodes(Marker))
        BY Zenon DEF Lower
      <3> QED
        BY <1>4, <3>1
    <2> HIDE DEF S
    <2> QED
      BY <2>1, <2>2, NodesInduct
  <1>6. Below(Root(Marker)) \subseteq Nodes(Marker)
    <2>1. Root(Marker) \in Nodes(Marker) /\ Len(Root(Marker)[1]) = 0
      BY RootIs, RootIsNode
    <2>2. 0 < MaxNesting
      BY ResultsAssumption DEF ResultsAssumption
    <2> QED
      BY <2>1, <2>2, BelowIsNode
  <1>7. ASSUME NEW x \in Stored(Marker) PROVE FALSE
    <2>1. x \in Nodes(Marker) /\ ~IsObject(x[2]) /\ "value" \in DOMAIN x[2]
      BY DEF Stored, Leaves
    <2>2. x # Root(Marker)
      BY <1>1, <2>1, RootIs
    <2> QED
      BY <1>5, <2>1, <2>2
  <1> QED
    BY <1>1, <1>5, <1>6, <1>7 DEF Fits

LEMMA AppendWithin ==
  ASSUME NEW D, NEW docs, Within(docs, D), NEW d \in D
  PROVE  Within(Append(docs, d), D)
  <1>1. /\ IsSeq(Append(docs, d)) /\ Len(Append(docs, d)) = Len(docs) + 1 /\ Len(docs) \in Nat
        /\ Append(docs, d)[Len(docs) + 1] = d
        /\ \A i \in 1 .. Len(docs) : Append(docs, d)[i] = docs[i]
    BY AppendPlace DEF Within
  <1>2. \A i \in 1 .. Len(docs) + 1 : i \in 1 .. Len(docs) \/ i = Len(docs) + 1
    BY <1>1
  <1> QED
    BY <1>1, <1>2 DEF Within

LEMMA RangeWithin ==
  ASSUME NEW docs, IsSeq(docs)
  PROVE  Within(docs, Range(docs)) /\ Len(docs) \in Nat /\ DOMAIN docs = 1 .. Len(docs)
  <1>1. DOMAIN docs = 1 .. Len(docs) /\ Len(docs) \in Nat
    BY LenProperties DEF IsSeq
  <1> QED
    BY <1>1 DEF Within, Range

\* What a call may execute to.
Plans == {Object([plan |-> d]) : d \in Range(store)}

Sources(a) ==
    Range(store) \union Plans
    \union (IF a.action = "aggregate" THEN Range(Output(a.stages, store)) \union {Marker} ELSE {})

LEMMA RawIs ==
  ASSUME CallInv, PagesInv, ask # NoCall
  PROVE  Within(Executed(ask).docs, Sources(ask))
  <1> DEFINE D == Sources(ask)
  <1>1. ask \in Calls /\ store \in Stores
    BY DEF CallInv
  <1>2. Len(store) \in Nat /\ Within(store, Range(store))
    BY <1>1, StoreIs, RangeWithin DEF Sized
  <1>3. CASE ask.action = "find"
    <2> DEFINE limit == IF ask.limit < MaxLimit THEN ask.limit ELSE MaxLimit
               raw == Page(ask.skip, limit)
    <2>1. Executed(ask) = raw
      BY <1>3 DEF Executed
    <2>2. ask.skip \in 0 .. Len(store) /\ limit \in Nat \ {0}
      <3>1. ask.limit \in Nat \ {0} /\ MaxLimit \in Nat \ {0}
        BY <1>1, <1>3, CallsAre, ResultsAssumption DEF ResultsAssumption
      <3>2. ask.skip = IF ask.tool = "db" THEN book.next ELSE 0
        BY <1>1, CallsAre
      <3> QED
        BY <1>2, <3>1, <3>2 DEF PagesInv
    <2> HIDE DEF limit
    <2>3. PICK n \in 0 .. Len(store) - ask.skip : IsPage(raw, ask.skip, n)
      BY <1>1, <2>2, PageIs
    <2>4. raw.docs = SubSeq(store, ask.skip + 1, ask.skip + n)
      BY <2>3 DEF IsPage
    <2>5. ask.skip + 1 \in 1 .. Len(store) + 1 /\ ask.skip + n \in (ask.skip + 1) - 1 .. Len(store)
      BY <1>2, <2>2
    <2> HIDE DEF raw
    <2>6. Within(raw.docs, Range(store))
      BY <1>2, <2>4, <2>5, SliceWithin
    <2> QED
      BY <2>1, <2>6 DEF Within, Sources
  <1>4. CASE ask.action = "aggregate"
    <2> DEFINE all == Output(ask.stages, store)
               e == IF 0 + MaxLimit < Len(all) THEN 0 + MaxLimit ELSE Len(all)
               part == SubSeq(all, 1, e)
               raw == Aggregated(ask.stages)
    <2>1. Executed(ask) = raw
      BY <1>4 DEF Executed
    <2>2. AreDocuments(all)
      <3>1. ask.stages \in Pipelines
        BY <1>1, <1>4, CallsAre
      <3> QED
        BY <1>1, <3>1, ResultsAssumption DEF ResultsAssumption
    <2>3. Within(all, D) /\ Len(all) \in Nat /\ Sized(all)
      <3>1. IsSeq(all) /\ \A d \in Range(all) : IsFiniteSet(Nodes(d))
        BY <2>2 DEF AreDocuments
      <3>2. Range(all) \subseteq D
        BY <1>4 DEF Sources
      <3> HIDE DEF all, D
      <3>3. DOMAIN all = 1 .. Len(all) /\ Len(all) \in Nat
        BY <3>1, RangeWithin
      <3>4. \A i \in 1 .. Len(all) : Size(all[i]) \in Nat
        BY <3>1, <3>3, FS_CardinalityType DEF Size, Range
      <3> QED
        BY <3>1, <3>2, <3>3, <3>4 DEF Within, Sized, Range
    <2>4. Slice(all, 0, MaxLimit) = part
      BY DEF Slice
    <2>m. Marker \in D
      BY <1>4 DEF Sources
    <2> HIDE DEF all, D
    <2>5. 1 \in 1 .. Len(all) + 1 /\ e \in 1 - 1 .. Len(all)
      BY <2>3, ResultsAssumption DEF ResultsAssumption
    <2> HIDE DEF e
    <2>6. Within(part, D) /\ Sized(part)
      BY <2>3, <2>5, SliceWithin, SlicesSized
    <2> HIDE DEF part
    <2>7. PICK n \in 0 .. Len(part) : Capped(part) = SubSeq(part, 1, n)
      BY <2>6, CappedIs
    <2>8. Within(Capped(part), D)
      <3>1. Len(part) \in Nat
        BY <2>6, RangeWithin DEF Within
      <3>2. 1 \in 1 .. Len(part) + 1 /\ n \in 1 - 1 .. Len(part)
        BY <3>1
      <3> QED
        BY <2>6, <2>7, <3>2, SliceWithin
    <2>9. raw.docs = Capped(part) \/ raw.docs = Append(Capped(part), Marker)
      BY <2>4 DEF Aggregated, all
    <2> HIDE DEF raw
    <2> QED
      BY <2>1, <2>8, <2>9, <2>m, AppendWithin DEF D
  <1>5. CASE ask.action = "explain"
    <2> DEFINE d == Object([plan |-> ask.filter])
    <2>1. Executed(ask).docs = <<d>>
      BY <1>5 DEF Executed, Plan
    <2>2. d \in D
      BY <1>1, <1>5, CallsAre DEF Sources, Plans
    <2> HIDE DEF d
    <2>3. <<d>> \in Seq({d}) /\ Len(<<d>>) = 1 /\ <<d>>[1] = d
      OBVIOUS
    <2>4. IsSeq(<<d>>)
      BY <2>3, SeqOfRange DEF IsSeq
    <2> QED
      BY <2>1, <2>2, <2>3, <2>4 DEF Within
  <1> QED
    BY <1>1, <1>3, <1>4, <1>5, CallsAre

\* Whatever a call executes to is JSON of the depth that is walked.
LEMMA SourcesFit ==
  ASSUME CallInv, ask # NoCall
  PROVE  \A d \in Sources(ask) : IsObject(d) /\ Fits(d)
  <1>1. ask \in Calls /\ store \in Stores
    BY DEF CallInv
  <1>2. \A d \in Range(store) : IsObject(d) /\ Fits(d) /\ Fits(Object([plan |-> d]))
    BY <1>1, StoreIs
  <1>3. \A d \in Plans : IsObject(d) /\ Fits(d)
    BY <1>2 DEF Plans, Object, IsObject
  <1>4. CASE ask.action = "aggregate"
    <2>1. ask.stages \in Pipelines
      BY <1>1, <1>4, CallsAre
    <2>2. AreDocuments(Output(ask.stages, store))
      BY <1>1, <2>1, ResultsAssumption DEF ResultsAssumption
    <2> QED
      BY <1>2, <1>3, <2>2, MarkerFits DEF Sources, AreDocuments
  <1> QED
    BY <1>2, <1>3, <1>4 DEF Sources

\* A cached transformer holds the rules its policy has for its database.
CacheInv ==
    \A p \in Policies, db \in Databases :
        <<p, CacheKey(db)>> \in DOMAIN built => built[<<p, CacheKey(db)>>] = RulesOf(p, db)

LEMMA CachedIs ==
  ASSUME CacheInv, NEW p \in Policies, NEW db \in Databases
  PROVE  /\ Cached(p, db)[<<p, CacheKey(db)>>] = RulesOf(p, db)
         /\ built' = Cached(p, db) => CacheInv'
  <1> DEFINE key(q, b) == <<q, CacheKey(b)>>
             R == RulesOf(p, db)
             k == key(p, db)
             c == [j \in DOMAIN built \union {k} |-> IF j \in DOMAIN built THEN built[j] ELSE R]
  <1>1. Cached(p, db) = c
    BY DEF Cached
  <1>2. \A q, b : key(q, b) = k => q = p /\ b = db
    BY DEF CacheKey
  <1>3. \A q \in Policies, b \in Databases :
           key(q, b) \in DOMAIN built => built[key(q, b)] = RulesOf(q, b)
    BY DEF CacheInv
  <1>4. DOMAIN c = DOMAIN built \union {k} /\ \A j \in DOMAIN c : c[j] = IF j \in DOMAIN built THEN built[j] ELSE R
    OBVIOUS
  <1>5. k \in DOMAIN c
    OBVIOUS
  <1> HIDE DEF key, k, c, R
  <1>6. \A q \in Policies, b \in Databases : key(q, b) \in DOMAIN c => c[key(q, b)] = RulesOf(q, b)
    BY <1>2, <1>3, <1>4 DEF R
  <1>7. c[k] = R
    BY <1>5, <1>6 DEF k, R
  <1>8. ASSUME built' = c PROVE CacheInv'
    BY <1>6, <1>8 DEF CacheInv, key
  <1> QED
    BY <1>1, <1>7, <1>8 DEF R, k, key

LEMMA CacheInductive == Spec => []CacheInv
  <1>1. Init => CacheInv
    BY DEF Init, CacheInv
  <1>2. CallInv /\ CacheInv /\ [Next]_vars => CacheInv'
    <2> SUFFICES ASSUME CallInv, CacheInv, [Next]_vars PROVE CacheInv'
      OBVIOUS
    <2>1. ASSUME NEW a \in Calls, Ask(a) PROVE CacheInv'
      BY <2>1 DEF Ask, CacheInv
    <2>2. CASE Respond
      <3>1. built' = Cached(held, ask.db) /\ ask # NoCall
        BY <2>2 DEF Respond
      <3>2. held \in Policies /\ ask.db \in Databases
        BY <3>1, CallsAre DEF CallInv
      <3> QED
        BY <3>1, <3>2, CachedIs
    <2>3. ASSUME NEW p \in Policies, Reload(p) PROVE CacheInv'
      BY <2>3 DEF Reload, CacheInv
    <2>4. CASE UNCHANGED vars
      BY <2>4 DEF vars, CacheInv
    <2> QED
      BY <2>1, <2>2, <2>3, <2>4 DEF Next
  <1> QED
    BY <1>1, <1>2, CallInductive, PTL DEF Spec

LEMMA RespondMasks ==
  ASSUME CallInv, PagesInv, CacheInv, Respond
  PROVE  MasksExactly' /\ DOMAIN answer'.docs = 1 .. Len(Executed(ask).docs)
  <1> DEFINE raw == Executed(ask)
             rules == Cached(held, ask.db)[<<held, CacheKey(ask.db)>>]
             r == IF ask.action = "explain" THEN Rules(MaskFieldsFor(held, Coll, ask.db), {})
                  ELSE RulesOf(held, ask.db)
             shown == Transform(r, raw.docs)
  <1>1. ask # NoCall /\ answer' = Success(ask, raw, rules)
    BY DEF Respond
  <1>2. held \in Policies /\ ask.db \in Databases
    BY <1>1, CallsAre DEF CallInv
  <1>3. rules = RulesOf(held, ask.db)
    BY <1>2, CachedIs
  <1> HIDE DEF rules
  <1>4. (IF ask.action = "explain" THEN [rules EXCEPT !.fields = {}] ELSE rules) = r
    BY <1>3 DEF RulesOf, Rules
  <1>5. Returned(ask, rules, raw.docs) = shown
    BY <1>4 DEF Returned
  <1>6. /\ answer'.docs = shown /\ answer'.raw = raw.docs
        /\ answer'.action = ask.action /\ answer'.by = held /\ answer'.db = ask.db
    BY <1>1, <1>5 DEF Success
  <1>7. Within(raw.docs, Sources(ask)) /\ \A d \in Sources(ask) : IsObject(d) /\ Fits(d)
    BY <1>1, RawIs, SourcesFit
  <1> HIDE DEF raw, r
  <1>8. /\ Len(shown) = Len(raw.docs) /\ DOMAIN shown = 1 .. Len(raw.docs)
        /\ \A i \in 1 .. Len(raw.docs) :
              Plain(shown[i]) = {x \in Plain(raw.docs[i]) : ~Hidden(r, x[1])}
    BY <1>7, TransformShows
  <1> HIDE DEF shown
  <1>9. ASSUME NEW i \in DOMAIN shown
        PROVE  {x \in Leaves(shown[i]) : x[2] \notin Marks}
                  = {x \in Leaves(raw.docs[i]) : x[2] \notin Marks /\ ~Hidden(r, x[1])}
    BY <1>8 DEF Plain
  <1> QED
    BY <1>6, <1>8, <1>9 DEF MasksExactly, Given, r, raw

\* masker.py and policy/models.py:185-216.  For any documents, policies, reloads
\* and depth of nesting: what an answer shows is what the rules of the call's
\* policy and database leave, told off the place of each scalar.
THEOREM MaskedExactly == Spec => []MasksExactly
  <1>1. Init => MasksExactly
    BY DEF Init, MasksExactly, Given
  <1>2. CallInv /\ PagesInv /\ CacheInv /\ MasksExactly /\ [Next]_vars => MasksExactly'
    <2> SUFFICES ASSUME CallInv, PagesInv, CacheInv, MasksExactly, [Next]_vars PROVE MasksExactly'
      OBVIOUS
    <2>1. ASSUME NEW a \in Calls, Ask(a) PROVE MasksExactly'
      BY <2>1 DEF Ask, MasksExactly, Given
    <2>2. CASE Respond
      BY <2>2, RespondMasks
    <2>3. ASSUME NEW p \in Policies, Reload(p) PROVE MasksExactly'
      BY <2>3 DEF Reload, MasksExactly, Given
    <2>4. CASE UNCHANGED vars
      BY <2>4 DEF vars, MasksExactly, Given
    <2> QED
      BY <2>1, <2>2, <2>3, <2>4 DEF Next
  <1> QED
    BY <1>1, <1>2, CallInductive, PagesInductive, CacheInductive, PTL DEF Spec

----------------------------------------------------------------------------
(* What is stored under a masked field.                                    *)

LEMMA NameHides ==
  ASSUME NEW r, NEW x, IsSeq(x[1]), NEW v \in NamesOver(x), <<v>> \in r.mask
  PROVE  Hidden(r, x[1])
  <1> DEFINE s == x[1]
  <1>1. PICK n \in 1 .. Len(s) : IsKey(s[n]) /\ s[n].key = v /\ Visited(SubSeq(s, 1, n - 1))
    BY DEF NamesOver
  <1> DEFINE k == s[n]
  <1> HIDE DEF s, k
  <1> DEFINE q == SubSeq(s, 1, n - 1)
             p == SubSeq(s, 1, n)
  <1>2. IsSeq(q) /\ p = Append(q, k)
    <2>1. s \in Seq(Range(s)) /\ Len(s) \in Nat
      BY LenProperties DEF IsSeq, s
    <2>2. 1 \in 1 .. Len(s) + 1 /\ n - 1 \in 1 - 1 .. Len(s) /\ n \in 1 - 1 .. Len(s)
      BY <2>1
    <2>3. /\ IsSeq(q) /\ Len(q) = n - 1 - 1 + 1 /\ IsSeq(p) /\ Len(p) = n - 1 + 1
          /\ \A i \in 1 .. n - 1 - 1 + 1 : q[i] = s[1 + i - 1]
          /\ \A i \in 1 .. n - 1 + 1 : p[i] = s[1 + i - 1]
      BY <2>2, SliceIs DEF s
    <2> HIDE DEF p, q
    <2>4. Len(q) = n - 1 /\ Len(p) = n /\ \A i \in 1 .. n - 1 : p[i] = q[i]
      BY <2>1, <2>3
    <2>5. p[n] = k
      BY <1>1, <2>1, <2>3 DEF k
    <2> DEFINE a == Append(q, k)
               V == Range(a) \union Range(p)
    <2>6. IsSeq(a) /\ Len(a) = n /\ a[n] = k /\ \A i \in 1 .. n - 1 : a[i] = q[i]
      BY <2>1, <2>3, <2>4, AppendPlace
    <2>7. a \in Seq(V) /\ p \in Seq(V)
      BY <2>3, <2>6, SeqMonotonic DEF IsSeq
    <2> HIDE DEF a, V
    <2>8. \A i \in 1 .. n : p[i] = a[i]
      <3>1. \A i \in 1 .. n : i = n \/ i \in 1 .. n - 1
        BY <2>1
      <3> QED
        BY <2>4, <2>5, <2>6, <3>1
    <2>9. p = a
      BY <2>4, <2>6, <2>7, <2>8, SeqEqual
    <2> QED
      BY <2>3, <2>9 DEF a
  <1> HIDE DEF q, p
  <1>3. IsKey(k) /\ k.key = v
    BY <1>1 DEF k
  <1>4. Names(p) = Append(Names(q), v)
    BY <1>2, <1>3, NamesStep
  <1>5. Last(Names(p)) = v
    <2>1. IsSeq(Names(q))
      BY <1>2, NamesAre
    <2> QED
      BY <1>4, <2>1, AppendPlace DEF Last
  <1>6. Cut(r, p)
    BY <1>5 DEF Cut, Hides
  <1> QED
    BY <1>1, <1>3, <1>6 DEF Hidden, q, p, s, k

\* In the plan of a query by example the example stands one key deeper.
LEMMA PlanNames ==
  ASSUME store \in Stores, NEW d \in Range(store), NEW x \in Stored(Object([plan |-> d]))
  PROVE  x[2].value \subseteq NamesOver(x)
  <1> DEFINE t == Object([plan |-> d])
  <1>1. x \in Nodes(t) /\ ~IsObject(x[2]) /\ ~IsList(x[2]) /\ "value" \in DOMAIN x[2]
    BY DEF Stored, Leaves
  <1>2. IsObject(t) /\ Root(t)[2] = t
    BY RootIs DEF Object, IsObject
  <1> HIDE DEF t
  <1>3. x # Root(t)
    BY <1>1, <1>2
  <1>4. x[1] # <<>> /\ \E c \in Below(Root(t)) : c[1] = <<x[1][1]>> /\ <<Tail(x[1]), x[2]>> \in Nodes(c[2])
    BY <1>1, <1>3, FirstStep, Zenon
  <1>5. PICK c \in Below(Root(t)) : c[1] = <<x[1][1]>> /\ <<Tail(x[1]), x[2]>> \in Nodes(c[2])
    BY <1>4
  <1>6. c[2] = d
    BY <1>2 DEF Below, KeyNode, t, Object
  <1> DEFINE y == <<Tail(x[1]), x[2]>>
  <1>7. y \in Stored(d) /\ y[1] = Tail(x[1]) /\ y[2] = x[2]
    BY <1>1, <1>5, <1>6 DEF Stored, Leaves
  <1> HIDE DEF y
  <1>8. x[2].value = NamesOver(y)
    BY <1>7, ServerAssumption DEF ServerAssumption
  <1>9. /\ IsSeq(x[1]) /\ IsSeq(y[1]) /\ Len(y[1]) = Len(x[1]) - 1 /\ Len(x[1]) \in Nat \ {0}
        /\ \A i \in 1 .. Len(x[1]) - 1 : y[1][i] = x[1][i + 1]
    <2>1. IsSeq(x[1]) /\ Len(x[1]) \in Nat
      BY <1>1, NodesTyped DEF IsNode
    <2>2. /\ IsSeq(Tail(x[1])) /\ Len(Tail(x[1])) = Len(x[1]) - 1 /\ Len(x[1]) >= 1
          /\ \A i \in 1 .. Len(x[1]) - 1 : Tail(x[1])[i] = x[1][i + 1]
      BY <1>4, <2>1, TailPlace
    <2> QED
      BY <1>7, <2>1, <2>2
  <1>10. SUFFICES ASSUME NEW m \in NamesOver(y) PROVE m \in NamesOver(x)
    BY <1>8
  <1>11. PICK n \in 1 .. Len(y[1]) :
             IsKey(y[1][n]) /\ y[1][n].key = m /\ Visited(SubSeq(y[1], 1, n - 1))
    BY DEF NamesOver
  <1> DEFINE s == x[1]
             t1 == y[1]
             a == SubSeq(s, 1, n)
             b == SubSeq(t1, 1, n - 1)
  <1>12. /\ IsSeq(s) /\ IsSeq(t1) /\ Len(s) \in Nat \ {0} /\ Len(t1) = Len(s) - 1
         /\ \A i \in 1 .. Len(s) - 1 : t1[i] = s[i + 1]
         /\ n \in 1 .. Len(t1) /\ IsKey(t1[n]) /\ t1[n].key = m /\ Visited(b)
    BY <1>9, <1>11
  <1>13. IsKey(s[1])
    <2>1. s[1] = Key("plan")
      BY <1>2, <1>5 DEF Below, KeyNode, Root, Key, Object, t
    <2> QED
      BY <2>1 DEF IsKey, Key
  <1> HIDE DEF s, t1
  <1>14. /\ Len(a) = n /\ \A i \in 1 .. n : a[i] = s[i]
         /\ Len(b) = n - 1 /\ \A i \in 1 .. n - 1 : b[i] = t1[i]
    <2>1. 1 \in 1 .. Len(s) + 1 /\ n \in 1 - 1 .. Len(s)
      BY <1>12
    <2>2. 1 \in 1 .. Len(t1) + 1 /\ n - 1 \in 1 - 1 .. Len(t1)
      BY <1>12
    <2>3. Len(a) = n - 1 + 1 /\ \A i \in 1 .. n - 1 + 1 : a[i] = s[1 + i - 1]
      BY <1>12, <2>1, SliceIs
    <2>4. Len(b) = n - 1 - 1 + 1 /\ \A i \in 1 .. n - 1 - 1 + 1 : b[i] = t1[1 + i - 1]
      BY <1>12, <2>2, SliceIs
    <2> HIDE DEF a, b
    <2> QED
      BY <1>12, <2>3, <2>4
  <1> HIDE DEF a, b
  <1>15. \A i \in 1 .. n - 1 : a[i + 1] = b[i]
    BY <1>12, <1>14
  <1>16. Visited(a)
    <2>1. a[1] = s[1]
      BY <1>12, <1>14
    <2>2. ASSUME NEW i \in 1 .. n - 1 PROVE IsKey(a[i]) \/ IsKey(a[i + 1])
      <3>1. CASE i = 1
        BY <1>13, <2>1, <3>1
      <3>2. CASE i # 1
        <4>1. i - 1 \in 1 .. Len(b) - 1 /\ i - 1 \in 1 .. n - 1 /\ (i - 1) + 1 = i
          BY <1>12, <1>14, <3>2
        <4>2. IsKey(b[i - 1]) \/ IsKey(b[(i - 1) + 1])
          BY <1>12, <4>1 DEF Visited
        <4>3. a[i] = b[i - 1] /\ a[i + 1] = b[i]
          BY <1>15, <4>1
        <4> QED
          BY <4>1, <4>2, <4>3
      <3> QED
        BY <3>1, <3>2
    <2> QED
      BY <1>14, <2>2 DEF Visited
  <1>17. n + 1 \in 1 .. Len(s) /\ IsKey(s[n + 1]) /\ s[n + 1].key = m /\ (n + 1) - 1 = n
    BY <1>12
  <1> QED
    BY <1>16, <1>17 DEF NamesOver, a, s

\* Every name a source's scalars are stored under is on their way, or the pipeline
\* took them from under it.
LEMMA SourcesNamed ==
  ASSUME CallInv, ask # NoCall, NEW d \in Sources(ask), NEW x \in Stored(d)
  PROVE  \A m \in x[2].value :
            \/ m \in NamesOver(x)
            \/ <<m>> \in Heads([list |-> ask.stages])
            \/ PassesGuard(ask.stages, m)
  <1>1. ask \in Calls /\ store \in Stores
    BY DEF CallInv
  <1>2. CASE d \in Range(store)
    BY <1>1, <1>2, ServerAssumption DEF ServerAssumption
  <1>3. CASE d \in Plans
    BY <1>1, <1>3, PlanNames DEF Plans
  <1>4. CASE ask.action = "aggregate" /\ d \in Range(Output(ask.stages, store))
    <2>1. ask.stages \in Pipelines
      BY <1>1, <1>4, CallsAre
    <2>2. \A m \in x[2].value :
              \/ m \in NamesOver(x)
              \/ \E q \in Paths([list |-> ask.stages]) : q[1] = m
              \/ PassesGuard(ask.stages, m)
      BY <1>1, <1>4, <2>1, ServerAssumption DEF ServerAssumption
    <2> QED
      BY <2>2 DEF Heads
  <1>5. CASE d = Marker
    BY <1>5, MarkerFits
  <1> QED
    BY <1>2, <1>3, <1>4, <1>5 DEF Sources

LEMMA RespondHides ==
  ASSUME CallInv, PagesInv, CacheInv, Respond
  PROVE  HiddenUnderAnyName'
  <1> DEFINE raw == Executed(ask)
             mask == MaskFieldsFor(held, Coll, ask.db)
             r == IF ask.action = "explain" THEN Rules(mask, {}) ELSE RulesOf(held, ask.db)
  <1>1. ask # NoCall /\ ask \in Calls /\ held \in Policies
    BY DEF Respond, CallInv
  <1>2. /\ answer'.raw = raw.docs /\ answer'.action = ask.action
        /\ answer'.by = held /\ answer'.db = ask.db /\ answer'.stages = ask.stages
        /\ Given' \subseteq {answer'}
    BY DEF Respond, Success, Given
  <1>3. r.mask = mask
    BY DEF RulesOf, Rules
  <1>4. /\ Len(answer'.docs) = Len(raw.docs)
        /\ \A i \in DOMAIN answer'.docs :
              {x \in Leaves(answer'.docs[i]) : x[2] \notin Marks}
                 = {x \in Leaves(raw.docs[i]) : x[2] \notin Marks /\ ~Hidden(r, x[1])}
    <2>1. answer' # NoCall
      BY DEF Respond, Success, NoCall
    <2>2. MasksExactly'
      BY RespondMasks
    <2> QED
      BY <1>2, <2>1, <2>2 DEF MasksExactly, Given
  <1>5. Within(raw.docs, Sources(ask))
    BY <1>1, RawIs
  <1>6. Heads([list |-> ask.stages]) \intersect mask = {}
    BY <1>1, AllowedIs DEF CallInv
  <1> HIDE DEF r, raw, mask
  <1>7. ASSUME NEW i \in DOMAIN answer'.docs, NEW x \in Stored(answer'.docs[i]),
               NEW m \in x[2].value, <<m>> \in mask, ~PassesGuard(ask.stages, m)
        PROVE  FALSE
    <2>1. x \in Leaves(answer'.docs[i]) /\ "value" \in DOMAIN x[2]
      BY DEF Stored
    <2>2. x[2] \notin Marks
      BY <2>1 DEF Marks, Masked
    <2>3. x \in Leaves(raw.docs[i]) /\ ~Hidden(r, x[1])
      BY <1>4, <2>1, <2>2
    <2>4. raw.docs[i] \in Sources(ask)
      <3>1. i \in 1 .. Len(raw.docs)
        BY RespondMasks DEF raw
      <3> QED
        BY <1>5, <3>1 DEF Within
    <2>5. x \in Stored(raw.docs[i])
      BY <2>1, <2>3 DEF Stored
    <2>6. m \in NamesOver(x)
      BY <1>1, <1>6, <1>7, <2>4, <2>5, SourcesNamed
    <2>7. IsSeq(x[1])
      BY <2>3, NodesTyped DEF Leaves, IsNode
    <2> QED
      BY <1>3, <1>7, <2>3, <2>6, <2>7, NameHides
  <1> QED
    BY <1>2, <1>7 DEF HiddenUnderAnyName, mask

\* guard.py:100-131.  For any documents, policies and pipelines: no value stored
\* under a masked name is shown, unless the pipeline uses what the guard does not
\* compare with that name.
THEOREM MaskedUnderAnyName == Spec => []HiddenUnderAnyName
  <1>1. Init => HiddenUnderAnyName
    BY DEF Init, HiddenUnderAnyName, Given
  <1>2. CallInv /\ PagesInv /\ CacheInv /\ HiddenUnderAnyName /\ [Next]_vars => HiddenUnderAnyName'
    <2> SUFFICES ASSUME CallInv, PagesInv, CacheInv, HiddenUnderAnyName, [Next]_vars
                 PROVE  HiddenUnderAnyName'
      OBVIOUS
    <2>1. ASSUME NEW a \in Calls, Ask(a) PROVE HiddenUnderAnyName'
      BY <2>1 DEF Ask, HiddenUnderAnyName, Given
    <2>2. CASE Respond
      BY <2>2, RespondHides
    <2>3. ASSUME NEW p \in Policies, Reload(p) PROVE HiddenUnderAnyName'
      BY <2>3 DEF Reload, HiddenUnderAnyName, Given
    <2>4. CASE UNCHANGED vars
      BY <2>4 DEF vars, HiddenUnderAnyName, Given
    <2> QED
      BY <2>1, <2>2, <2>3, <2>4 DEF Next
  <1> QED
    BY <1>1, <1>2, CallInductive, PagesInductive, CacheInductive, PTL DEF Spec

=============================================================================
