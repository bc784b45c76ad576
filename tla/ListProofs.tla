------------------------------ MODULE ListProofs ------------------------------
(***************************************************************************)
(* What the operators of Lists yield, for every argument.  Induction is     *)
(* done on the least counterexample, because the theorems on induction of   *)
(* the library take an operator as their argument.                         *)
(***************************************************************************)
EXTENDS Lists, SequencesExt, SequenceTheorems, FiniteSetTheorems,
        WellFoundedInduction, TLAPS

(* A set of natural numbers has a least member.                             *)
LEMMA LeastNatural ==
  ASSUME NEW T \in SUBSET Nat, T # {}
  PROVE  \E n \in T : \A m \in T : n <= m
<1>1. PICK n \in T : \A m \in T : <<m, n>> \notin OpToRel(<, Nat)
  BY NatLessThanWellFounded, WFMin
<1>2. ASSUME NEW m \in T PROVE n <= m
  <2>1. m < n => <<m, n>> \in OpToRel(<, Nat)
    BY DEF OpToRel
  <2>2. m \in Nat /\ n \in Nat
    OBVIOUS
  <2>3. ~(m < n)
    BY <1>1, <2>1
  <2> QED BY <2>2, <2>3
<1> QED BY <1>2

(* g is the function of Only, up to n.                                      *)
Keeps(s, S, n, g) ==
    g = [i \in 0 .. n |->
            IF i = 0 THEN <<>>
            ELSE IF s[i] \in S THEN Append(g[i - 1], s[i]) ELSE g[i - 1]]

(* The function that Only defines recursively exists.                       *)
LEMMA KeepsExists ==
  ASSUME NEW s, NEW S, NEW n \in Nat
  PROVE  \E g : Keeps(s, S, n, g)
<1> DEFINE T == {k \in Nat : ~\E g : Keeps(s, S, k, g)}
<1>1. SUFFICES ASSUME T # {} PROVE FALSE
  OBVIOUS
<1>2. PICK k \in T : \A m \in T : k <= m
  <2>1. T \in SUBSET Nat
    OBVIOUS
  <2> QED BY <1>1, <2>1, LeastNatural
<1>3. k # 0
  <2>1. Keeps(s, S, 0, [i \in 0 .. 0 |-> <<>>])
    BY DEF Keeps
  <2> QED BY <2>1
<1>4. k - 1 \in Nat /\ k - 1 \notin T
  BY <1>2, <1>3
<1>5. PICK g : Keeps(s, S, k - 1, g)
  BY <1>4
<1> DEFINE h == [i \in 0 .. k |->
                    IF i = k THEN IF s[k] \in S THEN Append(g[k - 1], s[k]) ELSE g[k - 1]
                    ELSE g[i]]
<1>6. Keeps(s, S, k, h)
  <2>1. ASSUME NEW i \in 0 .. k
        PROVE  h[i] = IF i = 0 THEN <<>>
                      ELSE IF s[i] \in S THEN Append(h[i - 1], s[i]) ELSE h[i - 1]
    <3>1. CASE i = k
      <4>1. h[k - 1] = g[k - 1]
        BY <1>4
      <4> QED BY <1>3, <3>1, <4>1
    <3>2. CASE i # k
      <4>1. i \in 0 .. k - 1 /\ (i # 0 => i - 1 \in 0 .. k /\ i - 1 # k)
        BY <3>2
      <4>2. h[i] = g[i] /\ (i # 0 => h[i - 1] = g[i - 1])
        BY <3>2, <4>1
      <4>3. g[i] = IF i = 0 THEN <<>>
                   ELSE IF s[i] \in S THEN Append(g[i - 1], s[i]) ELSE g[i - 1]
        BY <1>5, <4>1 DEF Keeps
      <4> QED BY <4>2, <4>3
    <3> QED BY <3>1, <3>2
  <2> QED BY <2>1 DEF Keeps
<1> QED BY <1>6, <1>2

LEMMA OnlyKeeps ==
  ASSUME NEW s, NEW S, Len(s) \in Nat
  PROVE  \E g : Keeps(s, S, Len(s), g) /\ Only(s, S) = g[Len(s)]
<1> DEFINE g == CHOOSE g :
              g = [i \in 0 .. Len(s) |->
                      IF i = 0 THEN <<>>
                      ELSE IF s[i] \in S THEN Append(g[i - 1], s[i]) ELSE g[i - 1]]
<1>1. \E f : Keeps(s, S, Len(s), f)
  BY KeepsExists
<1>2. g = [i \in 0 .. Len(s) |->
              IF i = 0 THEN <<>>
              ELSE IF s[i] \in S THEN Append(g[i - 1], s[i]) ELSE g[i - 1]]
  BY <1>1, Zenon DEF Keeps
<1>3. Only(s, S) = g[Len(s)]
  BY DEF Only
<1> HIDE DEF g
<1> QED BY <1>2, <1>3 DEF Keeps

(* t is the list of the members of S among the first n of s: e gives the    *)
(* place in s of each of them.                                              *)
Picked(s, S, n, t, e) ==
    /\ e \in [1 .. Len(t) -> 1 .. n]
    /\ \A k \in 1 .. Len(t) : t[k] = s[e[k]] /\ t[k] \in S
    /\ \A j, k \in 1 .. Len(t) : j < k => e[j] < e[k]
    /\ \A i \in 1 .. n : s[i] \in S => \E k \in 1 .. Len(t) : e[k] = i

(* One more element, which is in S or is not.                               *)
LEMMA PickedKept ==
  ASSUME NEW X, NEW s \in Seq(X), NEW S, NEW n \in Nat, n + 1 <= Len(s),
         NEW t \in Seq(X), NEW e, Picked(s, S, n, t, e), s[n + 1] \in S
  PROVE  \E f : Picked(s, S, n + 1, Append(t, s[n + 1]), f)
<1> DEFINE u == Append(t, s[n + 1])
           f == [k \in 1 .. Len(t) + 1 |-> IF k = Len(t) + 1 THEN n + 1 ELSE e[k]]
<1>1. /\ Len(t) \in Nat /\ Len(u) = Len(t) + 1
      /\ \A k \in 1 .. Len(t) : u[k] = t[k]
      /\ u[Len(t) + 1] = s[n + 1]
  <2>1. s[n + 1] \in X
    BY ElementOfSeq, LenProperties
  <2> QED BY <2>1, AppendProperties, LenProperties
<1>2. \A k \in 1 .. Len(t) : e[k] \in 1 .. n /\ f[k] = e[k]
  BY <1>1 DEF Picked
<1>3. f[Len(t) + 1] = n + 1
  BY <1>1
<1>4. DOMAIN f = 1 .. Len(u) /\ f = [k \in 1 .. Len(u) |-> f[k]]
  BY <1>1
<1> HIDE DEF u, f
<1>5. ASSUME NEW k \in 1 .. Len(u)
      PROVE  f[k] \in 1 .. n + 1 /\ u[k] = s[f[k]] /\ u[k] \in S
  <2>1. CASE k = Len(t) + 1
    BY <1>1, <1>3, <2>1
  <2>2. CASE k \in 1 .. Len(t)
    BY <1>1, <1>2, <2>2 DEF Picked
  <2> QED BY <1>1, <2>1, <2>2
<1>6. ASSUME NEW j \in 1 .. Len(u), NEW k \in 1 .. Len(u), j < k
      PROVE  f[j] < f[k]
  <2>1. j \in 1 .. Len(t)
    BY <1>1, <1>6
  <2>2. CASE k = Len(t) + 1
    BY <1>2, <1>3, <2>1, <2>2
  <2>3. CASE k \in 1 .. Len(t)
    BY <1>2, <1>6, <2>1, <2>3 DEF Picked
  <2> QED BY <1>1, <2>2, <2>3
<1>7. ASSUME NEW i \in 1 .. n + 1, s[i] \in S
      PROVE  \E k \in 1 .. Len(u) : f[k] = i
  <2>1. CASE i = n + 1
    BY <1>1, <1>3, <2>1
  <2>2. CASE i \in 1 .. n
    <3>1. PICK k \in 1 .. Len(t) : e[k] = i
      BY <1>7, <2>2 DEF Picked
    <3> QED BY <1>1, <1>2, <3>1
  <2> QED BY <2>1, <2>2
<1>8. f \in [1 .. Len(u) -> 1 .. n + 1]
  BY <1>4, <1>5
<1> QED BY <1>5, <1>6, <1>7, <1>8 DEF Picked, u

LEMMA PickedLeft ==
  ASSUME NEW s, NEW S, NEW n \in Nat, NEW t, Len(t) \in Nat,
         NEW e, Picked(s, S, n, t, e), s[n + 1] \notin S
  PROVE  Picked(s, S, n + 1, t, e)
<1>1. /\ e \in [1 .. Len(t) -> 1 .. n + 1]
      /\ \A k \in 1 .. Len(t) : t[k] = s[e[k]] /\ t[k] \in S
      /\ \A j, k \in 1 .. Len(t) : j < k => e[j] < e[k]
  BY DEF Picked
<1>2. ASSUME NEW i \in 1 .. n + 1, s[i] \in S PROVE \E k \in 1 .. Len(t) : e[k] = i
  <2>1. i \in 1 .. n
    <3>1. i # n + 1
      BY <1>2
    <3> QED BY <3>1
  <2> QED BY <1>2, <2>1 DEF Picked
<1> QED BY <1>1, <1>2 DEF Picked

(* What Only keeps: the members of S, each of its occurrences once and in   *)
(* the order of the list.                                                   *)
LEMMA OnlyPicks ==
  ASSUME NEW X, NEW s \in Seq(X), NEW S
  PROVE  Only(s, S) \in Seq(X) /\ \E e : Picked(s, S, Len(s), Only(s, S), e)
<1>0. Len(s) \in Nat
  BY LenProperties
<1>1. PICK g : Keeps(s, S, Len(s), g) /\ Only(s, S) = g[Len(s)]
  BY <1>0, OnlyKeeps
<1> DEFINE Fine(k) == g[k] \in Seq(X) /\ \E e : Picked(s, S, k, g[k], e)
           T == {k \in 0 .. Len(s) : ~Fine(k)}
<1>2. SUFFICES ASSUME T # {} PROVE FALSE
  BY <1>0, <1>1
<1>3. PICK k \in T : \A m \in T : k <= m
  <2>1. T \in SUBSET Nat
    BY <1>0
  <2> QED BY <1>2, <2>1, LeastNatural
<1>4. k # 0
  <2>1. g[0] = <<>>
    BY <1>0, <1>1 DEF Keeps
  <2>2. <<>> \in Seq(X) /\ Len(<<>>) = 0
    BY EmptySeq
  <2>3. Picked(s, S, 0, <<>>, [i \in 1 .. 0 |-> i])
    BY <2>2 DEF Picked
  <2>4. Fine(0)
    BY <2>1, <2>2, <2>3
  <2> QED BY <2>4
<1>5. k - 1 \in Nat /\ k - 1 \in 0 .. Len(s) /\ Fine(k - 1) /\ k \in 1 .. Len(s)
  <2> HIDE DEF Fine
  <2>1. k \in 0 .. Len(s) /\ k - 1 \notin T
    BY <1>0, <1>3
  <2>2. k \in 1 .. Len(s) /\ k - 1 \in Nat /\ k - 1 \in 0 .. Len(s)
    BY <1>0, <1>4, <2>1
  <2> QED BY <2>1, <2>2
<1>6. PICK e : Picked(s, S, k - 1, g[k - 1], e)
  BY <1>5
<1>7. g[k] = IF s[k] \in S THEN Append(g[k - 1], s[k]) ELSE g[k - 1]
  BY <1>1, <1>4, <1>5 DEF Keeps
<1>8. k = (k - 1) + 1 /\ (k - 1) + 1 <= Len(s) /\ g[k - 1] \in Seq(X) /\ s[k] \in X
  BY <1>0, <1>5, ElementOfSeq
<1>9. Fine(k)
  <2>1. CASE s[k] \in S
    <3>1. \E f : Picked(s, S, k, Append(g[k - 1], s[k]), f)
      BY <1>5, <1>6, <1>8, <2>1, PickedKept
    <3> QED BY <1>7, <1>8, <2>1, <3>1, AppendProperties
  <2>2. CASE s[k] \notin S
    <3>1. Len(g[k - 1]) \in Nat
      BY <1>8, LenProperties
    <3>2. Picked(s, S, k, g[k - 1], e)
      BY <1>5, <1>6, <1>8, <2>2, <3>1, PickedLeft
    <3> QED BY <1>7, <1>8, <2>2, <3>2
  <2> QED BY <2>1, <2>2
<1> QED BY <1>9

(* What the proofs below need of the lists.                                 *)
Once(s) == \A i, j \in DOMAIN s : s[i] = s[j] => i = j

LEMMA OnlyProperties ==
  ASSUME NEW X, NEW s \in Seq(X), NEW S
  PROVE  /\ Only(s, S) \in Seq(X)
         /\ Len(Only(s, S)) <= Len(s)
         /\ \A x : Contains(Only(s, S), x) <=> Contains(s, x) /\ x \in S
         /\ Once(s) => Once(Only(s, S))
<1> DEFINE t == Only(s, S)
<1>1. t \in Seq(X) /\ \E f : Picked(s, S, Len(s), t, f)
  BY OnlyPicks
<1>2. PICK e : Picked(s, S, Len(s), t, e)
  BY <1>1
<1> HIDE DEF t
<1>3. /\ Len(s) \in Nat /\ DOMAIN s = 1 .. Len(s)
      /\ Len(t) \in Nat /\ DOMAIN t = 1 .. Len(t)
  BY <1>1, LenProperties
<1>4. \A j, k \in 1 .. Len(t) : e[j] = e[k] => j = k
  <2>1. SUFFICES ASSUME NEW j \in 1 .. Len(t), NEW k \in 1 .. Len(t), e[j] = e[k], j # k
                 PROVE  FALSE
    OBVIOUS
  <2>2. e[j] \in 1 .. Len(s) /\ e[k] \in 1 .. Len(s)
    BY <1>2 DEF Picked
  <2>3. CASE j < k
    BY <1>2, <2>1, <2>2, <2>3 DEF Picked
  <2>4. CASE k < j
    BY <1>2, <2>1, <2>2, <2>4 DEF Picked
  <2> QED BY <1>3, <2>1, <2>3, <2>4
<1>5. Len(t) <= Len(s)
  <2>1. e \in [1 .. Len(t) -> 1 .. Len(s)]
    BY <1>2 DEF Picked
  <2>2. e \in Injection(1 .. Len(t), 1 .. Len(s))
    BY <1>4, <2>1 DEF Injection, IsInjective
  <2>3. \A n \in Nat : IsFiniteSet(1 .. n) /\ Cardinality(1 .. n) = n
    BY FS_Interval
  <2> QED BY <1>3, <2>2, <2>3, FS_Injection
<1>6. ASSUME NEW x PROVE Contains(t, x) <=> Contains(s, x) /\ x \in S
  <2>1. ASSUME Contains(t, x) PROVE Contains(s, x) /\ x \in S
    <3>1. PICK k \in 1 .. Len(t) : t[k] = x
      BY <2>1 DEF Contains
    <3> QED BY <1>2, <3>1 DEF Picked, Contains
  <2>2. ASSUME Contains(s, x), x \in S PROVE Contains(t, x)
    <3>1. PICK i \in 1 .. Len(s) : s[i] = x
      BY <2>2 DEF Contains
    <3>2. PICK k \in 1 .. Len(t) : e[k] = i
      BY <1>2, <2>2, <3>1 DEF Picked
    <3> QED BY <1>2, <3>1, <3>2 DEF Picked, Contains
  <2> QED BY <2>1, <2>2
<1>7. ASSUME Once(s) PROVE Once(t)
  <2>1. ASSUME NEW j \in 1 .. Len(t), NEW k \in 1 .. Len(t), t[j] = t[k] PROVE j = k
    <3>1. e[j] \in 1 .. Len(s) /\ e[k] \in 1 .. Len(s) /\ s[e[j]] = s[e[k]]
      BY <1>2, <2>1 DEF Picked
    <3>2. e[j] = e[k]
      BY <1>3, <1>7, <3>1 DEF Once
    <3> QED BY <1>4, <3>2
  <2> QED BY <1>3, <2>1 DEF Once
<1> QED BY <1>1, <1>5, <1>6, <1>7 DEF t

LEMMA AppendOnce ==
  ASSUME NEW X, NEW s \in Seq(X), NEW x \in X
  PROVE  /\ Append(s, x) \in Seq(X)
         /\ \A y : Contains(Append(s, x), y) <=> Contains(s, y) \/ y = x
         /\ Once(s) /\ ~Contains(s, x) => Once(Append(s, x))
<1>1. /\ Len(s) \in Nat /\ DOMAIN s = 1 .. Len(s)
      /\ Append(s, x) \in Seq(X) /\ Len(Append(s, x)) = Len(s) + 1
      /\ DOMAIN Append(s, x) = 1 .. Len(s) + 1
      /\ \A i \in 1 .. Len(s) : Append(s, x)[i] = s[i]
      /\ Append(s, x)[Len(s) + 1] = x
  BY AppendProperties, LenProperties
<1>2. \A i \in 1 .. Len(s) + 1 : i \in 1 .. Len(s) \/ i = Len(s) + 1
  BY <1>1
<1>3. \A y : Contains(Append(s, x), y) <=> Contains(s, y) \/ y = x
  BY <1>1, <1>2 DEF Contains
<1>4. Once(s) /\ ~Contains(s, x) => Once(Append(s, x))
  BY <1>1, <1>2 DEF Once, Contains
<1> QED BY <1>1, <1>3, <1>4

LEMMA ConcatOnce ==
  ASSUME NEW X, NEW s \in Seq(X), NEW t \in Seq(X)
  PROVE  /\ s \o t \in Seq(X)
         /\ \A y : Contains(s \o t, y) <=> Contains(s, y) \/ Contains(t, y)
         /\ Once(s) /\ Once(t) /\ (\A y : ~(Contains(s, y) /\ Contains(t, y)))
               => Once(s \o t)
<1> DEFINE u == s \o t
<1>1. /\ Len(s) \in Nat /\ DOMAIN s = 1 .. Len(s)
      /\ Len(t) \in Nat /\ DOMAIN t = 1 .. Len(t)
      /\ u \in Seq(X) /\ Len(u) = Len(s) + Len(t) /\ DOMAIN u = 1 .. Len(s) + Len(t)
      /\ \A i \in 1 .. Len(s) + Len(t) :
            u[i] = IF i <= Len(s) THEN s[i] ELSE t[i - Len(s)]
  BY ConcatProperties, LenProperties
<1> HIDE DEF u
<1>2. ASSUME NEW i \in 1 .. Len(u)
      PROVE  \/ i \in 1 .. Len(s) /\ u[i] = s[i]
             \/ i - Len(s) \in 1 .. Len(t) /\ u[i] = t[i - Len(s)]
  BY <1>1
<1>3. ASSUME NEW i \in 1 .. Len(s) PROVE i \in 1 .. Len(u) /\ u[i] = s[i]
  BY <1>1
<1>4. ASSUME NEW i \in 1 .. Len(t)
      PROVE  i + Len(s) \in 1 .. Len(u) /\ u[i + Len(s)] = t[i]
  BY <1>1
<1>5. \A y : Contains(u, y) <=> Contains(s, y) \/ Contains(t, y)
  BY <1>2, <1>3, <1>4 DEF Contains
<1>6. ASSUME Once(s), Once(t), \A y : ~(Contains(s, y) /\ Contains(t, y))
      PROVE  Once(u)
  <2>1. ASSUME NEW i \in 1 .. Len(u), NEW j \in 1 .. Len(u), u[i] = u[j] PROVE i = j
    <3>1. CASE i \in 1 .. Len(s) /\ u[i] = s[i] /\ j \in 1 .. Len(s) /\ u[j] = s[j]
      BY <1>1, <1>6, <2>1, <3>1 DEF Once
    <3>2. CASE /\ i - Len(s) \in 1 .. Len(t) /\ u[i] = t[i - Len(s)]
               /\ j - Len(s) \in 1 .. Len(t) /\ u[j] = t[j - Len(s)]
      <4>1. i - Len(s) = j - Len(s)
        BY <1>1, <1>6, <2>1, <3>2 DEF Once
      <4> QED BY <1>1, <4>1
    <3>3. CASE /\ i \in 1 .. Len(s) /\ u[i] = s[i]
               /\ j - Len(s) \in 1 .. Len(t) /\ u[j] = t[j - Len(s)]
      BY <1>6, <2>1, <3>3 DEF Contains
    <3>4. CASE /\ i - Len(s) \in 1 .. Len(t) /\ u[i] = t[i - Len(s)]
               /\ j \in 1 .. Len(s) /\ u[j] = s[j]
      BY <1>6, <2>1, <3>4 DEF Contains
    <3> QED BY <1>2, <3>1, <3>2, <3>3, <3>4
  <2> QED BY <1>1, <2>1 DEF Once
<1> QED BY <1>1, <1>5, <1>6 DEF u

LEMMA RemoveAtProperties ==
  ASSUME NEW X, NEW s \in Seq(X), NEW i \in 1 .. Len(s)
  PROVE  RemoveAt(s, i) \in Seq(X) /\ Len(RemoveAt(s, i)) = Len(s) - 1
<1>1. Len(s) \in Nat
  BY LenProperties
<1>2. /\ SubSeq(s, 1, i - 1) \in Seq(X) /\ Len(SubSeq(s, 1, i - 1)) = i - 1
      /\ SubSeq(s, i + 1, Len(s)) \in Seq(X) /\ Len(SubSeq(s, i + 1, Len(s))) = Len(s) - i
  BY <1>1, SubSeqProperties
<1> QED BY <1>1, <1>2, ConcatProperties DEF RemoveAt

-----------------------------------------------------------------------------
(* Sums over finite sets.  Of the sets that are a counterexample, one is    *)
(* such that no counterexample is left when an element is taken away.       *)
LEMMA AnyOfMember ==
  ASSUME NEW T, T # {}
  PROVE  AnyOf(T) \in T
BY DEF AnyOf

LEMMA SmallestSet ==
  ASSUME NEW S, IsFiniteSet(S), NEW B \in SUBSET (SUBSET S), B # {}
  PROVE  \E T \in B : \A x \in T : T \ {x} \notin B
<1>1. \A T \in B : IsFiniteSet(T) /\ Cardinality(T) \in Nat
  BY FS_Subset, FS_CardinalityType
<1> DEFINE N == {n \in Nat : \E T \in B : Cardinality(T) = n}
<1>2. N \in SUBSET Nat /\ N # {}
  BY <1>1
<1>3. PICK n \in N : \A m \in N : n <= m
  <2> HIDE DEF N
  <2> QED BY <1>2, LeastNatural
<1>4. PICK T \in B : Cardinality(T) = n
  BY <1>3
<1>5. ASSUME NEW x \in T, T \ {x} \in B PROVE FALSE
  <2>1. Cardinality(T \ {x}) = n - 1
    BY <1>1, <1>4, FS_RemoveElement
  <2>2. n - 1 \in N
    BY <1>1, <1>5, <2>1
  <2>3. n \in Int
    BY <1>2, <1>3
  <2> HIDE DEF N
  <2> QED BY <1>3, <2>2, <2>3
<1> QED BY <1>5

(* g is the function of SumOver, for the subsets that are in D.             *)
Sums(f, D, g) ==
    g = [T \in D |-> IF T = {} THEN 0 ELSE f[AnyOf(T)] + g[T \ {AnyOf(T)}]]

LEMMA SumsExist ==
  ASSUME NEW f, NEW S, IsFiniteSet(S)
  PROVE  \E g : Sums(f, SUBSET S, g)
<1> DEFINE D(n) == {T \in SUBSET S : Cardinality(T) <= n}
           N == {n \in Nat : ~\E g : Sums(f, D(n), g)}
<1>1. \A T \in SUBSET S : IsFiniteSet(T) /\ Cardinality(T) \in Nat
  BY FS_Subset, FS_CardinalityType
<1>2. \A n \in Nat : \E g : Sums(f, D(n), g)
  <2>1. SUFFICES ASSUME N # {} PROVE FALSE
    OBVIOUS
  <2>2. PICK k \in N : \A m \in N : k <= m
    <3>1. N \in SUBSET Nat
      OBVIOUS
    <3> HIDE DEF N
    <3> QED BY <2>1, <3>1, LeastNatural
  <2>3. k # 0
    <3>1. \A T \in D(0) : T = {}
      BY <1>1, FS_EmptySet
    <3>2. Sums(f, D(0), [T \in D(0) |-> 0])
      <4> HIDE DEF D
      <4> QED BY <3>1 DEF Sums
    <3> QED BY <3>2
  <2>4. k - 1 \in Nat /\ k - 1 \notin N /\ k \in Nat
    <3>1. k \in Nat
      OBVIOUS
    <3> HIDE DEF N
    <3> QED BY <2>2, <2>3, <3>1
  <2>5. PICK g : Sums(f, D(k - 1), g)
    BY <2>4
  <2> DEFINE Value(T) == IF T = {} THEN 0 ELSE f[AnyOf(T)] + g[T \ {AnyOf(T)}]
             h == [T \in D(k) |-> Value(T)]
  <2>6. ASSUME NEW T \in D(k - 1) PROVE T \in D(k) /\ g[T] = Value(T)
    <3>1. T \in D(k)
      BY <1>1, <2>4
    <3> HIDE DEF D
    <3> QED BY <2>5, <3>1 DEF Sums
  <2>7. ASSUME NEW T \in D(k), T # {}
        PROVE  h[T \ {AnyOf(T)}] = g[T \ {AnyOf(T)}]
    <3>1. AnyOf(T) \in T /\ IsFiniteSet(T) /\ T \in SUBSET S
      BY <1>1, <2>7, AnyOfMember
    <3>2. Cardinality(T \ {AnyOf(T)}) = Cardinality(T) - 1
      BY <3>1, FS_RemoveElement
    <3>3. T \ {AnyOf(T)} \in D(k - 1)
      BY <1>1, <2>4, <3>1, <3>2
    <3> HIDE DEF D, Value
    <3> QED BY <2>6, <3>3
  <2>8. Sums(f, D(k), h)
    <3> HIDE DEF D
    <3>1. \A T \in D(k) : h[T] = IF T = {} THEN 0 ELSE f[AnyOf(T)] + h[T \ {AnyOf(T)}]
      BY <2>7
    <3> HIDE DEF Value
    <3>2. h = [T \in D(k) |-> h[T]]
      OBVIOUS
    <3> HIDE DEF h
    <3> QED BY <3>1, <3>2, Zenon DEF Sums
  <2> QED BY <2>2, <2>8
<1>3. SUBSET S = D(Cardinality(S)) /\ Cardinality(S) \in Nat
  BY <1>1, FS_Subset, FS_CardinalityType
<1> HIDE DEF D
<1> QED BY <1>2, <1>3

(* A sum of integers is an integer; changing one of them changes it by the  *)
(* difference.                                                              *)
LEMMA SumOverIsSum ==
  ASSUME NEW f, NEW S, IsFiniteSet(S)
  PROVE  \E g : Sums(f, SUBSET S, g) /\ SumOver(f, S) = g[S]
<1> DEFINE g == CHOOSE g :
              g = [T \in SUBSET S |->
                      IF T = {} THEN 0 ELSE f[AnyOf(T)] + g[T \ {AnyOf(T)}]]
<1>1. \E h : Sums(f, SUBSET S, h)
  BY SumsExist
<1>2. g = [T \in SUBSET S |-> IF T = {} THEN 0 ELSE f[AnyOf(T)] + g[T \ {AnyOf(T)}]]
  BY <1>1, Zenon DEF Sums
<1>3. SumOver(f, S) = g[S]
  BY DEF SumOver
<1> HIDE DEF g
<1> QED BY <1>2, <1>3 DEF Sums

LEMMA SumIsInt ==
  ASSUME NEW S, IsFiniteSet(S), NEW f \in [S -> Int]
  PROVE  SumOver(f, S) \in Int
<1>1. PICK g : Sums(f, SUBSET S, g) /\ SumOver(f, S) = g[S]
  BY SumOverIsSum
<1>2. \A T \in SUBSET S : g[T] = IF T = {} THEN 0 ELSE f[AnyOf(T)] + g[T \ {AnyOf(T)}]
  BY <1>1 DEF Sums
<1> DEFINE B == {T \in SUBSET S : g[T] \notin Int}
<1>3. SUFFICES ASSUME B # {} PROVE FALSE
  BY <1>1
<1>4. PICK T \in B : \A x \in T : T \ {x} \notin B
  <2>1. B \in SUBSET (SUBSET S)
    OBVIOUS
  <2> HIDE DEF B
  <2> QED BY <1>3, <2>1, SmallestSet
<1>5. T # {}
  BY <1>2
<1>6. AnyOf(T) \in T /\ T \ {AnyOf(T)} \in SUBSET S /\ f[AnyOf(T)] \in Int
  BY <1>5, AnyOfMember
<1>7. g[T \ {AnyOf(T)}] \in Int
  BY <1>4, <1>6
<1> QED BY <1>2, <1>5, <1>6, <1>7

LEMMA SumOfZeros ==
  ASSUME NEW S, IsFiniteSet(S), NEW f, \A x \in S : f[x] = 0
  PROVE  SumOver(f, S) = 0
<1>1. PICK g : Sums(f, SUBSET S, g) /\ SumOver(f, S) = g[S]
  BY SumOverIsSum
<1>2. \A T \in SUBSET S : g[T] = IF T = {} THEN 0 ELSE f[AnyOf(T)] + g[T \ {AnyOf(T)}]
  BY <1>1 DEF Sums
<1> DEFINE B == {T \in SUBSET S : g[T] # 0}
<1>3. SUFFICES ASSUME B # {} PROVE FALSE
  BY <1>1
<1>4. PICK T \in B : \A x \in T : T \ {x} \notin B
  <2>1. B \in SUBSET (SUBSET S)
    OBVIOUS
  <2> HIDE DEF B
  <2> QED BY <1>3, <2>1, SmallestSet
<1>5. T # {}
  BY <1>2
<1>6. AnyOf(T) \in T /\ T \ {AnyOf(T)} \in SUBSET S /\ f[AnyOf(T)] = 0
  BY <1>5, AnyOfMember
<1>7. g[T \ {AnyOf(T)}] = 0
  BY <1>4, <1>6
<1>8. T \in SUBSET S /\ g[T] # 0
  OBVIOUS
<1>9. g[T] = 0 + 0
  BY <1>2, <1>5, <1>6, <1>7, <1>8
<1> QED BY <1>8, <1>9

LEMMA SumChange ==
  ASSUME NEW S, IsFiniteSet(S), NEW f \in [S -> Int], NEW c \in S, NEW p \in Int,
         NEW e \in [S -> Int], e[c] = p, \A x \in S \ {c} : e[x] = f[x]
  PROVE  SumOver(e, S) = SumOver(f, S) - f[c] + p
<1>0. e \in [S -> Int] /\ \A x \in S : e[x] = IF x = c THEN p ELSE f[x]
  OBVIOUS
<1>1. PICK g : Sums(f, SUBSET S, g) /\ SumOver(f, S) = g[S]
  BY SumOverIsSum
<1>2. \A T \in SUBSET S : g[T] = IF T = {} THEN 0 ELSE f[AnyOf(T)] + g[T \ {AnyOf(T)}]
  BY <1>1 DEF Sums
<1>3. PICK h : Sums(e, SUBSET S, h) /\ SumOver(e, S) = h[S]
  BY SumOverIsSum
<1>4. \A T \in SUBSET S : h[T] = IF T = {} THEN 0 ELSE e[AnyOf(T)] + h[T \ {AnyOf(T)}]
  BY <1>3 DEF Sums
<1> DEFINE More(T) == IF c \in T THEN p - f[c] ELSE 0
           Fine(T) == g[T] \in Int /\ h[T] = g[T] + More(T)
           B == {T \in SUBSET S : ~Fine(T)}
<1>5. \A T \in SUBSET S : Fine(T)
  <2>1. SUFFICES ASSUME B # {} PROVE FALSE
    OBVIOUS
  <2>2. PICK T \in B : \A x \in T : T \ {x} \notin B
    <3>1. B \in SUBSET (SUBSET S)
      OBVIOUS
    <3> HIDE DEF B
    <3> QED BY <2>1, <3>1, SmallestSet
  <2>3. T # {}
    <3>1. g[{}] = 0 /\ h[{}] = 0
      BY <1>2, <1>4
    <3>2. Fine({})
      BY <3>1
    <3> HIDE DEF Fine
    <3> QED BY <3>2
  <2> DEFINE x == AnyOf(T)
  <2>4. x \in T /\ T \ {x} \in SUBSET S /\ x \in S /\ f[x] \in Int /\ f[c] \in Int
    BY <2>3, AnyOfMember
  <2>5. Fine(T \ {x})
    <3> HIDE DEF Fine
    <3> QED BY <2>2, <2>4
  <2>6. g[T] = f[x] + g[T \ {x}] /\ h[T] = e[x] + h[T \ {x}]
    BY <1>2, <1>4, <2>3
  <2> HIDE DEF x
  <2>7. CASE x = c
    BY <1>0, <2>2, <2>4, <2>5, <2>6, <2>7
  <2>8. CASE x # c
    BY <1>0, <2>2, <2>4, <2>5, <2>6, <2>8
  <2> QED BY <2>7, <2>8
<1>6. Fine(S)
  <2> HIDE DEF Fine
  <2> QED BY <1>5
<1>7. f[c] \in Int /\ h[S] = g[S] - f[c] + p
  BY <1>6
<1> QED BY <1>1, <1>3, <1>7

-----------------------------------------------------------------------------
(* Sums may be taken element by element, in any order, over any part of the *)
(* domain of f.                                                             *)
LEMMA SumsAreInt ==
  ASSUME NEW S, IsFiniteSet(S), NEW f, \A x \in S : f[x] \in Int,
         NEW g, Sums(f, SUBSET S, g)
  PROVE  \A T \in SUBSET S : g[T] \in Int
<1>1. \A T \in SUBSET S : g[T] = IF T = {} THEN 0 ELSE f[AnyOf(T)] + g[T \ {AnyOf(T)}]
  BY DEF Sums
<1> DEFINE B == {T \in SUBSET S : g[T] \notin Int}
<1>2. SUFFICES ASSUME B # {} PROVE FALSE
  OBVIOUS
<1>3. B \in SUBSET (SUBSET S)
  OBVIOUS
<1> HIDE DEF B
<1>4. PICK T \in B : \A x \in T : T \ {x} \notin B
  BY <1>2, <1>3, SmallestSet
<1> USE DEF B
<1>5. T # {}
  <2>1. g[{}] = 0 /\ g[T] \notin Int
    BY <1>1
  <2>2. g[{}] \in Int
    BY <2>1
  <2> HIDE DEF B
  <2> QED BY <2>1, <2>2
<1>6. AnyOf(T) \in T /\ T \ {AnyOf(T)} \in SUBSET S /\ f[AnyOf(T)] \in Int
  BY <1>5, AnyOfMember
<1>7. g[T \ {AnyOf(T)}] \in Int
  BY <1>4, <1>6
<1>8. g[T] = f[AnyOf(T)] + g[T \ {AnyOf(T)}]
  BY <1>1, <1>5
<1> QED BY <1>6, <1>7, <1>8

LEMMA SumOfSubset ==
  ASSUME NEW S, IsFiniteSet(S), NEW f, NEW U \in SUBSET S,
         NEW g, Sums(f, SUBSET S, g)
  PROVE  SumOver(f, U) = g[U]
<1>0. IsFiniteSet(U)
  BY FS_Subset
<1>1. PICK h : Sums(f, SUBSET U, h) /\ SumOver(f, U) = h[U]
  BY <1>0, SumOverIsSum
<1>2. /\ \A T \in SUBSET S : g[T] = IF T = {} THEN 0 ELSE f[AnyOf(T)] + g[T \ {AnyOf(T)}]
      /\ \A T \in SUBSET U : h[T] = IF T = {} THEN 0 ELSE f[AnyOf(T)] + h[T \ {AnyOf(T)}]
  BY <1>1 DEF Sums
<1> DEFINE B == {T \in SUBSET U : h[T] # g[T]}
<1>3. SUFFICES ASSUME B # {} PROVE FALSE
  BY <1>1
<1>4. B \in SUBSET (SUBSET U)
  OBVIOUS
<1> HIDE DEF B
<1>5. PICK T \in B : \A x \in T : T \ {x} \notin B
  BY <1>0, <1>3, <1>4, SmallestSet
<1> USE DEF B
<1>6. T # {}
  BY <1>2
<1>7. AnyOf(T) \in T /\ T \ {AnyOf(T)} \in SUBSET U
  BY <1>6, AnyOfMember
<1>8. h[T \ {AnyOf(T)}] = g[T \ {AnyOf(T)}]
  BY <1>5, <1>7
<1>9. /\ g[T] = f[AnyOf(T)] + g[T \ {AnyOf(T)}]
      /\ h[T] = f[AnyOf(T)] + h[T \ {AnyOf(T)}]
  BY <1>2, <1>6
<1> QED BY <1>8, <1>9

(* One element is added to the sum of the others.                           *)
LEMMA SumRemove ==
  ASSUME NEW S, IsFiniteSet(S), NEW f, \A x \in S : f[x] \in Int, NEW c \in S
  PROVE  /\ SumOver(f, S) \in Int /\ SumOver(f, S \ {c}) \in Int
         /\ SumOver(f, S) = f[c] + SumOver(f, S \ {c})
<1>1. PICK g : Sums(f, SUBSET S, g) /\ SumOver(f, S) = g[S]
  BY SumOverIsSum
<1>2. \A T \in SUBSET S : g[T] = IF T = {} THEN 0 ELSE f[AnyOf(T)] + g[T \ {AnyOf(T)}]
  BY <1>1 DEF Sums
<1>3. \A T \in SUBSET S : g[T] \in Int
  BY <1>1, SumsAreInt
<1> DEFINE Fine(T) == \A y \in T : g[T] = f[y] + g[T \ {y}]
           B == {T \in SUBSET S : ~Fine(T)}
<1>4. \A T \in SUBSET S : Fine(T)
  <2>1. SUFFICES ASSUME B # {} PROVE FALSE
    OBVIOUS
  <2>2. PICK T \in B : \A x \in T : T \ {x} \notin B
    <3>1. B \in SUBSET (SUBSET S)
      OBVIOUS
    <3> HIDE DEF B
    <3> QED BY <2>1, <3>1, SmallestSet
  <2>3. \A x \in T : Fine(T \ {x})
    <3> HIDE DEF Fine
    <3> QED BY <2>2
  <2> DEFINE a == AnyOf(T)
  <2>4. T \in SUBSET S
    OBVIOUS
  <2>5. ASSUME NEW y \in T PROVE g[T] = f[y] + g[T \ {y}]
    <3>1. a \in T /\ g[T] = f[a] + g[T \ {a}]
      BY <1>2, <2>4, AnyOfMember
    <3> HIDE DEF a
    <3>2. CASE y = a
      BY <3>1, <3>2
    <3>3. CASE y # a
      <4>1. g[T \ {a}] = f[y] + g[(T \ {a}) \ {y}]
        BY <2>3, <3>1, <3>3
      <4>2. g[T \ {y}] = f[a] + g[(T \ {y}) \ {a}]
        BY <2>3, <3>1, <3>3
      <4>3. g[(T \ {a}) \ {y}] = g[(T \ {y}) \ {a}]
        <5>1. (T \ {a}) \ {y} = (T \ {y}) \ {a}
          OBVIOUS
        <5> QED BY <5>1
      <4>4. f[y] \in Int /\ f[a] \in Int /\ g[(T \ {y}) \ {a}] \in Int
        BY <1>3, <2>4, <3>1
      <4> DEFINE k1 == g[T \ {a}]
                 k2 == g[T \ {y}]
                 k3 == g[(T \ {y}) \ {a}]
                 k4 == g[T]
      <4>5. k4 = f[a] + k1 /\ k1 = f[y] + k3 /\ k2 = f[a] + k3 /\ k3 \in Int
        BY <3>1, <4>1, <4>2, <4>3, <4>4
      <4> HIDE DEF k1, k2, k3, k4
      <4>6. k4 = f[y] + k2
        BY <4>4, <4>5
      <4> QED BY <4>6 DEF k2, k4
    <3> QED BY <3>2, <3>3
  <2>6. Fine(T)
    BY <2>5
  <2> HIDE DEF Fine
  <2> QED BY <2>2, <2>6
<1>5. S \ {c} \in SUBSET S /\ S \in SUBSET S
  OBVIOUS
<1>6. SumOver(f, S \ {c}) = g[S \ {c}]
  BY <1>1, <1>5, SumOfSubset
<1>7. g[S] = f[c] + g[S \ {c}]
  BY <1>4, <1>5
<1> QED BY <1>1, <1>3, <1>5, <1>6, <1>7

LEMMA SumOfNothing ==
  ASSUME NEW f
  PROVE  SumOver(f, {}) = 0
BY FS_EmptySet, SumOfZeros

(* Of non-negative numbers: the sum over a part, of smaller numbers, is     *)
(* smaller.                                                                 *)
LEMMA SumOfPart ==
  ASSUME NEW S, IsFiniteSet(S), NEW f, \A x \in S : f[x] \in Nat,
         NEW U \in SUBSET S, NEW g, \A x \in U : g[x] \in Nat /\ g[x] <= f[x]
  PROVE  /\ SumOver(f, S) \in Nat /\ SumOver(g, U) \in Nat
         /\ SumOver(g, U) <= SumOver(f, S)
<1> DEFINE Fine(T) == /\ SumOver(f, T) \in Nat /\ SumOver(g, U \cap T) \in Nat
                      /\ SumOver(g, U \cap T) <= SumOver(f, T)
           B == {T \in SUBSET S : ~Fine(T)}
<1>1. \A T \in SUBSET S : Fine(T)
  <2>1. SUFFICES ASSUME B # {} PROVE FALSE
    OBVIOUS
  <2>2. PICK T \in B : \A x \in T : T \ {x} \notin B
    <3>1. B \in SUBSET (SUBSET S)
      OBVIOUS
    <3> HIDE DEF B
    <3> QED BY <2>1, <3>1, SmallestSet
  <2>3. \A x \in T : Fine(T \ {x})
    <3> HIDE DEF Fine
    <3> QED BY <2>2
  <2>4. T \in SUBSET S /\ IsFiniteSet(T) /\ U \cap T \in SUBSET S /\ IsFiniteSet(U \cap T)
    BY FS_Subset
  <2>5. Fine(T)
    <3>1. CASE T = {}
      <4>1. U \cap T = {}
        BY <3>1
      <4> QED BY <3>1, <4>1, SumOfNothing
    <3>2. CASE T # {}
      <4>1. PICK c \in T : TRUE
        BY <3>2
      <4>2. SumOver(f, T) = f[c] + SumOver(f, T \ {c}) /\ f[c] \in Nat
        BY <2>4, SumRemove
      <4>3. Fine(T \ {c})
        <5> HIDE DEF Fine
        <5> QED BY <2>3
      <4>4. CASE c \in U
        <5>1. SumOver(g, U \cap T) = g[c] + SumOver(g, (U \cap T) \ {c})
          <6>1. c \in U \cap T /\ \A x \in U \cap T : g[x] \in Int
            BY <4>4
          <6> HIDE DEF Fine, B
          <6> QED BY <2>4, <6>1, SumRemove
        <5>2. (U \cap T) \ {c} = U \cap (T \ {c})
          OBVIOUS
        <5>3. g[c] \in Nat /\ g[c] <= f[c]
          BY <4>4
        <5> QED BY <4>2, <4>3, <5>1, <5>2, <5>3
      <4>5. CASE c \notin U
        <5>1. U \cap T = U \cap (T \ {c})
          BY <4>5
        <5> QED BY <4>2, <4>3, <5>1
      <4> QED BY <4>4, <4>5
    <3> QED BY <3>1, <3>2
  <2> HIDE DEF Fine
  <2> QED BY <2>2, <2>5
<1>2. Fine(S) /\ U \cap S = U
  <2> HIDE DEF Fine
  <2> QED BY <1>1
<1> QED BY <1>2

LEMMA SumSame ==
  ASSUME NEW S, IsFiniteSet(S), NEW f, \A x \in S : f[x] \in Nat,
         NEW g, \A x \in S : g[x] = f[x]
  PROVE  SumOver(g, S) = SumOver(f, S)
<1>1. /\ SumOver(f, S) \in Nat /\ SumOver(g, S) \in Nat
      /\ SumOver(g, S) <= SumOver(f, S) /\ SumOver(f, S) <= SumOver(g, S)
  <2>1. S \in SUBSET S /\ \A x \in S : g[x] \in Nat /\ g[x] <= f[x] /\ f[x] <= g[x]
    OBVIOUS
  <2> QED BY <2>1, SumOfPart
<1> QED BY <1>1

(* The sum over two sets without a common element.                          *)
LEMMA SumOfUnion ==
  ASSUME NEW S, IsFiniteSet(S), NEW U, IsFiniteSet(U), S \cap U = {},
         NEW f, \A x \in S \cup U : f[x] \in Nat
  PROVE  SumOver(f, S \cup U) = SumOver(f, S) + SumOver(f, U)
<1> DEFINE Fine(T) == SumOver(f, S \cup T) = SumOver(f, S) + SumOver(f, T)
           B == {T \in SUBSET U : ~Fine(T)}
<1>0. \A T \in SUBSET U : /\ IsFiniteSet(T) /\ IsFiniteSet(S \cup T)
                          /\ SumOver(f, T) \in Nat /\ SumOver(f, S) \in Nat
  <2>1. ASSUME NEW T \in SUBSET U
        PROVE  /\ IsFiniteSet(T) /\ IsFiniteSet(S \cup T)
               /\ SumOver(f, T) \in Nat /\ SumOver(f, S) \in Nat
    <3>1. IsFiniteSet(T)
      BY FS_Subset
    <3>2. IsFiniteSet(S \cup T)
      BY <3>1, FS_Union
    <3>3. T \in SUBSET T /\ S \in SUBSET S /\ \A x \in S \cup T : f[x] \in Nat /\ f[x] <= f[x]
      OBVIOUS
    <3> QED BY <3>1, <3>2, <3>3, SumOfPart
  <2> QED BY <2>1
<1>1. \A T \in SUBSET U : Fine(T)
  <2>1. SUFFICES ASSUME B # {} PROVE FALSE
    OBVIOUS
  <2>2. PICK T \in B : \A x \in T : T \ {x} \notin B
    <3>1. B \in SUBSET (SUBSET U)
      OBVIOUS
    <3> HIDE DEF B
    <3> QED BY <2>1, <3>1, SmallestSet
  <2>3. \A x \in T : Fine(T \ {x})
    <3> HIDE DEF Fine
    <3> QED BY <2>2
  <2>4. T \in SUBSET U
    OBVIOUS
  <2>5. Fine(T)
    <3>1. CASE T = {}
      <4>1. S \cup T = S /\ SumOver(f, S) \in Nat
        BY <1>0, <3>1
      <4> QED BY <3>1, <4>1, SumOfNothing
    <3>2. CASE T # {}
      <4>1. PICK c \in T : TRUE
        BY <3>2
      <4>2. SumOver(f, T) = f[c] + SumOver(f, T \ {c}) /\ f[c] \in Nat
        <5>1. IsFiniteSet(T) /\ \A x \in T : f[x] \in Int
          BY <1>0, <2>4
        <5> QED BY <2>4, <4>1, <5>1, SumRemove
      <4>3. SumOver(f, S \cup T) = f[c] + SumOver(f, (S \cup T) \ {c})
        <5>1. IsFiniteSet(S \cup T)
          BY <1>0, <2>4
        <5>2. c \in S \cup T /\ \A x \in S \cup T : f[x] \in Int
          BY <2>4, <4>1
        <5> HIDE DEF Fine, B
        <5> QED BY <5>1, <5>2, SumRemove
      <4>4. (S \cup T) \ {c} = S \cup (T \ {c}) /\ T \ {c} \in SUBSET U
        BY <2>4, <4>1
      <4>5. SumOver(f, S \cup (T \ {c})) = SumOver(f, S) + SumOver(f, T \ {c})
        BY <2>3
      <4>6. SumOver(f, S) \in Nat /\ SumOver(f, T \ {c}) \in Nat
        BY <1>0, <2>4, <4>4
      <4> DEFINE k1 == SumOver(f, S \cup T)
                 k2 == SumOver(f, S)
                 k3 == SumOver(f, T)
                 k4 == SumOver(f, T \ {c})
                 k5 == SumOver(f, S \cup (T \ {c}))
      <4>7. k1 = f[c] + k5 /\ k3 = f[c] + k4 /\ k5 = k2 + k4 /\ k2 \in Nat /\ k4 \in Nat
        BY <4>2, <4>3, <4>4, <4>5, <4>6
      <4> HIDE DEF k1, k2, k3, k4, k5
      <4>8. k1 = k2 + k3
        BY <4>2, <4>7
      <4> QED BY <4>8 DEF k1, k2, k3
    <3> QED BY <3>1, <3>2
  <2> HIDE DEF Fine
  <2> QED BY <2>2, <2>5
<1>2. Fine(U)
  <2>1. U \in SUBSET U
    OBVIOUS
  <2> HIDE DEF Fine
  <2> QED BY <1>1, <2>1
<1> QED BY <1>2

(* A finite set of numbers that is not empty has a greatest member.         *)
LEMMA GreatestMember ==
  ASSUME NEW S, IsFiniteSet(S), S \in SUBSET Int, S # {}
  PROVE  \E n \in S : \A m \in S : n >= m
<1> DEFINE Fine(T) == T # {} => \E n \in T : \A m \in T : n >= m
           B == {T \in SUBSET S : ~Fine(T)}
<1>1. \A T \in SUBSET S : Fine(T)
  <2>1. SUFFICES ASSUME B # {} PROVE FALSE
    OBVIOUS
  <2>2. PICK T \in B : \A x \in T : T \ {x} \notin B
    <3>1. B \in SUBSET (SUBSET S)
      OBVIOUS
    <3> HIDE DEF B
    <3> QED BY <2>1, <3>1, SmallestSet
  <2>3. T \in SUBSET Int /\ T # {}
    OBVIOUS
  <2>4. PICK c \in T : TRUE
    BY <2>3
  <2>5. Fine(T \ {c})
    <3> HIDE DEF Fine
    <3> QED BY <2>2
  <2>6. \E n \in T : \A m \in T : n >= m
    <3>1. CASE T \ {c} = {}
      <4>1. \A m \in T : c >= m
        BY <2>3, <3>1
      <4> QED BY <4>1
    <3>2. CASE T \ {c} # {}
      <4>1. PICK n \in T \ {c} : \A m \in T \ {c} : n >= m
        BY <2>5, <3>2
      <4>2. CASE n >= c
        <5>1. \A m \in T : n >= m
          BY <2>3, <4>1, <4>2
        <5> QED BY <5>1
      <4>3. CASE ~(n >= c)
        <5>1. \A m \in T : c >= m
          BY <2>3, <4>1, <4>3
        <5> QED BY <5>1
      <4> QED BY <4>2, <4>3
    <3> QED BY <3>1, <3>2
  <2>7. Fine(T)
    BY <2>6
  <2> HIDE DEF Fine
  <2> QED BY <2>2, <2>7
<1> QED BY <1>1

=============================================================================
