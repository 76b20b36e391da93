---------------------------- MODULE InOrderProofs ----------------------------
(***************************************************************************)
(* What Ascending and Only are: the one increasing enumeration of a set of *)
(* numbers, and the subsequence at a set of places.                        *)
(*                                                                         *)
(* Induction is used in the form of a set of numbers that holds 0 and is   *)
(* closed under successor, which is first-order and needs no predicate to  *)
(* be instantiated; it comes from the library's minimal elements of a      *)
(* well-founded relation.                                                  *)
(***************************************************************************)
EXTENDS InOrder, FiniteSetTheorems, WellFoundedInduction, TLAPS

Before == {p \in Nat \X Nat : p[1] < p[2]}

(* f lists the m members of I, least first. *)
Lists(f, m, I) ==
  /\ m \in Nat
  /\ f \in [1 .. m -> I]
  /\ \A i, j \in 1 .. m : i < j => f[i] < f[j]
  /\ \A x \in I : \E i \in 1 .. m : f[i] = x

Listable(I) == \E m \in Nat : \E f \in [1 .. m -> I] : Lists(f, m, I)

-----------------------------------------------------------------------------
(* A non-empty set of natural numbers has a least member. *)
LEMMA LeastNatural ==
  ASSUME NEW T \in SUBSET Nat, T # {}
  PROVE  \E m \in T : \A n \in T : m <= n
  <1>1. OpToRel(<, Nat) = Before
    BY DEF OpToRel, Before
  <1>2. IsWellFoundedOn(Before, Nat)
    BY <1>1, NatLessThanWellFounded
  <1>3. PICK m \in T : \A n \in T : ~(<<n, m>> \in Before)
    BY <1>2, WFMin
  <1>4. ASSUME NEW n \in T PROVE m <= n
    <2>1. <<n, m>> \in Nat \X Nat /\ <<n, m>>[1] = n /\ <<n, m>>[2] = m
      OBVIOUS
    <2>2. ~(n < m)
      BY <1>3, <2>1 DEF Before
    <2> QED
      BY <2>2
  <1> QED
    BY <1>4

(* Induction: a set of natural numbers that holds 0 and, with any number,  *)
(* the next holds them all.                                                *)
LEMMA SetInduction ==
  ASSUME NEW S \in SUBSET Nat, 0 \in S, \A n \in S : n + 1 \in S
  PROVE  S = Nat
  <1> SUFFICES ASSUME Nat \ S # {} PROVE FALSE
    OBVIOUS
  <1>1. PICK m \in Nat \ S : \A n \in Nat \ S : m <= n
    BY LeastNatural
  <1>2. m # 0 /\ m - 1 \in Nat
    BY <1>1
  <1>3. m - 1 \in S
    BY <1>1, <1>2
  <1>4. (m - 1) + 1 = m
    BY <1>1
  <1> QED
    BY <1>1, <1>3, <1>4

(* Every set of numbers below a bound can be listed, least first. *)
LEMMA BoundedSetsAreListed ==
  ASSUME NEW n \in Nat, NEW I \in SUBSET Nat, \A x \in I : x < n
  PROVE  Listable(I)
  <1> DEFINE Good == {k \in Nat : \A J \in SUBSET Nat :
                         (\A x \in J : x < k) => Listable(J)}
  <1>1. 0 \in Good
    <2> SUFFICES ASSUME NEW J \in SUBSET Nat, \A x \in J : x < 0
                 PROVE  Listable(J)
      OBVIOUS
    <2>1. J = {}
      OBVIOUS
    <2>2. 1 .. 0 = {} /\ [i \in 1 .. 0 |-> 0] \in [1 .. 0 -> J]
      OBVIOUS
    <2>3. Lists([i \in 1 .. 0 |-> 0], 0, J)
      BY <2>1, <2>2 DEF Lists
    <2> QED
      BY <2>2, <2>3 DEF Listable
  <1>2. ASSUME NEW k \in Good PROVE k + 1 \in Good
    <2> SUFFICES ASSUME NEW J \in SUBSET Nat, \A x \in J : x < k + 1
                 PROVE  Listable(J)
      OBVIOUS
    <2> DEFINE K == J \ {k}
    <2>1. K \in SUBSET Nat /\ \A x \in K : x < k
      OBVIOUS
    <2>0. Listable(K)
      BY <2>1
    <2>a. PICK m \in Nat : \E g \in [1 .. m -> K] : Lists(g, m, K)
      BY <2>0 DEF Listable
    <2>2. PICK g \in [1 .. m -> K] : Lists(g, m, K)
      BY <2>a
    <2>3. CASE k \notin J
      <3>1. K = J
        BY <2>3
      <3> QED
        BY <2>0, <3>1
    <2>4. CASE k \in J
      <3>0. m + 1 \in Nat
        OBVIOUS
      <3> DEFINE f == [i \in 1 .. (m + 1) |-> IF i <= m THEN g[i] ELSE k]
      <3>1. f \in [1 .. (m + 1) -> J]
        BY <2>4 DEF Lists
      <3>2. \A i, j \in 1 .. (m + 1) : i < j => f[i] < f[j]
        <4> SUFFICES ASSUME NEW i \in 1 .. (m + 1), NEW j \in 1 .. (m + 1), i < j PROVE f[i] < f[j]
          OBVIOUS
        <4>1. i \in 1 .. m /\ f[i] = g[i] /\ g[i] \in K
          OBVIOUS
        <4>2. CASE j <= m
          BY <2>2, <4>1, <4>2 DEF Lists
        <4>3. CASE ~(j <= m)
          BY <2>1, <4>1, <4>3
        <4> QED
          BY <4>2, <4>3
      <3>3. \A x \in J : \E i \in 1 .. (m + 1) : f[i] = x
        <4> SUFFICES ASSUME NEW x \in J PROVE \E i \in 1 .. (m + 1) : f[i] = x
          OBVIOUS
        <4>1. CASE x = k
          <5>1. m + 1 \in 1 .. (m + 1) /\ f[m + 1] = k
            OBVIOUS
          <5> QED
            BY <4>1, <5>1
        <4>2. CASE x # k
          <5>1. PICK i \in 1 .. m : g[i] = x
            BY <2>2, <4>2 DEF Lists
          <5>2. i \in 1 .. (m + 1) /\ f[i] = x
            BY <5>1
          <5> QED
            BY <5>2
        <4> QED
          BY <4>1, <4>2
      <3> HIDE DEF f, K
      <3>4. Lists(f, m + 1, J)
        BY <3>0, <3>1, <3>2, <3>3 DEF Lists
      <3> QED
        BY <3>0, <3>1, <3>4 DEF Listable
    <2> QED
      BY <2>3, <2>4
  <1>3. Good = Nat
    <2> HIDE DEF Good
    <2>1. Good \in SUBSET Nat
      BY DEF Good
    <2> QED
      BY <1>1, <1>2, <2>1, SetInduction
  <1>4. n \in Good
    BY <1>3
  <1> QED
    BY <1>4

(* A list counts what it lists. *)
LEMMA ListsCount ==
  ASSUME NEW m \in Nat, NEW I \in SUBSET Nat, NEW f \in [1 .. m -> I], Lists(f, m, I)
  PROVE  IsFiniteSet(I) /\ Cardinality(I) = m
  <1>1. \A i, j \in 1 .. m : i # j => f[i] # f[j]
    <2> SUFFICES ASSUME NEW i \in 1 .. m, NEW j \in 1 .. m, i # j PROVE f[i] # f[j]
      OBVIOUS
    <2>1. f[i] \in Nat /\ f[j] \in Nat
      OBVIOUS
    <2>2. i < j \/ j < i
      OBVIOUS
    <2>3. f[i] < f[j] \/ f[j] < f[i]
      BY <2>2 DEF Lists
    <2> QED
      BY <2>1, <2>3
  <1>2. f \in Bijection(1 .. m, I)
    BY <1>1 DEF Lists, Bijection, Injection, Surjection, IsInjective
  <1>3. ExistsBijection(1 .. m, I)
    BY <1>2 DEF ExistsBijection
  <1> QED
    BY <1>3, FS_CountingElements, FS_NatBijection

(* Two lists of one set are the same. *)
LEMMA ListsAgree ==
  ASSUME NEW m \in Nat, NEW I \in SUBSET Nat,
         NEW f \in [1 .. m -> I], Lists(f, m, I),
         NEW g \in [1 .. m -> I], Lists(g, m, I)
  PROVE  f = g
  <1> DEFINE Good == {k \in Nat : \A i \in 1 .. m : i <= k => f[i] = g[i]}
  <1>1. 0 \in Good
    OBVIOUS
  <1>2. ASSUME NEW k \in Good PROVE k + 1 \in Good
    <2> SUFFICES ASSUME k + 1 \in 1 .. m PROVE f[k + 1] = g[k + 1]
      BY <1>2
    <2>0. /\ f[k + 1] \in I /\ g[k + 1] \in I
          /\ \A i \in 1 .. m : f[i] \in Nat /\ g[i] \in Nat
      OBVIOUS
    <2>1. PICK i \in 1 .. m : f[i] = g[k + 1]
      BY <2>0 DEF Lists
    <2>2. PICK j \in 1 .. m : g[j] = f[k + 1]
      BY <2>0 DEF Lists
    <2>3. i >= k + 1
      <3> SUFFICES ASSUME i <= k PROVE FALSE
        OBVIOUS
      <3>1. g[i] = g[k + 1]
        BY <1>2, <2>1
      <3>2. g[i] < g[k + 1]
        BY DEF Lists
      <3> QED
        BY <2>0, <3>1, <3>2
    <2>4. j >= k + 1
      <3> SUFFICES ASSUME j <= k PROVE FALSE
        OBVIOUS
      <3>1. f[j] = f[k + 1]
        BY <1>2, <2>2
      <3>2. f[j] < f[k + 1]
        BY DEF Lists
      <3> QED
        BY <2>0, <3>1, <3>2
    <2>5. f[k + 1] <= g[k + 1]
      <3>1. CASE i = k + 1
        BY <2>0, <2>1, <3>1
      <3>2. CASE i > k + 1
        BY <2>0, <2>1, <3>2 DEF Lists
      <3> QED
        BY <2>3, <3>1, <3>2
    <2>6. g[k + 1] <= f[k + 1]
      <3>1. CASE j = k + 1
        BY <2>0, <2>2, <3>1
      <3>2. CASE j > k + 1
        BY <2>0, <2>2, <3>2 DEF Lists
      <3> QED
        BY <2>4, <3>1, <3>2
    <2> QED
      BY <2>0, <2>5, <2>6
  <1>3. Good = Nat
    <2> HIDE DEF Good
    <2>1. Good \in SUBSET Nat
      BY DEF Good
    <2> QED
      BY <1>1, <1>2, <2>1, SetInduction
  <1>4. \A i \in 1 .. m : f[i] = g[i]
    <2> SUFFICES ASSUME NEW i \in 1 .. m PROVE f[i] = g[i]
      OBVIOUS
    <2>1. m \in Good
      BY <1>3
    <2> QED
      BY <2>1
  <1> QED
    BY <1>4

(* Ascending is the list of its set, and whatever lists the set is it. *)
LEMMA AscendingLists ==
  ASSUME NEW n \in Nat, NEW I \in SUBSET Nat, \A x \in I : x < n
  PROVE  /\ IsFiniteSet(I)
         /\ Cardinality(I) \in Nat
         /\ Ascending(I) \in [1 .. Cardinality(I) -> I]
         /\ Lists(Ascending(I), Cardinality(I), I)
  <1> DEFINE c == Cardinality(I)
             a == Ascending(I)
  <1>1. PICK m \in Nat : \E f \in [1 .. m -> I] : Lists(f, m, I)
    BY BoundedSetsAreListed DEF Listable
  <1>2. PICK f \in [1 .. m -> I] : Lists(f, m, I)
    BY <1>1
  <1>3. IsFiniteSet(I) /\ c = m
    BY <1>2, ListsCount
  <1>4. a \in [1 .. c -> I] /\ \A i, j \in 1 .. c : i < j => a[i] < a[j]
    BY <1>2, <1>3 DEF Lists, Ascending
  <1> HIDE DEF c, a
  <1>5. a \in Injection(1 .. c, I)
    <2>1. ASSUME NEW i \in 1 .. c, NEW j \in 1 .. c, a[i] = a[j] PROVE i = j
      <3>0. i \in Int /\ j \in Int
        BY <1>3
      <3>1. a[i] \in Nat /\ a[j] \in Nat
        BY <1>4
      <3> QED
        BY <1>4, <2>1, <3>0, <3>1
    <2> QED
      BY <1>4, <2>1 DEF Injection, IsInjective
  <1>6. IsFiniteSet(1 .. c) /\ Cardinality(1 .. c) = c
    BY <1>3, FS_Interval
  <1>7. a \in Surjection(1 .. c, I)
    BY <1>3, <1>5, <1>6, FS_Injection DEF c
  <1>8. \A x \in I : \E i \in 1 .. c : a[i] = x
    BY <1>7 DEF Surjection
  <1> QED
    BY <1>3, <1>4, <1>8 DEF Lists, c, a

LEMMA AscendingIs ==
  ASSUME NEW n \in Nat, NEW I \in SUBSET Nat, \A x \in I : x < n,
         NEW m \in Nat, NEW f \in [1 .. m -> I], Lists(f, m, I)
  PROVE  IsFiniteSet(I) /\ Cardinality(I) = m /\ Ascending(I) = f
  <1>1. IsFiniteSet(I) /\ Cardinality(I) = m
    BY ListsCount
  <1>2. Ascending(I) \in [1 .. m -> I] /\ Lists(Ascending(I), m, I)
    BY <1>1, AscendingLists
  <1> QED
    BY <1>1, <1>2, ListsAgree

(* Only picks out what is at the places asked for, each once and in the    *)
(* order of the places.                                                    *)
LEMMA OnlyPicks ==
  ASSUME NEW S, NEW s \in Seq(S), NEW I \in SUBSET (1 .. Len(s))
  PROVE  /\ Cardinality(I) \in Nat
         /\ Only(s, I) \in Seq(S)
         /\ Len(Only(s, I)) = Cardinality(I)
         /\ Ascending(I) \in [1 .. Cardinality(I) -> I]
         /\ \A k \in 1 .. Cardinality(I) : Only(s, I)[k] = s[Ascending(I)[k]]
         /\ \A j, k \in 1 .. Cardinality(I) :
              j < k => Ascending(I)[j] < Ascending(I)[k]
         /\ \A i \in I : \E k \in 1 .. Cardinality(I) : Only(s, I)[k] = s[i]
  <1> DEFINE c == Cardinality(I)
             a == Ascending(I)
  <1>1. Len(s) + 1 \in Nat /\ I \in SUBSET Nat /\ \A x \in I : x < Len(s) + 1
    OBVIOUS
  <1>2. c \in Nat /\ a \in [1 .. c -> I] /\ Lists(a, c, I)
    BY <1>1, AscendingLists
  <1> HIDE DEF c, a
  <1>3. Only(s, I) = [k \in 1 .. c |-> s[a[k]]]
    BY DEF Only, c, a
  <1>a. \A i \in 1 .. Len(s) : s[i] \in S
    OBVIOUS
  <1>b. \A k \in 1 .. c : a[k] \in 1 .. Len(s)
    BY <1>2
  <1>4. \A k \in 1 .. c : s[a[k]] \in S
    BY <1>a, <1>b
  <1>5. Only(s, I) \in Seq(S) /\ Len(Only(s, I)) = c
    BY <1>2, <1>3, <1>4
  <1>6. \A k \in 1 .. c : Only(s, I)[k] = s[a[k]]
    BY <1>3
  <1>7. \A i \in I : \E k \in 1 .. c : Only(s, I)[k] = s[i]
    BY <1>2, <1>6 DEF Lists
  <1> QED
    BY <1>2, <1>5, <1>6, <1>7 DEF Lists, c, a

(* The places of a sequence put after another. *)
Shift(n, J) == {n + j : j \in J}

(* w is s and then t. *)
Joins(w, s, t) ==
  /\ Len(s) \in Nat /\ Len(t) \in Nat /\ Len(w) = Len(s) + Len(t)
  /\ \A i \in 1 .. Len(s) : w[i] = s[i]
  /\ \A i \in 1 .. Len(t) : w[Len(s) + i] = t[i]
  /\ \A i \in Len(s) + 1 .. Len(s) + Len(t) : w[i] = t[i - Len(s)] /\ i - Len(s) \in 1 .. Len(t)
  /\ \A i \in 1 .. Len(w) : i \in 1 .. Len(s) \/ i \in Len(s) + 1 .. Len(s) + Len(t)

(* What is picked out of two sequences, one after the other. *)
LEMMA OnlyConcat ==
  ASSUME NEW S, NEW s \in Seq(S), NEW t \in Seq(S),
         NEW w \in Seq(S), Joins(w, s, t),
         NEW I \in SUBSET (1 .. Len(s)), NEW J \in SUBSET (1 .. Len(t))
  PROVE  Joins(Only(w, I \cup Shift(Len(s), J)), Only(s, I), Only(t, J))
  <1> DEFINE n == Len(s)
             m == Len(t)
             K == I \cup Shift(n, J)
             ci == Cardinality(I)
             cj == Cardinality(J)
             ai == Ascending(I)
             aj == Ascending(J)
             f == [k \in 1 .. (ci + cj) |-> IF k <= ci THEN ai[k] ELSE n + aj[k - ci]]
  <1>1. n \in Nat /\ m \in Nat
    OBVIOUS
  <1>2. ci \in Nat /\ ai \in [1 .. ci -> I] /\ Lists(ai, ci, I)
    <2>1. n + 1 \in Nat /\ I \in SUBSET Nat /\ \A x \in I : x < n + 1
      OBVIOUS
    <2> QED
      BY <2>1, AscendingLists
  <1>3. cj \in Nat /\ aj \in [1 .. cj -> J] /\ Lists(aj, cj, J)
    <2>1. m + 1 \in Nat /\ J \in SUBSET Nat /\ \A x \in J : x < m + 1
      OBVIOUS
    <2> QED
      BY <2>1, AscendingLists
  <1>3a. /\ Len(Only(s, I)) = ci /\ Len(Only(t, J)) = cj
         /\ \A k \in 1 .. ci : Only(s, I)[k] = s[ai[k]]
         /\ \A k \in 1 .. cj : Only(t, J)[k] = t[aj[k]]
         /\ Only(s, I) \in Seq(S) /\ Only(t, J) \in Seq(S)
    BY OnlyPicks
  <1> HIDE DEF ci, cj, ai, aj, n, m
  <1>4. /\ \A k \in 1 .. ci : ai[k] \in I /\ ai[k] \in 1 .. n
        /\ \A k \in 1 .. cj : aj[k] \in J /\ aj[k] \in 1 .. m
    BY <1>2, <1>3 DEF n, m
  <1>5. K \in SUBSET Nat /\ \A x \in K : x < n + m + 1
    <2>1. \A x \in I : x \in 1 .. n
      BY DEF n
    <2>2. \A j \in J : j \in 1 .. m
      BY DEF m
    <2>3. ASSUME NEW x \in K PROVE x \in Nat /\ x < n + m + 1
      <3>1. CASE x \in I
        BY <1>1, <2>1, <3>1
      <3>2. CASE x \in Shift(n, J)
        <4>1. PICK j \in J : x = n + j
          BY <3>2 DEF Shift
        <4> QED
          BY <1>1, <2>2, <4>1
      <3> QED
        BY <3>1, <3>2
    <2> QED
      BY <2>3
  <1>6. /\ \A k \in 1 .. ci : f[k] = ai[k]
        /\ \A k \in ci + 1 .. ci + cj : f[k] = n + aj[k - ci] /\ k - ci \in 1 .. cj
        /\ \A k \in 1 .. cj : ci + k \in 1 .. (ci + cj) /\ f[ci + k] = n + aj[k]
        /\ \A k \in 1 .. (ci + cj) : k \in 1 .. ci \/ k \in ci + 1 .. ci + cj
        /\ DOMAIN f = 1 .. (ci + cj)
    BY <1>2, <1>3
  <1> HIDE DEF f
  <1>7. \A k \in 1 .. (ci + cj) : f[k] \in K
    <2> SUFFICES ASSUME NEW k \in 1 .. (ci + cj) PROVE f[k] \in K
      OBVIOUS
    <2>1. CASE k \in 1 .. ci
      BY <1>4, <1>6, <2>1
    <2>2. CASE k \in ci + 1 .. ci + cj
      BY <1>4, <1>6, <2>2 DEF Shift
    <2> QED
      BY <1>6, <2>1, <2>2
  <1>8. ASSUME NEW j \in 1 .. (ci + cj), NEW k \in 1 .. (ci + cj), j < k PROVE f[j] < f[k]
    <2>1. CASE j \in 1 .. ci /\ k \in 1 .. ci
      BY <1>2, <1>6, <1>8, <2>1 DEF Lists
    <2>2. CASE j \in 1 .. ci /\ k \in ci + 1 .. ci + cj
      <3>1. f[j] = ai[j] /\ ai[j] \in 1 .. n
        BY <1>4, <1>6, <2>2
      <3>2. f[k] = n + aj[k - ci] /\ aj[k - ci] \in 1 .. m
        BY <1>4, <1>6, <2>2
      <3> QED
        BY <1>1, <3>1, <3>2
    <2>3. CASE j \in ci + 1 .. ci + cj /\ k \in ci + 1 .. ci + cj
      <3>1. f[j] = n + aj[j - ci] /\ f[k] = n + aj[k - ci]
            /\ j - ci \in 1 .. cj /\ k - ci \in 1 .. cj /\ j - ci < k - ci
        BY <1>2, <1>6, <1>8, <2>3
      <3>2. aj[j - ci] < aj[k - ci] /\ aj[j - ci] \in 1 .. m /\ aj[k - ci] \in 1 .. m
        BY <1>3, <1>4, <3>1 DEF Lists
      <3> QED
        BY <1>1, <3>1, <3>2
    <2>4. CASE j \in ci + 1 .. ci + cj /\ k \in 1 .. ci
      BY <1>2, <1>8, <2>4
    <2> QED
      BY <1>6, <2>1, <2>2, <2>3, <2>4
  <1>9. ASSUME NEW x \in K PROVE \E k \in 1 .. (ci + cj) : f[k] = x
    <2>1. CASE x \in I
      <3>1. PICK k \in 1 .. ci : ai[k] = x
        BY <1>2, <2>1 DEF Lists
      <3>2. k \in 1 .. (ci + cj) /\ f[k] = x
        BY <1>2, <1>3, <1>6, <3>1
      <3> QED
        BY <3>2
    <2>2. CASE x \in Shift(n, J)
      <3>1. PICK j \in J : x = n + j
        BY <2>2 DEF Shift
      <3>2. PICK k \in 1 .. cj : aj[k] = j
        BY <1>3, <3>1 DEF Lists
      <3>3. ci + k \in 1 .. (ci + cj) /\ f[ci + k] = x
        BY <1>6, <3>1, <3>2
      <3> QED
        BY <3>3
    <2> QED
      BY <2>1, <2>2
  <1>10. f \in [1 .. (ci + cj) -> K]
    BY <1>7 DEF f
  <1>11. ci + cj \in Nat /\ Lists(f, ci + cj, K)
    BY <1>2, <1>3, <1>8, <1>9, <1>10 DEF Lists
  <1> HIDE DEF K
  <1>12. Cardinality(K) = ci + cj /\ Ascending(K) = f
    <2>1. n + m + 1 \in Nat
      BY <1>1
    <2> QED
      BY <1>5, <1>10, <1>11, <2>1, AscendingIs
  <1>13. /\ Only(w, K) = [k \in 1 .. (ci + cj) |-> w[f[k]]]
         /\ Only(w, K) \in Seq(S) /\ Len(Only(w, K)) = ci + cj
    <2>1. Len(w) = n + m
      BY DEF Joins, n, m
    <2>2. K \in SUBSET (1 .. Len(w))
      <3>1. ASSUME NEW x \in K PROVE x \in 1 .. Len(w)
        <4>1. PICK k \in 1 .. (ci + cj) : f[k] = x
          BY <1>9
        <4>2. CASE k \in 1 .. ci
          BY <1>1, <1>4, <1>6, <2>1, <4>1, <4>2
        <4>3. CASE k \in ci + 1 .. ci + cj
          <5>1. x = n + aj[k - ci] /\ aj[k - ci] \in 1 .. m
            BY <1>4, <1>6, <4>1, <4>3
          <5> QED
            BY <1>1, <2>1, <5>1
        <4> QED
          BY <1>6, <4>2, <4>3
      <3> QED
        BY <3>1
    <2> QED
      BY <1>12, <2>2, OnlyPicks DEF Only
  <1>14. ASSUME NEW k \in 1 .. ci PROVE Only(w, K)[k] = Only(s, I)[k]
    <2>1. k \in 1 .. (ci + cj) /\ f[k] \in 1 .. n /\ f[k] = ai[k]
      BY <1>2, <1>3, <1>4, <1>6
    <2>2. w[f[k]] = s[f[k]]
      BY <2>1 DEF Joins, n
    <2> QED
      BY <1>3a, <1>13, <2>1, <2>2
  <1>15. ASSUME NEW k \in 1 .. cj PROVE Only(w, K)[ci + k] = Only(t, J)[k]
    <2>1. ci + k \in 1 .. (ci + cj) /\ f[ci + k] = n + aj[k] /\ aj[k] \in 1 .. m
      BY <1>4, <1>6
    <2>2. w[f[ci + k]] = t[aj[k]]
      BY <2>1 DEF Joins, n, m
    <2> QED
      BY <1>3a, <1>13, <2>1, <2>2
  <1>16. ASSUME NEW k \in ci + 1 .. ci + cj
         PROVE  Only(w, K)[k] = Only(t, J)[k - ci] /\ k - ci \in 1 .. cj
    <2>1. k - ci \in 1 .. cj /\ ci + (k - ci) = k
      BY <1>2, <1>3
    <2> QED
      BY <1>15, <2>1
  <1>17. Joins(Only(w, K), Only(s, I), Only(t, J))
    BY <1>2, <1>3, <1>3a, <1>6, <1>13, <1>14, <1>15, <1>16 DEF Joins
  <1> QED
    BY <1>17 DEF K, n
=============================================================================
