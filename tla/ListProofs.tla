----------------------------- MODULE ListProofs ------------------------------
(***************************************************************************)
(* Facts about numbers and filtered lists that other proofs use.           *)
(***************************************************************************)
EXTENDS LineDiff, FiniteSetTheorems, SequenceTheorems, WellFoundedInduction, TLAPS

\* Any set of natural numbers has a least one: what a proof by induction needs.
LEMMA Least ==
  ASSUME NEW S \in SUBSET Nat, S # {}
  PROVE  \E least \in S : \A k \in S : least <= k
<1>1. IsWellFoundedOn(OpToRel(<, Nat), Nat)
  BY NatLessThanWellFounded
<1>2. PICK least \in S : \A k \in S : <<k, least>> \notin OpToRel(<, Nat)
  BY <1>1, WFMin
<1>3. \A k \in S : ~(k < least)
  BY <1>2 DEF OpToRel
<1> QED BY <1>3

\* An induction from 0 to n, over the set of numbers that have the property.
LEMMA UpTo ==
  ASSUME NEW n \in Nat, NEW S, 0 \in S, \A k \in 0 .. n - 1 : k \in S => k + 1 \in S
  PROVE  0 .. n \subseteq S
<1> SUFFICES ASSUME (0 .. n) \ S # {} PROVE FALSE
  OBVIOUS
<1>1. (0 .. n) \ S \in SUBSET Nat
  OBVIOUS
<1>2. PICK k \in (0 .. n) \ S : \A l \in (0 .. n) \ S : k <= l
  BY <1>1, Least
<1>3. k - 1 \in 0 .. n - 1 /\ k - 1 \in S
  BY <1>2
<1> QED BY <1>2, <1>3

-----------------------------------------------------------------------------
(* Sets of indexes of a list of length m.                                    *)

Indexes(m) == SUBSET (1 .. m)

LEMMA AreIndexes ==
  ASSUME NEW m \in Nat, NEW S
  PROVE  S \in Indexes(m) <=> \A k \in S : k \in Int /\ 1 <= k /\ k <= m
BY DEF Indexes

(* Ascending.                                                                *)

\* A set of indexes is finite.
LEMMA Counted ==
  ASSUME NEW m \in Nat, NEW S \in Indexes(m)
  PROVE  /\ IsFiniteSet(S) /\ Cardinality(S) \in 0 .. m
         /\ \A k \in Int : Rank(S, k) \in 0 .. Cardinality(S)
<1>1. IsFiniteSet(1 .. m) /\ Cardinality(1 .. m) = m
  BY FS_Interval
<1>2. IsFiniteSet(S) /\ Cardinality(S) <= m
  BY <1>1, FS_Subset DEF Indexes
<1>3. Cardinality(S) \in Nat
  BY <1>2, FS_CardinalityType
<1>4. ASSUME NEW k \in Int PROVE Rank(S, k) \in 0 .. Cardinality(S)
  <2> DEFINE T == {l \in S : l <= k}
  <2>1. T \in SUBSET S
    OBVIOUS
  <2>2. IsFiniteSet(T) /\ Cardinality(T) <= Cardinality(S)
    BY <1>2, <2>1, FS_Subset
  <2>3. Cardinality(T) \in Nat
    BY <2>2, FS_CardinalityType
  <2> QED BY <1>3, <2>2, <2>3 DEF Rank
<1> QED BY <1>2, <1>3, <1>4

LEMMA LastOfMembers ==
  ASSUME NEW S, \A l \in S : l \in Int, NEW k \in S
  PROVE  /\ {l \in S : l <= k} = {l \in S : l <= k - 1} \union {k}
         /\ k \notin {l \in S : l <= k - 1}
OBVIOUS

\* The rank grows by one at the members and nowhere else.
LEMMA RankSteps ==
  ASSUME NEW m \in Nat, NEW S \in Indexes(m), NEW k \in 1 .. m
  PROVE  Rank(S, k) = IF k \in S THEN Rank(S, k - 1) + 1 ELSE Rank(S, k - 1)
<1> DEFINE Below == {l \in S : l <= k - 1}
           UpToK == {l \in S : l <= k}
<1>0. \A l \in S : l \in 1 .. m
  BY AreIndexes
<1>1. Below \in SUBSET S /\ IsFiniteSet(S)
  BY Counted
<1>2. IsFiniteSet(Below)
  BY <1>1, FS_Subset
<1>3. CASE k \in S
  <2>1. \A l \in S : l \in Int
    BY <1>0
  <2>2. UpToK = Below \union {k} /\ k \notin Below
    BY <1>3, <2>1, LastOfMembers
  <2> QED BY <1>2, <1>3, <2>2, FS_AddElement DEF Rank
<1>4. CASE k \notin S
  <2>1. UpToK = Below
    BY <1>0, <1>4
  <2> QED BY <1>4, <2>1 DEF Rank
<1> QED BY <1>3, <1>4

LEMMA RankEnds ==
  ASSUME NEW m \in Nat, NEW S \in Indexes(m)
  PROVE  Rank(S, 0) = 0 /\ Rank(S, m) = Cardinality(S)
<1>1. \A l \in S : l \in 1 .. m
  BY AreIndexes
<1>2. {l \in S : l <= 0} = {} /\ {l \in S : l <= m} = S
  BY <1>1
<1> QED BY <1>2, FS_EmptySet DEF Rank

\* Of two members the smaller has the smaller rank.
LEMMA RankGrows ==
  ASSUME NEW m \in Nat, NEW S \in Indexes(m), NEW k \in 0 .. m, NEW l \in S, k < l
  PROVE  Rank(S, k) < Rank(S, l)
<1> DEFINE Lower == {i \in S : i <= k}
           Upper == {i \in S : i <= l}
<1>0. \A i \in S : i \in 1 .. m
  BY AreIndexes
<1>1. Upper \in SUBSET S /\ IsFiniteSet(S)
  BY Counted
<1>2. IsFiniteSet(Upper)
  BY <1>1, FS_Subset
<1>3. Lower \in SUBSET Upper /\ l \in Upper /\ l \notin Lower
  BY <1>0
<1>4. Cardinality(Lower) <= Cardinality(Upper) /\ Cardinality(Lower) # Cardinality(Upper)
  BY <1>2, <1>3, FS_Subset
<1>5. k \in Int /\ l \in Int
  BY <1>0
<1>6. Rank(S, k) \in Int /\ Rank(S, l) \in Int
  BY <1>5, Counted
<1> QED BY <1>4, <1>6 DEF Rank

\* Every number up to the set's size is the rank of a member.
LEMMA RankOnto ==
  ASSUME NEW m \in Nat, NEW S \in Indexes(m), NEW n \in 1 .. Cardinality(S)
  PROVE  \E k \in S : Rank(S, k) = n
<1> DEFINE High == {k \in 0 .. m : Rank(S, k) >= n}
<1>1. \A k \in 0 .. m : Rank(S, k) \in Nat
  BY Counted
<1>2. Cardinality(S) \in 0 .. m
  BY Counted
<1>3. m \in High /\ High \in SUBSET Nat
  BY <1>1, <1>2, RankEnds
<1>4. PICK k \in High : \A l \in High : k <= l
  BY <1>3, Least
<1>5. k # 0
  BY <1>2, RankEnds
<1>6. k - 1 \notin High /\ k - 1 \in 0 .. m
  BY <1>4, <1>5
<1>7. Rank(S, k) = IF k \in S THEN Rank(S, k - 1) + 1 ELSE Rank(S, k - 1)
  BY <1>5, RankSteps
<1> QED BY <1>1, <1>4, <1>6, <1>7

\* Ascending lists the members of a set of indexes, each once, in their order.
LEMMA AscendingLists ==
  ASSUME NEW m \in Nat, NEW S \in Indexes(m)
  PROVE  /\ Ascending(S) \in [1 .. Cardinality(S) -> S]
         /\ \A n \in 1 .. Cardinality(S) : Rank(S, Ascending(S)[n]) = n
         /\ \A n, p \in 1 .. Cardinality(S) : n < p => Ascending(S)[n] < Ascending(S)[p]
         /\ \A k \in S : Rank(S, k) \in 1 .. Cardinality(S) /\ Ascending(S)[Rank(S, k)] = k
<1>1. ASSUME NEW n \in 1 .. Cardinality(S)
      PROVE  Ascending(S)[n] \in S /\ Rank(S, Ascending(S)[n]) = n
  BY RankOnto DEF Ascending
<1>2. ASSUME NEW k \in S, NEW l \in S, Rank(S, k) = Rank(S, l) PROVE k = l
  <2>1. k \in 1 .. m /\ l \in 1 .. m
    BY AreIndexes
  <2>2. Rank(S, k) \in Int
    BY <2>1, Counted
  <2>3. ~(k < l) /\ ~(l < k)
    BY <1>2, <2>1, <2>2, RankGrows
  <2> QED BY <2>1, <2>3
<1>3. ASSUME NEW n \in 1 .. Cardinality(S), NEW p \in 1 .. Cardinality(S), n < p
      PROVE  Ascending(S)[n] < Ascending(S)[p]
  <2> DEFINE k == Ascending(S)[n]
             l == Ascending(S)[p]
  <2>1. k \in S /\ l \in S /\ Rank(S, k) = n /\ Rank(S, l) = p
    BY <1>1
  <2>2. k \in 1 .. m /\ l \in 1 .. m /\ k # l
    <3> HIDE DEF k, l
    <3>1. n # p
      BY <1>3, Counted
    <3> QED BY <2>1, <3>1, AreIndexes
  <2>3. ~(l < k)
    <3> HIDE DEF k, l
    <3> SUFFICES ASSUME l < k PROVE FALSE
      OBVIOUS
    <3>1. Rank(S, l) < Rank(S, k)
      BY <2>1, <2>2, RankGrows
    <3>2. Cardinality(S) \in Int
      BY Counted
    <3> QED BY <1>3, <2>1, <3>1, <3>2
  <2> QED BY <2>2, <2>3
<1>4. ASSUME NEW k \in S PROVE Rank(S, k) \in 1 .. Cardinality(S) /\ Ascending(S)[Rank(S, k)] = k
  <2>1. Rank(S, k) \in 1 .. Cardinality(S)
    <3>0. k \in Int /\ 0 < k /\ 0 \in 0 .. m
      BY AreIndexes
    <3>1. Rank(S, 0) < Rank(S, k)
      BY <3>0, RankGrows
    <3>2. Rank(S, 0) = 0 /\ Rank(S, k) \in 0 .. Cardinality(S)
      BY <3>0, RankEnds, Counted
    <3> QED BY <3>1, <3>2
  <2>2. Ascending(S)[Rank(S, k)] \in S /\ Rank(S, Ascending(S)[Rank(S, k)]) = Rank(S, k)
    BY <1>1, <2>1
  <2> QED BY <1>2, <2>1, <2>2
<1>5. Ascending(S) \in [1 .. Cardinality(S) -> S]
  BY <1>1 DEF Ascending
<1> QED BY <1>1, <1>3, <1>4, <1>5

\* It is the only way to do so.
LEMMA OnlyAscending ==
  ASSUME NEW m \in Nat, NEW S \in Indexes(m), NEW c \in Nat, NEW h \in [1 .. c -> S],
         \A n, p \in 1 .. c : n < p => h[n] < h[p],
         \A k \in S : \E n \in 1 .. c : h[n] = k
  PROVE  Cardinality(S) = c /\ h = Ascending(S)
<1> DEFINE Low(n) == {l \in S : l <= h[n]}
           Done == {n \in 0 .. c : n = 0 \/ Rank(S, h[n]) = n}
<1>1. \A k \in S : k \in Int /\ 1 <= k /\ k <= m
  BY AreIndexes
<1>2. \A n \in 1 .. c : h[n] \in S
  OBVIOUS
<1>3. ASSUME NEW n \in 0 .. c - 1, n \in Done PROVE n + 1 \in Done
  <2>1. n + 1 \in 1 .. c /\ h[n + 1] \in S /\ h[n + 1] \in Int
    BY <1>1, <1>2
  <2>2. CASE n = 0
    <3>1. Low(1) = {h[1]}
      <4>1. ASSUME NEW l \in S, l <= h[1] PROVE l = h[1]
        <5>1. PICK p \in 1 .. c : h[p] = l
          OBVIOUS
        <5>2. ~(1 < p)
          BY <1>1, <1>2, <2>1, <2>2, <4>1, <5>1
        <5> QED BY <5>1, <5>2
      <4> QED BY <2>1, <2>2, <4>1
    <3>2. Rank(S, h[1]) = 1
      BY <3>1, FS_Singleton DEF Rank
    <3> QED BY <2>1, <2>2, <3>2
  <2>3. CASE n # 0
    <3>1. n \in 1 .. c /\ h[n] \in S /\ h[n] \in Int /\ h[n] < h[n + 1] /\ Rank(S, h[n]) = n
      BY <1>1, <1>2, <1>3, <2>1, <2>3
    <3>2. \A l \in S : l <= h[n + 1] <=> l <= h[n] \/ l = h[n + 1]
      <4> SUFFICES ASSUME NEW l \in S, l <= h[n + 1], ~(l <= h[n]), l # h[n + 1] PROVE FALSE
        BY <1>1, <2>1, <3>1
      <4>1. PICK p \in 1 .. c : h[p] = l
        OBVIOUS
      <4>2. p # n /\ p # n + 1 /\ p \in Int /\ l \in Int
        BY <1>1, <3>1, <4>1
      <4>3. ~(p < n)
        BY <3>1, <4>1, <4>2
      <4>4. ~(n + 1 < p)
        BY <2>1, <4>1, <4>2
      <4> QED BY <4>2, <4>3, <4>4
    <3>3. Low(n + 1) = Low(n) \union {h[n + 1]} /\ h[n + 1] \notin Low(n)
      BY <2>1, <3>1, <3>2
    <3>4. IsFiniteSet(Low(n))
      <4>1. IsFiniteSet(S) /\ Low(n) \in SUBSET S
        BY Counted
      <4> QED BY <4>1, FS_Subset
    <3>5. Cardinality(Low(n + 1)) = Cardinality(Low(n)) + 1
      <4> HIDE DEF Low
      <4> QED BY <3>3, <3>4, FS_AddElement
    <3> QED BY <2>1, <3>1, <3>5 DEF Rank
  <2> QED BY <2>2, <2>3
<1>4. \A n \in 1 .. c : Rank(S, h[n]) = n
  <2>1. 0 \in Done
    OBVIOUS
  <2> HIDE DEF Done
  <2>2. 0 .. c \subseteq Done
    BY <1>3, <2>1, UpTo
  <2> QED BY <2>2 DEF Done
<1>5. Cardinality(S) = c
  <2>1. CASE c = 0
    <3>1. S = {}
      BY <2>1
    <3> QED BY <2>1, <3>1, FS_EmptySet
  <2>2. CASE c # 0
    <3>1. c \in 1 .. c /\ h[c] \in Int
      BY <1>1, <1>2, <2>2
    <3>2. ASSUME NEW l \in S PROVE l <= h[c]
      <4>1. PICK p \in 1 .. c : h[p] = l
        OBVIOUS
      <4>2. p < c \/ p = c
        OBVIOUS
      <4> QED BY <1>1, <3>1, <4>1, <4>2
    <3>3. Low(c) = S
      BY <3>2
    <3> QED BY <1>4, <3>1, <3>3 DEF Rank
  <2> QED BY <2>1, <2>2
<1>6. ASSUME NEW n \in 1 .. c PROVE h[n] = Ascending(S)[n]
  <2>1. h[n] \in S /\ Ascending(S)[Rank(S, h[n])] = h[n]
    BY <1>2, AscendingLists
  <2> QED BY <1>4, <2>1
<1>7. Ascending(S) \in [1 .. c -> S]
  BY <1>5, AscendingLists
<1> QED BY <1>5, <1>6, <1>7

\* Two lists are filtered alike if an ascending function leads from the indexes that are
\* kept of the one onto those of the other.
LEMMA FilteredAlike ==
  ASSUME NEW m \in Nat, NEW S \in Indexes(m), NEW n \in Nat, NEW T \in Indexes(n),
         NEW f \in [S -> T], \A k, l \in S : k < l => f[k] < f[l],
         \A t \in T : \E k \in S : f[k] = t,
         NEW list, NEW other, \A k \in S : other[f[k]] = list[k]
  PROVE  Filtered(other, T) = Filtered(list, S)
<1> DEFINE c == Cardinality(S)
           h == [i \in 1 .. c |-> f[Ascending(S)[i]]]
<1>1. /\ Ascending(S) \in [1 .. c -> S]
      /\ \A i, j \in 1 .. c : i < j => Ascending(S)[i] < Ascending(S)[j]
      /\ \A k \in S : Rank(S, k) \in 1 .. c /\ Ascending(S)[Rank(S, k)] = k
  BY AscendingLists
<1>2. c \in Nat
  BY Counted
<1> HIDE DEF c
<1>3. h \in [1 .. c -> T]
  BY <1>1
<1>4. \A i, j \in 1 .. c : i < j => h[i] < h[j]
  BY <1>1
<1>5. \A t \in T : \E i \in 1 .. c : h[i] = t
  BY <1>1
<1>6. Cardinality(T) = c /\ h = Ascending(T)
  <2> HIDE DEF h
  <2> QED BY <1>2, <1>3, <1>4, <1>5, OnlyAscending
<1>7. \A i \in 1 .. c : other[h[i]] = list[Ascending(S)[i]]
  BY <1>1
<1> QED BY <1>6, <1>7 DEF Filtered, c

\* A list that is filtered for one more, later element.
LEMMA FilteredMore ==
  ASSUME NEW m \in Nat, NEW S \in Indexes(m), NEW k \in 1 .. m, \A l \in S : l < k, NEW list
  PROVE  Filtered(list, S \union {k}) = Append(Filtered(list, S), list[k])
<1> DEFINE c == Cardinality(S)
           T == S \union {k}
           h == [n \in 1 .. c + 1 |-> IF n = c + 1 THEN k ELSE Ascending(S)[n]]
<1>1. /\ Ascending(S) \in [1 .. c -> S]
      /\ \A n, p \in 1 .. c : n < p => Ascending(S)[n] < Ascending(S)[p]
      /\ \A l \in S : Rank(S, l) \in 1 .. c /\ Ascending(S)[Rank(S, l)] = l
  BY AscendingLists
<1>2. c \in Nat
  BY Counted
<1>3. T \in Indexes(m)
  BY DEF Indexes
<1> HIDE DEF c, T
<1>4. h \in [1 .. c + 1 -> T]
  BY <1>1, <1>2 DEF T
<1>5. ASSUME NEW n \in 1 .. c + 1, NEW p \in 1 .. c + 1, n < p PROVE h[n] < h[p]
  <2>1. n \in 1 .. c /\ n # c + 1 /\ h[n] = Ascending(S)[n] /\ Ascending(S)[n] \in S
    BY <1>1, <1>2, <1>5
  <2>2. CASE p = c + 1
    BY <2>1, <2>2
  <2>3. CASE p # c + 1
    <3>1. p \in 1 .. c
      BY <1>2, <2>3
    <3> QED BY <1>1, <1>5, <2>1, <2>3, <3>1
  <2> QED BY <2>2, <2>3
<1>6. ASSUME NEW l \in T PROVE \E n \in 1 .. c + 1 : h[n] = l
  <2>1. CASE l = k
    <3>1. c + 1 \in 1 .. c + 1
      BY <1>2
    <3> QED BY <2>1, <3>1
  <2>2. CASE l # k
    <3>1. l \in S
      BY <2>2 DEF T
    <3>2. Rank(S, l) \in 1 .. c /\ Ascending(S)[Rank(S, l)] = l
      BY <1>1, <3>1
    <3>3. Rank(S, l) \in 1 .. c + 1 /\ Rank(S, l) # c + 1
      BY <1>2, <3>2
    <3> QED BY <3>2, <3>3
  <2> QED BY <2>1, <2>2
<1>7. Cardinality(T) = c + 1 /\ h = Ascending(T)
  <2>1. c + 1 \in Nat
    BY <1>2
  <2> HIDE DEF h
  <2> QED BY <1>3, <1>4, <1>5, <1>6, <2>1, OnlyAscending
<1> DEFINE V == {list[l] : l \in T}
           s == Filtered(list, S)
           t == Filtered(list, T)
<1>8. s = [n \in 1 .. c |-> list[Ascending(S)[n]]]
  BY DEF Filtered, c
<1>9. t = [n \in 1 .. c + 1 |-> list[h[n]]]
  BY <1>7 DEF Filtered
<1>10. \A n \in 1 .. c : Ascending(S)[n] \in T
  BY <1>1 DEF T
<1>11. s \in Seq(V) /\ Len(s) = c
  BY <1>2, <1>8, <1>10
<1>12. list[k] \in V
  BY DEF T
<1> HIDE DEF s, t, V
<1>13. Append(s, list[k]) = [n \in 1 .. c + 1 |-> IF n = c + 1 THEN list[k] ELSE s[n]]
  <2>1. Append(s, list[k]) \in Seq(V) /\ Len(Append(s, list[k])) = c + 1
    BY <1>2, <1>11, <1>12
  <2>2. \A n \in 1 .. c : Append(s, list[k])[n] = s[n]
    BY <1>2, <1>11, <1>12
  <2>3. Append(s, list[k])[c + 1] = list[k]
    BY <1>2, <1>11, <1>12
  <2>4. \A n \in 1 .. c + 1 : Append(s, list[k])[n] = IF n = c + 1 THEN list[k] ELSE s[n]
    <3> SUFFICES ASSUME NEW n \in 1 .. c + 1
                 PROVE  Append(s, list[k])[n] = IF n = c + 1 THEN list[k] ELSE s[n]
      OBVIOUS
    <3>1. n = c + 1 \/ (n \in 1 .. c /\ n # c + 1)
      BY <1>2
    <3> QED BY <2>2, <2>3, <3>1
  <2>5. Append(s, list[k]) = [n \in 1 .. c + 1 |-> Append(s, list[k])[n]]
    BY <2>1
  <2> QED BY <2>4, <2>5
<1>14. ASSUME NEW n \in 1 .. c + 1 PROVE list[h[n]] = IF n = c + 1 THEN list[k] ELSE s[n]
  <2>1. CASE n = c + 1
    BY <2>1
  <2>2. CASE n # c + 1
    <3>1. n \in 1 .. c
      BY <1>2, <2>2
    <3> QED BY <1>8, <2>2, <3>1
  <2> QED BY <2>1, <2>2
<1>15. t = Append(s, list[k])
  <2> HIDE DEF h
  <2> QED BY <1>9, <1>13, <1>14
<1> QED BY <1>15 DEF s, t, T

\* A set of indexes is listed by Ascending.
ListsIt(S) ==
  /\ Ascending(S) \in [1 .. Cardinality(S) -> S] /\ Cardinality(S) \in Nat
  /\ \A k, l \in 1 .. Cardinality(S) : k < l => Ascending(S)[k] < Ascending(S)[l]

LEMMA AscendsIn == ASSUME NEW m \in Nat, NEW S \in Indexes(m) PROVE ListsIt(S)
BY AscendingLists, Counted DEF ListsIt

-----------------------------------------------------------------------------
(* Functions that are defined step by step.                                  *)

\* A value after each of n steps.
Forth(f, n, V, base, step) ==
  /\ f \in [0 .. n -> V] /\ f[0] = base
  /\ \A k \in 1 .. n : f[k] = step[k][f[k - 1]]

Back(f, n, V, base, step) ==
  /\ f \in [1 .. n + 1 -> V] /\ f[n + 1] = base
  /\ \A k \in 1 .. n : f[k] = step[k][f[k + 1]]

LEMMA Iterated ==
  ASSUME NEW n \in Nat, NEW V, NEW base \in V, NEW step \in [1 .. n -> [V -> V]]
  PROVE  \E f : Forth(f, n, V, base, step)
<1> DEFINE Steps(f, m) == f[0] = base /\ \A k \in 1 .. m : f[k] = step[k][f[k - 1]]
           Good == {m \in 0 .. n : \E f \in [0 .. m -> V] : Steps(f, m)}
<1>1. 0 \in Good
  <2> DEFINE first == [k \in 0 .. 0 |-> base]
  <2>1. first \in [0 .. 0 -> V] /\ first[0] = base
    OBVIOUS
  <2> HIDE DEF first
  <2>2. Steps(first, 0)
    BY <2>1
  <2>3. 0 \in 0 .. n
    OBVIOUS
  <2> QED BY <2>1, <2>2, <2>3
<1>2. ASSUME NEW m \in 0 .. n - 1, m \in Good PROVE m + 1 \in Good
  <2>1. PICK f \in [0 .. m -> V] : Steps(f, m)
    BY <1>2
  <2> DEFINE g == [k \in 0 .. m + 1 |-> IF k = m + 1 THEN step[m + 1][f[m]] ELSE f[k]]
  <2>2. m + 1 \in 1 .. n /\ m \in 0 .. m /\ m + 1 \in 0 .. n
    OBVIOUS
  <2>3. f[m] \in V /\ step[m + 1] \in [V -> V]
    BY <2>2
  <2>4. g \in [0 .. m + 1 -> V]
    BY <2>3
  <2>5. g[0] = base
    BY <2>1
  <2>6. ASSUME NEW k \in 1 .. m + 1 PROVE g[k] = step[k][g[k - 1]]
    <3>1. CASE k = m + 1
      BY <2>2, <3>1
    <3>2. CASE k # m + 1
      <4>1. k \in 1 .. m /\ k - 1 \in 0 .. m /\ k - 1 # m + 1
        BY <3>2
      <4> QED BY <2>1, <4>1
    <3> QED BY <3>1, <3>2
  <2> HIDE DEF g
  <2>7. \E h \in [0 .. m + 1 -> V] : Steps(h, m + 1)
    BY <2>4, <2>5, <2>6
  <2> QED BY <2>2, <2>7
<1> HIDE DEF Good
<1>3. 0 .. n \subseteq Good
  BY <1>1, <1>2, UpTo
<1>4. n \in Good
  BY <1>3
<1> QED BY <1>4 DEF Good, Forth

\* The same from the end.
LEMMA IteratedDown ==
  ASSUME NEW n \in Nat, NEW V, NEW base \in V, NEW step \in [1 .. n -> [V -> V]]
  PROVE  \E f : Back(f, n, V, base, step)
<1> DEFINE turned == [k \in 1 .. n |-> step[n + 1 - k]]
<1>1. turned \in [1 .. n -> [V -> V]]
  OBVIOUS
<1> HIDE DEF turned
<1>2. PICK f : Forth(f, n, V, base, turned)
  BY <1>1, Iterated
<1>3. f \in [0 .. n -> V] /\ f[0] = base /\ \A k \in 1 .. n : f[k] = turned[k][f[k - 1]]
  BY <1>2 DEF Forth
<1> USE DEF turned
<1> DEFINE g == [k \in 1 .. n + 1 |-> f[n + 1 - k]]
<1>4. g \in [1 .. n + 1 -> V] /\ g[n + 1] = base
  BY <1>3
<1>5. ASSUME NEW k \in 1 .. n PROVE g[k] = step[k][g[k + 1]]
  <2>1. n + 1 - k \in 1 .. n /\ n + 1 - (n + 1 - k) = k /\ (n + 1 - k) - 1 = n - k
    OBVIOUS
  <2>2. f[n + 1 - k] = step[k][f[n - k]]
    BY <1>3, <2>1
  <2>3. g[k] = f[n + 1 - k] /\ g[k + 1] = f[n - k]
    OBVIOUS
  <2> QED BY <2>2, <2>3
<1> HIDE DEF g
<1> QED BY <1>4, <1>5 DEF Back

\* A function with the domain S.
Over(f, S) == f = [k \in S |-> f[k]]

\* Two functions that go on alike from what is equal are equal.
LEMMA SameUp ==
  ASSUME NEW n \in Nat, NEW f, Over(f, 0 .. n), NEW g, Over(g, 0 .. n),
         f[0] = g[0], \A k \in 1 .. n : f[k - 1] = g[k - 1] => f[k] = g[k]
  PROVE  f = g
<1> DEFINE Good == {k \in 0 .. n : f[k] = g[k]}
<1>1. 0 \in Good
  OBVIOUS
<1>2. ASSUME NEW k \in 0 .. n - 1, k \in Good PROVE k + 1 \in Good
  <2>1. k + 1 \in 1 .. n /\ (k + 1) - 1 = k
    OBVIOUS
  <2> QED BY <1>2, <2>1
<1> HIDE DEF Good
<1>3. 0 .. n \subseteq Good
  BY <1>1, <1>2, UpTo
<1>4. \A k \in 0 .. n : f[k] = g[k]
  BY <1>3 DEF Good
<1>5. [k \in 0 .. n |-> f[k]] = [k \in 0 .. n |-> g[k]]
  BY <1>4
<1> QED BY <1>5, Zenon DEF Over

LEMMA SameDown ==
  ASSUME NEW n \in Nat, NEW f, Over(f, 1 .. n + 1), NEW g, Over(g, 1 .. n + 1),
         f[n + 1] = g[n + 1], \A k \in 1 .. n : f[k + 1] = g[k + 1] => f[k] = g[k]
  PROVE  f = g
<1> DEFINE Good == {k \in 0 .. n : f[n + 1 - k] = g[n + 1 - k]}
<1>1. 0 \in Good
  OBVIOUS
<1>2. ASSUME NEW k \in 0 .. n - 1, k \in Good PROVE k + 1 \in Good
  <2>1. n - k \in 1 .. n /\ (n - k) + 1 = n + 1 - k /\ n + 1 - (k + 1) = n - k
    OBVIOUS
  <2>2. f[n - k] = g[n - k]
    BY <1>2, <2>1
  <2> QED BY <2>1, <2>2
<1> HIDE DEF Good
<1>3. 0 .. n \subseteq Good
  BY <1>1, <1>2, UpTo
<1>4. ASSUME NEW k \in 1 .. n + 1 PROVE f[k] = g[k]
  <2>1. n + 1 - k \in 0 .. n /\ n + 1 - (n + 1 - k) = k
    OBVIOUS
  <2> QED BY <1>3, <2>1 DEF Good
<1>5. [k \in 1 .. n + 1 |-> f[k]] = [k \in 1 .. n + 1 |-> g[k]]
  BY <1>4
<1> QED BY <1>5, Zenon DEF Over

-----------------------------------------------------------------------------
(* LineDiff: the table.                                                      *)

LEMMA LargerIs ==
  ASSUME NEW x \in Nat, NEW y \in Nat
  PROVE  Larger(x, y) \in Nat /\ Larger(x, y) >= x /\ Larger(x, y) >= y
         /\ (x >= y => Larger(x, y) = x) /\ (y >= x => Larger(x, y) = y)
BY DEF Larger

Rows(b) == [1 .. Len(b) + 1 -> Nat]

LEMMA DpRowIs ==
  ASSUME NEW a, NEW b, Len(b) \in Nat, NEW i, NEW below \in Rows(b)
  PROVE  /\ DpRow(a, b, i, below) \in Rows(b)
         /\ DpRow(a, b, i, below)[Len(b) + 1] = 0
         /\ \A j \in 1 .. Len(b) :
              DpRow(a, b, i, below)[j] =
                IF a[i] = b[j] THEN below[j + 1] + 1
                ELSE Larger(below[j], DpRow(a, b, i, below)[j + 1])
<1> DEFINE n == Len(b)
           step == [j \in 1 .. n |-> [v \in Nat |->
                      IF a[i] = b[j] THEN below[j + 1] + 1 ELSE Larger(below[j], v)]]
           Is(f) == f = [j \in 1 .. n + 1 |->
                           IF j > n THEN 0
                           ELSE IF a[i] = b[j] THEN below[j + 1] + 1
                           ELSE Larger(below[j], f[j + 1])]
<1>1. ASSUME NEW j \in 1 .. n, NEW v \in Nat
      PROVE  (IF a[i] = b[j] THEN below[j + 1] + 1 ELSE Larger(below[j], v)) \in Nat
  <2>1. below[j + 1] \in Nat /\ below[j] \in Nat /\ below[j + 1] + 1 \in Nat
    BY DEF Rows
  <2>2. Larger(below[j], v) \in Nat
    BY <2>1, LargerIs
  <2> QED BY <2>1, <2>2
<1>2. step \in [1 .. n -> [Nat -> Nat]]
  BY <1>1
<1>3. PICK f : Back(f, n, Nat, 0, step)
  <2> HIDE DEF step
  <2>1. n \in Nat
    OBVIOUS
  <2> HIDE DEF n
  <2> QED BY <1>2, <2>1, IteratedDown
<1>33. f \in [1 .. n + 1 -> Nat] /\ f[n + 1] = 0 /\ \A j \in 1 .. n : f[j] = step[j][f[j + 1]]
  BY <1>3 DEF Back
<1>4. ASSUME NEW j \in 1 .. n
      PROVE  f[j] = IF a[i] = b[j] THEN below[j + 1] + 1 ELSE Larger(below[j], f[j + 1])
  <2>1. f[j + 1] \in Nat
    BY <1>33
  <2> QED BY <1>33, <2>1
<1>5. Is(f)
  BY <1>33, <1>4
<1> DEFINE row == CHOOSE g : Is(g)
<1>6. DpRow(a, b, i, below) = row \o <<>>
  BY DEF DpRow
<1>7. Is(row)
  <2> HIDE DEF Is
  <2> QED BY <1>5
<1> HIDE DEF row
<1>8. row = f
  <2>1. Over(row, 1 .. n + 1) /\ row[n + 1] = 0
    BY <1>7 DEF Over
  <2>2. ASSUME NEW j \in 1 .. n, f[j + 1] = row[j + 1] PROVE f[j] = row[j]
    BY <1>4, <1>7, <2>2 DEF Rows
  <2>3. n \in Nat
    OBVIOUS
  <2> HIDE DEF row, n
  <2>4. Over(f, 1 .. n + 1) /\ f[n + 1] = row[n + 1]
    BY <1>33, <2>1 DEF Over
  <2>5. f = row
    BY <2>1, <2>2, <2>3, <2>4, SameDown
  <2> QED BY <2>5
<1>9. f \in Seq(Nat)
  BY <1>33
<1>10. DpRow(a, b, i, below) = f
  BY <1>6, <1>8, <1>9
<1> QED BY <1>33, <1>4, <1>10 DEF Rows

\* The table, by rows and columns.
LEMMA CommonIs ==
  ASSUME NEW a, Len(a) \in Nat, NEW b, Len(b) \in Nat
  PROVE  /\ \A i \in 1 .. Len(a) + 1, j \in 1 .. Len(b) + 1 : Common(a, b)[i][j] \in Nat
         /\ \A j \in 1 .. Len(b) + 1 : Common(a, b)[Len(a) + 1][j] = 0
         /\ \A i \in 1 .. Len(a) + 1 : Common(a, b)[i][Len(b) + 1] = 0
         /\ \A i \in 1 .. Len(a), j \in 1 .. Len(b) :
              Common(a, b)[i][j] =
                IF a[i] = b[j] THEN Common(a, b)[i + 1][j + 1] + 1
                ELSE Larger(Common(a, b)[i + 1][j], Common(a, b)[i][j + 1])
<1> DEFINE m == Len(a)
           nothing == [j \in 1 .. Len(b) + 1 |-> 0]
           step == [i \in 1 .. m |-> [below \in Rows(b) |-> DpRow(a, b, i, below)]]
           Is(f) == f = [i \in 1 .. m + 1 |->
                           IF i > m THEN nothing ELSE DpRow(a, b, i, f[i + 1])]
           dp == Common(a, b)
<1>1. step \in [1 .. m -> [Rows(b) -> Rows(b)]]
  BY DpRowIs
<1>2. nothing \in Rows(b)
  BY DEF Rows
<1>3. PICK f : Back(f, m, Rows(b), nothing, step)
  <2> HIDE DEF step, nothing
  <2>1. m \in Nat
    OBVIOUS
  <2> HIDE DEF m
  <2> QED BY <1>1, <1>2, <2>1, IteratedDown
<1>4. /\ f \in [1 .. m + 1 -> Rows(b)] /\ f[m + 1] = nothing
      /\ \A i \in 1 .. m : f[i] = step[i][f[i + 1]]
  <2> HIDE DEF step, nothing, m
  <2> QED BY <1>3 DEF Back
<1>5. ASSUME NEW i \in 1 .. m PROVE f[i] = DpRow(a, b, i, f[i + 1])
  <2> HIDE DEF nothing
  <2>1. i + 1 \in 1 .. m + 1
    OBVIOUS
  <2>2. f[i + 1] \in Rows(b)
    BY <1>4, <2>1
  <2>3. step[i][f[i + 1]] = DpRow(a, b, i, f[i + 1])
    BY <2>2
  <2> HIDE DEF step
  <2> QED BY <1>4, <2>3
<1>6. Is(f)
  <2> HIDE DEF nothing, step
  <2> QED BY <1>4, <1>5
<1>7. dp = CHOOSE g : Is(g)
  BY DEF Common
<1>8. Is(dp)
  <2> HIDE DEF Is, dp
  <2> QED BY <1>6, <1>7
<1>9. dp = f
  <2> HIDE DEF dp, nothing, step
  <2>1. Over(dp, 1 .. m + 1) /\ dp[m + 1] = nothing
    BY <1>8 DEF Over
  <2>2. ASSUME NEW i \in 1 .. m, f[i + 1] = dp[i + 1] PROVE f[i] = dp[i]
    BY <1>5, <1>8, <2>2
  <2>3. m \in Nat
    OBVIOUS
  <2>4. Over(f, 1 .. m + 1) /\ f[m + 1] = dp[m + 1]
    BY <1>4, <2>1 DEF Over
  <2> HIDE DEF m
  <2>5. f = dp
    BY <2>1, <2>2, <2>3, <2>4, SameDown
  <2> QED BY <2>5
<1> HIDE DEF dp, step, Is
<1>10. ASSUME NEW i \in 1 .. m + 1 PROVE dp[i] \in Rows(b) /\ dp[i][Len(b) + 1] = 0
  <2>1. dp[i] \in Rows(b)
    BY <1>4, <1>9
  <2>2. CASE i = m + 1
    BY <1>4, <1>9, <2>2
  <2>3. CASE i # m + 1
    <3>1. i \in 1 .. m /\ i + 1 \in 1 .. m + 1
      BY <2>3
    <3>2. f[i] = DpRow(a, b, i, f[i + 1]) /\ f[i + 1] \in Rows(b)
      BY <1>4, <1>5, <3>1
    <3> QED BY <1>9, <3>2, <2>1, DpRowIs
  <2> QED BY <2>1, <2>2, <2>3
<1>11. ASSUME NEW i \in 1 .. m, NEW j \in 1 .. Len(b)
       PROVE  dp[i][j] = IF a[i] = b[j] THEN dp[i + 1][j + 1] + 1
                         ELSE Larger(dp[i + 1][j], dp[i][j + 1])
  <2>1. dp[i] = DpRow(a, b, i, dp[i + 1]) /\ dp[i + 1] \in Rows(b)
    BY <1>5, <1>9, <1>10
  <2> QED BY <2>1, DpRowIs
<1>12. \A i \in 1 .. m + 1, j \in 1 .. Len(b) + 1 : dp[i][j] \in Nat
  BY <1>10 DEF Rows
<1>13. \A j \in 1 .. Len(b) + 1 : dp[m + 1][j] = 0
  BY <1>4, <1>9
<1> QED BY <1>10, <1>11, <1>12, <1>13 DEF dp

\* No more lines are in common than are left.
LEMMA CommonAtMost ==
  ASSUME NEW a, Len(a) \in Nat, NEW b, Len(b) \in Nat,
         NEW i \in 1 .. Len(a) + 1, NEW j \in 1 .. Len(b) + 1
  PROVE  Common(a, b)[i][j] <= Len(a) + 1 - i
<1> DEFINE m == Len(a)
           n == Len(b)
           dp == Common(a, b)
           Bound(k) == \A x \in 1 .. m + 1, y \in 1 .. n + 1 :
                         x + y >= m + n + 2 - k => dp[x][y] <= m + 1 - x
           Good == {k \in 0 .. m + n : Bound(k)}
<1>0. m \in Nat /\ n \in Nat
  OBVIOUS
<1>dp. /\ \A x \in 1 .. m + 1, y \in 1 .. n + 1 : dp[x][y] \in Nat
       /\ \A y \in 1 .. n + 1 : dp[m + 1][y] = 0
       /\ \A x \in 1 .. m + 1 : dp[x][n + 1] = 0
       /\ \A x \in 1 .. m, y \in 1 .. n :
            dp[x][y] = IF a[x] = b[y] THEN dp[x + 1][y + 1] + 1 ELSE Larger(dp[x + 1][y], dp[x][y + 1])
  <2>1. \A x \in 1 .. m + 1, y \in 1 .. n + 1 : dp[x][y] \in Nat
    BY CommonIs
  <2>2. \A x \in 1 .. m + 1 : dp[x][n + 1] = 0
    BY CommonIs
  <2>3. \A y \in 1 .. n + 1 : dp[m + 1][y] = 0
    BY CommonIs
  <2>4. \A x \in 1 .. m, y \in 1 .. n :
          dp[x][y] = IF a[x] = b[y] THEN dp[x + 1][y + 1] + 1 ELSE Larger(dp[x + 1][y], dp[x][y + 1])
    BY CommonIs
  <2> HIDE DEF m, n, dp
  <2> QED BY <2>1, <2>2, <2>3, <2>4
<1> HIDE DEF m, n, dp
<1>1. 0 \in Good
  <2>1. ASSUME NEW x \in 1 .. m + 1, NEW y \in 1 .. n + 1, x + y >= m + n + 2 PROVE dp[x][y] <= m + 1 - x
    <3>1. x = m + 1
      BY <1>0, <2>1
    <3> QED BY <1>0, <1>dp, <3>1
  <2>2. Bound(0)
    BY <1>0, <2>1
  <2> QED BY <1>0, <2>2
<1>2. ASSUME NEW k \in 0 .. (m + n) - 1, k \in Good PROVE k + 1 \in Good
  <2>0. Bound(k)
    BY <1>2
  <2>1. ASSUME NEW x \in 1 .. m + 1, NEW y \in 1 .. n + 1, x + y >= m + n + 2 - (k + 1)
        PROVE  dp[x][y] <= m + 1 - x
    <3>1. CASE x = m + 1 \/ y = n + 1
      BY <1>0, <1>dp, <3>1
    <3>2. CASE x # m + 1 /\ y # n + 1
      <4>1. x \in 1 .. m /\ y \in 1 .. n /\ x + 1 \in 1 .. m + 1 /\ y + 1 \in 1 .. n + 1
        BY <1>0, <3>2
      <4>2. dp[x + 1][y + 1] <= m + 1 - (x + 1) /\ dp[x + 1][y] <= m + 1 - (x + 1) /\ dp[x][y + 1] <= m + 1 - x
        BY <1>0, <2>0, <2>1, <4>1
      <4>3. dp[x + 1][y + 1] \in Nat /\ dp[x + 1][y] \in Nat /\ dp[x][y + 1] \in Nat
        BY <1>dp, <4>1
      <4>4. dp[x][y] = IF a[x] = b[y] THEN dp[x + 1][y + 1] + 1 ELSE Larger(dp[x + 1][y], dp[x][y + 1])
        BY <1>dp, <4>1
      <4> QED BY <1>0, <4>2, <4>3, <4>4 DEF Larger
    <3> QED BY <3>1, <3>2
  <2>2. k + 1 \in 0 .. m + n
    BY <1>0
  <2> QED BY <2>1, <2>2
<1>3. m + n \in Nat
  BY <1>0
<1> HIDE DEF Good
<1>4. 0 .. m + n \subseteq Good
  BY <1>1, <1>2, <1>3, UpTo
<1>5. m + n \in Good
  BY <1>3, <1>4
<1>6. Bound(m + n)
  BY <1>5 DEF Good
<1>7. i \in 1 .. m + 1 /\ j \in 1 .. n + 1
  BY DEF m, n
<1>8. dp[i][j] <= m + 1 - i
  BY <1>0, <1>6, <1>7
<1> QED BY <1>8 DEF m, dp

\* All that is left of a is in what is left of b.
AllIn(a, b, i, j) == Common(a, b)[i][j] = Len(a) + 1 - i

\* It has the first line of b, or all of it is behind that.
LEMMA AllInGoesOn ==
  ASSUME NEW a, Len(a) \in Nat, NEW b, Len(b) \in Nat,
         NEW i \in 1 .. Len(a), NEW j \in 1 .. Len(b) + 1, AllIn(a, b, i, j)
  PROVE  /\ j <= Len(b)
         /\ a[i] = b[j] => AllIn(a, b, i + 1, j + 1)
         /\ a[i] # b[j] => AllIn(a, b, i, j + 1)
<1> DEFINE m == Len(a)
           n == Len(b)
           dp == Common(a, b)
<1>1. i \in 1 .. m + 1 /\ i + 1 \in 1 .. m + 1 /\ m \in Nat /\ n \in Nat
  OBVIOUS
<1>dp. /\ \A x \in 1 .. m + 1, y \in 1 .. n + 1 : dp[x][y] \in Nat
       /\ \A x \in 1 .. m + 1 : dp[x][n + 1] = 0
       /\ \A x \in 1 .. m, y \in 1 .. n :
            dp[x][y] = IF a[x] = b[y] THEN dp[x + 1][y + 1] + 1 ELSE Larger(dp[x + 1][y], dp[x][y + 1])
  <2>1. \A x \in 1 .. m + 1, y \in 1 .. n + 1 : dp[x][y] \in Nat
    BY CommonIs
  <2>2. \A x \in 1 .. m + 1 : dp[x][n + 1] = 0
    BY CommonIs
  <2>3. \A x \in 1 .. m, y \in 1 .. n :
          dp[x][y] = IF a[x] = b[y] THEN dp[x + 1][y + 1] + 1 ELSE Larger(dp[x + 1][y], dp[x][y + 1])
    BY CommonIs
  <2> HIDE DEF m, n, dp
  <2> QED BY <2>1, <2>2, <2>3
<1>2. dp[i][n + 1] = 0
  <2> HIDE DEF dp
  <2> QED BY <1>1, <1>dp
<1>3. dp[i][j] = m + 1 - i
  BY DEF AllIn
<1>4. j # n + 1
  <2> HIDE DEF m, n, dp
  <2>1. m + 1 - i > 0
    BY <1>1 DEF m
  <2> QED BY <1>2, <1>3, <2>1
<1>5. j \in 1 .. n /\ j + 1 \in 1 .. n + 1
  BY <1>4
<1>6. /\ dp[i][j] = IF a[i] = b[j] THEN dp[i + 1][j + 1] + 1 ELSE Larger(dp[i + 1][j], dp[i][j + 1])
      /\ dp[i + 1][j + 1] \in Nat /\ dp[i + 1][j] \in Nat /\ dp[i][j + 1] \in Nat
  <2> HIDE DEF dp
  <2>1. i \in 1 .. m
    OBVIOUS
  <2> HIDE DEF m, n
  <2> QED BY <1>1, <1>5, <1>dp, <2>1
<1>7. dp[i + 1][j] <= m + 1 - (i + 1) /\ dp[i][j + 1] <= m + 1 - i
  BY <1>1, <1>5, CommonAtMost
<1>8. i \in 1 .. m
  OBVIOUS
<1> HIDE DEF m, n, dp
<1>9. (a[i] = b[j] => dp[i + 1][j + 1] = m + 1 - (i + 1)) /\ (a[i] # b[j] => dp[i][j + 1] = m + 1 - i)
  BY <1>1, <1>3, <1>6, <1>7, <1>8 DEF Larger
<1> QED BY <1>5, <1>9 DEF AllIn, m, n, dp

LEMMA AllInEnds ==
  ASSUME NEW a, Len(a) \in Nat, NEW b, Len(b) \in Nat, NEW j \in 1 .. Len(b) + 1
  PROVE  AllIn(a, b, Len(a) + 1, j)
BY CommonIs DEF AllIn

LEMMA AllInBefore ==
  ASSUME NEW a, Len(a) \in Nat, NEW b, Len(b) \in Nat, NEW i \in 1 .. Len(a), NEW j \in 1 .. Len(b),
         \/ a[i] = b[j] /\ AllIn(a, b, i + 1, j + 1)
         \/ a[i] # b[j] /\ AllIn(a, b, i, j + 1)
  PROVE  AllIn(a, b, i, j)
<1> DEFINE m == Len(a)
           n == Len(b)
           dp == Common(a, b)
<1>1. /\ i \in 1 .. m + 1 /\ i + 1 \in 1 .. m + 1 /\ m \in Nat /\ j \in 1 .. n + 1 /\ j + 1 \in 1 .. n + 1
      /\ i \in 1 .. m
  OBVIOUS
<1>2. /\ dp[i][j] = IF a[i] = b[j] THEN dp[i + 1][j + 1] + 1 ELSE Larger(dp[i + 1][j], dp[i][j + 1])
      /\ dp[i + 1][j + 1] \in Nat /\ dp[i + 1][j] \in Nat /\ dp[i][j + 1] \in Nat
  BY <1>1, CommonIs
<1>3. dp[i + 1][j] <= m + 1 - (i + 1)
  BY <1>1, CommonAtMost
<1>4. \/ a[i] = b[j] /\ dp[i + 1][j + 1] = m + 1 - (i + 1)
      \/ a[i] # b[j] /\ dp[i][j + 1] = m + 1 - i
  BY DEF AllIn
<1> HIDE DEF m, n, dp
<1>5. dp[i][j] = m + 1 - i
  BY <1>1, <1>2, <1>3, <1>4 DEF Larger
<1> QED BY <1>5 DEF AllIn, m, dp

\* A text whose lines are lines of another one, in their order, is in it.
LEMMA EmbeddedIsIn ==
  ASSUME NEW a, Len(a) \in Nat, NEW b, Len(b) \in Nat, NEW e \in [1 .. Len(a) -> 1 .. Len(b)],
         \A k \in 1 .. Len(a) : b[e[k]] = a[k],
         \A k, l \in 1 .. Len(a) : k < l => e[k] < e[l]
  PROVE  AllIn(a, b, 1, 1)
<1> DEFINE m == Len(a)
           n == Len(b)
           In(y) == \A x \in 1 .. m : e[x] >= y => AllIn(a, b, x, y)
           Good == {k \in 0 .. n : In(n + 1 - k)}
<1>0. m \in Nat /\ n \in Nat /\ \A x \in 1 .. m : e[x] \in 1 .. n
  OBVIOUS
<1>1. 0 \in Good
  BY <1>0
<1>2. ASSUME NEW k \in 0 .. n - 1, k \in Good PROVE k + 1 \in Good
  <2> DEFINE y == n - k
  <2>1. y \in 1 .. n /\ n + 1 - k = y + 1 /\ n + 1 - (k + 1) = y /\ k + 1 \in 0 .. n
    OBVIOUS
  <2>2. In(y + 1)
    BY <1>2, <2>1
  <2> HIDE DEF y
  <2>3. ASSUME NEW x \in 1 .. m, e[x] >= y PROVE AllIn(a, b, x, y)
    <3>1. CASE a[x] = b[y]
      <4>1. AllIn(a, b, x + 1, y + 1)
        <5>1. CASE x = m
          <6>1. y + 1 \in 1 .. n + 1
            BY <2>1
          <6> QED BY <5>1, <6>1, AllInEnds
        <5>2. CASE x # m
          <6>1. x + 1 \in 1 .. m /\ x < x + 1
            BY <5>2
          <6>2. e[x] < e[x + 1] /\ e[x] \in Int /\ e[x + 1] \in Int
            BY <6>1
          <6>3. e[x + 1] >= y + 1
            BY <2>1, <2>3, <6>2
          <6> QED BY <2>2, <6>1, <6>3
        <5> QED BY <5>1, <5>2
      <4> QED BY <2>1, <3>1, <4>1, AllInBefore
    <3>2. CASE a[x] # b[y]
      <4>1. e[x] # y
        BY <3>2
      <4>2. e[x] >= y + 1
        BY <1>0, <2>1, <2>3, <4>1
      <4>3. AllIn(a, b, x, y + 1)
        BY <2>2, <4>2
      <4> QED BY <2>1, <3>2, <4>3, AllInBefore
    <3> QED BY <3>1, <3>2
  <2> QED BY <2>1, <2>3
<1> HIDE DEF Good
<1>3. 0 .. n \subseteq Good
  BY <1>1, <1>2, UpTo
<1>4. In(1)
  <2>1. n \in Good /\ n + 1 - n = 1
    BY <1>3
  <2> QED BY <2>1 DEF Good
<1>5. CASE m = 0
  <2>1. AllIn(a, b, m + 1, 1)
    BY AllInEnds
  <2> QED BY <1>5, <2>1
<1>6. CASE m # 0
  <2>1. 1 \in 1 .. m /\ e[1] >= 1
    BY <1>0, <1>6
  <2> QED BY <1>4, <2>1
<1> QED BY <1>5, <1>6
=============================================================================
