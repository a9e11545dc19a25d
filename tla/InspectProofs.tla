--------------------------- MODULE InspectProofs ----------------------------
(***************************************************************************)
(* When an honest crate is not accused, and which differences are shown    *)
(* with a shortest diff, for any artifacts, trees, manifests and           *)
(* directories.                                                            *)
(***************************************************************************)
EXTENDS Inspect, ListProofs

-----------------------------------------------------------------------------
(* LineDiff: the walk along the table.                                       *)

Places == [i : Nat, j : Nat]

SignAt(a, b, dp, p) == Sign(a, b, dp, p.i, p.j)
After(a, b, dp, p) == [i |-> IF SignAt(a, b, dp, p) = OnlyB THEN p.i ELSE p.i + 1,
                       j |-> IF SignAt(a, b, dp, p) = OnlyA THEN p.j ELSE p.j + 1]

LEMMA WalkIs ==
  ASSUME NEW a, Len(a) \in Nat, NEW b, Len(b) \in Nat, NEW dp
  PROVE  /\ Walk(a, b, dp) \in [0 .. Len(a) + Len(b) -> Places]
         /\ Walk(a, b, dp)[0] = [i |-> 1, j |-> 1]
         /\ \A k \in 1 .. Len(a) + Len(b) :
              Walk(a, b, dp)[k] = After(a, b, dp, Walk(a, b, dp)[k - 1])
<1> DEFINE n == Len(a) + Len(b)
           start == [i |-> 1, j |-> 1]
           step == [k \in 1 .. n |-> [p \in Places |-> After(a, b, dp, p)]]
           Is(f) == f = [k \in 0 .. n |-> IF k = 0 THEN start ELSE After(a, b, dp, f[k - 1])]
           place == Walk(a, b, dp)
<1>1. \A p \in Places : After(a, b, dp, p) \in Places
  BY DEF After, Places
<1>2. step \in [1 .. n -> [Places -> Places]]
  BY <1>1
<1>3. start \in Places
  BY DEF Places
<1>4. PICK f : Forth(f, n, Places, start, step)
  <2> HIDE DEF step, start
  <2>1. n \in Nat
    OBVIOUS
  <2> HIDE DEF n
  <2> QED BY <1>2, <1>3, <2>1, Iterated
<1>5. /\ f \in [0 .. n -> Places] /\ f[0] = start
      /\ \A k \in 1 .. n : f[k] = step[k][f[k - 1]]
  <2> HIDE DEF step, start, n
  <2> QED BY <1>4 DEF Forth
<1>6. ASSUME NEW k \in 1 .. n PROVE f[k] = After(a, b, dp, f[k - 1])
  <2> HIDE DEF start
  <2>1. k - 1 \in 0 .. n
    OBVIOUS
  <2>2. f[k - 1] \in Places
    BY <1>5, <2>1
  <2>3. step[k][f[k - 1]] = After(a, b, dp, f[k - 1])
    BY <2>2
  <2> HIDE DEF step
  <2> QED BY <1>5, <2>3
<1>7. Is(f)
  <2> HIDE DEF start, step
  <2>1. \A k \in 0 .. n : f[k] = IF k = 0 THEN start ELSE After(a, b, dp, f[k - 1])
    BY <1>5, <1>6
  <2> QED BY <1>5, <2>1
<1>8. place = CHOOSE g : Is(g)
  BY DEF Walk, After, SignAt
<1>9. Is(place)
  <2> HIDE DEF Is, place
  <2> QED BY <1>7, <1>8
<1>10. place = f
  <2> HIDE DEF place, start, step
  <2>1. Over(place, 0 .. n) /\ place[0] = start
    BY <1>9 DEF Over
  <2>2. ASSUME NEW k \in 1 .. n, f[k - 1] = place[k - 1] PROVE f[k] = place[k]
    BY <1>6, <1>9, <2>2
  <2>3. n \in Nat
    OBVIOUS
  <2>4. Over(f, 0 .. n) /\ f[0] = place[0]
    BY <1>5, <2>1 DEF Over
  <2> HIDE DEF n
  <2>5. f = place
    BY <2>1, <2>2, <2>3, <2>4, SameUp
  <2> QED BY <2>5
<1> HIDE DEF step, Is
<1> QED BY <1>5, <1>6, <1>10 DEF place

LEMMA Signs == OnlyA # OnlyB /\ InBoth # OnlyA /\ InBoth # OnlyB
BY DEF OnlyA, OnlyB, InBoth

Path(a, b) == Walk(a, b, Common(a, b))
OfA(a, b, k) == Path(a, b)[k].i
OfB(a, b, k) == Path(a, b)[k].j
SignOf(a, b, k) == Sign(a, b, Common(a, b), OfA(a, b, k - 1), OfB(a, b, k - 1))

LEMMA PlacesAre ==
  ASSUME NEW a, Len(a) \in Nat, NEW b, Len(b) \in Nat, NEW k \in 0 .. Len(a) + Len(b)
  PROVE  OfA(a, b, k) \in Nat /\ OfB(a, b, k) \in Nat
<1>1. Path(a, b)[k] \in Places
  BY WalkIs DEF Path
<1> QED BY <1>1 DEF Places, OfA, OfB

LEMMA StartIs ==
  ASSUME NEW a, Len(a) \in Nat, NEW b, Len(b) \in Nat
  PROVE  OfA(a, b, 0) = 1 /\ OfB(a, b, 0) = 1
BY WalkIs DEF Path, OfA, OfB

\* A step passes a line of a, one of b, or one of both.
LEMMA StepIs ==
  ASSUME NEW a, Len(a) \in Nat, NEW b, Len(b) \in Nat, NEW k \in 1 .. Len(a) + Len(b)
  PROVE  /\ SignOf(a, b, k) \in {InBoth, OnlyA, OnlyB}
         /\ OfA(a, b, k) = IF SignOf(a, b, k) = OnlyB THEN OfA(a, b, k - 1) ELSE OfA(a, b, k - 1) + 1
         /\ OfB(a, b, k) = IF SignOf(a, b, k) = OnlyA THEN OfB(a, b, k - 1) ELSE OfB(a, b, k - 1) + 1
<1> DEFINE p == Path(a, b)[k - 1]
<1>1. Path(a, b)[k] = After(a, b, Common(a, b), p)
  BY WalkIs DEF Path
<1>2. SignAt(a, b, Common(a, b), p) = SignOf(a, b, k)
  BY DEF SignAt, SignOf, OfA, OfB
<1>3. SignOf(a, b, k) \in {InBoth, OnlyA, OnlyB}
  BY DEF SignOf, Sign
<1> HIDE DEF p
<1>4. /\ Path(a, b)[k].i = IF SignOf(a, b, k) = OnlyB THEN p.i ELSE p.i + 1
      /\ Path(a, b)[k].j = IF SignOf(a, b, k) = OnlyA THEN p.j ELSE p.j + 1
  BY <1>1, <1>2 DEF After
<1> QED BY <1>3, <1>4 DEF p, OfA, OfB

\* It never goes back, and every step goes on.
LEMMA GoesOn ==
  ASSUME NEW a, Len(a) \in Nat, NEW b, Len(b) \in Nat,
         NEW l \in 0 .. Len(a) + Len(b), NEW k \in 0 .. l
  PROVE  /\ OfA(a, b, k) <= OfA(a, b, l) /\ OfB(a, b, k) <= OfB(a, b, l)
         /\ OfA(a, b, k) + OfB(a, b, k) + (l - k) <= OfA(a, b, l) + OfB(a, b, l)
<1> DEFINE n == Len(a) + Len(b)
           i(h) == OfA(a, b, h)
           j(h) == OfB(a, b, h)
           Ahead(h, g) == i(h) <= i(g) /\ j(h) <= j(g) /\ i(h) + j(h) + (g - h) <= i(g) + j(g)
           Good == {g \in 0 .. n : \A h \in 0 .. g : Ahead(h, g)}
<1>1. \A h \in 0 .. n : i(h) \in Nat /\ j(h) \in Nat
  BY PlacesAre
<1>2. 0 \in Good
  BY <1>1
<1>3. ASSUME NEW g \in 0 .. n - 1, g \in Good PROVE g + 1 \in Good
  <2>1. g + 1 \in 1 .. n /\ g + 1 \in 0 .. n /\ (g + 1) - 1 = g /\ g \in 0 .. n
    OBVIOUS
  <2>2. i(g) <= i(g + 1) /\ j(g) <= j(g + 1) /\ i(g) + j(g) + 1 <= i(g + 1) + j(g + 1)
    <3> DEFINE sign == SignOf(a, b, g + 1)
    <3>1. /\ sign \in {InBoth, OnlyA, OnlyB}
          /\ i(g + 1) = IF sign = OnlyB THEN i(g) ELSE i(g) + 1
          /\ j(g + 1) = IF sign = OnlyA THEN j(g) ELSE j(g) + 1
      BY <2>1, StepIs
    <3>2. i(g) \in Nat /\ j(g) \in Nat
      BY <1>1, <2>1
    <3> HIDE DEF i, j, sign
    <3> QED BY <3>1, <3>2, Signs
  <2>3. ASSUME NEW h \in 0 .. g + 1 PROVE Ahead(h, g + 1)
    <3>1. CASE h = g + 1
      <4> HIDE DEF i, j
      <4> QED BY <1>1, <2>1, <3>1
    <3>2. CASE h # g + 1
      <4>1. h \in 0 .. g /\ h \in 0 .. n
        BY <3>2
      <4>2. Ahead(h, g)
        BY <1>3, <4>1
      <4>3. i(h) \in Nat /\ j(h) \in Nat /\ i(g) \in Nat /\ j(g) \in Nat
            /\ i(g + 1) \in Nat /\ j(g + 1) \in Nat
        BY <1>1, <2>1, <4>1
      <4> HIDE DEF i, j
      <4> QED BY <2>2, <4>1, <4>2, <4>3
    <3> QED BY <3>1, <3>2
  <2> QED BY <2>1, <2>3
<1> HIDE DEF Good, Ahead, n
<1>4. n \in Nat
  BY DEF n
<1>5. 0 .. n \subseteq Good
  BY <1>2, <1>3, <1>4, UpTo
<1>6. Ahead(k, l)
  BY <1>5 DEF Good, n
<1> QED BY <1>6 DEF Ahead

\* It comes to the end of both.
LEMMA Arrives ==
  ASSUME NEW a, Len(a) \in Nat, NEW b, Len(b) \in Nat
  PROVE  \E k \in 0 .. Len(a) + Len(b) : OfA(a, b, k) = Len(a) + 1 /\ OfB(a, b, k) = Len(b) + 1
<1> DEFINE m == Len(a)
           n == Len(b)
           i(h) == OfA(a, b, h)
           j(h) == OfB(a, b, h)
           There(h) == i(h) = m + 1 /\ j(h) = n + 1
           Within(h) == i(h) <= m + 1 /\ j(h) <= n + 1
<1> SUFFICES ASSUME \A h \in 0 .. m + n : ~There(h)
             PROVE  FALSE
  OBVIOUS
<1> DEFINE Good == {h \in 0 .. m + n : Within(h)}
<1>1. \A h \in 0 .. m + n : i(h) \in Nat /\ j(h) \in Nat
  BY PlacesAre
<1>2. 0 \in Good
  BY StartIs
<1>3. ASSUME NEW h \in 0 .. m + n - 1, h \in Good PROVE h + 1 \in Good
  <2> DEFINE sign == SignOf(a, b, h + 1)
  <2>1. h + 1 \in 1 .. m + n /\ h + 1 \in 0 .. m + n /\ (h + 1) - 1 = h /\ h \in 0 .. m + n
    OBVIOUS
  <2>2. /\ sign \in {InBoth, OnlyA, OnlyB}
        /\ i(h + 1) = IF sign = OnlyB THEN i(h) ELSE i(h) + 1
        /\ j(h + 1) = IF sign = OnlyA THEN j(h) ELSE j(h) + 1
    BY <2>1, StepIs
  <2>3. sign = Sign(a, b, Common(a, b), i(h), j(h))
    BY <2>1 DEF SignOf
  <2>4. i(h) \in Nat /\ j(h) \in Nat /\ i(h) <= m + 1 /\ j(h) <= n + 1 /\ ~There(h)
    BY <1>1, <1>3, <2>1
  <2> HIDE DEF sign
  <2>5. sign = OnlyB => j(h) <= n
    BY <2>3, <2>4, Signs DEF Sign
  <2>6. sign # OnlyB => i(h) <= m
    BY <2>3, <2>4, Signs DEF Sign
  <2>7. sign = InBoth => j(h) <= n
    BY <2>3, <2>4, Signs DEF Sign
  <2> HIDE DEF i, j
  <2>8. Within(h + 1)
    BY <2>2, <2>4, <2>5, <2>6, <2>7, Signs
  <2> QED BY <2>1, <2>8
<1>4. m + n \in Nat /\ m \in Nat /\ n \in Nat
  OBVIOUS
<1> HIDE DEF Good, Within, m, n, i, j
<1>5. 0 .. m + n \subseteq Good
  BY <1>2, <1>3, <1>4, UpTo
<1>6. Within(m + n)
  BY <1>4, <1>5 DEF Good
<1>7. i(0) = 1 /\ j(0) = 1
  BY StartIs DEF i, j
<1>8. i(0) + j(0) + (m + n - 0) <= i(m + n) + j(m + n)
  <2>1. m + n \in 0 .. m + n /\ 0 \in 0 .. m + n
    BY <1>4
  <2> QED BY <2>1, GoesOn DEF i, j, m, n
<1>9. i(m + n) \in Nat /\ j(m + n) \in Nat
  BY <1>1, <1>4
<1>10. i(m + n) = m + 1 /\ j(m + n) = n + 1
  BY <1>4, <1>6, <1>7, <1>8, <1>9 DEF Within
<1> QED BY <1>4, <1>10

LEMMA OpsAre ==
  ASSUME NEW a, Len(a) \in Nat, NEW b, Len(b) \in Nat
  PROVE  \E c \in 0 .. Len(a) + Len(b) :
           /\ OfA(a, b, c) = Len(a) + 1 /\ OfB(a, b, c) = Len(b) + 1
           /\ diffOps(a, b) =
                [k \in 1 .. c |->
                   <<SignOf(a, b, k), IF SignOf(a, b, k) = OnlyB THEN b[OfB(a, b, k - 1)]
                                      ELSE a[OfA(a, b, k - 1)]>>]
<1> DEFINE end == [i |-> Len(a) + 1, j |-> Len(b) + 1]
           N == 0 .. Len(a) + Len(b)
           c == CHOOSE k \in N : Path(a, b)[k] = end
<1>1. DOMAIN Path(a, b) = N
  BY WalkIs DEF Path
<1>2. \A k \in N : Path(a, b)[k] \in Places
  BY WalkIs DEF Path
<1>3. PICK k \in N : OfA(a, b, k) = Len(a) + 1 /\ OfB(a, b, k) = Len(b) + 1
  BY Arrives
<1>4. Path(a, b)[k] = end
  BY <1>2, <1>3 DEF OfA, OfB, Places
<1>5. c \in N /\ Path(a, b)[c] = end
  <2> HIDE DEF end, N
  <2> QED BY <1>4
<1>6. OfA(a, b, c) = Len(a) + 1 /\ OfB(a, b, c) = Len(b) + 1
  <2> HIDE DEF c
  <2> QED BY <1>5 DEF OfA, OfB
<1>7. diffOps(a, b) =
        [h \in 1 .. c |->
           <<SignOf(a, b, h), IF SignOf(a, b, h) = OnlyB THEN b[OfB(a, b, h - 1)]
                              ELSE a[OfA(a, b, h - 1)]>>]
  <2>1. c = CHOOSE h \in DOMAIN Path(a, b) : Path(a, b)[h] = end
    BY <1>1
  <2> HIDE DEF c
  <2> QED BY <2>1, Zenon DEF diffOps, SignOf, OfA, OfB, Path
<1> HIDE DEF c
<1> QED BY <1>5, <1>6, <1>7

\* Both sides are not yet at their ends before the last step, so there is a line to pass.
LEMMA Between ==
  ASSUME NEW a, Len(a) \in Nat, NEW b, Len(b) \in Nat,
         NEW c \in 0 .. Len(a) + Len(b),
         OfA(a, b, c) = Len(a) + 1, OfB(a, b, c) = Len(b) + 1,
         NEW k \in 1 .. c
  PROVE  /\ OfA(a, b, k - 1) \in 1 .. Len(a) + 1 /\ OfB(a, b, k - 1) \in 1 .. Len(b) + 1
         /\ SignOf(a, b, k) = OnlyB => OfB(a, b, k - 1) <= Len(b)
         /\ SignOf(a, b, k) # OnlyB => OfA(a, b, k - 1) <= Len(a)
         /\ SignOf(a, b, k) = InBoth =>
              OfB(a, b, k - 1) <= Len(b) /\ a[OfA(a, b, k - 1)] = b[OfB(a, b, k - 1)]
<1> DEFINE i == OfA(a, b, k - 1)
           j == OfB(a, b, k - 1)
           m == Len(a)
           n == Len(b)
<1>1. k - 1 \in 0 .. c /\ k - 1 \in 0 .. m + n /\ 0 \in 0 .. k - 1
  OBVIOUS
<1>2. i \in Nat /\ j \in Nat
  BY <1>1, PlacesAre
<1>3. i <= m + 1 /\ j <= n + 1 /\ i + j + (c - (k - 1)) <= (m + 1) + (n + 1)
  <2>1. /\ i <= OfA(a, b, c) /\ j <= OfB(a, b, c)
        /\ i + j + (c - (k - 1)) <= OfA(a, b, c) + OfB(a, b, c)
    BY <1>1, GoesOn
  <2> HIDE DEF i, j
  <2> QED BY <2>1
<1>4. 1 <= i /\ 1 <= j
  <2>1. OfA(a, b, 0) <= i /\ OfB(a, b, 0) <= j
    BY <1>1, GoesOn
  <2> QED BY <2>1, StartIs
<1>5. i <= m \/ j <= n
  <2> HIDE DEF i, j, m, n
  <2>1. m \in Nat /\ n \in Nat /\ c \in Nat /\ k \in Nat /\ k <= c
    BY DEF m, n
  <2> QED BY <1>2, <1>3, <2>1
<1>6. SignOf(a, b, k) = Sign(a, b, Common(a, b), i, j)
  BY DEF SignOf
<1>7. SignOf(a, b, k) = OnlyB => j <= n
  BY <1>2, <1>5, <1>6, Signs DEF Sign
<1>8. SignOf(a, b, k) # OnlyB => i <= m
  BY <1>2, <1>6, Signs DEF Sign
<1>9. SignOf(a, b, k) = InBoth => j <= n /\ a[i] = b[j]
  BY <1>2, <1>6, Signs DEF Sign
<1> QED BY <1>2, <1>3, <1>4, <1>7, <1>8, <1>9

\* What the rest can have in common goes down with every common line, and only with them.
LEMMA Score ==
  ASSUME NEW a, Len(a) \in Nat, NEW b, Len(b) \in Nat,
         NEW c \in 0 .. Len(a) + Len(b),
         OfA(a, b, c) = Len(a) + 1, OfB(a, b, c) = Len(b) + 1,
         NEW k \in 1 .. c
  PROVE  LET left(h) == Common(a, b)[OfA(a, b, h)][OfB(a, b, h)]
         IN  left(k - 1) = IF SignOf(a, b, k) = InBoth THEN left(k) + 1 ELSE left(k)
<1> DEFINE i == OfA(a, b, k - 1)
           j == OfB(a, b, k - 1)
           dp == Common(a, b)
           sign == SignOf(a, b, k)
           m == Len(a)
           n == Len(b)
<1>1. /\ i \in 1 .. m + 1 /\ j \in 1 .. n + 1
      /\ sign = OnlyB => j <= n
      /\ sign # OnlyB => i <= m
      /\ sign = InBoth => j <= n /\ a[i] = b[j]
  BY Between
<1>2. /\ sign \in {InBoth, OnlyA, OnlyB}
      /\ OfA(a, b, k) = IF sign = OnlyB THEN i ELSE i + 1
      /\ OfB(a, b, k) = IF sign = OnlyA THEN j ELSE j + 1
  BY StepIs
<1>3. /\ \A x \in 1 .. m + 1, y \in 1 .. n + 1 : dp[x][y] \in Nat
      /\ \A y \in 1 .. n + 1 : dp[m + 1][y] = 0
      /\ \A x \in 1 .. m + 1 : dp[x][n + 1] = 0
      /\ \A x \in 1 .. m, y \in 1 .. n :
           dp[x][y] = IF a[x] = b[y] THEN dp[x + 1][y + 1] + 1
                      ELSE Larger(dp[x + 1][y], dp[x][y + 1])
  BY CommonIs
<1>4. sign = Sign(a, b, dp, i, j)
  BY DEF SignOf
<1> HIDE DEF i, j, sign, dp
<1>5. CASE sign = InBoth
  <2>1. i \in 1 .. m /\ j \in 1 .. n /\ a[i] = b[j]
    BY <1>1, <1>5, Signs
  <2>2. dp[i][j] = dp[i + 1][j + 1] + 1
    BY <1>3, <2>1
  <2>3. OfA(a, b, k) = i + 1 /\ OfB(a, b, k) = j + 1
    BY <1>2, <1>5, Signs
  <2> QED BY <1>5, <2>2, <2>3 DEF i, j, dp, sign
<1>6. CASE sign = OnlyA
  <2>1. i \in 1 .. m /\ OfA(a, b, k) = i + 1 /\ OfB(a, b, k) = j
    BY <1>1, <1>2, <1>6, Signs
  <2>2. dp[i][j] = dp[i + 1][j]
    <3>1. CASE j = n + 1
      BY <1>3, <2>1, <3>1
    <3>2. CASE j # n + 1
      <4>1. j \in 1 .. n
        BY <1>1, <3>2
      <4>2. a[i] # b[j] /\ dp[i + 1][j] >= dp[i][j + 1]
        BY <1>4, <1>6, <2>1, <4>1, Signs DEF Sign
      <4>3. dp[i][j] = Larger(dp[i + 1][j], dp[i][j + 1])
        BY <1>3, <2>1, <4>1, <4>2
      <4> QED BY <4>2, <4>3 DEF Larger
    <3> QED BY <3>1, <3>2
  <2> QED BY <1>6, <2>1, <2>2, Signs DEF i, j, dp, sign
<1>7. CASE sign = OnlyB
  <2>1. j \in 1 .. n /\ OfA(a, b, k) = i /\ OfB(a, b, k) = j + 1
    BY <1>1, <1>2, <1>7, Signs
  <2>2. dp[i][j] = dp[i][j + 1]
    <3>1. CASE i = m + 1
      BY <1>3, <2>1, <3>1
    <3>2. CASE i # m + 1
      <4>1. i \in 1 .. m
        BY <1>1, <3>2
      <4>2. a[i] # b[j] /\ ~(dp[i + 1][j] >= dp[i][j + 1])
        BY <1>4, <1>7, <2>1, <4>1, Signs DEF Sign
      <4>3. dp[i][j] = Larger(dp[i + 1][j], dp[i][j + 1])
        BY <1>3, <2>1, <4>1, <4>2
      <4> QED BY <4>2, <4>3 DEF Larger
    <3> QED BY <3>1, <3>2
  <2> QED BY <1>7, <2>1, <2>2, Signs DEF i, j, dp, sign
<1> QED BY <1>2, <1>5, <1>6, <1>7

-----------------------------------------------------------------------------
(* The lines behind the signs.                                               *)

Chosen(sign, c, signs) == {k \in 1 .. c : sign[k] \in signs}

LEMMA SideIs ==
  ASSUME NEW c \in Nat, NEW sign, NEW line, NEW signs
  PROVE  /\ Side([k \in 1 .. c |-> <<sign[k], line[k]>>], signs)
              = Filtered(line, Chosen(sign, c, signs))
         /\ Chosen(sign, c, signs) \in Indexes(c)
<1> DEFINE ops == [k \in 1 .. c |-> <<sign[k], line[k]>>]
           S == Chosen(sign, c, signs)
           second == [k \in DOMAIN ops |-> ops[k][2]]
<1>1. S \in Indexes(c)
  BY DEF Chosen, Indexes
<1>2. {k \in DOMAIN ops : ops[k][1] \in signs} = S
  BY DEF Chosen
<1>3. \A k \in S : second[k] = line[k]
  BY DEF Chosen
<1>4. Ascending(S) \in [1 .. Cardinality(S) -> S]
  BY <1>1, AscendingLists
<1>5. Filtered(second, S) = Filtered(line, S)
  <2> HIDE DEF second, S
  <2> QED BY <1>3, <1>4 DEF Filtered
<1>6. Side(ops, signs) = Filtered(second, S)
  <2> HIDE DEF S
  <2> QED BY <1>2 DEF Side
<1> QED BY <1>1, <1>5, <1>6

\* The signs of one text's lines, and an index of it that moves with them: what is filtered
\* is the text.
LEMMA WholeSide ==
  ASSUME NEW c \in Nat, NEW sign, NEW line, NEW signs,
         NEW text, Over(text, 1 .. Len(text)), Len(text) \in Nat,
         NEW p \in [0 .. c -> Nat], p[0] = 1, p[c] = Len(text) + 1,
         \A k \in 1 .. c : IF sign[k] \in signs THEN p[k] = p[k - 1] + 1 /\ line[k] = text[p[k - 1]]
                           ELSE p[k] = p[k - 1]
  PROVE  Filtered(line, Chosen(sign, c, signs)) = text
<1> DEFINE S == Chosen(sign, c, signs)
           Good == {k \in 0 .. c : Rank(S, k) + 1 = p[k]}
<1>1. S \in Indexes(c) /\ \A k \in 1 .. c : k \in S <=> sign[k] \in signs
  BY DEF Chosen, Indexes
<1> HIDE DEF S
<1>2. 0 \in Good
  BY <1>1, RankEnds
<1>3. ASSUME NEW k \in 0 .. c - 1, k \in Good PROVE k + 1 \in Good
  <2>1. k + 1 \in 1 .. c /\ k + 1 \in 0 .. c /\ (k + 1) - 1 = k /\ k \in 0 .. c
    OBVIOUS
  <2>2. Rank(S, k + 1) = IF k + 1 \in S THEN Rank(S, k) + 1 ELSE Rank(S, k)
    BY <1>1, <2>1, RankSteps
  <2>3. p[k + 1] = IF k + 1 \in S THEN p[k] + 1 ELSE p[k]
    BY <1>1, <2>1
  <2>4. Rank(S, k) + 1 = p[k] /\ p[k] \in Nat
    BY <1>3, <2>1
  <2>5. Rank(S, k) \in Int
    BY <1>1, <2>1, Counted
  <2> QED BY <2>1, <2>2, <2>3, <2>4, <2>5
<1> HIDE DEF Good
<1>4. 0 .. c \subseteq Good
  BY <1>2, <1>3, UpTo
<1>5. \A k \in 0 .. c : Rank(S, k) + 1 = p[k]
  BY <1>4 DEF Good
<1>6. Cardinality(S) = Len(text)
  <2>1. Rank(S, c) = Cardinality(S) /\ Rank(S, c) + 1 = Len(text) + 1 /\ Cardinality(S) \in Nat
    BY <1>1, <1>5, RankEnds, Counted
  <2> QED BY <2>1
<1>7. ASSUME NEW r \in 1 .. Len(text) PROVE line[Ascending(S)[r]] = text[r]
  <2> DEFINE k == Ascending(S)[r]
  <2>1. k \in S /\ Rank(S, k) = r
    BY <1>1, <1>6, AscendingLists
  <2>2. k \in 1 .. c /\ k - 1 \in 0 .. c
    <3> HIDE DEF k
    <3> QED BY <1>1, <2>1 DEF Indexes
  <2> HIDE DEF k
  <2>3. p[k] = r + 1 /\ p[k - 1] \in Nat
    BY <1>5, <2>1, <2>2
  <2>4. p[k] = p[k - 1] + 1 /\ line[k] = text[p[k - 1]]
    BY <1>1, <2>1, <2>2
  <2>5. p[k - 1] = r
    BY <2>3, <2>4
  <2> QED BY <2>4, <2>5 DEF k
<1>8. Filtered(line, S) = [r \in 1 .. Len(text) |-> text[r]]
  BY <1>6, <1>7 DEF Filtered
<1> QED BY <1>8, Zenon DEF Over, S

\* The lines of each text are behind its signs, and there are as many common ones as the
\* table promises.
LEMMA SidesAre ==
  ASSUME NEW a, Over(a, 1 .. Len(a)), Len(a) \in Nat, NEW b, Over(b, 1 .. Len(b)), Len(b) \in Nat
  PROVE  /\ Side(diffOps(a, b), {InBoth, OnlyA}) = a
         /\ Side(diffOps(a, b), {InBoth, OnlyB}) = b
         /\ Len(Side(diffOps(a, b), {InBoth})) = Common(a, b)[1][1]
<1>1. PICK c \in 0 .. Len(a) + Len(b) :
        /\ OfA(a, b, c) = Len(a) + 1 /\ OfB(a, b, c) = Len(b) + 1
        /\ diffOps(a, b) =
             [k \in 1 .. c |->
                <<SignOf(a, b, k), IF SignOf(a, b, k) = OnlyB THEN b[OfB(a, b, k - 1)]
                                   ELSE a[OfA(a, b, k - 1)]>>]
  BY OpsAre
<1> DEFINE sign == [k \in 1 .. c |-> SignOf(a, b, k)]
           line == [k \in 1 .. c |-> IF SignOf(a, b, k) = OnlyB THEN b[OfB(a, b, k - 1)]
                                      ELSE a[OfA(a, b, k - 1)]]
           i == [k \in 0 .. c |-> OfA(a, b, k)]
           j == [k \in 0 .. c |-> OfB(a, b, k)]
           left == [k \in 0 .. c |-> Common(a, b)[OfA(a, b, k)][OfB(a, b, k)]]
<1>2. diffOps(a, b) = [k \in 1 .. c |-> <<sign[k], line[k]>>]
  <2>1. \A k \in 1 .. c :
          <<sign[k], line[k]>> =
            <<SignOf(a, b, k), IF SignOf(a, b, k) = OnlyB THEN b[OfB(a, b, k - 1)]
                               ELSE a[OfA(a, b, k - 1)]>>
    OBVIOUS
  <2> QED BY <1>1, <2>1
<1>3. c \in Nat
  OBVIOUS
<1>4. i \in [0 .. c -> Nat] /\ i[0] = 1 /\ i[c] = Len(a) + 1
  BY <1>1, PlacesAre, StartIs
<1>5. j \in [0 .. c -> Nat] /\ j[0] = 1 /\ j[c] = Len(b) + 1
  BY <1>1, PlacesAre, StartIs
<1>6. ASSUME NEW k \in 1 .. c
      PROVE  /\ sign[k] \in {InBoth, OnlyA, OnlyB}
             /\ i[k] = IF sign[k] = OnlyB THEN i[k - 1] ELSE i[k - 1] + 1
             /\ j[k] = IF sign[k] = OnlyA THEN j[k - 1] ELSE j[k - 1] + 1
             /\ line[k] = IF sign[k] = OnlyB THEN b[j[k - 1]] ELSE a[i[k - 1]]
             /\ sign[k] = InBoth => a[i[k - 1]] = b[j[k - 1]]
             /\ left[k - 1] = IF sign[k] = InBoth THEN left[k] + 1 ELSE left[k]
             /\ i[k - 1] \in 1 .. Len(a) + 1 /\ j[k - 1] \in 1 .. Len(b) + 1
  <2>1. k \in 1 .. Len(a) + Len(b) /\ k \in 0 .. c /\ k - 1 \in 0 .. c
    OBVIOUS
  <2>2. /\ SignOf(a, b, k) \in {InBoth, OnlyA, OnlyB}
        /\ OfA(a, b, k) = IF SignOf(a, b, k) = OnlyB THEN OfA(a, b, k - 1) ELSE OfA(a, b, k - 1) + 1
        /\ OfB(a, b, k) = IF SignOf(a, b, k) = OnlyA THEN OfB(a, b, k - 1) ELSE OfB(a, b, k - 1) + 1
    BY <2>1, StepIs
  <2>3. /\ OfA(a, b, k - 1) \in 1 .. Len(a) + 1 /\ OfB(a, b, k - 1) \in 1 .. Len(b) + 1
        /\ SignOf(a, b, k) = InBoth => a[OfA(a, b, k - 1)] = b[OfB(a, b, k - 1)]
    BY <1>1, Between
  <2>4. Common(a, b)[OfA(a, b, k - 1)][OfB(a, b, k - 1)] =
          IF SignOf(a, b, k) = InBoth THEN Common(a, b)[OfA(a, b, k)][OfB(a, b, k)] + 1
          ELSE Common(a, b)[OfA(a, b, k)][OfB(a, b, k)]
    BY <1>1, Score
  <2>5. /\ sign[k] = SignOf(a, b, k)
        /\ i[k] = OfA(a, b, k) /\ i[k - 1] = OfA(a, b, k - 1)
        /\ j[k] = OfB(a, b, k) /\ j[k - 1] = OfB(a, b, k - 1)
        /\ left[k] = Common(a, b)[OfA(a, b, k)][OfB(a, b, k)]
        /\ left[k - 1] = Common(a, b)[OfA(a, b, k - 1)][OfB(a, b, k - 1)]
        /\ line[k] = IF SignOf(a, b, k) = OnlyB THEN b[OfB(a, b, k - 1)]
                     ELSE a[OfA(a, b, k - 1)]
    BY <2>1
  <2> HIDE DEF sign, line, i, j, left
  <2> QED BY <2>2, <2>3, <2>4, <2>5
<1>7. left[0] = Common(a, b)[1][1] /\ left[c] = 0
  <2>1. Len(b) + 1 \in 1 .. Len(b) + 1
    OBVIOUS
  <2>2. Common(a, b)[Len(a) + 1][Len(b) + 1] = 0
    BY <2>1, CommonIs
  <2> QED BY <1>1, <2>2, StartIs
<1>8. \A k \in 0 .. c : left[k] \in Nat
  <2>1. ASSUME NEW k \in 0 .. c PROVE i[k] \in 1 .. Len(a) + 1 /\ j[k] \in 1 .. Len(b) + 1
    <3>1. CASE k = c
      <4> HIDE DEF i, j
      <4> QED BY <1>4, <1>5, <3>1
    <3>2. CASE k # c
      <4>1. k + 1 \in 1 .. c /\ (k + 1) - 1 = k
        BY <3>2
      <4> HIDE DEF i, j
      <4> QED BY <1>6, <4>1
    <3> QED BY <3>1, <3>2
  <2>2. \A k \in 0 .. c : left[k] = Common(a, b)[i[k]][j[k]]
    OBVIOUS
  <2>3. \A x \in 1 .. Len(a) + 1, y \in 1 .. Len(b) + 1 : Common(a, b)[x][y] \in Nat
    BY CommonIs
  <2> HIDE DEF left, i, j
  <2> QED BY <2>1, <2>2, <2>3
<1> HIDE DEF sign, line, i, j, left
<1>9. Side(diffOps(a, b), {InBoth, OnlyA}) = a
  <2>1. \A k \in 1 .. c : IF sign[k] \in {InBoth, OnlyA} THEN i[k] = i[k - 1] + 1 /\ line[k] = a[i[k - 1]]
                           ELSE i[k] = i[k - 1]
    BY <1>6, Signs
  <2>2. Filtered(line, Chosen(sign, c, {InBoth, OnlyA})) = a
    BY <1>3, <1>4, <2>1, WholeSide
  <2> QED BY <1>2, <1>3, <2>2, SideIs
<1>10. Side(diffOps(a, b), {InBoth, OnlyB}) = b
  <2>1. \A k \in 1 .. c : IF sign[k] \in {InBoth, OnlyB} THEN j[k] = j[k - 1] + 1 /\ line[k] = b[j[k - 1]]
                           ELSE j[k] = j[k - 1]
    BY <1>6, Signs
  <2>2. Filtered(line, Chosen(sign, c, {InBoth, OnlyB})) = b
    BY <1>3, <1>5, <2>1, WholeSide
  <2> QED BY <1>2, <1>3, <2>2, SideIs
<1>11. Len(Side(diffOps(a, b), {InBoth})) = Common(a, b)[1][1]
  <2> DEFINE S == Chosen(sign, c, {InBoth})
             Good == {k \in 0 .. c : Rank(S, k) + left[k] = left[0]}
  <2>1. S \in Indexes(c) /\ \A k \in 1 .. c : k \in S <=> sign[k] = InBoth
    BY DEF Chosen, Indexes
  <2>2. Side(diffOps(a, b), {InBoth}) = Filtered(line, S)
    BY <1>2, <1>3, SideIs
  <2> HIDE DEF S
  <2>3. 0 \in Good
    BY <1>3, <1>8, <2>1, RankEnds
  <2>4. ASSUME NEW k \in 0 .. c - 1, k \in Good PROVE k + 1 \in Good
    <3>1. k + 1 \in 1 .. c /\ k + 1 \in 0 .. c /\ (k + 1) - 1 = k /\ k \in 0 .. c
      OBVIOUS
    <3>2. Rank(S, k + 1) = IF k + 1 \in S THEN Rank(S, k) + 1 ELSE Rank(S, k)
      BY <1>3, <2>1, <3>1, RankSteps
    <3>3. left[k] = IF k + 1 \in S THEN left[k + 1] + 1 ELSE left[k + 1]
      BY <1>6, <2>1, <3>1
    <3>4. Rank(S, k) \in Int
      BY <1>3, <2>1, <3>1, Counted
    <3>5. left[k] \in Nat /\ left[k + 1] \in Nat /\ left[0] \in Nat
      BY <1>8, <3>1
    <3> QED BY <2>4, <3>1, <3>2, <3>3, <3>4, <3>5
  <2> HIDE DEF Good
  <2>5. 0 .. c \subseteq Good
    BY <1>3, <2>3, <2>4, UpTo
  <2>6. Rank(S, c) + left[c] = left[0]
    BY <1>3, <2>5 DEF Good
  <2>7. Cardinality(S) = Common(a, b)[1][1] /\ Cardinality(S) \in Nat
    BY <1>3, <1>7, <2>1, <2>6, RankEnds, Counted
  <2>8. Len(Filtered(line, S)) = Cardinality(S)
    BY <2>7 DEF Filtered
  <2> QED BY <2>2, <2>7, <2>8
<1> QED BY <1>9, <1>10, <1>11

-----------------------------------------------------------------------------
(* No longer choice of lines.                                                *)

\* h lists c indexes from i to m in ascending order.
Listing(h, c, i, m) ==
  h \in [1 .. c -> i .. m] /\ \A k, l \in 1 .. c : k < l => h[k] < h[l]

\* The lines of a from i on that f lists are those of b from j on that g lists.
Alike(a, b, i, j, c, f, g) ==
  /\ Listing(f, c, i, Len(a)) /\ Listing(g, c, j, Len(b))
  /\ \A k \in 1 .. c : a[f[k]] = b[g[k]]

Bounded(a, b, i, j) ==
  \A c \in Nat : \A f, g : Alike(a, b, i, j, c, f, g) => c <= Common(a, b)[i][j]

LEMMA WithoutFirst ==
  ASSUME NEW m \in Nat, NEW i \in Nat, NEW c \in Nat, c > 0, NEW h, Listing(h, c, i, m)
  PROVE  /\ Listing([k \in 1 .. c - 1 |-> h[k + 1]], c - 1, i + 1, m)
         /\ h[1] # i => Listing(h, c, i + 1, m)
<1> DEFINE t == [k \in 1 .. c - 1 |-> h[k + 1]]
<1>1. h \in [1 .. c -> i .. m] /\ \A k, l \in 1 .. c : k < l => h[k] < h[l]
  BY DEF Listing
<1>2. 1 \in 1 .. c /\ h[1] \in i .. m
  BY <1>1
<1>3. ASSUME NEW k \in 1 .. c, k # 1 PROVE h[k] \in i + 1 .. m
  <2>1. h[1] < h[k] /\ h[k] \in i .. m
    BY <1>1, <1>2, <1>3
  <2> QED BY <1>2, <2>1
<1>4. \A k \in 1 .. c - 1 : k + 1 \in 1 .. c /\ k + 1 # 1
  OBVIOUS
<1>5. t \in [1 .. c - 1 -> i + 1 .. m]
  BY <1>3, <1>4
<1>6. \A k, l \in 1 .. c - 1 : k < l => t[k] < t[l]
  BY <1>1, <1>4
<1>7. Listing(t, c - 1, i + 1, m)
  <2> HIDE DEF t
  <2> QED BY <1>5, <1>6 DEF Listing
<1>8. ASSUME h[1] # i PROVE Listing(h, c, i + 1, m)
  <2>1. h[1] \in i + 1 .. m
    BY <1>2, <1>8
  <2>2. h \in [1 .. c -> i + 1 .. m]
    BY <1>1, <1>3, <2>1
  <2> QED BY <1>1, <2>2 DEF Listing
<1> QED BY <1>7, <1>8

LEMMA BoundSteps ==
  ASSUME NEW a, Len(a) \in Nat, NEW b, Len(b) \in Nat,
         NEW i \in 1 .. Len(a) + 1, NEW j \in 1 .. Len(b) + 1,
         i <= Len(a) => Bounded(a, b, i + 1, j),
         j <= Len(b) => Bounded(a, b, i, j + 1),
         i <= Len(a) /\ j <= Len(b) => Bounded(a, b, i + 1, j + 1)
  PROVE  Bounded(a, b, i, j)
<1> DEFINE dp == Common(a, b)
           m == Len(a)
           n == Len(b)
<1> SUFFICES ASSUME NEW c \in Nat, NEW f, NEW g, Alike(a, b, i, j, c, f, g)
             PROVE  c <= dp[i][j]
  BY DEF Bounded
<1>0. m \in Nat /\ n \in Nat /\ i \in Nat /\ j \in Nat
  OBVIOUS
<1>1. \A x \in 1 .. m + 1, y \in 1 .. n + 1 : dp[x][y] \in Nat
  BY CommonIs
<1>5. ASSUME i \in 1 .. m, j \in 1 .. n
      PROVE  dp[i][j] = IF a[i] = b[j] THEN dp[i + 1][j + 1] + 1
                        ELSE Larger(dp[i + 1][j], dp[i][j + 1])
  BY <1>5, CommonIs
<1>2. Listing(f, c, i, m) /\ Listing(g, c, j, n) /\ \A k \in 1 .. c : a[f[k]] = b[g[k]]
  BY DEF Alike
<1> HIDE DEF dp
<1>3. CASE c = 0
  BY <1>1, <1>3
<1>4. CASE c # 0
  <2>1. 1 \in 1 .. c /\ f[1] \in i .. m /\ g[1] \in j .. n /\ c > 0
    BY <1>2, <1>4 DEF Listing
  <2>2. i \in 1 .. m /\ j \in 1 .. n
    BY <1>0, <2>1
  <2>3. dp[i + 1][j] \in Nat /\ dp[i][j + 1] \in Nat /\ dp[i + 1][j + 1] \in Nat
    <3>1. i + 1 \in 1 .. m + 1 /\ j + 1 \in 1 .. n + 1
      BY <1>0, <2>2
    <3> QED BY <1>1, <3>1
  <2>4. CASE a[i] = b[j]
    <3> DEFINE u == [k \in 1 .. c - 1 |-> f[k + 1]]
               v == [k \in 1 .. c - 1 |-> g[k + 1]]
    <3>1. Listing(u, c - 1, i + 1, m) /\ Listing(v, c - 1, j + 1, n)
      BY <1>0, <1>2, <2>1, WithoutFirst
    <3>2. \A k \in 1 .. c - 1 : k + 1 \in 1 .. c
      OBVIOUS
    <3>3. \A k \in 1 .. c - 1 : a[u[k]] = b[v[k]]
      BY <1>2, <3>2
    <3> HIDE DEF u, v
    <3>4. Alike(a, b, i + 1, j + 1, c - 1, u, v)
      BY <3>1, <3>3 DEF Alike
    <3>5. c - 1 \in Nat /\ Bounded(a, b, i + 1, j + 1)
      BY <2>1, <2>2
    <3>6. c - 1 <= dp[i + 1][j + 1]
      BY <3>4, <3>5 DEF Bounded, dp
    <3>7. dp[i][j] = dp[i + 1][j + 1] + 1
      BY <1>5, <2>2, <2>4
    <3> QED BY <2>3, <3>6, <3>7
  <2>5. CASE a[i] # b[j]
    <3>1. dp[i][j] = Larger(dp[i + 1][j], dp[i][j + 1])
      BY <1>5, <2>2, <2>5
    <3>2. dp[i][j] >= dp[i + 1][j] /\ dp[i][j] >= dp[i][j + 1] /\ dp[i][j] \in Nat
      <4> DEFINE x == dp[i + 1][j]
                 y == dp[i][j + 1]
      <4>1. x \in Nat /\ y \in Nat
        BY <2>3
      <4> HIDE DEF x, y
      <4>2. Larger(x, y) \in Nat /\ Larger(x, y) >= x /\ Larger(x, y) >= y
        BY <4>1, LargerIs
      <4> QED BY <3>1, <4>2 DEF x, y
    <3>3. f[1] # i \/ g[1] # j
      BY <1>2, <2>1, <2>5
    <3>4. CASE f[1] # i
      <4>1. Alike(a, b, i + 1, j, c, f, g)
        BY <1>0, <1>2, <2>1, <3>4, WithoutFirst DEF Alike
      <4>2. c <= dp[i + 1][j]
        BY <2>2, <4>1 DEF Bounded, dp
      <4> QED BY <2>3, <3>2, <4>2
    <3>5. CASE g[1] # j
      <4>1. Alike(a, b, i, j + 1, c, f, g)
        BY <1>0, <1>2, <2>1, <3>5, WithoutFirst DEF Alike
      <4>2. c <= dp[i][j + 1]
        BY <2>2, <4>1 DEF Bounded, dp
      <4> QED BY <2>3, <3>2, <4>2
    <3> QED BY <3>3, <3>4, <3>5
  <2> QED BY <2>4, <2>5
<1> QED BY <1>3, <1>4 DEF dp

LEMMA MostInCommon ==
  ASSUME NEW a, Len(a) \in Nat, NEW b, Len(b) \in Nat
  PROVE  Bounded(a, b, 1, 1)
<1> DEFINE m == Len(a)
           n == Len(b)
           All(d) == \A i \in 1 .. m + 1, j \in 1 .. n + 1 :
                       (m + 1 - i) + (n + 1 - j) <= d => Bounded(a, b, i, j)
           Good == {d \in 0 .. m + n : All(d)}
<1>1. 0 \in Good
  <2> SUFFICES ASSUME NEW i \in 1 .. m + 1, NEW j \in 1 .. n + 1, (m + 1 - i) + (n + 1 - j) <= 0
               PROVE  Bounded(a, b, i, j)
    OBVIOUS
  <2>1. ~(i <= m) /\ ~(j <= n)
    OBVIOUS
  <2> QED BY <2>1, BoundSteps
<1>2. ASSUME NEW d \in 0 .. m + n - 1, d \in Good PROVE d + 1 \in Good
  <2>1. All(d) /\ d + 1 \in 0 .. m + n
    BY <1>2
  <2> SUFFICES ASSUME NEW i \in 1 .. m + 1, NEW j \in 1 .. n + 1,
                      (m + 1 - i) + (n + 1 - j) <= d + 1
               PROVE  Bounded(a, b, i, j)
    BY <2>1
  <2>2. ASSUME i <= m PROVE Bounded(a, b, i + 1, j)
    <3>1. i + 1 \in 1 .. m + 1 /\ (m + 1 - (i + 1)) + (n + 1 - j) <= d
      BY <2>2
    <3> QED BY <2>1, <3>1
  <2>3. ASSUME j <= n PROVE Bounded(a, b, i, j + 1)
    <3>1. j + 1 \in 1 .. n + 1 /\ (m + 1 - i) + (n + 1 - (j + 1)) <= d
      BY <2>3
    <3> QED BY <2>1, <3>1
  <2>4. ASSUME i <= m, j <= n PROVE Bounded(a, b, i + 1, j + 1)
    <3>1. i + 1 \in 1 .. m + 1 /\ j + 1 \in 1 .. n + 1
          /\ (m + 1 - (i + 1)) + (n + 1 - (j + 1)) <= d
      BY <2>4
    <3> QED BY <2>1, <3>1
  <2> QED BY <2>2, <2>3, <2>4, BoundSteps
<1> HIDE DEF Good, All
<1>3. m + n \in Nat
  OBVIOUS
<1>4. 0 .. m + n \subseteq Good
  <2> DEFINE d == m + n
  <2>1. d \in Nat /\ \A h \in 0 .. d - 1 : h \in Good => h + 1 \in Good
    BY <1>2, <1>3
  <2> HIDE DEF d
  <2>2. 0 .. d \subseteq Good
    BY <1>1, <2>1, UpTo
  <2> QED BY <2>2 DEF d
<1>5. All(m + n)
  BY <1>3, <1>4 DEF Good
<1>6. 1 \in 1 .. m + 1 /\ 1 \in 1 .. n + 1 /\ (m + 1 - 1) + (n + 1 - 1) <= m + n
  OBVIOUS
<1> QED BY <1>5, <1>6 DEF All

\* diffOps makes a diff.
LEMMA DiffIs ==
  ASSUME NEW a, Over(a, 1 .. Len(a)), Len(a) \in Nat, NEW b, Over(b, 1 .. Len(b)), Len(b) \in Nat
  PROVE  IsDiff(diffOps(a, b), a, b)
<1>1. ASSUME NEW S \in SUBSET DOMAIN a, NEW T \in SUBSET DOMAIN b,
             Filtered(a, S) = Filtered(b, T)
      PROVE  Cardinality(S) <= Common(a, b)[1][1]
  <2> DEFINE c == Cardinality(S)
             f == Ascending(S)
             g == Ascending(T)
  <2>1. DOMAIN a = 1 .. Len(a) /\ DOMAIN b = 1 .. Len(b)
    BY Zenon DEF Over
  <2>2. S \in Indexes(Len(a)) /\ T \in Indexes(Len(b))
    BY <2>1 DEF Indexes
  <2>3. /\ f \in [1 .. c -> S] /\ g \in [1 .. Cardinality(T) -> T]
        /\ \A k, l \in 1 .. c : k < l => f[k] < f[l]
        /\ \A k, l \in 1 .. Cardinality(T) : k < l => g[k] < g[l]
        /\ c \in Nat /\ Cardinality(T) \in Nat
    <3>1. ListsIt(S)
      BY <2>2, AscendsIn
    <3>2. ListsIt(T)
      BY <2>2, AscendsIn
    <3>3. f \in [1 .. c -> S] /\ c \in Nat /\ \A k, l \in 1 .. c : k < l => f[k] < f[l]
      BY <3>1 DEF ListsIt
    <3>4. /\ g \in [1 .. Cardinality(T) -> T] /\ Cardinality(T) \in Nat
          /\ \A k, l \in 1 .. Cardinality(T) : k < l => g[k] < g[l]
      BY <3>2 DEF ListsIt
    <3> HIDE DEF c, f, g
    <3> QED BY <3>3, <3>4
  <2>4. Cardinality(T) = c
    <3>1. DOMAIN Filtered(a, S) = 1 .. c /\ DOMAIN Filtered(b, T) = 1 .. Cardinality(T)
      BY DEF Filtered
    <3>2. 1 .. c = 1 .. Cardinality(T)
      BY <1>1, <3>1
    <3> HIDE DEF c
    <3> QED BY <2>3, <3>2
  <2>5. \A k \in 1 .. c : Filtered(a, S)[k] = a[f[k]] /\ Filtered(b, T)[k] = b[g[k]]
    <3>1. \A k \in 1 .. c : k \in 1 .. Cardinality(T)
      BY <2>4
    <3> QED BY <3>1 DEF Filtered
  <2>6. Alike(a, b, 1, 1, c, f, g)
    <3> HIDE DEF c, f, g
    <3>1. Listing(f, c, 1, Len(a)) /\ Listing(g, c, 1, Len(b))
      BY <2>2, <2>3, <2>4 DEF Listing, Indexes
    <3> QED BY <1>1, <2>5, <3>1 DEF Alike
  <2> HIDE DEF c, f, g
  <2> QED BY <2>3, <2>6, MostInCommon DEF Bounded, c
<1>2. Minimal(diffOps(a, b), a, b)
  BY <1>1, SidesAre DEF Minimal
<1> QED BY <1>2, SidesAre DEF IsDiff

-----------------------------------------------------------------------------
(* Differ: where the crate is.                                               *)

\* Generated files are neither Rust files nor binaries.
LEMMA GeneratedAreQuiet ==
  ASSUME NEW rel, IsRust(rel) \/ IsBinary(rel) PROVE rel \notin AUTO_GENERATED
<1> SUFFICES ASSUME NEW file \in GeneratedNames, rel = <<file>> PROVE FALSE
  BY DEF AUTO_GENERATED
<1>1. rel[Len(rel)] = file
  OBVIOUS
<1> QED BY <1>1, DifferAssumption DEF IsRust, IsBinary

\* The directory with the crate's own manifest is a candidate.
LEMMA HomeIsCandidate ==
  ASSUME NEW git, NEW d \in Seq(STRING), gitKey(d, <<"Cargo.toml">>) \in DOMAIN git.files
  PROVE  d \in Candidates(git)
<1> DEFINE path == gitKey(d, <<"Cargo.toml">>)
<1> DEFINE file == "Cargo.toml"
           Names == STRING \union {file}
<1>1. path = d \o <<file>>
  BY DEF gitKey
<1> HIDE DEF file
<1>2. file \in Names /\ d \in Seq(Names)
  OBVIOUS
<1> HIDE DEF Names, path
<1>3. path = Append(d, file) /\ path \in Seq(Names)
  BY <1>1, <1>2, AppendIsConcat, AppendProperties
<1>4. Len(path) = Len(d) + 1 /\ path[Len(path)] = file
  BY <1>2, <1>3
<1>5. SubSeq(path, 1, Len(path) - 1) = d
  <2>1. Len(d) \in Nat /\ Len(path) - 1 = Len(d)
    BY <1>2, <1>4
  <2>2. SubSeq(path, 1, Len(d)) \in Seq(Names) /\ Len(SubSeq(path, 1, Len(d))) = Len(d)
    BY <1>2, <1>3, <1>4, <2>1
  <2>3. \A k \in 1 .. Len(d) : SubSeq(path, 1, Len(d))[k] = d[k]
    BY <1>2, <1>3, <1>4, <2>1
  <2> QED BY <1>2, <2>1, <2>2, <2>3, SeqEqual
<1> QED BY <1>4, <1>5 DEF Candidates, path, file

\* If all files that count are found from one candidate, they are from the one that is taken.
LEMMA AllFoundAtPrefix ==
  ASSUME NEW files, IsFiniteSet(DOMAIN files), NEW git, NEW d \in Candidates(git),
         comparableFiles(files) \subseteq InGit(files, git, d),
         NEW dir \in resolveGitPrefix(files, git)
  PROVE  comparableFiles(files) \subseteq InGit(files, git, dir)
<1> DEFINE all == comparableFiles(files)
           found(p) == InGit(files, git, p) \intersect all
<1>1. IsFiniteSet(all)
  BY FS_Subset DEF comparableFiles
<1>2. CASE all = {}
  BY <1>2
<1>3. CASE all # {}
  <2>2. found(d) = all
    OBVIOUS
  <2>3. found(dir) \subseteq all
    OBVIOUS
  <2>4. IsFiniteSet(found(dir)) /\ Cardinality(found(dir)) <= Cardinality(all)
        /\ (Cardinality(found(dir)) = Cardinality(all) => found(dir) = all)
    BY <1>1, <2>3, FS_Subset
  <2>5. Cardinality(found(dir)) \in Nat /\ Cardinality(all) \in Nat
    BY <1>1, <2>4, FS_CardinalityType
  <2>6. Hits(files, git, d) = Cardinality(all) /\ Hits(files, git, dir) = Cardinality(found(dir))
    BY <2>2 DEF Hits
  <2>7. dir \in Candidates(git)
        /\ \/ Hits(files, git, d) < Hits(files, git, dir)
           \/ Hits(files, git, d) = Hits(files, git, dir)
    BY <1>3 DEF resolveGitPrefix
  <2>8. Cardinality(found(dir)) = Cardinality(all)
    BY <2>4, <2>5, <2>6, <2>7
  <2>9. found(dir) = all
    BY <2>4, <2>8
  <2> QED BY <2>9
<1> QED BY <1>2, <1>3

-----------------------------------------------------------------------------
(* The lanes.                                                                *)

\* The files of the artifact are in the tree's directory d, if the tree is whole.
Packaged(files, git, d) ==
  ~git.truncated => /\ gitKey(d, <<"Cargo.toml">>) \in DOMAIN git.files
                    /\ comparableFiles(files) \subseteq InGit(files, git, d)

LEMMA NothingAbsent ==
  ASSUME NEW files \in Artifacts, NEW git, NEW d \in Dirs, Packaged(files, git, d),
         NEW dir, dir = d \/ dir \in resolveGitPrefix(files, git)
  PROVE  Absences(files, git, dir) = {}
<1>1. CASE git.truncated
  BY <1>1 DEF Absences
<1>2. CASE ~git.truncated
  <2>1. d \in Seq(STRING) /\ IsFiniteSet(DOMAIN files)
    BY InspectAssumption
  <2>2. d \in Candidates(git)
    BY <1>2, <2>1, HomeIsCandidate DEF Packaged
  <2>3. comparableFiles(files) \subseteq InGit(files, git, dir)
    BY <1>2, <2>1, <2>2, AllFoundAtPrefix DEF Packaged
  <2>4. ASSUME NEW rel \in DOMAIN files \ InGit(files, git, dir), IsRust(rel) \/ IsBinary(rel)
        PROVE  FALSE
    BY <2>3, <2>4, GeneratedAreQuiet DEF comparableFiles
  <2> QED BY <2>4 DEF Absences
<1> QED BY <1>1, <1>2

\* The dependencies of a manifest are the ones the code reads of it, unless it skips the lane.
DepsOf(m, r) ==
  LET workspace == IF m.workspace # <<>> THEN m.workspace ELSE r.workspace
  IN  names(m) \union {workspace[k] : k \in inherited(m)}

LEMMA NothingInjected ==
  ASSUME NEW crate, NEW t, NEW git, NEW dir, NEW m, NEW r,
         \/ m.package # crate
         \/ /\ inherited(m) \subseteq DOMAIN (IF m.workspace # <<>> THEN m.workspace ELSE r.workspace)
            /\ names(t) \subseteq DepsOf(m, r)
  PROVE  diffManifests(crate, t, git, dir, m, r) = {}
<1>1. CASE Skipped(crate, t, git, dir, m, r)
  BY <1>1 DEF diffManifests
<1>2. CASE ~Skipped(crate, t, git, dir, m, r)
  <2>1. CASE names(t) = {}
    BY <2>1 DEF diffManifests
  <2>2. CASE names(t) # {}
    <3> DEFINE workspace == IF m.workspace # <<>> THEN m.workspace ELSE r.workspace
               found == rootDeps(dir, m, r)
    <3>1. m.package = crate /\ inherited(m) \subseteq DOMAIN found
      BY <1>2, <2>2 DEF Skipped, OtherCrates
    <3>2. inherited(m) \subseteq DOMAIN workspace /\ names(t) \subseteq DepsOf(m, r)
      BY <3>1
    <3>3. \A k \in inherited(m) : found[k] = workspace[k]
      <4>1. CASE m.workspace # <<>>
        <5>1. workspace = m.workspace /\ ~NeedsRoot(dir, m)
          BY <3>2, <4>1 DEF NeedsRoot
        <5> QED BY <5>1 DEF rootDeps
      <4>2. CASE m.workspace = <<>>
        <5>1. DOMAIN m.workspace = {}
          BY <4>2
        <5>2. CASE ~NeedsRoot(dir, m)
          BY <3>1, <5>1, <5>2 DEF rootDeps
        <5>3. CASE NeedsRoot(dir, m)
          BY <3>2, <4>2, <5>1, <5>3 DEF rootDeps
        <5> QED BY <5>2, <5>3
      <4> QED BY <4>1, <4>2
    <3>4. DepsOf(m, r) = gitNames(dir, m, r)
      BY <3>3 DEF DepsOf, gitNames
    <3> QED BY <3>2, <3>4 DEF diffManifests
  <2> QED BY <2>1, <2>2
<1> QED BY <1>1, <1>2

-----------------------------------------------------------------------------
(* The invariant.                                                            *)

\* What has been fetched, and what nothing was found in yet.
Fetched ==
  /\ at \in {"meta", "artifact", "tree", "thrown"} => home = {}
  /\ at \in {"meta", "artifact", "tree"} => flags = {} /\ suspects = {}
  /\ at \in {"meta", "artifact", "tree", "manifest"} => shown = {}
  /\ at \in {"tree", "manifest", "contents"} => artifact \in Artifacts
  /\ home # {} => \E d \in Dirs : home = {d}

\* What is still to be read are Rust files with another content.
SuspectsInv == suspects \subseteq contentSuspects(artifact, tree, prefix)

Blameless ==
  Honest /\ known \subseteq home => flags = {} /\ (home = {prefix} => shown = {})

Inv == Fetched /\ SuspectsInv /\ Blameless


LEMMA ComparedInv == ASSUME Inv, Compared PROVE Inv'
<1>1. /\ at = "tree" /\ at' \in {"manifest", "done"} /\ artifact' = artifact /\ known' = known
      /\ shown' = shown /\ home' \in {{}} \union {{d} : d \in Dirs}
      /\ prefix' \in IF known # {} THEN known ELSE resolveGitPrefix(artifact, tree')
  BY DEF Compared, inputs
<1>2. /\ flags' = flags \/ flags' = Absences(artifact, tree', prefix')
      /\ suspects' = suspects \/ suspects' = contentSuspects(artifact, tree', prefix')
  BY DEF Compared
<1>3. flags = {} /\ suspects = {} /\ shown = {} /\ artifact \in Artifacts
  BY <1>1 DEF Inv, Fetched
<1>4. home' # {} => \E d \in Dirs : home' = {d}
  BY <1>1
<1>5. Fetched'
  BY <1>1, <1>3, <1>4 DEF Fetched
<1>6. SuspectsInv'
  BY <1>1, <1>2, <1>3 DEF SuspectsInv
<1>7. Blameless'
  <2> SUFFICES ASSUME Honest', known' \subseteq home' PROVE flags' = {}
    BY <1>1, <1>3 DEF Blameless
  <2>1. PICK d \in Dirs : home' = {d} /\ known \subseteq {d} /\ Packaged(artifact, tree', d)
    BY <1>1, <1>4 DEF Honest, Packaged
  <2>2. prefix' = d \/ prefix' \in resolveGitPrefix(artifact, tree')
    BY <1>1, <2>1
  <2>3. Absences(artifact, tree', prefix') = {}
    BY <1>3, <2>1, <2>2, NothingAbsent
  <2> QED BY <1>2, <1>3, <2>3
<1> QED BY <1>5, <1>6, <1>7 DEF Inv

LEMMA ManifestsInv == ASSUME Inv, ManifestsRead PROVE Inv'
<1>1. /\ at = "manifest" /\ at' = "contents"
      /\ own' \in {m \in Manifests : (m.package = name) = (home = {prefix})}
      /\ flags' = flags \union diffManifests(name, toml, tree, prefix, own', root')
      /\ UNCHANGED <<artifact, toml, known, tree, home, prefix, suspects, shown>>
  BY DEF ManifestsRead, inputs, source
<1>2. Fetched' /\ SuspectsInv'
  BY <1>1 DEF Inv, Fetched, SuspectsInv
<1>3. shown = {}
  BY <1>1 DEF Inv, Fetched
<1>4. Blameless'
  <2> SUFFICES ASSUME Honest', known' \subseteq home' PROVE flags' = {}
    BY <1>1, <1>3 DEF Blameless
  <2>1. Honest /\ known \subseteq home
    BY <1>1 DEF Honest
  <2>2. flags = {}
    BY <2>1 DEF Inv, Blameless
  <2>3. \/ own'.package # name
        \/ /\ inherited(own') \subseteq DOMAIN (IF own'.workspace # <<>> THEN own'.workspace
                                                ELSE root'.workspace)
           /\ names(toml) \subseteq DepsOf(own', root')
    <3>1. CASE home = {prefix}
      BY <1>1, <3>1 DEF Honest, Workspace, DeclaredDeps, DepsOf
    <3>2. CASE home # {prefix}
      BY <1>1, <3>2
    <3> QED BY <3>1, <3>2
  <2>4. diffManifests(name, toml, tree, prefix, own', root') = {}
    BY <2>3, NothingInjected
  <2> QED BY <1>1, <2>2, <2>4
<1> QED BY <1>2, <1>4 DEF Inv

LEMMA ContentInv == ASSUME Inv, NEW rel, ContentRead(rel) PROVE Inv'
<1>1. /\ at = "contents" /\ rel \in suspects /\ suspects' = suspects \ {rel}
      /\ UNCHANGED <<at, artifact, toml, known, tree, home, prefix, own, root, flags>>
  BY DEF ContentRead, inputs, source
<1>2. Fetched' /\ SuspectsInv'
  BY <1>1 DEF Inv, Fetched, SuspectsInv
<1>3. Blameless'
  <2> SUFFICES ASSUME Honest', known' \subseteq home'
               PROVE  flags' = {} /\ (home' = {prefix'} => shown' = {})
    BY DEF Blameless
  <2>1. Honest /\ known \subseteq home
    BY <1>1 DEF Honest, Workspace, DeclaredDeps
  <2>2. flags = {} /\ (home = {prefix} => shown = {})
    BY <2>1 DEF Inv, Blameless
  <2>3. ASSUME home = {prefix} PROVE shown' = shown
    <3>1. rel \in InGit(artifact, tree, prefix) /\ IsRust(rel)
      BY <1>1 DEF Inv, SuspectsInv, contentSuspects
    <3>2. rel \notin AUTO_GENERATED
      BY <3>1, GeneratedAreQuiet
    <3>3. normalizeSource(tree.files[gitKey(prefix, rel)]) = normalizeSource(artifact[rel])
      BY <2>1, <2>3, <3>1, <3>2 DEF Honest
    <3> QED BY <3>3 DEF ContentRead
  <2> QED BY <1>1, <2>2, <2>3
<1> QED BY <1>2, <1>3 DEF Inv

\* A step that fetches, or ends.
LEMMA RestInv ==
  ASSUME Inv, \/ Throws \/ Absent \/ Served \/ Unpacked \/ NoTreeFound \/ Ends
              \/ (\E rel : ContentUnread(rel)) \/ UNCHANGED vars
  PROVE  Inv'
<1>1. CASE Throws \/ Absent \/ Served \/ Unpacked \/ NoTreeFound
  <2>1. /\ home = {} /\ home' = home /\ suspects = {} /\ suspects' = suspects
        /\ shown = {} /\ shown' = shown
    BY <1>1 DEF Throws, Absent, Served, Unpacked, NoTreeFound, outcome, source, Inv, Fetched
  <2>2. Fetched'
    <3>1. CASE Absent
      BY <2>1, <3>1 DEF Absent, Fetched
    <3>2. CASE Throws \/ Served \/ Unpacked \/ NoTreeFound
      <4>1. flags = {} /\ flags' = flags
        BY <3>2 DEF Throws, Served, Unpacked, NoTreeFound, outcome, Inv, Fetched
      <4>2. at' \in {"tree", "manifest", "contents"} => artifact' \in Artifacts
        BY <3>2 DEF Throws, Served, Unpacked, NoTreeFound
      <4> QED BY <2>1, <4>1, <4>2 DEF Fetched
    <3> QED BY <1>1, <3>1, <3>2
  <2>3. SuspectsInv'
    BY <2>1 DEF SuspectsInv
  <2>4. Blameless'
    BY <2>1 DEF Blameless, Honest
  <2> QED BY <2>2, <2>3, <2>4 DEF Inv
<1>2. CASE Ends \/ (\E rel : ContentUnread(rel)) \/ UNCHANGED vars
  <2>1. /\ \/ at = "contents" /\ at' = "done"
           \/ at' = at
        /\ suspects' \subseteq suspects
        /\ UNCHANGED <<artifact, toml, known, tree, home, prefix, own, root, flags, shown>>
    BY <1>2 DEF Ends, ContentUnread, vars, inputs, source, outcome
  <2>2. Fetched'
    BY <2>1 DEF Inv, Fetched
  <2>3. SuspectsInv'
    BY <2>1 DEF Inv, SuspectsInv
  <2>4. Honest' /\ known' \subseteq home' => Honest /\ known \subseteq home
    BY <2>1 DEF Honest, Workspace, DeclaredDeps
  <2>5. Blameless'
    BY <2>1, <2>4 DEF Inv, Blameless
  <2> QED BY <2>2, <2>3, <2>5 DEF Inv
<1> QED BY <1>1, <1>2

THEOREM InspectInvariance == Spec => []Inv
<1>1. Init => Inv
  BY DEF Init, Inv, Fetched, SuspectsInv, Blameless, Honest
<1>2. Inv /\ [Next]_vars => Inv'
  <2> SUFFICES ASSUME Inv, [Next]_vars PROVE Inv'
    OBVIOUS
  <2>1. CASE Compared
    BY <2>1, ComparedInv
  <2>2. CASE ManifestsRead
    BY <2>2, ManifestsInv
  <2>3. ASSUME NEW rel, ContentRead(rel) PROVE Inv'
    BY <2>3, ContentInv
  <2>4. CASE \/ Throws \/ Absent \/ Served \/ Unpacked \/ NoTreeFound \/ Ends
             \/ (\E rel : ContentUnread(rel)) \/ UNCHANGED vars
    BY <2>4, RestInv
  <2> QED BY <2>1, <2>2, <2>3, <2>4 DEF Next
<1> QED BY <1>1, <1>2, PTL DEF Spec

\* manifest.js, "Every unknown suppresses the flag rather than guessing": a crate that was
\* packaged from its tree gets no finding for a file or a dependency, whatever is truncated,
\* renamed or inherited and whatever directory was guessed, unless .cargo_vcs_info.json is
\* read as naming a directory that is not its own; and no file of it is shown as modified
\* where the directory is its own.
THEOREM HonestIsSafe == Spec => []HonestNeverAccused
<1>1. Inv => HonestNeverAccused
  BY DEF Inv, Blameless, HonestNeverAccused
<1> QED BY <1>1, InspectInvariance, PTL

-----------------------------------------------------------------------------
(* Types.                                                                    *)

AreNames(findings) == \A f \in findings : f.flag \in FlagNames

LEMMA NamesAre ==
  /\ \A flag \in {"VERSION_REMOVED", "CRATE_REMOVED"} : AreNames({Finding(flag)})
  /\ \A files, git, dir : AreNames(Absences(files, git, dir))
  /\ \A crate, t, git, dir, m, r : AreNames(diffManifests(crate, t, git, dir, m, r))
  /\ \A rel : ModifiedOf(rel).flag \in FlagNames
<1>1. \A flag \in {"VERSION_REMOVED", "CRATE_REMOVED"} : Finding(flag).flag \in FlagNames
  BY DEF Finding, FlagNames, HighFlags
<1>2. \A rel : AbsenceOf(rel).flag \in FlagNames
  BY DEF AbsenceOf, FlagNames, HighFlags, MediumFlags
<1>3. ASSUME NEW crate, NEW t, NEW git, NEW dir, NEW m, NEW r, NEW f \in diffManifests(crate, t, git, dir, m, r)
      PROVE  f.flag = "DEP_INJECTED"
  BY DEF diffManifests
<1>4. "DEP_INJECTED" \in FlagNames
  BY DEF FlagNames, HighFlags
<1>5. \A rel : ModifiedOf(rel).flag \in FlagNames
  BY DEF ModifiedOf, FlagNames, HighFlags, MediumFlags
<1>6. \A files, git, dir : AreNames(Absences(files, git, dir))
  BY <1>2 DEF AreNames, Absences
<1>7. \A crate, t, git, dir, m, r : AreNames(diffManifests(crate, t, git, dir, m, r))
  BY <1>3, <1>4 DEF AreNames
<1> QED BY <1>1, <1>5, <1>6, <1>7 DEF AreNames

ShownNames == \A s \in shown : s.finding.flag \in FlagNames

InputTypes ==
  /\ at \in {"meta", "artifact", "tree", "manifest", "contents", "done", "thrown"}
  /\ toml \in Tomls \/ toml = NoManifest
  /\ tree.truncated \in BOOLEAN
  /\ known = {} \/ \E d \in VcsDirs : known = {d}
  /\ home = {} \/ \E d \in Dirs : home = {d}
  /\ own \in Manifests \/ own = NoManifest
  /\ root \in Manifests \/ root = NoManifest
  /\ suspects \subseteq DOMAIN artifact /\ unread \in BOOLEAN
  /\ status \in {"none", "NO_GIT_TAG", "CLEAN", "SUSPICIOUS"}

LEMMA TypesAre == TypeOK <=> InputTypes /\ AreNames(flags) /\ ShownNames
BY DEF TypeOK, InputTypes, AreNames, ShownNames

LEMMA NamesStep ==
  ASSUME AreNames(flags), ShownNames, [Next]_vars PROVE AreNames(flags') /\ ShownNames'
<1>1. CASE Absent
  BY <1>1, NamesAre DEF Absent, ShownNames
<1>2. CASE Compared
  BY <1>2, NamesAre DEF Compared, ShownNames
<1>3. CASE ManifestsRead
  <2>1. AreNames(diffManifests(name, toml, tree, prefix, own', root'))
    BY NamesAre
  <2> QED BY <1>3, <2>1 DEF ManifestsRead, ShownNames, AreNames
<1>4. ASSUME NEW rel, ContentRead(rel) PROVE AreNames(flags') /\ ShownNames'
  <2>1. flags' = flags
    BY <1>4 DEF ContentRead
  <2>2. \A s \in shown' : s \in shown \/ s.finding = ModifiedOf(rel)
    BY <1>4 DEF ContentRead
  <2> QED BY <2>1, <2>2, NamesAre DEF ShownNames
<1>5. CASE \/ Throws \/ Served \/ Unpacked \/ NoTreeFound \/ Ends
           \/ (\E rel : ContentUnread(rel)) \/ UNCHANGED vars
  <2>1. UNCHANGED <<flags, shown>>
    BY <1>5 DEF Throws, Served, Unpacked, NoTreeFound, Ends, ContentUnread, vars, outcome
  <2> QED BY <2>1 DEF ShownNames
<1> QED BY <1>1, <1>2, <1>3, <1>4, <1>5 DEF Next

LEMMA TypesStep ==
  ASSUME Inv, InputTypes, [Next]_vars PROVE InputTypes'
<1>1. CASE Throws \/ Served \/ Absent \/ NoTreeFound \/ UNCHANGED vars
  BY <1>1 DEF Throws, Served, Absent, NoTreeFound, InputTypes, vars, inputs, source, outcome
<1>2. CASE Unpacked
  <2>1. suspects = {}
    BY <1>2 DEF Unpacked, Inv, Fetched
  <2>2. known' = {} \/ \E d \in VcsDirs : known' = {d}
    BY <1>2 DEF Unpacked
  <2> QED BY <1>2, <2>1, <2>2 DEF Unpacked, InputTypes, source, outcome
<1>3. CASE Compared
  <2>1. contentSuspects(artifact, tree', prefix') \subseteq DOMAIN artifact
    BY DEF contentSuspects, InGit
  <2>2. tree'.truncated \in BOOLEAN
    BY <1>3, InspectAssumption DEF Compared
  <2>3. home' = {} \/ \E d \in Dirs : home' = {d}
    BY <1>3 DEF Compared
  <2>4. /\ at' \in {"manifest", "done"} /\ status' \in {"SUSPICIOUS", "CLEAN", "NO_GIT_TAG"}
        /\ suspects' = suspects \/ suspects' = contentSuspects(artifact, tree', prefix')
        /\ UNCHANGED <<artifact, toml, known, own, root, unread>>
    BY <1>3 DEF Compared, inputs
  <2> QED BY <2>1, <2>2, <2>3, <2>4 DEF InputTypes
<1>4. CASE ManifestsRead
  <2>1. own' \in Manifests /\ (root' \in Manifests \/ root' = root) /\ at' = "contents"
        /\ UNCHANGED <<artifact, toml, known, tree, home, suspects, unread, status>>
    BY <1>4 DEF ManifestsRead, inputs, source
  <2> QED BY <2>1 DEF InputTypes
<1>5. CASE (\E rel : ContentRead(rel)) \/ (\E rel : ContentUnread(rel)) \/ Ends
  <2>1. /\ at' = at \/ at' = "done"
        /\ suspects' \subseteq suspects /\ (unread' = unread \/ unread' = TRUE)
        /\ status' = status \/ status' = "SUSPICIOUS"
        /\ UNCHANGED <<artifact, toml, known, tree, home, own, root>>
    BY <1>5 DEF ContentRead, ContentUnread, Ends, inputs, source
  <2> QED BY <2>1 DEF InputTypes
<1> QED BY <1>1, <1>2, <1>3, <1>4, <1>5 DEF Next

\* What has been served, fetched and found has the types the code gives it, and every
\* finding of any lane is one that severity.js knows.
THEOREM InspectTyping == Spec => []TypeOK
<1> DEFINE Typed == InputTypes /\ AreNames(flags) /\ ShownNames
<1>1. Init => Typed
  <2> SUFFICES ASSUME Init PROVE Typed
    OBVIOUS
  <2>1. tree = NoTree /\ flags = {} /\ shown = {}
    BY DEF Init
  <2>2. tree.truncated \in BOOLEAN
    BY <2>1 DEF NoTree
  <2>3. InputTypes
    BY <2>2 DEF Init, InputTypes
  <2> QED BY <2>1, <2>3 DEF AreNames, ShownNames
<1>2. Inv /\ Typed /\ [Next]_vars => Typed'
  <2> SUFFICES ASSUME Inv, Typed, [Next]_vars PROVE Typed'
    OBVIOUS
  <2>1. InputTypes'
    BY TypesStep
  <2>2. AreNames(flags') /\ ShownNames'
    BY NamesStep
  <2> QED BY <2>1, <2>2
<1> HIDE DEF Typed
<1>3. Typed => TypeOK
  BY TypesAre DEF Typed
<1> QED BY <1>1, <1>2, <1>3, InspectInvariance, PTL DEF Spec

-----------------------------------------------------------------------------
(* What differs is shown.                                                    *)

\* A file that is not in the tree has a finding, and the difference of a Rust file is shown.
Reported(rel) ==
  LET there == gitKey(prefix, rel) \in DOMAIN tree.files
      remote == tree.files[gitKey(prefix, rel)]
      local == artifact[rel]
  IN  /\ ~there /\ (IsRust(rel) \/ IsBinary(rel)) => \E f \in flags : f.file = rel
      /\ there /\ IsRust(rel) /\ normalizeSource(remote) # normalizeSource(local) =>
           \E s \in shown :
             /\ s.finding.file = rel
             /\ s.lines # <<>> => IsDiff(s.lines, remote.text, local.text)
             /\ s.lines = <<>> => Larger(Len(remote.text), Len(local.text)) > maxLines

\* Or it is still to be read.
ReportedYet ==
  /\ at \in {"meta", "artifact", "tree"} => tree = NoTree
  /\ at \in {"manifest", "contents"} => tree \in Trees
  /\ at = "done" /\ Located(artifact, tree, prefix) => tree = NoTree \/ suspects = {}
  /\ (\/ at \in {"manifest", "contents"}
      \/ at = "done" /\ tree # NoTree /\ Located(artifact, tree, prefix))
     /\ ~tree.truncated /\ ~unread =>
          \A rel \in DOMAIN artifact : rel \in suspects \/ Reported(rel)

LEMMA EmptyDiff == ASSUME NEW a, NEW b, IsDiff(<<>>, a, b) PROVE a = b
<1>1. ASSUME NEW signs, NEW other PROVE Side(<<>>, signs) = Side(<<>>, other)
  <2>1. \A set : {k \in DOMAIN <<>> : <<>>[k][1] \in set} = {}
    OBVIOUS
  <2> QED BY <2>1 DEF Side
<1>2. Side(<<>>, {InBoth, OnlyA}) = a /\ Side(<<>>, {InBoth, OnlyB}) = b
  BY DEF IsDiff
<1> QED BY <1>1, <1>2

\* Texts that differ are printed as a diff, or they are too long.
LEMMA PrintedIs ==
  ASSUME NEW remote \in Seq(Lines), NEW local \in Seq(Lines), remote # local
  PROVE  /\ Printed(remote, local) # <<>> => IsDiff(Printed(remote, local), remote, local)
         /\ Printed(remote, local) = <<>> => Larger(Len(remote), Len(local)) > maxLines
<1>1. /\ Over(remote, 1 .. Len(remote)) /\ Len(remote) \in Nat
      /\ Over(local, 1 .. Len(local)) /\ Len(local) \in Nat
  BY DEF Over
<1>2. IsDiff(diffOps(remote, local), remote, local)
  BY <1>1, DiffIs
<1>3. diffOps(remote, local) # <<>>
  BY <1>2, EmptyDiff
<1> QED BY <1>2, <1>3 DEF Printed

LEMMA ReportedStep == ASSUME Inv, ReportedYet, [Next]_vars PROVE ReportedYet'
<1>1. CASE Throws \/ Served \/ Unpacked \/ Absent \/ NoTreeFound
  <2>1. at \in {"meta", "artifact", "tree"} /\ UNCHANGED tree /\ at' \notin {"manifest", "contents"}
    BY <1>1 DEF Throws, Served, Unpacked, Absent, NoTreeFound, source
  <2> QED BY <2>1 DEF ReportedYet
<1>2. CASE Compared
  <2>1. at = "tree" /\ tree' \in Trees /\ UNCHANGED artifact
    BY <1>2 DEF Compared, inputs
  <2>2. CASE ~Located(artifact, tree', prefix')
    <3>1. at' = "done"
      BY <1>2, <2>2 DEF Compared
    <3> QED BY <2>1, <2>2, <3>1 DEF ReportedYet
  <2>3. CASE Located(artifact, tree', prefix')
    <3>1. /\ at' = "manifest" /\ flags' = Absences(artifact, tree', prefix')
          /\ suspects' = contentSuspects(artifact, tree', prefix')
      BY <1>2, <2>3 DEF Compared
    <3>2. ASSUME ~tree'.truncated, NEW rel \in DOMAIN artifact, rel \notin suspects'
          PROVE  Reported(rel)'
      <4>1. CASE gitKey(prefix', rel) \notin DOMAIN tree'.files
        <5>1. IsRust(rel) \/ IsBinary(rel) => AbsenceOf(rel) \in flags'
          BY <3>1, <3>2, <4>1 DEF Absences, InGit
        <5>2. AbsenceOf(rel).file = rel
          BY DEF AbsenceOf
        <5> QED BY <4>1, <5>1, <5>2 DEF Reported
      <4>2. CASE gitKey(prefix', rel) \in DOMAIN tree'.files
        <5>1. IsRust(rel) => tree'.files[gitKey(prefix', rel)] = artifact[rel]
          BY <3>1, <3>2, <4>2 DEF contentSuspects, InGit
        <5> QED BY <2>1, <4>2, <5>1 DEF Reported
      <4> QED BY <4>1, <4>2
    <3> QED BY <2>1, <3>1, <3>2 DEF ReportedYet
  <2> QED BY <2>2, <2>3
<1>3. CASE ManifestsRead
  <2>1. /\ at = "manifest" /\ at' = "contents" /\ flags \subseteq flags'
        /\ UNCHANGED <<artifact, tree, prefix, suspects, shown, unread>>
    BY <1>3 DEF ManifestsRead, inputs, source
  <2>2. ASSUME NEW rel, Reported(rel) PROVE Reported(rel)'
    BY <2>1, <2>2 DEF Reported
  <2> QED BY <2>1, <2>2 DEF ReportedYet
<1>4. ASSUME NEW rel, ContentRead(rel) PROVE ReportedYet'
  <2> DEFINE remote == tree.files[gitKey(prefix, rel)]
             local == artifact[rel]
             alike == normalizeSource(remote) = normalizeSource(local)
             news == [finding |-> ModifiedOf(rel), lines |-> Printed(remote.text, local.text)]
  <2>1. /\ at = "contents" /\ rel \in suspects /\ suspects' = suspects \ {rel}
        /\ UNCHANGED <<at, artifact, tree, prefix, flags, unread>>
        /\ shown' = IF alike THEN shown ELSE shown \union {news}
    BY <1>4 DEF ContentRead, inputs, source
  <2>2. rel \in DOMAIN artifact /\ gitKey(prefix, rel) \in DOMAIN tree.files
    BY <2>1 DEF Inv, SuspectsInv, contentSuspects, InGit
  <2>3. Reported(rel)'
    <3>1. CASE alike
      BY <2>1, <2>2, <3>1 DEF Reported
    <3>2. CASE ~alike
      <4>1. artifact \in Artifacts /\ tree \in Trees
        BY <2>1 DEF Inv, Fetched, ReportedYet
      <4>2. remote.text \in Seq(Lines) /\ local.text \in Seq(Lines)
        BY <2>2, <4>1, InspectAssumption DEF AreTexts
      <4>3. remote.text # local.text
        BY <3>2 DEF normalizeSource
      <4> DEFINE lines == Printed(remote.text, local.text)
      <4>4. /\ lines # <<>> => IsDiff(lines, remote.text, local.text)
            /\ lines = <<>> => Larger(Len(remote.text), Len(local.text)) > maxLines
        <5> HIDE DEF remote, local
        <5> QED BY <4>2, <4>3, PrintedIs
      <4>5. news \in shown' /\ news.lines = lines /\ news.finding.file = rel
        BY <2>1, <3>2 DEF ModifiedOf
      <4> HIDE DEF news, lines, remote, local
      <4>6. \E s \in shown' :
              /\ s.finding.file = rel
              /\ s.lines # <<>> => IsDiff(s.lines, remote.text, local.text)
              /\ s.lines = <<>> => Larger(Len(remote.text), Len(local.text)) > maxLines
        BY <4>4, <4>5
      <4> QED BY <2>1, <2>2, <4>6 DEF Reported, remote, local
    <3> QED BY <3>1, <3>2
  <2>4. ASSUME NEW other, Reported(other) PROVE Reported(other)'
    <3>1. shown \subseteq shown'
      BY <2>1
    <3> HIDE DEF remote, local, alike
    <3> QED BY <2>1, <2>4, <3>1 DEF Reported
  <2>5. ASSUME ~tree.truncated, ~unread, NEW other \in DOMAIN artifact, other \notin suspects'
        PROVE  Reported(other)'
    <3>1. CASE other = rel
      BY <2>3, <3>1
    <3>2. CASE other # rel
      <4>1. Reported(other)
        BY <2>1, <2>5, <3>2 DEF ReportedYet
      <4> QED BY <2>4, <4>1
    <3> QED BY <3>1, <3>2
  <2> QED BY <2>1, <2>5 DEF ReportedYet
<1>5. CASE \E rel : ContentUnread(rel)
  <2>1. at = "contents" /\ UNCHANGED <<at, tree>> /\ unread'
    BY <1>5 DEF ContentUnread, source
  <2> QED BY <2>1 DEF ReportedYet
<1>6. CASE Ends
  <2>1. /\ at = "contents" /\ at' = "done" /\ suspects = {}
        /\ UNCHANGED <<artifact, tree, prefix, flags, suspects, shown, unread>>
    BY <1>6 DEF Ends, inputs, source
  <2>2. ASSUME NEW rel, Reported(rel) PROVE Reported(rel)'
    BY <2>1, <2>2 DEF Reported
  <2> QED BY <2>1, <2>2 DEF ReportedYet
<1>7. CASE UNCHANGED vars
  <2>1. UNCHANGED <<at, artifact, tree, prefix, flags, suspects, shown, unread>>
    BY <1>7 DEF vars, inputs, source, outcome
  <2>2. ASSUME NEW rel, Reported(rel) PROVE Reported(rel)'
    BY <2>1, <2>2 DEF Reported
  <2> QED BY <2>1, <2>2 DEF ReportedYet
<1> QED BY <1>1, <1>2, <1>3, <1>4, <1>5, <1>6, <1>7 DEF Next

\* README, "shows exactly how a crate's published artifact differs from its source", as far
\* as it goes: for texts of any length, every Rust file and binary of a located crate that
\* the tree has not has a finding, and every Rust file with another text is shown with a
\* shortest diff.  A binary with another content is not.
THEOREM DifferencesShown == Spec => []DifferencesAreShown
<1>1. Init => ReportedYet
  BY DEF Init, ReportedYet
<1>2. Inv /\ ReportedYet /\ [Next]_vars => ReportedYet'
  BY ReportedStep
<1>3. ReportedYet => DifferencesAreShown
  BY DEF ReportedYet, Reported, DifferencesAreShown
<1> QED BY <1>1, <1>2, <1>3, InspectInvariance, PTL DEF Spec
=============================================================================
