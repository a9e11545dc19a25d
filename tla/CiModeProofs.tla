---------------------------- MODULE CiModeProofs ----------------------------
(***************************************************************************)
(* What runCi promises, for any lockfiles and any number of runs with one  *)
(* store: which packages the reader finds in a lockfile, which of them are *)
(* probed, what a run reports of them, and what the reader of the diff     *)
(* takes for added.                                                        *)
(***************************************************************************)
EXTENDS CiMode, ListProofs

-----------------------------------------------------------------------------
(* The lines of a lockfile.                                                  *)

Entries == [name : STRING \ {""}, version : STRING \ {""}, source : Sources, rest : Seq(RestLines)]

\* A list of packages.
Rests(lock) == \A k \in 1 .. Len(lock) : lock[k].rest \in Seq(RestLines)
IsList(lock) == Len(lock) \in Nat /\ DOMAIN lock = 1 .. Len(lock) /\ Rests(lock)

\* The lines that may be in a lockfile.
LinesOf(lock) ==
  {Blank, Format} \union {Header(p) : p \in Range(lock)} \union {Name(p) : p \in Range(lock)}
  \union {Version(p) : p \in Range(lock)} \union {Source(p) : p \in Range(lock)} \union RestLines

LEMMA ThreeOrFour ==
  ASSUME NEW S, NEW a \in S, NEW b \in S, NEW c \in S, NEW d \in S
  PROVE  <<a, b, c>> \in Seq(S) /\ <<a, b, c, d>> \in Seq(S)
OBVIOUS

LEMMA LenOfOne == ASSUME NEW a PROVE Len(<<a>>) = 1
OBVIOUS

LEMMA TopIs ==
  ASSUME NEW p
  PROVE  /\ p.source \in {"workspace", "unused"} =>
              Top(p) = <<Header(p), Name(p), Version(p)>> /\ Len(Top(p)) = 3
         /\ p.source \notin {"workspace", "unused"} =>
              Top(p) = <<Header(p), Name(p), Version(p), Source(p)>> /\ Len(Top(p)) = 4 /\ Top(p)[4] = Source(p)
         /\ Top(p)[1] = Header(p) /\ Top(p)[2] = Name(p) /\ Top(p)[3] = Version(p)
         /\ Len(Top(p)) \in {3, 4}
<1>1. CASE p.source \in {"workspace", "unused"}
  <2>1. Top(p) = <<Header(p), Name(p), Version(p)>>
    BY <1>1 DEF Top
  <2> QED BY <1>1, <2>1
<1>2. CASE p.source \notin {"workspace", "unused"}
  <2>1. Top(p) = <<Header(p), Name(p), Version(p), Source(p)>>
    BY <1>2 DEF Top
  <2> QED BY <1>2, <2>1
<1> QED BY <1>1, <1>2

\* Two lists and one more line.
LEMMA JoinedAre ==
  ASSUME NEW S, NEW s \in Seq(S), NEW t \in Seq(S), NEW e \in S
  PROVE  /\ s \o t \o <<e>> \in Seq(S) /\ Len(s) \in Nat /\ Len(t) \in Nat
         /\ Len(s \o t \o <<e>>) = Len(s) + Len(t) + 1
         /\ \A n \in 1 .. Len(s) : (s \o t \o <<e>>)[n] = s[n]
         /\ \A n \in 1 .. Len(t) : (s \o t \o <<e>>)[Len(s) + n] = t[n]
         /\ (s \o t \o <<e>>)[Len(s) + Len(t) + 1] = e
<1> DEFINE u == s \o t
<1>1. u \in Seq(S) /\ Len(u) = Len(s) + Len(t) /\ Len(s) \in Nat /\ Len(t) \in Nat
  OBVIOUS
<1>2. \A n \in 1 .. Len(s) : u[n] = s[n]
  OBVIOUS
<1>3. \A n \in 1 .. Len(t) : u[Len(s) + n] = t[n]
  OBVIOUS
<1> HIDE DEF u
<1>4. u \o <<e>> \in Seq(S) /\ Len(u \o <<e>>) = Len(u) + 1
  BY <1>1
<1>5. \A n \in 1 .. Len(u) : (u \o <<e>>)[n] = u[n]
  BY <1>1
<1>6. (u \o <<e>>)[Len(u) + 1] = e
  BY <1>1
<1>7. \A n \in 1 .. Len(s) : n \in 1 .. Len(u)
  BY <1>1
<1>8. \A n \in 1 .. Len(t) : Len(s) + n \in 1 .. Len(u)
  BY <1>1
<1> DEFINE v == u \o <<e>>
<1> HIDE DEF v
<1>9. /\ v \in Seq(S) /\ Len(v) = Len(s) + Len(t) + 1 /\ v[Len(s) + Len(t) + 1] = e
      /\ \A n \in 1 .. Len(s) : v[n] = s[n]
      /\ \A n \in 1 .. Len(t) : v[Len(s) + n] = t[n]
  BY <1>1, <1>2, <1>3, <1>4, <1>5, <1>6, <1>7, <1>8 DEF v
<1> QED BY <1>1, <1>9 DEF v, u

\* The lines of a package.
LEMMA BlockIs ==
  ASSUME NEW p, p.rest \in Seq(RestLines)
  PROVE  /\ Len(p.rest) \in Nat /\ Len(Block(p)) = Len(Top(p)) + Len(p.rest) + 1
         /\ \A n \in 1 .. Len(Top(p)) : Block(p)[n] = Top(p)[n]
         /\ \A n \in 1 .. Len(p.rest) : Block(p)[Len(Top(p)) + n] = p.rest[n]
         /\ Block(p)[Len(Top(p)) + Len(p.rest) + 1] = Blank
         /\ \A S : /\ {Header(p), Name(p), Version(p), Source(p), Blank} \subseteq S /\ RestLines \subseteq S
                   => Block(p) \in Seq(S)
<1> DEFINE Fits(S) == {Header(p), Name(p), Version(p), Source(p), Blank} \subseteq S /\ RestLines \subseteq S
<1>1. ASSUME NEW S, Fits(S) PROVE Top(p) \in Seq(S) /\ p.rest \in Seq(S) /\ Blank \in S
  <2>1. Top(p) \in Seq(S)
    BY <1>1, TopIs, ThreeOrFour
  <2> QED BY <1>1, <2>1
<1> DEFINE T == {Header(p), Name(p), Version(p), Source(p), Blank} \union RestLines
<1>2. Fits(T)
  OBVIOUS
<1>3. ASSUME NEW S, Fits(S) PROVE Block(p) \in Seq(S)
  BY <1>1, <1>3, JoinedAre DEF Block
<1> HIDE DEF T, Fits
<1>4. Top(p) \in Seq(T) /\ p.rest \in Seq(T) /\ Blank \in T
  BY <1>1, <1>2
<1>5. /\ Len(p.rest) \in Nat /\ Len(Block(p)) = Len(Top(p)) + Len(p.rest) + 1
      /\ \A n \in 1 .. Len(Top(p)) : Block(p)[n] = Top(p)[n]
      /\ \A n \in 1 .. Len(p.rest) : Block(p)[Len(Top(p)) + n] = p.rest[n]
      /\ Block(p)[Len(Top(p)) + Len(p.rest) + 1] = Blank
  <2> DEFINE s == Top(p)
             t == p.rest
             e == Blank
  <2>1. Block(p) = s \o t \o <<e>>
    BY DEF Block
  <2> HIDE DEF s, t, e
  <2>2. s \in Seq(T) /\ t \in Seq(T) /\ e \in T
    BY <1>4 DEF s, t, e
  <2>3. /\ Len(t) \in Nat /\ Len(s \o t \o <<e>>) = Len(s) + Len(t) + 1
        /\ \A n \in 1 .. Len(s) : (s \o t \o <<e>>)[n] = s[n]
        /\ \A n \in 1 .. Len(t) : (s \o t \o <<e>>)[Len(s) + n] = t[n]
        /\ (s \o t \o <<e>>)[Len(s) + Len(t) + 1] = e
    BY <2>2, JoinedAre
  <2> QED BY <2>1, <2>3, Zenon DEF s, t, e
<1> QED BY <1>3, <1>5 DEF Fits

LEMMA BlockOfLines ==
  ASSUME NEW lock, NEW p \in Range(lock), p.rest \in Seq(RestLines)
  PROVE  Block(p) \in Seq(LinesOf(lock))
<1>1. {Header(p), Name(p), Version(p), Source(p), Blank} \subseteq LinesOf(lock) /\ RestLines \subseteq LinesOf(lock)
  BY DEF LinesOf
<1> QED BY <1>1, BlockIs

\* Four lines at least: its name is the second, its version the third.
LEMMA BlockLen ==
  ASSUME NEW p, p.rest \in Seq(RestLines)
  PROVE  /\ Len(Block(p)) \in Nat /\ 4 <= Len(Block(p))
         /\ Block(p)[1] = Header(p) /\ Block(p)[2] = Name(p) /\ Block(p)[3] = Version(p)
<1> DEFINE t == Len(Top(p))
           r == Len(p.rest)
           b == Len(Block(p))
<1>1. t \in {3, 4} /\ r \in Nat /\ b = t + r + 1
  BY TopIs, BlockIs
<1> HIDE DEF t, r, b
<1>2. b \in Nat /\ 4 <= b /\ 1 \in 1 .. t /\ 2 \in 1 .. t /\ 3 \in 1 .. t
  BY <1>1
<1>3. Block(p)[1] = Top(p)[1] /\ Block(p)[2] = Top(p)[2] /\ Block(p)[3] = Top(p)[3]
  BY <1>2, BlockIs DEF t
<1> QED BY <1>2, <1>3, TopIs DEF b

LEMMA TextsAre ==
  ASSUME NEW lock, Len(lock) \in Nat, DOMAIN lock = 1 .. Len(lock), Rests(lock)
  PROVE  /\ Texts(lock) \in [0 .. Len(lock) -> Seq(LinesOf(lock))]
         /\ Texts(lock)[0] = <<Format>>
         /\ \A k \in 1 .. Len(lock) : Texts(lock)[k] = Texts(lock)[k - 1] \o Block(lock[k])
<1> DEFINE n == Len(lock)
           V == Seq(LinesOf(lock))
           first == <<Format>>
           step == [k \in 1 .. n |-> [t \in V |-> t \o Block(lock[k])]]
           Is(f) == f = [k \in 0 .. n |-> IF k = 0 THEN first ELSE f[k - 1] \o Block(lock[k])]
           text == Texts(lock)
<1>0. Len(lock) \in Nat /\ DOMAIN lock = 1 .. Len(lock) /\ Rests(lock)
  BY DEF IsList
<1>1. ASSUME NEW k \in 1 .. n PROVE Block(lock[k]) \in V
  BY <1>0, BlockOfLines DEF Range, Rests
<1>2. first \in V
  <2>1. Format \in LinesOf(lock)
    BY DEF LinesOf
  <2> QED BY <2>1
<1> HIDE DEF V, first
<1>3. step \in [1 .. n -> [V -> V]]
  BY <1>1 DEF V
<1>4. PICK f : Forth(f, n, V, first, step)
  <2> HIDE DEF step
  <2>1. n \in Nat
    BY <1>0
  <2> HIDE DEF n
  <2> QED BY <1>2, <1>3, <2>1, Iterated
<1>5. f \in [0 .. n -> V] /\ f[0] = first /\ \A k \in 1 .. n : f[k] = step[k][f[k - 1]]
  <2> HIDE DEF step, n
  <2> QED BY <1>4 DEF Forth
<1>6. ASSUME NEW k \in 1 .. n PROVE f[k] = f[k - 1] \o Block(lock[k])
  <2>1. k - 1 \in 0 .. n
    BY <1>0
  <2> QED BY <1>5, <2>1
<1>7. Is(f)
  <2> HIDE DEF step
  <2>1. \A k \in 0 .. n : f[k] = IF k = 0 THEN first ELSE f[k - 1] \o Block(lock[k])
    <3> SUFFICES ASSUME NEW k \in 0 .. n
                 PROVE  f[k] = IF k = 0 THEN first ELSE f[k - 1] \o Block(lock[k])
      OBVIOUS
    <3>1. CASE k = 0
      BY <1>5, <3>1
    <3>2. CASE k # 0
      <4>1. k \in 1 .. n
        BY <1>0, <3>2
      <4>2. f[k] = f[k - 1] \o Block(lock[k])
        BY <1>6, <4>1
      <4> QED BY <3>2, <4>2
    <3> QED BY <3>1, <3>2
  <2> QED BY <1>5, <2>1
<1>8. text = CHOOSE g : Is(g)
  BY DEF Texts, first
<1>9. Is(text)
  <2> HIDE DEF Is, text
  <2> QED BY <1>7, <1>8
<1>10. text = f
  <2> HIDE DEF text, step
  <2>1. Over(text, 0 .. n) /\ text[0] = first
    BY <1>9 DEF Over
  <2>2. ASSUME NEW k \in 1 .. n, f[k - 1] = text[k - 1] PROVE f[k] = text[k]
    <3>1. k \in 0 .. n /\ k # 0
      BY <1>0
    <3>2. text[k] = text[k - 1] \o Block(lock[k])
      BY <1>9, <3>1
    <3> QED BY <1>6, <2>2, <3>2
  <2>3. n \in Nat
    BY <1>0
  <2>4. Over(f, 0 .. n) /\ f[0] = text[0]
    BY <1>5, <2>1 DEF Over
  <2> HIDE DEF n
  <2>5. f = text
    BY <2>1, <2>2, <2>3, <2>4, SameUp
  <2> QED BY <2>5
<1> HIDE DEF step
<1> QED BY <1>5, <1>6, <1>10 DEF V, first

\* Where the n-th line of package k is.
At(lock, k, n) == Len(Texts(lock)[k - 1]) + n

LEMMA TextGrows ==
  ASSUME NEW lock, Len(lock) \in Nat, DOMAIN lock = 1 .. Len(lock), Rests(lock), NEW k \in 1 .. Len(lock)
  PROVE  /\ Len(Texts(lock)[k - 1]) \in Nat /\ Len(Texts(lock)[k]) \in Nat
         /\ Len(Texts(lock)[k]) = Len(Texts(lock)[k - 1]) + Len(Block(lock[k]))
         /\ Len(Block(lock[k])) \in Nat /\ 4 <= Len(Block(lock[k]))
         /\ \A x \in 1 .. Len(Texts(lock)[k - 1]) : Texts(lock)[k][x] = Texts(lock)[k - 1][x]
         /\ \A n \in 1 .. Len(Block(lock[k])) : Texts(lock)[k][At(lock, k, n)] = Block(lock[k])[n]
<1> DEFINE s == Texts(lock)[k - 1]
           t == Block(lock[k])
<1>0. Len(lock) \in Nat /\ DOMAIN lock = 1 .. Len(lock) /\ lock[k].rest \in Seq(RestLines)
  BY DEF IsList, Rests
<1>1. s \in Seq(LinesOf(lock)) /\ Texts(lock)[k] = s \o t
  <2>1. k - 1 \in 0 .. Len(lock)
    BY <1>0
  <2> QED BY <2>1, TextsAre
<1>2. t \in Seq(LinesOf(lock)) /\ Len(t) \in Nat /\ 4 <= Len(t)
  <2>1. lock[k] \in Range(lock)
    BY <1>0 DEF Range
  <2> QED BY <1>0, <2>1, BlockOfLines, BlockLen
<1> HIDE DEF s, t
<1>3. Len(s) \in Nat /\ Len(t) \in Nat /\ Len(s \o t) = Len(s) + Len(t)
  BY <1>1, <1>2
<1>4. \A x \in 1 .. Len(s) : (s \o t)[x] = s[x]
  BY <1>1, <1>2
<1>5. \A n \in 1 .. Len(t) : (s \o t)[Len(s) + n] = t[n]
  BY <1>1, <1>2
<1> QED BY <1>1, <1>2, <1>3, <1>4, <1>5 DEF s, t, At

LEMMA Grown ==
  ASSUME NEW lock, Len(lock) \in Nat, DOMAIN lock = 1 .. Len(lock), Rests(lock), NEW k \in 1 .. Len(lock)
  PROVE  /\ Len(Texts(lock)[k]) = Len(Texts(lock)[k - 1]) + Len(Block(lock[k]))
         /\ Len(Texts(lock)[k - 1]) \in Nat /\ Len(Block(lock[k])) \in Nat
         /\ \A x \in 1 .. Len(Texts(lock)[k - 1]) : Texts(lock)[k][x] = Texts(lock)[k - 1][x]
BY TextGrows

\* What is written stays.
LEMMA TextsStay ==
  ASSUME NEW lock, Len(lock) \in Nat, DOMAIN lock = 1 .. Len(lock), Rests(lock),
         NEW k \in 0 .. Len(lock), NEW l \in k .. Len(lock)
  PROVE  /\ Len(Texts(lock)[k]) <= Len(Texts(lock)[l])
         /\ \A x \in 1 .. Len(Texts(lock)[k]) : Texts(lock)[l][x] = Texts(lock)[k][x]
<1> DEFINE N == Len(lock)
           T == Texts(lock)
           Stays(o) == /\ Len(T[k]) <= Len(T[o])
                       /\ \A x \in 1 .. Len(T[k]) : T[o][x] = T[k][x]
           Good == {m \in 0 .. N - k : Stays(k + m)}
<1>0. N \in Nat /\ \A o \in 0 .. N : Len(T[o]) \in Nat
  BY TextsAre DEF IsList
<1>1. 0 \in Good
  BY <1>0
<1>2. ASSUME NEW m \in 0 .. (N - k) - 1, m \in Good PROVE m + 1 \in Good
  <2> DEFINE o == k + m + 1
  <2>1. o \in 1 .. N /\ o - 1 = k + m /\ k + m \in 0 .. N /\ k + (m + 1) = o /\ m + 1 \in 0 .. N - k
    BY <1>0
  <2>2. Stays(o - 1)
    BY <1>2, <2>1
  <2> HIDE DEF o
  <2>3. Len(T[o]) = Len(T[o - 1]) + Len(Block(lock[o])) /\ Len(Block(lock[o])) \in Nat
        /\ \A x \in 1 .. Len(T[o - 1]) : T[o][x] = T[o - 1][x]
    BY <2>1, Grown
  <2>4. Len(T[k]) \in Nat /\ Len(T[o - 1]) \in Nat
    <3>1. o - 1 \in 0 .. N
      BY <2>1
    <3> QED BY <1>0, <3>1
  <2> HIDE DEF T
  <2>5. Len(T[k]) <= Len(T[o])
    <3> DEFINE grown == Len(Block(lock[o]))
               before == Len(T[o - 1])
               start == Len(T[k])
    <3>1. start <= before
      BY <2>2
    <3>2. Len(T[o]) = before + grown /\ grown \in Nat /\ before \in Nat /\ start \in Nat
      BY <2>3, <2>4
    <3> HIDE DEF grown, before, start
    <3>3. start <= Len(T[o])
      BY <3>1, <3>2
    <3> QED BY <3>3 DEF start
  <2>6. ASSUME NEW x \in 1 .. Len(T[k]) PROVE T[o][x] = T[k][x]
    <3>1. T[o - 1][x] = T[k][x] /\ x \in 1 .. Len(T[o - 1])
      BY <2>2, <2>4
    <3> QED BY <2>3, <3>1
  <2>7. Stays(o)
    BY <2>5, <2>6
  <2> QED BY <2>1, <2>7
<1>3. N - k \in Nat
  BY <1>0
<1> HIDE DEF Good
<1>4. 0 .. N - k \subseteq Good
  BY <1>1, <1>2, <1>3, UpTo
<1>5. l - k \in Good
  BY <1>0, <1>3, <1>4
<1>6. Stays(k + (l - k)) /\ k + (l - k) = l
  BY <1>0, <1>5 DEF Good
<1>7. Stays(l)
  BY <1>6
<1> QED BY <1>7

LEMMA TextStays ==
  ASSUME NEW lock, Len(lock) \in Nat, DOMAIN lock = 1 .. Len(lock), Rests(lock), NEW k \in 0 .. Len(lock)
  PROVE  /\ Len(Texts(lock)[k]) \in Nat /\ Len(Texts(lock)[k]) <= Len(Lines(lock))
         /\ Len(Lines(lock)) \in Nat
         /\ \A x \in 1 .. Len(Texts(lock)[k]) : Lines(lock)[x] = Texts(lock)[k][x]
<1>1. Len(lock) \in k .. Len(lock) /\ Len(lock) \in 0 .. Len(lock)
  BY DEF IsList
<1>2. Len(Texts(lock)[k]) \in Nat /\ Len(Texts(lock)[Len(lock)]) \in Nat
  BY <1>1, TextsAre
<1> QED BY <1>1, <1>2, TextsStay DEF Lines

\* Every line but the first is a line of a package.
LEMMA PlacesOf ==
  ASSUME NEW lock, Len(lock) \in Nat, DOMAIN lock = 1 .. Len(lock), Rests(lock),
         NEW x \in 1 .. Len(Lines(lock)), x # 1
  PROVE  \E k \in 1 .. Len(lock) : \E n \in 1 .. Len(Block(lock[k])) : x = At(lock, k, n)
<1> DEFINE N == Len(lock)
           T == Texts(lock)
           Is(y) == \E l \in 1 .. N : \E n \in 1 .. Len(Block(lock[l])) : y = At(lock, l, n)
           Placed(k) == \A y \in 1 .. Len(T[k]) : y = 1 \/ Is(y)
           Good == {k \in 0 .. N : Placed(k)}
<1>0. N \in Nat
  BY DEF IsList
<1>1. 0 \in Good
  <2>1. T[0] = <<Format>>
    BY TextsAre
  <2>2. Len(T[0]) = 1
    BY <2>1, Zenon, LenOfOne
  <2> HIDE DEF T
  <2>3. Placed(0)
    BY <2>2
  <2> QED BY <1>0, <2>3
<1>2. ASSUME NEW m \in 0 .. N - 1, m \in Good PROVE m + 1 \in Good
  <2>1. m + 1 \in 1 .. N /\ (m + 1) - 1 = m /\ m + 1 \in 0 .. N
    BY <1>0
  <2>2. Placed(m)
    BY <1>2
  <2>3. /\ Len(T[m + 1]) = Len(T[m]) + Len(Block(lock[m + 1])) /\ Len(T[m]) \in Nat
        /\ Len(Block(lock[m + 1])) \in Nat
    BY <2>1, Grown
  <2>4. ASSUME NEW y \in 1 .. Len(T[m + 1]), y > Len(T[m])
        PROVE  Is(y)
    <3>1. y - Len(T[m]) \in 1 .. Len(Block(lock[m + 1])) /\ y = Len(T[m]) + (y - Len(T[m]))
      <4> DEFINE grown == Len(Block(lock[m + 1]))
                 before == Len(T[m])
      <4>1. Len(T[m + 1]) = before + grown /\ before \in Nat /\ grown \in Nat
        BY <2>3
      <4>2. y \in 1 .. before + grown /\ y > before
        BY <2>4, <4>1
      <4> HIDE DEF before, grown
      <4>3. y - before \in 1 .. grown /\ y = before + (y - before)
        BY <4>1, <4>2
      <4> QED BY <4>3 DEF before, grown
    <3>2. y = At(lock, m + 1, y - Len(T[m]))
      BY <2>1, <3>1 DEF At
    <3> QED BY <2>1, <3>1, <3>2
  <2>5. Placed(m + 1)
    <3> SUFFICES ASSUME NEW y \in 1 .. Len(T[m + 1]), y # 1 PROVE Is(y)
      OBVIOUS
    <3>1. y \in 1 .. Len(T[m]) \/ y > Len(T[m])
      BY <2>3
    <3> HIDE DEF Is
    <3> QED BY <2>2, <2>4, <3>1
  <2> QED BY <2>1, <2>5
<1> HIDE DEF Good
<1>3. 0 .. N \subseteq Good
  BY <1>0, <1>1, <1>2, UpTo
<1>4. Placed(N)
  BY <1>0, <1>3 DEF Good
<1> QED BY <1>4 DEF Lines

LEMMA LineAt ==
  ASSUME NEW lock, Len(lock) \in Nat, DOMAIN lock = 1 .. Len(lock), Rests(lock),
         NEW k \in 1 .. Len(lock), NEW n \in 1 .. Len(Block(lock[k]))
  PROVE  At(lock, k, n) \in 1 .. Len(Lines(lock)) /\ Lines(lock)[At(lock, k, n)] = Block(lock[k])[n]
<1>1. /\ Len(Texts(lock)[k]) = Len(Texts(lock)[k - 1]) + Len(Block(lock[k]))
      /\ Texts(lock)[k][At(lock, k, n)] = Block(lock[k])[n]
      /\ Len(Texts(lock)[k - 1]) \in Nat /\ Len(Block(lock[k])) \in Nat
  BY TextGrows
<1>2. k \in 0 .. Len(lock)
  BY DEF IsList
<1>3. /\ Len(Texts(lock)[k]) \in Nat /\ Len(Texts(lock)[k]) <= Len(Lines(lock))
      /\ Len(Lines(lock)) \in Nat
      /\ \A x \in 1 .. Len(Texts(lock)[k]) : Lines(lock)[x] = Texts(lock)[k][x]
  BY <1>2, TextStays
<1>4. At(lock, k, n) \in 1 .. Len(Texts(lock)[k])
  BY <1>1 DEF At
<1> QED BY <1>1, <1>3, <1>4

-----------------------------------------------------------------------------
(* Reading a lockfile.                                                       *)

Values(lines) == {lines[k][2] : k \in 1 .. Len(lines)} \union {""}
Blocks(lines) == [name : Values(lines), version : Values(lines), source : Values(lines)]
States(lines) == [packages : Seq(Blocks(lines)), cur : Blocks(lines), inside : BOOLEAN]

LEMMA Flushed ==
  ASSUME NEW S, NEW found \in Seq(S), NEW cur \in S
  PROVE  flush(found, cur) \in Seq(S)
<1>1. Append(found, cur) \in Seq(S)
  OBVIOUS
<1> QED BY <1>1, Zenon DEF flush

LEMMA ReadLineIs ==
  ASSUME NEW lines, Len(lines) \in Nat, NEW k \in 1 .. Len(lines), NEW state \in States(lines)
  PROVE  readLine(state, lines[k]) \in States(lines)
<1> DEFINE line == lines[k]
           V == Values(lines)
<1>1. line[2] \in V /\ "" \in V
  BY DEF Values
<1>2. /\ state.packages \in Seq(Blocks(lines)) /\ state.cur \in Blocks(lines)
      /\ state.inside \in BOOLEAN /\ NoBlock \in Blocks(lines)
  BY <1>1 DEF States, Blocks, NoBlock
<1> HIDE DEF line
<1>3. CASE line[1] = "table"
  <2>1. readLine(state, line) = [packages |-> flush(state.packages, state.cur), cur |-> NoBlock,
                                 inside |-> line[2] = "package"]
    BY <1>3 DEF readLine, NoBlock
  <2>2. flush(state.packages, state.cur) \in Seq(Blocks(lines))
    BY <1>2, Flushed
  <2> QED BY <1>2, <2>1, <2>2 DEF States, line
<1>4. CASE line[1] # "table" /\ state.inside /\ line[1] \in DOMAIN NoBlock
  <2>1. readLine(state, line) =
          [packages |-> state.packages, cur |-> [state.cur EXCEPT ![line[1]] = line[2]], inside |-> TRUE]
    BY <1>4 DEF readLine
  <2>2. [state.cur EXCEPT ![line[1]] = line[2]] \in Blocks(lines)
    BY <1>1, <1>2, <1>4 DEF Blocks, NoBlock
  <2> QED BY <1>2, <2>1, <2>2 DEF States, line
<1>5. CASE line[1] # "table" /\ ~(state.inside /\ line[1] \in DOMAIN NoBlock)
  BY <1>5 DEF readLine, line
<1> QED BY <1>3, <1>4, <1>5

LEMMA ReadsAre ==
  ASSUME NEW lines, Len(lines) \in Nat
  PROVE  /\ Reads(lines) \in [0 .. Len(lines) -> States(lines)]
         /\ Reads(lines)[0] = Begin
         /\ \A k \in 1 .. Len(lines) : Reads(lines)[k] = readLine(Reads(lines)[k - 1], lines[k])
<1> DEFINE n == Len(lines)
           V == States(lines)
           step == [k \in 1 .. n |-> [v \in V |-> readLine(v, lines[k])]]
           Is(f) == f = [k \in 0 .. n |-> IF k = 0 THEN Begin ELSE readLine(f[k - 1], lines[k])]
           state == Reads(lines)
<1>1. Begin \in V
  <2>1. "" \in Values(lines)
    BY DEF Values
  <2>2. NoBlock \in Blocks(lines)
    BY <2>1 DEF Blocks, NoBlock
  <2>3. <<>> \in Seq(Blocks(lines))
    OBVIOUS
  <2> QED BY <2>2, <2>3 DEF States, Begin
<1>2. step \in [1 .. n -> [V -> V]]
  <2>1. \A k \in 1 .. n, v \in V : readLine(v, lines[k]) \in V
    BY ReadLineIs
  <2> HIDE DEF V
  <2> QED BY <2>1
<1> HIDE DEF V
<1>4. PICK f : Forth(f, n, V, Begin, step)
  <2> HIDE DEF step
  <2>1. n \in Nat
    OBVIOUS
  <2> HIDE DEF n
  <2> QED BY <1>1, <1>2, <2>1, Iterated
<1>5. f \in [0 .. n -> V] /\ f[0] = Begin /\ \A k \in 1 .. n : f[k] = step[k][f[k - 1]]
  <2> HIDE DEF step, n
  <2> QED BY <1>4 DEF Forth
<1>6. ASSUME NEW k \in 1 .. n PROVE f[k] = readLine(f[k - 1], lines[k])
  <2>1. k - 1 \in 0 .. n
    OBVIOUS
  <2> QED BY <1>5, <2>1
<1>7. Is(f)
  <2> HIDE DEF step
  <2>1. \A k \in 0 .. n : f[k] = IF k = 0 THEN Begin ELSE readLine(f[k - 1], lines[k])
    <3> SUFFICES ASSUME NEW k \in 0 .. n
                 PROVE  f[k] = IF k = 0 THEN Begin ELSE readLine(f[k - 1], lines[k])
      OBVIOUS
    <3>1. CASE k = 0
      BY <1>5, <3>1
    <3>2. CASE k # 0
      <4>1. k \in 1 .. n
        BY <3>2
      <4>2. f[k] = readLine(f[k - 1], lines[k])
        BY <1>6, <4>1
      <4> QED BY <3>2, <4>2
    <3> QED BY <3>1, <3>2
  <2> QED BY <1>5, <2>1
<1>8. state = CHOOSE g : Is(g)
  BY DEF Reads
<1>9. Is(state)
  <2> HIDE DEF Is, state
  <2> QED BY <1>7, <1>8
<1>10. state = f
  <2> HIDE DEF state, step
  <2>1. Over(state, 0 .. n) /\ state[0] = Begin
    BY <1>9 DEF Over
  <2>2. ASSUME NEW k \in 1 .. n, f[k - 1] = state[k - 1] PROVE f[k] = state[k]
    <3>1. k \in 0 .. n /\ k # 0
      OBVIOUS
    <3>2. state[k] = readLine(state[k - 1], lines[k])
      BY <1>9, <3>1
    <3> QED BY <1>6, <2>2, <3>2
  <2>3. n \in Nat
    OBVIOUS
  <2>4. Over(f, 0 .. n) /\ f[0] = state[0]
    BY <1>5, <2>1 DEF Over
  <2> HIDE DEF n
  <2>5. f = state
    BY <2>1, <2>2, <2>3, <2>4, SameUp
  <2> QED BY <2>5
<1> HIDE DEF step
<1> QED BY <1>5, <1>6, <1>10 DEF V

Reading(found, name, version, source) ==
  [packages |-> found, cur |-> [name |-> name, version |-> version, source |-> source], inside |-> TRUE]

LEMMA TableRead ==
  ASSUME NEW state, NEW line, line[1] = "table"
  PROVE  readLine(state, line) = [packages |-> flush(state.packages, state.cur), cur |-> NoBlock,
                                  inside |-> line[2] = "package"]
BY DEF readLine, NoBlock

LEMMA Kinds ==
  /\ "table" \notin {"name", "version", "source", "rest", "blank"} /\ "package" # "patch.unused"
  /\ DOMAIN NoBlock = {"name", "version", "source"} /\ "format" \notin DOMAIN NoBlock
  /\ "rest" \notin DOMAIN NoBlock /\ "blank" \notin DOMAIN NoBlock
  /\ "table" # "format"
BY DEF NoBlock

\* What each line of a block does.
LEMMA HeaderReads ==
  ASSUME NEW p, NEW state
  PROVE  readLine(state, Header(p)) = [packages |-> flush(state.packages, state.cur), cur |-> NoBlock,
                                       inside |-> p.source # "unused"]
<1>1. Header(p)[1] = "table" /\ (Header(p)[2] = "package" <=> p.source # "unused")
  BY Kinds DEF Header
<1>2. readLine(state, Header(p)) = [packages |-> flush(state.packages, state.cur), cur |-> NoBlock,
                                    inside |-> Header(p)[2] = "package"]
  BY <1>1, TableRead
<1>3. (Header(p)[2] = "package") = (p.source # "unused")
  BY <1>1
<1> QED BY <1>2, <1>3, Zenon

LEMMA NameReads ==
  ASSUME NEW p, NEW found, NEW name, NEW version, NEW source
  PROVE  readLine(Reading(found, name, version, source), Name(p)) = Reading(found, p.name, version, source)
<1> DEFINE s == Reading(found, name, version, source)
           cur == [name |-> name, version |-> version, source |-> source]
<1>1. s.inside /\ s.cur = cur /\ s.packages = found
  BY DEF Reading
<1>2. [cur EXCEPT !["name"] = p.name] = [name |-> p.name, version |-> version, source |-> source]
  OBVIOUS
<1>3. readLine(s, Name(p)) = [packages |-> found, cur |-> [cur EXCEPT !["name"] = p.name], inside |-> TRUE]
  <2> HIDE DEF cur, s
  <2> QED BY <1>1, Kinds DEF readLine, Name
<1> QED BY <1>2, <1>3 DEF Reading

LEMMA VersionReads ==
  ASSUME NEW p, NEW found, NEW name, NEW version, NEW source
  PROVE  readLine(Reading(found, name, version, source), Version(p)) = Reading(found, name, p.version, source)
<1> DEFINE s == Reading(found, name, version, source)
           cur == [name |-> name, version |-> version, source |-> source]
<1>1. s.inside /\ s.cur = cur /\ s.packages = found
  BY DEF Reading
<1>2. [cur EXCEPT !["version"] = p.version] = [name |-> name, version |-> p.version, source |-> source]
  OBVIOUS
<1>3. readLine(s, Version(p)) = [packages |-> found, cur |-> [cur EXCEPT !["version"] = p.version], inside |-> TRUE]
  <2> HIDE DEF cur, s
  <2> QED BY <1>1, Kinds DEF readLine, Version
<1> QED BY <1>2, <1>3 DEF Reading

LEMMA SourceReads ==
  ASSUME NEW p, NEW found, NEW name, NEW version, NEW source
  PROVE  readLine(Reading(found, name, version, source), Source(p)) = Reading(found, name, version, p.source)
<1> DEFINE s == Reading(found, name, version, source)
           cur == [name |-> name, version |-> version, source |-> source]
<1>1. s.inside /\ s.cur = cur /\ s.packages = found
  BY DEF Reading
<1>2. [cur EXCEPT !["source"] = p.source] = [name |-> name, version |-> version, source |-> p.source]
  OBVIOUS
<1>3. readLine(s, Source(p)) = [packages |-> found, cur |-> [cur EXCEPT !["source"] = p.source], inside |-> TRUE]
  <2> HIDE DEF cur, s
  <2> QED BY <1>1, Kinds DEF readLine, Source
<1> QED BY <1>2, <1>3 DEF Reading

LEMMA RestReads ==
  ASSUME NEW line \in RestLines \union {Blank}, NEW state
  PROVE  readLine(state, line) = state
<1>1. line[1] \in {"rest", "blank"}
  BY DEF RestLines, Blank
<1> QED BY <1>1, Kinds DEF readLine

LEMMA OutsideReads ==
  ASSUME NEW p, NEW state, state.inside = FALSE
  PROVE  readLine(state, Name(p)) = state /\ readLine(state, Version(p)) = state
         /\ readLine(state, Format) = state
BY Kinds DEF readLine, Name, Version, Format

\* What has been read of a package at the end of its block.
CurOf(p) == IF p.source = "unused" THEN NoBlock
            ELSE [name |-> p.name, version |-> p.version,
                  source |-> IF p.source = "workspace" THEN "" ELSE p.source]

AfterBlock(state, p) == [packages |-> flush(state.packages, state.cur), cur |-> CurOf(p),
                         inside |-> p.source # "unused"]

LEMMA BlockReads ==
  ASSUME NEW lock, Len(lock) \in Nat, DOMAIN lock = 1 .. Len(lock), Rests(lock), NEW k \in 1 .. Len(lock)
  PROVE  Reads(Lines(lock))[Len(Texts(lock)[k])]
           = AfterBlock(Reads(Lines(lock))[Len(Texts(lock)[k - 1])], lock[k])
<1> DEFINE p == lock[k]
           R == Reads(Lines(lock))
           x == Len(Texts(lock)[k - 1])
           found == flush(R[x].packages, R[x].cur)
           length == Len(Block(p))
           top == Len(Top(p))
           rest == Len(p.rest)
<1>0. p.rest \in Seq(RestLines)
  BY DEF Rests
<1>1. /\ x \in Nat /\ Len(Texts(lock)[k]) = x + length /\ length = top + rest + 1
      /\ top \in {3, 4} /\ rest \in Nat
  BY <1>0, TextGrows, BlockIs, TopIs
<1>2. ASSUME NEW n \in 1 .. length PROVE R[x + n] = readLine(R[x + (n - 1)], Block(p)[n])
  <2>1. x + n \in 1 .. Len(Lines(lock)) /\ Lines(lock)[x + n] = Block(p)[n]
    BY LineAt DEF At
  <2>2. Len(Lines(lock)) \in Nat
    <3>1. k \in 0 .. Len(lock)
      OBVIOUS
    <3> QED BY <3>1, TextStays
  <2>3. (x + n) - 1 = x + (n - 1)
    BY <1>1
  <2>4. R[x + n] = readLine(R[(x + n) - 1], Lines(lock)[x + n])
    <3> HIDE DEF x
    <3> QED BY <2>1, <2>2, ReadsAre
  <2> QED BY <2>1, <2>3, <2>4
<1>3. R[x + 0] = R[x]
  BY <1>1
<1>4. ASSUME NEW m \in 1 .. rest + 1 PROVE Block(p)[top + m] \in RestLines \union {Blank}
  <2>1. CASE m \in 1 .. rest
    <3>1. Block(p)[top + m] = p.rest[m]
      BY <1>0, <2>1, BlockIs
    <3>2. p.rest[m] \in RestLines
      BY <1>0, <2>1
    <3> QED BY <3>1, <3>2
  <2>2. CASE m = rest + 1
    <3>1. Block(p)[top + rest + 1] = Blank
      BY <1>0, BlockIs
    <3>2. top + m = top + rest + 1
      BY <1>1, <2>2
    <3> QED BY <3>1, <3>2
  <2> QED BY <1>1, <2>1, <2>2
<1>5. Block(p)[1] = Header(p) /\ Block(p)[2] = Name(p) /\ Block(p)[3] = Version(p)
  BY <1>0, BlockLen
<1>6. top = 4 => Block(p)[4] = Source(p)
  <2>1. top = 4 => 4 \in 1 .. top
    BY <1>1
  <2>2. \A n \in 1 .. top : Block(p)[n] = Top(p)[n]
    BY <1>0, BlockIs
  <2>3. top = 4 => Top(p)[4] = Source(p)
    BY TopIs
  <2> QED BY <2>1, <2>2, <2>3
<1>7. /\ p.source \in {"workspace", "unused"} => top = 3
      /\ p.source \notin {"workspace", "unused"} => top = 4
  BY TopIs
<1> HIDE DEF R, x, p, length, top, rest
\* The lines behind the source change nothing.
<1>8. R[x + length] = R[x + top]
  <2> DEFINE Same == {m \in 0 .. rest + 1 : R[x + (top + m)] = R[x + top]}
  <2>1. 0 \in Same
    BY <1>1
  <2>2. ASSUME NEW m \in 0 .. (rest + 1) - 1, m \in Same PROVE m + 1 \in Same
    <3>1. m + 1 \in 1 .. rest + 1 /\ m + 1 \in 0 .. rest + 1 /\ top + (m + 1) \in 1 .. length
          /\ (top + (m + 1)) - 1 = top + m
      BY <1>1
    <3>2. R[x + (top + (m + 1))] = readLine(R[x + (top + m)], Block(p)[top + (m + 1)])
      BY <1>2, <3>1
    <3>3. R[x + (top + (m + 1))] = R[x + (top + m)]
      BY <1>4, <3>1, <3>2, RestReads
    <3> QED BY <2>2, <3>1, <3>3
  <2>3. rest + 1 \in Nat
    BY <1>1
  <2> HIDE DEF Same
  <2>4. 0 .. rest + 1 \subseteq Same
    BY <2>1, <2>2, <2>3, UpTo
  <2>5. rest + 1 \in Same
    BY <2>3, <2>4
  <2>6. top + (rest + 1) = length
    BY <1>1
  <2> QED BY <2>5, <2>6 DEF Same
<1>9. R[x + 1] = [packages |-> found, cur |-> NoBlock, inside |-> p.source # "unused"]
  <2>1. 1 \in 1 .. length /\ 1 - 1 = 0
    BY <1>1
  <2>2. R[x + 1] = readLine(R[x], Header(p))
    BY <1>2, <1>3, <1>5, <2>1
  <2> QED BY <2>2, HeaderReads
<1>10. /\ R[x + 2] = readLine(R[x + 1], Name(p)) /\ R[x + 3] = readLine(R[x + 2], Version(p))
       /\ top = 4 => R[x + 4] = readLine(R[x + 3], Source(p))
  <2>1. 2 \in 1 .. length /\ 2 - 1 = 1 /\ 3 \in 1 .. length /\ 3 - 1 = 2 /\ (top = 4 => 4 \in 1 .. length) /\ 4 - 1 = 3
    BY <1>1
  <2> HIDE DEF found
  <2>2. R[x + 2] = readLine(R[x + 1], Name(p))
    BY <1>2, <1>5, <2>1
  <2>3. R[x + 3] = readLine(R[x + 2], Version(p))
    BY <1>2, <1>5, <2>1
  <2>4. top = 4 => R[x + 4] = readLine(R[x + 3], Source(p))
    BY <1>2, <1>6, <2>1
  <2> QED BY <2>2, <2>3, <2>4
<1> DEFINE end == Len(Texts(lock)[k])
<1>11. end = x + length
  BY <1>1
<1> HIDE DEF found, end
<1>12. CASE p.source = "unused"
  <2>1. R[x + 1] = [packages |-> found, cur |-> NoBlock, inside |-> FALSE]
    <3>1. (p.source # "unused") = FALSE
      BY <1>12
    <3> QED BY <1>9, <3>1
  <2>2. R[x + 1].inside = FALSE
    BY <2>1
  <2>3. R[x + 3] = R[x + 1]
    BY <1>10, <2>2, OutsideReads
  <2>4. top = 3
    BY <1>7, <1>12
  <2>5. R[end] = [packages |-> found, cur |-> NoBlock, inside |-> FALSE]
    BY <1>8, <1>11, <2>1, <2>3, <2>4
  <2> QED BY <1>12, <2>5 DEF AfterBlock, CurOf, found, R, x, p, end
<1>13. CASE p.source # "unused"
  <2> DEFINE none == ""
  <2>1. R[x + 1] = Reading(found, none, none, none)
    BY <1>9, <1>13 DEF Reading, NoBlock
  <2> HIDE DEF none
  <2>2. R[x + 2] = Reading(found, p.name, none, none)
    BY <1>10, <2>1, NameReads
  <2>3. R[x + 3] = Reading(found, p.name, p.version, none)
    BY <1>10, <2>2, VersionReads
  <2>4. CASE p.source = "workspace"
    <3>1. top = 3
      BY <1>7, <2>4
    <3>2. R[end] = Reading(found, p.name, p.version, none)
      BY <1>8, <1>11, <2>3, <3>1
    <3> QED BY <2>4, <3>2 DEF AfterBlock, CurOf, Reading, found, R, x, p, none, end
  <2>5. CASE p.source # "workspace"
    <3>1. top = 4
      BY <1>7, <1>13, <2>5
    <3>2. R[end] = Reading(found, p.name, p.version, p.source)
      BY <1>8, <1>10, <1>11, <2>3, <3>1, SourceReads
    <3> QED BY <1>13, <2>5, <3>2 DEF AfterBlock, CurOf, Reading, found, R, x, p, end
  <2> QED BY <2>4, <2>5
<1> QED BY <1>12, <1>13

\* What is read of a package of a registry.
ReadAs(p) == [name |-> p.name, version |-> p.version, source |-> p.source]

LEMMA FlushedRange ==
  ASSUME NEW S, NEW found \in Seq(S), NEW p \in Entries
  PROVE  Range(flush(found, CurOf(p)))
           = Range(found) \union (IF p.source \in Registries THEN {ReadAs(p)} ELSE {})
<1>1. p.name # "" /\ p.version # ""
  BY DEF Entries
<1>2. "unused" \notin Registries /\ "workspace" \notin Registries /\ "" \notin Registries
  BY DEF Registries
<1>3. CASE p.source \in Registries
  <2> DEFINE q == ReadAs(p)
  <2>1. CurOf(p) = q
    BY <1>2, <1>3 DEF CurOf, ReadAs
  <2>2. "" \notin {q.name, q.version} /\ q.source = p.source
    BY <1>1 DEF ReadAs
  <2> HIDE DEF q
  <2>3. flush(found, CurOf(p)) = Append(found, q)
    BY <1>3, <2>1, <2>2 DEF flush
  <2>4. Range(Append(found, q)) = Range(found) \union {q}
    <3>1. Len(found) \in Nat /\ DOMAIN found = 1 .. Len(found)
      OBVIOUS
    <3>2. DOMAIN Append(found, q) = 1 .. Len(found) + 1 /\ Append(found, q)[Len(found) + 1] = q
          /\ \A k \in 1 .. Len(found) : Append(found, q)[k] = found[k]
      OBVIOUS
    <3> DEFINE more == Append(found, q)
    <3> HIDE DEF more
    <3>3. 1 .. Len(found) + 1 = (1 .. Len(found)) \union {Len(found) + 1}
      BY <3>1
    <3>4. Range(more) = Range(found) \union {q}
      BY <3>1, <3>2, <3>3 DEF Range, more
    <3> QED BY <3>4 DEF more
  <2> USE DEF q
  <2> QED BY <1>3, <2>3, <2>4
<1>4. CASE p.source \notin Registries
  <2>1. CurOf(p).source \notin Registries \/ CurOf(p).name = ""
    BY <1>2, <1>4 DEF CurOf, NoBlock
  <2>2. flush(found, CurOf(p)) = found
    BY <2>1, Zenon DEF flush
  <2> QED BY <1>4, <2>2
<1> QED BY <1>3, <1>4

\* What parseCargoLock keeps.
FromRegistry(lock) == {ReadAs(p) : p \in {q \in Range(lock) : q.source \in Registries}}

LEMMA ParseIs ==
  ASSUME NEW lock \in Seq(Entries)
  PROVE  /\ parseCargoLock(Lines(lock)) \in Seq(Blocks(Lines(lock)))
         /\ Range(parseCargoLock(Lines(lock))) = FromRegistry(lock)
<1> DEFINE N == Len(lock)
           T == Texts(lock)
           lines == Lines(lock)
           R == Reads(lines)
           Found(k) == Range(flush(R[Len(T[k])].packages, R[Len(T[k])].cur))
           Upto(k) == {ReadAs(lock[l]) : l \in {m \in 1 .. k : lock[m].source \in Registries}}
           Good == {k \in 0 .. N : Found(k) = Upto(k)}
<1>1. N \in Nat /\ DOMAIN lock = 1 .. N /\ (\A k \in 1 .. N : lock[k] \in Entries) /\ Rests(lock)
  <2>1. N \in Nat /\ DOMAIN lock = 1 .. N /\ \A k \in 1 .. N : lock[k] \in Entries
    OBVIOUS
  <2>2. \A q \in Entries : q.rest \in Seq(RestLines)
    BY DEF Entries
  <2> QED BY <2>1, <2>2 DEF Rests
<1>2. Len(lines) \in Nat /\ \A k \in 0 .. N : Len(T[k]) \in 0 .. Len(lines)
  <2>1. 0 \in 0 .. N
    BY <1>1
  <2>2. Len(lines) \in Nat /\ \A k \in 0 .. N : Len(T[k]) \in Nat /\ Len(T[k]) <= Len(lines)
    BY <1>1, <2>1, TextStays
  <2> HIDE DEF T, lines, N
  <2> QED BY <2>2
<1>3. R \in [0 .. Len(lines) -> States(lines)] /\ R[0] = Begin
      /\ \A k \in 1 .. Len(lines) : R[k] = readLine(R[k - 1], lines[k])
  BY <1>2, ReadsAre
<1>4. \A k \in 0 .. N : R[Len(T[k])].packages \in Seq(Blocks(lines))
                        /\ R[Len(T[k])].cur \in Blocks(lines)
  <2> HIDE DEF R, T, lines
  <2> QED BY <1>2, <1>3 DEF States
<1>5. 0 \in Good
  <2>1. T[0] = <<Format>>
    BY <1>1, TextsAre
  <2>2. Len(T[0]) = 1 /\ T[0][1] = Format
    <3> HIDE DEF T
    <3> QED BY <2>1
  <2>3. lines[1] = Format /\ 1 \in 1 .. Len(lines)
    <3>1. 0 \in 0 .. N
      BY <1>1
    <3>2. lines[1] = T[0][1]
      <4>1. 1 \in 1 .. Len(T[0])
        <5> HIDE DEF T
        <5> QED BY <2>2
      <4> QED BY <1>1, <3>1, <4>1, TextStays
    <3>3. Len(T[0]) <= Len(lines)
      BY <1>2, <3>1
    <3> QED BY <1>2, <2>2, <3>2, <3>3
  <2>4. R[1] = readLine(Begin, Format)
    <3> HIDE DEF R, lines
    <3> QED BY <1>3, <2>3
  <2>5. R[1] = Begin
    <3>1. Begin.inside = FALSE
      BY DEF Begin
    <3> HIDE DEF R
    <3> QED BY <2>4, <3>1, OutsideReads
  <2>6. Found(0) = Range(flush(<<>>, NoBlock))
    <3> HIDE DEF R, T, lines
    <3> QED BY <2>2, <2>5 DEF Begin
  <2>7. flush(<<>>, NoBlock) = <<>>
    BY DEF flush, NoBlock
  <2>8. Range(<<>>) = {}
    BY DEF Range
  <2>9. Upto(0) = {}
    OBVIOUS
  <2> HIDE DEF Found, Upto
  <2>10. Found(0) = Upto(0)
    BY <2>6, <2>7, <2>8, <2>9
  <2> QED BY <1>1, <2>10
<1>6. ASSUME NEW m \in 0 .. N - 1, m \in Good PROVE m + 1 \in Good
  <2> DEFINE k == m + 1
  <2>1. k \in 1 .. N /\ k - 1 = m /\ k \in 0 .. N
    BY <1>1
  <2>2. lock[k] \in Entries
    BY <1>1, <2>1
  <2>3. R[Len(T[k])] = AfterBlock(R[Len(T[k - 1])], lock[k])
    BY <1>1, <2>1, BlockReads
  <2> DEFINE found == flush(R[Len(T[m])].packages, R[Len(T[m])].cur)
  <2>4. found \in Seq(Blocks(lines))
    <3>1. m \in 0 .. N
      BY <1>1
    <3> HIDE DEF R, T, lines, N
    <3> QED BY <1>4, <3>1, Flushed
  <2>5. Found(k) = Range(flush(found, CurOf(lock[k])))
    <3>1. R[Len(T[k])] = AfterBlock(R[Len(T[m])], lock[k])
      BY <2>1, <2>3
    <3> HIDE DEF R, T, lines, k
    <3> QED BY <3>1 DEF AfterBlock
  <2>6. Found(k) = Range(found) \union (IF lock[k].source \in Registries THEN {ReadAs(lock[k])} ELSE {})
    <3> HIDE DEF found, Found, k, lines
    <3> QED BY <2>2, <2>4, <2>5, FlushedRange
  <2>7. Range(found) = Upto(m)
    BY <1>6
  <2> HIDE DEF Found, found
  <2>8. Upto(k) = Upto(m) \union (IF lock[k].source \in Registries THEN {ReadAs(lock[k])} ELSE {})
    <3>1. 1 .. k = (1 .. m) \union {k}
      BY <1>1
    <3> HIDE DEF k
    <3> QED BY <3>1
  <2> HIDE DEF Upto
  <2>9. Found(k) = Upto(k)
    BY <2>6, <2>7, <2>8
  <2> QED BY <2>1, <2>9
<1> HIDE DEF Good
<1>7. 0 .. N \subseteq Good
  BY <1>1, <1>5, <1>6, UpTo
<1>8. Found(N) = Upto(N)
  BY <1>1, <1>7 DEF Good
<1>9. Upto(N) = FromRegistry(lock)
  BY <1>1 DEF FromRegistry, Range
<1>10. parseCargoLock(lines) = flush(R[Len(T[N])].packages, R[Len(T[N])].cur)
  BY DEF parseCargoLock, readAll, Lines
<1>11. parseCargoLock(lines) \in Seq(Blocks(lines))
  <2>1. N \in 0 .. N
    BY <1>1
  <2> HIDE DEF R, T, lines, N
  <2> QED BY <1>4, <1>10, <2>1, Flushed
<1> HIDE DEF Upto
<1>12. Range(parseCargoLock(lines)) = FromRegistry(lock)
  BY <1>8, <1>9, <1>10
<1> QED BY <1>11, <1>12

-----------------------------------------------------------------------------
(* The verdicts of a run.                                                    *)

\* What the program knows of a pin while it scans is what the store has.
Known(pin) == \/ pin \in DOMAIN known /\ Fresh(pin) = rows[pin]
              \/ pin \in DOMAIN results /\ results[pin] = rows[pin]
Covered == \A pin \in Range(added) \intersect DOMAIN rows : Known(pin)

\* Pass 1 has pins without a row, pass 2 those whose verdict was read before.
PassesInv ==
  /\ todo \subseteq Range(added) \ (DOMAIN rows \union DOMAIN known)
  /\ due \subseteq DOMAIN known /\ DOMAIN known \subseteq DOMAIN rows

ScanInv == phase \in {"scanning", "rechecking", "reported"} => Covered /\ PassesInv

\* The report is made of all verdicts.
ReportInv ==
  phase = "reported" => /\ report.exitCode = (IF suspicious = {} THEN 0 ELSE 1)
                        /\ report.summary = Summary

Inv == ScanInv /\ ReportInv

LEMMA StartsCovered == ASSUME Inv, StartScan PROVE Inv'
<1>1. /\ phase' = "scanning" /\ rows' = rows /\ added' = added
      /\ known' = [pin \in Range(added) \intersect DOMAIN rows |-> rows[pin]]
      /\ todo' = {pin \in All : ~Recorded(pin)}
      /\ due' \in {{}, {pin \in All : Recorded(pin)}}
      /\ rechecked' = Empty
  BY DEF StartScan, diffing
<1>2. All \subseteq Range(added)
  BY DEF All
<1>3. DOMAIN known' = Range(added) \intersect DOMAIN rows /\ DOMAIN rechecked' = {}
  BY <1>1 DEF Empty
<1>4. PassesInv'
  BY <1>1, <1>2, <1>3 DEF PassesInv, Recorded
<1>5. Covered'
  BY <1>1, <1>3 DEF Covered, Known, Fresh
<1> QED BY <1>1, <1>4, <1>5 DEF Inv, ScanInv, ReportInv

LEMMA CheckInv == ASSUME Inv, NEW pin, Check(pin) PROVE Inv'
<1>1. /\ phase = "scanning" /\ pin \in todo /\ todo' = todo \ {pin}
      /\ phase' = phase /\ added' = added /\ due' = due /\ known' = known
      /\ rechecked' = rechecked
  BY DEF Check, diffing
<1>2. PICK verdict : /\ results' = With(results, pin, verdict)
                     /\ rows' = rows \/ rows' = With(rows, pin, verdict)
  BY DEF Check
<1>3. Covered /\ PassesInv
  BY <1>1 DEF Inv, ScanInv
<1>4. pin \notin DOMAIN rows /\ pin \notin DOMAIN known
  BY <1>1, <1>3 DEF PassesInv
<1>5. DOMAIN rows \subseteq DOMAIN rows' /\ DOMAIN rows' \subseteq DOMAIN rows \union {pin}
  BY <1>2 DEF With
<1>6. PassesInv'
  BY <1>1, <1>3, <1>4, <1>5 DEF PassesInv
<1>7. Covered'
  <2> SUFFICES ASSUME NEW q \in Range(added) \intersect DOMAIN rows' PROVE Known(q)'
    BY <1>1 DEF Covered
  <2>1. CASE q = pin
    <3>1. rows' = With(rows, pin, verdict)
      BY <1>2, <1>4, <2>1
    <3> QED BY <1>2, <2>1, <3>1 DEF With, Known
  <2>2. CASE q # pin
    <3>1. q \in DOMAIN rows /\ rows'[q] = rows[q]
      BY <1>2, <1>5, <2>2 DEF With
    <3>2. Known(q)
      BY <1>3, <3>1 DEF Covered
    <3>3. q \in DOMAIN results => q \in DOMAIN results' /\ results'[q] = results[q]
      BY <1>2, <2>2 DEF With
    <3>4. Fresh(q)' = Fresh(q)
      BY <1>1 DEF Fresh
    <3> QED BY <1>1, <3>1, <3>2, <3>3, <3>4 DEF Known
  <2> QED BY <2>1, <2>2
<1> QED BY <1>1, <1>6, <1>7 DEF Inv, ScanInv, ReportInv

LEMMA RecheckInv == ASSUME Inv, NEW pin, Recheck(pin) PROVE Inv'
<1>1. /\ phase = "rechecking" /\ pin \in due /\ due' = due \ {pin}
      /\ phase' = phase /\ added' = added /\ todo' = todo /\ known' = known
      /\ results' = results
  BY DEF Recheck, diffing
<1>2. Covered /\ PassesInv
  BY <1>1 DEF Inv, ScanInv
<1>3. pin \in DOMAIN known /\ pin \in DOMAIN rows
  BY <1>1, <1>2 DEF PassesInv
<1>4. CASE rows' = rows /\ rechecked' = rechecked
  <2>1. PassesInv' /\ Covered'
    BY <1>1, <1>2, <1>4 DEF PassesInv, Covered, Known, Fresh
  <2> QED BY <1>1, <2>1 DEF Inv, ScanInv, ReportInv
<1>5. ASSUME NEW verdict, rows' = With(rows, pin, verdict), rechecked' = With(rechecked, pin, verdict)
      PROVE  Inv'
  <2>1. DOMAIN rows' = DOMAIN rows
    BY <1>3, <1>5 DEF With
  <2>2. PassesInv'
    BY <1>1, <1>2, <2>1 DEF PassesInv
  <2>3. ASSUME NEW q \in Range(added) \intersect DOMAIN rows PROVE Known(q)'
    <3>1. CASE q = pin
      BY <1>1, <1>3, <1>5, <3>1 DEF With, Known, Fresh
    <3>2. CASE q # pin
      <4>1. rows'[q] = rows[q] /\ Fresh(q)' = Fresh(q)
        <5>1. q \in DOMAIN rechecked <=> q \in DOMAIN rechecked'
          BY <1>5, <3>2 DEF With
        <5>2. q \in DOMAIN rechecked => rechecked'[q] = rechecked[q]
          BY <1>5, <3>2 DEF With
        <5>3. rows'[q] = rows[q]
          BY <1>5, <3>2, <2>3 DEF With
        <5> QED BY <1>1, <5>1, <5>2, <5>3 DEF Fresh
      <4>2. Known(q)
        BY <1>2 DEF Covered
      <4> QED BY <1>1, <4>1, <4>2 DEF Known
    <3> QED BY <3>1, <3>2
  <2>4. Covered'
    BY <1>1, <2>1, <2>3 DEF Covered
  <2> QED BY <1>1, <2>2, <2>4 DEF Inv, ScanInv, ReportInv
<1> QED BY <1>4, <1>5 DEF Recheck

LEMMA SameScan ==
  ASSUME Covered, PassesInv, UNCHANGED <<added, todo, due, known, results, rechecked, rows>>
  PROVE  Covered' /\ PassesInv'
BY DEF Covered, Known, Fresh, PassesInv

LEMMA RestInv ==
  ASSUME Inv, \/ Context \/ RemovedLine \/ AddedName \/ AddedVersion \/ AddedOther \/ NoDiff
              \/ StartRecheck \/ Report \/ Rerun \/ (\E pin : Withdraw(pin)) \/ UNCHANGED vars
  PROVE  Inv'
<1>1. CASE Context \/ RemovedLine \/ AddedName \/ AddedVersion \/ AddedOther \/ NoDiff \/ Rerun
  <2>1. phase' \in {"diffing", "nothing added"}
    BY <1>1 DEF Context, RemovedLine, AddedName, AddedVersion, AddedOther, AddsLine, Diffs,
       NoDiff, Rerun
  <2> QED BY <2>1 DEF Inv, ScanInv, ReportInv
<1>2. CASE StartRecheck
  <2>1. phase = "scanning" /\ phase' = "rechecking"
        /\ UNCHANGED <<added, todo, due, known, results, rechecked, rows>>
    BY <1>2 DEF StartRecheck, diffing, scanning
  <2> QED BY <2>1, SameScan DEF Inv, ScanInv, ReportInv
<1>3. CASE Report
  <2>1. phase = "rechecking" /\ phase' = "reported"
        /\ UNCHANGED <<added, todo, due, known, results, rechecked, rows>>
        /\ report' = [scanned |-> Scanned, exitCode |-> IF suspicious = {} THEN 0 ELSE 1,
                      summary |-> Summary]
    BY <1>3 DEF Report, diffing, scanning
  <2>2. suspicious' = suspicious /\ Summary' = Summary
    BY <2>1 DEF suspicious, Scanned, Fresh, Summary
  <2>3. ReportInv'
    BY <2>1, <2>2 DEF ReportInv
  <2> QED BY <2>1, <2>3, SameScan DEF Inv, ScanInv
<1>4. CASE (\E pin : Withdraw(pin)) \/ UNCHANGED vars
  <2>1. UNCHANGED <<phase, report, added, todo, due, known, results, rechecked, rows>>
    BY <1>4 DEF Withdraw, vars, diffing, scanning
  <2>2. suspicious' = suspicious /\ Summary' = Summary
    BY <2>1 DEF suspicious, Scanned, Fresh, Summary
  <2>3. ReportInv'
    BY <2>1, <2>2 DEF Inv, ReportInv
  <2>4. ScanInv'
    BY <2>1, SameScan DEF Inv, ScanInv
  <2> QED BY <2>3, <2>4 DEF Inv
<1> QED BY <1>1, <1>2, <1>3, <1>4

THEOREM VerdictsAreKnown == Spec => []Inv
<1>1. Init => Inv
  BY DEF Init, Inv, ScanInv, ReportInv
<1>2. Inv /\ [Next]_vars => Inv'
  <2> SUFFICES ASSUME Inv, [Next]_vars PROVE Inv'
    OBVIOUS
  <2>1. CASE StartScan
    BY <2>1, StartsCovered
  <2>2. ASSUME NEW pin, Check(pin) PROVE Inv'
    BY <2>2, CheckInv
  <2>3. ASSUME NEW pin, Recheck(pin) PROVE Inv'
    BY <2>3, RecheckInv
  <2>4. CASE \/ Context \/ RemovedLine \/ AddedName \/ AddedVersion \/ AddedOther \/ NoDiff
             \/ StartRecheck \/ Report \/ Rerun \/ (\E pin : Withdraw(pin)) \/ UNCHANGED vars
    BY <2>4, RestInv
  <2> QED BY <2>1, <2>2, <2>3, <2>4 DEF Next
<1> QED BY <1>1, <1>2, PTL DEF Spec

\* runCi joins the verdicts it read before the scan, what the scan returns and what the
\* re-check refreshed: no run that exits 0, or whose summary does not say suspicious, has a
\* SUSPICIOUS row for a package its diff adds, however often the job runs with one store.
THEOREM NoFlagIsPassed == Spec => []FlaggedNeverPassed
<1>1. ASSUME Inv, phase = "reported", report.exitCode = 0 \/ report.summary # "suspicious",
             NEW pin \in Range(added) \intersect DOMAIN rows
      PROVE  rows[pin] # "SUSPICIOUS"
  <2>1. suspicious = {}
    <3> SUFFICES ASSUME suspicious # {} PROVE FALSE
      OBVIOUS
    <3>1. report.exitCode = 1 /\ report.summary = "suspicious"
      BY <1>1 DEF Inv, ReportInv, Summary
    <3> QED BY <1>1, <3>1
  <2>2. Known(pin)
    BY <1>1 DEF Inv, ScanInv, Covered
  <2>3. <<pin, rows[pin]>> \in Scanned
    BY <2>2 DEF Known, Scanned
  <2> QED BY <2>1, <2>3 DEF suspicious
<1>2. Inv => FlaggedNeverPassed
  BY <1>1 DEF FlaggedNeverPassed
<1> QED BY <1>2, VerdictsAreKnown, PTL

-----------------------------------------------------------------------------
(* Types.                                                                    *)

LEMMA LocksAreEntries ==
  ASSUME NEW lock \in Locks
  PROVE  lock \in Seq(Entries) /\ IsList(lock)
<1>1. lock \in Seq(Entries)
  BY LocksAssumption DEF Entries
<1>2. Len(lock) \in Nat /\ DOMAIN lock = 1 .. Len(lock) /\ \A k \in 1 .. Len(lock) : lock[k] \in Entries
  BY <1>1
<1>3. Rests(lock)
  BY <1>2 DEF Rests, Entries
<1> QED BY <1>1, <1>2, <1>3 DEF IsList

LEMMA LinesTyped ==
  ASSUME NEW lock \in Locks
  PROVE  /\ Lines(lock) \in Seq(LinesOf(lock)) /\ Len(Lines(lock)) \in Nat
         /\ Len(lock) \in Nat /\ DOMAIN lock = 1 .. Len(lock) /\ Rests(lock)
<1>2. Len(lock) \in Nat /\ DOMAIN lock = 1 .. Len(lock) /\ Rests(lock)
  BY LocksAreEntries DEF IsList
<1>3. Len(lock) \in 0 .. Len(lock)
  BY <1>2
<1>4. Lines(lock) \in Seq(LinesOf(lock))
  BY <1>2, <1>3, TextsAre DEF Lines
<1>5. Len(Lines(lock)) \in Nat
  BY <1>4
<1> QED BY <1>2, <1>4, <1>5

LEMMA FieldsAre ==
  ASSUME NEW lock, NEW line \in LinesOf(lock)
  PROVE  /\ line[1] = "name" => \E p \in Range(lock) : line[2] = p.name
         /\ line[1] = "version" => \E p \in Range(lock) : line[2] = p.version
<1>1. CASE line \in {Blank, Format} \union {Header(p) : p \in Range(lock)}
                    \union {Source(p) : p \in Range(lock)} \union RestLines
  <2>1. line[1] \notin {"name", "version"}
    BY <1>1 DEF Blank, Format, Header, Source, RestLines
  <2> QED BY <2>1
<1>2. CASE line \in {Name(p) : p \in Range(lock)}
  BY <1>2 DEF Name
<1>3. CASE line \in {Version(p) : p \in Range(lock)}
  BY <1>3 DEF Version
<1> QED BY <1>1, <1>2, <1>3 DEF LinesOf

TextsInv == /\ locks \in Locks \X Locks /\ old = Lines(locks[1]) /\ new = Lines(locks[2])
            /\ left = Common(old, new) /\ packages = parseCargoLock(new)

DiffTypes == /\ i \in 1 .. Len(old) + 1 /\ j \in 1 .. Len(new) + 1
             /\ pendingName = NoName \/ \E p \in Range(locks[2]) : pendingName = p.name
             /\ added \in Seq(Pairs)

\* Only what the diff pairs is looked up, and a pass ends when all of it was.
Lookups == /\ todo \union due \subseteq Range(added)
           /\ phase \in {"diffing", "nothing added"} => todo = {} /\ due = {}
           /\ phase \in {"rechecking", "reported"} => todo = {}
           /\ phase = "reported" => due = {}

StoreTypes == /\ DOMAIN rows \subseteq Pairs /\ Range(rows) \subseteq Verdicts \ {"ERROR"}
              /\ DOMAIN results \subseteq Pairs /\ Range(results) \subseteq Verdicts
              /\ DOMAIN known \subseteq Pairs /\ DOMAIN rechecked \subseteq Pairs

ReportTypes == /\ phase \in {"diffing", "nothing added", "scanning", "rechecking", "reported"}
               /\ report.exitCode \in {0, 1}

Types == TextsInv /\ DiffTypes /\ StoreTypes /\ ReportTypes

LEMMA TypesSuffice == ASSUME Types, Lookups PROVE TypeOK
<1>1. Range(added) \subseteq Pairs
  BY DEF Types, DiffTypes, Range
<1>2. DOMAIN known \union DOMAIN rechecked \subseteq Pairs
  BY DEF Types, StoreTypes
<1> QED BY <1>1, <1>2 DEF Types, DiffTypes, StoreTypes, ReportTypes, Lookups, TypeOK

LEMMA PairsStay == ASSUME UNCHANGED locks PROVE Pairs' = Pairs
BY DEF Pairs

LEMMA InitTypes == Init => Types
<1> SUFFICES ASSUME Init PROVE Types
  OBVIOUS
<1>1. TextsInv
  BY DEF Init, TextsInv
<1>2. Len(old) \in Nat /\ Len(new) \in Nat
  BY <1>1, LinesTyped DEF TextsInv
<1>3. DiffTypes
  <2>1. i = 1 /\ j = 1 /\ pendingName = NoName /\ added = <<>>
    BY DEF Init
  <2> QED BY <1>2, <2>1 DEF DiffTypes
<1>4. DOMAIN Empty = {} /\ Range(Empty) = {}
  BY DEF Empty, Range
<1>5. StoreTypes
  <2>1. rows = Empty /\ results = Empty /\ known = Empty /\ rechecked = Empty
    BY DEF Init
  <2> QED BY <1>4, <2>1 DEF StoreTypes
<1>6. ReportTypes
  BY DEF Init, ReportTypes, NoReport
<1> QED BY <1>1, <1>3, <1>5, <1>6 DEF Types

LEMMA WithTypes ==
  ASSUME NEW f, NEW S, DOMAIN f \subseteq Pairs, Range(f) \subseteq S, NEW pin \in Pairs, NEW verdict \in S
  PROVE  DOMAIN With(f, pin, verdict) \subseteq Pairs /\ Range(With(f, pin, verdict)) \subseteq S
BY DEF With, Range

\* The diff.
LEMMA DiffKeepsTypes ==
  ASSUME Types, Context \/ RemovedLine \/ AddedName \/ AddedVersion \/ AddedOther
  PROVE  Types'
<1>1. UNCHANGED <<locks, old, new, left, packages, phase, rows, results, known, rechecked, report>>
  BY DEF Context, RemovedLine, AddedName, AddedVersion, AddedOther, AddsLine, Diffs, texts, scanning
<1>2. TextsInv' /\ StoreTypes' /\ ReportTypes' /\ Pairs' = Pairs
  BY <1>1, PairsStay DEF Types, TextsInv, StoreTypes, ReportTypes
<1>3. Len(old) \in Nat /\ Len(new) \in Nat /\ new \in Seq(LinesOf(locks[2])) /\ locks[2] \in Locks
  BY LinesTyped DEF Types, TextsInv
<1>4. i' \in 1 .. Len(old) + 1 /\ j' \in 1 .. Len(new) + 1
  BY <1>3 DEF Context, RemovedLine, AddedName, AddedVersion, AddedOther, AddsLine, Types, DiffTypes
<1>5. CASE Context \/ RemovedLine \/ AddedOther
  <2>1. UNCHANGED <<pendingName, added>>
    BY <1>5 DEF Context, RemovedLine, AddedOther
  <2> QED BY <1>1, <1>2, <1>4, <2>1 DEF Types, DiffTypes
<1>6. CASE AddedName \/ AddedVersion
  <2>1. j \in 1 .. Len(new)
    BY <1>3, <1>6 DEF AddedName, AddedVersion, AddsLine, Types, DiffTypes
  <2>2. new[j] \in LinesOf(locks[2])
    BY <1>3, <2>1
  <2>3. CASE AddedName
    <3>1. new[j][1] = "name" /\ pendingName' = new[j][2] /\ added' = added
      BY <2>3 DEF AddedName
    <3>2. \E p \in Range(locks[2]) : pendingName' = p.name
      BY <1>3, <2>2, <3>1, FieldsAre
    <3> QED BY <1>1, <1>2, <1>4, <3>1, <3>2 DEF Types, DiffTypes
  <2>4. CASE AddedVersion
    <3>1. /\ new[j][1] = "version" /\ pendingName # NoName /\ pendingName' = NoName
          /\ added' = Append(added, <<pendingName, new[j][2]>>)
      BY <2>4 DEF AddedVersion
    <3>2. PICK q \in Range(locks[2]) : new[j][2] = q.version
      BY <1>3, <2>2, <3>1, FieldsAre
    <3>3. PICK p \in Range(locks[2]) : pendingName = p.name
      BY <3>1 DEF Types, DiffTypes
    <3>4. <<pendingName, new[j][2]>> \in Pairs
      BY <3>2, <3>3 DEF Pairs
    <3>5. added' \in Seq(Pairs)
      BY <3>1, <3>4 DEF Types, DiffTypes
    <3> QED BY <1>1, <1>2, <1>4, <3>1, <3>5 DEF Types, DiffTypes
  <2> QED BY <1>6, <2>3, <2>4
<1> QED BY <1>5, <1>6

LEMMA SameDiff ==
  ASSUME Types, UNCHANGED diffing
  PROVE  TextsInv' /\ DiffTypes' /\ Pairs' = Pairs
BY PairsStay DEF Types, TextsInv, DiffTypes, diffing, texts

LEMMA CheckKeepsTypes ==
  ASSUME Types, NEW pin \in Pairs, Check(pin)
  PROVE  Types'
<1>1. UNCHANGED <<diffing, phase, known, rechecked, report>>
  BY DEF Check
<1>2. VerdictsOf(pin) \subseteq Verdicts \ {"ERROR"} /\ "ERROR" \in Verdicts
  BY DEF VerdictsOf, Verdicts
<1>3. PICK verdict \in Verdicts : results' = With(results, pin, verdict)
  BY <1>2 DEF Check
<1>4. rows' = rows \/ \E v \in Verdicts \ {"ERROR"} : rows' = With(rows, pin, v)
  BY <1>2 DEF Check
<1>5. DOMAIN results' \subseteq Pairs /\ Range(results') \subseteq Verdicts
  BY <1>3, WithTypes DEF Types, StoreTypes
<1>6. DOMAIN rows' \subseteq Pairs /\ Range(rows') \subseteq Verdicts \ {"ERROR"}
  BY <1>4, WithTypes DEF Types, StoreTypes
<1>7. StoreTypes'
  BY <1>1, <1>5, <1>6, SameDiff DEF Types, StoreTypes
<1>8. ReportTypes'
  BY <1>1 DEF Types, ReportTypes
<1> QED BY <1>1, <1>7, <1>8, SameDiff DEF Types

LEMMA RecheckKeepsTypes ==
  ASSUME Types, Inv, NEW pin \in Pairs, Recheck(pin)
  PROVE  Types'
<1>1. UNCHANGED <<diffing, phase, known, results, report>>
  BY DEF Recheck
<1>2. pin \in DOMAIN rows
  BY DEF Recheck, Inv, ScanInv, PassesInv
<1>3. rows[pin] \in Verdicts \ {"ERROR"} /\ "SUSPICIOUS" \in Verdicts \ {"ERROR"}
  BY <1>2 DEF Types, StoreTypes, Range, Verdicts
<1>4. \/ UNCHANGED <<rows, rechecked>>
      \/ \E v \in Verdicts \ {"ERROR"} : rows' = With(rows, pin, v) /\ rechecked' = With(rechecked, pin, v)
  BY <1>3 DEF Recheck
<1>5. CASE UNCHANGED <<rows, rechecked>>
  <2>1. StoreTypes' /\ ReportTypes'
    BY <1>1, <1>5, SameDiff DEF Types, StoreTypes, ReportTypes
  <2> QED BY <1>1, <2>1, SameDiff DEF Types
<1>6. CASE \E v \in Verdicts \ {"ERROR"} : rows' = With(rows, pin, v) /\ rechecked' = With(rechecked, pin, v)
  <2>1. DOMAIN rows' \subseteq Pairs /\ Range(rows') \subseteq Verdicts \ {"ERROR"}
    BY <1>6, WithTypes DEF Types, StoreTypes
  <2>2. DOMAIN rechecked' \subseteq Pairs
    BY <1>6 DEF With, Types, StoreTypes
  <2>3. StoreTypes' /\ ReportTypes'
    BY <1>1, <2>1, <2>2, SameDiff DEF Types, StoreTypes, ReportTypes
  <2> QED BY <1>1, <2>3, SameDiff DEF Types
<1> QED BY <1>4, <1>5, <1>6

LEMMA StartKeepsTypes == ASSUME Types, StartScan PROVE Types'
<1>1. UNCHANGED <<diffing, rows, report>> /\ phase' = "scanning"
  BY DEF StartScan
<1>2. known' = [pin \in Range(added) \intersect DOMAIN rows |-> rows[pin]]
      /\ results' = Empty /\ rechecked' = Empty
  BY DEF StartScan
<1>3. DOMAIN known' \subseteq Pairs /\ DOMAIN results' = {} /\ DOMAIN rechecked' = {} /\ Range(results') = {}
  BY <1>2 DEF Types, StoreTypes, Empty, Range
<1>4. StoreTypes'
  BY <1>1, <1>3, SameDiff DEF Types, StoreTypes
<1>5. ReportTypes'
  BY <1>1 DEF Types, ReportTypes
<1> QED BY <1>1, <1>4, <1>5, SameDiff DEF Types

LEMMA RerunKeepsTypes == ASSUME Types, Rerun PROVE Types'
<1>1. /\ UNCHANGED <<locks, old, new, left, packages, known, results, rechecked>> /\ rows' \in {rows, Empty}
      /\ phase' = "diffing" /\ i' = 1 /\ j' = 1 /\ pendingName' = NoName /\ added' = <<>>
      /\ report' = NoReport
  BY DEF Rerun, texts, scanning
<1>2. TextsInv'
  BY <1>1 DEF Types, TextsInv
<1>3. Len(old) \in Nat /\ Len(new) \in Nat /\ Pairs' = Pairs
  BY <1>1, LinesTyped, PairsStay DEF Types, TextsInv
<1>4. DiffTypes'
  BY <1>1, <1>3 DEF DiffTypes
<1>5. DOMAIN Empty = {} /\ Range(Empty) = {}
  BY DEF Empty, Range
<1>6. DOMAIN rows' \subseteq Pairs /\ Range(rows') \subseteq Verdicts \ {"ERROR"}
  BY <1>1, <1>5 DEF Types, StoreTypes
<1>7. StoreTypes'
  BY <1>1, <1>3, <1>6 DEF Types, StoreTypes
<1>8. ReportTypes'
  BY <1>1 DEF ReportTypes, NoReport
<1> QED BY <1>2, <1>4, <1>7, <1>8 DEF Types

LEMMA RestKeepsTypes ==
  ASSUME Types, NoDiff \/ StartRecheck \/ Report \/ (\E pin : Withdraw(pin)) \/ UNCHANGED vars
  PROVE  Types'
<1>1. UNCHANGED <<diffing, rows, results, known, rechecked>>
  BY DEF NoDiff, StartRecheck, Report, Withdraw, vars, scanning
<1>2. phase' \in {phase, "nothing added", "rechecking", "reported"} /\ report'.exitCode \in {report.exitCode, 0, 1}
  <2>1. CASE Report
    <3>1. report'.exitCode = IF suspicious = {} THEN 0 ELSE 1
      BY <2>1 DEF Report
    <3> QED BY <2>1, <3>1 DEF Report
  <2>2. CASE NoDiff \/ StartRecheck \/ (\E pin : Withdraw(pin)) \/ UNCHANGED vars
    <3>1. report' = report
      BY <2>2 DEF NoDiff, StartRecheck, Withdraw, vars
    <3>2. phase' \in {phase, "nothing added", "rechecking"}
      BY <2>2 DEF NoDiff, StartRecheck, Withdraw, vars
    <3> QED BY <3>1, <3>2
  <2> QED BY <2>1, <2>2
<1>3. StoreTypes' /\ ReportTypes'
  BY <1>1, <1>2, SameDiff DEF Types, StoreTypes, ReportTypes
<1> QED BY <1>1, <1>3, SameDiff DEF Types

LEMMA StepLooksUp == ASSUME Lookups, [Next]_vars PROVE Lookups'
<1>1. CASE Context \/ RemovedLine \/ AddedName \/ AddedVersion \/ AddedOther \/ NoDiff
  <2>1. phase = "diffing" /\ phase' \in {"diffing", "nothing added"} /\ UNCHANGED <<todo, due>>
    BY <1>1 DEF Context, RemovedLine, AddedName, AddedVersion, AddedOther, AddsLine, Diffs, NoDiff, scanning
  <2> QED BY <2>1 DEF Lookups
<1>2. CASE StartScan
  <2>1. All \subseteq Range(added)
    BY DEF All
  <2>2. phase' = "scanning" /\ todo' \subseteq All /\ due' \subseteq All /\ added' = added
    BY <1>2 DEF StartScan, diffing
  <2> QED BY <2>1, <2>2 DEF Lookups
<1>3. CASE StartRecheck
  <2>1. phase' = "rechecking" /\ todo = {} /\ UNCHANGED <<todo, due, added>>
    BY <1>3 DEF StartRecheck, scanning, diffing
  <2> QED BY <2>1 DEF Lookups
<1>4. CASE Report
  <2>1. phase = "rechecking" /\ phase' = "reported" /\ due = {} /\ UNCHANGED <<todo, due, added>>
    BY <1>4 DEF Report, scanning, diffing
  <2> QED BY <2>1 DEF Lookups
<1>5. CASE Rerun
  <2>1. phase = "reported" /\ phase' = "diffing" /\ UNCHANGED <<todo, due>>
    BY <1>5 DEF Rerun, scanning
  <2> QED BY <2>1 DEF Lookups
<1>6. CASE (\E pin \in Range(added) : Check(pin) \/ Recheck(pin)) \/ (\E pin : Withdraw(pin)) \/ UNCHANGED vars
  <2>1. phase' = phase /\ added' = added /\ todo' \subseteq todo /\ due' \subseteq due
    BY <1>6 DEF Check, Recheck, Withdraw, vars, diffing, scanning
  <2> QED BY <2>1 DEF Lookups
<1> QED BY <1>1, <1>2, <1>3, <1>4, <1>5, <1>6 DEF Next

LEMMA StaysTyped == Spec => [](Types /\ Lookups)
<1>1. Types /\ Inv /\ [Next]_vars => Types'
  <2> SUFFICES ASSUME Types, Inv, [Next]_vars PROVE Types'
    OBVIOUS
  <2>0. Range(added) \subseteq Pairs
    BY DEF Types, DiffTypes, Range
  <2>1. ASSUME NEW pin \in Range(added), Check(pin) PROVE Types'
    BY <2>0, <2>1, CheckKeepsTypes
  <2>2. ASSUME NEW pin \in Range(added), Recheck(pin) PROVE Types'
    BY <2>0, <2>2, RecheckKeepsTypes
  <2>3. CASE Context \/ RemovedLine \/ AddedName \/ AddedVersion \/ AddedOther
    BY <2>3, DiffKeepsTypes
  <2>4. CASE StartScan
    BY <2>4, StartKeepsTypes
  <2>5. CASE Rerun
    BY <2>5, RerunKeepsTypes
  <2>6. CASE NoDiff \/ StartRecheck \/ Report \/ (\E pin : Withdraw(pin)) \/ UNCHANGED vars
    BY <2>6, RestKeepsTypes
  <2> QED BY <2>1, <2>2, <2>3, <2>4, <2>5, <2>6 DEF Next
<1>2. Init => Lookups
  BY DEF Init, Lookups
<1> QED BY <1>1, <1>2, InitTypes, StepLooksUp, VerdictsAreKnown, PTL DEF Spec

\* The diff stays in its texts, what it pairs are a name and a version of the new lockfile (of
\* one package or of two), nothing else is looked up or stored, and store and report have what
\* runCi puts there, for any lockfiles and any number of runs.
THEOREM RunTyping == Spec => []TypeOK
BY StaysTyped, TypesSuffice, PTL

-----------------------------------------------------------------------------
(* Which packages are probed.                                                *)

\* No pin of another registry is in a pass or has a row, and while a scan runs every
\* other added pin is in one, or has been.
ProbeInv ==
  /\ \A pin \in todo \union due \union DOMAIN rows : ~OffRegistry(pin)
  /\ phase = "scanning" => \A pin \in Range(added) :
       OffRegistry(pin) \/ pin \in todo \union DOMAIN rows \union DOMAIN results

LEMMA InitProbes == Init => ProbeInv
<1> SUFFICES ASSUME Init PROVE ProbeInv
  OBVIOUS
<1>1. todo = {} /\ due = {} /\ DOMAIN rows = {} /\ phase = "diffing"
  BY DEF Init, Empty
<1> QED BY <1>1 DEF ProbeInv

LEMMA StepProbes == ASSUME ProbeInv, [Next]_vars PROVE ProbeInv'
<1>0. packages' = packages
  BY DEF Next, Context, RemovedLine, AddedName, AddedVersion, AddedOther, AddsLine, Diffs, NoDiff, StartScan,
     StartRecheck, Report, Rerun, Check, Recheck, Withdraw, vars, diffing, texts
<1>1. \A pin : OffRegistry(pin)' <=> OffRegistry(pin)
  BY <1>0 DEF OffRegistry
<1>2. CASE StartScan
  <2>1. /\ phase' = "scanning" /\ added' = added /\ rows' = rows
        /\ todo' = {pin \in All : ~Recorded(pin)}
        /\ due' \in {{}, {pin \in All : Recorded(pin)}}
    BY <1>2 DEF StartScan, diffing
  <2>2. \A pin \in All : ~OffRegistry(pin)
    BY DEF All
  <2>3. \A pin \in todo' \union due' \union DOMAIN rows' : ~OffRegistry(pin)
    BY <2>1, <2>2 DEF ProbeInv
  <2>4. ASSUME NEW pin \in Range(added), ~OffRegistry(pin) PROVE pin \in todo' \union DOMAIN rows'
    BY <2>1, <2>4 DEF All, Recorded
  <2> QED BY <1>1, <2>1, <2>3, <2>4 DEF ProbeInv
<1>3. ASSUME NEW pin, Check(pin) PROVE ProbeInv'
  <2>1. /\ phase' = phase /\ added' = added /\ pin \in todo /\ todo' = todo \ {pin} /\ due' = due
        /\ phase = "scanning"
    BY <1>3 DEF Check, diffing
  <2>2. DOMAIN rows' \in {DOMAIN rows, DOMAIN rows \union {pin}}
    BY <1>3 DEF Check, With
  <2>3. DOMAIN results' = DOMAIN results \union {pin}
    BY <1>3 DEF Check, With
  <2>4. \A q \in todo' \union due' \union DOMAIN rows' : ~OffRegistry(q)
    BY <2>1, <2>2 DEF ProbeInv
  <2>5. \A q \in Range(added) : OffRegistry(q) \/ q \in todo' \union DOMAIN rows' \union DOMAIN results'
    BY <2>1, <2>2, <2>3 DEF ProbeInv
  <2> QED BY <1>1, <2>1, <2>4, <2>5 DEF ProbeInv
<1>4. ASSUME NEW pin, Recheck(pin) PROVE ProbeInv'
  <2>1. /\ phase' = phase /\ phase = "rechecking" /\ pin \in due /\ todo' = todo /\ due' \subseteq due
    BY <1>4 DEF Recheck
  <2>2. DOMAIN rows' \in {DOMAIN rows, DOMAIN rows \union {pin}}
    BY <1>4 DEF Recheck, With
  <2> QED BY <1>1, <2>1, <2>2 DEF ProbeInv
<1>5. CASE Rerun
  <2>1. phase' = "diffing" /\ UNCHANGED <<todo, due>> /\ rows' \in {rows, Empty} /\ DOMAIN Empty = {}
    BY <1>5 DEF Rerun, scanning, Empty
  <2> QED BY <1>1, <2>1 DEF ProbeInv
<1>6. CASE Context \/ RemovedLine \/ AddedName \/ AddedVersion \/ AddedOther \/ NoDiff \/ StartRecheck \/ Report
  <2>1. phase' # "scanning" /\ UNCHANGED <<todo, due, rows>>
    BY <1>6 DEF Context, RemovedLine, AddedName, AddedVersion, AddedOther, AddsLine, Diffs, NoDiff, StartRecheck,
       Report, scanning
  <2> QED BY <1>1, <2>1 DEF ProbeInv
<1>7. CASE (\E pin : Withdraw(pin)) \/ UNCHANGED vars
  <2>1. UNCHANGED <<phase, added, todo, due, rows, results>>
    BY <1>7 DEF Withdraw, vars, diffing, scanning
  <2> QED BY <1>1, <2>1 DEF ProbeInv
<1> QED BY <1>2, <1>3, <1>4, <1>5, <1>6, <1>7 DEF Next

\* Of several entries of a list one is the last.
LEMMA LastOne ==
  ASSUME NEW n \in Nat, NEW S \in SUBSET (1 .. n), S # {}
  PROVE  \E k \in S : \A l \in S : l <= k
<1> DEFINE T == {x \in 0 .. n : n - x \in S}
<1>1. T \in SUBSET Nat /\ T # {}
  <2>1. PICK k \in S : TRUE
    OBVIOUS
  <2>2. n - k \in T
    OBVIOUS
  <2>3. T \in SUBSET Nat
    OBVIOUS
  <2> HIDE DEF T
  <2> QED BY <2>2, <2>3
<1>2. PICK x \in T : \A y \in T : x <= y
  <2> HIDE DEF T
  <2> QED BY <1>1, Least
<1>3. ASSUME NEW l \in S PROVE l <= n - x
  <2>1. n - l \in T
    OBVIOUS
  <2> QED BY <1>2, <2>1
<1> QED BY <1>2, <1>3

\* What the reader makes of a package whose pin no other registry has.
LEMMA SourceIsRead ==
  ASSUME TextsInv, NEW p \in Range(locks[2]), Alone(p)
  PROVE  /\ p.source = "alternate" => OffRegistry(Pin(p))
         /\ p.source = "crates.io" => ~OffRegistry(Pin(p))
<1> DEFINE n == Len(packages)
           Same == {k \in 1 .. n : Pin(packages[k]) = Pin(p)}
<1>1. locks[2] \in Seq(Entries)
  BY LocksAreEntries DEF TextsInv
<1>2. packages \in Seq(Blocks(new)) /\ Range(packages) = FromRegistry(locks[2])
  BY <1>1, ParseIs DEF TextsInv
<1>3. n \in Nat /\ DOMAIN packages = 1 .. n
  BY <1>2
<1>4. ASSUME NEW k \in Same PROVE packages[k].source = p.source
  <2>1. packages[k] \in FromRegistry(locks[2])
    BY <1>2, <1>3 DEF Range
  <2>2. PICK q \in Range(locks[2]) : q.source \in Registries /\ packages[k] = ReadAs(q)
    BY <2>1 DEF FromRegistry
  <2>3. Pin(q) = Pin(p) /\ packages[k].source = q.source
    BY <2>2 DEF ReadAs, Pin
  <2> QED BY <2>2, <2>3 DEF Alone
<1>5. CASE p.source = "alternate"
  <2>1. ReadAs(p) \in Range(packages)
    BY <1>2, <1>5 DEF FromRegistry, Registries
  <2>2. PICK k \in 1 .. n : packages[k] = ReadAs(p)
    BY <1>3, <2>1 DEF Range
  <2>3. k \in Same
    BY <2>2 DEF ReadAs, Pin
  <2>4. PICK last \in Same : \A l \in Same : l <= last
    <3>1. Same \in SUBSET (1 .. n)
      OBVIOUS
    <3> HIDE DEF Same, n
    <3> QED BY <1>3, <2>3, <3>1, LastOne
  <2>5. ASSUME NEW l \in DOMAIN packages, l > last PROVE Pin(packages[l]) # Pin(p)
    BY <1>3, <2>4, <2>5
  <2>6. OffRegistry(Pin(p))
    BY <1>3, <1>4, <1>5, <2>4, <2>5 DEF OffRegistry
  <2> QED BY <1>5, <2>6
<1>6. CASE p.source = "crates.io"
  <2>1. ASSUME OffRegistry(Pin(p)) PROVE FALSE
    <3>1. PICK k \in 1 .. n : Pin(packages[k]) = Pin(p) /\ packages[k].source = "alternate"
      BY <1>3, <2>1 DEF OffRegistry
    <3> QED BY <1>4, <1>6, <3>1
  <2> QED BY <1>6, <2>1
<1> QED BY <1>5, <1>6

\* The reader finds the packages of crates.io and of registry+ alternates and no others in the
\* lines of any lockfile, each with its own source; withLockfileSource hands it to both
\* passes, so that no package of such an alternate is in one or has a row, and no added
\* package of crates.io is left out of the scan.
THEOREM AlternatesLeftAlone == Spec => []RegistriesKeptApart
<1>1. Spec => []ProbeInv
  BY InitProbes, StepProbes, PTL DEF Spec
<1>2. ASSUME Types, ProbeInv PROVE RegistriesKeptApart
  <2> SUFFICES ASSUME NEW p \in Range(locks[2]), Alone(p)
               PROVE  /\ p.source = "alternate" => Pin(p) \notin todo \union due \union DOMAIN rows
                      /\ p.source = "crates.io" /\ phase = "scanning" /\ Pin(p) \in Range(added)
                           => Pin(p) \in todo \union DOMAIN rows \union DOMAIN results
    BY DEF RegistriesKeptApart
  <2>1. /\ p.source = "alternate" => OffRegistry(Pin(p))
        /\ p.source = "crates.io" => ~OffRegistry(Pin(p))
    BY <1>2, SourceIsRead DEF Types
  <2> QED BY <1>2, <2>1 DEF ProbeInv
<1> QED BY <1>1, <1>2, StaysTyped, PTL

-----------------------------------------------------------------------------
(* Names and versions in the lines of a lockfile.                            *)

\* Of the lines of a block the second is the package's name and the third its version; what
\* follows its source is behind them.
LEMMA BlockKinds ==
  ASSUME NEW p, p.rest \in Seq(RestLines), NEW n \in 1 .. Len(Block(p))
  PROVE  /\ (Block(p)[n][1] = "name") <=> (n = 2)
         /\ (Block(p)[n][1] = "version") <=> (n = 3)
         /\ Block(p)[n][1] = "rest" => Block(p)[n] \in Range(p.rest) /\ n >= 4
<1> DEFINE t == Len(Top(p))
           r == Len(p.rest)
           line == Block(p)[n]
<1>1. /\ t \in {3, 4} /\ r \in Nat /\ Len(Block(p)) = t + r + 1 /\ DOMAIN p.rest = 1 .. r
      /\ \A x \in 1 .. r : p.rest[x] \in RestLines
  BY TopIs, BlockIs
<1>2. CASE n \in 1 .. t
  <2>1. line = Top(p)[n]
    BY <1>2, BlockIs
  <2>2. \/ n = 1 /\ line = Header(p)
        \/ n = 2 /\ line = Name(p)
        \/ n = 3 /\ line = Version(p)
        \/ n = 4 /\ line = Source(p)
    <3>1. n \in {1, 2, 3} \/ (n = 4 /\ t = 4)
      <4> HIDE DEF t
      <4> QED BY <1>1, <1>2
    <3>2. t = 4 => Top(p)[4] = Source(p)
      BY TopIs
    <3>3. Top(p)[1] = Header(p) /\ Top(p)[2] = Name(p) /\ Top(p)[3] = Version(p)
      BY TopIs
    <3>4. CASE n = 4 /\ t = 4
      BY <2>1, <3>2, <3>4
    <3>5. CASE n \in {1, 2, 3}
      BY <2>1, <3>3, <3>5
    <3> QED BY <3>1, <3>4, <3>5
  <2>3. /\ Header(p)[1] = "table" /\ Name(p)[1] = "name" /\ Version(p)[1] = "version"
        /\ Source(p)[1] = "source"
    BY DEF Header, Name, Version, Source
  <2> HIDE DEF line
  <2>4. /\ (line[1] = "name") <=> (n = 2)
        /\ (line[1] = "version") <=> (n = 3)
        /\ line[1] # "rest"
    BY <2>2, <2>3
  <2> QED BY <2>4 DEF line
<1>3. CASE n \in t + 1 .. t + r
  <2>1. n - t \in 1 .. r /\ n = t + (n - t) /\ n >= 4 /\ n \notin {2, 3}
    <3> HIDE DEF t, r
    <3> QED BY <1>1, <1>3
  <2>2. line = p.rest[n - t]
    BY <2>1, BlockIs
  <2>3. line \in RestLines /\ line \in Range(p.rest)
    BY <1>1, <2>1, <2>2 DEF Range
  <2>4. line[1] = "rest"
    BY <2>3 DEF RestLines
  <2> QED BY <2>1, <2>3, <2>4
<1>4. CASE n = t + r + 1
  <2>1. line = Blank
    BY <1>4, BlockIs
  <2>2. line[1] = "blank"
    BY <2>1 DEF Blank
  <2>3. n \notin {2, 3}
    <3> HIDE DEF t, r
    <3> QED BY <1>1, <1>4
  <2> QED BY <2>2, <2>3
<1>5. n \in 1 .. t \/ n \in t + 1 .. t + r \/ n = t + r + 1
  <2> HIDE DEF t, r
  <2>1. n \in 1 .. t + r + 1
    BY <1>1
  <2> QED BY <1>1, <2>1
<1> QED BY <1>2, <1>3, <1>4, <1>5

LEMMA RestPlaces ==
  ASSUME NEW p, p.rest \in Seq(RestLines), NEW line \in Range(p.rest)
  PROVE  line[1] = "rest" /\ \E n \in 4 .. Len(Block(p)) : Block(p)[n] = line
<1>1. PICK x \in 1 .. Len(p.rest) : p.rest[x] = line
  BY DEF Range
<1>2. line \in RestLines
  BY <1>1
<1> DEFINE t == Len(Top(p))
           r == Len(p.rest)
<1>3. t \in {3, 4} /\ r \in Nat /\ Len(Block(p)) = t + r + 1 /\ x \in 1 .. r
  BY TopIs, BlockIs
<1>4. Block(p)[t + x] = line
  BY <1>1, BlockIs
<1> HIDE DEF t, r
<1>5. t + x \in 4 .. t + r + 1
  BY <1>3
<1> QED BY <1>2, <1>3, <1>4, <1>5 DEF RestLines

LEMMA FirstText ==
  ASSUME NEW lock, IsList(lock)
  PROVE  /\ 0 \in 0 .. Len(lock) /\ Len(Texts(lock)[0]) = 1
         /\ 1 \in 1 .. Len(Lines(lock)) /\ Lines(lock)[1] = Format
<1>1. Len(lock) \in Nat /\ DOMAIN lock = 1 .. Len(lock) /\ Rests(lock)
  BY DEF IsList
<1>2. Texts(lock)[0] = <<Format>>
  BY <1>1, TextsAre
<1>3. 0 \in 0 .. Len(lock)
  BY <1>1
<1>4. Len(<<Format>>) = 1 /\ <<Format>>[1] = Format
  OBVIOUS
<1>5. Len(Texts(lock)[0]) = 1 /\ Texts(lock)[0][1] = Format
  BY <1>2, <1>4, Zenon
<1>6. 1 \in 1 .. Len(Texts(lock)[0])
  BY <1>5
<1>7. Lines(lock)[1] = Texts(lock)[0][1] /\ Len(Texts(lock)[0]) <= Len(Lines(lock)) /\ Len(Lines(lock)) \in Nat
  BY <1>1, <1>3, <1>6, TextStays
<1>8. 1 \in 1 .. Len(Lines(lock))
  BY <1>5, <1>7
<1> QED BY <1>3, <1>5, <1>7, <1>8

LEMMA BlocksApart ==
  ASSUME NEW lock, IsList(lock), NEW k \in 1 .. Len(lock), NEW l \in 1 .. Len(lock), k < l,
         NEW n \in 1 .. Len(Block(lock[k])), NEW m \in 1 .. Len(Block(lock[l]))
  PROVE  At(lock, k, n) < At(lock, l, m)
<1>1. k \in 0 .. Len(lock) /\ l - 1 \in k .. Len(lock) /\ l - 1 \in 0 .. Len(lock)
  BY DEF IsList
<1>2. Len(Texts(lock)[k]) <= Len(Texts(lock)[l - 1])
  BY <1>1, TextsStay DEF IsList
<1>3. /\ Len(Texts(lock)[k - 1]) \in Nat /\ Len(Texts(lock)[l - 1]) \in Nat
      /\ Len(Texts(lock)[k]) = Len(Texts(lock)[k - 1]) + Len(Block(lock[k]))
      /\ Len(Block(lock[k])) \in Nat
  BY Grown DEF IsList
<1> DEFINE x == Len(Texts(lock)[k - 1])
           y == Len(Texts(lock)[l - 1])
           length == Len(Block(lock[k]))
<1>4. n \in 1 .. length /\ m >= 1 /\ m \in Int
  OBVIOUS
<1>5. x + length <= y
  BY <1>2, <1>3
<1>6. x \in Nat /\ y \in Nat /\ length \in Nat
  BY <1>3
<1> HIDE DEF x, y, length
<1>7. x + n < y + m
  BY <1>4, <1>5, <1>6
<1> QED BY <1>7 DEF At, x, y

\* No two places are the same.
LEMMA OnePlace ==
  ASSUME NEW lock, IsList(lock), NEW k \in 1 .. Len(lock), NEW l \in 1 .. Len(lock),
         NEW n \in 1 .. Len(Block(lock[k])), NEW m \in 1 .. Len(Block(lock[l])),
         At(lock, k, n) = At(lock, l, m)
  PROVE  k = l /\ n = m
<1>0. At(lock, k, n) \in Int /\ At(lock, l, m) \in Int
  BY LineAt DEF IsList
<1>1. ~(k < l)
  BY <1>0, BlocksApart
<1>2. ~(l < k)
  BY <1>0, BlocksApart
<1>3. k = l
  BY <1>1, <1>2 DEF IsList
<1>4. Len(Texts(lock)[k - 1]) \in Nat
  BY Grown DEF IsList
<1> QED BY <1>3, <1>4 DEF At

\* The places of name and version.
LEMMA NamePlace ==
  ASSUME NEW lock, IsList(lock), NEW k \in 1 .. Len(lock)
  PROVE  /\ 2 \in 1 .. Len(Block(lock[k])) /\ 3 \in 1 .. Len(Block(lock[k]))
         /\ Len(Block(lock[k])) \in 1 .. Len(Block(lock[k]))
         /\ Block(lock[k])[2] = Name(lock[k]) /\ Block(lock[k])[3] = Version(lock[k])
         /\ lock[k].rest \in Seq(RestLines)
         /\ At(lock, k, 2) \in Int /\ At(lock, k, 3) = At(lock, k, 2) + 1
         /\ At(lock, k, 2) > 1 /\ At(lock, k, 3) > 1
         /\ \A n \in Int : At(lock, k, n) \in Int
         /\ \A n \in Int : n >= 4 => At(lock, k, 2) < At(lock, k, n) /\ At(lock, k, 3) < At(lock, k, n)
<1>1. lock[k].rest \in Seq(RestLines)
  BY DEF IsList, Rests
<1>2. Len(Texts(lock)[k - 1]) \in Nat
  BY Grown DEF IsList
<1>3. /\ Len(Block(lock[k])) \in Nat /\ 4 <= Len(Block(lock[k]))
      /\ Block(lock[k])[2] = Name(lock[k]) /\ Block(lock[k])[3] = Version(lock[k])
  BY <1>1, BlockLen
<1> DEFINE x == Len(Texts(lock)[k - 1])
           length == Len(Block(lock[k]))
<1>4. At(lock, k, 2) = x + 2 /\ At(lock, k, 3) = x + 3 /\ \A n \in Int : At(lock, k, n) = x + n
  BY DEF At
<1>5. x \in Nat /\ length \in Nat /\ 4 <= length
  BY <1>2, <1>3
<1> HIDE DEF x, length
<1>6. 2 \in 1 .. length /\ 3 \in 1 .. length /\ length \in 1 .. length
  BY <1>5
<1>7. /\ At(lock, k, 2) \in Int /\ At(lock, k, 3) = At(lock, k, 2) + 1
      /\ At(lock, k, 2) > 1 /\ At(lock, k, 3) > 1
      /\ \A n \in Int : At(lock, k, n) \in Int
  <2>1. x + 2 \in Int /\ x + 3 = (x + 2) + 1 /\ x + 2 > 1 /\ x + 3 > 1 /\ \A n \in Int : x + n \in Int
    BY <1>5
  <2> QED BY <1>4, <2>1
<1>8. ASSUME NEW n \in Int, n >= 4
      PROVE  At(lock, k, 2) < At(lock, k, n) /\ At(lock, k, 3) < At(lock, k, n)
  <2>1. x + 2 < x + n /\ x + 3 < x + n
    BY <1>5, <1>8
  <2> QED BY <1>4, <2>1
<1> QED BY <1>1, <1>3, <1>6, <1>7, <1>8 DEF length

\* Where in a lockfile names, versions and what follows them are.
LEMMA LinesThatTell ==
  ASSUME NEW lock, IsList(lock), NEW x \in 1 .. Len(Lines(lock)),
         Lines(lock)[x][1] \in {"name", "version", "rest"}
  PROVE  \E k \in 1 .. Len(lock) : \E n \in 1 .. Len(Block(lock[k])) :
           /\ x = At(lock, k, n)
           /\ (Lines(lock)[x][1] = "name") <=> (n = 2)
           /\ (Lines(lock)[x][1] = "version") <=> (n = 3)
           /\ n = 2 => Lines(lock)[x] = Name(lock[k])
           /\ n = 3 => Lines(lock)[x] = Version(lock[k])
           /\ Lines(lock)[x][1] = "rest" => Lines(lock)[x] \in Range(lock[k].rest) /\ n >= 4
<1>1. x # 1
  <2>1. Format[1] = "format"
    BY DEF Format
  <2> QED BY <2>1, FirstText
<1>a. PICK k \in 1 .. Len(lock) : \E n \in 1 .. Len(Block(lock[k])) : x = At(lock, k, n)
  BY <1>1, PlacesOf DEF IsList
<1>2. PICK n \in 1 .. Len(Block(lock[k])) : x = At(lock, k, n)
  BY <1>a
<1>3. Lines(lock)[x] = Block(lock[k])[n]
  BY <1>2, LineAt DEF IsList
<1>4. /\ lock[k].rest \in Seq(RestLines)
      /\ Block(lock[k])[2] = Name(lock[k]) /\ Block(lock[k])[3] = Version(lock[k])
  BY NamePlace
<1>5. /\ (Block(lock[k])[n][1] = "name") <=> (n = 2)
      /\ (Block(lock[k])[n][1] = "version") <=> (n = 3)
      /\ Block(lock[k])[n][1] = "rest" => Block(lock[k])[n] \in Range(lock[k].rest) /\ n >= 4
  BY <1>4, BlockKinds
<1> QED BY <1>2, <1>3, <1>4, <1>5

-----------------------------------------------------------------------------
(* A lockfile to which packages of other crates were added.                  *)

Adds(from, to) ==
  /\ IsList(from) /\ IsList(to) /\ \A w \in 1 .. Len(to) : to[w].name # NoName
  /\ \A k \in 1 .. Len(from) : \E y \in 1 .. Len(to) :
       Extends(to[y], from[k]) /\ ToldFrom(from[k], NewBehind(from, to, y))
  /\ \A w \in NewOnes(from, to) : to[w].name \notin NamesOf(from)
  /\ \A k, l \in 1 .. Len(from), m, n \in 1 .. Len(to) :
       k < l /\ Key(from[k]) = Key(to[m]) /\ Key(from[l]) = Key(to[n]) => m < n
  /\ \A m, n \in 1 .. Len(to) : Key(to[m]) = Key(to[n]) => m = n

LEMMA AddsIs ==
  ASSUME NEW from \in Locks, NEW to \in Locks, OnlyNewCrates(from, to)
  PROVE  Adds(from, to)
<1>1. IsList(from) /\ IsList(to) /\ from \in Seq(Entries) /\ to \in Seq(Entries)
  BY LocksAreEntries
<1>2. DOMAIN from = 1 .. Len(from) /\ DOMAIN to = 1 .. Len(to) /\ Len(from) \in Nat /\ Len(to) \in Nat
  BY <1>1 DEF IsList
<1>3. \A k, l \in DOMAIN from, m, n \in DOMAIN to :
        k < l /\ Key(from[k]) = Key(to[m]) /\ Key(from[l]) = Key(to[n]) => m < n
  BY LocksAssumption
<1>4. \A k, l, m, n \in DOMAIN to : k < l /\ Key(to[k]) = Key(to[m]) /\ Key(to[l]) = Key(to[n]) => m < n
  BY LocksAssumption
<1>5. ASSUME NEW k \in 1 .. Len(to), NEW l \in 1 .. Len(to), Key(to[k]) = Key(to[l]) PROVE k = l
  <2>1. k < l => l < k
    BY <1>2, <1>4, <1>5
  <2>2. l < k => k < l
    BY <1>2, <1>4, <1>5
  <2> QED BY <2>1, <2>2
<1>6. ASSUME NEW k \in 1 .. Len(from)
      PROVE  \E y \in 1 .. Len(to) : Extends(to[y], from[k]) /\ ToldFrom(from[k], NewBehind(from, to, y))
  <2>1. from[k] \in Range(from)
    BY <1>2 DEF Range
  <2> QED BY <1>2, <2>1 DEF OnlyNewCrates
<1>7. ASSUME NEW w \in 1 .. Len(to) PROVE to[w].name # NoName
  <2>1. to[w] \in Entries
    BY <1>1, <1>2
  <2> QED BY <2>1 DEF Entries, NoName
<1>8. \A w \in NewOnes(from, to) : to[w].name \notin NamesOf(from)
  BY DEF OnlyNewCrates
<1> QED BY <1>1, <1>2, <1>3, <1>5, <1>6, <1>7, <1>8 DEF Adds

\* Where a package is afterwards.
Home(from, to, k) == CHOOSE y \in 1 .. Len(to) : Key(to[y]) = Key(from[k])

LEMMA HomeIs ==
  ASSUME NEW from, NEW to, Adds(from, to), NEW k \in 1 .. Len(from)
  PROVE  /\ Home(from, to, k) \in 1 .. Len(to) /\ Key(to[Home(from, to, k)]) = Key(from[k])
         /\ \A y \in 1 .. Len(to) : Key(to[y]) = Key(from[k]) => y = Home(from, to, k)
         /\ Extends(to[Home(from, to, k)], from[k])
         /\ ToldFrom(from[k], NewBehind(from, to, Home(from, to, k)))
<1>1. PICK y \in 1 .. Len(to) : Extends(to[y], from[k]) /\ ToldFrom(from[k], NewBehind(from, to, y))
  BY DEF Adds
<1>2. Key(to[y]) = Key(from[k])
  BY <1>1 DEF Extends
<1>3. \A z \in 1 .. Len(to) : Key(to[z]) = Key(from[k]) => z = y
  BY <1>2 DEF Adds
<1>4. Home(from, to, k) = y
  BY <1>2, <1>3 DEF Home
<1> QED BY <1>1, <1>2, <1>3, <1>4

LEMMA HomesAscend ==
  ASSUME NEW from, NEW to, Adds(from, to), NEW k \in 1 .. Len(from), NEW l \in 1 .. Len(from), k < l
  PROVE  Home(from, to, k) < Home(from, to, l)
<1>1. Home(from, to, k) \in 1 .. Len(to) /\ Key(to[Home(from, to, k)]) = Key(from[k])
  BY HomeIs
<1>2. Home(from, to, l) \in 1 .. Len(to) /\ Key(to[Home(from, to, l)]) = Key(from[l])
  BY HomeIs
<1> QED BY <1>1, <1>2 DEF Adds

\* What was there is at home, and what is new is nobody's home.
LEMMA OldIsHome ==
  ASSUME NEW from, NEW to, Adds(from, to)
  PROVE  /\ NewOnes(from, to) \subseteq 1 .. Len(to)
         /\ \A w \in 1 .. Len(to) : w \notin NewOnes(from, to) => \E k \in 1 .. Len(from) : w = Home(from, to, k)
         /\ \A k \in 1 .. Len(from) : Home(from, to, k) \notin NewOnes(from, to)
<1>1. DOMAIN from = 1 .. Len(from) /\ DOMAIN to = 1 .. Len(to)
  BY DEF Adds, IsList
<1>2. ASSUME NEW w \in 1 .. Len(to), w \notin NewOnes(from, to)
      PROVE  \E k \in 1 .. Len(from) : w = Home(from, to, k)
  <2>1. Key(to[w]) \in KeysOf(from)
    BY <1>1, <1>2 DEF NewOnes
  <2>2. PICK p \in Range(from) : Key(to[w]) = Key(p)
    BY <2>1 DEF KeysOf
  <2>3. PICK k \in 1 .. Len(from) : from[k] = p
    BY <1>1 DEF Range
  <2>4. Key(to[w]) = Key(from[k])
    BY <2>2, <2>3
  <2>5. w = Home(from, to, k)
    BY <2>4, HomeIs
  <2> QED BY <2>5
<1>3. ASSUME NEW k \in 1 .. Len(from) PROVE Home(from, to, k) \notin NewOnes(from, to)
  <2>1. from[k] \in Range(from)
    BY <1>1 DEF Range
  <2>2. Key(from[k]) \in KeysOf(from)
    BY <2>1 DEF KeysOf
  <2> QED BY <2>2, HomeIs DEF NewOnes
<1> QED BY <1>1, <1>2, <1>3 DEF NewOnes

\* Behind a package there are only new ones until the home of the next.
LEMMA NextHome ==
  ASSUME NEW from, NEW to, Adds(from, to), NEW k \in 1 .. Len(from), NEW w \in 1 .. Len(to),
         Home(from, to, k) < w, to[w] \notin NewBehind(from, to, Home(from, to, k))
  PROVE  \E l \in 1 .. Len(from) : k < l /\ Home(from, to, l) <= w
<1> DEFINE home == Home(from, to, k)
<1>1. home \in 1 .. Len(to) /\ home < w
  BY HomeIs
<1> HIDE DEF home
<1>2. w \in home + 1 .. w
  BY <1>1
<1>3. ~(home + 1 .. w \subseteq NewOnes(from, to))
  BY <1>1, <1>2 DEF NewBehind, home
<1>4. PICK v \in home + 1 .. w : v \notin NewOnes(from, to)
  BY <1>3
<1>5. v \in 1 .. Len(to) /\ home < v /\ v <= w
  BY <1>1
<1>6. PICK l \in 1 .. Len(from) : v = Home(from, to, l)
  BY <1>4, <1>5, OldIsHome
<1>7. ~(l < k)
  <2>1. l < k => Home(from, to, l) < home
    BY HomesAscend DEF home
  <2> QED BY <1>1, <1>5, <1>6, <2>1
<1>8. l # k
  BY <1>1, <1>5, <1>6 DEF home
<1> QED BY <1>5, <1>6, <1>7, <1>8

\* The lines of a package are in its block as it is afterwards: line n is the one that g[n] is there.
Kept(p, q, g) ==
  /\ Over(g, 1 .. Len(Block(p)))
  /\ \A n \in 1 .. Len(Block(p)) : g[n] \in 1 .. Len(Block(q)) /\ Block(q)[g[n]] = Block(p)[n]
  /\ \A m, n \in 1 .. Len(Block(p)) : m < n => g[m] < g[n]

LEMMA BlockStays ==
  ASSUME NEW p, NEW q, p.rest \in Seq(RestLines), q.rest \in Seq(RestLines), Extends(q, p)
  PROVE  \E g : Kept(p, q, g)
<1>1. Top(q) = Top(p)
  <2>1. q.name = p.name /\ q.version = p.version /\ q.source = p.source
    BY DEF Extends, Key
  <2>2. Header(q) = Header(p) /\ Name(q) = Name(p) /\ Version(q) = Version(p) /\ Source(q) = Source(p)
    BY <2>1 DEF Header, Name, Version, Source
  <2> QED BY <2>1, <2>2 DEF Top
<1>2. PICK S \in SUBSET DOMAIN q.rest : Filtered(q.rest, S) = p.rest
  BY DEF Extends
<1> DEFINE t == Len(Top(p))
           r == Len(p.rest)
           u == Len(q.rest)
           c == Cardinality(S)
           chosen == Ascending(S)
           g == [n \in 1 .. t + r + 1 |-> IF n <= t THEN n ELSE IF n <= t + r THEN t + chosen[n - t] ELSE t + u + 1]
<1>3. /\ t \in {3, 4} /\ r \in Nat /\ Len(Block(p)) = t + r + 1
      /\ \A n \in 1 .. t : Block(p)[n] = Top(p)[n]
      /\ \A n \in 1 .. r : Block(p)[t + n] = p.rest[n]
      /\ Block(p)[t + r + 1] = Blank
  BY TopIs, BlockIs
<1>4. /\ u \in Nat /\ Len(Block(q)) = t + u + 1 /\ DOMAIN q.rest = 1 .. u
      /\ \A n \in 1 .. t : Block(q)[n] = Top(p)[n]
      /\ \A n \in 1 .. u : Block(q)[t + n] = q.rest[n]
      /\ Block(q)[t + u + 1] = Blank
  BY <1>1, BlockIs
<1>5. /\ S \in Indexes(u) /\ c \in Nat
      /\ chosen \in [1 .. c -> S] /\ \A n, m \in 1 .. c : n < m => chosen[n] < chosen[m]
  <2>1. S \in Indexes(u)
    BY <1>4 DEF Indexes
  <2>2. c \in 0 .. u
    BY <1>4, <2>1, Counted
  <2> QED BY <1>4, <2>1, <2>2, AscendingLists
<1>6. r = c /\ \A n \in 1 .. c : p.rest[n] = q.rest[chosen[n]]
  <2> DEFINE f == [n \in 1 .. c |-> q.rest[chosen[n]]]
  <2>1. p.rest = f
    BY <1>2 DEF Filtered
  <2>2. DOMAIN p.rest = 1 .. r
    OBVIOUS
  <2>3. DOMAIN f = 1 .. c
    OBVIOUS
  <2>4. \A n \in 1 .. c : f[n] = q.rest[chosen[n]]
    OBVIOUS
  <2> HIDE DEF f, c, r, chosen
  <2>5. 1 .. r = 1 .. c
    BY <2>1, <2>2, <2>3
  <2>6. r = c
    BY <1>3, <1>5, <2>5
  <2> QED BY <2>1, <2>4, <2>6
<1>7. \A n \in 1 .. r : chosen[n] \in 1 .. u
  BY <1>5, <1>6 DEF Indexes
<1>8. \A m, n \in 1 .. r : m < n => chosen[m] < chosen[n]
  BY <1>5, <1>6
<1>9. \A n \in 1 .. r : q.rest[chosen[n]] = p.rest[n]
  BY <1>6
<1> DEFINE P == Block(p)
           Q == Block(q)
           W == Top(p)
           k == p.rest
           l == q.rest
           e == Blank
<1>10. /\ \A n \in 1 .. t : P[n] = W[n] /\ Q[n] = W[n]
       /\ \A n \in 1 .. r : P[t + n] = k[n]
       /\ \A n \in 1 .. u : Q[t + n] = l[n]
       /\ \A n \in 1 .. r : l[chosen[n]] = k[n]
       /\ P[t + r + 1] = e /\ Q[t + u + 1] = e
  BY <1>3, <1>4, <1>9
<1>11. t \in Nat /\ r \in Nat /\ u \in Nat
  BY <1>3, <1>4
<1>12. Over(g, 1 .. t + r + 1)
  BY DEF Over
<1>13. ASSUME NEW n \in 1 .. t + r + 1
       PROVE  \/ n \in 1 .. t /\ g[n] = n
              \/ n - t \in 1 .. r /\ n = t + (n - t) /\ g[n] = t + chosen[n - t]
              \/ n = t + r + 1 /\ g[n] = t + u + 1
  <2> HIDE DEF t, r, u, chosen
  <2> QED BY <1>11
<1> HIDE DEF g, t, r, u, chosen, P, Q, W, k, l, e
<1>14. ASSUME NEW n \in 1 .. t + r + 1 PROVE g[n] \in 1 .. t + u + 1 /\ Q[g[n]] = P[n]
  <2>1. CASE n \in 1 .. t /\ g[n] = n
    BY <1>10, <1>11, <2>1
  <2>2. CASE n - t \in 1 .. r /\ n = t + (n - t) /\ g[n] = t + chosen[n - t]
    <3>1. chosen[n - t] \in 1 .. u
      BY <1>7, <2>2
    <3>2. P[n] = k[n - t] /\ Q[g[n]] = l[chosen[n - t]] /\ l[chosen[n - t]] = k[n - t]
      BY <1>10, <2>2, <3>1
    <3> QED BY <1>11, <2>2, <3>1, <3>2
  <2>3. CASE n = t + r + 1 /\ g[n] = t + u + 1
    BY <1>10, <1>11, <2>3
  <2> QED BY <1>13, <2>1, <2>2, <2>3
<1>15. ASSUME NEW m \in 1 .. t + r + 1, NEW n \in 1 .. t + r + 1, m < n PROVE g[m] < g[n]
  <2>1. CASE m \in 1 .. t /\ g[m] = m
    <3>1. CASE n - t \in 1 .. r /\ n = t + (n - t) /\ g[n] = t + chosen[n - t]
      <4>1. chosen[n - t] \in 1 .. u
        BY <1>7, <3>1
      <4> QED BY <1>11, <2>1, <3>1, <4>1
    <3> QED BY <1>11, <1>13, <1>15, <2>1, <3>1
  <2>2. CASE m - t \in 1 .. r /\ m = t + (m - t) /\ g[m] = t + chosen[m - t]
    <3>1. chosen[m - t] \in 1 .. u
      BY <1>7, <2>2
    <3>2. CASE n - t \in 1 .. r /\ n = t + (n - t) /\ g[n] = t + chosen[n - t]
      <4>1. m - t < n - t
        BY <1>11, <1>15
      <4>2. chosen[m - t] < chosen[n - t] /\ chosen[n - t] \in 1 .. u
        BY <1>7, <1>8, <2>2, <3>2, <4>1
      <4> QED BY <1>11, <2>2, <3>1, <3>2, <4>2
    <3>3. CASE n = t + r + 1 /\ g[n] = t + u + 1
      BY <1>11, <2>2, <3>1, <3>3
    <3>4. ~(n \in 1 .. t)
      BY <1>11, <1>15, <2>2
    <3> QED BY <1>13, <3>2, <3>3, <3>4
  <2>3. ~(m = t + r + 1)
    BY <1>11, <1>15
  <2> QED BY <1>13, <2>1, <2>2, <2>3
<1>16. Kept(p, q, g)
  BY <1>3, <1>4, <1>12, <1>14, <1>15 DEF Kept, P, Q
<1> QED BY <1>16

Places(from, to, k) == CHOOSE g : Kept(from[k], to[Home(from, to, k)], g)

LEMMA PlacesAre ==
  ASSUME NEW from, NEW to, Adds(from, to), NEW k \in 1 .. Len(from)
  PROVE  Kept(from[k], to[Home(from, to, k)], Places(from, to, k))
<1>1. Home(from, to, k) \in 1 .. Len(to) /\ Extends(to[Home(from, to, k)], from[k])
  BY HomeIs
<1>2. from[k].rest \in Seq(RestLines) /\ to[Home(from, to, k)].rest \in Seq(RestLines)
  BY <1>1 DEF Adds, IsList, Rests
<1>3. \E g : Kept(from[k], to[Home(from, to, k)], g)
  BY <1>1, <1>2, BlockStays
<1> QED BY <1>3 DEF Places

\* The lines of the first text are in the second one.
LEMMA AllAreThere ==
  ASSUME NEW from, NEW to, Adds(from, to)
  PROVE  AllIn(Lines(from), Lines(to), 1, 1)
<1> DEFINE a == Lines(from)
           b == Lines(to)
           Goes(x, y) == \E k \in 1 .. Len(from) : \E n \in 1 .. Len(Block(from[k])) :
                           x = At(from, k, n) /\ y = At(to, Home(from, to, k), Places(from, to, k)[n])
           e == [x \in 1 .. Len(a) |-> IF x = 1 THEN 1 ELSE CHOOSE y \in 1 .. Len(b) : Goes(x, y)]
<1>1. IsList(from) /\ IsList(to) /\ Len(a) \in Nat /\ Len(b) \in Nat
  <2>1. IsList(from) /\ IsList(to)
    BY DEF Adds
  <2>2. 0 \in 0 .. Len(from) /\ 0 \in 0 .. Len(to)
    BY <2>1 DEF IsList
  <2> QED BY <2>1, <2>2, TextStays DEF IsList
<1>2. ASSUME NEW k \in 1 .. Len(from), NEW n \in 1 .. Len(Block(from[k]))
      PROVE  /\ Home(from, to, k) \in 1 .. Len(to)
             /\ Places(from, to, k)[n] \in 1 .. Len(Block(to[Home(from, to, k)]))
             /\ At(from, k, n) \in 1 .. Len(a) /\ a[At(from, k, n)] = Block(from[k])[n]
             /\ At(to, Home(from, to, k), Places(from, to, k)[n]) \in 1 .. Len(b)
             /\ b[At(to, Home(from, to, k), Places(from, to, k)[n])] = Block(from[k])[n]
  <2>1. Home(from, to, k) \in 1 .. Len(to)
    BY HomeIs
  <2> DEFINE home == Home(from, to, k)
             place == Places(from, to, k)[n]
  <2>2. place \in 1 .. Len(Block(to[home])) /\ Block(to[home])[place] = Block(from[k])[n]
    BY PlacesAre DEF Kept
  <2>3. home \in 1 .. Len(to)
    BY <2>1
  <2> HIDE DEF home, place
  <2>4. At(to, home, place) \in 1 .. Len(b) /\ b[At(to, home, place)] = Block(to[home])[place]
    BY <1>1, <2>2, <2>3, LineAt DEF IsList
  <2>5. At(from, k, n) \in 1 .. Len(a) /\ a[At(from, k, n)] = Block(from[k])[n]
    BY <1>1, LineAt DEF IsList
  <2> QED BY <2>2, <2>3, <2>4, <2>5 DEF home, place
<1>3. ASSUME NEW x \in 1 .. Len(a), x # 1 PROVE e[x] \in 1 .. Len(b) /\ Goes(x, e[x])
  <2>1. PICK k \in 1 .. Len(from) : \E n \in 1 .. Len(Block(from[k])) : x = At(from, k, n)
    BY <1>1, <1>3, PlacesOf DEF IsList
  <2>2. PICK n \in 1 .. Len(Block(from[k])) : x = At(from, k, n)
    BY <2>1
  <2>3. \E y \in 1 .. Len(b) : Goes(x, y)
    BY <1>2, <2>2
  <2> HIDE DEF Goes
  <2> QED BY <1>3, <2>3
<1>4. ASSUME NEW x \in 1 .. Len(a), x = 1 PROVE e[x] = 1 /\ 1 \in 1 .. Len(b) /\ b[1] = a[1]
  BY <1>1, <1>4, FirstText
<1> HIDE DEF e
<1>5. ASSUME NEW x \in 1 .. Len(a) PROVE e[x] \in 1 .. Len(b) /\ b[e[x]] = a[x]
  <2>1. CASE x = 1
    BY <1>4, <2>1
  <2>2. CASE x # 1
    <3>1. e[x] \in 1 .. Len(b) /\ Goes(x, e[x])
      BY <1>3, <2>2
    <3> HIDE DEF a, b
    <3> QED BY <1>2, <3>1
  <2> QED BY <2>1, <2>2
<1>6. ASSUME NEW x \in 1 .. Len(a), NEW z \in 1 .. Len(a), x < z PROVE e[x] < e[z]
  <2>1. z # 1
    BY <1>6
  <2>2. PICK l \in 1 .. Len(from) : \E m \in 1 .. Len(Block(from[l])) :
                           z = At(from, l, m) /\ e[z] = At(to, Home(from, to, l), Places(from, to, l)[m])
    BY <1>3, <2>1
  <2>3. PICK m \in 1 .. Len(Block(from[l])) :
               z = At(from, l, m) /\ e[z] = At(to, Home(from, to, l), Places(from, to, l)[m])
    BY <2>2
  <2> DEFINE homeL == Home(from, to, l)
             placeM == Places(from, to, l)[m]
  <2>4. homeL \in 1 .. Len(to) /\ placeM \in 1 .. Len(Block(to[homeL])) /\ e[z] = At(to, homeL, placeM)
    BY <1>2, <2>3
  <2> HIDE DEF homeL, placeM
  <2>5. CASE x = 1
    <3>1. e[x] = 1 /\ e[z] \in 1 .. Len(b)
      BY <1>4, <1>5, <2>5
    <3>2. e[z] # 1
      <4>1. Len(Texts(to)[homeL - 1]) >= 1
        <5>1. 0 \in 0 .. Len(to) /\ homeL - 1 \in 0 .. Len(to) /\ homeL - 1 \in 0 .. Len(to)
          BY <1>1, <2>4 DEF IsList
        <5>2. Len(Texts(to)[0]) = 1
          BY <1>1, FirstText
        <5>3. Len(Texts(to)[0]) <= Len(Texts(to)[homeL - 1])
          BY <1>1, <5>1, TextsStay DEF IsList
        <5> QED BY <5>2, <5>3
      <4>2. Len(Texts(to)[homeL - 1]) \in Nat /\ placeM \in Int /\ placeM >= 1
        BY <1>1, <2>4, Grown DEF IsList
      <4> QED BY <2>4, <4>1, <4>2 DEF At
    <3> QED BY <3>1, <3>2
  <2>6. CASE x # 1
    <3>1. PICK k \in 1 .. Len(from) : \E n \in 1 .. Len(Block(from[k])) :
                           x = At(from, k, n) /\ e[x] = At(to, Home(from, to, k), Places(from, to, k)[n])
      BY <1>3, <2>6
    <3>2. PICK n \in 1 .. Len(Block(from[k])) :
                 x = At(from, k, n) /\ e[x] = At(to, Home(from, to, k), Places(from, to, k)[n])
      BY <3>1
    <3> DEFINE homeK == Home(from, to, k)
               placeN == Places(from, to, k)[n]
    <3>3. homeK \in 1 .. Len(to) /\ placeN \in 1 .. Len(Block(to[homeK])) /\ e[x] = At(to, homeK, placeN)
      BY <1>2, <3>2
    <3>4. x \in Int /\ z \in Int
      OBVIOUS
    <3>5. ~(l < k)
      BY <1>1, <1>6, <2>3, <3>2, <3>4, BlocksApart
    <3>6. CASE k < l
      <4>1. homeK < homeL
        BY <3>6, HomesAscend DEF homeL
      <4> HIDE DEF homeK, placeN
      <4>2. At(to, homeK, placeN) < At(to, homeL, placeM)
        BY <1>1, <2>4, <3>3, <4>1, BlocksApart
      <4> QED BY <2>4, <3>3, <4>2
    <3>7. CASE k = l
      <4>1. Len(Texts(from)[k - 1]) \in Nat /\ Len(Texts(to)[homeK - 1]) \in Nat
        BY <1>1, <3>3, Grown DEF IsList
      <4>2. n \in 1 .. Len(Block(from[k])) /\ m \in 1 .. Len(Block(from[k])) /\ n < m
        <5>1. n \in Int /\ m \in Int
          OBVIOUS
        <5> QED BY <1>6, <2>3, <3>2, <3>7, <4>1, <5>1 DEF At
      <4>3. placeN < placeM /\ homeK = homeL
        BY <3>7, <4>2, PlacesAre DEF Kept, placeM, homeL
      <4>4. placeN \in Int /\ placeM \in Int
        BY <2>4, <3>3
      <4>5. e[x] = At(to, homeK, placeN) /\ e[z] = At(to, homeK, placeM)
        BY <2>4, <3>3, <4>3
      <4> HIDE DEF homeK, placeN
      <4> QED BY <4>1, <4>3, <4>4, <4>5 DEF At
    <3> QED BY <1>1, <3>5, <3>6, <3>7 DEF IsList
  <2> QED BY <2>5, <2>6
<1>7. e \in [1 .. Len(a) -> 1 .. Len(b)]
  <2>1. Over(e, 1 .. Len(a))
    BY DEF e, Over
  <2> QED BY <1>5, <2>1 DEF Over
<1> HIDE DEF a, b
<1>8. AllIn(a, b, 1, 1)
  BY <1>1, <1>5, <1>6, <1>7, EmbeddedIsIn
<1> QED BY <1>8 DEF a, b

\* The lines of a package that tell where it is kept: its name, its version, and the lines that
\* no new package directly behind it has.
Telling(from, to, k) ==
  {2, 3} \union {n \in 4 .. Len(Block(from[k])) :
                   /\ Block(from[k])[n][1] = "rest"
                   /\ \A q \in NewBehind(from, to, Home(from, to, k)) : Block(from[k])[n] \notin Range(q.rest)}
\* How far such a line may be from where the package begins.
Limit(from, to, k, n) == IF n \in {2, 3} THEN n ELSE Len(Block(to[Home(from, to, k)]))

LEMMA TellingIs ==
  ASSUME NEW from, NEW to, Adds(from, to), NEW k \in 1 .. Len(from), NEW n \in Telling(from, to, k)
  PROVE  /\ n \in 1 .. Len(Block(from[k])) /\ n \in Int
         /\ At(from, k, n) \in 1 .. Len(Lines(from)) /\ Lines(from)[At(from, k, n)] = Block(from[k])[n]
         /\ Home(from, to, k) \in 1 .. Len(to)
         /\ Limit(from, to, k, n) \in 1 .. Len(Block(to[Home(from, to, k)]))
         /\ At(to, Home(from, to, k), Limit(from, to, k, n)) \in 1 .. Len(Lines(to))
         /\ n \in {2, 3} => Limit(from, to, k, n) = n
         /\ n \notin {2, 3} => n >= 4 /\ Block(from[k])[n][1] = "rest"
<1>1. IsList(from) /\ IsList(to) /\ Home(from, to, k) \in 1 .. Len(to)
  BY HomeIs DEF Adds
<1>2. 2 \in 1 .. Len(Block(from[k])) /\ 3 \in 1 .. Len(Block(from[k]))
  BY <1>1, NamePlace
<1>3. n \in 1 .. Len(Block(from[k])) /\ n \in Int
  BY <1>2 DEF Telling
<1> DEFINE home == Home(from, to, k)
           far == Limit(from, to, k, n)
<1>4. home \in 1 .. Len(to)
  BY <1>1
<1>5. far \in 1 .. Len(Block(to[home]))
  <2> HIDE DEF home
  <2>1. /\ 2 \in 1 .. Len(Block(to[home])) /\ 3 \in 1 .. Len(Block(to[home]))
        /\ Len(Block(to[home])) \in 1 .. Len(Block(to[home]))
    BY <1>1, <1>4, NamePlace
  <2> QED BY <2>1 DEF Limit, home
<1>6. At(from, k, n) \in 1 .. Len(Lines(from)) /\ Lines(from)[At(from, k, n)] = Block(from[k])[n]
  BY <1>1, <1>3, LineAt DEF IsList
<1>7. At(to, home, far) \in 1 .. Len(Lines(to))
  <2> HIDE DEF home, far
  <2> QED BY <1>1, <1>4, <1>5, LineAt DEF IsList
<1>8. n \in {2, 3} => far = n
  BY DEF Limit
<1>9. n \notin {2, 3} => n >= 4 /\ Block(from[k])[n][1] = "rest"
  BY DEF Telling
<1> QED BY <1>3, <1>4, <1>5, <1>6, <1>7, <1>8, <1>9

\* Its name and its version are at home in the same lines.
LEMMA HomePlace ==
  ASSUME NEW from, NEW to, Adds(from, to), NEW k \in 1 .. Len(from)
  PROVE  /\ IsList(from) /\ IsList(to) /\ Home(from, to, k) \in 1 .. Len(to)
         /\ to[Home(from, to, k)].name = from[k].name
         /\ \A n \in {2, 3} : /\ n \in Telling(from, to, k) /\ n \in 1 .. Len(Block(from[k]))
                              /\ n \in 1 .. Len(Block(to[Home(from, to, k)]))
                              /\ Limit(from, to, k, n) = n
                              /\ At(from, k, n) \in Int /\ At(to, Home(from, to, k), n) \in Int
         /\ At(from, k, 3) = At(from, k, 2) + 1
         /\ At(to, Home(from, to, k), 3) = At(to, Home(from, to, k), 2) + 1
<1>1. IsList(from) /\ IsList(to) /\ Home(from, to, k) \in 1 .. Len(to)
      /\ Key(to[Home(from, to, k)]) = Key(from[k])
  BY HomeIs DEF Adds
<1>2. to[Home(from, to, k)].name = from[k].name
  BY <1>1 DEF Key
<1> DEFINE home == Home(from, to, k)
<1>3. home \in 1 .. Len(to)
  BY <1>1
<1> HIDE DEF home
<1>4. /\ 2 \in 1 .. Len(Block(to[home])) /\ 3 \in 1 .. Len(Block(to[home]))
      /\ At(to, home, 2) \in Int /\ At(to, home, 3) = At(to, home, 2) + 1
  BY <1>1, <1>3, NamePlace
<1>5. /\ 2 \in 1 .. Len(Block(from[k])) /\ 3 \in 1 .. Len(Block(from[k]))
      /\ At(from, k, 2) \in Int /\ At(from, k, 3) = At(from, k, 2) + 1
  BY <1>1, NamePlace
<1>6. At(to, home, 3) \in Int /\ At(from, k, 3) \in Int
  BY <1>4, <1>5
<1> QED BY <1>1, <1>2, <1>4, <1>5, <1>6 DEF Telling, Limit, home

\* Where such a line may be matched.
LEMMA MatchIs ==
  ASSUME NEW from, NEW to, Adds(from, to), NEW k \in 1 .. Len(from), NEW n \in Telling(from, to, k),
         NEW y \in 1 .. Len(Lines(to)), Lines(from)[At(from, k, n)] = Lines(to)[y]
  PROVE  \E w \in 1 .. Len(to) : \E m \in 1 .. Len(Block(to[w])) :
           /\ y = At(to, w, m)
           /\ n \in {2, 3} => m = n
           /\ n = 2 => \E l \in 1 .. Len(from) : w = Home(from, to, l)
           /\ n = 3 => to[w].version = from[k].version
           /\ n \notin {2, 3} => m >= 4 /\ to[w] \notin NewBehind(from, to, Home(from, to, k))
<1>1. IsList(from) /\ IsList(to)
  BY DEF Adds
<1> DEFINE line == Lines(to)[y]
<1>2. /\ n \in 1 .. Len(Block(from[k])) /\ line = Block(from[k])[n]
      /\ n \notin {2, 3} => line[1] = "rest"
  BY TellingIs
<1>3. /\ Block(from[k])[2] = Name(from[k]) /\ Block(from[k])[3] = Version(from[k])
      /\ from[k].rest \in Seq(RestLines)
  BY <1>1, NamePlace
<1>4. /\ (line[1] = "name") <=> (n = 2)
      /\ (line[1] = "version") <=> (n = 3)
      /\ n = 2 => line = Name(from[k])
      /\ n = 3 => line = Version(from[k])
  BY <1>2, <1>3, BlockKinds
<1>5. line[1] \in {"name", "version", "rest"}
  BY <1>2, <1>4
<1>6. PICK w \in 1 .. Len(to) : \E m \in 1 .. Len(Block(to[w])) :
           /\ y = At(to, w, m)
           /\ (line[1] = "name") <=> (m = 2)
           /\ (line[1] = "version") <=> (m = 3)
           /\ m = 2 => line = Name(to[w])
           /\ m = 3 => line = Version(to[w])
           /\ line[1] = "rest" => line \in Range(to[w].rest) /\ m >= 4
  BY <1>1, <1>5, LinesThatTell
<1>7. PICK m \in 1 .. Len(Block(to[w])) :
           /\ y = At(to, w, m)
           /\ (line[1] = "name") <=> (m = 2)
           /\ (line[1] = "version") <=> (m = 3)
           /\ m = 2 => line = Name(to[w])
           /\ m = 3 => line = Version(to[w])
           /\ line[1] = "rest" => line \in Range(to[w].rest) /\ m >= 4
  BY <1>6
<1>8. n \in {2, 3} => m = n
  BY <1>4, <1>7
<1>9. ASSUME n = 2 PROVE \E l \in 1 .. Len(from) : w = Home(from, to, l)
  <2>1. Name(to[w]) = Name(from[k])
    BY <1>4, <1>7, <1>8, <1>9
  <2>2. to[w].name = from[k].name
    BY <2>1 DEF Name
  <2>3. from[k] \in Range(from)
    BY <1>1 DEF Range, IsList
  <2>4. to[w].name \in NamesOf(from)
    BY <2>2, <2>3 DEF NamesOf
  <2>5. w \notin NewOnes(from, to)
    BY <2>4 DEF Adds
  <2> QED BY <2>5, OldIsHome
<1>10. ASSUME n = 3 PROVE to[w].version = from[k].version
  <2>1. Version(to[w]) = Version(from[k])
    BY <1>4, <1>7, <1>8, <1>10
  <2> QED BY <2>1 DEF Version
<1>11. ASSUME n \notin {2, 3} PROVE m >= 4 /\ to[w] \notin NewBehind(from, to, Home(from, to, k))
  <2>1. line \in Range(to[w].rest) /\ m >= 4
    BY <1>2, <1>7, <1>11
  <2>2. \A q \in NewBehind(from, to, Home(from, to, k)) : Block(from[k])[n] \notin Range(q.rest)
    BY <1>11 DEF Telling
  <2> QED BY <1>2, <2>1, <2>2
<1> QED BY <1>7, <1>8, <1>9, <1>10, <1>11

\* While all that is left of the first text can be found, the diff has not passed the places in
\* the second text of the packages whose lines are left.
Ahead(from, to, x, y) ==
  \A k \in 1 .. Len(from) : \A n \in Telling(from, to, k) :
    At(from, k, n) >= x => At(to, Home(from, to, k), Limit(from, to, k, n)) >= y

\* A line that tells a package is not matched behind it: the name of the next one, or the line that
\* a new one with its version does not have, would be left and could not be found any more.
LEMMA MatchedInTime ==
  ASSUME NEW from, NEW to, Adds(from, to), NEW k \in 1 .. Len(from), NEW n \in Telling(from, to, k),
         NEW z \in 1 .. Len(Lines(to)), Lines(from)[At(from, k, n)] = Lines(to)[z],
         Ahead(from, to, At(from, k, n) + 1, z + 1)
  PROVE  At(to, Home(from, to, k), Limit(from, to, k, n)) >= z
<1> DEFINE home == Home(from, to, k)
           far == Limit(from, to, k, n)
           t == At(to, home, far)
           s == At(from, k, n)
<1>1. /\ IsList(from) /\ IsList(to) /\ s \in Int /\ z \in Int /\ t \in Int
      /\ home \in 1 .. Len(to) /\ far \in 1 .. Len(Block(to[home])) /\ n \in 1 .. Len(Block(from[k])) /\ n \in Int
      /\ n \in {2, 3} => far = n
      /\ n \notin {2, 3} => n >= 4 /\ far = Len(Block(to[home]))
  <2>1. IsList(from) /\ IsList(to)
    BY DEF Adds
  <2>2. n \notin {2, 3} => far = Len(Block(to[home]))
    BY DEF Limit
  <2>3. /\ s \in Int /\ t \in Int /\ home \in 1 .. Len(to) /\ far \in 1 .. Len(Block(to[home]))
        /\ n \in 1 .. Len(Block(from[k])) /\ n \in Int
        /\ n \in {2, 3} => far = n
        /\ n \notin {2, 3} => n >= 4
    <3> HIDE DEF home, far
    <3> QED BY TellingIs DEF home, far
  <2> QED BY <2>1, <2>2, <2>3
<1>2. PICK w \in 1 .. Len(to) : \E m \in 1 .. Len(Block(to[w])) :
           /\ z = At(to, w, m)
           /\ n \in {2, 3} => m = n
           /\ n = 2 => \E l \in 1 .. Len(from) : w = Home(from, to, l)
           /\ n = 3 => to[w].version = from[k].version
           /\ n \notin {2, 3} => m >= 4 /\ to[w] \notin NewBehind(from, to, home)
  BY MatchIs
<1>3. PICK m \in 1 .. Len(Block(to[w])) :
           /\ z = At(to, w, m)
           /\ n \in {2, 3} => m = n
           /\ n = 2 => \E l \in 1 .. Len(from) : w = Home(from, to, l)
           /\ n = 3 => to[w].version = from[k].version
           /\ n \notin {2, 3} => m >= 4 /\ to[w] \notin NewBehind(from, to, home)
  BY <1>2
\* No package behind k is at home where the line is matched or before.
<1>4. ASSUME NEW l \in 1 .. Len(from), k < l PROVE ~(Home(from, to, l) <= w)
  <2> SUFFICES ASSUME Home(from, to, l) <= w PROVE FALSE
    OBVIOUS
  <2> DEFINE v == Home(from, to, l)
             u == At(to, v, 2)
             r == At(from, l, 2)
  <2>1. /\ v \in 1 .. Len(to) /\ 2 \in Telling(from, to, l) /\ 2 \in 1 .. Len(Block(from[l]))
        /\ 2 \in 1 .. Len(Block(to[v])) /\ Limit(from, to, l, 2) = 2 /\ u \in Int /\ r \in Int
    BY HomePlace
  <2>2. s < r
    BY <1>1, <1>4, <2>1, BlocksApart
  <2>3. r >= s + 1
    <3> HIDE DEF r, s
    <3> QED BY <1>1, <2>1, <2>2
  <2>4. At(to, v, Limit(from, to, l, 2)) >= z + 1
    BY <2>1, <2>3 DEF Ahead
  <2>5. u >= z + 1
    BY <2>1, <2>4
  <2>6. CASE v < w
    <3> HIDE DEF v
    <3>1. At(to, v, 2) < At(to, w, m)
      BY <1>1, <2>1, <2>6, BlocksApart
    <3> HIDE DEF u
    <3>2. u < z
      BY <1>3, <3>1 DEF u
    <3> QED BY <1>1, <2>1, <2>5, <3>2
  <2>7. CASE v = w
    <3>1. u <= z
      <4>1. m \in {2, 3} \/ m >= 4
        BY <1>3
      <4>2. At(to, w, 2) \in Int /\ At(to, w, 3) = At(to, w, 2) + 1
            /\ \A o \in Int : o >= 4 => At(to, w, 2) < At(to, w, o)
        BY <1>1, NamePlace
      <4>3. m \in Int
        OBVIOUS
      <4>4. At(to, w, 2) <= At(to, w, m)
        BY <1>1, <1>3, <4>1, <4>2, <4>3
      <4> QED BY <1>3, <2>7, <4>4
    <3> HIDE DEF u
    <3> QED BY <1>1, <2>1, <2>5, <3>1
  <2> QED BY <2>1, <2>6, <2>7
<1>5. ~(home < w)
  <2> SUFFICES ASSUME home < w PROVE FALSE
    OBVIOUS
  <2>1. CASE to[w] \notin NewBehind(from, to, home)
    <3>1. \E l \in 1 .. Len(from) : k < l /\ Home(from, to, l) <= w
      BY <2>1, NextHome
    <3> QED BY <1>4, <3>1
  <2>2. CASE n = 2
    <3>1. PICK l \in 1 .. Len(from) : w = Home(from, to, l)
      BY <1>3, <2>2
    <3>2. w <= w
      OBVIOUS
    <3>3. ~(k < l)
      BY <1>4, <3>1, <3>2
    <3>4. l # k
      BY <1>1, <3>1
    <3>5. l < k => w < home
      BY <3>1, HomesAscend
    <3> HIDE DEF home
    <3> QED BY <1>1, <3>3, <3>4, <3>5
  <2>3. CASE n = 3 /\ to[w] \in NewBehind(from, to, home)
    <3>1. ToldFrom(from[k], NewBehind(from, to, home)) /\ to[w].version = from[k].version
      BY <1>3, <2>3, HomeIs
    <3>2. PICK line \in Range(from[k].rest) : \A q \in NewBehind(from, to, home) : line \notin Range(q.rest)
      BY <2>3, <3>1 DEF ToldFrom
    <3>3. from[k].rest \in Seq(RestLines)
      BY <1>1, NamePlace
    <3>4. PICK c \in 4 .. Len(Block(from[k])) : Block(from[k])[c] = line
      BY <3>3, RestPlaces
    <3>5. line[1] = "rest"
      BY <3>3, RestPlaces
    <3>6. c \in Telling(from, to, k)
      BY <3>2, <3>4, <3>5 DEF Telling
    <3> DEFINE d == At(from, k, c)
               end == Len(Block(to[home]))
               last == At(to, home, end)
    <3>7. Limit(from, to, k, c) = end /\ c >= 4 /\ c \in Int
      BY DEF Limit
    <3>8. end \in 1 .. Len(Block(to[home])) /\ d \in Int /\ last \in Int
      BY <3>6, <3>7, TellingIs
    <3>9. s < d
      BY <1>1, <2>3, <3>7, NamePlace
    <3>10. d >= s + 1
      <4> HIDE DEF s, d
      <4> QED BY <1>1, <3>8, <3>9
    <3>11. At(to, home, Limit(from, to, k, c)) >= z + 1
      BY <3>6, <3>10 DEF Ahead
    <3>12. last >= z + 1
      BY <3>7, <3>11
    <3>13. last < z
      <4>1. home \in 1 .. Len(to) /\ end \in 1 .. Len(Block(to[home]))
        BY <1>1, <3>8
      <4> HIDE DEF home, end
      <4>2. At(to, home, end) < At(to, w, m)
        BY <1>1, <4>1, BlocksApart
      <4> QED BY <1>3, <4>2
    <3> HIDE DEF last
    <3> QED BY <1>1, <3>8, <3>12, <3>13
  <2>4. n \notin {2, 3} => to[w] \notin NewBehind(from, to, home)
    BY <1>3
  <2> QED BY <2>1, <2>2, <2>3, <2>4
<1>6. CASE w < home
  <2>1. home \in 1 .. Len(to) /\ far \in 1 .. Len(Block(to[home]))
    BY <1>1
  <2> HIDE DEF home, far
  <2>2. At(to, w, m) < At(to, home, far)
    BY <1>1, <1>6, <2>1, BlocksApart
  <2> HIDE DEF t
  <2>3. z < t
    BY <1>3, <2>2 DEF t
  <2>4. t >= z
    BY <1>1, <2>3
  <2> QED BY <2>4 DEF t, home, far
<1>7. CASE w = home
  <2>1. m <= far
    <3>1. m \in 1 .. Len(Block(to[home]))
      BY <1>7
    <3> QED BY <1>1, <1>3, <3>1
  <2>2. At(to, home, m) <= At(to, home, far)
    <3>1. Len(Texts(to)[home - 1]) \in Nat
      BY <1>1, Grown DEF IsList
    <3>2. m \in Int /\ far \in Int
      BY <1>1
    <3> HIDE DEF home, far
    <3> QED BY <2>1, <3>1, <3>2 DEF At
  <2>3. At(to, home, m) = z
    BY <1>3, <1>7
  <2> HIDE DEF t
  <2>4. t >= z
    BY <1>1, <2>2, <2>3 DEF t
  <2> QED BY <2>4 DEF t, home, far
<1> QED BY <1>1, <1>5, <1>6, <1>7

LEMMA NothingIsPassed ==
  ASSUME NEW from, NEW to, Adds(from, to),
         NEW x \in 1 .. Len(Lines(from)) + 1, NEW y \in 1 .. Len(Lines(to)) + 1,
         AllIn(Lines(from), Lines(to), x, y)
  PROVE  Ahead(from, to, x, y)
<1> DEFINE a == Lines(from)
           b == Lines(to)
           len == Len(a)
           end == Len(b)
           Holds(z) == \A s \in 1 .. len + 1 : AllIn(a, b, s, z) => Ahead(from, to, s, z)
           Good == {h \in 0 .. end : Holds(end + 1 - h)}
<1>1. IsList(from) /\ IsList(to) /\ len \in Nat /\ end \in Nat
  <2>1. IsList(from) /\ IsList(to)
    BY DEF Adds
  <2>2. 0 \in 0 .. Len(from) /\ 0 \in 0 .. Len(to)
    BY <2>1 DEF IsList
  <2> QED BY <2>1, <2>2, TextStays DEF IsList
<1>2. ASSUME NEW k \in 1 .. Len(from), NEW n \in Telling(from, to, k)
      PROVE  /\ At(from, k, n) \in 1 .. len
             /\ At(to, Home(from, to, k), Limit(from, to, k, n)) \in 1 .. end
  BY TellingIs
<1>3. ASSUME NEW s \in 1 .. len, NEW z \in 1 .. end + 1, AllIn(a, b, s, z)
      PROVE  /\ z \in 1 .. end
             /\ a[s] = b[z] => AllIn(a, b, s + 1, z + 1)
             /\ a[s] # b[z] => AllIn(a, b, s, z + 1)
  <2> HIDE DEF a, b
  <2>1. z <= end
    BY <1>1, <1>3, AllInGoesOn
  <2>2. a[s] = b[z] => AllIn(a, b, s + 1, z + 1)
    BY <1>1, <1>3, AllInGoesOn
  <2>3. a[s] # b[z] => AllIn(a, b, s, z + 1)
    BY <1>1, <1>3, AllInGoesOn
  <2> QED BY <1>1, <2>1, <2>2, <2>3
<1> HIDE DEF a, b, len, end
<1>4. 0 \in Good
  <2>1. ASSUME NEW s \in 1 .. len + 1, AllIn(a, b, s, end + 1) PROVE Ahead(from, to, s, end + 1)
    <3>1. s \notin 1 .. len
      BY <1>1, <1>3, <2>1
    <3>2. ASSUME NEW k \in 1 .. Len(from), NEW n \in Telling(from, to, k), At(from, k, n) >= s PROVE FALSE
      BY <1>1, <1>2, <3>1, <3>2
    <3> QED BY <3>2 DEF Ahead
  <2> QED BY <1>1, <2>1
<1>5. ASSUME NEW h \in 0 .. end - 1, h \in Good PROVE h + 1 \in Good
  <2> DEFINE z == end - h
  <2>1. z \in 1 .. end /\ end + 1 - h = z + 1 /\ end + 1 - (h + 1) = z /\ h + 1 \in 0 .. end
    BY <1>1
  <2>2. Holds(z + 1)
    BY <1>5, <2>1
  <2> HIDE DEF z
  <2>3. ASSUME NEW s \in 1 .. len + 1, AllIn(a, b, s, z),
               NEW k \in 1 .. Len(from), NEW n \in Telling(from, to, k), At(from, k, n) >= s
        PROVE  At(to, Home(from, to, k), Limit(from, to, k, n)) >= z
    <3> DEFINE f == At(from, k, n)
               t == At(to, Home(from, to, k), Limit(from, to, k, n))
    <3>1. s \in 1 .. len /\ f \in 1 .. len /\ t \in 1 .. end
      BY <1>1, <1>2, <2>3
    <3>2. CASE a[s] # b[z]
      <4>1. Ahead(from, to, s, z + 1)
        <5>1. AllIn(a, b, s, z + 1)
          BY <1>1, <1>3, <2>1, <2>3, <3>1, <3>2
        <5> QED BY <2>2, <5>1
      <4>2. t >= z + 1
        BY <2>3, <4>1 DEF Ahead
      <4> HIDE DEF t
      <4>3. t >= z
        BY <1>1, <2>1, <3>1, <4>2
      <4> QED BY <4>3 DEF t
    <3>3. CASE a[s] = b[z]
      <4>1. Ahead(from, to, s + 1, z + 1)
        <5>1. AllIn(a, b, s + 1, z + 1) /\ s + 1 \in 1 .. len + 1
          BY <1>1, <1>3, <2>1, <2>3, <3>1, <3>3
        <5> QED BY <2>2, <5>1
      <4>2. CASE f >= s + 1
        <5>1. t >= z + 1
          BY <4>1, <4>2 DEF Ahead
        <5> HIDE DEF t
        <5>2. t >= z
          BY <1>1, <2>1, <3>1, <5>1
        <5> QED BY <5>2 DEF t
      <4>3. CASE ~(f >= s + 1)
        <5>1. f = s
          <6>1. f >= s
            BY <2>3
          <6> HIDE DEF f
          <6> QED BY <1>1, <3>1, <4>3, <6>1
        <5>2. Ahead(from, to, f + 1, z + 1) /\ a[f] = b[z]
          BY <3>3, <4>1, <5>1
        <5> QED BY <2>1, <5>2, MatchedInTime DEF a, b, end
      <4> QED BY <4>2, <4>3
    <3> QED BY <3>2, <3>3
  <2>4. Holds(z)
    BY <2>3 DEF Ahead
  <2> QED BY <2>1, <2>4
<1> HIDE DEF Good
<1>6. 0 .. end \subseteq Good
  BY <1>1, <1>4, <1>5, UpTo
<1>7. end + 1 - y \in Good /\ end + 1 - (end + 1 - y) = y
  BY <1>1, <1>6 DEF end, b
<1>8. Holds(y)
  BY <1>7 DEF Good
<1> QED BY <1>8 DEF a, b, len

\* What was read of the first text was matched at home.
Behind(from, to, x, y) ==
  \A k \in 1 .. Len(from) : \A n \in {2, 3} :
    At(from, k, n) < x => At(to, Home(from, to, k), n) < y

\* A name or a version is matched at home.
LEMMA MatchedAtHome ==
  ASSUME NEW from, NEW to, Adds(from, to), NEW k \in 1 .. Len(from), NEW n \in {2, 3},
         NEW y \in 1 .. Len(Lines(to)), Lines(from)[At(from, k, n)] = Lines(to)[y],
         Ahead(from, to, At(from, k, n), y), Behind(from, to, At(from, k, n), y)
  PROVE  y = At(to, Home(from, to, k), n)
<1> DEFINE x == At(from, k, n)
           home == Home(from, to, k)
           t == At(to, home, n)
<1>1. /\ IsList(from) /\ IsList(to) /\ x \in Int /\ t \in Int /\ y \in Int
      /\ home \in 1 .. Len(to) /\ n \in Telling(from, to, k) /\ Limit(from, to, k, n) = n
      /\ n \in 1 .. Len(Block(from[k])) /\ n \in 1 .. Len(Block(to[home]))
  BY HomePlace
<1>2. t >= y
  <2>1. At(to, home, Limit(from, to, k, n)) >= y
    BY <1>1 DEF Ahead
  <2> QED BY <1>1, <2>1
<1>3. CASE n = 2
  <2>1. PICK w \in 1 .. Len(to) : \E m \in 1 .. Len(Block(to[w])) :
             y = At(to, w, m) /\ m = 2 /\ \E l \in 1 .. Len(from) : w = Home(from, to, l)
    BY <1>1, <1>3, MatchIs
  <2>2. PICK l \in 1 .. Len(from) : w = Home(from, to, l)
    BY <2>1
  <2>3. y = At(to, w, 2)
    BY <2>1
  <2>4. /\ 2 \in 1 .. Len(Block(from[l])) /\ 2 \in 1 .. Len(Block(to[w])) /\ At(from, l, 2) \in Int
    BY <2>2, HomePlace
  <2>5. ~(l < k)
    <3> SUFFICES ASSUME l < k PROVE FALSE
      OBVIOUS
    <3>1. At(from, l, 2) < x
      BY <1>1, <2>4, BlocksApart
    <3>2. At(to, w, 2) < y
      BY <2>2, <3>1 DEF Behind
    <3> QED BY <1>1, <2>3, <3>2
  <2>6. ~(k < l)
    <3> SUFFICES ASSUME k < l PROVE FALSE
      OBVIOUS
    <3>1. home < w
      BY <2>2, HomesAscend
    <3>2. t < y
      <4>1. home \in 1 .. Len(to) /\ n \in 1 .. Len(Block(to[home]))
        BY <1>1
      <4> HIDE DEF home
      <4>2. At(to, home, n) < At(to, w, 2)
        BY <1>1, <2>4, <3>1, <4>1, BlocksApart
      <4> QED BY <2>3, <4>2
    <3> HIDE DEF t
    <3> QED BY <1>1, <1>2, <3>2
  <2>7. l = k
    BY <1>1, <2>5, <2>6
  <2> QED BY <1>3, <2>2, <2>3, <2>7
<1>4. CASE n = 3
  <2>1. At(from, k, 2) < x
    <3>1. At(from, k, 2) \in Int /\ x = At(from, k, 2) + 1
      BY <1>4, HomePlace
    <3> HIDE DEF x
    <3> QED BY <3>1
  <2>2. At(to, home, 2) < y
    BY <2>1 DEF Behind
  <2>3. At(to, home, 2) \in Int /\ t = At(to, home, 2) + 1
    BY <1>4, HomePlace
  <2> HIDE DEF t
  <2>4. y = t
    BY <1>1, <1>2, <2>2, <2>3
  <2> QED BY <2>4 DEF t
<1> QED BY <1>3, <1>4

\* A line that is matched stays behind.
LEMMA BehindStays ==
  ASSUME NEW from, NEW to, Adds(from, to),
         NEW x \in 1 .. Len(Lines(from)), NEW y \in 1 .. Len(Lines(to)), Lines(from)[x] = Lines(to)[y],
         Ahead(from, to, x, y), Behind(from, to, x, y)
  PROVE  Behind(from, to, x + 1, y + 1)
<1> SUFFICES ASSUME NEW k \in 1 .. Len(from), NEW n \in {2, 3}, At(from, k, n) < x + 1
             PROVE  At(to, Home(from, to, k), n) < y + 1
  BY DEF Behind
<1> DEFINE f == At(from, k, n)
           t == At(to, Home(from, to, k), n)
<1>1. f \in Int /\ t \in Int /\ x \in Int /\ y \in Int
  <2>1. f \in Int /\ t \in Int
    BY HomePlace
  <2> QED BY <2>1
<1>2. CASE f < x
  <2>1. t < y
    BY <1>2 DEF Behind
  <2> HIDE DEF t
  <2>2. t < y + 1
    BY <1>1, <2>1
  <2> QED BY <2>2 DEF t
<1>3. CASE ~(f < x)
  <2>1. f = x
    <3>1. f < x + 1
      OBVIOUS
    <3> HIDE DEF f
    <3> QED BY <1>1, <1>3, <3>1
  <2>2. y = t
    BY <2>1, MatchedAtHome
  <2> HIDE DEF t
  <2>3. t < y + 1
    BY <1>1, <2>2
  <2> QED BY <2>3 DEF t
<1> QED BY <1>2, <1>3

\* A name or a version that was added is not that of a package that was there.
LEMMA AddedIsNew ==
  ASSUME NEW from, NEW to, Adds(from, to), NEW x \in Int, NEW y \in Int, NEW w \in 1 .. Len(to),
         NEW n \in {2, 3}, y = At(to, w, n), Behind(from, to, x, y), Ahead(from, to, x, y + 1)
  PROVE  w \in NewOnes(from, to)
<1> SUFFICES ASSUME w \notin NewOnes(from, to) PROVE FALSE
  OBVIOUS
<1>1. PICK k \in 1 .. Len(from) : w = Home(from, to, k)
  BY OldIsHome
<1>2. n \in Telling(from, to, k) /\ Limit(from, to, k, n) = n /\ At(from, k, n) \in Int
  BY HomePlace
<1>3. CASE At(from, k, n) < x
  <2>1. y < y
    BY <1>1, <1>3 DEF Behind
  <2> QED BY <2>1
<1>4. CASE At(from, k, n) >= x
  <2>1. At(to, w, Limit(from, to, k, n)) >= y + 1
    BY <1>1, <1>2, <1>4 DEF Ahead
  <2>2. y >= y + 1
    BY <1>2, <2>1
  <2> QED BY <2>2
<1> QED BY <1>2, <1>3, <1>4

\* One that was matched is.
LEMMA MatchedIsOld ==
  ASSUME NEW from, NEW to, Adds(from, to),
         NEW x \in 1 .. Len(Lines(from)), NEW y \in 1 .. Len(Lines(to)), Lines(from)[x] = Lines(to)[y],
         Ahead(from, to, x, y), Behind(from, to, x, y),
         NEW w \in 1 .. Len(to), NEW n \in {2, 3}, y = At(to, w, n)
  PROVE  w \notin NewOnes(from, to)
<1>1. IsList(from) /\ IsList(to)
  BY DEF Adds
<1>2. n \in 1 .. Len(Block(to[w])) /\ Lines(to)[y] = Block(to[w])[n] /\ to[w].rest \in Seq(RestLines)
  <2>1. n \in 1 .. Len(Block(to[w])) /\ to[w].rest \in Seq(RestLines)
    <3>1. /\ 2 \in 1 .. Len(Block(to[w])) /\ 3 \in 1 .. Len(Block(to[w]))
          /\ to[w].rest \in Seq(RestLines)
      BY <1>1, NamePlace
    <3> QED BY <3>1
  <2> QED BY <1>1, <2>1, LineAt DEF IsList
<1>3. Lines(from)[x][1] \in {"name", "version"}
  BY <1>2, BlockKinds
<1>4. PICK k \in 1 .. Len(from) : \E m \in 1 .. Len(Block(from[k])) :
           /\ x = At(from, k, m)
           /\ (Lines(from)[x][1] = "name") <=> (m = 2)
           /\ (Lines(from)[x][1] = "version") <=> (m = 3)
  BY <1>1, <1>3, LinesThatTell
<1>5. PICK m \in {2, 3} : x = At(from, k, m)
  BY <1>3, <1>4
<1>6. y = At(to, Home(from, to, k), m)
  BY <1>5, MatchedAtHome
<1> DEFINE home == Home(from, to, k)
<1>7. home \in 1 .. Len(to) /\ m \in 1 .. Len(Block(to[home])) /\ At(to, w, n) = At(to, home, m)
  BY <1>6, HomePlace
<1>8. w = home
  <2> HIDE DEF home
  <2> QED BY <1>1, <1>2, <1>7, OnePlace
<1> QED BY <1>8, OldIsHome

-----------------------------------------------------------------------------
(* What the reader of a diff has collected.                                  *)

AllPins(to) == [k \in DOMAIN to |-> Pin(to[k])]
Complete(from, to, y) == {k \in NewOnes(from, to) : At(to, k, 3) < y}

\* The new packages whose version was read are added, and a name is pending if the
\* version of a new one is next.
HasRead(from, to, y, pairs, name) ==
  /\ pairs = Filtered(AllPins(to), Complete(from, to, y))
  /\ \A k \in NewOnes(from, to) : y = At(to, k, 3) => name = to[k].name
  /\ (\A k \in NewOnes(from, to) : y # At(to, k, 3)) => name = NoName

LEMMA NewOnesAre ==
  ASSUME NEW from, NEW to, Adds(from, to)
  PROVE  /\ NewOnes(from, to) \in Indexes(Len(to)) /\ Len(to) \in Nat /\ IsList(to)
         /\ \A k \in 1 .. Len(to) : At(to, k, 2) \in Int /\ At(to, k, 3) = At(to, k, 2) + 1
         /\ \A k \in 1 .. Len(to) : 2 \in 1 .. Len(Block(to[k])) /\ 3 \in 1 .. Len(Block(to[k]))
<1>1. IsList(to) /\ Len(to) \in Nat
  BY DEF Adds, IsList
<1>2. ASSUME NEW k \in 1 .. Len(to)
      PROVE  /\ At(to, k, 2) \in Int /\ At(to, k, 3) = At(to, k, 2) + 1
             /\ 2 \in 1 .. Len(Block(to[k])) /\ 3 \in 1 .. Len(Block(to[k]))
  BY <1>1, NamePlace
<1>3. NewOnes(from, to) \in Indexes(Len(to))
  BY OldIsHome DEF Indexes
<1> QED BY <1>1, <1>2, <1>3

\* Names and versions stand in the second and third lines of packages.
LEMMA NamesStand ==
  ASSUME NEW from, NEW to, Adds(from, to), NEW y \in 1 .. Len(Lines(to))
  PROVE  /\ Lines(to)[y][1] = "name" =>
              \E w \in 1 .. Len(to) : y = At(to, w, 2) /\ Lines(to)[y][2] = to[w].name
         /\ Lines(to)[y][1] = "version" =>
              \E w \in 1 .. Len(to) : y = At(to, w, 3) /\ Lines(to)[y][2] = to[w].version
<1> DEFINE line == Lines(to)[y]
<1>1. IsList(to)
  BY DEF Adds
<1>2. ASSUME line[1] \in {"name", "version"}
      PROVE  \E w \in 1 .. Len(to) : \E n \in 1 .. Len(Block(to[w])) :
               /\ y = At(to, w, n)
               /\ (line[1] = "name") <=> (n = 2)
               /\ (line[1] = "version") <=> (n = 3)
               /\ n = 2 => line = Name(to[w])
               /\ n = 3 => line = Version(to[w])
  BY <1>1, <1>2, LinesThatTell
<1>3. \A w : Name(to[w])[2] = to[w].name /\ Version(to[w])[2] = to[w].version
  BY DEF Name, Version
<1> HIDE DEF line
<1>4. line[1] = "name" => \E w \in 1 .. Len(to) : y = At(to, w, 2) /\ line[2] = to[w].name
  BY <1>2, <1>3
<1>5. line[1] = "version" => \E w \in 1 .. Len(to) : y = At(to, w, 3) /\ line[2] = to[w].version
  BY <1>2, <1>3
<1> QED BY <1>4, <1>5 DEF line

LEMMA NameOrVersion ==
  ASSUME NEW from, NEW to, Adds(from, to), NEW w \in 1 .. Len(to)
  PROVE  Lines(to)[At(to, w, 2)][1] = "name" /\ Lines(to)[At(to, w, 3)][1] = "version"
<1>1. IsList(to) /\ 2 \in 1 .. Len(Block(to[w])) /\ 3 \in 1 .. Len(Block(to[w]))
  BY NewOnesAre
<1>2. Block(to[w])[2] = Name(to[w]) /\ Block(to[w])[3] = Version(to[w])
  BY <1>1, NamePlace
<1>3. Lines(to)[At(to, w, 2)] = Block(to[w])[2]
  BY <1>1, LineAt DEF IsList
<1>4. Lines(to)[At(to, w, 3)] = Block(to[w])[3]
  BY <1>1, LineAt DEF IsList
<1> QED BY <1>2, <1>3, <1>4 DEF Name, Version

\* Nothing was complete at the start, and in the end every new package is.
LEMMA ReadFromStart ==
  ASSUME NEW from, NEW to, Adds(from, to)
  PROVE  HasRead(from, to, 1, <<>>, NoName) /\ Behind(from, to, 1, 1)
<1>1. ASSUME NEW lock, IsList(lock), NEW k \in 1 .. Len(lock), NEW n \in {2, 3}
      PROVE  At(lock, k, n) \in Int /\ At(lock, k, n) > 1
  <2>1. At(lock, k, 2) \in Int /\ At(lock, k, 3) = At(lock, k, 2) + 1 /\ At(lock, k, 2) > 1
    BY <1>1, NamePlace
  <2> QED BY <2>1
<1>2. Behind(from, to, 1, 1)
  <2>1. ASSUME NEW k \in 1 .. Len(from), NEW n \in {2, 3} PROVE ~(At(from, k, n) < 1)
    <3>1. At(from, k, n) \in Int /\ At(from, k, n) > 1
      BY <1>1 DEF Adds
    <3> QED BY <3>1
  <2> QED BY <2>1 DEF Behind
<1>3. ASSUME NEW k \in NewOnes(from, to) PROVE At(to, k, 3) \in Int /\ At(to, k, 3) > 1
  <2>1. k \in 1 .. Len(to) /\ IsList(to)
    BY NewOnesAre DEF Indexes
  <2> QED BY <1>1, <2>1
<1>4. Complete(from, to, 1) = {}
  BY <1>3 DEF Complete
<1>5. Filtered(AllPins(to), {}) = <<>>
  <2>1. Cardinality({}) = 0
    BY FS_EmptySet
  <2> QED BY <2>1 DEF Filtered
<1>6. \A k \in NewOnes(from, to) : 1 # At(to, k, 3)
  BY <1>3
<1> QED BY <1>2, <1>4, <1>5, <1>6 DEF HasRead

LEMMA ReadToEnd ==
  ASSUME NEW from, NEW to, Adds(from, to), NEW y \in Int, y > Len(Lines(to)), NEW pairs, NEW name,
         HasRead(from, to, y, pairs, name)
  PROVE  pairs = Filtered(AllPins(to), NewOnes(from, to))
<1>1. ASSUME NEW k \in NewOnes(from, to) PROVE At(to, k, 3) < y
  <2>1. k \in 1 .. Len(to) /\ IsList(to) /\ 3 \in 1 .. Len(Block(to[k]))
    BY NewOnesAre DEF Indexes
  <2>2. At(to, k, 3) \in 1 .. Len(Lines(to)) /\ Len(Lines(to)) \in Nat
    <3>1. At(to, k, 3) \in 1 .. Len(Lines(to))
      BY <2>1, LineAt DEF IsList
    <3>2. 0 \in 0 .. Len(to)
      BY <2>1 DEF IsList
    <3> QED BY <2>1, <3>1, <3>2, TextStays DEF IsList
  <2> QED BY <2>2
<1>2. Complete(from, to, y) = NewOnes(from, to)
  BY <1>1 DEF Complete
<1> QED BY <1>2 DEF HasRead

\* No name and no version of a new package.
LEMMA ReadsPast ==
  ASSUME NEW from, NEW to, Adds(from, to), NEW y \in Int, NEW pairs, NEW name,
         HasRead(from, to, y, pairs, name),
         \A k \in NewOnes(from, to) : y # At(to, k, 2) /\ y # At(to, k, 3)
  PROVE  HasRead(from, to, y + 1, pairs, name)
<1>1. ASSUME NEW k \in NewOnes(from, to)
      PROVE  At(to, k, 2) \in Int /\ At(to, k, 3) \in Int /\ At(to, k, 3) = At(to, k, 2) + 1
  <2>1. k \in 1 .. Len(to)
    BY NewOnesAre DEF Indexes
  <2>2. At(to, k, 3) = At(to, k, 2) + 1 /\ At(to, k, 2) \in Int
    BY <2>1, NewOnesAre
  <2> QED BY <2>2
<1>2. Complete(from, to, y + 1) = Complete(from, to, y)
  <2>1. ASSUME NEW k \in NewOnes(from, to) PROVE At(to, k, 3) < y + 1 <=> At(to, k, 3) < y
    BY <1>1
  <2> QED BY <2>1 DEF Complete
<1>3. \A k \in NewOnes(from, to) : y + 1 # At(to, k, 3)
  BY <1>1
<1>4. name = NoName
  BY DEF HasRead
<1> QED BY <1>2, <1>3, <1>4 DEF HasRead

\* The name of a new package.
LEMMA ReadsName ==
  ASSUME NEW from, NEW to, Adds(from, to), NEW w \in NewOnes(from, to), NEW y, y = At(to, w, 2),
         NEW pairs, NEW name, HasRead(from, to, y, pairs, name)
  PROVE  HasRead(from, to, y + 1, pairs, to[w].name)
<1>1. ASSUME NEW k \in NewOnes(from, to)
      PROVE  /\ k \in 1 .. Len(to) /\ At(to, k, 2) \in Int /\ At(to, k, 3) = At(to, k, 2) + 1
             /\ 2 \in 1 .. Len(Block(to[k])) /\ 3 \in 1 .. Len(Block(to[k]))
  <2>1. k \in 1 .. Len(to)
    BY NewOnesAre DEF Indexes
  <2> QED BY <2>1, NewOnesAre
<1>2. IsList(to)
  BY DEF Adds
<1>3. ASSUME NEW k \in NewOnes(from, to), At(to, k, 3) = y PROVE FALSE
  <2>1. At(to, k, 3) = At(to, w, 2)
    BY <1>3
  <2>2. 3 = 2
    BY <1>1, <1>2, <2>1, OnePlace
  <2> QED BY <2>2
<1>4. Complete(from, to, y + 1) = Complete(from, to, y)
  <2>1. ASSUME NEW k \in NewOnes(from, to) PROVE At(to, k, 3) < y + 1 <=> At(to, k, 3) < y
    <3>1. At(to, k, 3) \in Int /\ y \in Int /\ At(to, k, 3) # y
      BY <1>1, <1>3
    <3> QED BY <3>1
  <2> QED BY <2>1 DEF Complete
<1>5. ASSUME NEW k \in NewOnes(from, to), At(to, k, 3) = y + 1 PROVE k = w
  <2>1. At(to, k, 3) = At(to, w, 3)
    BY <1>1, <1>5
  <2> QED BY <1>1, <1>2, <2>1, OnePlace
<1>6. y + 1 = At(to, w, 3)
  BY <1>1
<1> QED BY <1>4, <1>5, <1>6 DEF HasRead

\* Its version.
LEMMA ReadsVersion ==
  ASSUME NEW from, NEW to, Adds(from, to), NEW w \in NewOnes(from, to), NEW y, y = At(to, w, 3),
         NEW pairs, NEW name, HasRead(from, to, y, pairs, name)
  PROVE  /\ name = to[w].name
         /\ HasRead(from, to, y + 1, Append(pairs, Pin(to[w])), NoName)
<1>1. ASSUME NEW k \in NewOnes(from, to)
      PROVE  /\ k \in 1 .. Len(to) /\ At(to, k, 2) \in Int /\ At(to, k, 3) = At(to, k, 2) + 1
             /\ 2 \in 1 .. Len(Block(to[k])) /\ 3 \in 1 .. Len(Block(to[k]))
  <2>1. k \in 1 .. Len(to)
    BY NewOnesAre DEF Indexes
  <2> QED BY <2>1, NewOnesAre
<1>2. IsList(to)
  BY DEF Adds
<1>3. name = to[w].name
  BY DEF HasRead
<1>4. ASSUME NEW k \in NewOnes(from, to) PROVE At(to, k, 3) < y <=> k < w
  <2>1. CASE k < w
    <3>1. At(to, k, 3) < At(to, w, 3)
      BY <1>1, <1>2, <2>1, BlocksApart
    <3> QED BY <2>1, <3>1
  <2>2. CASE w < k
    <3>1. At(to, w, 3) < At(to, k, 3)
      BY <1>1, <1>2, <2>2, BlocksApart
    <3>2. At(to, w, 3) \in Int /\ At(to, k, 3) \in Int /\ w \in Int /\ k \in Int
      BY <1>1
    <3> QED BY <2>2, <3>1, <3>2
  <2>3. CASE w = k
    <3>1. At(to, k, 3) = y /\ y \in Int /\ k \in Int
      BY <1>1, <2>3
    <3> QED BY <2>3, <3>1
  <2>4. w \in Int /\ k \in Int
    BY <1>1
  <2> QED BY <2>1, <2>2, <2>3, <2>4
<1>5. ASSUME NEW k \in NewOnes(from, to), At(to, k, 3) = y PROVE k = w
  BY <1>1, <1>2, <1>5, OnePlace
<1>6. Complete(from, to, y + 1) = Complete(from, to, y) \union {w}
  <2>1. ASSUME NEW k \in NewOnes(from, to) PROVE At(to, k, 3) < y + 1 <=> At(to, k, 3) < y \/ k = w
    <3>1. At(to, k, 3) \in Int /\ y \in Int
      BY <1>1
    <3> QED BY <1>5, <3>1
  <2> QED BY <2>1 DEF Complete
<1>7. /\ Complete(from, to, y) \in Indexes(Len(to)) /\ Len(to) \in Nat /\ w \in 1 .. Len(to)
      /\ \A k \in Complete(from, to, y) : k < w
  BY <1>1, <1>4, NewOnesAre DEF Complete, Indexes
<1>8. Filtered(AllPins(to), Complete(from, to, y) \union {w})
        = Append(Filtered(AllPins(to), Complete(from, to, y)), AllPins(to)[w])
  BY <1>7, FilteredMore
<1>9. AllPins(to)[w] = Pin(to[w])
  BY <1>2, <1>7 DEF AllPins, IsList
<1>10. ASSUME NEW k \in NewOnes(from, to) PROVE At(to, k, 3) # y + 1
  <2> SUFFICES ASSUME At(to, k, 3) = y + 1 PROVE FALSE
    OBVIOUS
  <2>1. At(to, k, 2) = At(to, w, 3)
    <3>1. At(to, k, 2) \in Int /\ At(to, w, 3) \in Int /\ At(to, k, 3) = At(to, k, 2) + 1
      BY <1>1
    <3> QED BY <3>1
  <2>2. 2 = 3
    BY <1>1, <1>2, <2>1, OnePlace
  <2> QED BY <2>2
<1> QED BY <1>3, <1>6, <1>8, <1>9, <1>10 DEF HasRead

\* Where the diff is, and what it has read.
DiffAt(from, to, x, y, pairs, name) ==
  /\ AllIn(Lines(from), Lines(to), x, y)
  /\ Behind(from, to, x, y) /\ HasRead(from, to, y, pairs, name)

LEMMA ContextReads ==
  ASSUME NEW from, NEW to, Adds(from, to),
         NEW x \in 1 .. Len(Lines(from)), NEW y \in 1 .. Len(Lines(to)), Lines(from)[x] = Lines(to)[y],
         NEW pairs, NEW name, DiffAt(from, to, x, y, pairs, name),
         AllIn(Lines(from), Lines(to), x + 1, y + 1)
  PROVE  DiffAt(from, to, x + 1, y + 1, pairs, name)
<1>0. IsList(from) /\ IsList(to)
  BY DEF Adds
<1>1. Ahead(from, to, x, y)
  <2>1. x \in 1 .. Len(Lines(from)) + 1 /\ y \in 1 .. Len(Lines(to)) + 1
    <3>1. 0 \in 0 .. Len(from) /\ 0 \in 0 .. Len(to)
      BY <1>0 DEF IsList
    <3>2. Len(Lines(from)) \in Nat /\ Len(Lines(to)) \in Nat
      BY <1>0, <3>1, TextStays DEF IsList
    <3> QED BY <3>2
  <2> QED BY <2>1, NothingIsPassed DEF DiffAt
<1>2. Behind(from, to, x + 1, y + 1)
  BY <1>1, BehindStays DEF DiffAt
<1>3. ASSUME NEW k \in NewOnes(from, to) PROVE y # At(to, k, 2) /\ y # At(to, k, 3)
  <2>1. k \in 1 .. Len(to)
    BY NewOnesAre DEF Indexes
  <2>2. Behind(from, to, x, y)
    BY DEF DiffAt
  <2> QED BY <1>1, <2>1, <2>2, MatchedIsOld
<1>4. HasRead(from, to, y + 1, pairs, name)
  BY <1>3, ReadsPast DEF DiffAt
<1> QED BY <1>2, <1>4 DEF DiffAt

\* A line that is added.
LEMMA AddsReads ==
  ASSUME NEW from, NEW to, Adds(from, to),
         NEW x \in 1 .. Len(Lines(from)) + 1, NEW y \in 1 .. Len(Lines(to)),
         NEW pairs, NEW name, DiffAt(from, to, x, y, pairs, name),
         AllIn(Lines(from), Lines(to), x, y + 1)
  PROVE  /\ Lines(to)[y][1] = "name" => DiffAt(from, to, x, y + 1, pairs, Lines(to)[y][2])
         /\ Lines(to)[y][1] = "version" =>
              /\ name # NoName
              /\ DiffAt(from, to, x, y + 1, Append(pairs, <<name, Lines(to)[y][2]>>), NoName)
         /\ Lines(to)[y][1] \notin {"name", "version"} => DiffAt(from, to, x, y + 1, pairs, name)
<1>0. IsList(from) /\ IsList(to) /\ Len(Lines(from)) \in Nat /\ Len(Lines(to)) \in Nat
  <2>1. IsList(from) /\ IsList(to)
    BY DEF Adds
  <2>2. 0 \in 0 .. Len(from) /\ 0 \in 0 .. Len(to)
    BY <2>1 DEF IsList
  <2> QED BY <2>1, <2>2, TextStays DEF IsList
<1>1. Ahead(from, to, x, y + 1)
  <2>1. y + 1 \in 1 .. Len(Lines(to)) + 1
    BY <1>0
  <2> QED BY <2>1, NothingIsPassed
<1>2. Behind(from, to, x, y) /\ HasRead(from, to, y, pairs, name) /\ x \in Int /\ y \in Int
  BY DEF DiffAt
<1>3. Behind(from, to, x, y + 1)
  <2>1. ASSUME NEW k \in 1 .. Len(from), NEW n \in {2, 3}, At(from, k, n) < x
        PROVE  At(to, Home(from, to, k), n) < y + 1
    <3>1. At(to, Home(from, to, k), n) < y /\ At(to, Home(from, to, k), n) \in Int
      BY <1>2, <2>1, HomePlace DEF Behind
    <3> QED BY <1>2, <3>1
  <2> QED BY <2>1 DEF Behind
<1>4. ASSUME NEW w \in 1 .. Len(to), NEW n \in {2, 3}, y = At(to, w, n) PROVE w \in NewOnes(from, to)
  BY <1>1, <1>2, <1>4, AddedIsNew
<1>5. ASSUME Lines(to)[y][1] = "name"
      PROVE  DiffAt(from, to, x, y + 1, pairs, Lines(to)[y][2])
  <2>1. PICK w \in 1 .. Len(to) : y = At(to, w, 2) /\ Lines(to)[y][2] = to[w].name
    BY <1>5, NamesStand
  <2>2. w \in NewOnes(from, to)
    BY <1>4, <2>1
  <2>3. HasRead(from, to, y + 1, pairs, to[w].name)
    BY <1>2, <2>1, <2>2, ReadsName
  <2> QED BY <1>3, <2>1, <2>3 DEF DiffAt
<1>6. ASSUME Lines(to)[y][1] = "version"
      PROVE  /\ name # NoName
             /\ DiffAt(from, to, x, y + 1, Append(pairs, <<name, Lines(to)[y][2]>>), NoName)
  <2>1. PICK w \in 1 .. Len(to) : y = At(to, w, 3) /\ Lines(to)[y][2] = to[w].version
    BY <1>6, NamesStand
  <2>2. w \in NewOnes(from, to)
    BY <1>4, <2>1
  <2>3. name = to[w].name /\ HasRead(from, to, y + 1, Append(pairs, Pin(to[w])), NoName)
    BY <1>2, <2>1, <2>2, ReadsVersion
  <2>4. Pin(to[w]) = <<name, Lines(to)[y][2]>>
    BY <2>1, <2>3 DEF Pin
  <2>5. name # NoName
    <3>1. to[w].name # NoName
      BY DEF Adds
    <3> QED BY <2>3, <3>1
  <2> QED BY <1>3, <2>3, <2>4, <2>5 DEF DiffAt
<1>7. ASSUME Lines(to)[y][1] \notin {"name", "version"}
      PROVE  DiffAt(from, to, x, y + 1, pairs, name)
  <2>1. ASSUME NEW k \in NewOnes(from, to) PROVE y # At(to, k, 2) /\ y # At(to, k, 3)
    <3>1. k \in 1 .. Len(to)
      BY NewOnesAre DEF Indexes
    <3>2. Lines(to)[At(to, k, 2)][1] = "name" /\ Lines(to)[At(to, k, 3)][1] = "version"
      BY <3>1, NameOrVersion
    <3> QED BY <1>7, <3>2
  <2>2. HasRead(from, to, y + 1, pairs, name)
    BY <1>2, <2>1, ReadsPast
  <2> QED BY <1>3, <2>2 DEF DiffAt
<1> QED BY <1>5, <1>6, <1>7

-----------------------------------------------------------------------------
(* The diff of a commit that only adds packages of other crates.             *)

OnlyNewRead ==
  phase = "diffing" /\ OnlyNewCrates(locks[1], locks[2]) => DiffAt(locks[1], locks[2], i, j, added, pendingName)

LEMMA TextsAdd ==
  ASSUME TextsInv, OnlyNewCrates(locks[1], locks[2])
  PROVE  Adds(locks[1], locks[2])
<1>1. locks[1] \in Locks /\ locks[2] \in Locks
  BY DEF TextsInv
<1> QED BY <1>1, AddsIs

LEMMA StartsRead ==
  ASSUME TextsInv, OnlyNewCrates(locks[1], locks[2])
  PROVE  DiffAt(locks[1], locks[2], 1, 1, <<>>, NoName)
<1>1. Adds(locks[1], locks[2])
  BY TextsAdd
<1> QED BY <1>1, AllAreThere, ReadFromStart DEF DiffAt

LEMMA InitReads == ASSUME Init PROVE OnlyNewRead
<1>1. TextsInv /\ i = 1 /\ j = 1 /\ added = <<>> /\ pendingName = NoName
  BY DEF Init, TextsInv
<1> QED BY <1>1, StartsRead DEF OnlyNewRead

\* No line is removed: all that is left of the first text can be kept.
LEMMA DiffStepReads ==
  ASSUME Types, OnlyNewRead, phase = "diffing", OnlyNewCrates(locks[1], locks[2]),
         Context \/ RemovedLine \/ AddedName \/ AddedVersion \/ AddedOther
  PROVE  DiffAt(locks[1], locks[2], i', j', added', pendingName')
<1> DEFINE from == locks[1]
           to == locks[2]
<1>1. /\ Adds(from, to) /\ old = Lines(from) /\ new = Lines(to) /\ left = Common(old, new)
      /\ Len(old) \in Nat /\ Len(new) \in Nat
      /\ i \in 1 .. Len(old) + 1 /\ j \in 1 .. Len(new) + 1
  <2>1. TextsInv /\ DiffTypes
    BY DEF Types
  <2>2. from \in Locks /\ to \in Locks /\ old = Lines(from) /\ new = Lines(to) /\ left = Common(old, new)
    BY <2>1 DEF TextsInv
  <2> QED BY <2>1, <2>2, TextsAdd, LinesTyped DEF DiffTypes
<1>2. DiffAt(from, to, i, j, added, pendingName) /\ AllIn(old, new, i, j)
  <2>1. DiffAt(from, to, i, j, added, pendingName)
    BY DEF OnlyNewRead
  <2> QED BY <1>1, <2>1 DEF DiffAt
<1>3. left[i][j] = Len(old) + 1 - i
  BY <1>1, <1>2 DEF AllIn
<1> HIDE DEF from, to
<1>4. CASE Context
  <2>1. /\ i \in 1 .. Len(old) /\ j \in 1 .. Len(new) /\ old[i] = new[j] /\ i' = i + 1 /\ j' = j + 1
        /\ left[i + 1][j + 1] = left[i][j] - 1 /\ UNCHANGED <<pendingName, added>>
    BY <1>1, <1>4 DEF Context
  <2>2. AllIn(old, new, i + 1, j + 1)
    BY <1>1, <1>3, <2>1 DEF AllIn
  <2>3. DiffAt(from, to, i + 1, j + 1, added, pendingName)
    BY <1>1, <1>2, <2>1, <2>2, ContextReads
  <2> QED BY <2>1, <2>3 DEF from, to
<1>5. CASE RemovedLine
  <2>1. i \in 1 .. Len(old) /\ left[i + 1][j] = left[i][j]
    BY <1>1, <1>5 DEF RemovedLine
  <2>2. left[i + 1][j] <= Len(old) + 1 - (i + 1) /\ left[i + 1][j] \in Nat
    <3>1. i + 1 \in 1 .. Len(old) + 1
      BY <1>1, <2>1
    <3> QED BY <1>1, <3>1, CommonAtMost, CommonIs
  <2> QED BY <1>1, <1>3, <2>1, <2>2
<1>6. CASE AddedName \/ AddedVersion \/ AddedOther
  <2>1. j \in 1 .. Len(new) /\ left[i][j + 1] = left[i][j] /\ j' = j + 1 /\ i' = i
    BY <1>1, <1>6 DEF AddedName, AddedVersion, AddedOther, AddsLine
  <2>2. AllIn(old, new, i, j + 1)
    BY <1>1, <1>3, <2>1 DEF AllIn
  <2>3. /\ new[j][1] = "name" => DiffAt(from, to, i, j + 1, added, new[j][2])
        /\ new[j][1] = "version" =>
             pendingName # NoName /\ DiffAt(from, to, i, j + 1, Append(added, <<pendingName, new[j][2]>>), NoName)
        /\ new[j][1] \notin {"name", "version"} => DiffAt(from, to, i, j + 1, added, pendingName)
    BY <1>1, <1>2, <2>1, <2>2, AddsReads
  <2>4. CASE AddedName
    <3>1. new[j][1] = "name" /\ pendingName' = new[j][2] /\ added' = added
      BY <2>4 DEF AddedName
    <3> QED BY <2>1, <2>3, <3>1 DEF from, to
  <2>5. CASE AddedVersion
    <3>1. /\ new[j][1] = "version" /\ added' = Append(added, <<pendingName, new[j][2]>>)
          /\ pendingName' = NoName
      BY <2>5 DEF AddedVersion
    <3> QED BY <2>1, <2>3, <3>1 DEF from, to
  <2>6. CASE AddedOther
    <3>1. /\ new[j][1] # "name" /\ (new[j][1] = "version" => pendingName = NoName)
          /\ UNCHANGED <<pendingName, added>>
      BY <2>6 DEF AddedOther
    <3> QED BY <2>1, <2>3, <3>1 DEF from, to
  <2> QED BY <1>6, <2>4, <2>5, <2>6
<1> QED BY <1>4, <1>5, <1>6

LEMMA StepReads == ASSUME Types, OnlyNewRead, [Next]_vars PROVE OnlyNewRead'
<1> SUFFICES ASSUME phase' = "diffing", OnlyNewCrates(locks[1], locks[2])'
             PROVE  DiffAt(locks[1], locks[2], i, j, added, pendingName)'
  BY DEF OnlyNewRead
<1>0. locks' = locks
  BY DEF Next, vars, diffing, texts, Context, RemovedLine, AddedName, AddedVersion, AddedOther, AddsLine, Diffs,
     NoDiff, StartScan, StartRecheck, Report, Rerun, Check, Recheck, Withdraw
<1>1. OnlyNewCrates(locks[1], locks[2])
  BY <1>0
<1>2. CASE Context \/ RemovedLine \/ AddedName \/ AddedVersion \/ AddedOther
  <2>1. phase = "diffing"
    BY <1>2 DEF Context, RemovedLine, AddedName, AddedVersion, AddedOther, AddsLine, Diffs
  <2>2. DiffAt(locks[1], locks[2], i', j', added', pendingName')
    BY <1>1, <1>2, <2>1, DiffStepReads
  <2> QED BY <1>0, <2>2
<1>3. CASE NoDiff \/ StartScan \/ StartRecheck \/ Report \/ (\E pin : Check(pin) \/ Recheck(pin) \/ Withdraw(pin))
  <2>1. phase' # "diffing"
    BY <1>3 DEF NoDiff, StartScan, StartRecheck, Report, Check, Recheck, Withdraw
  <2> QED BY <2>1
<1>4. CASE Rerun
  <2>1. i' = 1 /\ j' = 1 /\ pendingName' = NoName /\ added' = <<>>
    BY <1>4 DEF Rerun
  <2>2. DiffAt(locks[1], locks[2], 1, 1, <<>>, NoName)
    BY <1>1, StartsRead DEF Types
  <2> QED BY <1>0, <2>1, <2>2
<1>5. CASE UNCHANGED vars
  <2>1. UNCHANGED <<phase, i, j, added, pendingName>>
    BY <1>5 DEF vars, diffing
  <2> QED BY <1>0, <1>1, <2>1 DEF OnlyNewRead
<1> QED BY <1>2, <1>3, <1>4, <1>5 DEF Next

\* diffAddedPackages on a commit that only adds packages of crates the lockfile did not have and
\* dependencies of those it had: at the end of every shortest diff it has named exactly the
\* new ones, in their order, though cargo writes the same line for many packages.  Every line
\* of the old lockfile is kept, and a name or a version of it can only be kept at home: behind
\* that the name of the next old package, or the line that a new one of the same version
\* does not have, could not be kept any more.  Where a package has no such line, OnlyNewCrates does
\* not hold, and a diff may name another version line than that of the new package.
THEOREM AdditionsExact == Spec => []PureAdditionExact
<1>1. Init => OnlyNewRead
  BY InitReads
<1>2. Types /\ OnlyNewRead /\ [Next]_vars => OnlyNewRead'
  BY StepReads
<1>3. Spec => []OnlyNewRead
  BY <1>1, <1>2, StaysTyped, PTL DEF Spec
<1>4. ASSUME Types, OnlyNewRead PROVE PureAdditionExact
  <2> SUFFICES ASSUME phase = "diffing", DiffRead, OnlyNewCrates(locks[1], locks[2])
               PROVE  added = NewPackages(locks[1], locks[2])
    BY DEF PureAdditionExact
  <2>1. TextsInv /\ DiffTypes /\ new = Lines(locks[2]) /\ locks[2] \in Locks
    BY <1>4 DEF Types, TextsInv
  <2>2. Adds(locks[1], locks[2])
    BY <2>1, TextsAdd
  <2>3. j > Len(Lines(locks[2])) /\ j \in Int
    BY <2>1 DEF DiffRead, DiffTypes
  <2>4. HasRead(locks[1], locks[2], j, added, pendingName)
    BY <1>4 DEF OnlyNewRead, DiffAt
  <2>5. added = Filtered(AllPins(locks[2]), NewOnes(locks[1], locks[2]))
    BY <2>2, <2>3, <2>4, ReadToEnd
  <2> QED BY <2>5 DEF NewPackages, AllPins
<1> QED BY <1>3, <1>4, StaysTyped, PTL
=============================================================================
