-------------------------- MODULE CargoConfigProofs --------------------------
(***************************************************************************)
(* The cargo config writer, for files of any length and whatever lines the *)
(* user types: cargo loads what it leaves, reads what was written, and     *)
(* the user's lines stay.                                                  *)
(***************************************************************************)
EXTENDS CargoConfig, ListProofs

\* Every line a file may have.
Line == UserLines \union {Empty, Header(TABLE, FALSE)} \union {Marker(list) : list \in ExcludeLists}
          \union {Assign(BARE_KEY, duration) : duration \in Durations}
          \union {Dotted(TABLE, BARE_KEY, duration) : duration \in Durations}
Texts == Seq(Line)

LEMMA LinesAre == \A line \in Line : IsLine(line)
<1>1. IsLine(Empty) /\ IsLine(Header(TABLE, FALSE))
  BY DEF IsLine, Empty, Text, Header, TABLE
<1>2. \A duration \in Durations : IsLine(Assign(BARE_KEY, duration)) /\ IsLine(Dotted(TABLE, BARE_KEY, duration))
  BY DEF IsLine, Assign, Dotted
<1>3. \A list \in ExcludeLists : IsLine(Marker(list))
  BY DEF IsLine, Marker
<1> QED BY <1>1, <1>2, <1>3, LinesAssumption DEF Line

LEMMA IsText ==
  ASSUME NEW text \in Texts
  PROVE  /\ Len(text) \in Nat /\ DOMAIN text = 1 .. Len(text)
         /\ \A k \in 1 .. Len(text) : text[k] \in Line
BY DEF Texts

-----------------------------------------------------------------------------
(* The first and the last of a set of indexes.                               *)

LEMMA LastOfIs ==
  ASSUME NEW m \in Nat, NEW S \in Indexes(m)
  PROVE  /\ LastOf(S) \in 0 .. m /\ (S = {} <=> LastOf(S) = 0)
         /\ S # {} => LastOf(S) \in S
         /\ \A k \in S : k <= LastOf(S)
<1>1. \A k \in S : k \in Int /\ 1 <= k /\ k <= m
  BY AreIndexes
<1>2. CASE S = {}
  BY <1>2 DEF LastOf
<1>3. CASE S # {}
  <2> DEFINE Gaps == {m - k : k \in S}
  <2>1. Gaps \in SUBSET Nat /\ Gaps # {}
    BY <1>1, <1>3
  <2>2. PICK gap \in Gaps : \A g \in Gaps : gap <= g
    <3> HIDE DEF Gaps
    <3> QED BY <2>1, Least
  <2>3. PICK last1 \in S : gap = m - last1
    BY <2>2
  <2>4. \A k \in S : last1 >= k
    <3> SUFFICES ASSUME NEW k \in S PROVE last1 >= k
      OBVIOUS
    <3>1. m - k \in Gaps
      OBVIOUS
    <3>2. gap <= m - k
      BY <2>2, <3>1
    <3>3. last1 \in Int /\ k \in Int
      BY <1>1
    <3> QED BY <2>3, <3>2, <3>3
  <2>5. LastOf(S) \in S /\ \A k \in S : LastOf(S) >= k
    BY <1>3, <2>4 DEF LastOf, Max
  <2> QED BY <1>1, <1>3, <2>5
<1> QED BY <1>2, <1>3

LEMMA FirstOfIs ==
  ASSUME NEW m \in Nat, NEW S \in Indexes(m)
  PROVE  /\ FirstOf(S) \in 0 .. m /\ (S = {} <=> FirstOf(S) = 0)
         /\ S # {} => FirstOf(S) \in S
         /\ \A k \in S : FirstOf(S) <= k
<1>1. \A k \in S : k \in Int /\ 1 <= k /\ k <= m
  BY AreIndexes
<1>2. CASE S = {}
  BY <1>2 DEF FirstOf
<1>3. CASE S # {}
  <2>1. S \in SUBSET Nat
    BY <1>1
  <2>2. PICK first \in S : \A k \in S : first <= k
    BY <1>3, <2>1, Least
  <2>3. FirstOf(S) \in S /\ \A k \in S : FirstOf(S) <= k
    BY <1>3, <2>2 DEF FirstOf, Min
  <2> QED BY <1>1, <1>3, <2>3
<1> QED BY <1>2, <1>3

\* An ascending function leads from the first to the first and from the last to the last.
LEMMA EndsMove ==
  ASSUME NEW m \in Nat, NEW S \in Indexes(m), NEW n \in Nat, NEW T \in Indexes(n),
         NEW f, \A k \in S : f[k] \in T, \A k, l \in S : k < l => f[k] < f[l],
         \A t \in T : \E k \in S : f[k] = t
  PROVE  /\ FirstOf(T) = IF S = {} THEN 0 ELSE f[FirstOf(S)]
         /\ LastOf(T) = IF S = {} THEN 0 ELSE f[LastOf(S)]
<1>1. CASE S = {}
  <2>1. T = {}
    BY <1>1
  <2> QED BY <1>1, <2>1 DEF FirstOf, LastOf
<1>2. CASE S # {}
  <2>1. T # {}
    BY <1>2
  <2>2. /\ FirstOf(S) \in S /\ LastOf(S) \in S
        /\ \A k \in S : k \in Int /\ FirstOf(S) <= k /\ k <= LastOf(S)
    BY <1>2, FirstOfIs, LastOfIs, AreIndexes
  <2>3. /\ FirstOf(T) \in T /\ LastOf(T) \in T
        /\ \A t \in T : t \in Int /\ FirstOf(T) <= t /\ t <= LastOf(T)
    BY <2>1, FirstOfIs, LastOfIs, AreIndexes
  <2>4. PICK k \in S : f[k] = FirstOf(T)
    BY <2>3
  <2>5. PICK l \in S : f[l] = LastOf(T)
    BY <2>3
  <2>6. f[FirstOf(S)] \in T /\ f[LastOf(S)] \in T
    BY <2>2
  <2>7. ~(FirstOf(S) < k)
    BY <2>2, <2>3, <2>4, <2>6
  <2>8. ~(l < LastOf(S))
    BY <2>2, <2>3, <2>5, <2>6
  <2>9. k = FirstOf(S) /\ l = LastOf(S)
    BY <2>2, <2>7, <2>8
  <2> QED BY <1>2, <2>4, <2>5, <2>9
<1> QED BY <1>1, <1>2

-----------------------------------------------------------------------------
(* Lines that are moved to other places of a file.                           *)

\* f says where the lines of one text are in another one.
Embeds(f, text, other) ==
  /\ f \in [1 .. Len(text) -> 1 .. Len(other)]
  /\ \A k, l \in 1 .. Len(text) : k < l => f[k] < f[l]

\* Down to line k the two have the same headers.
SameHeaders(f, text, other, k) ==
  /\ \A l \in 1 .. Len(text) :
       text[l].kind = "table" \/ other[f[l]].kind = "table" => other[f[l]] = text[l]
  /\ \A l \in 1 .. f[k] : other[l].kind = "table" => \E i \in 1 .. Len(text) : f[i] = l

LEMMA SectionIs ==
  ASSUME NEW text \in Texts, NEW k \in 1 .. Len(text)
  PROVE  /\ Section(text, k) \in 0 .. k
         /\ Section(text, k) # 0 => text[Section(text, k)].kind = "table"
         /\ \A l \in 1 .. k : text[l].kind = "table" => l <= Section(text, k) /\ Section(text, k) # 0
<1> DEFINE S == {l \in 1 .. k : text[l].kind = "table"}
<1>1. Len(text) \in Nat
  BY IsText
<1>2. k \in Nat /\ S \in Indexes(k)
  BY <1>1 DEF Indexes
<1> HIDE DEF S
<1>3. /\ LastOf(S) \in 0 .. k /\ (S = {} <=> LastOf(S) = 0)
      /\ S # {} => LastOf(S) \in S
      /\ \A l \in S : l <= LastOf(S)
  BY <1>2, LastOfIs
<1>4. Section(text, k) = LastOf(S)
  BY DEF Section, S
<1> QED BY <1>3, <1>4 DEF S

LEMMA SameSection ==
  ASSUME NEW text \in Texts, NEW other \in Texts, NEW f, Embeds(f, text, other),
         NEW k \in 1 .. Len(text), SameHeaders(f, text, other, k)
  PROVE  /\ Section(other, f[k]) = (IF Section(text, k) = 0 THEN 0 ELSE f[Section(text, k)])
         /\ TableAt(other, f[k]) = TableAt(text, k)
<1>1. /\ Len(text) \in Nat /\ Len(other) \in Nat
      /\ \A l \in 1 .. Len(text) : f[l] \in 1 .. Len(other)
      /\ \A i, j \in 1 .. Len(text) : i < j => f[i] < f[j]
  BY IsText DEF Embeds
<1>2. \A i, j \in 1 .. Len(text) : f[i] <= f[j] => i <= j
  BY <1>1
<1>3. k \in Nat /\ f[k] \in Nat /\ 1 .. k \subseteq 1 .. Len(text)
  BY <1>1
<1> DEFINE S == {l \in 1 .. k : text[l].kind = "table"}
           T == {l \in 1 .. f[k] : other[l].kind = "table"}
           S2 == {l \in 1 .. k : tableOf(text[l])}
           T2 == {l \in 1 .. f[k] : tableOf(other[l])}
<1>4. S \in Indexes(k) /\ T \in Indexes(f[k]) /\ S2 \in Indexes(k) /\ T2 \in Indexes(f[k])
  BY DEF Indexes
<1>5. /\ \A l \in S : f[l] \in T /\ other[f[l]] = text[l]
      /\ \A t \in T : \E l \in S : f[l] = t
  <2>1. ASSUME NEW l \in S PROVE f[l] \in T /\ other[f[l]] = text[l]
    <3>1. l \in 1 .. Len(text) /\ (l < k \/ l = k)
      BY <1>1
    <3> QED BY <1>1, <3>1 DEF SameHeaders
  <2>2. ASSUME NEW t \in T PROVE \E l \in S : f[l] = t
    <3>1. PICK l \in 1 .. Len(text) : f[l] = t
      BY DEF SameHeaders
    <3>2. l \in 1 .. k
      BY <1>1, <1>2, <3>1
    <3>3. text[l].kind = "table"
      BY <3>1 DEF SameHeaders
    <3> QED BY <3>1, <3>2, <3>3
  <2> QED BY <2>1, <2>2
<1>6. /\ \A l \in S2 : l \in S /\ f[l] \in T2
      /\ \A t \in T2 : t \in T /\ \E l \in S2 : f[l] = t
  BY <1>5 DEF tableOf
<1>7. \A i, j \in S : i < j => f[i] < f[j]
  BY <1>1, <1>3
<1>8. S = {} <=> LastOf(S) = 0
  <2> HIDE DEF S
  <2> QED BY <1>3, <1>4, LastOfIs
<1>9. LastOf(T) = IF S = {} THEN 0 ELSE f[LastOf(S)]
  <2> HIDE DEF S, T
  <2> QED BY <1>3, <1>4, <1>5, <1>7, EndsMove
<1>10. /\ LastOf(T2) = IF S2 = {} THEN 0 ELSE f[LastOf(S2)]
       /\ S2 = {} <=> LastOf(S2) = 0
       /\ S2 # {} => LastOf(S2) \in S2
  <2> HIDE DEF S, T, S2, T2
  <2>1. \A l \in S2 : f[l] \in T2
    BY <1>6
  <2>2. \A i, j \in S2 : i < j => f[i] < f[j]
    BY <1>6, <1>7
  <2>3. \A t \in T2 : \E l \in S2 : f[l] = t
    BY <1>6
  <2> QED BY <1>3, <1>4, <2>1, <2>2, <2>3, EndsMove, LastOfIs
<1>11. Section(other, f[k]) = (IF Section(text, k) = 0 THEN 0 ELSE f[Section(text, k)])
  BY <1>8, <1>9 DEF Section
<1>12. TableAt(other, f[k]) = TableAt(text, k)
  <2>1. TableAt(text, k) = IF LastOf(S2) = 0 THEN "" ELSE text[LastOf(S2)].table
    BY DEF TableAt
  <2>2. TableAt(other, f[k]) = IF LastOf(T2) = 0 THEN "" ELSE other[LastOf(T2)].table
    BY DEF TableAt
  <2> HIDE DEF S, T, S2, T2
  <2>3. CASE S2 = {}
    BY <1>10, <2>1, <2>2, <2>3
  <2>4. CASE S2 # {}
    <3>1. LastOf(T2) = f[LastOf(S2)] /\ LastOf(S2) # 0 /\ LastOf(S2) \in S2
      BY <1>10, <2>4
    <3>2. LastOf(T2) # 0
      <4>1. LastOf(S2) \in S
        BY <1>6, <3>1
      <4>2. LastOf(S2) \in 1 .. Len(text)
        BY <1>3, <4>1 DEF S
      <4> QED BY <1>1, <3>1, <4>2
    <3>3. other[LastOf(T2)] = text[LastOf(S2)]
      BY <1>5, <1>6, <3>1
    <3> QED BY <2>1, <2>2, <3>1, <3>2, <3>3
  <2> QED BY <2>3, <2>4
<1> QED BY <1>11, <1>12

\* A line that is moved means there what it meant here, to the program and to cargo.
Alike(line, other) == line.kind = other.kind /\ line.table = other.table /\ line.name = other.name
CargoKeys(text) == {l \in DOMAIN text :
                      /\ text[l].name = BARE_KEY
                      /\ \/ l \in DottedAtTop(text)
                         \/ text[l].kind = "key" /\ InTable(text, l, TABLE)}

LEMMA SameMeaning ==
  ASSUME NEW text \in Texts, NEW other \in Texts, NEW f, Embeds(f, text, other),
         NEW k \in 1 .. Len(text), SameHeaders(f, text, other, k), Alike(text[k], other[f[k]])
  PROVE  /\ f[k] \in 1 .. Len(other)
         /\ f[k] \in Keys(other) <=> k \in Keys(text)
         /\ f[k] \in AnyDotted(other) <=> k \in AnyDotted(text)
         /\ f[k] \in Headers(other) <=> k \in Headers(text)
         /\ f[k] \in Inline(other) <=> k \in Inline(text)
         /\ f[k] \in DottedAtTop(other) <=> k \in DottedAtTop(text)
         /\ f[k] \in CargoKeys(other) <=> k \in CargoKeys(text)
<1>1. /\ DOMAIN text = 1 .. Len(text) /\ DOMAIN other = 1 .. Len(other)
      /\ f[k] \in 1 .. Len(other)
  BY IsText DEF Embeds
<1>2. /\ Section(other, f[k]) = (IF Section(text, k) = 0 THEN 0 ELSE f[Section(text, k)])
      /\ TableAt(other, f[k]) = TableAt(text, k)
  BY SameSection
<1>3. /\ TopLevel(other, f[k]) <=> TopLevel(text, k)
      /\ InTable(other, f[k], TABLE) <=> InTable(text, k, TABLE)
  <2>1. CASE Section(text, k) = 0
    BY <1>2, <2>1 DEF TopLevel, InTable
  <2>2. CASE Section(text, k) # 0
    <3>1. Section(text, k) \in 1 .. Len(text) /\ text[Section(text, k)].kind = "table"
      <4>1. Len(text) \in Nat
        BY IsText
      <4> QED BY <2>2, <4>1, SectionIs
    <3>2. f[Section(text, k)] # 0 /\ other[f[Section(text, k)]] = text[Section(text, k)]
      BY <3>1 DEF Embeds, SameHeaders
    <3> QED BY <1>2, <2>2, <3>2 DEF TopLevel, InTable
  <2> QED BY <2>1, <2>2
<1>4. f[k] \in Keys(other) <=> k \in Keys(text)
  BY <1>1, <1>2 DEF Keys, Alike
<1>5. f[k] \in AnyDotted(other) <=> k \in AnyDotted(text)
  BY <1>1, <1>2 DEF AnyDotted, Alike
<1>6. f[k] \in Headers(other) <=> k \in Headers(text)
  BY <1>1 DEF Headers, Alike
<1>7. f[k] \in Inline(other) <=> k \in Inline(text)
  BY <1>1, <1>3 DEF Inline, Alike
<1>8. f[k] \in DottedAtTop(other) <=> k \in DottedAtTop(text)
  BY <1>1, <1>3 DEF DottedAtTop, Alike
<1>9. f[k] \in CargoKeys(other) <=> k \in CargoKeys(text)
  BY <1>1, <1>3, <1>8 DEF CargoKeys, Alike
<1> QED BY <1>1, <1>4, <1>5, <1>6, <1>7, <1>8, <1>9

LEMMA SettingsAre ==
  ASSUME NEW text
  PROVE  Settings(text) = {text[k].value : k \in CargoKeys(text)}
BY DEF Settings, CargoKeys

-----------------------------------------------------------------------------
(* Markers do not matter to cargo, nor do the values of keys.                *)

\* The lines of one text are in the other, which has nothing else but markers; values
\* of keys may differ.
SameNote(line, other) == line.noted <=> other.noted
Moved(f, text, other) ==
  /\ Embeds(f, text, other)
  /\ \A k \in 1 .. Len(text) : /\ Alike(text[k], other[f[k]]) /\ SameNote(text[k], other[f[k]])
                               /\ text[k].kind = "table" => other[f[k]] = text[k]
  /\ \A l \in 1 .. Len(other) : ~IsMarker(other[l]) => \E k \in 1 .. Len(text) : f[k] = l

LEMMA MovedMeaning ==
  ASSUME NEW text \in Texts, NEW other \in Texts, NEW f, Moved(f, text, other)
  PROVE  /\ \A k \in 1 .. Len(text) :
              /\ f[k] \in 1 .. Len(other)
              /\ f[k] \in Keys(other) <=> k \in Keys(text)
              /\ f[k] \in AnyDotted(other) <=> k \in AnyDotted(text)
              /\ f[k] \in Headers(other) <=> k \in Headers(text)
              /\ f[k] \in Inline(other) <=> k \in Inline(text)
              /\ f[k] \in DottedAtTop(other) <=> k \in DottedAtTop(text)
              /\ f[k] \in CargoKeys(other) <=> k \in CargoKeys(text)
         /\ \A k \in 1 .. Len(text) : SameHeaders(f, text, other, k)
<1> SUFFICES ASSUME NEW k \in 1 .. Len(text)
             PROVE  /\ f[k] \in 1 .. Len(other)
                    /\ f[k] \in Keys(other) <=> k \in Keys(text)
                    /\ f[k] \in AnyDotted(other) <=> k \in AnyDotted(text)
                    /\ f[k] \in Headers(other) <=> k \in Headers(text)
                    /\ f[k] \in Inline(other) <=> k \in Inline(text)
                    /\ f[k] \in DottedAtTop(other) <=> k \in DottedAtTop(text)
                    /\ f[k] \in CargoKeys(other) <=> k \in CargoKeys(text)
                    /\ SameHeaders(f, text, other, k)
  OBVIOUS
<1>1. Embeds(f, text, other) /\ Alike(text[k], other[f[k]])
  BY DEF Moved
<1>2. SameHeaders(f, text, other, k)
  <2>1. f[k] \in 1 .. Len(other) /\ Len(other) \in Nat
    BY <1>1, IsText DEF Embeds
  <2>2. ASSUME NEW l \in 1 .. f[k], other[l].kind = "table" PROVE \E i \in 1 .. Len(text) : f[i] = l
    <3>1. l \in 1 .. Len(other) /\ ~IsMarker(other[l])
      BY <2>1, <2>2 DEF IsMarker
    <3> QED BY <3>1 DEF Moved
  <2>3. ASSUME NEW l \in 1 .. Len(text), text[l].kind = "table" \/ other[f[l]].kind = "table"
        PROVE  other[f[l]] = text[l]
    BY <2>3 DEF Moved, Alike
  <2> QED BY <2>2, <2>3 DEF SameHeaders
<1> QED BY <1>1, <1>2, SameMeaning

\* What both have comes from a line of the one.
LEMMA MovedFrom ==
  ASSUME NEW text \in Texts, NEW other \in Texts, NEW f, Moved(f, text, other),
         NEW l \in 1 .. Len(other), other[l].kind # "marker"
  PROVE  \E k \in 1 .. Len(text) : f[k] = l
BY DEF Moved, IsMarker

LEMMA LoadsMoves ==
  ASSUME NEW text \in Texts, NEW other \in Texts, NEW f, Moved(f, text, other)
  PROVE  Loads(other) <=> Loads(text)
<1>1. /\ DOMAIN text = 1 .. Len(text) /\ DOMAIN other = 1 .. Len(other)
      /\ Len(text) \in Nat /\ Len(other) \in Nat
      /\ \A k \in 1 .. Len(text) : f[k] \in 1 .. Len(other)
      /\ \A k, l \in 1 .. Len(text) : f[k] = f[l] => k = l
  <2>1. \A k, l \in 1 .. Len(text) : k < l => f[k] < f[l]
    BY DEF Moved, Embeds
  <2>2. \A k \in 1 .. Len(text) : f[k] \in 1 .. Len(other)
    BY DEF Moved, Embeds
  <2>3. ASSUME NEW k \in 1 .. Len(text), NEW l \in 1 .. Len(text), f[k] = f[l] PROVE k = l
    <3>1. ~(k < l) /\ ~(l < k)
      BY <2>1, <2>2, <2>3, IsText
    <3> QED BY <3>1, IsText
  <2> QED BY <2>2, <2>3, IsText
<1> DEFINE Once(t) == \A k, l \in Headers(t) \union Inline(t) : k = l
           Apart(t) == DottedAtTop(t) # {} => Headers(t) = {} /\ Inline(t) = {}
           NoTwice(t) == \A k, l \in DOMAIN t :
             k # l /\ t[k].kind \in {"key", "dotted"} /\ t[l].kind = t[k].kind
               /\ Section(t, k) = Section(t, l)
               => t[k].table # t[l].table \/ t[k].name # t[l].name
<1>2. /\ \A l \in Headers(other) : \E k \in Headers(text) : f[k] = l
      /\ \A l \in Inline(other) : \E k \in Inline(text) : f[k] = l
      /\ \A l \in DottedAtTop(other) : \E k \in DottedAtTop(text) : f[k] = l
  <2>1. \A l \in Headers(other) : l \in 1 .. Len(other) /\ other[l].kind # "marker"
    BY <1>1 DEF Headers
  <2>2. \A l \in Inline(other) : l \in 1 .. Len(other) /\ other[l].kind # "marker"
    BY <1>1 DEF Inline
  <2>3. \A l \in DottedAtTop(other) : l \in 1 .. Len(other) /\ other[l].kind # "marker"
    BY <1>1 DEF DottedAtTop
  <2> QED BY <2>1, <2>2, <2>3, MovedFrom, MovedMeaning
<1>3. /\ \A k \in Headers(text) : k \in 1 .. Len(text) /\ f[k] \in Headers(other)
      /\ \A k \in Inline(text) : k \in 1 .. Len(text) /\ f[k] \in Inline(other)
      /\ \A k \in DottedAtTop(text) : f[k] \in DottedAtTop(other)
  <2>1. /\ \A k \in Headers(text) : k \in 1 .. Len(text)
        /\ \A k \in Inline(text) : k \in 1 .. Len(text)
        /\ \A k \in DottedAtTop(text) : k \in 1 .. Len(text)
    BY <1>1 DEF Headers, Inline, DottedAtTop
  <2> QED BY <2>1, MovedMeaning
<1>4. Once(other) <=> Once(text)
  <2>1. ASSUME Once(other), NEW k \in Headers(text) \union Inline(text),
               NEW l \in Headers(text) \union Inline(text)
        PROVE  k = l
    <3>1. f[k] = f[l]
      BY <1>3, <2>1
    <3> QED BY <1>1, <1>3, <3>1
  <2>2. ASSUME Once(text), NEW k \in Headers(other) \union Inline(other),
               NEW l \in Headers(other) \union Inline(other)
        PROVE  k = l
    <3>1. PICK i \in Headers(text) \union Inline(text) : f[i] = k
      BY <1>2
    <3>2. PICK j \in Headers(text) \union Inline(text) : f[j] = l
      BY <1>2
    <3> QED BY <2>2, <3>1, <3>2
  <2> QED BY <2>1, <2>2
<1>5. Apart(other) <=> Apart(text)
  <2>1. /\ Headers(other) = {} <=> Headers(text) = {}
        /\ Inline(other) = {} <=> Inline(text) = {}
        /\ DottedAtTop(other) = {} <=> DottedAtTop(text) = {}
    BY <1>2, <1>3
  <2> QED BY <2>1
<1>6. ASSUME NEW k \in 1 .. Len(text), NEW l \in 1 .. Len(text)
      PROVE  Section(other, f[k]) = Section(other, f[l]) <=> Section(text, k) = Section(text, l)
  <2>1. /\ Section(other, f[k]) = (IF Section(text, k) = 0 THEN 0 ELSE f[Section(text, k)])
        /\ Section(other, f[l]) = (IF Section(text, l) = 0 THEN 0 ELSE f[Section(text, l)])
    BY MovedMeaning, SameSection DEF Moved
  <2>2. /\ Section(text, k) # 0 => Section(text, k) \in 1 .. Len(text)
        /\ Section(text, l) # 0 => Section(text, l) \in 1 .. Len(text)
    BY <1>1, SectionIs
  <2>3. /\ Section(text, k) # 0 => f[Section(text, k)] # 0
        /\ Section(text, l) # 0 => f[Section(text, l)] # 0
    BY <1>1, <2>2
  <2> QED BY <1>1, <2>1, <2>2, <2>3
<1>7. NoTwice(other) <=> NoTwice(text)
  <2>0. \A k \in 1 .. Len(text) : Alike(text[k], other[f[k]])
    BY DEF Moved
  <2>1. ASSUME NoTwice(other), NEW k \in DOMAIN text, NEW l \in DOMAIN text,
               k # l, text[k].kind \in {"key", "dotted"}, text[l].kind = text[k].kind,
               Section(text, k) = Section(text, l)
        PROVE  text[k].table # text[l].table \/ text[k].name # text[l].name
    <3>1. f[k] # f[l] /\ f[k] \in DOMAIN other /\ f[l] \in DOMAIN other
          /\ Section(other, f[k]) = Section(other, f[l])
      BY <1>1, <1>6, <2>1
    <3>2. Alike(text[k], other[f[k]]) /\ Alike(text[l], other[f[l]])
      BY <1>1, <2>0
    <3> QED BY <2>1, <3>1, <3>2 DEF Alike
  <2>2. ASSUME NoTwice(text), NEW k \in DOMAIN other, NEW l \in DOMAIN other,
               k # l, other[k].kind \in {"key", "dotted"}, other[l].kind = other[k].kind,
               Section(other, k) = Section(other, l)
        PROVE  other[k].table # other[l].table \/ other[k].name # other[l].name
    <3>1. PICK i \in 1 .. Len(text) : f[i] = k
      BY <1>1, <2>2, MovedFrom
    <3>2. PICK j \in 1 .. Len(text) : f[j] = l
      BY <1>1, <2>2, MovedFrom
    <3>3. Section(text, i) = Section(text, j)
      BY <1>6, <2>2, <3>1, <3>2
    <3>4. Alike(text[i], other[k]) /\ Alike(text[j], other[l])
      BY <2>0, <3>1, <3>2
    <3> QED BY <1>1, <2>2, <3>1, <3>2, <3>3, <3>4 DEF Alike
  <2> QED BY <2>1, <2>2
<1>8. ASSUME NEW t PROVE Loads(t) <=> Once(t) /\ Apart(t) /\ NoTwice(t)
  BY DEF Loads
<1> HIDE DEF Once, Apart, NoTwice
<1> QED BY <1>4, <1>5, <1>7, <1>8

LEMMA RecognisedMoves ==
  ASSUME NEW text \in Texts, NEW other \in Texts, NEW f, Moved(f, text, other)
  PROVE  Recognised(other) <=> Recognised(text)
<1>1. DOMAIN text = 1 .. Len(text) /\ DOMAIN other = 1 .. Len(other)
  BY IsText
<1>2. Inline(other) = {} <=> Inline(text) = {}
  <2>1. \A k \in Inline(text) : k \in 1 .. Len(text)
    BY <1>1 DEF Inline
  <2>2. \A l \in Inline(other) : l \in 1 .. Len(other) /\ other[l].kind # "marker"
    BY <1>1 DEF Inline
  <2> QED BY <2>1, <2>2, MovedFrom, MovedMeaning
<1>3. (\A l \in 1 .. Len(other) : ~other[l].noted) <=> (\A k \in 1 .. Len(text) : ~text[k].noted)
  <2>1. ASSUME NEW l \in 1 .. Len(other), other[l].noted PROVE \E k \in 1 .. Len(text) : text[k].noted
    <3>1. other[l].kind # "marker"
      BY <2>1, IsText, LinesAre DEF IsLine
    <3>2. PICK k \in 1 .. Len(text) : f[k] = l
      BY <3>1, MovedFrom
    <3>3. text[k].noted <=> other[l].noted
      BY <3>2 DEF Moved, SameNote
    <3> QED BY <2>1, <3>3
  <2>2. ASSUME NEW k \in 1 .. Len(text), text[k].noted PROVE \E l \in 1 .. Len(other) : other[l].noted
    BY <2>2, MovedMeaning DEF Moved, SameNote
  <2> QED BY <2>1, <2>2
<1> QED BY <1>1, <1>2, <1>3 DEF Recognised

LEMMA KeysAreIndexes ==
  ASSUME NEW text \in Texts
  PROVE  Keys(text) \in Indexes(Len(text)) /\ Len(text) \in Nat
BY IsText DEF Keys, Indexes

LEMMA FirstKeyMoves ==
  ASSUME NEW text \in Texts, NEW other \in Texts, NEW f, Moved(f, text, other)
  PROVE  /\ Keys(other) = {} <=> Keys(text) = {}
         /\ locate(other).keyIndex = IF locate(text).keyIndex = 0 THEN 0 ELSE f[locate(text).keyIndex]
         /\ locate(text).keyIndex \in 0 .. Len(text)
<1>1. \A k, l \in 1 .. Len(text) : k < l => f[k] < f[l]
  BY DEF Moved, Embeds
<1>2. Keys(text) \in Indexes(Len(text)) /\ Keys(other) \in Indexes(Len(other))
      /\ Len(text) \in Nat /\ Len(other) \in Nat
  BY KeysAreIndexes
<1>3. \A k \in Keys(text) : k \in 1 .. Len(text) /\ f[k] \in Keys(other)
  <2>1. \A k \in Keys(text) : k \in 1 .. Len(text)
    BY IsText DEF Keys
  <2> QED BY <2>1, MovedMeaning
<1>4. \A l \in Keys(other) : \E k \in Keys(text) : f[k] = l
  <2>1. \A l \in Keys(other) : l \in 1 .. Len(other) /\ other[l].kind # "marker"
    BY IsText DEF Keys
  <2> QED BY <2>1, MovedFrom, MovedMeaning
<1>5. FirstOf(Keys(other)) = IF Keys(text) = {} THEN 0 ELSE f[FirstOf(Keys(text))]
  <2>1. \A k, l \in Keys(text) : k < l => f[k] < f[l]
    BY <1>1, <1>3
  <2>2. \A k \in Keys(text) : f[k] \in Keys(other)
    BY <1>3
  <2> QED BY <1>2, <1>4, <2>1, <2>2, EndsMove
<1>6. FirstOf(Keys(text)) \in 0 .. Len(text) /\ (Keys(text) = {} <=> FirstOf(Keys(text)) = 0)
  BY <1>2, FirstOfIs
<1>7. locate(other).keyIndex = FirstOf(Keys(other)) /\ locate(text).keyIndex = FirstOf(Keys(text))
  BY DEF locate
<1> QED BY <1>3, <1>4, <1>5, <1>6, <1>7

LEMMA ReadingMoves ==
  ASSUME NEW text \in Texts, NEW other \in Texts, NEW f, Moved(f, text, other),
         \A k \in 1 .. Len(text) : other[f[k]] = text[k]
  PROVE  value(other) = value(text) /\ Settings(other) = Settings(text)
<1>1. value(other) = value(text)
  <2>1. CASE locate(text).keyIndex = 0
    BY <2>1, FirstKeyMoves DEF value
  <2>2. CASE locate(text).keyIndex # 0
    <3>1. locate(text).keyIndex \in 1 .. Len(text)
      BY <2>2, FirstKeyMoves, IsText
    <3>2. locate(other).keyIndex = f[locate(text).keyIndex]
      BY <2>2, FirstKeyMoves
    <3>3. locate(other).keyIndex # 0
      BY <3>1, <3>2, MovedMeaning, IsText
    <3> QED BY <2>2, <3>1, <3>2, <3>3 DEF value
  <2> QED BY <2>1, <2>2
<1>2. Settings(other) = Settings(text)
  <2>1. \A k \in CargoKeys(text) : k \in 1 .. Len(text) /\ f[k] \in CargoKeys(other)
    <3>1. \A k \in CargoKeys(text) : k \in 1 .. Len(text)
      BY IsText DEF CargoKeys
    <3> QED BY <3>1, MovedMeaning
  <2>2. \A l \in CargoKeys(other) : \E k \in CargoKeys(text) : f[k] = l
    <3>1. \A l \in CargoKeys(other) : l \in 1 .. Len(other) /\ other[l].kind # "marker"
      BY IsText DEF CargoKeys, DottedAtTop
    <3> QED BY <3>1, MovedFrom, MovedMeaning
  <2>3. \A v : v \in Settings(other) <=> v \in Settings(text)
    <3>1. Settings(other) = {other[k].value : k \in CargoKeys(other)}
          /\ Settings(text) = {text[k].value : k \in CargoKeys(text)}
      BY SettingsAre
    <3> QED BY <2>1, <2>2, <3>1
  <2> QED BY <2>3
<1> QED BY <1>1, <1>2

LEMMA OthersMove ==
  ASSUME NEW text \in Texts, NEW other \in Texts, NEW f, Moved(f, text, other),
         \A k \in 1 .. Len(text) : ~IsMarker(text[k]),
         \A k \in 1 .. Len(text) : k \notin Keys(text) => other[f[k]] = text[k]
  PROVE  Others(other) = Others(text)
<1> DEFINE S == DOMAIN text \ Mine(text)
           T == DOMAIN other \ Mine(other)
           g == [k \in S |-> f[k]]
<1>1. /\ S \in Indexes(Len(text)) /\ T \in Indexes(Len(other))
      /\ Len(text) \in Nat /\ Len(other) \in Nat
  BY IsText DEF Indexes
<1>2. /\ DOMAIN text = 1 .. Len(text) /\ DOMAIN other = 1 .. Len(other)
      /\ \A k, l \in 1 .. Len(text) : k < l => f[k] < f[l]
  BY IsText DEF Moved, Embeds
<1>3. \A k \in S : k \in 1 .. Len(text) /\ k \notin Keys(text)
  BY <1>2 DEF Mine
<1>4. \A k \in S : f[k] \in T
  <2>1. \A k \in 1 .. Len(text) : f[k] \in 1 .. Len(other) /\ ~IsMarker(other[f[k]])
    <3>1. \A k \in 1 .. Len(text) : text[k].kind = other[f[k]].kind
      BY DEF Moved, Alike
    <3> QED BY <3>1, MovedMeaning DEF IsMarker
  <2> QED BY <1>2, <1>3, <2>1, MovedMeaning DEF Mine
<1>5. \A t \in T : \E k \in S : f[k] = t
  <2> SUFFICES ASSUME NEW t \in T PROVE \E k \in S : f[k] = t
    OBVIOUS
  <2>1. t \in 1 .. Len(other) /\ ~IsMarker(other[t]) /\ t \notin Keys(other)
    BY <1>2 DEF Mine
  <2>2. PICK k \in 1 .. Len(text) : f[k] = t
    BY <2>1 DEF Moved
  <2>3. k \notin Keys(text)
    BY <2>1, <2>2, MovedMeaning
  <2> QED BY <1>2, <2>2, <2>3 DEF Mine
<1>6. \A k \in S : other[f[k]] = text[k]
  BY <1>3
<1>7. Filtered(other, T) = Filtered(text, S)
  <2> HIDE DEF S, T
  <2>1. g \in [S -> T] /\ (\A k \in S : g[k] = f[k])
    BY <1>4
  <2>2. \A k, l \in S : k < l => g[k] < g[l]
    BY <1>2, <1>3, <2>1
  <2>3. \A t \in T : \E k \in S : g[k] = t
    BY <1>5, <2>1
  <2>4. \A k \in S : other[g[k]] = text[k]
    BY <1>6, <2>1
  <2> HIDE DEF g
  <2> QED BY <1>1, <2>1, <2>2, <2>3, <2>4, FilteredAlike
<1> QED BY <1>7 DEF Others

-----------------------------------------------------------------------------
(* kept.                                                                     *)

Unmarked(text) == {k \in DOMAIN text : ~IsMarker(text[k])}

LEMMA KeptIs ==
  ASSUME NEW text \in Texts
  PROVE  /\ kept(text) \in Texts
         /\ Moved(Ascending(Unmarked(text)), kept(text), text)
         /\ \A k \in 1 .. Len(kept(text)) :
              /\ text[Ascending(Unmarked(text))[k]] = kept(text)[k]
              /\ ~IsMarker(kept(text)[k])
<1> DEFINE S == Unmarked(text)
           c == Cardinality(S)
           f == Ascending(S)
<1>1. Len(text) \in Nat /\ DOMAIN text = 1 .. Len(text) /\ (\A k \in 1 .. Len(text) : text[k] \in Line)
  BY IsText
<1>2. S \in Indexes(Len(text))
  BY <1>1 DEF Indexes, Unmarked
<1>3. c \in Nat
  BY <1>1, <1>2, Counted
<1>4. \A k \in S : k \in 1 .. Len(text) /\ ~IsMarker(text[k])
  BY <1>1 DEF Unmarked
<1> HIDE DEF S, c
<1>5. /\ f \in [1 .. c -> S]
      /\ \A i, j \in 1 .. c : i < j => f[i] < f[j]
      /\ \A k \in S : Rank(S, k) \in 1 .. c /\ f[Rank(S, k)] = k
  BY <1>1, <1>2, AscendingLists DEF c
<1> HIDE DEF f
<1>6. kept(text) = [n \in 1 .. c |-> text[f[n]]]
  BY DEF kept, Filtered, S, c, f, Unmarked
<1>7. kept(text) \in Texts /\ Len(kept(text)) = c
  <2>1. \A n \in 1 .. c : text[f[n]] \in Line
    BY <1>1, <1>4, <1>5
  <2>2. [n \in 1 .. c |-> text[f[n]]] \in [1 .. c -> Line]
    BY <2>1
  <2> QED BY <1>3, <1>6, <2>2 DEF Texts
<1>8. \A k \in 1 .. c : text[f[k]] = kept(text)[k] /\ ~IsMarker(kept(text)[k])
  BY <1>4, <1>5, <1>6
<1>9. Moved(f, kept(text), text)
  <2>1. Embeds(f, kept(text), text)
    BY <1>4, <1>5, <1>7 DEF Embeds
  <2>2. \A l \in 1 .. Len(text) : ~IsMarker(text[l]) => \E k \in 1 .. c : f[k] = l
    <3>1. \A l \in 1 .. Len(text) : ~IsMarker(text[l]) => l \in S
      BY <1>1 DEF S, Unmarked
    <3> QED BY <1>5, <3>1
  <2> QED BY <1>7, <1>8, <2>1, <2>2 DEF Moved, Alike, SameNote
<1> QED BY <1>7, <1>8, <1>9 DEF f, S

\* A text without markers is what is kept of one that only has markers beside it.
LEMMA OnlyKept ==
  ASSUME NEW text \in Texts, NEW other \in Texts, NEW f, Moved(f, text, other),
         \A k \in 1 .. Len(text) : other[f[k]] = text[k] /\ ~IsMarker(text[k])
  PROVE  kept(other) = text
<1> DEFINE S == Unmarked(other)
           c == Len(text)
<1>1. /\ c \in Nat /\ Len(other) \in Nat /\ DOMAIN other = 1 .. Len(other)
      /\ text = [k \in 1 .. c |-> text[k]]
  BY IsText DEF Texts
<1>2. S \in Indexes(Len(other))
  BY <1>1 DEF Indexes, Unmarked
<1>3. f \in [1 .. c -> S]
  <2>1. f \in [1 .. c -> 1 .. Len(other)] /\ \A k \in 1 .. c : ~IsMarker(other[f[k]])
    BY DEF Moved, Embeds
  <2> QED BY <1>1, <2>1 DEF Unmarked
<1>4. \A k, l \in 1 .. c : k < l => f[k] < f[l]
  BY DEF Moved, Embeds
<1>5. \A l \in S : \E k \in 1 .. c : f[k] = l
  BY <1>1 DEF Moved, Unmarked
<1>6. Cardinality(S) = c /\ f = Ascending(S)
  <2> HIDE DEF S, c
  <2> QED BY <1>1, <1>2, <1>3, <1>4, <1>5, OnlyAscending
<1>7. kept(other) = [k \in 1 .. c |-> other[f[k]]]
  BY <1>6 DEF kept, Filtered, Unmarked
<1> QED BY <1>1, <1>7

-----------------------------------------------------------------------------
(* What is written: the assignment between two parts of what was kept.       *)

Spelling(text, duration) ==
  IF dotted(locate(text), text) THEN Dotted(TABLE, BARE_KEY, duration)
  ELSE Assign(BARE_KEY, duration)
Block(text, duration, list) ==
  IF list = None THEN <<Spelling(text, duration)>>
  ELSE <<Marker(list), Spelling(text, duration)>>

Place(text) == LET at == locate(text)
               IN  IF at.keyIndex > 0 THEN at.keyIndex - 1
                   ELSE IF at.tableIndex > 0 THEN at.tableIndex ELSE at.lastDottedIndex
Room(text) == text \o (IF text # <<>> /\ Last(text) # Empty THEN <<Empty>> ELSE <<>>)
                   \o <<Header(TABLE, FALSE)>>
NoPlace(text) == /\ locate(text).keyIndex = 0 /\ locate(text).tableIndex = 0
                 /\ locate(text).lastDottedIndex = 0
Before(text) == IF NoPlace(text) THEN Room(text) ELSE SubSeq(text, 1, Place(text))
After(text) == IF NoPlace(text) THEN <<>>
               ELSE IF locate(text).keyIndex > 0 THEN SubSeq(text, Place(text) + 2, Len(text))
               ELSE SubSeq(text, Place(text) + 1, Len(text))

LEMMA Located ==
  ASSUME NEW text \in Texts
  PROVE  /\ locate(text).keyIndex \in 0 .. Len(text)
         /\ locate(text).keyIndex = 0 <=> Keys(text) = {}
         /\ locate(text).keyIndex # 0 => locate(text).keyIndex \in Keys(text)
         /\ \A k \in Keys(text) : locate(text).keyIndex <= k
         /\ locate(text).tableIndex \in 0 .. Len(text)
         /\ locate(text).tableIndex # 0 =>
              /\ tableOf(text[locate(text).tableIndex])
              /\ text[locate(text).tableIndex].table = TABLE
         /\ locate(text).tableIndex = 0 =>
              \A k \in 1 .. Len(text) : ~(tableOf(text[k]) /\ text[k].table = TABLE)
         /\ locate(text).lastDottedIndex \in 0 .. Len(text)
         /\ locate(text).lastDottedIndex = 0 <=> AnyDotted(text) = {}
         /\ locate(text).lastDottedIndex # 0 => locate(text).lastDottedIndex \in AnyDotted(text)
<1> DEFINE S == {k \in DOMAIN text : tableOf(text[k]) /\ text[k].table = TABLE}
<1>1. Len(text) \in Nat /\ DOMAIN text = 1 .. Len(text)
  BY IsText
<1>2. /\ Keys(text) \in Indexes(Len(text)) /\ S \in Indexes(Len(text))
      /\ AnyDotted(text) \in Indexes(Len(text))
  BY <1>1 DEF Indexes, Keys, AnyDotted
<1>3. /\ locate(text).keyIndex = FirstOf(Keys(text)) /\ locate(text).tableIndex = FirstOf(S)
      /\ locate(text).lastDottedIndex = LastOf(AnyDotted(text))
  BY DEF locate
<1>4. /\ locate(text).keyIndex \in 0 .. Len(text)
      /\ locate(text).keyIndex = 0 <=> Keys(text) = {}
      /\ locate(text).keyIndex # 0 => locate(text).keyIndex \in Keys(text)
      /\ \A k \in Keys(text) : locate(text).keyIndex <= k
  BY <1>1, <1>2, <1>3, FirstOfIs
<1>5. /\ locate(text).lastDottedIndex \in 0 .. Len(text)
      /\ locate(text).lastDottedIndex = 0 <=> AnyDotted(text) = {}
      /\ locate(text).lastDottedIndex # 0 => locate(text).lastDottedIndex \in AnyDotted(text)
  BY <1>1, <1>2, <1>3, LastOfIs
<1>6. /\ locate(text).tableIndex \in 0 .. Len(text)
      /\ locate(text).tableIndex = 0 <=> S = {}
      /\ locate(text).tableIndex # 0 => locate(text).tableIndex \in S
  <2> HIDE DEF S
  <2> QED BY <1>1, <1>2, <1>3, FirstOfIs
<1>7. /\ locate(text).tableIndex # 0 =>
           /\ tableOf(text[locate(text).tableIndex])
           /\ text[locate(text).tableIndex].table = TABLE
      /\ locate(text).tableIndex = 0 =>
           \A k \in 1 .. Len(text) : ~(tableOf(text[k]) /\ text[k].table = TABLE)
  BY <1>1, <1>6
<1> QED BY <1>4, <1>5, <1>6, <1>7

\* Short texts.
LEMMA OneLine ==
  ASSUME NEW S, NEW line \in S
  PROVE  <<line>> \in Seq(S) /\ Len(<<line>>) = 1 /\ <<line>>[1] = line
OBVIOUS

LEMMA TwoLines ==
  ASSUME NEW S, NEW line \in S, NEW next \in S
  PROVE  /\ <<line, next>> \in Seq(S) /\ Len(<<line, next>>) = 2
         /\ <<line, next>>[1] = line /\ <<line, next>>[2] = next
OBVIOUS

LEMMA FixedLines ==
  /\ Empty \in Line /\ Header(TABLE, FALSE) \in Line
  /\ ~IsMarker(Empty) /\ ~IsMarker(Header(TABLE, FALSE))
  /\ Empty.kind = "text" /\ Header(TABLE, FALSE).kind = "table" /\ Header(TABLE, FALSE).table = TABLE
  /\ ~Empty.noted /\ ~Header(TABLE, FALSE).noted
BY DEF Line, IsMarker, Empty, Text, Header

LEMMA SpellingIs ==
  ASSUME NEW text, NEW duration \in Durations
  PROVE  /\ Spelling(text, duration) \in Line /\ ~IsMarker(Spelling(text, duration))
         /\ Spelling(text, duration).value = duration /\ Spelling(text, duration).name = BARE_KEY
         /\ Spelling(text, duration).kind = (IF dotted(locate(text), text) THEN "dotted" ELSE "key")
         /\ Spelling(text, duration).table = (IF dotted(locate(text), text) THEN TABLE ELSE "")
         /\ ~Spelling(text, duration).noted
<1>1. Dotted(TABLE, BARE_KEY, duration) \in Line /\ Assign(BARE_KEY, duration) \in Line
  BY DEF Line
<1>2. CASE dotted(locate(text), text)
  BY <1>1, <1>2 DEF Spelling, IsMarker, Dotted
<1>3. CASE ~dotted(locate(text), text)
  BY <1>1, <1>3 DEF Spelling, IsMarker, Assign
<1> QED BY <1>2, <1>3

LEMMA LinesWritten ==
  ASSUME NEW text, NEW duration \in Durations, NEW list \in ExcludeLists
  PROVE  /\ Marker(list) \in Line /\ IsMarker(Marker(list)) /\ Marker(list).value = list
         /\ Block(text, duration, list) \in Texts
<1>1. Marker(list) \in Line /\ Spelling(text, duration) \in Line
  BY SpellingIs DEF Line
<1>2. Block(text, duration, list) \in Texts
  BY <1>1, OneLine, TwoLines DEF Block, Texts
<1> QED BY <1>1, <1>2 DEF IsMarker, Marker

LEMMA Parts ==
  ASSUME NEW text \in Texts
  PROVE  /\ Before(text) \in Texts /\ After(text) \in Texts /\ Room(text) \in Texts
         /\ Place(text) \in 0 .. Len(text)
<1> DEFINE space == IF text # <<>> /\ Last(text) # Empty THEN <<Empty>> ELSE <<>>
<1>1. text \in Seq(Line) /\ space \in Seq(Line) /\ <<Header(TABLE, FALSE)>> \in Seq(Line)
  BY FixedLines, OneLine, EmptySeq DEF Texts
<1>2. Room(text) \in Seq(Line)
  <2> HIDE DEF space
  <2>1. text \o space \in Seq(Line)
    BY <1>1, ConcatProperties
  <2>2. (text \o space) \o <<Header(TABLE, FALSE)>> \in Seq(Line)
    BY <1>1, <2>1, ConcatProperties
  <2> QED BY <2>2 DEF Room, space
<1>3. Place(text) \in 0 .. Len(text)
  BY Located, IsText DEF Place
<1>4. SubSeq(text, 1, Place(text)) \in Texts /\ SubSeq(text, Place(text) + 1, Len(text)) \in Texts
      /\ SubSeq(text, Place(text) + 2, Len(text)) \in Texts
  BY <1>3, IsText, SubSeqProperties DEF Texts
<1> QED BY <1>2, <1>3, <1>4 DEF Before, After, Texts

\* The setting is inserted behind a line.
LEMMA Behind ==
  ASSUME NEW text, locate(text).keyIndex = 0, ~NoPlace(text)
  PROVE  Before(text) = SubSeq(text, 1, Place(text)) /\ After(text) = SubSeq(text, Place(text) + 1, Len(text))
<1>1. ~(locate(text).keyIndex > 0)
  OBVIOUS
<1> QED BY <1>1, Zenon DEF Before, After

\* It takes the place of a line.
LEMMA Instead ==
  ASSUME NEW text, locate(text).keyIndex > 0, ~NoPlace(text)
  PROVE  Before(text) = SubSeq(text, 1, Place(text)) /\ After(text) = SubSeq(text, Place(text) + 2, Len(text))
BY Zenon DEF Before, After

LEMMA WrittenIs ==
  ASSUME NEW text \in Texts, NEW duration \in Durations, NEW list \in ExcludeLists
  PROVE  Written(text, duration, list) =
           Before(kept(text)) \o Block(kept(text), duration, list) \o After(kept(text))
<1> DEFINE L == kept(text)
           B == Block(L, duration, list)
<1>1. L \in Texts
  BY KeptIs
<1>2. Before(L) \in Texts /\ After(L) \in Texts /\ B \in Texts
  <2> HIDE DEF L
  <2> QED BY <1>1, Parts, LinesWritten
<1>3. /\ locate(L).keyIndex \in Int /\ locate(L).tableIndex \in Int /\ locate(L).lastDottedIndex \in Int
      /\ locate(L).keyIndex >= 0 /\ locate(L).tableIndex >= 0 /\ locate(L).lastDottedIndex >= 0
  BY <1>1, Located, IsText
<1>4. CASE locate(L).keyIndex > 0
  <2>1. Written(text, duration, list) =
          SubSeq(L, 1, locate(L).keyIndex - 1) \o B \o SubSeq(L, locate(L).keyIndex + 1, Len(L))
    BY <1>4 DEF Written, Block, Spelling
  <2>2. Place(L) = locate(L).keyIndex - 1 /\ ~NoPlace(L) /\ Place(L) + 2 = locate(L).keyIndex + 1
    BY <1>3, <1>4 DEF Place, NoPlace
  <2> QED BY <1>4, <2>1, <2>2 DEF Before, After
<1>5. CASE locate(L).keyIndex = 0 /\ locate(L).tableIndex > 0
  <2>1. Written(text, duration, list) = InsertBehind(L, locate(L).tableIndex, B)
    BY <1>5 DEF Written, Block, Spelling
  <2>2. Place(L) = locate(L).tableIndex /\ ~NoPlace(L)
    BY <1>3, <1>5 DEF Place, NoPlace
  <2>3. Before(L) = SubSeq(L, 1, Place(L)) /\ After(L) = SubSeq(L, Place(L) + 1, Len(L))
    <3> HIDE DEF L
    <3> QED BY <1>5, <2>2, Behind
  <2>4. Written(text, duration, list) = Before(L) \o B \o After(L)
    <3> HIDE DEF L, B
    <3> QED BY <2>1, <2>2, <2>3 DEF InsertBehind
  <2> QED BY <2>4
<1>6. CASE locate(L).keyIndex = 0 /\ locate(L).tableIndex = 0 /\ locate(L).lastDottedIndex > 0
  <2>1. Written(text, duration, list) = InsertBehind(L, locate(L).lastDottedIndex, B)
    BY <1>6 DEF Written, Block, Spelling
  <2>2. Place(L) = locate(L).lastDottedIndex /\ ~NoPlace(L)
    BY <1>3, <1>6 DEF Place, NoPlace
  <2>3. Before(L) = SubSeq(L, 1, Place(L)) /\ After(L) = SubSeq(L, Place(L) + 1, Len(L))
    <3> HIDE DEF L
    <3> QED BY <1>6, <2>2, Behind
  <2>4. Written(text, duration, list) = Before(L) \o B \o After(L)
    <3> HIDE DEF L, B
    <3> QED BY <2>1, <2>2, <2>3 DEF InsertBehind
  <2> QED BY <2>4
<1>7. CASE NoPlace(L)
  <2>1. Written(text, duration, list) = Room(L) \o B
    BY <1>7 DEF Written, Block, Spelling, NoPlace, Room
  <2>2. Before(L) = Room(L) /\ After(L) = <<>>
    BY <1>7 DEF Before, After
  <2>3. (Room(L) \o B) \o <<>> = Room(L) \o B
    <3> HIDE DEF L, B
    <3>1. Room(L) \o B \in Seq(Line)
      BY <1>2, <2>2, ConcatProperties DEF Texts
    <3> QED BY <3>1, ConcatEmptySeq
  <2> QED BY <2>1, <2>2, <2>3
<1> QED BY <1>3, <1>4, <1>5, <1>6, <1>7 DEF NoPlace

-----------------------------------------------------------------------------
(* What is written, without its marker.                                      *)

Bare(text, duration) == Before(text) \o <<Spelling(text, duration)>> \o After(text)
Spot(text) == Len(Before(text)) + 1

LEMMA Joined ==
  ASSUME NEW a \in Texts, NEW b \in Texts, NEW c \in Texts
  PROVE  /\ a \o b \o c \in Texts /\ Len(a \o b \o c) = Len(a) + Len(b) + Len(c)
         /\ \A k \in 1 .. Len(a) : (a \o b \o c)[k] = a[k]
         /\ \A k \in 1 .. Len(b) : (a \o b \o c)[Len(a) + k] = b[k]
         /\ \A k \in 1 .. Len(c) : (a \o b \o c)[Len(a) + Len(b) + k] = c[k]
<1>1. a \in Seq(Line) /\ b \in Seq(Line) /\ c \in Seq(Line)
  BY DEF Texts
<1>2. Len(a) \in Nat /\ Len(b) \in Nat /\ Len(c) \in Nat
  BY IsText
<1>3. /\ a \o b \in Seq(Line) /\ Len(a \o b) = Len(a) + Len(b)
      /\ \A k \in 1 .. Len(a) + Len(b) : (a \o b)[k] = IF k <= Len(a) THEN a[k] ELSE b[k - Len(a)]
  BY <1>1, ConcatProperties
<1> DEFINE ab == a \o b
<1>4. /\ ab \o c \in Seq(Line) /\ Len(ab \o c) = Len(ab) + Len(c)
      /\ \A k \in 1 .. Len(ab) + Len(c) : (ab \o c)[k] = IF k <= Len(ab) THEN ab[k] ELSE c[k - Len(ab)]
  BY <1>1, <1>3, ConcatProperties
<1> HIDE DEF ab
<1>5. \A k \in 1 .. Len(a) : (ab \o c)[k] = a[k]
  BY <1>2, <1>3, <1>4 DEF ab
<1>6. \A k \in 1 .. Len(b) : (ab \o c)[Len(a) + k] = b[k]
  BY <1>2, <1>3, <1>4 DEF ab
<1>7. \A k \in 1 .. Len(c) : (ab \o c)[Len(a) + Len(b) + k] = c[k]
  BY <1>2, <1>3, <1>4 DEF ab
<1> QED BY <1>3, <1>4, <1>5, <1>6, <1>7 DEF ab, Texts

LEMMA RestIs ==
  ASSUME NEW text \in Texts, NEW k \in 0 .. Len(text)
  PROVE  /\ Len(SubSeq(text, k + 1, Len(text))) = Len(text) - k
         /\ \A l \in 1 .. Len(text) - k : SubSeq(text, k + 1, Len(text))[l] = text[k + l]
<1>1. Len(text) \in Nat /\ k \in Nat /\ k + 1 \in Int /\ \A l \in k + 1 .. Len(text) : text[l] \in Line
  BY IsText
<1>2. /\ Len(SubSeq(text, k + 1, Len(text))) = (IF k + 1 <= Len(text) THEN Len(text) - (k + 1) + 1 ELSE 0)
      /\ \A l \in 1 .. Len(text) - (k + 1) + 1 : SubSeq(text, k + 1, Len(text))[l] = text[(k + 1) + l - 1]
  BY <1>1, SubSeqProperties
<1> QED BY <1>1, <1>2

LEMMA Pair ==
  ASSUME NEW S, NEW line \in S, NEW next \in S
  PROVE  <<line>> \o <<next>> = <<line, next>>
<1> DEFINE a == <<line>>
           b == <<next>>
           c == <<line, next>>
<1>1. a \in Seq(S) /\ Len(a) = 1 /\ a[1] = line /\ b \in Seq(S) /\ Len(b) = 1 /\ b[1] = next
  BY OneLine
<1>2. c \in Seq(S) /\ Len(c) = 2 /\ c[1] = line /\ c[2] = next
  BY TwoLines
<1> HIDE DEF a, b, c
<1>3. /\ a \o b \in Seq(S) /\ Len(a \o b) = Len(a) + Len(b)
      /\ \A i \in 1 .. Len(a) + Len(b) : (a \o b)[i] = IF i <= Len(a) THEN a[i] ELSE b[i - Len(a)]
  BY <1>1, ConcatProperties
<1>4. Len(a \o b) = Len(c) /\ \A i \in 1 .. Len(a \o b) : (a \o b)[i] = c[i]
  BY <1>1, <1>2, <1>3
<1>5. a \o b = c
  BY <1>2, <1>3, <1>4, SeqEqual
<1> QED BY <1>5 DEF a, b, c

LEMMA BareIs ==
  ASSUME NEW text \in Texts, NEW duration \in Durations
  PROVE  /\ Bare(text, duration) \in Texts
         /\ Len(Bare(text, duration)) = Spot(text) + Len(After(text))
         /\ Spot(text) \in 1 .. Len(Bare(text, duration))
         /\ Bare(text, duration)[Spot(text)] = Spelling(text, duration)
         /\ \A k \in 1 .. Len(Before(text)) : Bare(text, duration)[k] = Before(text)[k]
         /\ \A k \in 1 .. Len(After(text)) : Bare(text, duration)[Spot(text) + k] = After(text)[k]
<1> DEFINE a == Before(text)
           b == <<Spelling(text, duration)>>
           c == After(text)
<1>1. a \in Texts /\ c \in Texts
  BY Parts
<1>2. b \in Texts /\ Len(b) = 1 /\ b[1] = Spelling(text, duration)
  <2>1. Spelling(text, duration) \in Line
    BY SpellingIs
  <2> QED BY <2>1, OneLine DEF Texts
<1>3. Bare(text, duration) = a \o b \o c /\ Spot(text) = Len(a) + 1
  BY DEF Bare, Spot
<1>4. Len(a) \in Nat /\ Len(c) \in Nat
  BY <1>1, IsText
<1> HIDE DEF a, b, c
<1>5. /\ a \o b \o c \in Texts /\ Len(a \o b \o c) = Len(a) + Len(b) + Len(c)
      /\ \A k \in 1 .. Len(a) : (a \o b \o c)[k] = a[k]
      /\ \A k \in 1 .. Len(b) : (a \o b \o c)[Len(a) + k] = b[k]
      /\ \A k \in 1 .. Len(c) : (a \o b \o c)[Len(a) + Len(b) + k] = c[k]
  BY <1>1, <1>2, Joined
<1>6. (a \o b \o c)[Len(a) + 1] = b[1]
  BY <1>2, <1>5
<1> QED BY <1>2, <1>3, <1>4, <1>5, <1>6 DEF a, c

\* The three ways: the old assignment is replaced,
LEMMA BareInstead ==
  ASSUME NEW text \in Texts, NEW duration \in Durations, locate(text).keyIndex # 0
  PROVE  /\ Spot(text) = locate(text).keyIndex /\ Len(Bare(text, duration)) = Len(text)
         /\ \A k \in 1 .. Len(text) : k # Spot(text) => Bare(text, duration)[k] = text[k]
<1>1. locate(text).keyIndex \in 1 .. Len(text) /\ Len(text) \in Nat
  BY Located, IsText
<1>2. /\ Place(text) = locate(text).keyIndex - 1
      /\ Before(text) = SubSeq(text, 1, Place(text)) /\ After(text) = SubSeq(text, Place(text) + 2, Len(text))
  BY <1>1, Instead DEF Place, NoPlace
<1>3. /\ Len(Before(text)) = Place(text) /\ \A k \in 1 .. Place(text) : Before(text)[k] = text[k]
  BY <1>1, <1>2, IsText, SubSeqProperties
<1>4. /\ Len(After(text)) = Len(text) - Place(text) - 1
      /\ \A k \in 1 .. Len(text) - Place(text) - 1 : After(text)[k] = text[Place(text) + 1 + k]
  <2> DEFINE p == Place(text) + 1
  <2>1. p \in 0 .. Len(text) /\ p = Place(text) + 1 /\ After(text) = SubSeq(text, p + 1, Len(text))
    <3>1. p \in 0 .. Len(text) /\ p + 1 = Place(text) + 2
      BY <1>1, <1>2
    <3> QED BY <1>2, <3>1
  <2> HIDE DEF p
  <2>2. Len(After(text)) = Len(text) - p /\ \A k \in 1 .. Len(text) - p : After(text)[k] = text[p + k]
    BY <2>1, RestIs
  <2> QED BY <1>1, <1>2, <2>1, <2>2
<1>5. Spot(text) = locate(text).keyIndex /\ Place(text) = Spot(text) - 1
  BY <1>1, <1>2, <1>3 DEF Spot
<1>6. Len(Bare(text, duration)) = Len(text)
  BY <1>1, <1>4, <1>5, BareIs
<1>7. ASSUME NEW k \in 1 .. Len(text), k < Spot(text) PROVE Bare(text, duration)[k] = text[k]
  <2>1. k \in 1 .. Len(Before(text)) /\ k \in 1 .. Place(text)
    BY <1>1, <1>3, <1>5, <1>7
  <2> QED BY <1>3, <2>1, BareIs
<1>8. ASSUME NEW k \in 1 .. Len(text), k > Spot(text) PROVE Bare(text, duration)[k] = text[k]
  <2>1. k - Spot(text) \in 1 .. Len(After(text)) /\ Spot(text) + (k - Spot(text)) = k
    BY <1>1, <1>4, <1>5, <1>8
  <2>2. Bare(text, duration)[k] = After(text)[k - Spot(text)]
    BY <2>1, BareIs
  <2>3. After(text)[k - Spot(text)] = text[k]
    BY <1>1, <1>4, <1>5, <2>1
  <2> QED BY <2>2, <2>3
<1> QED BY <1>1, <1>5, <1>6, <1>7, <1>8

\* the new one is put behind a line,
LEMMA BareBehind ==
  ASSUME NEW text \in Texts, NEW duration \in Durations, locate(text).keyIndex = 0, ~NoPlace(text)
  PROVE  /\ Place(text) \in 1 .. Len(text) /\ Spot(text) = Place(text) + 1
         /\ Len(Bare(text, duration)) = Len(text) + 1
         /\ \A k \in 1 .. Place(text) : Bare(text, duration)[k] = text[k]
         /\ \A k \in Place(text) + 1 .. Len(text) : Bare(text, duration)[k + 1] = text[k]
<1>1. Place(text) \in 1 .. Len(text) /\ Len(text) \in Nat
  BY Located, IsText DEF Place, NoPlace
<1>2. Before(text) = SubSeq(text, 1, Place(text)) /\ After(text) = SubSeq(text, Place(text) + 1, Len(text))
  BY Behind
<1>3. /\ Len(Before(text)) = Place(text) /\ \A k \in 1 .. Place(text) : Before(text)[k] = text[k]
  BY <1>1, <1>2, IsText, SubSeqProperties
<1>4. /\ Len(After(text)) = Len(text) - Place(text)
      /\ \A k \in 1 .. Len(text) - Place(text) : After(text)[k] = text[Place(text) + k]
  BY <1>1, <1>2, RestIs
<1>5. Spot(text) = Place(text) + 1
  BY <1>3 DEF Spot
<1>6. Len(Bare(text, duration)) = Len(text) + 1
  BY <1>1, <1>4, <1>5, BareIs
<1>7. \A k \in 1 .. Place(text) : Bare(text, duration)[k] = text[k]
  BY <1>3, BareIs
<1>8. ASSUME NEW k \in Place(text) + 1 .. Len(text) PROVE Bare(text, duration)[k + 1] = text[k]
  <2>1. k - Place(text) \in 1 .. Len(After(text)) /\ Spot(text) + (k - Place(text)) = k + 1
    BY <1>1, <1>4, <1>5
  <2>2. Bare(text, duration)[k + 1] = After(text)[k - Place(text)]
    BY <2>1, BareIs
  <2>3. After(text)[k - Place(text)] = text[k]
    BY <1>1, <1>4, <2>1
  <2> QED BY <2>2, <2>3
<1> QED BY <1>1, <1>5, <1>6, <1>7, <1>8

\* or a table for it is added.
LEMMA RoomIs ==
  ASSUME NEW text \in Texts
  PROVE  \/ Room(text) = text \o <<Header(TABLE, FALSE)>>
         \/ Room(text) = text \o <<Empty, Header(TABLE, FALSE)>>
<1>1. text \in Seq(Line) /\ <<Empty>> \in Seq(Line) /\ <<Header(TABLE, FALSE)>> \in Seq(Line)
  BY FixedLines, OneLine DEF Texts
<1>2. text \o <<>> = text
  BY <1>1, ConcatEmptySeq
<1>3. <<Empty>> \o <<Header(TABLE, FALSE)>> = <<Empty, Header(TABLE, FALSE)>>
  BY FixedLines, Pair
<1>4. (text \o <<Empty>>) \o <<Header(TABLE, FALSE)>> = text \o (<<Empty>> \o <<Header(TABLE, FALSE)>>)
  BY <1>1, ConcatAssociative
<1>5. CASE text # <<>> /\ Last(text) # Empty
  <2>1. Room(text) = (text \o <<Empty>>) \o <<Header(TABLE, FALSE)>>
    BY <1>5 DEF Room
  <2> QED BY <1>3, <1>4, <2>1
<1>6. CASE ~(text # <<>> /\ Last(text) # Empty)
  <2>1. Room(text) = (text \o <<>>) \o <<Header(TABLE, FALSE)>>
    BY <1>6, Zenon DEF Room
  <2> QED BY <1>2, <2>1
<1> QED BY <1>5, <1>6

LEMMA BareAtEnd ==
  ASSUME NEW text \in Texts, NEW duration \in Durations, NoPlace(text)
  PROVE  /\ Len(Bare(text, duration)) = Spot(text)
         /\ Spot(text) \in Nat /\ Len(text) + 1 < Spot(text)
         /\ \A k \in 1 .. Len(text) : Bare(text, duration)[k] = text[k]
         /\ Bare(text, duration)[Spot(text) - 1] = Header(TABLE, FALSE)
         /\ \A k \in Len(text) + 1 .. Spot(text) - 2 : Bare(text, duration)[k] = Empty
<1>1. Len(text) \in Nat /\ Before(text) = Room(text) /\ After(text) = <<>> /\ Len(After(text)) = 0
  BY IsText DEF Before, After
<1>2. text \in Seq(Line) /\ Empty \in Line /\ Header(TABLE, FALSE) \in Line
  BY FixedLines DEF Texts
<1>3. /\ Len(Room(text)) \in Nat /\ Len(text) < Len(Room(text))
      /\ \A k \in 1 .. Len(text) : Room(text)[k] = text[k]
      /\ Room(text)[Len(Room(text))] = Header(TABLE, FALSE)
      /\ \A k \in Len(text) + 1 .. Len(Room(text)) - 1 : Room(text)[k] = Empty
  <2>1. CASE Room(text) = text \o <<Header(TABLE, FALSE)>>
    <3> DEFINE end == <<Header(TABLE, FALSE)>>
    <3>1. end \in Seq(Line) /\ Len(end) = 1 /\ end[1] = Header(TABLE, FALSE)
      BY <1>2, OneLine
    <3> HIDE DEF end
    <3>2. /\ Len(text \o end) = Len(text) + Len(end)
          /\ \A i \in 1 .. Len(text) + Len(end) :
               (text \o end)[i] = IF i <= Len(text) THEN text[i] ELSE end[i - Len(text)]
      BY <1>2, <3>1, ConcatProperties
    <3>3. Room(text) = text \o end
      BY <2>1 DEF end
    <3>4. Len(Room(text)) = Len(text) + Len(end)
      BY <3>2, <3>3
    <3>5. \A k \in 1 .. Len(text) : Room(text)[k] = text[k]
      BY <1>1, <3>1, <3>2, <3>3
    <3>6. \A k \in 1 .. Len(end) : Room(text)[Len(text) + k] = end[k]
      BY <1>1, <3>1, <3>2, <3>3
    <3>7. Room(text)[Len(Room(text))] = Header(TABLE, FALSE)
      <4>1. Len(end) \in 1 .. Len(end) /\ end[Len(end)] = Header(TABLE, FALSE)
        BY <3>1
      <4>2. Room(text)[Len(text) + Len(end)] = end[Len(end)]
        BY <3>6, <4>1
      <4> QED BY <3>4, <4>1, <4>2
    <3>8. ASSUME NEW k \in Len(text) + 1 .. Len(Room(text)) - 1 PROVE Room(text)[k] = Empty
      <4>1. FALSE
        BY <1>1, <3>1, <3>4
      <4> QED BY <4>1
    <3>9. Len(Room(text)) \in Nat /\ Len(text) < Len(Room(text))
      BY <1>1, <3>1, <3>4
    <3> QED BY <3>5, <3>7, <3>8, <3>9
  <2>2. CASE Room(text) = text \o <<Empty, Header(TABLE, FALSE)>>
    <3> DEFINE end == <<Empty, Header(TABLE, FALSE)>>
    <3>1. end \in Seq(Line) /\ Len(end) = 2 /\ end[1] = Empty /\ end[2] = Header(TABLE, FALSE)
      BY <1>2, TwoLines
    <3> HIDE DEF end
    <3>2. /\ Len(text \o end) = Len(text) + Len(end)
          /\ \A i \in 1 .. Len(text) + Len(end) :
               (text \o end)[i] = IF i <= Len(text) THEN text[i] ELSE end[i - Len(text)]
      BY <1>2, <3>1, ConcatProperties
    <3>3. Room(text) = text \o end
      BY <2>2 DEF end
    <3>4. Len(Room(text)) = Len(text) + Len(end)
      BY <3>2, <3>3
    <3>5. \A k \in 1 .. Len(text) : Room(text)[k] = text[k]
      BY <1>1, <3>1, <3>2, <3>3
    <3>6. \A k \in 1 .. Len(end) : Room(text)[Len(text) + k] = end[k]
      BY <1>1, <3>1, <3>2, <3>3
    <3>7. Room(text)[Len(Room(text))] = Header(TABLE, FALSE)
      <4>1. Len(end) \in 1 .. Len(end) /\ end[Len(end)] = Header(TABLE, FALSE)
        BY <3>1
      <4>2. Room(text)[Len(text) + Len(end)] = end[Len(end)]
        BY <3>6, <4>1
      <4> QED BY <3>4, <4>1, <4>2
    <3>8. ASSUME NEW k \in Len(text) + 1 .. Len(Room(text)) - 1 PROVE Room(text)[k] = Empty
      <4>1. k = Len(text) + 1 /\ Len(end) = 2
        BY <1>1, <3>1, <3>4
      <4> QED BY <3>1, <3>6, <4>1
    <3>9. Len(Room(text)) \in Nat /\ Len(text) < Len(Room(text))
      BY <1>1, <3>1, <3>4
    <3> QED BY <3>5, <3>7, <3>8, <3>9
  <2> QED BY <2>1, <2>2, RoomIs
<1>4. Spot(text) = Len(Room(text)) + 1
  BY <1>1 DEF Spot
<1>5. Len(Bare(text, duration)) = Spot(text)
  BY <1>1, <1>3, <1>4, BareIs
<1>6. \A k \in 1 .. Len(Room(text)) : Bare(text, duration)[k] = Room(text)[k]
  BY <1>1, BareIs
<1>7. Spot(text) \in Nat /\ Len(text) + 1 < Spot(text)
  BY <1>1, <1>3, <1>4
<1>8. \A k \in 1 .. Len(text) : Bare(text, duration)[k] = text[k]
  BY <1>1, <1>3, <1>6
<1>9. Bare(text, duration)[Spot(text) - 1] = Header(TABLE, FALSE)
  <2>1. Spot(text) - 1 = Len(Room(text)) /\ Len(Room(text)) \in 1 .. Len(Room(text))
    BY <1>1, <1>3, <1>4
  <2> QED BY <1>3, <1>6, <2>1
<1>10. \A k \in Len(text) + 1 .. Spot(text) - 2 : Bare(text, duration)[k] = Empty
  BY <1>1, <1>3, <1>4, <1>6
<1> QED BY <1>5, <1>7, <1>8, <1>9, <1>10
-----------------------------------------------------------------------------
(* Tables, line by line.                                                     *)

LEMMA TableAtIs ==
  ASSUME NEW text \in Texts, NEW k \in 1 .. Len(text)
  PROVE  \E t \in 0 .. k :
           /\ TableAt(text, k) = IF t = 0 THEN "" ELSE text[t].table
           /\ t # 0 => tableOf(text[t])
           /\ \A l \in 1 .. k : tableOf(text[l]) => l <= t
<1> DEFINE S == {l \in 1 .. k : tableOf(text[l])}
<1>1. k \in Nat /\ S \in Indexes(k)
  BY IsText DEF Indexes
<1>2. TableAt(text, k) = IF LastOf(S) = 0 THEN "" ELSE text[LastOf(S)].table
  BY DEF TableAt
<1>3. LastOf(S) \in 0 .. k /\ (LastOf(S) # 0 => LastOf(S) \in S) /\ \A l \in S : l <= LastOf(S)
  <2> HIDE DEF S
  <2> QED BY <1>1, LastOfIs
<1> QED BY <1>2, <1>3

LEMMA AtHeader ==
  ASSUME NEW text \in Texts, NEW k \in 1 .. Len(text)
  PROVE  /\ tableOf(text[k]) => TableAt(text, k) = text[k].table
         /\ text[k].kind = "table" => Section(text, k) = k
<1>1. k \in Nat /\ k # 0
  BY IsText
<1>2. PICK t \in 0 .. k : /\ TableAt(text, k) = IF t = 0 THEN "" ELSE text[t].table
                          /\ \A l \in 1 .. k : tableOf(text[l]) => l <= t
  BY TableAtIs
<1>3. tableOf(text[k]) => TableAt(text, k) = text[k].table
  <2> SUFFICES ASSUME tableOf(text[k]) PROVE TableAt(text, k) = text[k].table
    OBVIOUS
  <2>1. k \in 1 .. k
    BY <1>1
  <2>2. k <= t
    BY <1>2, <2>1
  <2>3. t = k
    BY <1>1, <2>2
  <2> QED BY <1>1, <1>2, <2>3
<1>4. text[k].kind = "table" => Section(text, k) = k
  BY <1>1, SectionIs
<1> QED BY <1>3, <1>4

LEMMA NextLine ==
  ASSUME NEW text \in Texts, NEW k \in 1 .. Len(text) - 1, text[k + 1].kind # "table"
  PROVE  TableAt(text, k + 1) = TableAt(text, k) /\ Section(text, k + 1) = Section(text, k)
<1>1. Len(text) \in Nat /\ k \in Nat
  BY IsText
<1>2. 1 .. k + 1 = (1 .. k) \union {k + 1}
  BY <1>1
<1>3. {l \in 1 .. k + 1 : tableOf(text[l])} = {l \in 1 .. k : tableOf(text[l])}
  BY <1>2 DEF tableOf
<1>4. {l \in 1 .. k + 1 : text[l].kind = "table"} = {l \in 1 .. k : text[l].kind = "table"}
  BY <1>2
<1>5. TableAt(text, k + 1) = TableAt(text, k)
  BY <1>3, Zenon DEF TableAt
<1>6. Section(text, k + 1) = Section(text, k)
  BY <1>4, Zenon DEF Section
<1> QED BY <1>5, <1>6

\* In a file without commented headers locate sees the tables cargo sees.
LEMMA TablesAgree ==
  ASSUME NEW text \in Texts, Recognised(text), NEW k \in 1 .. Len(text)
  PROVE  /\ TableAt(text, k) = IF Section(text, k) = 0 THEN "" ELSE text[Section(text, k)].table
         /\ TopLevel(text, k) <=> TableAt(text, k) = ""
         /\ InTable(text, k, TABLE) <=> TableAt(text, k) = TABLE
<1>1. \A l \in 1 .. Len(text) : tableOf(text[l]) <=> text[l].kind = "table"
  BY IsText DEF Recognised, tableOf
<1>2. PICK t \in 0 .. k : /\ TableAt(text, k) = IF t = 0 THEN "" ELSE text[t].table
                          /\ t # 0 => tableOf(text[t])
                          /\ \A l \in 1 .. k : tableOf(text[l]) => l <= t
  BY TableAtIs
<1>3. /\ Section(text, k) \in 0 .. k
      /\ Section(text, k) # 0 => text[Section(text, k)].kind = "table"
      /\ \A l \in 1 .. k : text[l].kind = "table" => l <= Section(text, k) /\ Section(text, k) # 0
  BY SectionIs
<1>4. Len(text) \in Nat /\ k \in 1 .. Len(text)
  BY IsText
<1>5. t = Section(text, k)
  <2> DEFINE c == Section(text, k)
  <2>1. \A l \in 1 .. k : l \in 1 .. Len(text)
    BY <1>4
  <2>2. c # 0 => c \in 1 .. k /\ c <= t
    <3>1. c # 0 => c \in 1 .. k
      BY <1>3
    <3> QED BY <1>1, <1>2, <1>3, <2>1, <3>1
  <2>3. t # 0 => t \in 1 .. k /\ t <= c /\ c # 0
    <3>1. t # 0 => t \in 1 .. k
      OBVIOUS
    <3> QED BY <1>1, <1>2, <1>3, <2>1, <3>1
  <2>4. c \in 0 .. k
    BY <1>3
  <2> HIDE DEF c
  <2>5. t = c
    BY <2>2, <2>3, <2>4
  <2> QED BY <2>5 DEF c
<1>6. Section(text, k) # 0 => text[Section(text, k)].table # ""
  <2>1. Section(text, k) # 0 => Section(text, k) \in 1 .. Len(text)
    BY <1>3, <1>4
  <2> QED BY <1>3, <2>1, IsText, LinesAre DEF IsLine
<1>7. TABLE # ""
  BY DEF TABLE
<1> QED BY <1>2, <1>5, <1>6, <1>7 DEF TopLevel, InTable

-----------------------------------------------------------------------------
(* The reader: what locate takes for the key is the key cargo uses.          *)

LEMMA SameKeys ==
  ASSUME NEW text \in Texts, Recognised(text)
  PROVE  CargoKeys(text) = Keys(text)
<1>1. DOMAIN text = 1 .. Len(text)
  BY IsText
<1>2. ASSUME NEW k \in 1 .. Len(text) PROVE k \in CargoKeys(text) <=> k \in Keys(text)
  BY <1>1, TablesAgree DEF CargoKeys, Keys, DottedAtTop
<1> QED BY <1>1, <1>2 DEF CargoKeys, Keys

LEMMA OneKey ==
  ASSUME NEW text \in Texts, Recognised(text), Loads(text), NEW k \in Keys(text), NEW l \in Keys(text)
  PROVE  k = l
<1>1. /\ DOMAIN text = 1 .. Len(text) /\ k \in 1 .. Len(text) /\ l \in 1 .. Len(text)
      /\ text[k].name = BARE_KEY /\ text[l].name = BARE_KEY
  BY IsText DEF Keys
<1> DEFINE OfDotted(i) == i \in DottedAtTop(text) /\ Section(text, i) = 0
           OfTable(i) == /\ text[i].kind = "key" /\ text[i].table = ""
                         /\ Section(text, i) \in Headers(text)
<1>2. ASSUME NEW i \in Keys(text) PROVE OfDotted(i) \/ OfTable(i)
  <2>1. i \in 1 .. Len(text)
    BY IsText DEF Keys
  <2>2. CASE text[i].kind = "dotted" /\ text[i].table = TABLE /\ TableAt(text, i) = ""
    BY <1>1, <2>1, <2>2, TablesAgree DEF DottedAtTop, TopLevel
  <2>3. CASE text[i].kind = "key" /\ TableAt(text, i) = TABLE
    <3>1. InTable(text, i, TABLE)
      BY <2>1, <2>3, TablesAgree
    <3>2. Section(text, i) \in 1 .. Len(text) /\ text[Section(text, i)].kind = "table"
      BY <2>1, <3>1, SectionIs, IsText DEF InTable, TopLevel
    <3>3. text[i].table = ""
      BY <2>1, <2>3, IsText, LinesAre DEF IsLine
    <3> QED BY <1>1, <2>3, <3>1, <3>2, <3>3 DEF Headers, InTable
  <2> QED BY <2>2, <2>3 DEF Keys
<1>3. (OfDotted(k) \/ OfTable(k)) /\ (OfDotted(l) \/ OfTable(l))
  BY <1>2
<1>4. CASE OfDotted(k) /\ OfDotted(l)
  BY <1>1, <1>4 DEF Loads, DottedAtTop
<1>5. CASE OfTable(k) /\ OfTable(l)
  <2>1. Section(text, k) = Section(text, l)
    BY <1>5 DEF Loads
  <2> QED BY <1>1, <1>5, <2>1 DEF Loads
<1>6. CASE OfDotted(k) /\ OfTable(l)
  BY <1>6 DEF Loads
<1>7. CASE OfTable(k) /\ OfDotted(l)
  BY <1>7 DEF Loads
<1> QED BY <1>3, <1>4, <1>5, <1>6, <1>7

LEMMA ReaderIsRightOn ==
  ASSUME NEW text \in Texts, Recognised(text), Loads(text)
  PROVE  Settings(text) = (IF locate(text).keyIndex = 0 THEN {} ELSE {value(text)})
<1>1. Settings(text) = {text[k].value : k \in Keys(text)}
  BY SettingsAre, SameKeys
<1>2. CASE locate(text).keyIndex = 0
  <2>1. Keys(text) = {}
    BY <1>2, Located
  <2> QED BY <1>1, <1>2, <2>1
<1>3. CASE locate(text).keyIndex # 0
  <2>1. locate(text).keyIndex \in Keys(text)
    BY <1>3, Located
  <2>2. Keys(text) = {locate(text).keyIndex}
    BY <2>1, OneKey
  <2>3. value(text) = text[locate(text).keyIndex].value
    BY <1>3, Zenon DEF value
  <2> QED BY <1>1, <1>3, <2>2, <2>3
<1> QED BY <1>2, <1>3
-----------------------------------------------------------------------------
(* An assignment that was not there.                                         *)

\* The lines of one text are in the other one, which has the new assignment in line q
\* and maybe a header and an empty line for it.
Inserted(f, text, other, q) ==
  /\ Embeds(f, text, other)
  /\ \A k \in 1 .. Len(text) : /\ other[f[k]] = text[k] /\ f[k] # q
                               /\ SameHeaders(f, text, other, k)
  /\ q \in 1 .. Len(other) /\ other[q].kind \in {"key", "dotted"} /\ other[q].name = BARE_KEY
  /\ ~other[q].noted
  /\ \A l \in 1 .. Len(other) : \/ l = q \/ \E k \in 1 .. Len(text) : f[k] = l
                                \/ other[l] \in {Empty, Header(TABLE, FALSE)}

LEMMA InsertedMeaning ==
  ASSUME NEW text \in Texts, NEW other \in Texts, NEW f, NEW q, Inserted(f, text, other, q)
  PROVE  \A k \in 1 .. Len(text) :
              /\ f[k] \in 1 .. Len(other)
              /\ f[k] \in Keys(other) <=> k \in Keys(text)
              /\ f[k] \in Headers(other) <=> k \in Headers(text)
              /\ f[k] \in Inline(other) <=> k \in Inline(text)
              /\ f[k] \in DottedAtTop(other) <=> k \in DottedAtTop(text)
<1> SUFFICES ASSUME NEW k \in 1 .. Len(text)
             PROVE  /\ f[k] \in 1 .. Len(other)
                    /\ f[k] \in Keys(other) <=> k \in Keys(text)
                    /\ f[k] \in Headers(other) <=> k \in Headers(text)
                    /\ f[k] \in Inline(other) <=> k \in Inline(text)
                    /\ f[k] \in DottedAtTop(other) <=> k \in DottedAtTop(text)
  OBVIOUS
<1>1. Embeds(f, text, other) /\ SameHeaders(f, text, other, k) /\ Alike(text[k], other[f[k]])
  BY DEF Inserted, Alike
<1> QED BY <1>1, SameMeaning

LEMMA InsertedKey ==
  ASSUME NEW text \in Texts, NEW other \in Texts, NEW f, NEW q, Inserted(f, text, other, q),
         Keys(text) = {}, q \in Keys(other)
  PROVE  Keys(other) = {q} /\ locate(other).keyIndex = q
<1>1. ASSUME NEW l \in Keys(other) PROVE l = q
  <2>1. l \in 1 .. Len(other) /\ other[l].kind \in {"key", "dotted"}
    BY IsText DEF Keys
  <2>2. other[l] \notin {Empty, Header(TABLE, FALSE)}
    BY <2>1, FixedLines
  <2>3. l = q \/ \E k \in 1 .. Len(text) : f[k] = l
    BY <2>1, <2>2 DEF Inserted
  <2>4. \A k \in 1 .. Len(text) : f[k] \notin Keys(other)
    BY InsertedMeaning
  <2> QED BY <2>3, <2>4
<1>2. Keys(other) = {q}
  BY <1>1
<1> QED BY <1>2, Located

LEMMA InsertedRecognised ==
  ASSUME NEW text \in Texts, NEW other \in Texts, NEW f, NEW q, Inserted(f, text, other, q),
         Recognised(other)
  PROVE  Recognised(text)
<1>1. DOMAIN text = 1 .. Len(text) /\ DOMAIN other = 1 .. Len(other)
  BY IsText
<1>2. \A k \in Inline(text) : k \in 1 .. Len(text) /\ f[k] \in Inline(other)
  <2>1. \A k \in Inline(text) : k \in 1 .. Len(text)
    BY <1>1 DEF Inline
  <2> QED BY <2>1, InsertedMeaning
<1>3. \A k \in 1 .. Len(text) : ~text[k].noted
  <2>1. \A k \in 1 .. Len(text) : f[k] \in 1 .. Len(other) /\ other[f[k]] = text[k]
    BY InsertedMeaning DEF Inserted
  <2> QED BY <1>1, <2>1 DEF Recognised
<1> QED BY <1>1, <1>2, <1>3 DEF Recognised

LEMMA InsertedUnmarked ==
  ASSUME NEW text \in Texts, NEW other \in Texts, NEW f, NEW q, Inserted(f, text, other, q),
         \A k \in 1 .. Len(text) : ~IsMarker(text[k]), NEW l \in 1 .. Len(other)
  PROVE  ~IsMarker(other[l])
<1>1. CASE l = q
  BY <1>1 DEF Inserted, IsMarker
<1>2. CASE \E k \in 1 .. Len(text) : f[k] = l
  BY <1>2 DEF Inserted
<1>3. CASE other[l] \in {Empty, Header(TABLE, FALSE)}
  BY <1>3, FixedLines
<1> QED BY <1>1, <1>2, <1>3 DEF Inserted

Shift(text) == [k \in 1 .. Len(text) |-> IF k <= Place(text) THEN k ELSE k + 1]

LEMMA Shifts ==
  ASSUME NEW text \in Texts, NEW duration \in Durations, locate(text).keyIndex = 0, ~NoPlace(text)
  PROVE  /\ Inserted(Shift(text), text, Bare(text, duration), Spot(text))
         /\ \A l \in 1 .. Len(Bare(text, duration)) :
              l = Spot(text) \/ \E k \in 1 .. Len(text) : Shift(text)[k] = l
<1> DEFINE other == Bare(text, duration)
           f == Shift(text)
           p == Place(text)
           q == Spot(text)
<1>1. /\ p \in 1 .. Len(text) /\ q = p + 1 /\ Len(text) \in Nat /\ Len(other) = Len(text) + 1
      /\ \A k \in 1 .. p : other[k] = text[k]
      /\ \A k \in p + 1 .. Len(text) : other[k + 1] = text[k]
  BY BareBehind, IsText
<1>2. other[q] = Spelling(text, duration)
  BY BareIs
<1>3. /\ other[q].kind \in {"key", "dotted"} /\ other[q].name = BARE_KEY /\ ~other[q].noted
  <2>1. /\ Spelling(text, duration).kind \in {"key", "dotted"}
        /\ Spelling(text, duration).name = BARE_KEY /\ ~Spelling(text, duration).noted
    BY SpellingIs
  <2> HIDE DEF other, q
  <2> QED BY <1>2, <2>1
<1>4. \A k \in 1 .. Len(text) : f[k] = IF k <= p THEN k ELSE k + 1
  BY DEF Shift
<1>5. f \in [1 .. Len(text) -> 1 .. Len(other)]
  BY <1>1 DEF Shift
<1> HIDE DEF f, other, p, q
<1>6. \A k \in 1 .. Len(text) : other[f[k]] = text[k] /\ f[k] # q
  BY <1>1, <1>4
<1>7. \A k, l \in 1 .. Len(text) : k < l => f[k] < f[l]
  BY <1>1, <1>4
<1>8. ASSUME NEW l \in 1 .. Len(other), l # q PROVE \E k \in 1 .. Len(text) : f[k] = l
  <2>1. CASE l <= p
    BY <1>1, <1>4, <2>1
  <2>2. CASE l > p
    <3>1. l - 1 \in 1 .. Len(text) /\ ~(l - 1 <= p) /\ (l - 1) + 1 = l
      BY <1>1, <1>8, <2>2
    <3>2. f[l - 1] = l
      BY <1>4, <3>1
    <3> QED BY <3>1, <3>2
  <2> QED BY <1>1, <2>1, <2>2
<1>9. ASSUME NEW k \in 1 .. Len(text) PROVE SameHeaders(f, text, other, k)
  <2>1. f[k] \in 1 .. Len(other) /\ Len(other) \in Nat
    BY <1>1, <1>5
  <2>2. \A l \in 1 .. f[k] : l \in 1 .. Len(other) /\ (other[l].kind = "table" => l # q)
    BY <1>3, <2>1
  <2> QED BY <1>6, <1>8, <2>2 DEF SameHeaders
<1>10. q \in 1 .. Len(other)
  BY <1>1
<1>11. Inserted(f, text, other, q)
  BY <1>3, <1>5, <1>6, <1>7, <1>8, <1>9, <1>10 DEF Inserted, Embeds
<1> QED BY <1>8, <1>11 DEF f, other, q

Stay(text) == [k \in 1 .. Len(text) |-> k]

LEMMA Stays ==
  ASSUME NEW text \in Texts, NEW duration \in Durations, NoPlace(text)
  PROVE  Inserted(Stay(text), text, Bare(text, duration), Spot(text))
<1> DEFINE other == Bare(text, duration)
           f == Stay(text)
           q == Spot(text)
<1>1. /\ Len(other) = q /\ q \in Nat /\ Len(text) + 1 < q /\ Len(text) \in Nat
      /\ \A k \in 1 .. Len(text) : other[k] = text[k]
      /\ other[q - 1] = Header(TABLE, FALSE)
      /\ \A k \in Len(text) + 1 .. q - 2 : other[k] = Empty
  BY BareAtEnd, IsText
<1>2. other[q] = Spelling(text, duration)
  BY BareIs
<1>3. /\ other[q].kind \in {"key", "dotted"} /\ other[q].name = BARE_KEY /\ ~other[q].noted
  <2>1. /\ Spelling(text, duration).kind \in {"key", "dotted"}
        /\ Spelling(text, duration).name = BARE_KEY /\ ~Spelling(text, duration).noted
    BY SpellingIs
  <2> HIDE DEF other, q
  <2> QED BY <1>2, <2>1
<1>4. \A k \in 1 .. Len(text) : f[k] = k
  BY DEF Stay
<1>5. f \in [1 .. Len(text) -> 1 .. Len(other)]
  BY <1>1 DEF Stay
<1> HIDE DEF f, other, q
<1>6. \A k \in 1 .. Len(text) : other[f[k]] = text[k] /\ f[k] # q
  BY <1>1, <1>4
<1>7. \A k, l \in 1 .. Len(text) : k < l => f[k] < f[l]
  BY <1>4
<1>8. ASSUME NEW l \in 1 .. Len(other), l # q
      PROVE  (\E k \in 1 .. Len(text) : f[k] = l) \/ other[l] \in {Empty, Header(TABLE, FALSE)}
  <2>1. CASE l <= Len(text)
    <3>1. l \in 1 .. Len(text)
      BY <1>1, <2>1
    <3> QED BY <1>4, <3>1
  <2>2. CASE l = q - 1
    BY <1>1, <2>2
  <2>3. CASE ~(l <= Len(text)) /\ l # q - 1
    <3>1. l \in Len(text) + 1 .. q - 2
      BY <1>1, <1>8, <2>3
    <3> QED BY <1>1, <3>1
  <2> QED BY <2>1, <2>2, <2>3
<1>9. ASSUME NEW k \in 1 .. Len(text) PROVE SameHeaders(f, text, other, k)
  <2>1. \A l \in 1 .. f[k] : l \in 1 .. Len(text) /\ f[l] = l
    BY <1>1, <1>4
  <2> QED BY <1>6, <2>1 DEF SameHeaders
<1>10. q \in 1 .. Len(other)
  BY <1>1
<1>11. Inserted(f, text, other, q)
  BY <1>3, <1>5, <1>6, <1>7, <1>8, <1>9, <1>10 DEF Inserted, Embeds
<1> QED BY <1>11 DEF f, other, q
\* Into the table it goes behind the header,
LEMMA UnderHeader ==
  ASSUME NEW text \in Texts, NEW duration \in Durations, locate(text).keyIndex = 0,
         locate(text).tableIndex # 0 \/ NoPlace(text)
  PROVE  LET other == Bare(text, duration)
             q == Spot(text)
         IN  /\ q - 1 \in 1 .. Len(other) - 1
             /\ other[q - 1].kind = "table" /\ other[q - 1].table = TABLE
             /\ other[q].kind = "key" /\ other[q].table = "" /\ q \in Keys(other)
             /\ Section(other, q) = q - 1 /\ TableAt(other, q) = TABLE
<1> DEFINE other == Bare(text, duration)
           q == Spot(text)
<1>1. other \in Texts /\ q \in 1 .. Len(other) /\ other[q] = Spelling(text, duration)
  BY BareIs
<1>2. q - 1 \in 1 .. Len(other) - 1 /\ tableOf(other[q - 1]) /\ other[q - 1].table = TABLE
  <2>1. CASE NoPlace(text)
    <3>1. /\ Len(other) = q /\ q \in Nat /\ Len(text) + 1 < q /\ Len(text) \in Nat
          /\ other[q - 1] = Header(TABLE, FALSE)
      BY <2>1, BareAtEnd, IsText
    <3>2. tableOf(Header(TABLE, FALSE)) /\ Header(TABLE, FALSE).table = TABLE
      BY FixedLines DEF tableOf
    <3> HIDE DEF other, q
    <3>3. q - 1 \in 1 .. Len(other) - 1
      BY <3>1
    <3>4. tableOf(other[q - 1]) /\ other[q - 1].table = TABLE
      BY <3>1, <3>2
    <3> QED BY <3>3, <3>4
  <2>2. CASE locate(text).tableIndex # 0 /\ ~NoPlace(text)
    <3>1. locate(text).tableIndex \in 0 .. Len(text) /\ Len(text) \in Nat
      BY Located, IsText
    <3>2. Place(text) = locate(text).tableIndex
      <4>1. locate(text).tableIndex > 0 /\ ~(locate(text).keyIndex > 0)
        BY <2>2, <3>1
      <4> QED BY <4>1, Zenon DEF Place
    <3>3. tableOf(text[Place(text)]) /\ text[Place(text)].table = TABLE
      BY <2>2, <3>2, Located
    <3>4. /\ Place(text) \in 1 .. Len(text) /\ q = Place(text) + 1 /\ Len(other) = Len(text) + 1
          /\ other[Place(text)] = text[Place(text)]
      BY <2>2, BareBehind
    <3> HIDE DEF other, q
    <3>5. q - 1 = Place(text)
      BY <3>1, <3>4
    <3> QED BY <3>1, <3>3, <3>4, <3>5
  <2> QED BY <2>1, <2>2
<1>3. other[q].kind = "key" /\ other[q].table = "" /\ other[q].name = BARE_KEY
  <2>1. ~dotted(locate(text), text)
    <3>1. ~(locate(text).keyIndex > 0) /\ (locate(text).tableIndex # 0 \/ ~(locate(text).lastDottedIndex > 0))
      BY DEF NoPlace
    <3> QED BY <3>1 DEF dotted
  <2>2. /\ Spelling(text, duration).kind = "key" /\ Spelling(text, duration).table = ""
        /\ Spelling(text, duration).name = BARE_KEY
    BY <2>1, SpellingIs
  <2> HIDE DEF other, q
  <2> QED BY <1>1, <2>2
<1> HIDE DEF other, q
<1>4. (q - 1) + 1 = q /\ q - 1 \in 1 .. Len(other)
  BY <1>1, <1>2, IsText
<1>5. TableAt(other, q - 1) = TABLE /\ Section(other, q - 1) = q - 1
  BY <1>1, <1>2, <1>4, AtHeader DEF tableOf
<1>6. TableAt(other, (q - 1) + 1) = TableAt(other, q - 1) /\ Section(other, (q - 1) + 1) = Section(other, q - 1)
  <2>1. other[(q - 1) + 1].kind # "table"
    BY <1>3, <1>4
  <2> QED BY <1>1, <1>2, <2>1, NextLine
<1>7. TableAt(other, q) = TABLE /\ Section(other, q) = q - 1
  BY <1>4, <1>5, <1>6
<1>8. q \in Keys(other)
  BY <1>1, <1>3, <1>7, IsText DEF Keys
<1> QED BY <1>2, <1>3, <1>7, <1>8 DEF other, q, tableOf

\* and the dotted spelling goes behind another dotted line of the table.
LEMMA UnderDotted ==
  ASSUME NEW text \in Texts, NEW duration \in Durations, locate(text).keyIndex = 0,
         locate(text).tableIndex = 0, locate(text).lastDottedIndex # 0
  PROVE  LET other == Bare(text, duration)
             q == Spot(text)
             p == locate(text).lastDottedIndex
         IN  /\ ~NoPlace(text) /\ p \in AnyDotted(text)
             /\ other[q].kind = "dotted" /\ other[q].table = TABLE /\ q \in Keys(other)
             /\ Section(text, p) = 0 => Section(other, q) = 0
<1> DEFINE other == Bare(text, duration)
           q == Spot(text)
           p == locate(text).lastDottedIndex
           f == Shift(text)
<1>1. other \in Texts /\ q \in 1 .. Len(other) /\ other[q] = Spelling(text, duration)
  BY BareIs
<1>2. ~NoPlace(text) /\ p \in AnyDotted(text) /\ p \in 1 .. Len(text) /\ Len(text) \in Nat
  BY Located, IsText DEF NoPlace
<1>3. Place(text) = p
  <2>1. ~(locate(text).tableIndex > 0) /\ ~(locate(text).keyIndex > 0)
    OBVIOUS
  <2> QED BY <2>1, Zenon DEF Place
<1>4. q = p + 1 /\ Len(other) = Len(text) + 1
  BY <1>2, <1>3, BareBehind
<1>5. other[q].kind = "dotted" /\ other[q].table = TABLE /\ other[q].name = BARE_KEY
  <2>1. dotted(locate(text), text)
    <3>1. ~(locate(text).keyIndex > 0) /\ locate(text).lastDottedIndex > 0
      BY <1>2
    <3> QED BY <3>1 DEF dotted
  <2>2. /\ Spelling(text, duration).kind = "dotted" /\ Spelling(text, duration).table = TABLE
        /\ Spelling(text, duration).name = BARE_KEY
    BY <2>1, SpellingIs
  <2> HIDE DEF other, q
  <2> QED BY <1>1, <2>2
<1>6. Inserted(f, text, other, q)
  BY <1>2, Shifts
<1>7. f[p] = p
  BY <1>2, <1>3 DEF Shift
<1> HIDE DEF other, q, p, f
<1>8. TableAt(text, p) = ""
  BY <1>2 DEF AnyDotted
<1>9. /\ Section(other, p) = (IF Section(text, p) = 0 THEN 0 ELSE f[Section(text, p)])
      /\ TableAt(other, p) = ""
  <2>1. Embeds(f, text, other) /\ SameHeaders(f, text, other, p)
    BY <1>2, <1>6 DEF Inserted
  <2>2. /\ Section(other, f[p]) = (IF Section(text, p) = 0 THEN 0 ELSE f[Section(text, p)])
        /\ TableAt(other, f[p]) = TableAt(text, p)
    BY <1>1, <1>2, <2>1, SameSection
  <2> QED BY <1>7, <1>8, <2>2
<1>10. TableAt(other, p + 1) = TableAt(other, p) /\ Section(other, p + 1) = Section(other, p)
  <2>1. p \in 1 .. Len(other) - 1 /\ other[p + 1].kind # "table"
    BY <1>2, <1>4, <1>5
  <2> QED BY <1>1, <2>1, NextLine
<1>11. q \in Keys(other)
  BY <1>1, <1>4, <1>5, <1>9, <1>10, IsText DEF Keys
<1> QED BY <1>2, <1>4, <1>5, <1>9, <1>10, <1>11 DEF other, q, p

LEMMA NewKey ==
  ASSUME NEW text \in Texts, NEW duration \in Durations, locate(text).keyIndex = 0
  PROVE  /\ \E f : Inserted(f, text, Bare(text, duration), Spot(text))
         /\ Spot(text) \in Keys(Bare(text, duration)) /\ Keys(text) = {}
<1>1. Keys(text) = {}
  BY Located
<1>2. \E f : Inserted(f, text, Bare(text, duration), Spot(text))
  BY Shifts, Stays
<1>3. Spot(text) \in Keys(Bare(text, duration))
  BY UnderHeader, UnderDotted DEF NoPlace
<1> QED BY <1>1, <1>2, <1>3

\* An assignment that was there.
LEMMA Replaced ==
  ASSUME NEW text \in Texts, NEW duration \in Durations, locate(text).keyIndex # 0
  PROVE  Moved(Stay(text), text, Bare(text, duration))
<1> DEFINE other == Bare(text, duration)
           q == Spot(text)
<1>1. /\ q = locate(text).keyIndex /\ Len(other) = Len(text)
      /\ \A k \in 1 .. Len(text) : k # q => other[k] = text[k]
  BY BareInstead
<1>2. other[q] = Spelling(text, duration)
  BY BareIs
<1>3. q \in Keys(text) /\ q \in 1 .. Len(text)
  BY <1>1, Located, IsText DEF Keys
<1>4. /\ text[q].name = BARE_KEY /\ (text[q].kind = "dotted" => text[q].table = TABLE)
      /\ text[q].kind \in {"key", "dotted"}
  BY <1>3 DEF Keys
<1>5. text[q].kind # "table" /\ ~text[q].noted /\ (text[q].kind = "key" => text[q].table = "")
  BY <1>3, <1>4, IsText, LinesAre DEF IsLine
<1>6. dotted(locate(text), text) <=> text[q].kind = "dotted"
  <2>1. locate(text).keyIndex > 0
    BY <1>1, <1>3, IsText
  <2> QED BY <1>1, <2>1 DEF dotted
<1>7. Alike(text[q], other[q]) /\ ~other[q].noted
  <2>1. /\ Spelling(text, duration).kind = (IF dotted(locate(text), text) THEN "dotted" ELSE "key")
        /\ Spelling(text, duration).table = (IF dotted(locate(text), text) THEN TABLE ELSE "")
        /\ Spelling(text, duration).name = BARE_KEY /\ ~Spelling(text, duration).noted
    BY SpellingIs
  <2> HIDE DEF other, q
  <2> QED BY <1>2, <1>4, <1>5, <1>6, <2>1 DEF Alike
<1> HIDE DEF other, q
<1>8. /\ Stay(text) \in [1 .. Len(text) -> 1 .. Len(other)]
      /\ \A k \in 1 .. Len(text) : Stay(text)[k] = k
  BY <1>1 DEF Stay
<1>9. \A k \in 1 .. Len(text) :
        /\ Alike(text[k], other[k]) /\ SameNote(text[k], other[k])
        /\ text[k].kind = "table" => other[k] = text[k]
  BY <1>1, <1>5, <1>7 DEF Alike, SameNote
<1>10. Moved(Stay(text), text, other)
  <2> DEFINE f == Stay(text)
  <2>1. f \in [1 .. Len(text) -> 1 .. Len(other)] /\ \A k \in 1 .. Len(text) : f[k] = k
    BY <1>8
  <2> HIDE DEF f
  <2>2. Embeds(f, text, other)
    BY <2>1 DEF Embeds
  <2>3. \A l \in 1 .. Len(other) : \E k \in 1 .. Len(text) : f[k] = l
    BY <1>1, <2>1
  <2>4. Moved(f, text, other)
    BY <1>9, <2>1, <2>2, <2>3 DEF Moved
  <2> QED BY <2>4 DEF f
<1> QED BY <1>10 DEF other

\* Whichever it was: the first assignment the reader finds is the one written, and it is
\* spelled as it would be spelled again.
LEMMA FirstKeyIsWritten ==
  ASSUME NEW text \in Texts, NEW duration \in Durations
  PROVE  /\ locate(Bare(text, duration)).keyIndex = Spot(text)
         /\ value(Bare(text, duration)) = duration
         /\ \A d \in Durations : Spelling(Bare(text, duration), d) = Spelling(text, d)
<1> DEFINE other == Bare(text, duration)
           q == Spot(text)
<1>1. other \in Texts /\ q \in 1 .. Len(other) /\ other[q] = Spelling(text, duration) /\ Len(other) \in Nat
  BY BareIs, IsText
<1>2. locate(other).keyIndex = q
  <2>1. CASE locate(text).keyIndex = 0
    <3>1. PICK f : Inserted(f, text, other, q)
      BY <2>1, NewKey
    <3>2. Keys(text) = {} /\ q \in Keys(other)
      BY <2>1, NewKey
    <3> HIDE DEF other, q
    <3> QED BY <1>1, <3>1, <3>2, InsertedKey
  <2>2. CASE locate(text).keyIndex # 0
    <3>1. Moved(Stay(text), text, other) /\ q = locate(text).keyIndex
      BY <2>2, Replaced, BareInstead
    <3>2. /\ locate(other).keyIndex = Stay(text)[locate(text).keyIndex]
          /\ locate(text).keyIndex \in 0 .. Len(text)
      <4> HIDE DEF other, q
      <4> QED BY <1>1, <2>2, <3>1, FirstKeyMoves
    <3>3. locate(text).keyIndex \in 1 .. Len(text)
      BY <2>2, <3>2, IsText
    <3> QED BY <3>1, <3>2, <3>3 DEF Stay
  <2> QED BY <2>1, <2>2
<1>3. locate(other).keyIndex > 0 /\ locate(other).keyIndex # 0
  <2> HIDE DEF other, q
  <2> QED BY <1>1, <1>2
<1>4. value(other) = duration
  <2>1. Spelling(text, duration).value = duration
    BY SpellingIs
  <2> HIDE DEF other, q
  <2>2. value(other) = other[locate(other).keyIndex].value
    BY <1>3, Zenon DEF value
  <2> QED BY <1>1, <1>2, <2>1, <2>2
<1>5. dotted(locate(other), other) <=> dotted(locate(text), text)
  <2>1. Spelling(text, duration).kind = (IF dotted(locate(text), text) THEN "dotted" ELSE "key")
    BY SpellingIs
  <2> HIDE DEF other, q
  <2>2. dotted(locate(other), other) <=> other[q].kind = "dotted"
    BY <1>2, <1>3 DEF dotted
  <2> QED BY <1>1, <2>1, <2>2
<1>6. \A d \in Durations : Spelling(other, d) = Spelling(text, d)
  BY <1>5 DEF Spelling
<1> QED BY <1>2, <1>4, <1>6
-----------------------------------------------------------------------------
(* Cargo loads what is written.                                              *)

LEMMA BareRecognised ==
  ASSUME NEW text \in Texts, NEW duration \in Durations, Recognised(Bare(text, duration))
  PROVE  Recognised(text)
<1>1. Bare(text, duration) \in Texts
  BY BareIs
<1>2. CASE locate(text).keyIndex = 0
  BY <1>1, <1>2, NewKey, InsertedRecognised
<1>3. CASE locate(text).keyIndex # 0
  BY <1>1, <1>3, Replaced, RecognisedMoves
<1> QED BY <1>2, <1>3

\* No two lines set the same: the old lines do not, and the new one is of a table
\* in which no old line is called that.
LEMMA InsertedLoads ==
  ASSUME NEW text \in Texts, NEW other \in Texts, NEW f, NEW q, Inserted(f, text, other, q),
         Loads(text),
         \A k, l \in Headers(other) \union Inline(other) : k = l,
         DottedAtTop(other) # {} => Headers(other) = {} /\ Inline(other) = {},
         \A k \in 1 .. Len(text) :
           text[k].kind = other[q].kind /\ Section(other, f[k]) = Section(other, q)
             => text[k].table # other[q].table \/ text[k].name # other[q].name
  PROVE  Loads(other)
<1>1. /\ DOMAIN text = 1 .. Len(text) /\ DOMAIN other = 1 .. Len(other)
      /\ \A k \in 1 .. Len(text) : f[k] \in 1 .. Len(other) /\ other[f[k]] = text[k]
  BY IsText DEF Inserted, Embeds
<1>2. ASSUME NEW l \in 1 .. Len(other), other[l].kind \in {"key", "dotted"}, l # q
      PROVE  \E k \in 1 .. Len(text) : f[k] = l
  <2>1. other[l] \notin {Empty, Header(TABLE, FALSE)}
    BY <1>2, FixedLines
  <2> QED BY <1>2, <2>1 DEF Inserted
<1>3. ASSUME NEW i \in 1 .. Len(text), NEW j \in 1 .. Len(text), Section(other, f[i]) = Section(other, f[j])
      PROVE  Section(text, i) = Section(text, j)
  <2>1. /\ Section(other, f[i]) = (IF Section(text, i) = 0 THEN 0 ELSE f[Section(text, i)])
        /\ Section(other, f[j]) = (IF Section(text, j) = 0 THEN 0 ELSE f[Section(text, j)])
    BY SameSection DEF Inserted
  <2>2. /\ Section(text, i) # 0 => Section(text, i) \in 1 .. Len(text)
        /\ Section(text, j) # 0 => Section(text, j) \in 1 .. Len(text)
    <3>1. Len(text) \in Nat
      BY IsText
    <3> QED BY <3>1, SectionIs
  <2>3. /\ Section(text, i) # 0 => f[Section(text, i)] # 0
        /\ Section(text, j) # 0 => f[Section(text, j)] # 0
    BY <1>1, <2>2
  <2>4. \A k, l \in 1 .. Len(text) : f[k] = f[l] => k = l
    <3>1. \A k, l \in 1 .. Len(text) : k < l => f[k] < f[l]
      BY DEF Inserted, Embeds
    <3> QED BY <1>1, <3>1, IsText
  <2> QED BY <1>3, <2>1, <2>2, <2>3, <2>4
<1>4. ASSUME NEW k \in 1 .. Len(other), NEW l \in 1 .. Len(other), k # l,
             other[k].kind \in {"key", "dotted"}, other[l].kind = other[k].kind,
             Section(other, k) = Section(other, l)
      PROVE  other[k].table # other[l].table \/ other[k].name # other[l].name
  <2>1. CASE k # q /\ l # q
    <3>1. PICK i \in 1 .. Len(text) : f[i] = k
      BY <1>2, <1>4, <2>1
    <3>2. PICK j \in 1 .. Len(text) : f[j] = l
      BY <1>2, <1>4, <2>1
    <3>3. other[k] = text[i] /\ other[l] = text[j] /\ i # j /\ Section(text, i) = Section(text, j)
      BY <1>1, <1>3, <1>4, <3>1, <3>2
    <3> QED BY <1>1, <1>4, <3>3 DEF Loads
  <2>2. CASE k = q
    <3>1. PICK j \in 1 .. Len(text) : f[j] = l
      BY <1>2, <1>4, <2>2
    <3>2. other[l] = text[j]
      BY <1>1, <3>1
    <3> QED BY <1>4, <2>2, <3>1, <3>2
  <2>3. CASE l = q
    <3>1. PICK i \in 1 .. Len(text) : f[i] = k
      BY <1>2, <1>4, <2>3
    <3>2. other[k] = text[i]
      BY <1>1, <3>1
    <3> QED BY <1>4, <2>3, <3>1, <3>2
  <2> QED BY <2>1, <2>2, <2>3
<1> QED BY <1>1, <1>4 DEF Loads

\* Where the new line is in the file or the table that has no such key, no old one is it.
LEMMA NoSuchKey ==
  ASSUME NEW text \in Texts, NEW other \in Texts, NEW f, NEW q, Inserted(f, text, other, q),
         Recognised(text), Keys(text) = {}, NEW k \in 1 .. Len(text), text[k].name = BARE_KEY
  PROVE  /\ text[k].kind = "dotted" /\ Section(other, f[k]) = 0 => text[k].table # TABLE
         /\ text[k].kind = "key" => \A p \in Headers(text) : Section(other, f[k]) # f[p]
<1>1. /\ DOMAIN text = 1 .. Len(text) /\ Len(text) \in Nat
      /\ \A i \in 1 .. Len(text) : f[i] \in 1 .. Len(other) /\ f[i] # 0
  BY IsText DEF Inserted, Embeds
<1>2. Section(other, f[k]) = (IF Section(text, k) = 0 THEN 0 ELSE f[Section(text, k)])
  BY SameSection DEF Inserted
<1>3. Section(text, k) # 0 => Section(text, k) \in 1 .. Len(text)
  BY <1>1, SectionIs
<1>4. ASSUME text[k].kind = "dotted", Section(other, f[k]) = 0, text[k].table = TABLE PROVE FALSE
  <2>1. Section(text, k) = 0
    BY <1>1, <1>2, <1>3, <1>4
  <2>2. TableAt(text, k) = ""
    BY <2>1, TablesAgree
  <2>3. k \in Keys(text)
    BY <1>1, <1>4, <2>2 DEF Keys
  <2> QED BY <2>3
<1>5. ASSUME text[k].kind = "key", NEW p \in Headers(text), Section(other, f[k]) = f[p] PROVE FALSE
  <2>1. p \in 1 .. Len(text) /\ text[p].table = TABLE
    BY <1>1 DEF Headers
  <2>2. Section(text, k) # 0 /\ f[Section(text, k)] = f[p]
    BY <1>1, <1>2, <1>5, <2>1
  <2>3. Section(text, k) = p
    <3>1. \A i, j \in 1 .. Len(text) : i < j => f[i] < f[j]
      BY DEF Inserted, Embeds
    <3>2. \A i, j \in 1 .. Len(text) : f[i] = f[j] => i = j
      BY <1>1, <3>1, IsText
    <3> QED BY <1>3, <2>1, <2>2, <3>2
  <2>4. TableAt(text, k) = TABLE
    BY <2>1, <2>2, <2>3, TablesAgree
  <2>5. k \in Keys(text)
    BY <1>1, <1>5, <2>4 DEF Keys
  <2> QED BY <2>5
<1> QED BY <1>4, <1>5

LEMMA BareLoads ==
  ASSUME NEW text \in Texts, NEW duration \in Durations, Recognised(text), Loads(text)
  PROVE  Loads(Bare(text, duration))
<1> DEFINE other == Bare(text, duration)
           q == Spot(text)
<1>1. other \in Texts /\ q \in 1 .. Len(other) /\ other[q] = Spelling(text, duration)
      /\ DOMAIN text = 1 .. Len(text) /\ DOMAIN other = 1 .. Len(other)
      /\ Len(text) \in Nat /\ Len(other) \in Nat
  BY BareIs, IsText
<1>2. other[q].name = BARE_KEY
  <2>1. Spelling(text, duration).name = BARE_KEY
    BY SpellingIs
  <2> HIDE DEF other, q
  <2> QED BY <1>1, <2>1
<1>3. Inline(text) = {}
  BY DEF Recognised
<1>4. \A k \in 1 .. Len(text) : tableOf(text[k]) <=> text[k].kind = "table"
  BY <1>1 DEF Recognised, tableOf
<1>5. CASE locate(text).keyIndex # 0
  BY <1>1, <1>5, Replaced, LoadsMoves
<1>6. ASSUME locate(text).keyIndex = 0, NEW f, Inserted(f, text, other, q) PROVE Inline(other) = {}
  <2>1. ASSUME NEW l \in Inline(other) PROVE FALSE
    <3>1. l \in 1 .. Len(other) /\ other[l].kind = "key" /\ other[l].name = TABLE
      BY <1>1 DEF Inline
    <3>2. l # q /\ other[l] \notin {Empty, Header(TABLE, FALSE)}
      <4>1. TABLE # BARE_KEY
        BY DEF TABLE, BARE_KEY
      <4> HIDE DEF other, q
      <4> QED BY <1>2, <3>1, <4>1, FixedLines
    <3>3. PICK k \in 1 .. Len(text) : f[k] = l
      BY <1>6, <3>1, <3>2 DEF Inserted
    <3>4. \A i \in 1 .. Len(text) : f[i] \in Inline(other) <=> i \in Inline(text)
      <4> HIDE DEF other, q
      <4> QED BY <1>1, <1>6, InsertedMeaning
    <3> QED BY <1>3, <2>1, <3>3, <3>4
  <2> QED BY <2>1
<1>7. ASSUME locate(text).keyIndex = 0, NEW f, Inserted(f, text, other, q)
      PROVE  /\ Keys(text) = {}
             /\ \A k \in 1 .. Len(text) :
                  /\ f[k] \in Headers(other) <=> k \in Headers(text)
                  /\ f[k] \in DottedAtTop(other) <=> k \in DottedAtTop(text)
             /\ \A l \in DottedAtTop(other) : l # q => \E k \in DottedAtTop(text) : f[k] = l
  <2>1. \A k \in 1 .. Len(text) :
           /\ f[k] \in Headers(other) <=> k \in Headers(text)
           /\ f[k] \in DottedAtTop(other) <=> k \in DottedAtTop(text)
    <3> HIDE DEF other, q
    <3> QED BY <1>1, <1>7, InsertedMeaning
  <2>2. ASSUME NEW l \in DottedAtTop(other), l # q PROVE \E k \in DottedAtTop(text) : f[k] = l
    <3>1. l \in 1 .. Len(other) /\ other[l] \notin {Empty, Header(TABLE, FALSE)}
      BY <1>1, FixedLines DEF DottedAtTop
    <3>2. PICK k \in 1 .. Len(text) : f[k] = l
      BY <1>7, <2>2, <3>1 DEF Inserted
    <3> QED BY <2>1, <3>2
  <2> QED BY <1>7, <2>1, <2>2, NewKey
<1>8. CASE locate(text).keyIndex = 0 /\ NoPlace(text)
  <2> DEFINE f == Stay(text)
  <2>1. Inserted(f, text, other, q) /\ \A k \in 1 .. Len(text) : f[k] = k
    BY <1>8, Stays DEF Stay
  <2>2. /\ Len(other) = q /\ Len(text) + 1 < q /\ q \in Nat
        /\ \A k \in Len(text) + 1 .. q - 2 : other[k] = Empty
    BY <1>8, BareAtEnd
  <2>3. other[q].kind = "key" /\ Section(other, q) = q - 1
    BY <1>8, UnderHeader
  <2> HIDE DEF other, q, f
  <2>4. Headers(text) = {}
    BY <1>1, <1>4, <1>8, Located DEF Headers, NoPlace
  <2>5. ASSUME NEW l \in Headers(other) PROVE l = q - 1
    <3>1. l \in 1 .. q /\ other[l].kind = "table"
      BY <1>1, <2>2 DEF Headers
    <3>2. ~(l <= Len(text))
      <4>1. \A k \in 1 .. Len(text) : k \notin Headers(other)
        BY <1>7, <1>8, <2>1, <2>4
      <4> QED BY <1>1, <2>5, <3>1, <4>1
    <3>3. l \notin Len(text) + 1 .. q - 2
      BY <2>2, <3>1, FixedLines
    <3> QED BY <1>1, <2>2, <2>3, <3>1, <3>2, <3>3
  <2>6. DottedAtTop(text) = {}
    <3>1. ASSUME NEW k \in DottedAtTop(text) PROVE k \in AnyDotted(text)
      BY <1>1, TablesAgree DEF DottedAtTop, AnyDotted
    <3> QED BY <1>8, <3>1, Located DEF NoPlace
  <2>7. DottedAtTop(other) = {}
    <3>1. q \notin DottedAtTop(other)
      BY <2>3 DEF DottedAtTop
    <3> QED BY <1>7, <1>8, <2>1, <2>6, <3>1
  <2>8. ASSUME NEW k \in 1 .. Len(text) PROVE Section(other, f[k]) # Section(other, q)
    <3>1. k \in 1 .. Len(other) /\ k < q - 1 /\ k \in Nat
      BY <1>1, <2>2
    <3>2. Section(other, k) \in 0 .. k
      BY <1>1, <3>1, SectionIs
    <3> QED BY <2>1, <2>2, <2>3, <3>1, <3>2
  <2>9. \A k, l \in Headers(other) \union Inline(other) : k = l
    BY <1>6, <1>8, <2>1, <2>5
  <2>10. Loads(other)
    BY <1>1, <2>1, <2>7, <2>8, <2>9, InsertedLoads
  <2> QED BY <2>10 DEF other
<1>9. CASE locate(text).keyIndex = 0 /\ ~NoPlace(text) /\ locate(text).tableIndex # 0
  <2> DEFINE f == Shift(text)
             p == locate(text).tableIndex
  <2>1. /\ Inserted(f, text, other, q)
        /\ \A l \in 1 .. Len(other) : l = q \/ \E k \in 1 .. Len(text) : f[k] = l
    BY <1>9, Shifts
  <2>2. /\ other[q].kind = "key" /\ other[q].table = "" /\ Section(other, q) = q - 1
    BY <1>9, UnderHeader
  <2>3. p \in 1 .. Len(text) /\ p \in Headers(text)
    <3>1. p \in 1 .. Len(text)
      BY <1>1, <1>9, Located
    <3> QED BY <1>1, <1>9, <3>1, Located DEF Headers, tableOf
  <2>4. Place(text) = p
    <3>1. p > 0 /\ ~(locate(text).keyIndex > 0)
      BY <1>1, <1>9, <2>3
    <3> QED BY <3>1, Zenon DEF Place
  <2>5. f[p] = q - 1
    <3>1. q = Place(text) + 1
      BY <1>9, BareBehind
    <3>2. q - 1 = p
      BY <1>1, <2>3, <2>4, <3>1
    <3>3. f[p] = p
      BY <1>1, <2>3, <2>4 DEF Shift
    <3> HIDE DEF p, q, f
    <3> QED BY <3>2, <3>3
  <2> HIDE DEF other, q, f, p
  <2>6. ASSUME NEW l \in Headers(other) PROVE \E k \in Headers(text) : f[k] = l
    <3>1. l \in 1 .. Len(other) /\ l # q
      BY <1>1, <2>2 DEF Headers
    <3>2. PICK k \in 1 .. Len(text) : f[k] = l
      BY <2>1, <3>1
    <3> QED BY <1>7, <1>9, <2>1, <3>2
  <2>7. \A k, l \in Headers(other) \union Inline(other) : k = l
    <3>1. \A k, l \in Headers(text) : k = l
      BY DEF Loads
    <3>2. ASSUME NEW k \in Headers(other), NEW l \in Headers(other) PROVE k = l
      <4>1. PICK i \in Headers(text) : f[i] = k
        BY <2>6
      <4>2. PICK j \in Headers(text) : f[j] = l
        BY <2>6
      <4> QED BY <3>1, <4>1, <4>2
    <3> QED BY <1>6, <1>9, <2>1, <3>2
  <2>8. DottedAtTop(other) = {}
    <3>1. DottedAtTop(text) = {}
      BY <2>3 DEF Loads
    <3>2. q \notin DottedAtTop(other)
      BY <2>2 DEF DottedAtTop
    <3> QED BY <1>7, <1>9, <2>1, <3>1, <3>2
  <2>9. ASSUME NEW k \in 1 .. Len(text), text[k].kind = other[q].kind, Section(other, f[k]) = Section(other, q)
        PROVE  text[k].name # other[q].name
    <3>1. Keys(text) = {}
      BY <1>7, <1>9, <2>1
    <3>2. text[k].kind = "key" /\ Section(other, f[k]) = f[p]
      BY <2>2, <2>5, <2>9
    <3> QED BY <1>1, <1>2, <2>1, <2>3, <3>1, <3>2, NoSuchKey
  <2>10. Loads(other)
    BY <1>1, <2>1, <2>7, <2>8, <2>9, InsertedLoads
  <2> QED BY <2>10 DEF other
<1>10. CASE locate(text).keyIndex = 0 /\ locate(text).tableIndex = 0 /\ locate(text).lastDottedIndex # 0
  <2> DEFINE f == Shift(text)
             p == locate(text).lastDottedIndex
  <2>1. /\ ~NoPlace(text) /\ p \in AnyDotted(text)
        /\ other[q].kind = "dotted" /\ other[q].table = TABLE
        /\ Section(text, p) = 0 => Section(other, q) = 0
    BY <1>10, UnderDotted
  <2>2. /\ Inserted(f, text, other, q)
        /\ \A l \in 1 .. Len(other) : l = q \/ \E k \in 1 .. Len(text) : f[k] = l
    BY <1>10, <2>1, Shifts
  <2> HIDE DEF other, q, f, p
  <2>3. p \in DottedAtTop(text) /\ Section(text, p) = 0
    <3>1. p \in 1 .. Len(text) /\ text[p].kind = "dotted" /\ text[p].table = TABLE /\ TableAt(text, p) = ""
      BY <1>1, <2>1 DEF AnyDotted
    <3>2. TopLevel(text, p)
      BY <3>1, TablesAgree
    <3> QED BY <1>1, <3>1, <3>2 DEF DottedAtTop, TopLevel
  <2>4. Headers(other) = {}
    <3>1. Headers(text) = {}
      BY <2>3 DEF Loads
    <3>2. ASSUME NEW l \in Headers(other) PROVE FALSE
      <4>1. l \in 1 .. Len(other) /\ l # q
        BY <1>1, <2>1 DEF Headers
      <4>2. PICK k \in 1 .. Len(text) : f[k] = l
        BY <2>2, <4>1
      <4> QED BY <1>7, <1>10, <2>2, <3>1, <3>2, <4>2
    <3> QED BY <3>2
  <2>5. Inline(other) = {}
    BY <1>6, <1>10, <2>2
  <2>6. ASSUME NEW k \in 1 .. Len(text), text[k].kind = other[q].kind, Section(other, f[k]) = Section(other, q)
        PROVE  text[k].table # other[q].table \/ text[k].name # other[q].name
    <3>1. Keys(text) = {}
      BY <1>7, <1>10, <2>2
    <3>2. text[k].kind = "dotted" /\ Section(other, f[k]) = 0
      BY <2>1, <2>3, <2>6
    <3> QED BY <1>1, <1>2, <2>1, <2>2, <3>1, <3>2, NoSuchKey
  <2>7. Loads(other)
    BY <1>1, <2>2, <2>4, <2>5, <2>6, InsertedLoads
  <2> QED BY <2>7 DEF other
<1> QED BY <1>5, <1>8, <1>9, <1>10 DEF NoPlace
-----------------------------------------------------------------------------
(* What is written, with its marker.                                         *)

Marked(text, duration, list) == Before(text) \o Block(text, duration, list) \o After(text)

\* No marker is written for an empty list.
LEMMA Unlisted ==
  ASSUME NEW text, NEW duration
  PROVE  Marked(text, duration, None) = Bare(text, duration)
BY DEF Marked, Bare, Block

BehindMarker(text, duration) ==
  [k \in 1 .. Len(Bare(text, duration)) |-> IF k < Spot(text) THEN k ELSE k + 1]

\* Beside the marker, above the assignment, everything is as without it.
LEMMA Listed ==
  ASSUME NEW text \in Texts, NEW duration \in Durations, NEW list \in ExcludeLists, list # None
  PROVE  /\ Marked(text, duration, list) \in Texts
         /\ Moved(BehindMarker(text, duration), Bare(text, duration), Marked(text, duration, list))
         /\ \A k \in 1 .. Len(Bare(text, duration)) :
              Marked(text, duration, list)[BehindMarker(text, duration)[k]] = Bare(text, duration)[k]
         /\ Marked(text, duration, list)[Spot(text)] = Marker(list)
         /\ Spot(text) \in 1 .. Len(Marked(text, duration, list))
         /\ \A l \in 1 .. Len(Marked(text, duration, list)) :
              l # Spot(text) => \E k \in 1 .. Len(Bare(text, duration)) : BehindMarker(text, duration)[k] = l
<1> DEFINE a == Before(text)
           b == Block(text, duration, list)
           c == After(text)
           bare == Bare(text, duration)
           q == Spot(text)
           f == BehindMarker(text, duration)
           other == a \o b \o c
<1>1. a \in Texts /\ c \in Texts /\ Len(a) \in Nat /\ Len(c) \in Nat /\ q = Len(a) + 1
  BY Parts, IsText DEF Spot
<1>2. b \in Texts /\ Len(b) = 2 /\ b[1] = Marker(list) /\ b[2] = Spelling(text, duration)
  <2>1. Marker(list) \in Line /\ Spelling(text, duration) \in Line
    BY LinesWritten, SpellingIs
  <2>2. b = <<Marker(list), Spelling(text, duration)>>
    BY DEF Block
  <2> HIDE DEF b
  <2> QED BY <2>1, <2>2, TwoLines DEF Texts
<1>3. /\ bare \in Texts /\ Len(bare) = q + Len(c) /\ bare[q] = Spelling(text, duration)
      /\ \A k \in 1 .. Len(a) : bare[k] = a[k]
      /\ \A k \in 1 .. Len(c) : bare[q + k] = c[k]
  BY BareIs
<1>4. \A k \in 1 .. Len(bare) : f[k] = IF k < q THEN k ELSE k + 1
  BY DEF BehindMarker
<1>5. f = [k \in 1 .. Len(bare) |-> IF k < q THEN k ELSE k + 1]
  BY DEF BehindMarker
<1> HIDE DEF a, b, c, bare, q, f
<1>6. /\ other \in Texts /\ Len(other) = Len(a) + Len(b) + Len(c)
      /\ \A k \in 1 .. Len(a) : other[k] = a[k]
      /\ \A k \in 1 .. Len(b) : other[Len(a) + k] = b[k]
      /\ \A k \in 1 .. Len(c) : other[Len(a) + Len(b) + k] = c[k]
  BY <1>1, <1>2, Joined
<1> HIDE DEF other
<1>7. other[q] = Marker(list) /\ other[q + 1] = bare[q]
  <2>1. other[Len(a) + 1] = b[1] /\ other[Len(a) + 2] = b[2] /\ q + 1 = Len(a) + 2
    BY <1>1, <1>2, <1>6
  <2> QED BY <1>1, <1>2, <1>3, <2>1
<1>8. Len(other) = Len(bare) + 1 /\ q \in 1 .. Len(bare) /\ Len(bare) \in Nat
  BY <1>1, <1>2, <1>3, <1>6
<1>9. ASSUME NEW k \in 1 .. Len(bare) PROVE other[f[k]] = bare[k]
  <2>1. CASE k < q
    <3>1. k \in 1 .. Len(a)
      BY <1>1, <2>1
    <3> QED BY <1>3, <1>4, <1>6, <2>1, <3>1
  <2>2. CASE k = q
    BY <1>4, <1>7, <1>8, <2>2
  <2>3. CASE k > q
    <3>1. /\ k - q \in 1 .. Len(c) /\ q + (k - q) = k /\ Len(a) + Len(b) + (k - q) = k + 1
          /\ ~(k < q)
      BY <1>1, <1>2, <1>3, <2>3
    <3>2. bare[k] = c[k - q]
      BY <1>3, <3>1
    <3>3. other[k + 1] = c[k - q]
      BY <1>6, <3>1
    <3> QED BY <1>4, <3>1, <3>2, <3>3
  <2> QED BY <1>1, <2>1, <2>2, <2>3
<1>10. f \in [1 .. Len(bare) -> 1 .. Len(other)]
  BY <1>5, <1>8
<1>11. \A k, l \in 1 .. Len(bare) : k < l => f[k] < f[l]
  BY <1>4, <1>8
<1>12. ASSUME NEW l \in 1 .. Len(other), l # q PROVE \E k \in 1 .. Len(bare) : f[k] = l
  <2>1. CASE l < q
    <3>1. l \in 1 .. Len(bare)
      BY <1>8, <2>1
    <3> QED BY <1>4, <2>1, <3>1
  <2>2. CASE ~(l < q)
    <3>1. l - 1 \in 1 .. Len(bare) /\ ~(l - 1 < q) /\ (l - 1) + 1 = l
      BY <1>8, <1>12, <2>2
    <3> QED BY <1>4, <3>1
  <2> QED BY <2>1, <2>2
<1>13. Moved(f, bare, other)
  <2>1. Embeds(f, bare, other)
    BY <1>10, <1>11 DEF Embeds
  <2>2. \A k \in 1 .. Len(bare) : Alike(bare[k], other[f[k]]) /\ SameNote(bare[k], other[f[k]])
    BY <1>9 DEF Alike, SameNote
  <2>3. \A l \in 1 .. Len(other) : ~IsMarker(other[l]) => \E k \in 1 .. Len(bare) : f[k] = l
    <3>1. IsMarker(other[q])
      BY <1>7, LinesWritten
    <3> QED BY <1>12, <3>1
  <2> QED BY <1>9, <2>1, <2>2, <2>3 DEF Moved
<1>14. q \in 1 .. Len(other)
  BY <1>8
<1> QED BY <1>6, <1>7, <1>9, <1>12, <1>13, <1>14 DEF Marked, a, b, c, bare, q, f, other

LEMMA BareUnmarked ==
  ASSUME NEW text \in Texts, NEW duration \in Durations, \A k \in 1 .. Len(text) : ~IsMarker(text[k])
  PROVE  \A l \in 1 .. Len(Bare(text, duration)) : ~IsMarker(Bare(text, duration)[l])
<1>1. Bare(text, duration) \in Texts
  BY BareIs
<1>2. CASE locate(text).keyIndex = 0
  BY <1>1, <1>2, NewKey, InsertedUnmarked
<1>3. CASE locate(text).keyIndex # 0
  <2>1. Len(Bare(text, duration)) = Len(text)
    BY <1>3, BareInstead
  <2>2. \A k \in 1 .. Len(text) : Stay(text)[k] = k
    BY DEF Stay
  <2>3. \A k \in 1 .. Len(text) : text[k].kind = Bare(text, duration)[Stay(text)[k]].kind
    BY <1>3, Replaced DEF Moved, Alike
  <2> QED BY <2>1, <2>2, <2>3 DEF IsMarker
<1> QED BY <1>2, <1>3

\* What is written reads like what it is without its marker.
LEMMA MarkedIs ==
  ASSUME NEW text \in Texts, NEW duration \in Durations, NEW list \in ExcludeLists,
         \A k \in 1 .. Len(text) : ~IsMarker(text[k])
  PROVE  LET other == Marked(text, duration, list)
             bare == Bare(text, duration)
         IN  /\ other \in Texts /\ kept(other) = bare
             /\ excludes(other) = {list} \ {None}
             /\ value(other) = value(bare) /\ Settings(other) = Settings(bare)
             /\ Loads(other) <=> Loads(bare)
             /\ Recognised(other) <=> Recognised(bare)
             /\ Others(other) = Others(bare)
<1> DEFINE other == Marked(text, duration, list)
           bare == Bare(text, duration)
           q == Spot(text)
<1>1. /\ bare \in Texts /\ Len(bare) \in Nat /\ DOMAIN bare = 1 .. Len(bare)
      /\ \A k \in 1 .. Len(bare) : ~IsMarker(bare[k])
  BY BareIs, BareUnmarked, IsText
<1>2. PICK f : /\ other \in Texts /\ Moved(f, bare, other)
               /\ \A k \in 1 .. Len(bare) : other[f[k]] = bare[k]
               /\ excludes(other) = {list} \ {None}
  <2>1. CASE list = None
    <3> DEFINE f == Stay(bare)
    <3>1. other = bare
      BY <2>1, Unlisted
    <3>2. \A k \in 1 .. Len(bare) : f[k] = k
      BY DEF Stay
    <3>3. f \in [1 .. Len(bare) -> 1 .. Len(other)]
      BY <3>1 DEF Stay
    <3> HIDE DEF f, other, bare
    <3>4. \A k \in 1 .. Len(bare) : other[f[k]] = bare[k]
      BY <3>1, <3>2
    <3>5. Moved(f, bare, other)
      <4>1. Embeds(f, bare, other)
        BY <3>2, <3>3 DEF Embeds
      <4> QED BY <3>1, <3>2, <3>4, <4>1 DEF Moved, Alike, SameNote
    <3>6. excludes(other) = {}
      BY <1>1, <3>1 DEF excludes
    <3>7. {list} \ {None} = {}
      BY <2>1
    <3> QED BY <1>1, <3>1, <3>4, <3>5, <3>6, <3>7
  <2>2. CASE list # None
    <3> DEFINE f == BehindMarker(text, duration)
    <3>1. /\ other \in Texts /\ Moved(f, bare, other)
          /\ \A k \in 1 .. Len(bare) : other[f[k]] = bare[k]
          /\ other[q] = Marker(list) /\ q \in 1 .. Len(other)
          /\ \A l \in 1 .. Len(other) : l # q => \E k \in 1 .. Len(bare) : f[k] = l
      BY <2>2, Listed
    <3> HIDE DEF f, other, bare, q
    <3>2. {l \in DOMAIN other : IsMarker(other[l])} = {q}
      <4>1. IsMarker(other[q])
        BY <3>1, LinesWritten
      <4>2. ASSUME NEW l \in 1 .. Len(other), l # q PROVE ~IsMarker(other[l])
        BY <1>1, <3>1, <4>2
      <4> QED BY <3>1, <4>1, <4>2, IsText
    <3>3. Marker(list).value = list
      BY LinesWritten
    <3>4. excludes(other) = {other[k].value : k \in {q}} \ {None}
      BY <3>2, Zenon DEF excludes
    <3>5. excludes(other) = {list} \ {None}
      BY <3>1, <3>3, <3>4
    <3> QED BY <3>1, <3>5
  <2> QED BY <2>1, <2>2
<1> HIDE DEF other, bare, q
<1>3. kept(other) = bare
  BY <1>1, <1>2, OnlyKept
<1>4. value(other) = value(bare) /\ Settings(other) = Settings(bare)
  BY <1>1, <1>2, ReadingMoves
<1>5. (Loads(other) <=> Loads(bare)) /\ (Recognised(other) <=> Recognised(bare))
  BY <1>1, <1>2, LoadsMoves, RecognisedMoves
<1>6. Others(other) = Others(bare)
  BY <1>1, <1>2, OthersMove
<1> QED BY <1>2, <1>3, <1>4, <1>5, <1>6 DEF other, bare

LEMMA WrittenMarks ==
  ASSUME NEW text \in Texts, NEW duration \in Durations, NEW list \in ExcludeLists
  PROVE  Written(text, duration, list) = Marked(kept(text), duration, list)
BY WrittenIs DEF Marked

\* Written into what it wrote, the same comes out.
LEMMA WrittenAgain ==
  ASSUME NEW text \in Texts, NEW duration \in Durations, NEW list \in ExcludeLists
  PROVE  Marked(Bare(text, duration), duration, list) = Marked(text, duration, list)
<1> DEFINE bare == Bare(text, duration)
           q == Spot(text)
<1>1. /\ bare \in Texts /\ Len(bare) \in Nat /\ q \in 1 .. Len(bare) /\ q = Len(Before(text)) + 1
      /\ Len(bare) = q + Len(After(text))
      /\ \A k \in 1 .. Len(Before(text)) : bare[k] = Before(text)[k]
      /\ \A k \in 1 .. Len(After(text)) : bare[q + k] = After(text)[k]
  BY BareIs, IsText DEF Spot
<1>2. Before(text) \in Texts /\ After(text) \in Texts
      /\ Len(Before(text)) \in Nat /\ Len(After(text)) \in Nat
  BY Parts, IsText
<1>3. locate(bare).keyIndex = q /\ Spelling(bare, duration) = Spelling(text, duration)
  BY FirstKeyIsWritten
<1> HIDE DEF bare, q
<1>4. locate(bare).keyIndex > 0
  BY <1>1, <1>3
<1>5. ~NoPlace(bare)
  BY <1>1, <1>3 DEF NoPlace
<1>6. Place(bare) = q - 1
  BY <1>3, <1>4 DEF Place
<1>7. Before(bare) = SubSeq(bare, 1, Place(bare)) /\ After(bare) = SubSeq(bare, Place(bare) + 2, Len(bare))
  BY <1>4, <1>5, Instead
<1>8. Before(bare) = SubSeq(bare, 1, q - 1) /\ After(bare) = SubSeq(bare, q + 1, Len(bare))
  <2>1. Place(bare) + 2 = q + 1
    BY <1>1, <1>6
  <2> QED BY <1>6, <1>7, <2>1
<1>9. Before(bare) = Before(text)
  <2>1. q - 1 \in Int /\ \A i \in 1 .. q - 1 : bare[i] \in Line
    BY <1>1, IsText
  <2>2. /\ SubSeq(bare, 1, q - 1) \in Seq(Line)
        /\ Len(SubSeq(bare, 1, q - 1)) = (IF 1 <= q - 1 THEN (q - 1) - 1 + 1 ELSE 0)
        /\ \A i \in 1 .. (q - 1) - 1 + 1 : SubSeq(bare, 1, q - 1)[i] = bare[1 + i - 1]
    BY <2>1, SubSeqProperties
  <2>3. Len(SubSeq(bare, 1, q - 1)) = Len(Before(text))
    BY <1>1, <1>2, <2>2
  <2>4. ASSUME NEW i \in 1 .. Len(Before(text)) PROVE SubSeq(bare, 1, q - 1)[i] = Before(text)[i]
    <3>1. i \in 1 .. (q - 1) - 1 + 1 /\ 1 + i - 1 = i
      BY <1>1, <1>2
    <3> QED BY <1>1, <2>2, <3>1
  <2>5. Before(text) \in Seq(Line)
    BY <1>2 DEF Texts
  <2> QED BY <1>8, <2>2, <2>3, <2>4, <2>5, SeqEqual
<1>10. After(bare) = After(text)
  <2>1. /\ Len(SubSeq(bare, q + 1, Len(bare))) = Len(bare) - q
        /\ \A l \in 1 .. Len(bare) - q : SubSeq(bare, q + 1, Len(bare))[l] = bare[q + l]
    <3>1. q \in 0 .. Len(bare)
      BY <1>1
    <3> QED BY <1>1, <3>1, RestIs
  <2>2. Len(After(bare)) = Len(After(text)) /\ Len(bare) - q = Len(After(text))
    BY <1>1, <1>2, <1>8, <2>1
  <2>3. \A i \in 1 .. Len(After(bare)) : After(bare)[i] = After(text)[i]
    BY <1>1, <1>8, <2>1, <2>2
  <2>4. After(bare) \in Seq(Line) /\ After(text) \in Seq(Line)
    BY <1>1, <1>2, Parts DEF Texts
  <2> QED BY <2>2, <2>3, <2>4, SeqEqual
<1> QED BY <1>3, <1>9, <1>10 DEF Marked, Block, bare
-----------------------------------------------------------------------------
(* The lines of the user.                                                    *)

LEMMA FilteredAll ==
  ASSUME NEW m \in Nat, NEW text
  PROVE  Filtered(text, 1 .. m) = [n \in 1 .. m |-> text[n]]
<1> DEFINE S == 1 .. m
           h == [n \in 1 .. m |-> n]
<1>1. S \in Indexes(m) /\ h \in [1 .. m -> S] /\ \A n \in 1 .. m : h[n] = n
  BY DEF Indexes
<1>2. (\A n, p \in 1 .. m : n < p => h[n] < h[p]) /\ \A k \in S : \E n \in 1 .. m : h[n] = k
  BY <1>1
<1> HIDE DEF S, h
<1>3. Cardinality(S) = m /\ h = Ascending(S)
  BY <1>1, <1>2, OnlyAscending
<1>4. Filtered(text, S) = [n \in 1 .. m |-> text[h[n]]]
  BY <1>3 DEF Filtered
<1> QED BY <1>1, <1>4 DEF S

LEMMA OthersInserted ==
  ASSUME NEW text \in Texts, NEW other \in Texts, NEW f, NEW q, Inserted(f, text, other, q),
         Keys(text) = {}, q \in Keys(other), \A k \in 1 .. Len(text) : ~IsMarker(text[k]),
         \A l \in 1 .. Len(other) : l = q \/ \E k \in 1 .. Len(text) : f[k] = l
  PROVE  Others(other) = Others(text)
<1> DEFINE S == DOMAIN text \ Mine(text)
           T == DOMAIN other \ Mine(other)
<1>1. /\ DOMAIN text = 1 .. Len(text) /\ DOMAIN other = 1 .. Len(other)
      /\ Len(text) \in Nat /\ Len(other) \in Nat
  BY IsText
<1>2. /\ f \in [1 .. Len(text) -> 1 .. Len(other)]
      /\ \A k, l \in 1 .. Len(text) : k < l => f[k] < f[l]
      /\ \A k \in 1 .. Len(text) : other[f[k]] = text[k] /\ f[k] # q
  BY DEF Inserted, Embeds
<1>3. Keys(other) = {q}
  BY InsertedKey
<1>4. S = 1 .. Len(text)
  BY <1>1 DEF Mine
<1>5. T = (1 .. Len(other)) \ {q}
  <2>1. \A l \in 1 .. Len(other) : ~IsMarker(other[l])
    BY InsertedUnmarked
  <2> QED BY <1>1, <1>3, <2>1 DEF Mine
<1>6. S \in Indexes(Len(text)) /\ T \in Indexes(Len(other))
  BY <1>1 DEF Indexes
<1> HIDE DEF S, T
<1>7. f \in [S -> T]
  BY <1>2, <1>4, <1>5
<1>8. \A t \in T : \E k \in S : f[k] = t
  BY <1>4, <1>5
<1>9. (\A k, l \in S : k < l => f[k] < f[l]) /\ \A k \in S : other[f[k]] = text[k]
  BY <1>2, <1>4
<1>10. Filtered(other, T) = Filtered(text, S)
  BY <1>1, <1>6, <1>7, <1>8, <1>9, FilteredAlike
<1> QED BY <1>10 DEF Others, S, T

LEMMA OthersAtEnd ==
  ASSUME NEW text \in Texts, NEW duration \in Durations, NoPlace(text),
         \A k \in 1 .. Len(text) : ~IsMarker(text[k])
  PROVE  Others(text) = text /\ Others(Bare(text, duration)) = Room(text)
<1> DEFINE other == Bare(text, duration)
           q == Spot(text)
<1>1. /\ Len(text) \in Nat /\ DOMAIN text = 1 .. Len(text) /\ other \in Texts
      /\ DOMAIN other = 1 .. Len(other)
  BY IsText, BareIs
<1>2. Inserted(Stay(text), text, other, q) /\ Keys(text) = {} /\ q \in Keys(other)
  BY Stays, NewKey DEF NoPlace
<1>3. /\ Len(other) = q /\ q \in Nat /\ q - 1 \in Nat /\ Before(text) = Room(text)
      /\ q = Len(Room(text)) + 1 /\ \A k \in 1 .. Len(Room(text)) : other[k] = Room(text)[k]
  <2>1. Before(text) = Room(text)
    BY Zenon DEF Before
  <2>2. Len(other) = q /\ q \in Nat /\ Len(text) + 1 < q
    BY BareAtEnd
  <2>3. \A k \in 1 .. Len(Before(text)) : other[k] = Before(text)[k]
    BY BareIs
  <2>4. q = Len(Room(text)) + 1
    BY <2>1 DEF Spot
  <2>5. q - 1 \in Nat
    <3> HIDE DEF q
    <3> QED BY <1>1, <2>2
  <2> QED BY <2>1, <2>2, <2>3, <2>4, <2>5
<1>4. Room(text) \in Texts /\ Len(Room(text)) \in Nat
  BY Parts, IsText
<1> HIDE DEF other, q
<1>5. Mine(text) = {}
  BY <1>1, <1>2 DEF Mine
<1>6. Others(text) = text
  <2>1. text = [n \in 1 .. Len(text) |-> text[n]]
    BY DEF Texts
  <2>2. Others(text) = Filtered(text, 1 .. Len(text))
    BY <1>1, <1>5 DEF Others
  <2> QED BY <1>1, <2>1, <2>2, FilteredAll
<1>7. Mine(other) = {q}
  <2>1. Keys(other) = {q}
    BY <1>1, <1>2, InsertedKey
  <2>2. \A l \in 1 .. Len(other) : ~IsMarker(other[l])
    BY <1>1, <1>2, InsertedUnmarked
  <2> QED BY <1>1, <2>1, <2>2 DEF Mine
<1>8. DOMAIN other \ Mine(other) = 1 .. Len(Room(text))
  BY <1>1, <1>3, <1>4, <1>7
<1>9. Others(other) = Room(text)
  <2>1. Others(other) = [n \in 1 .. Len(Room(text)) |-> other[n]]
    BY <1>4, <1>8, FilteredAll DEF Others
  <2>2. Room(text) = [n \in 1 .. Len(Room(text)) |-> Room(text)[n]]
    BY <1>4 DEF Texts
  <2>3. [n \in 1 .. Len(Room(text)) |-> other[n]] = [n \in 1 .. Len(Room(text)) |-> Room(text)[n]]
    BY <1>3
  <2> QED BY <2>1, <2>2, <2>3
<1> QED BY <1>6, <1>9 DEF other

LEMMA OthersBare ==
  ASSUME NEW text \in Texts, NEW duration \in Durations,
         \A k \in 1 .. Len(text) : ~IsMarker(text[k])
  PROVE  \/ Others(Bare(text, duration)) = Others(text)
         \/ /\ locate(text).tableIndex = 0
            /\ Others(Bare(text, duration)) \in {Others(text) \o <<Header(TABLE, FALSE)>>,
                                                Others(text) \o <<Empty, Header(TABLE, FALSE)>>}
<1> DEFINE other == Bare(text, duration)
<1>1. other \in Texts
  BY BareIs
<1>2. CASE NoPlace(text)
  <2>1. Others(text) = text /\ Others(other) = Room(text) /\ locate(text).tableIndex = 0
    BY <1>2, OthersAtEnd DEF NoPlace
  <2> QED BY <2>1, RoomIs
<1>3. CASE locate(text).keyIndex # 0
  <2>1. Moved(Stay(text), text, other)
    BY <1>3, Replaced
  <2>2. /\ Spot(text) = locate(text).keyIndex /\ Spot(text) \in Keys(text)
        /\ \A k \in 1 .. Len(text) : k # Spot(text) => other[k] = text[k]
    BY <1>3, BareInstead, Located
  <2>3. \A k \in 1 .. Len(text) : k \notin Keys(text) => other[Stay(text)[k]] = text[k]
    <3>1. \A k \in 1 .. Len(text) : Stay(text)[k] = k
      BY DEF Stay
    <3> QED BY <2>2, <3>1
  <2> HIDE DEF other
  <2>4. Others(other) = Others(text)
    BY <1>1, <2>1, <2>3, OthersMove
  <2> QED BY <2>4 DEF other
<1>4. CASE locate(text).keyIndex = 0 /\ ~NoPlace(text)
  <2>1. /\ Inserted(Shift(text), text, other, Spot(text))
        /\ \A l \in 1 .. Len(other) : l = Spot(text) \/ \E k \in 1 .. Len(text) : Shift(text)[k] = l
        /\ Keys(text) = {} /\ Spot(text) \in Keys(other)
    BY <1>4, Shifts, NewKey
  <2> HIDE DEF other
  <2>2. Others(other) = Others(text)
    BY <1>1, <2>1, OthersInserted
  <2> QED BY <2>2 DEF other
<1> QED BY <1>2, <1>3, <1>4

\* A table that is there is there without the markers.
LEMMA TableStays ==
  ASSUME NEW text \in Texts, locate(kept(text)).tableIndex = 0
  PROVE  locate(text).tableIndex = 0
<1> DEFINE L == kept(text)
           f == Ascending(Unmarked(text))
           p == locate(text).tableIndex
<1>1. L \in Texts /\ Moved(f, L, text) /\ \A k \in 1 .. Len(L) : text[f[k]] = L[k]
  BY KeptIs
<1> SUFFICES ASSUME p # 0 PROVE FALSE
  OBVIOUS
<1>2. p \in 1 .. Len(text) /\ tableOf(text[p]) /\ text[p].table = TABLE
  <2>1. p \in 0 .. Len(text) /\ Len(text) \in Nat
    BY Located, IsText
  <2>2. tableOf(text[p]) /\ text[p].table = TABLE
    BY Located
  <2> HIDE DEF p
  <2> QED BY <2>1, <2>2
<1> HIDE DEF L, f, p
<1>3. PICK k \in 1 .. Len(L) : f[k] = p
  BY <1>1, <1>2 DEF Moved, tableOf, IsMarker
<1>4. tableOf(L[k]) /\ L[k].table = TABLE
  BY <1>1, <1>2, <1>3
<1>5. \A i \in 1 .. Len(L) : ~(tableOf(L[i]) /\ L[i].table = TABLE)
  BY <1>1, Located DEF L
<1> QED BY <1>4, <1>5

-----------------------------------------------------------------------------
(* A write, and all that follows from it.                                    *)

LEMMA WriteDoes ==
  ASSUME NEW text \in Texts, NEW duration \in Durations, NEW list \in ExcludeLists
  PROVE  LET other == Written(text, duration, list)
         IN  /\ other \in Texts
             /\ Recognised(other) => Recognised(text)
             /\ Recognised(other) /\ Loads(text) => Loads(other) /\ Settings(other) = {duration}
             /\ value(other) = duration /\ excludes(other) = {list} \ {None}
             /\ Written(other, duration, list) = other
             /\ \/ Others(other) = Others(text)
                \/ /\ locate(text).tableIndex = 0
                   /\ Others(other) \in {Others(text) \o <<Header(TABLE, FALSE)>>,
                                         Others(text) \o <<Empty, Header(TABLE, FALSE)>>}
<1> DEFINE L == kept(text)
           f == Ascending(Unmarked(text))
           bare == Bare(L, duration)
           other == Written(text, duration, list)
<1>1. /\ L \in Texts /\ Moved(f, L, text)
      /\ \A k \in 1 .. Len(L) : text[f[k]] = L[k] /\ ~IsMarker(L[k])
  BY KeptIs
<1>2. other = Marked(L, duration, list)
  BY WrittenMarks
<1> HIDE DEF L
<1>3. bare \in Texts
  BY <1>1, BareIs
<1>4. /\ other \in Texts /\ kept(other) = bare
      /\ excludes(other) = {list} \ {None}
      /\ value(other) = value(bare) /\ Settings(other) = Settings(bare)
      /\ Loads(other) <=> Loads(bare)
      /\ Recognised(other) <=> Recognised(bare)
      /\ Others(other) = Others(bare)
  BY <1>1, <1>2, MarkedIs
<1>5. value(bare) = duration /\ locate(bare).keyIndex = Spot(L) /\ Spot(L) # 0
  <2>1. Spot(L) \in 1 .. Len(bare) /\ Len(bare) \in Nat
    BY <1>1, <1>3, BareIs, IsText
  <2>2. Spot(L) # 0
    BY <2>1
  <2> QED BY <1>1, <2>2, FirstKeyIsWritten
<1>6. (Loads(text) <=> Loads(L)) /\ (Recognised(text) <=> Recognised(L))
  BY <1>1, LoadsMoves, RecognisedMoves
<1>7. Recognised(other) => Recognised(text)
  BY <1>1, <1>4, <1>6, BareRecognised
<1>8. ASSUME Recognised(other), Loads(text) PROVE Loads(other) /\ Settings(other) = {duration}
  <2>1. Loads(bare) /\ Recognised(bare)
    BY <1>1, <1>4, <1>6, <1>7, <1>8, BareLoads
  <2>2. Settings(bare) = (IF locate(bare).keyIndex = 0 THEN {} ELSE {value(bare)})
    <3> HIDE DEF bare
    <3> QED BY <1>3, <2>1, ReaderIsRightOn
  <2> QED BY <1>4, <1>5, <2>1, <2>2
<1>9. Written(other, duration, list) = other
  <2>1. Written(other, duration, list) = Marked(kept(other), duration, list)
    <3> HIDE DEF other
    <3> QED BY <1>4, WrittenMarks
  <2> QED BY <1>1, <1>2, <1>4, <2>1, WrittenAgain
<1>10. Others(text) = Others(L)
  BY <1>1, OthersMove
<1>11. \/ Others(bare) = Others(L)
       \/ /\ locate(L).tableIndex = 0
          /\ Others(bare) \in {Others(L) \o <<Header(TABLE, FALSE)>>,
                               Others(L) \o <<Empty, Header(TABLE, FALSE)>>}
  BY <1>1, OthersBare
<1>12. locate(L).tableIndex = 0 => locate(text).tableIndex = 0
  BY TableStays DEF L
<1> QED BY <1>4, <1>5, <1>7, <1>8, <1>9, <1>10, <1>11, <1>12

-----------------------------------------------------------------------------
(* The edits of the user and the writes, in any order.                       *)

IInv == file \in Texts /\ CargoLoads /\ WriteIsReadBack /\ WriteIsIdempotent

LEMMA InitHolds ==
  ASSUME Init
  PROVE  IInv
<1>1. file \in Texts /\ file = <<>>
  BY DEF Init, Texts
<1>2. Loads(file)
  <2>1. DOMAIN file = {} /\ Headers(file) = {} /\ Inline(file) = {} /\ DottedAtTop(file) = {}
    BY <1>1 DEF Headers, Inline, DottedAtTop
  <2> QED BY <2>1 DEF Loads
<1> QED BY <1>1, <1>2 DEF Init, IInv, CargoLoads, WriteIsReadBack, WriteIsIdempotent

LEMMA WriteHolds ==
  ASSUME IInv, NEW duration \in Durations, NEW list \in ExcludeLists, Write(duration, list)
  PROVE  IInv'
<1>1. file' = Written(file, duration, list) /\ last' = [duration |-> duration, excludes |-> list]
      /\ file \in Texts /\ (Recognised(file) => Loads(file))
  BY DEF Write, IInv, CargoLoads
<1>2. /\ file' \in Texts /\ (Recognised(file') => Loads(file') /\ Settings(file') = {duration})
      /\ value(file') = duration /\ excludes(file') = {list} \ {None}
      /\ Written(file', duration, list) = file'
  BY <1>1, WriteDoes
<1>3. last'.duration = duration /\ last'.excludes = list
  BY <1>1
<1> QED BY <1>2, <1>3 DEF IInv, CargoLoads, WriteIsReadBack, WriteIsIdempotent

LEMMA EditHolds ==
  ASSUME NEW text \in Texts, Edit(text)
  PROVE  IInv'
BY DEF Edit, IInv, CargoLoads, WriteIsReadBack, WriteIsIdempotent

LEMMA InsertHolds ==
  ASSUME IInv, NEW k \in 1 .. Len(file) + 1, NEW line \in UserLines, Insert(k, line)
  PROVE  IInv'
<1>1. Len(file) \in Nat /\ \A i \in 1 .. Len(file) : file[i] \in Line
  BY IsText DEF IInv
<1>2. SubSeq(file, 1, k - 1) \in Texts /\ SubSeq(file, k, Len(file)) \in Texts
  BY <1>1, SubSeqProperties DEF Texts
<1>3. <<line>> \in Texts
  <2>1. line \in Line
    BY DEF Line
  <2> QED BY <2>1, OneLine DEF Texts
<1>4. InsertAt(file, k, line) \in Texts
  BY <1>2, <1>3, Joined DEF InsertAt
<1> QED BY <1>4, EditHolds DEF Insert

LEMMA DeleteHolds ==
  ASSUME IInv, NEW k \in DOMAIN file, Delete(k)
  PROVE  IInv'
<1>1. Len(file) \in Nat /\ (\A i \in 1 .. Len(file) : file[i] \in Line) /\ k \in 1 .. Len(file)
  BY IsText DEF IInv
<1>2. SubSeq(file, 1, k - 1) \in Seq(Line) /\ SubSeq(file, k + 1, Len(file)) \in Seq(Line)
  BY <1>1, SubSeqProperties
<1>3. RemoveAt(file, k) \in Texts
  BY <1>2, ConcatProperties DEF RemoveAt, Texts
<1> QED BY <1>3, EditHolds DEF Delete

\* The inductive invariant: the file has lines of the known kinds and what was written
\* last is still there as it was written.
THEOREM Inductive == Spec => []IInv
<1>1. ASSUME IInv, [Next]_vars PROVE IInv'
  <2>1. ASSUME NEW duration \in Durations, NEW list \in ExcludeLists, Write(duration, list) PROVE IInv'
    BY <1>1, <2>1, WriteHolds
  <2>2. ASSUME NEW k \in 1 .. Len(file) + 1, NEW line \in UserLines, Insert(k, line) PROVE IInv'
    BY <1>1, <2>2, InsertHolds
  <2>3. ASSUME NEW k \in DOMAIN file, Delete(k) PROVE IInv'
    BY <1>1, <2>3, DeleteHolds
  <2>4. CASE UNCHANGED vars
    BY <1>1, <2>4 DEF vars, IInv, CargoLoads, WriteIsReadBack, WriteIsIdempotent
  <2> QED BY <1>1, <2>1, <2>2, <2>3, <2>4 DEF Next
<1> QED BY <1>1, InitHolds, PTL DEF Spec

\* Whatever lines the user types and however long the file: after writes and edits in any
\* order cargo loads the file.
THEOREM CargoStillLoads == Spec => []CargoLoads
<1>1. IInv => CargoLoads
  BY DEF IInv
<1> QED BY <1>1, Inductive, PTL

\* The value the reader reports is the one cargo uses, and it reports none where cargo
\* has none.
THEOREM ReaderIsRight == Spec => []ReaderAgrees
<1>1. IInv => ReaderAgrees
  BY ReaderIsRightOn DEF IInv, CargoLoads, ReaderAgrees
<1> QED BY <1>1, Inductive, PTL

\* What was written is read back: the threshold, and the exclude list through its marker.
THEOREM WrittenIsRead == Spec => []WriteIsReadBack
<1>1. IInv => WriteIsReadBack
  BY DEF IInv
<1> QED BY <1>1, Inductive, PTL

\* Writing the same again changes nothing.
THEOREM WritingAgain == Spec => []WriteIsIdempotent
<1>1. IInv => WriteIsIdempotent
  BY DEF IInv
<1> QED BY <1>1, Inductive, PTL

\* A write leaves the user's lines as they are and in their order, but for a table it
\* adds at the end when there is no place for the setting.
THEOREM LinesStay == Spec => UserLinesKept
<1>1. ASSUME IInv, [Next]_vars
      PROVE  [last' # NoWrite =>
                \/ Others(file') = Others(file)
                \/ /\ locate(file).tableIndex = 0
                   /\ Others(file') \in {Others(file) \o <<Header(TABLE, FALSE)>>,
                                         Others(file) \o <<Empty, Header(TABLE, FALSE)>>}]_vars
  <2>1. ASSUME NEW duration \in Durations, NEW list \in ExcludeLists, Write(duration, list)
        PROVE  \/ Others(file') = Others(file)
               \/ /\ locate(file).tableIndex = 0
                  /\ Others(file') \in {Others(file) \o <<Header(TABLE, FALSE)>>,
                                        Others(file) \o <<Empty, Header(TABLE, FALSE)>>}
    BY <1>1, <2>1, WriteDoes DEF Write, IInv
  <2>2. ASSUME NEW k \in 1 .. Len(file) + 1, NEW line \in UserLines, Insert(k, line) PROVE last' = NoWrite
    BY <2>2 DEF Insert, Edit
  <2>3. ASSUME NEW k \in DOMAIN file, Delete(k) PROVE last' = NoWrite
    BY <2>3 DEF Delete, Edit
  <2> QED BY <1>1, <2>1, <2>2, <2>3 DEF Next
<1> QED BY <1>1, Inductive, PTL DEF Spec, UserLinesKept
=============================================================================
