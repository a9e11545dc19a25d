---------------------------- MODULE GitSideProofs ----------------------------
(***************************************************************************)
(* GitSide, for every set of pins and every content of the hosts: types,   *)
(* no weaker reference while a stronger one can be had, and no absence     *)
(* that is not one.                                                        *)
(***************************************************************************)
EXTENDS GitSide, TLAPS

\* What a lookup under way knows: the candidates before its own are passed, and it has
\* listed all pages before the one it asks for.
Search(p) ==
  at[p] = "asking" =>
    /\ Supported(p)
    /\ \A k \in 1 .. trying[p] - 1 : Passed(p, refs(p)[k])
    /\ Exists(Asked(p)) =>
         /\ page[p] <= Len(TreeOf(Asked(p)).pages)
         /\ \A k \in 1 .. page[p] - 1 : TreeOf(Asked(p)).pages[k] \subseteq listed[p]

\* A tree that is not marked truncated is whole, unless a page of it was refused.
Complete(repository, outcome) ==
  /\ outcome.kind = "tree" /\ ~outcome.truncated /\ <<repository, outcome.ref>> \notin cut
  => Whole(TreeOf(<<repository, outcome.ref>>)) \subseteq outcome.files

\* What StrongestAnchor says of one pin and one outcome.
Anchored(p, outcome) ==
  Supported(p) =>
    IF outcome.kind = "tree"
    THEN \A ref \in Stronger(p, outcome.ref) : Passed(p, ref)
    ELSE \A ref \in Commits(p) \union {Tags(p)[k] : k \in DOMAIN Tags(p)} : Passed(p, ref)

GitInv ==
  /\ \A p \in Pins : Search(p) /\ Complete(p.repository, gt[p])
  /\ \A key \in Keys : Complete(key.repository, cache[key])
  /\ StrongestAnchor

Inv == TypeOK /\ GitInv

-----------------------------------------------------------------------------
(* The candidates.                                                           *)

LEMMA References ==
  ASSUME NEW p \in Pins
  PROVE  LET a == Commit(p.attested)
             v == Commit(p.vcs)
             T == {Tags(p)[k] : k \in DOMAIN Tags(p)}
         IN  /\ a = v <=> p.attested = p.vcs
             /\ a \notin T /\ v \notin T
<1>1. \A sha : Commit(sha).form = "commit" /\ Commit(sha).name = sha
  BY DEF Commit
<1>2. \A form, name, version : form # "commit" => Tag(form, name, version).form # "commit"
  BY DEF Tag
<1>3. ASSUME NEW k \in DOMAIN Tags(p)
      PROVE  Tags(p)[k].form # "commit"
  <2>1. CASE k = 1
    <3>1. Tags(p)[1] = Tag("v{ver}", "", p.version)
      BY DEF Tags
    <3>2. "v{ver}" # "commit"
      OBVIOUS
    <3> QED BY <2>1, <3>1, <3>2, <1>2, Zenon
  <2>2. CASE k = 2
    <3>1. Tags(p)[2] = Tag("{ver}", "", p.version)
      BY DEF Tags
    <3>2. "{ver}" # "commit"
      OBVIOUS
    <3> QED BY <2>2, <3>1, <3>2, <1>2, Zenon
  <2>3. CASE k = 3
    <3>1. Tags(p)[3] = Tag("{name}-{ver}", p.name, p.version)
      BY DEF Tags
    <3>2. "{name}-{ver}" # "commit"
      OBVIOUS
    <3> QED BY <2>3, <3>1, <3>2, <1>2, Zenon
  <2>4. CASE k = 4
    <3>1. Tags(p)[4] = Tag("{name}-v{ver}", p.name, p.version)
      BY DEF Tags
    <3>2. "{name}-v{ver}" # "commit"
      OBVIOUS
    <3> QED BY <2>4, <3>1, <3>2, <1>2, Zenon
  <2>5. DOMAIN Tags(p) = 1 .. 4
    BY DEF Tags
  <2> QED BY <2>1, <2>2, <2>3, <2>4, <2>5
<1> QED BY <1>1, <1>3

\* Every reference is a candidate, behind those that are stronger.
LEMMA RefsShape ==
  ASSUME NEW p \in Pins
  PROVE  /\ Len(refs(p)) \in Nat \ {0} /\ DOMAIN refs(p) = 1 .. Len(refs(p))
         /\ \A k \in DOMAIN refs(p) : \A ref \in Stronger(p, refs(p)[k]) :
              \E l \in 1 .. k - 1 : refs(p)[l] = ref
         /\ \A ref \in Commits(p) \union {Tags(p)[k] : k \in DOMAIN Tags(p)} :
              \E l \in DOMAIN refs(p) : refs(p)[l] = ref
<1> DEFINE a == Commit(p.attested)
           v == Commit(p.vcs)
           T == Tags(p)
           R == {T[k] : k \in DOMAIN T}
           S == {a, v} \union R
<1>1. T \in Seq(S) /\ Len(T) = 4 /\ DOMAIN T = 1 .. 4
  <2>1. Len(T) = 4 /\ DOMAIN T = 1 .. 4 /\ T \in Seq(R)
    <3>1. PICK t1, t2, t3, t4 : T = <<t1, t2, t3, t4>>
      BY DEF Tags
    <3> QED BY <3>1
  <2> QED BY <2>1
<1>2. (a = v <=> p.attested = p.vcs) /\ a \notin R /\ v \notin R
  BY References
<1>3. Commits(p) = (IF p.attested # "" THEN {a} ELSE {})
                   \union (IF p.vcs # "" THEN {v} ELSE {})
  BY DEF Commits
<1>4. /\ Stronger(p, a) = {}
      /\ a # v => Stronger(p, v) = Commits(p) \ {v}
      /\ \A ref \in R : Stronger(p, ref) = Commits(p)
  BY <1>2 DEF Stronger
<1>5. refs(p) = (IF p.attested # "" THEN <<a>> ELSE <<>>)
                \o (IF p.vcs \notin {"", p.attested} THEN <<v>> ELSE <<>>) \o T
  BY DEF refs
<1> HIDE DEF a, v, T
<1>10. a \in S /\ v \in S
  OBVIOUS
<1>6. CASE p.attested # "" /\ p.vcs \notin {"", p.attested}
  <2>1. /\ refs(p) \in Seq(S) /\ Len(refs(p)) = 6 /\ refs(p)[1] = a /\ refs(p)[2] = v
        /\ \A k \in 1 .. 4 : refs(p)[2 + k] = T[k]
    <3>1. PICK s : s = <<a>> \o <<v>>
      OBVIOUS
    <3>2. refs(p) = s \o T
      BY <1>5, <1>6, <3>1
    <3> HIDE DEF S
    <3>3. s \in Seq(S) /\ Len(s) = 2 /\ s[1] = a /\ s[2] = v
      BY <3>1, <1>10
    <3>4. s \in Seq(S) /\ T \in Seq(S)
      BY <3>3, <1>1
    <3>5. /\ s \o T \in Seq(S) /\ Len(s \o T) = Len(s) + Len(T)
          /\ \A k \in 1 .. Len(s) : (s \o T)[k] = s[k]
          /\ \A k \in 1 .. Len(T) : (s \o T)[Len(s) + k] = T[k]
      BY <3>4
    <3> QED BY <3>2, <3>3, <3>5, <1>1
  <2>2. DOMAIN refs(p) = 1 .. 6
    BY <2>1
  <2>3. ASSUME NEW k \in DOMAIN refs(p), NEW ref \in Stronger(p, refs(p)[k])
        PROVE  \E l \in 1 .. k - 1 : refs(p)[l] = ref
    <3>1. CASE k = 1
      BY <3>1, <2>1, <1>4
    <3>2. CASE k = 2
      <4>1. Stronger(p, v) \subseteq {a}
        BY <1>2, <1>3, <1>4, <1>6
      <4>2. ref = a
        BY <3>2, <2>1, <4>1
      <4> QED BY <4>2, <3>2, <2>1
    <3>3. CASE k \in 3 .. 6
      <4>1. refs(p)[k] \in R
        <5>1. PICK m \in 1 .. 4 : k = 2 + m
          BY <3>3
        <5> QED BY <5>1, <2>1, <1>1
      <4>2. ref \in {a, v}
        BY <4>1, <1>3, <1>4
      <4> QED BY <4>2, <3>3, <2>1
    <3> QED BY <3>1, <3>2, <3>3, <2>2
  <2>4. ASSUME NEW ref \in Commits(p) \union R
        PROVE  \E l \in DOMAIN refs(p) : refs(p)[l] = ref
    <3>1. CASE ref \in R
      <4>1. PICK m \in 1 .. 4 : ref = T[m]
        BY <3>1, <1>1
      <4> QED BY <4>1, <2>1, <2>2
    <3>2. CASE ref \in {a, v}
      BY <3>2, <2>1, <2>2
    <3> QED BY <3>1, <3>2, <1>3
  <2> QED BY <2>1, <2>2, <2>3, <2>4 DEF T
<1>7. CASE p.attested # "" /\ p.vcs \in {"", p.attested}
  <2>1. /\ refs(p) \in Seq(S) /\ Len(refs(p)) = 5 /\ refs(p)[1] = a
        /\ \A k \in 1 .. 4 : refs(p)[1 + k] = T[k]
    <3>1. PICK s : s = <<a>> \o <<>>
      OBVIOUS
    <3>2. refs(p) = s \o T
      BY <1>5, <1>7, <3>1
    <3> HIDE DEF S
    <3>3. s \in Seq(S) /\ Len(s) = 1 /\ s[1] = a
      BY <3>1, <1>10
    <3>4. s \in Seq(S) /\ T \in Seq(S)
      BY <3>3, <1>1
    <3>5. /\ s \o T \in Seq(S) /\ Len(s \o T) = Len(s) + Len(T)
          /\ \A k \in 1 .. Len(s) : (s \o T)[k] = s[k]
          /\ \A k \in 1 .. Len(T) : (s \o T)[Len(s) + k] = T[k]
      BY <3>4
    <3> QED BY <3>2, <3>3, <3>5, <1>1
  <2>2. DOMAIN refs(p) = 1 .. 5
    BY <2>1
  <2>3. Commits(p) = {a}
    BY <1>2, <1>3, <1>7
  <2>4. ASSUME NEW k \in DOMAIN refs(p), NEW ref \in Stronger(p, refs(p)[k])
        PROVE  \E l \in 1 .. k - 1 : refs(p)[l] = ref
    <3>1. CASE k = 1
      BY <3>1, <2>1, <2>3, <1>2, <1>4, <1>7
    <3>2. CASE k \in 2 .. 5
      <4>1. refs(p)[k] \in R
        <5>1. PICK m \in 1 .. 4 : k = 1 + m
          BY <3>2
        <5> QED BY <5>1, <2>1, <1>1
      <4>2. ref = a
        BY <4>1, <2>3, <1>4
      <4> QED BY <4>2, <3>2, <2>1
    <3> QED BY <3>1, <3>2, <2>2
  <2>5. ASSUME NEW ref \in Commits(p) \union R
        PROVE  \E l \in DOMAIN refs(p) : refs(p)[l] = ref
    BY <2>1, <2>2, <2>3, <1>1
  <2> QED BY <2>1, <2>2, <2>4, <2>5 DEF T
<1>8. CASE p.attested = "" /\ p.vcs # ""
  <2>1. /\ refs(p) \in Seq(S) /\ Len(refs(p)) = 5 /\ refs(p)[1] = v
        /\ \A k \in 1 .. 4 : refs(p)[1 + k] = T[k]
    <3>1. PICK s : s = <<>> \o <<v>>
      OBVIOUS
    <3>2. refs(p) = s \o T
      BY <1>5, <1>8, <3>1
    <3> HIDE DEF S
    <3>3. s \in Seq(S) /\ Len(s) = 1 /\ s[1] = v
      BY <3>1, <1>10
    <3>4. s \in Seq(S) /\ T \in Seq(S)
      BY <3>3, <1>1
    <3>5. /\ s \o T \in Seq(S) /\ Len(s \o T) = Len(s) + Len(T)
          /\ \A k \in 1 .. Len(s) : (s \o T)[k] = s[k]
          /\ \A k \in 1 .. Len(T) : (s \o T)[Len(s) + k] = T[k]
      BY <3>4
    <3> QED BY <3>2, <3>3, <3>5, <1>1
  <2>2. DOMAIN refs(p) = 1 .. 5
    BY <2>1
  <2>3. Commits(p) = {v}
    BY <1>2, <1>3, <1>8
  <2>4. ASSUME NEW k \in DOMAIN refs(p), NEW ref \in Stronger(p, refs(p)[k])
        PROVE  \E l \in 1 .. k - 1 : refs(p)[l] = ref
    <3>1. CASE k = 1
      BY <3>1, <2>1, <2>3, <1>2, <1>4, <1>8
    <3>2. CASE k \in 2 .. 5
      <4>1. refs(p)[k] \in R
        <5>1. PICK m \in 1 .. 4 : k = 1 + m
          BY <3>2
        <5> QED BY <5>1, <2>1, <1>1
      <4>2. ref = v
        BY <4>1, <2>3, <1>4
      <4> QED BY <4>2, <3>2, <2>1
    <3> QED BY <3>1, <3>2, <2>2
  <2>5. ASSUME NEW ref \in Commits(p) \union R
        PROVE  \E l \in DOMAIN refs(p) : refs(p)[l] = ref
    BY <2>1, <2>2, <2>3, <1>1
  <2> QED BY <2>1, <2>2, <2>4, <2>5 DEF T
<1>9. CASE p.attested = "" /\ p.vcs = ""
  <2>1. refs(p) = T
    <3>1. refs(p) = <<>> \o <<>> \o T
      BY <1>5, <1>9
    <3> QED BY <3>1, <1>1
  <2>2. Commits(p) = {}
    BY <1>3, <1>9
  <2>3. \A k \in DOMAIN refs(p) : Stronger(p, refs(p)[k]) = {}
    BY <2>1, <2>2, <1>4
  <2> QED BY <2>1, <2>2, <2>3, <1>1 DEF T
<1> QED BY <1>6, <1>7, <1>8, <1>9

LEMMA TreeType ==
  ASSUME NEW p \in Pins, Supported(p), NEW ref, Exists(<<p.repository, ref>>)
  PROVE  LET tree == TreeOf(<<p.repository, ref>>)
         IN  /\ tree.pages \in Seq(SUBSET Files) /\ Len(tree.pages) \in Nat \ {0}
             /\ tree.hidden \in SUBSET Files
<1>1. TreeOf(<<p.repository, ref>>) \in GitTrees
  BY HostedAssumption DEF Supported, Exists, TreeOf
<1> QED BY <1>1 DEF GitTrees

LEMMA KeyOfPin == ASSUME NEW p \in Pins
                  PROVE  preKey(p) \in Keys /\ preKey(p).repository = p.repository
BY DEF Keys, preKey

LEMMA AnchorMeaning ==
  StrongestAnchor <=> \A key \in Keys : cache[key].kind \in {"tree", "none"} =>
                        \E p \in Pins : preKey(p) = key /\ Anchored(p, cache[key])
BY DEF StrongestAnchor, Anchored

-----------------------------------------------------------------------------
(* The three kinds of steps.                                                 *)

\* History only grows: what was passed stays so, what is whole stays so.
LEMMA HistoryGrows ==
  ASSUME refused \subseteq refused', cut \subseteq cut'
  PROVE  /\ \A p, ref : Passed(p, ref) => Passed(p, ref)'
         /\ \A p, outcome : Anchored(p, outcome) => Anchored(p, outcome)'
         /\ \A repository, outcome : Complete(repository, outcome) => Complete(repository, outcome)'
<1>1. \A p, ref : Passed(p, ref) => Passed(p, ref)'
  BY DEF Passed
<1>2. \A p, outcome : Anchored(p, outcome) => Anchored(p, outcome)'
  BY <1>1 DEF Anchored
<1>3. \A repository, outcome : Complete(repository, outcome) => Complete(repository, outcome)'
  BY DEF Complete
<1> QED BY <1>1, <1>2, <1>3

\* A lookup goes on with the next request.
LEMMA AskInv ==
  ASSUME Inv, NEW p \in Pins, NEW c \in DOMAIN refs(p), NEW k \in 1 .. MaxPages,
         NEW files \in SUBSET Files, AskFor(p, c, k, files),
         UNCHANGED <<limited, cut>>, refused \subseteq refused',
         Supported(p), \A l \in 1 .. c - 1 : Passed(p, refs(p)[l])',
         Exists(<<p.repository, refs(p)[c]>>) =>
           LET pages == TreeOf(<<p.repository, refs(p)[c]>>).pages
           IN  k <= Len(pages) /\ \A l \in 1 .. k - 1 : pages[l] \subseteq files
  PROVE  Inv'
<1> USE DEF Inv, GitInv
<1>1. TypeOK'
  BY RefsShape DEF TypeOK, AskFor
<1>2. /\ \A q \in Pins : /\ at'[q] = IF q = p THEN "asking" ELSE at[q]
                         /\ trying'[q] = IF q = p THEN c ELSE trying[q]
                         /\ page'[q] = IF q = p THEN k ELSE page[q]
                         /\ listed'[q] = IF q = p THEN files ELSE listed[q]
      /\ gt' = gt /\ cache' = cache
  BY <1>1 DEF AskFor, TypeOK
<1>3. ASSUME NEW q \in Pins PROVE Search(q)'
  <2>1. CASE q = p
    BY <2>1, <1>2 DEF Search, Asked, Ref
  <2>2. CASE q # p
    BY <2>2, <1>2, HistoryGrows DEF Search, Asked, Ref
  <2> QED BY <2>1, <2>2
<1>4. /\ \A q \in Pins : Complete(q.repository, gt[q])'
      /\ \A key \in Keys : Complete(key.repository, cache[key])'
  BY <1>2, HistoryGrows DEF Complete
<1>5. StrongestAnchor'
  BY <1>2, HistoryGrows, AnchorMeaning DEF StrongestAnchor, Passed
<1> QED BY <1>1, <1>3, <1>4, <1>5

\* A lookup ends without touching the cache.
LEMMA SettleInv ==
  ASSUME Inv, NEW p \in Pins, NEW outcome \in Outcomes, Settle(p, outcome),
         UNCHANGED <<cache, refused, cut>>, limited' \in BOOLEAN,
         Complete(p.repository, outcome)
  PROVE  Inv'
<1> USE DEF Inv, GitInv
<1>1. TypeOK'
  BY DEF TypeOK, Settle
<1>2. /\ \A q \in Pins : /\ at'[q] = IF q = p THEN "done" ELSE at[q]
                         /\ gt'[q] = IF q = p THEN outcome ELSE gt[q]
      /\ UNCHANGED <<trying, page, listed>>
  BY DEF Settle, TypeOK
<1>3. ASSUME NEW q \in Pins PROVE Search(q)' /\ Complete(q.repository, gt[q])'
  BY <1>2, HistoryGrows DEF Search, Asked, Ref, Complete
<1>4. StrongestAnchor' /\ \A key \in Keys : Complete(key.repository, cache[key])'
  BY DEF StrongestAnchor, Passed, Complete
<1> QED BY <1>1, <1>3, <1>4

\* It ends with what the search has come to.
LEMMA FoundInv ==
  ASSUME Inv, NEW p \in Pins, NEW outcome \in Outcomes, Found(p, outcome),
         UNCHANGED limited, refused \subseteq refused', cut \subseteq cut',
         outcome.kind \in {"tree", "none"},
         Anchored(p, outcome)', Complete(p.repository, outcome)'
  PROVE  Inv'
<1> USE DEF Inv, GitInv
<1>1. TypeOK'
  BY KeyOfPin DEF TypeOK, Found, Settle
<1>2. /\ \A q \in Pins : /\ at'[q] = IF q = p THEN "done" ELSE at[q]
                         /\ gt'[q] = IF q = p THEN outcome ELSE gt[q]
      /\ UNCHANGED <<trying, page, listed>>
      /\ \A key \in Keys : cache'[key] = IF key = preKey(p) THEN outcome ELSE cache[key]
  BY KeyOfPin DEF Found, Settle, TypeOK
<1>3. ASSUME NEW q \in Pins PROVE Search(q)' /\ Complete(q.repository, gt[q])'
  <2>1. Search(q)'
    BY <1>2, HistoryGrows DEF Search, Asked, Ref
  <2>2. Complete(q.repository, gt[q])'
    BY <1>2, HistoryGrows DEF Complete
  <2> QED BY <2>1, <2>2
<1>4. ASSUME NEW key \in Keys PROVE Complete(key.repository, cache[key])'
  BY <1>2, HistoryGrows, KeyOfPin DEF Complete
<1>5. ASSUME NEW key \in Keys, cache'[key].kind \in {"tree", "none"}
      PROVE  \E q \in Pins : preKey(q) = key /\ Anchored(q, cache[key])'
  <2>1. CASE key = preKey(p)
    BY <2>1, <1>2 DEF Anchored, Passed
  <2>2. CASE key # preKey(p)
    <3>1. cache'[key] = cache[key]
      BY <2>2, <1>2
    <3>2. PICK q \in Pins : preKey(q) = key /\ Anchored(q, cache[key])
      BY <3>1, <1>5, AnchorMeaning
    <3> QED BY <3>1, <3>2, HistoryGrows DEF Anchored, Passed
  <2> QED BY <2>1, <2>2
<1>6. StrongestAnchor'
  BY <1>5 DEF StrongestAnchor, Anchored
<1> QED BY <1>1, <1>3, <1>4, <1>6

-----------------------------------------------------------------------------
(* The replies.                                                              *)

\* The outcomes there are.
LEMMA OutcomeType ==
  ASSUME NEW p \in Pins
  PROVE  /\ \A kind \in {"nothing", "skipped", "none", "limited", "error"} :
              Outcome(kind) \in Outcomes /\ Outcome(kind).kind = kind
         /\ \A c \in DOMAIN refs(p), files \in SUBSET Files, truncated \in BOOLEAN :
              [kind |-> "tree", ref |-> refs(p)[c], files |-> files,
               truncated |-> truncated] \in Outcomes
BY DEF Outcome, Outcomes

LEMMA NextInv ==
  ASSUME Inv, NEW p \in Pins, NEW c, c = trying[p], at[p] = "asking", TryNext(p),
         UNCHANGED <<limited, cut>>, refused \subseteq refused', Passed(p, refs(p)[c])'
  PROVE  Inv'
<1>1. /\ c \in DOMAIN refs(p) /\ Supported(p)
      /\ \A l \in 1 .. c - 1 : Passed(p, refs(p)[l])
  BY DEF Inv, GitInv, TypeOK, Search
<1>0. ASSUME NEW l \in 1 .. c PROVE Passed(p, refs(p)[l])'
  <2>1. l = c \/ Passed(p, refs(p)[l])
    BY <1>1, RefsShape
  <2> QED BY <2>1, HistoryGrows
<1>2. CASE c < Len(refs(p)) /\ AskFor(p, c + 1, 1, {})
  <2>1. c + 1 \in DOMAIN refs(p) /\ 1 \in 1 .. MaxPages
    BY <1>1, <1>2, RefsShape, MaxPagesAssumption
  <2>2. \A l \in 1 .. (c + 1) - 1 : Passed(p, refs(p)[l])'
    BY <1>1, <1>0, RefsShape
  <2>3. Exists(<<p.repository, refs(p)[c + 1]>>) =>
          LET pages == TreeOf(<<p.repository, refs(p)[c + 1]>>).pages
          IN  1 <= Len(pages) /\ \A l \in 1 .. 1 - 1 : pages[l] \subseteq {}
    BY <1>1, TreeType
  <2> QED BY <1>1, <1>2, <2>1, <2>2, <2>3, AskInv
<1>3. CASE c = Len(refs(p)) /\ Found(p, Outcome("none"))
  <2>1. PICK o \in Outcomes : o = Outcome("none") /\ o.kind = "none"
    BY OutcomeType
  <2>2. ASSUME NEW ref \in Commits(p) \union {Tags(p)[k] : k \in DOMAIN Tags(p)}
        PROVE  Passed(p, ref)'
    BY <1>3, <1>0, RefsShape
  <2> QED BY <1>3, <2>1, <2>2, FoundInv DEF Anchored, Complete
<1> QED BY <1>2, <1>3 DEF TryNext

LEMMA TreeInv ==
  ASSUME Inv, NEW p \in Pins, at[p] = "asking",
         NEW files \in SUBSET Files, NEW truncated \in BOOLEAN, HaveTree(p, files, truncated),
         UNCHANGED <<limited, refused>>, cut \subseteq cut',
         ~truncated /\ Asked(p) \notin cut' => Whole(TreeOf(Asked(p))) \subseteq files
  PROVE  Inv'
<1> PICK c : c = trying[p]
  OBVIOUS
<1>1. /\ c \in DOMAIN refs(p)
      /\ \A l \in 1 .. c - 1 : Passed(p, refs(p)[l])
  BY DEF Inv, GitInv, TypeOK, Search
<1>2. PICK o \in Outcomes : o = [kind |-> "tree", ref |-> refs(p)[c], files |-> files,
                                truncated |-> truncated]
  BY <1>1, OutcomeType
<1>3. Found(p, o)
  BY <1>2 DEF HaveTree, Ref
<1>4. Anchored(p, o)
  BY <1>1, <1>2, RefsShape DEF Anchored
<1>5. Anchored(p, o)'
  BY <1>4, HistoryGrows
<1>6. Complete(p.repository, o)'
  BY <1>2 DEF Complete, Asked, Ref
<1> QED BY <1>2, <1>3, <1>5, <1>6, FoundInv

-----------------------------------------------------------------------------
(* The actions.                                                              *)

LEMMA InitInv == Init => Inv
<1> SUFFICES ASSUME Init PROVE Inv
  OBVIOUS
<1>1. \A p \in Pins : Nothing \in Outcomes /\ Nothing.kind = "nothing"
  BY OutcomeType DEF Nothing
<1>2. \A key \in Keys : Nothing \in Outcomes
  BY <1>1 DEF Keys
<1>3. \A p \in Pins : 1 \in DOMAIN refs(p)
  BY RefsShape
<1>4. TypeOK
  <2>1. gt \in [Pins -> Outcomes] /\ cache \in [Keys -> Outcomes]
    BY <1>1, <1>2 DEF Init
  <2>2. trying \in [Pins -> Nat] /\ \A p \in Pins : trying[p] \in DOMAIN refs(p)
    BY <1>3 DEF Init
  <2>3. page \in [Pins -> 1 .. MaxPages] /\ listed \in [Pins -> SUBSET Files]
    BY MaxPagesAssumption DEF Init
  <2>4. at \in [Pins -> {"waiting", "asking", "done"}] /\ limited \in BOOLEAN
    BY DEF Init
  <2> QED BY <2>1, <2>2, <2>3, <2>4 DEF TypeOK
<1>5. GitInv
  BY <1>1 DEF Init, GitInv, Search, Complete, StrongestAnchor, Keys
<1> QED BY <1>4, <1>5 DEF Inv

LEMMA BeginInv ==
  ASSUME Inv, NEW p \in Pins, Skip(p) \/ Reuse(p) \/ NoProvider(p) \/ Ask(p)
  PROVE  Inv'
<1>1. CASE Skip(p)
  <2>1. PICK o \in Outcomes : o = Outcome("skipped") /\ o.kind = "skipped"
    BY OutcomeType
  <2> QED BY <1>1, <2>1, SettleInv DEF Skip, Complete, Inv, TypeOK
<1>2. CASE Reuse(p)
  <2>1. PICK o \in Outcomes : o = cache[preKey(p)]
    BY KeyOfPin DEF Inv, TypeOK
  <2>2. Complete(p.repository, o)
    BY <2>1, KeyOfPin DEF Inv, GitInv
  <2> QED BY <1>2, <2>1, <2>2, SettleInv DEF Reuse, Inv, TypeOK
<1>3. CASE NoProvider(p)
  <2>1. PICK o \in Outcomes : o = Outcome("none") /\ o.kind = "none"
    BY OutcomeType
  <2>2. Anchored(p, o)' /\ Complete(p.repository, o)'
    BY <1>3, <2>1 DEF NoProvider, Anchored, Complete, Supported
  <2> QED BY <1>3, <2>1, <2>2, FoundInv DEF NoProvider
<1>4. CASE Ask(p)
  <2>1. 1 \in DOMAIN refs(p) /\ 1 \in 1 .. MaxPages
    BY RefsShape, MaxPagesAssumption
  <2>2. Exists(<<p.repository, refs(p)[1]>>) =>
          LET pages == TreeOf(<<p.repository, refs(p)[1]>>).pages
          IN  1 <= Len(pages) /\ \A l \in 1 .. 1 - 1 : pages[l] \subseteq {}
    BY <1>4, TreeType DEF Ask
  <2> QED BY <1>4, <2>1, <2>2, AskInv DEF Ask
<1> QED BY <1>1, <1>2, <1>3, <1>4

LEMMA ReplyInv ==
  ASSUME Inv, NEW p \in Pins, Reply(p)
  PROVE  Inv'
<1> PICK c : c = trying[p]
  OBVIOUS
<1> PICK k : k = page[p]
  OBVIOUS
<1> PICK ref : ref = refs(p)[c]
  OBVIOUS
<1> PICK asked : asked = <<p.repository, ref>>
  OBVIOUS
<1> PICK tree : tree = TreeOf(asked)
  OBVIOUS
<1>1. at[p] = "asking"
  BY DEF Reply, NextPage, LastPage, Missing, Refused, Limited, Broken
<1>2. /\ Supported(p) /\ Asked(p) = asked
      /\ c \in DOMAIN refs(p) /\ k \in 1 .. MaxPages /\ listed[p] \in SUBSET Files
      /\ \A l \in 1 .. c - 1 : Passed(p, refs(p)[l])
  BY <1>1 DEF Inv, GitInv, TypeOK, Search, Asked, Ref
<1>3. ASSUME Exists(asked)
      PROVE  /\ tree.pages \in Seq(SUBSET Files) /\ Len(tree.pages) \in Nat \ {0}
             /\ k <= Len(tree.pages)
             /\ \A l \in 1 .. k - 1 : tree.pages[l] \subseteq listed[p]
  <2>1. tree.pages \in Seq(SUBSET Files) /\ Len(tree.pages) \in Nat \ {0}
    BY <1>2, <1>3, TreeType
  <2>2. k <= Len(tree.pages) /\ \A l \in 1 .. k - 1 : tree.pages[l] \subseteq listed[p]
    BY <1>1, <1>2, <1>3 DEF Inv, GitInv, Search
  <2> QED BY <2>1, <2>2
<1>4. CASE NextPage(p)
  <2>1. Exists(asked) /\ k < Len(tree.pages) /\ k < MaxPages
    BY <1>2, <1>4 DEF NextPage
  <2>2. PICK files : files = listed[p] \union tree.pages[k]
    OBVIOUS
  <2>3. /\ files \in SUBSET Files /\ k + 1 \in 1 .. MaxPages
        /\ \A l \in 1 .. (k + 1) - 1 : tree.pages[l] \subseteq files
    <3>1. tree.pages[k] \subseteq Files
      BY <2>1, <1>2, <1>3
    <3>2. k + 1 \in 1 .. MaxPages
      BY <2>1, <1>2, MaxPagesAssumption
    <3>3. ASSUME NEW l \in 1 .. (k + 1) - 1 PROVE tree.pages[l] \subseteq files
      <4>1. l = k \/ l \in 1 .. k - 1
        BY <1>2, MaxPagesAssumption
      <4> QED BY <4>1, <2>1, <2>2, <1>3
    <3> QED BY <3>1, <3>2, <3>3, <2>2, <1>2
  <2>4. AskFor(p, c, k + 1, files)
    BY <1>2, <1>4, <2>2 DEF NextPage
  <2>5. \A l \in 1 .. c - 1 : Passed(p, refs(p)[l])'
    BY <1>2, <1>4 DEF NextPage, Passed
  <2>6. k + 1 <= Len(tree.pages)
    BY <2>1, <1>2, <1>3
  <2> QED BY <1>2, <1>4, <2>3, <2>4, <2>5, <2>6, AskInv DEF NextPage
<1>5. CASE LastPage(p)
  <2>1. Exists(asked) /\ k \in {Len(tree.pages), MaxPages}
    BY <1>2, <1>5 DEF LastPage
  <2>2. PICK files : files = listed[p] \union tree.pages[k]
    OBVIOUS
  <2>3. PICK truncated : truncated = (tree.hidden # {} \/ k < Len(tree.pages))
    OBVIOUS
  <2>4. tree.pages \in Seq(SUBSET Files) /\ k \in 1 .. Len(tree.pages)
    BY <2>1, <1>2, <1>3, MaxPagesAssumption
  <2>5. tree.pages[k] \subseteq Files
    BY <2>4
  <2>6. files \in SUBSET Files /\ truncated \in BOOLEAN
    BY <2>5, <2>2, <2>3, <1>2
  <2>7. HaveTree(p, files, truncated)
    BY <1>2, <1>5, <2>2, <2>3 DEF LastPage
  <2>8. ASSUME ~truncated PROVE Whole(tree) \subseteq files
    <3>1. tree.hidden = {} /\ k = Len(tree.pages)
      <4>1. tree.hidden = {} /\ ~(k < Len(tree.pages))
        BY <2>3, <2>8
      <4>2. k <= Len(tree.pages) /\ Len(tree.pages) \in Nat /\ k \in Nat
        BY <2>1, <1>3, <1>2, MaxPagesAssumption
      <4> QED BY <4>1, <4>2
    <3>2. \A l \in DOMAIN tree.pages : tree.pages[l] \subseteq files
      <4>1. ASSUME NEW l \in DOMAIN tree.pages PROVE l = k \/ l \in 1 .. k - 1
        BY <3>1, <2>4
      <4> QED BY <4>1, <2>1, <2>2, <1>3
    <3> QED BY <3>1, <3>2 DEF Whole
  <2> QED BY <1>1, <1>2, <1>5, <2>6, <2>7, <2>8, TreeInv DEF LastPage
<1>6. CASE Missing(p)
  <2>1. Passed(p, refs(p)[c])'
    BY <1>2, <1>6 DEF Missing, Passed
  <2> QED BY <1>1, <1>6, <2>1, NextInv DEF Missing
<1>7. CASE Refused(p)
  <2>1. CASE /\ page[p] = 1 /\ TryNext(p)
             /\ refused' = refused \union {Asked(p)} /\ cut' = cut
    <3>1. Passed(p, refs(p)[c])'
      BY <1>2, <2>1 DEF Passed
    <3> QED BY <1>1, <1>7, <2>1, <3>1, NextInv DEF Refused
  <2>2. CASE /\ HaveTree(p, listed[p], TreeOf(Asked(p)).hidden # {})
             /\ cut' = cut \union {Asked(p)} /\ refused' = refused
    <3>1. PICK files, truncated : files = listed[p] /\ truncated = (tree.hidden # {})
      OBVIOUS
    <3>2. /\ files \in SUBSET Files /\ truncated \in BOOLEAN
          /\ HaveTree(p, files, truncated) /\ Asked(p) \in cut'
      BY <2>2, <3>1, <1>2
    <3> QED BY <1>1, <1>7, <2>2, <3>2, TreeInv DEF Refused
  <2> QED BY <1>7, <2>1, <2>2 DEF Refused
<1>8. CASE Limited(p)
  <2>1. CASE Settle(p, Outcome("limited")) /\ limited' = TRUE /\ UNCHANGED <<cache, cut>>
    <3>1. PICK o \in Outcomes : o = Outcome("limited") /\ o.kind = "limited"
      BY OutcomeType
    <3> QED BY <1>8, <2>1, <3>1, SettleInv DEF Limited, Complete
  <2>2. CASE /\ HaveTree(p, listed[p], TreeOf(Asked(p)).hidden # {})
             /\ cut' = cut \union {Asked(p)} /\ UNCHANGED limited
    <3>1. PICK files, truncated : files = listed[p] /\ truncated = (tree.hidden # {})
      OBVIOUS
    <3>2. /\ files \in SUBSET Files /\ truncated \in BOOLEAN
          /\ HaveTree(p, files, truncated) /\ Asked(p) \in cut'
      BY <2>2, <3>1, <1>2
    <3> QED BY <1>1, <1>8, <2>2, <3>2, TreeInv DEF Limited
  <2> QED BY <1>8, <2>1, <2>2 DEF Limited
<1>9. CASE Broken(p)
  <2>1. PICK o \in Outcomes : o = Outcome("error") /\ o.kind = "error"
    BY OutcomeType
  <2> QED BY <1>9, <2>1, SettleInv DEF Broken, Complete, Inv, TypeOK
<1> QED BY <1>4, <1>5, <1>6, <1>7, <1>8, <1>9 DEF Reply

-----------------------------------------------------------------------------
(* The theorems.                                                             *)

LEMMA StutterInv == ASSUME Inv, UNCHANGED vars PROVE Inv'
<1> USE DEF vars, Inv
<1>1. TypeOK'
  BY DEF TypeOK
<1>2. GitInv'
  BY DEF GitInv, Search, Asked, Ref, Complete, StrongestAnchor, Passed
<1> QED BY <1>1, <1>2

\* The invariant holds in every reachable state.
THEOREM Invariance == Spec => []Inv
<1>1. Init => Inv
  BY InitInv
<1>2. Inv /\ [Next]_vars => Inv'
  BY BeginInv, ReplyInv, StutterInv DEF Next, Step
<1> QED BY <1>1, <1>2, PTL DEF Spec

\* Types, for every set of pins and every host.
THEOREM Typing == Spec => []TypeOK
<1>1. Inv => TypeOK
  BY DEF Inv
<1> QED BY <1>1, Invariance, PTL

\* The strongest reference that can be had is the one compared.
THEOREM StrongestIsCompared == Spec => []StrongestAnchor
<1>1. Inv => StrongestAnchor
  BY DEF Inv, GitInv
<1> QED BY <1>1, Invariance, PTL

\* A file that is reported missing is, unless a page of the tree was refused.
THEOREM AbsencesProved == Spec => []AbsencesAreReal
<1>1. Inv => AbsencesAreReal
  <2> SUFFICES ASSUME Inv, NEW p \in Pins, NotInGit(p) # {},
                      <<p.repository, gt[p].ref>> \notin cut
               PROVE  NotInGit(p) \subseteq ReallyMissing(p)
    BY DEF AbsencesAreReal
  <2>1. gt[p].kind = "tree" /\ ~gt[p].truncated /\ NotInGit(p) = Crate[p] \ gt[p].files
    BY DEF NotInGit
  <2>2. Whole(TreeOf(<<p.repository, gt[p].ref>>)) \subseteq gt[p].files
    BY <2>1 DEF Inv, GitInv, Complete
  <2> QED BY <2>1, <2>2 DEF ReallyMissing
<1> QED BY <1>1, Invariance, PTL
=============================================================================
