------------------------------- MODULE GitSide -------------------------------
(***************************************************************************)
(* How a pin gets the git tree it is compared with: the candidates of      *)
(* src/src/git-tree.js asked one after the other, the page loops of        *)
(* src/src/hosts.js behind each, and the cache in front of them that the   *)
(* workers of a run share (cachedGitTree in src/src/scanner.js).           *)
(*                                                                         *)
(* An action is one reply of the host, the retries of fetchRetry behind    *)
(* it, and what the program does until its next request.                   *)
(***************************************************************************)
EXTENDS Integers, Sequences, FiniteSets

CONSTANTS
  Files,     \* the paths there are
  Pins,      \* records name, version, repository (the attested one where there is
             \* one), attested, vcs; "" for no commit
  Hosted,    \* supported repositories: what tree each of their refs has
  Crate,     \* for every pin, the files of its artifact
  MaxPages,  \* MAX_PAGES
  Faults     \* what the host may do wrong: "refused", "limited", "broken"

\* A tree is listed page by page; what is hidden is on no page, and the host says so.
GitTrees == [pages : Seq(SUBSET Files) \ {<<>>}, hidden : SUBSET Files]
Whole(tree) == tree.hidden \union UNION {tree.pages[k] : k \in DOMAIN tree.pages}

ASSUME MaxPagesAssumption == MaxPages \in Nat \ {0}
ASSUME FaultsAssumption == Faults \subseteq {"refused", "limited", "broken"}
ASSUME CrateAssumption == Crate \in [Pins -> SUBSET Files]
ASSUME HostedAssumption ==
  \A repository \in DOMAIN Hosted : \A ref \in DOMAIN Hosted[repository] :
    Hosted[repository][ref] \in GitTrees

Commit(sha) == [form |-> "commit", name |-> sha, version |-> ""]
Tag(form, name, version) == [form |-> form, name |-> name, version |-> version]

Tags(p) == <<Tag("v{ver}", "", p.version), Tag("{ver}", "", p.version),
             Tag("{name}-{ver}", p.name, p.version), Tag("{name}-v{ver}", p.name, p.version)>>

\* Mutant: the publisher's own commit first.
VcsFirst(p) == (IF p.vcs # "" THEN <<Commit(p.vcs)>> ELSE <<>>)
               \o (IF p.attested \notin {"", p.vcs} THEN <<Commit(p.attested)>> ELSE <<>>)
               \o Tags(p)

\* The references to try, strongest first.
refs(p) == (IF p.attested # "" THEN <<Commit(p.attested)>> ELSE <<>>)
           \o (IF p.vcs \notin {"", p.attested} THEN <<Commit(p.vcs)>> ELSE <<>>)
           \o Tags(p)

\* The cache key: the strongest commit, else the version, and no crate name.
preKey(p) == [repository |-> p.repository,
              anchor |-> IF p.attested # "" THEN Commit(p.attested)
                         ELSE IF p.vcs # "" THEN Commit(p.vcs)
                         ELSE Tag("v{ver}", "", p.version)]
Keys == {preKey(p) : p \in Pins}

VARIABLES
  at,       \* for every pin: "waiting", "asking" or "done"
  trying,   \* the candidate a pin's lookup is at
  page,     \* and the page it has asked for
  listed,   \* the files of the pages it has
  gt,       \* what the lookup came to
  cache,    \* treeCache
  limited,  \* state.gitRateLimited
  refused,  \* history: <<repository, ref>> whose first page the host refused
  cut       \* history: those of which it refused a later page

vars == <<at, trying, page, listed, gt, cache, limited, refused, cut>>

NoRef == Tag("", "", "")
Outcome(kind) == [kind |-> kind, ref |-> NoRef, files |-> {}, truncated |-> FALSE]
Nothing == Outcome("nothing")

Supported(p) == p.repository \in DOMAIN Hosted
Ref(p) == refs(p)[trying[p]]
Asked(p) == <<p.repository, Ref(p)>>
Exists(asked) == asked[2] \in DOMAIN Hosted[asked[1]]
TreeOf(asked) == Hosted[asked[1]][asked[2]]

Init ==
  /\ at = [p \in Pins |-> "waiting"]
  /\ trying = [p \in Pins |-> 1] /\ page = [p \in Pins |-> 1]
  /\ listed = [p \in Pins |-> {}]
  /\ gt = [p \in Pins |-> Nothing]
  /\ cache = [key \in Keys |-> Nothing]
  /\ limited = FALSE
  /\ refused = {} /\ cut = {}

Settle(p, outcome) ==
  /\ at' = [at EXCEPT ![p] = "done"]
  /\ gt' = [gt EXCEPT ![p] = outcome]
  /\ UNCHANGED <<trying, page, listed>>

\* fetchGitTree returns, and cachedGitTree stores what it returned.
Found(p, outcome) == Settle(p, outcome) /\ cache' = [cache EXCEPT ![preKey(p)] = outcome]

HaveTree(p, files, truncated) ==
  Found(p, [kind |-> "tree", ref |-> Ref(p), files |-> files, truncated |-> truncated])

AskFor(p, candidate, k, files) ==
  /\ at' = [at EXCEPT ![p] = "asking"]
  /\ trying' = [trying EXCEPT ![p] = candidate]
  /\ page' = [page EXCEPT ![p] = k]
  /\ listed' = [listed EXCEPT ![p] = files]
  /\ UNCHANGED <<gt, cache>>

\* Mutant: after the last candidate the first one again.
WrapAround(p) == AskFor(p, (trying[p] % Len(refs(p))) + 1, 1, {})

\* Any other status moves on to the next reference; after the last there is no tree.
TryNext(p) ==
  \/ trying[p] < Len(refs(p)) /\ AskFor(p, trying[p] + 1, 1, {})
  \/ trying[p] = Len(refs(p)) /\ Found(p, Outcome("none"))

-----------------------------------------------------------------------------
(* compareArtifact comes to the git side.                                    *)

Skip(p) ==
  /\ at[p] = "waiting" /\ limited
  /\ Settle(p, Outcome("skipped"))
  /\ UNCHANGED <<cache, limited, refused, cut>>

Reuse(p) ==
  /\ at[p] = "waiting" /\ ~limited
  /\ cache[preKey(p)] # Nothing
  /\ Settle(p, cache[preKey(p)])
  /\ UNCHANGED <<cache, limited, refused, cut>>

\* resolveHost knows no provider for the repository.
NoProvider(p) ==
  /\ at[p] = "waiting" /\ ~limited
  /\ cache[preKey(p)] = Nothing /\ ~Supported(p)
  /\ Found(p, Outcome("none"))
  /\ UNCHANGED <<limited, refused, cut>>

Ask(p) ==
  /\ at[p] = "waiting" /\ ~limited
  /\ cache[preKey(p)] = Nothing /\ Supported(p)
  /\ AskFor(p, 1, 1, {})
  /\ UNCHANGED <<limited, refused, cut>>

-----------------------------------------------------------------------------
(* The host replies.                                                         *)

\* Mutant: the page loop has no limit.
NoPageLimit(p) ==
  /\ at[p] = "asking" /\ Exists(Asked(p))
  /\ page[p] < Len(TreeOf(Asked(p)).pages)
  /\ AskFor(p, trying[p], page[p] + 1, listed[p] \union TreeOf(Asked(p)).pages[page[p]])
  /\ UNCHANGED <<limited, refused, cut>>

\* A page that is not the last one.
NextPage(p) ==
  /\ at[p] = "asking" /\ Exists(Asked(p))
  /\ page[p] < Len(TreeOf(Asked(p)).pages) /\ page[p] < MaxPages
  /\ AskFor(p, trying[p], page[p] + 1, listed[p] \union TreeOf(Asked(p)).pages[page[p]])
  /\ UNCHANGED <<limited, refused, cut>>

\* Mutant: reaching the page limit goes unnoticed.
CapUnnoticed(p) ==
  /\ at[p] = "asking" /\ Exists(Asked(p))
  /\ page[p] \in {Len(TreeOf(Asked(p)).pages), MaxPages}
  /\ HaveTree(p, listed[p] \union TreeOf(Asked(p)).pages[page[p]],
              TreeOf(Asked(p)).hidden # {})
  /\ UNCHANGED <<limited, refused, cut>>

\* The last page there is, or the last one the loop allows.
LastPage(p) ==
  /\ at[p] = "asking" /\ Exists(Asked(p))
  /\ page[p] \in {Len(TreeOf(Asked(p)).pages), MaxPages}
  /\ HaveTree(p, listed[p] \union TreeOf(Asked(p)).pages[page[p]],
              TreeOf(Asked(p)).hidden # {} \/ page[p] < Len(TreeOf(Asked(p)).pages))
  /\ UNCHANGED <<limited, refused, cut>>

\* 404 for the reference.
Missing(p) ==
  /\ at[p] = "asking" /\ ~Exists(Asked(p))
  /\ TryNext(p)
  /\ UNCHANGED <<limited, refused, cut>>

\* Any other status than 200 that is no rate limit, a 5xx after its retries.
Refused(p) ==
  /\ "refused" \in Faults /\ at[p] = "asking" /\ Exists(Asked(p))
  /\ \/ /\ page[p] = 1 /\ TryNext(p)
        /\ refused' = refused \union {Asked(p)} /\ cut' = cut
     \/ /\ page[p] > 1 /\ HaveTree(p, listed[p], TreeOf(Asked(p)).hidden # {})
        /\ cut' = cut \union {Asked(p)} /\ refused' = refused
  /\ UNCHANGED limited

\* Mutant: a rate limit is one more status that is not 200.
LimitIsMissing(p) ==
  /\ "limited" \in Faults /\ at[p] = "asking" /\ page[p] = 1
  /\ TryNext(p)
  /\ UNCHANGED <<limited, refused, cut>>

\* 403 or 429.  Only on the first page does the program see a rate limit in it.
Limited(p) ==
  /\ "limited" \in Faults /\ at[p] = "asking"
  /\ \/ /\ page[p] = 1 /\ Settle(p, Outcome("limited"))
        /\ limited' = TRUE /\ UNCHANGED <<cache, cut>>
     \/ /\ page[p] > 1 /\ HaveTree(p, listed[p], TreeOf(Asked(p)).hidden # {})
        /\ cut' = cut \union {Asked(p)} /\ UNCHANGED limited
  /\ UNCHANGED refused

\* The request fails for good, or its body is no JSON: the comparison fails.
Broken(p) ==
  /\ "broken" \in Faults /\ at[p] = "asking"
  /\ Settle(p, Outcome("error"))
  /\ UNCHANGED <<cache, limited, refused, cut>>

Reply(p) == \/ NextPage(p) \/ LastPage(p) \/ Missing(p)
            \/ Refused(p) \/ Limited(p) \/ Broken(p)
Step(p) == Skip(p) \/ Reuse(p) \/ NoProvider(p) \/ Ask(p) \/ Reply(p)

Next == \E p \in Pins : Step(p)

Spec == Init /\ [][Next]_vars

\* Every request ends in a reply or an error.
Fairness == \A p \in Pins : WF_vars(Step(p))
FairSpec == Spec /\ Fairness

-----------------------------------------------------------------------------
(* Properties.                                                               *)

Outcomes == [kind : {"nothing", "skipped", "none", "tree", "limited", "error"},
             ref : {NoRef} \union UNION {{refs(p)[k] : k \in DOMAIN refs(p)} : p \in Pins},
             files : SUBSET Files, truncated : BOOLEAN]

TypeOK ==
  /\ at \in [Pins -> {"waiting", "asking", "done"}]
  /\ trying \in [Pins -> Nat] /\ \A p \in Pins : trying[p] \in DOMAIN refs(p)
  /\ page \in [Pins -> 1 .. MaxPages]
  /\ listed \in [Pins -> SUBSET Files]
  /\ gt \in [Pins -> Outcomes]
  /\ cache \in [Keys -> Outcomes]
  /\ limited \in BOOLEAN

\* A candidate was not there, or the host refused it.
Passed(p, ref) == ~Exists(<<p.repository, ref>>) \/ <<p.repository, ref>> \in refused

\* The commits of a pin that say more about its source than a reference does.
Commits(p) == {Commit(sha) : sha \in {p.attested, p.vcs} \ {""}}
Stronger(p, ref) == IF ref = Commit(p.attested) THEN {}
                    ELSE IF ref = Commit(p.vcs) THEN Commits(p) \ {ref}
                    ELSE Commits(p)

\* README: cargo-witness "compares against the strongest source anchor available, in
\* order", the attested commit before the publisher's own, commits before tags.  What
\* the cache holds is the outcome of such a search for some pin of that key: neither a
\* rate limit nor an error passes for a missing reference.
StrongestAnchor ==
  \A key \in Keys : cache[key].kind \in {"tree", "none"} =>
    \E p \in Pins :
      /\ preKey(p) = key
      /\ Supported(p) =>
           IF cache[key].kind = "tree"
           THEN \A ref \in Stronger(p, cache[key].ref) : Passed(p, ref)
           ELSE \A ref \in Commits(p) \union {Tags(p)[k] : k \in DOMAIN Tags(p)} : Passed(p, ref)

\* differ.js: the crate has to be found in the tree, and an incomplete tree proves no
\* absence.
Located(p) == LET hits == Crate[p] \intersect gt[p].files
              IN  2 * Cardinality(hits) >= Cardinality(Crate[p])
NotInGit(p) == IF gt[p].kind = "tree" /\ ~gt[p].truncated /\ Located(p)
               THEN Crate[p] \ gt[p].files ELSE {}
ReallyMissing(p) == Crate[p] \ Whole(TreeOf(<<p.repository, gt[p].ref>>))

\* A file reported missing from the reference that was compared really is, whatever the
\* page limit and the host's truncation left out, unless a later page was refused.
AbsencesAreReal ==
  \A p \in Pins :
    NotInGit(p) # {} => \/ NotInGit(p) \subseteq ReallyMissing(p)
                        \/ <<p.repository, gt[p].ref>> \in cut

\* Every lookup ends.
LookupsEnd == <>(\A p \in Pins : at[p] = "done")

-----------------------------------------------------------------------------
(* Properties the documentation states and the code does not keep.           *)

\* differ.js: "A truncated tree can't prove a file is absent, so we suppress
\* absence-based flags".  No page that is missing makes a file absent.
NoFalseAbsence ==
  \A p \in Pins : NotInGit(p) # {} => NotInGit(p) \subseteq ReallyMissing(p)
=============================================================================
