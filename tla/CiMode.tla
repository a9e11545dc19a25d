------------------------------- MODULE CiMode -------------------------------
(***************************************************************************)
(* runCi of src/src/ci.js: read the lockfile's git diff line by line, scan *)
(* the packages it adds, and turn their verdicts into an exit code and,    *)
(* in the Action (src/src/action.js), a summary.  The same commit may be   *)
(* checked again later, with the store of the first time.                  *)
(*                                                                         *)
(* The scan is the one of module Scanner; here a package's comparison is   *)
(* one step.  Findings are as severe as --fail-on asks for.                *)
(***************************************************************************)
EXTENDS Functions, LineDiff

CONSTANTS
  Locks,     \* the lockfiles: sequences of packages name, version, source, rest
  OnCratesIo,\* the <<name, version>> crates.io has
  Clean,     \* those of them whose artifact matches its git source
  Untagged,  \* those of them that have no git source
  MaxRuns    \* how often the commit is checked

\* alternate: a registry other than crates.io; sparse: one whose index has a sparse+ address;
\* git: no registry; unused: a [[patch.unused]] entry, which is no package of the build.
\* What cargo-lock.js takes for a registry:
Registries == {"crates.io", "alternate"}
Sources == Registries \union {"sparse", "git", "workspace", "unused"}
Pin(p) == <<p.name, p.version>>
Key(p) == <<p.name, p.version, p.source>>

\* What cargo writes behind the source: a checksum, a list of dependencies, or nothing.
\* Packages with equal lists have equal lines.
RestLines == {"rest"} \X STRING

\* cargo names and sorts what it writes: no package is there twice, and no two lockfiles have
\* their packages in different orders.
ASSUME LocksAssumption ==
  \A lock, other \in Locks :
    /\ lock \in Seq([name : STRING \ {""}, version : STRING \ {""}, source : Sources, rest : Seq(RestLines)])
    /\ \A k, l \in DOMAIN lock, m, n \in DOMAIN other :
         k < l /\ Key(lock[k]) = Key(other[m]) /\ Key(lock[l]) = Key(other[n]) => m < n
ASSUME RegistryAssumption == Clean \subseteq OnCratesIo /\ Untagged \subseteq OnCratesIo \ Clean

\* The lines of a lockfile.
Header(p) == <<"table", IF p.source = "unused" THEN "patch.unused" ELSE "package">>
Name(p) == <<"name", p.name>>
Version(p) == <<"version", p.version>>
Source(p) == <<"source", p.source>>
Blank == <<"blank">>
Format == <<"format", "4">>
Top(p) == IF p.source \in {"workspace", "unused"} THEN <<Header(p), Name(p), Version(p)>>
          ELSE <<Header(p), Name(p), Version(p), Source(p)>>
Block(p) == Top(p) \o p.rest \o <<Blank>>
\* What is written after each package.
Texts(lock) ==
  LET text[k \in 0 .. Len(lock)] ==
        IF k = 0 THEN <<Format>> ELSE text[k - 1] \o Block(lock[k])
  IN  text
Lines(lock) == Texts(lock)[Len(lock)]

\* parseCargoLock: fields are collected from a header to the next one; only a package
\* that has a name, a version and a registry source is kept.
NoBlock == [name |-> "", version |-> "", source |-> ""]
flush(packages, cur) ==
  IF "" \notin {cur.name, cur.version} /\ cur.source \in Registries THEN Append(packages, cur)
  ELSE packages

readLine(state, line) ==
  CASE line[1] = "table" -> [packages |-> flush(state.packages, state.cur), cur |-> NoBlock,
                             inside |-> line[2] = "package"]
    [] state.inside /\ line[1] \in DOMAIN NoBlock ->
         [packages |-> state.packages, cur |-> [state.cur EXCEPT ![line[1]] = line[2]], inside |-> TRUE]
    [] OTHER -> state
Begin == [packages |-> <<>>, cur |-> NoBlock, inside |-> FALSE]
\* What is read after each line.
Reads(lines) ==
  LET state[k \in 0 .. Len(lines)] ==
        IF k = 0 THEN Begin ELSE readLine(state[k - 1], lines[k])
  IN  state
readAll(lines) == Reads(lines)[Len(lines)]

\* Mutant: the last package is forgotten.
ForgetsLast(lines) == readAll(lines).packages

parseCargoLock(lines) == flush(readAll(lines).packages, readAll(lines).cur)

VARIABLES
  locks,        \* the lockfile of HEAD~1 and of the working tree,
  old, new,     \* their lines,
  left,         \* and how many of those that are left they have in common
  packages,     \* what parseCargoLock makes of the working tree's
  i, j,         \* the lines of the two the diff has come to
  pendingName, added,
  phase,        \* "diffing", "nothing added", "scanning", "rechecking", "reported"
  todo,         \* what the scan's first pass looks up at crates.io
  due,          \* and its second one
  rows,         \* the store
  known,        \* stored verdicts of added pins, read before the scan
  results, rechecked,
  served,       \* what crates.io serves
  report,       \* scanned, exitCode and summary
  runs

texts == <<locks, old, new, left, packages>>
diffing == <<texts, i, j, pendingName, added>>
scanning == <<todo, due, known, results, rechecked>>
vars == <<diffing, phase, scanning, rows, served, report, runs>>

NoName == ""
NoReport == [scanned |-> {}, exitCode |-> 0, summary |-> ""]
Verdicts == {"CLEAN", "NO_GIT_TAG", "SUSPICIOUS", "ERROR"}
With(partial, pin, verdict) == [q \in DOMAIN partial \union {pin} |->
                                  IF q = pin THEN verdict ELSE partial[q]]
Empty == [q \in {} |-> ""]

Init ==
  /\ locks \in Locks \X Locks
  /\ old = Lines(locks[1]) /\ new = Lines(locks[2]) /\ left = Common(old, new)
  /\ packages = parseCargoLock(new)
  /\ i = 1 /\ j = 1 /\ pendingName = NoName /\ added = <<>>
  /\ phase = "diffing"
  /\ todo = {} /\ due = {} /\ known = Empty /\ results = Empty /\ rechecked = Empty
  /\ rows = Empty /\ served = OnCratesIo
  /\ report = NoReport /\ runs = 1

-----------------------------------------------------------------------------
(* diffAddedPackages.  git prints a shortest edit script: it keeps as many   *)
(* lines as the texts can have in common.                                    *)

Diffs == /\ phase = "diffing"
         /\ UNCHANGED <<texts, phase, scanning, rows, served, report, runs>>
DiffRead == i > Len(old) /\ j > Len(new)

Context ==
  /\ Diffs /\ i <= Len(old) /\ j <= Len(new) /\ old[i] = new[j]
  /\ i' = i + 1 /\ j' = j + 1
  /\ left[i + 1][j + 1] = left[i][j] - 1
  /\ UNCHANGED <<pendingName, added>>

RemovedLine ==
  /\ Diffs /\ i <= Len(old) /\ left[i + 1][j] = left[i][j]
  /\ i' = i + 1
  /\ UNCHANGED <<j, pendingName, added>>

AddsLine == /\ Diffs /\ j <= Len(new) /\ left[i][j + 1] = left[i][j]
            /\ j' = j + 1 /\ UNCHANGED i

AddedName ==
  /\ AddsLine /\ new[j][1] = "name"
  /\ pendingName' = new[j][2]
  /\ UNCHANGED added

\* Mutant: a crate is added once, whatever its versions.
OnePerName ==
  /\ AddsLine /\ new[j][1] = "version" /\ pendingName # NoName
  /\ added' = IF \E k \in DOMAIN added : added[k][1] = pendingName
               THEN added ELSE Append(added, <<pendingName, new[j][2]>>)
  /\ pendingName' = NoName

AddedVersion ==
  /\ AddsLine /\ new[j][1] = "version" /\ pendingName # NoName
  /\ added' = Append(added, <<pendingName, new[j][2]>>)
  /\ pendingName' = NoName

AddedOther ==
  /\ AddsLine
  /\ new[j][1] # "name" /\ (new[j][1] = "version" => pendingName = NoName)
  /\ UNCHANGED <<pendingName, added>>

\* git fails: no previous commit.  Nothing counts as added.
NoDiff ==
  /\ phase = "diffing" /\ i = 1 /\ j = 1
  /\ phase' = "nothing added"
  /\ UNCHANGED <<diffing, scanning, rows, served, report, runs>>

-----------------------------------------------------------------------------
(* The scan of what was added.                                               *)

\* withLockfileSource looks the added pins up; those that are not there have no source.
\* Of several packages of one pin the last counts.
OffRegistry(pin) ==
  \E k \in DOMAIN packages :
    /\ Pin(packages[k]) = pin /\ packages[k].source = "alternate"
    /\ \A l \in DOMAIN packages : l > k => Pin(packages[l]) # pin
Recorded(pin) == pin \in DOMAIN rows

\* runScan skips the pins of other registries and, in its first pass, recorded ones.
All == {pin \in Range(added) : ~OffRegistry(pin)}

\* Rows a day old are due for the second pass.
StartScan ==
  /\ phase = "nothing added" \/ (phase = "diffing" /\ DiffRead)
  /\ phase' = "scanning"
  /\ known' = [pin \in Range(added) \intersect DOMAIN rows |-> rows[pin]]
  /\ todo' = {pin \in All : ~Recorded(pin)}
  /\ due' \in {{}, {pin \in All : Recorded(pin)}}
  /\ results' = Empty /\ rechecked' = Empty
  /\ UNCHANGED <<diffing, rows, served, report, runs>>

\* A version crates.io does not serve is a finding; what it serves is compared.
VerdictsOf(pin) == IF pin \notin served THEN {"SUSPICIOUS"}
                   ELSE IF pin \in Clean THEN {"CLEAN"}
                   ELSE IF pin \in Untagged THEN {"NO_GIT_TAG"} ELSE {"SUSPICIOUS"}

\* Mutant: the failure is recorded.
CheckRecordsFailure(pin) ==
  /\ phase = "scanning" /\ pin \in todo
  /\ todo' = todo \ {pin}
  /\ \E verdict \in VerdictsOf(pin) \union {"ERROR"} :
       results' = With(results, pin, verdict) /\ rows' = With(rows, pin, verdict)
  /\ UNCHANGED <<diffing, phase, due, known, rechecked, served, report, runs>>

\* A comparison that fails leaves no row.
Check(pin) ==
  /\ phase = "scanning" /\ pin \in todo
  /\ todo' = todo \ {pin}
  /\ \/ /\ results' = With(results, pin, "ERROR") /\ UNCHANGED rows
     \/ \E verdict \in VerdictsOf(pin) : /\ results' = With(results, pin, verdict)
                                         /\ rows' = With(rows, pin, verdict)
  /\ UNCHANGED <<diffing, phase, due, known, rechecked, served, report, runs>>

StartRecheck ==
  /\ phase = "scanning" /\ todo = {}
  /\ phase' = "rechecking"
  /\ UNCHANGED <<diffing, scanning, rows, served, report, runs>>

\* The second pass finds removals; a re-check that fails keeps the verdict.
Recheck(pin) ==
  /\ phase = "rechecking" /\ pin \in due
  /\ due' = due \ {pin}
  /\ \/ UNCHANGED <<rows, rechecked>>
     \/ LET verdict == IF pin \in served THEN rows[pin] ELSE "SUSPICIOUS"
        IN  /\ rows' = With(rows, pin, verdict)
            /\ rechecked' = With(rechecked, pin, verdict)
  /\ UNCHANGED <<diffing, phase, todo, known, results, served, report, runs>>

\* Mutant: the verdicts read before the scan are reported.
StaleKnown(pin) == known[pin]

\* A re-check may have refreshed a known verdict.
Fresh(pin) == IF pin \in DOMAIN rechecked THEN rechecked[pin] ELSE known[pin]
Scanned == {<<pin, Fresh(pin)>> : pin \in DOMAIN known}
           \union {<<pin, results[pin]>> : pin \in DOMAIN results}

suspicious == {s \in Scanned : s[2] = "SUSPICIOUS"}

\* The Action's writeSummary.
Summary == IF suspicious # {} THEN "suspicious"
           ELSE IF added = <<>> THEN "no changes" ELSE "all match"

Report ==
  /\ phase = "rechecking" /\ due = {}
  /\ phase' = "reported"
  /\ report' = [scanned |-> Scanned, exitCode |-> IF suspicious = {} THEN 0 ELSE 1,
                 summary |-> Summary]
  /\ UNCHANGED <<diffing, scanning, rows, served, runs>>

-----------------------------------------------------------------------------
(* Between two runs on the commit crates.io may remove versions.             *)

Withdraw(pin) ==
  /\ phase = "reported" /\ pin \in served
  /\ served' = served \ {pin}
  /\ UNCHANGED <<diffing, phase, scanning, rows, report, runs>>

\* The job is run again, the Action's with an empty store.
Rerun ==
  /\ phase = "reported" /\ runs < MaxRuns
  /\ phase' = "diffing" /\ i' = 1 /\ j' = 1 /\ pendingName' = NoName /\ added' = <<>>
  /\ report' = NoReport /\ runs' = runs + 1
  /\ rows' \in {rows, Empty}
  /\ UNCHANGED <<texts, scanning, served>>

Next == \/ Context \/ RemovedLine \/ AddedName \/ AddedVersion \/ AddedOther \/ NoDiff
        \/ StartScan \/ StartRecheck \/ Report \/ Rerun
        \/ \E pin \in Range(added) : Check(pin) \/ Recheck(pin)
        \/ \E pin \in served : Withdraw(pin)

Spec == Init /\ [][Next]_vars

-----------------------------------------------------------------------------
(* Properties.                                                               *)

\* A name and a version of the lockfile, if not of one package.
Pairs == {<<p.name, q.version>> : p, q \in Range(locks[2])}
TypeOK ==
  /\ i \in 1 .. Len(old) + 1 /\ j \in 1 .. Len(new) + 1
  /\ Range(added) \subseteq Pairs /\ todo \union due \subseteq Range(added)
  /\ phase \in {"diffing", "nothing added", "scanning", "rechecking", "reported"}
  /\ DOMAIN rows \subseteq Pairs /\ Range(rows) \subseteq Verdicts \ {"ERROR"}
  /\ DOMAIN results \subseteq Pairs /\ Range(results) \subseteq Verdicts
  /\ DOMAIN known \union DOMAIN rechecked \subseteq Pairs
  /\ report.exitCode \in {0, 1}

\* The packages that are new, and those of them directly behind the k-th.
NamesOf(lock) == {p.name : p \in Range(lock)}
KeysOf(lock) == {Key(p) : p \in Range(lock)}
NewOnes(from, to) == {k \in DOMAIN to : Key(to[k]) \notin KeysOf(from)}
NewBehind(from, to, k) == {to[l] : l \in {m \in NewOnes(from, to) : m > k /\ k + 1 .. m \subseteq NewOnes(from, to)}}

\* The package p as it was or with more dependencies.
Extends(q, p) == Key(q) = Key(p) /\ \E S \in SUBSET DOMAIN q.rest : Filtered(q.rest, S) = p.rest

\* A diff can tell p from the packages others: they have other versions, or p has a line that
\* they do not have.
ToldFrom(p, others) == \/ \A q \in others : q.version # p.version
                       \/ \E line \in Range(p.rest) : \A q \in others : line \notin Range(q.rest)

\* A commit that only adds packages of crates the lockfile did not have, some of them as new
\* dependencies of old ones: every shortest diff names exactly those, in the lockfile's order,
\* however git aligns the lines that packages share.  The exception are packages with a new
\* one directly behind them that has their version and all of their lines, which only
\* one without a checksum can meet: git may keep their version line as the new one's, and the
\* new one is not named.
OnlyNewCrates(from, to) ==
  /\ \A p \in Range(from) : \E k \in DOMAIN to :
       Extends(to[k], p) /\ ToldFrom(p, NewBehind(from, to, k))
  /\ \A k \in NewOnes(from, to) : to[k].name \notin NamesOf(from) /\ to[k].source # "unused"
NewPackages(from, to) == Filtered([k \in DOMAIN to |-> Pin(to[k])], NewOnes(from, to))
PureAdditionExact ==
  phase = "diffing" /\ DiffRead /\ OnlyNewCrates(locks[1], locks[2])
    => added = NewPackages(locks[1], locks[2])

\* ci.js: "a re-run must not silently pass a package we already flagged".  When a run
\* exits 0, or its summary does not say suspicious, no package its diff adds has a
\* SUSPICIOUS row, whether an earlier run, this scan or its re-check wrote it.
FlaggedNeverPassed ==
  phase = "reported" /\ (report.exitCode = 0 \/ report.summary # "suspicious")
    => \A pin \in Range(added) \intersect DOMAIN rows : rows[pin] # "SUSPICIOUS"

\* The registry a package is read with stays with it through the lockfile, the diff and both
\* passes of every run, wherever in the lockfile it is: one of a registry+ alternate is
\* never looked up, and none of crates.io is taken for one.  (A pin that two registries have
\* is that of the last one; for sparse+ registries see OnlyCratesIoLookedUp.)
Alone(p) == \A q \in Range(locks[2]) : q.source \in Registries /\ Pin(q) = Pin(p) => q.source = p.source
RegistriesKeptApart ==
  \A p \in Range(locks[2]) : Alone(p) =>
    /\ p.source = "alternate" => Pin(p) \notin todo \union due \union DOMAIN rows
    /\ p.source = "crates.io" /\ phase = "scanning" /\ Pin(p) \in Range(added)
         => Pin(p) \in todo \union DOMAIN rows \union DOMAIN results

-----------------------------------------------------------------------------
(* What the documentation states and the code does not keep.                 *)

\* What is looked up at crates.io is one of its packages in the lockfile: ci.js takes "newly added
\* registry packages" and pairs a name with the version "that follows it within the same
\* added [[package]] block", and README says that "Alternate (non-crates.io) registry
\* entries are never probed".
OnlyCratesIoLookedUp ==
  \A pin \in todo \union due : \E p \in Range(locks[2]) : Pin(p) = pin /\ p.source = "crates.io"
=============================================================================
