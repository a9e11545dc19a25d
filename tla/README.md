# cargo-witness in TLA+

cargo-witness compares the crates a `Cargo.lock` pins with their git sources and watches
the registry for versions that are removed later. This directory holds its formal
models, the TLC configurations that check them and the TLAPS proofs about them.
`tlc -config X.cfg M` runs a check, `tlapm M.tla` checks the proofs of one of the
modules `ScannerProofs`, `PoolProofs`, `GitSideProofs`, `NightlyProofs`, `CiModeProofs`,
`InspectProofs`, `CargoConfigProofs` and `ListProofs`.

## The system

| part | source | state | operations | talks to |
|---|---|---|---|---|
| scan loop | `src/scanner.js` | `results`, `suspicious`, `state.gitRateLimited`, tree and blob caches, every worker's locals | `runScan`, `checkOne`, `compareArtifact`, `recheckOne`, `recordMetaOnly` | all parts below |
| store | `src/db.js` (SQLite), `src/store.js` (memory) | table `packages` (status, findings, `checked_at`, `meta_checked_at`), table `runs` | `isChecked`, `recordPackage`, `recordMetaCheck`, `getRecheckDue`, `recordRun`, readers | scan loop, CI mode, report |
| command line | `bin/cargo-witness.js` | none beyond the run; the daemon's timer | `--scan`, `--daemon`, `--ci`, `--diff`, `--report`, `--history`, `--write-cargo-config` | scan loop, notifier |
| crates.io client | `src/fetcher.js` | a temporary directory per crate | `fetchCrateMeta`, `fetchCrate` | crates.io |
| git side | `src/git-tree.js`, `src/hosts.js` | the page loop and its partial tree | `fetchGitTree`, provider `tree` and `raw` | GitHub, GitLab, Gitea |
| pool and retry | `src/util.js` | `next`, `results`; the attempt counter | `pool`, `fetchRetry` | scan loop, every request |
| differ | `src/differ.js` | none (pure) | `diff`, `resolveGitPrefix` | scan loop |
| manifest lane | `src/manifest.js` | none (two blob reads) | `parseManifestDeps`, `diffManifests` | scan loop |
| publish age | `src/publish-age.js` | none (clock) | `parseDuration`, `evaluatePublishAge`, `isExcluded` | scan loop |
| findings | `src/severity.js`, `src/allowlist.js` | none (pure) | severities, `applyAllowlist` | everything |
| CI mode, action | `src/ci.js`, `src/action.js` | none | `diffAddedPackages`, `runCi` | git, scan loop |
| lockfile reader | `src/cargo-lock.js` | none | `parseCargoLock` | scan loop, CI mode |
| cargo config | `src/cargo-config.js` | the user's `.cargo/config.toml` | `readCargoConfig`, `writeCargoConfig` | the user, cargo |
| inspection | `src/inspect.js` | none beyond one call | `inspectDiff`, `diffOps` | crates.io client, git side, differ, manifest lane |
| output | `src/report.js`, `src/sarif.js`, `src/notifier.js` | none | printing | the user |

What is hard about it:

- **Concurrency.** Up to five workers share one rate-limit flag and two caches; every
  request is an await during which another worker may set the flag.
- **Failure.** Each of the requests behind a verdict may be refused, fail for good or be
  rate limited, on its own; a verdict is recorded from what is left.
- **Removal.** "The registry says 404" is the most serious finding there is, and it rests on
  two requests an outage or a restoration may come between.
- **Time.** A stored verdict is refreshed by later runs with other options and another
  registry; ages and freshness move between runs. The timer fires every 24 hours and a row
  is due after 24 hours; requests sleep between their attempts as long as a service asks.
- **Overlap.** The timer does not wait for the last night's run, and a `--scan` may run
  beside the daemon, on the same rows.
- **Crashes.** Verdicts are stored one by one, reports are made at the end of a run.

What makes each part correct:

- scan loop and store: no false removal; findings of the git lanes only for what was
  compared; a re-check refreshes the registry's part of a verdict and nothing else; every
  pin that turns SUSPICIOUS is reported; every pin gets a verdict; no lane is entered once
  the host limits.
- findings: a status is SUSPICIOUS exactly when a finding is medium or high; an exit code
  follows `--fail-on`.
- store under overlapping runs: no verdict rests on an answer much older than the store
  says, none turns SUSPICIOUS in silence but by a run that was overtaken, no run undoes what
  another has found.
- pool: every item once, never more than the limit, results in input order.
- request retry: backoff is kept, no service can stall a run, every request ends.
- git side: the strongest reference wins, a partial tree never proves an absence.
- differ and manifest lane: an unknown never accuses.
- inspection: missing files and modified sources are shown, these with lines that lead from
  one text to the other.
- cargo config: one spelling of the key, the user's lines untouched, what is written is
  what is read back.
- CI mode: what the commit adds is what is scanned, and a package that was flagged once
  fails every later run.

## Modules

| module | models | kind |
|---|---|---|
| `Findings` | `severity.js`, `allowlist.js`, `gateExit` | operators |
| `Scanner` | `scanner.js` over the store, run after run | state machine |
| `VerdictLedger` | what the store promises | abstract specification |
| `ScannerProofs` | theorems about `Scanner` | proofs |
| `Pool` | `pool` of `util.js`, with its runners and workers that throw | state machine |
| `TaskBag` | what the pool promises a pass of the scan | abstract specification |
| `PoolProofs` | theorems about `Pool` and `Requests` | proofs |
| `Requests` | `fetchRetry` of `util.js`, below the workers of `Pool` | state machine |
| `Nightly` | the row of one pin under the daemon's timer, scans beside it, and a clock | state machine |
| `NightlyProofs` | theorems about `Nightly` | proofs |
| `GitSide` | `git-tree.js`, the page loops of `hosts.js`, `cachedGitTree` | state machine |
| `GitSideProofs` | theorems about `GitSide` | proofs |
| `CiMode` | `ci.js`, `cargo-lock.js`, the summary of `action.js`, re-runs of the job | state machine |
| `CiModeProofs` | theorems about `CiMode` | proofs |
| `Differ` | `differ.js`, `manifest.js` | operators |
| `LineDiff` | `diffOps` of `inspect.js`, and what a diff is | operators |
| `Inspect` | `inspectDiff` of `inspect.js` over both | state machine |
| `InspectProofs` | theorems about `Inspect`, `Differ` and `LineDiff` | proofs |
| `CargoConfig` | `cargo-config.js` beside the user's edits and cargo | state machine |
| `CargoConfigProofs` | theorems about `CargoConfig` | proofs |
| `Ascending` | sets of indexes in order, and the lists filtered by them | operators |
| `ListProofs` | facts about numbers, filtered lists, functions that go step by step, and `LineDiff`'s table | proofs |
| `MC...` | small instances of the module they extend | instances for TLC |

How they compose: `Scanner` uses `Findings` and implements `VerdictLedger`; `Pool`
implements `TaskBag`, whose promises (at most the limit at a time, each task once) are what
`Scanner`'s `Take` assumes of it. `Requests` puts a request with its attempts into each of
the pool's workers and implements `Pool` with the fairness `Pool` assumes of them
(`ImplementsFairPool`), so what is shown of the pool holds of the pool with its retries.
`Nightly` looks at the store `Scanner` writes from the other side: one pin, but a clock and
any number of runs at a time. `Inspect` uses `Differ` and `LineDiff`; what `Differ` computes
is the `Truth` that `Scanner` takes as data. `GitSide` is the inside of `Scanner`'s tree lookup:
the outcomes tree, none, limited and error are the four ways out of its stage `tree`.
`CiMode` takes the scan as one verdict per pin, and git's shortest diffs from the table of
`LineDiff`. `Ascending` is what `LineDiff`, `CargoConfig` and `CiMode` filter lists with.

### Scanner

A step is what the program does between two awaits. `job[p].at` says which await the
worker of pin `p` is in: `meta` (the version endpoint), `probe` (the crate endpoint, after
a 404), `download`, `tree`, `manifest`, `content`. The action that leaves such a stage
reads the service's state at that moment, and the shared state of the program as it then
is, and runs on to the next await or to the write of the store. So `Downloaded` reads
`limited` and, when it is set, goes through the diff without a tree, the skipped lanes, the
allowlist and `recordPackage` in one step, as `compareArtifact` does.

| variable | code |
|---|---|
| `rows` | table `packages`; `fresh` is "`meta_checked_at` is less than 24 hours ago" |
| `phase`, `opts` | where `runScan` is, whether `--min-publish-age` and the re-check are on |
| `job` | the locals of the workers |
| `limited` | `state.gitRateLimited` |
| `due`, `result`, `suspicious` | `due`, `results` with `rechecked`, and `suspicious` of `runScan` |
| `registry`, `age` | crates.io: the state of a version, younger or older than the threshold |
| `wasGone` | history: the pins whose version endpoint said 404 when it last answered the program |
| `compared`, `unseen`, `lost` | history, read by properties alone |

`wasGone` is set where the program receives the 404 (`MetaGone`) and taken back where it is
served the version (`MetaServed`, `RecheckServed`); what the registry does unasked does not
touch it.

What an artifact contains and what git has beside it is data: the constant `Truth` gives
every pin the outcome of the differ, of the manifest comparison and of the content
comparison, and whether its tree is missing, found elsewhere or located. A lane that runs
contributes its part of `Truth`; a lane that fails or is skipped contributes nothing.

Abstractions, each sound for the properties checked: findings are a set (the code keeps an
array; nothing modelled depends on order); a pool runner takes any queued pin, not the next
one (more behaviours than the code has); content suspects are confirmed in any order (the
same); the re-check's rows are those `getRecheckDue` returns, with pins outside crates.io
left out of `Pkgs` as `runScan` leaves them out; a request is either answered or fails for
good, the retries of `fetchRetry` being inside it; trees and blobs come from one immutable
git side, so the caches are invisible; the table `runs` is written and never read by the
program and is left out. A run takes less than 24 hours: rows do not turn stale during it.
`Crash` stands for the process dying and for `runScan` throwing, after which the daemon's
next run starts from the store alone.

### VerdictLedger

What a user is promised whatever the runs, requests and crashes: one comparison per pin,
then only registry findings change; a status is SUSPICIOUS exactly when a finding makes it
so; only a SUSPICIOUS verdict may turn CLEAN; a pin that turns SUSPICIOUS is owed a report,
which only a crash takes away. `Scanner` instantiates it with `verdict` read off `rows`, and
`ImplementsLedger` is checked by TLC and proved.

### Pool and TaskBag

Between two awaits nothing else runs, so a runner that stores a result and takes its next
item is one step (`Settle`). `next`, `i` and `results` are the code's variables, a runner
is busy, returned or thrown, `outcome` is the promise of `Promise.all`; `calls` is history.
A result is the number of its item, so that a result at the wrong place can be seen.

### Requests

`call[r]` is the request of runner `r`: the attempt it is at, how long it sleeps before the
next one, and how long it has slept (history). Times are in units of 500 ms, `fetchRetry`'s
default `baseMs`. `Retry` is an answer that is worth another attempt (429, 5xx, an
exception) with the two sleeps that follow it: what `retryAfterMs` reads from the answer,
15 s at most, and the backoff at the head of the loop, 8 s at most. `Finish` and `GiveUp`
are a last answer and what the worker makes of it: a result, or a throw, which are `Settle`
and `Throw` of `Pool`. `waited` starts again with the next item. The statement after the
loop of `fetchRetry` is never reached: an attempt that is the last one returns or throws.

### Nightly

`row` and `age` are one row of the table `packages` and the time since its
`meta_checked_at`; `published` is the time since `created_at`, below zero for a time in the
future. `run[s]` is a run of the program: the stage it is in (`at`), since when it runs,
how long ago its request was answered, the findings it holds (`flags`: the row's, when a
re-check has read it, or its own), and whether the pin is on its list of suspicious ones.
A step ends at an await, as in `Scanner`; but `Answered`, `MetaServed` and `MetaGone` take the
registry's answer and `Refresh` and `Record` write the row in a step of their own, since
another process may come between. `Tick` moves the clock by a tick for everybody; no run
lasts longer than `Duration`, which may be longer than a day; `Night` is the timer, which
fires at hour 0 whatever the runs do, and `Scan` a scan started by hand. `Kill` ends any run
anywhere. The comparison is one step with the divergence found or not: what it depends on
is `Scanner`'s and `GitSide`'s. The rest is history: `lag` and `missed` are about the age of the
answer behind the row, `firsts` and `found` about the comparisons. `settled` says that the pin
was reported, or its report was lost with a run, since the row last turned SUSPICIOUS; it starts
again whenever a row is written that is not. `behind` are the runs that hold a copy of the row
another run has overwritten, and `crossed` says that one of these turned the row SUSPICIOUS.

### GitSide

`at`, `trying`, `page` and `listed` are where the lookup of a pin is: waiting, asking for a
page of one of its `refs(p)`, done. `cache` is `treeCache` under `preKey`, which has the
repository and the strongest commit, or the version, and no crate name; `limited` is
`state.gitRateLimited`. A step is one reply and what follows up to the next request. The
host answers with a page, 404, another status, a rate limit, or something that makes the
comparison throw; a tree may have several pages and files it hides (the host then says
`truncated`). `NotInGit` is what `diff` draws from the tree: nothing of a truncated one,
nothing when fewer than half of the crate's files are found. `refused` and `cut` are
history. The repository of a pin is the one the lookup is given; which URLs belong to a
supported host is data (`Hosted`). GitHub's single request is a tree of one page.

### CiMode

The lockfile of the last commit and the present one are sequences of packages. They are
what cargo writes (`LocksAssumption`): sorted, so that no package, by name, version and source,
is there twice and no two lockfiles have theirs in different orders. `Texts` and `Block` write
them: the `version = 4` of the file, then for a package its header, name, version, a source line
where it has one, what follows (`rest`) and the empty line. What follows is a checksum, a list of
dependencies, both or nothing: packages with equal lists have equal lines, and a workspace or git
crate without dependencies has none, so two packages may have every line but the name in common.
git prints some shortest edit script, and which one is a choice: the diff is read by walking the
two texts, a step taking a context, removed or added line wherever `left`, the table of how many
lines the rests of the texts can have in common, shows that a shortest script goes on there. The
table is data of the texts (`Common` of `LineDiff`) and is kept in a variable. `Reads` reads the
lines of the present lockfile as `cargo-lock.js` does, with a block that is collected from a
header on and flushed at the next one, and `withLockfileSource` looks the added pins up in what it
returns (`packages`), where the last package of a pin counts: a lockfile may have one name and
version from two registries, and `RegistriesKeptApart` speaks of the pins that are not such a
pair. The scan looks up whatever the diff names, pairs that are no package of any lockfile
included.

`PureAdditionExact` is about commits that only add packages of crates the lockfile did not have,
and perhaps dependencies to old ones. Of these it excepts the packages a diff cannot tell apart
(`ToldFrom`): an old package whose new neighbours directly behind it have its version and all the
lines that follow its source. This is the case of a workspace crate without dependencies, or of
one whose list is part of its neighbour's; a package with a checksum is never such a one.

Besides crates.io a package may come from an alternate registry whose address begins with
`registry+`, which the reader keeps, from one with `sparse+`, which it drops, from git or from
the workspace; and a `[[patch.unused]]` entry is no package. The scan's two passes, the verdicts
read before it, the fresh ones of the re-check, the exit code and the summary follow; `Rerun` is
the job run again on the commit, with its store or, in the Action, without. A finding is as
severe as `--fail-on` asks, the order of severities being in `Findings`.

### Differ, LineDiff and Inspect

A path is the sequence of its names, a tree a function from paths to contents that may be
truncated. `Differ` translates `resolveGitPrefix` (all directories with a `Cargo.toml`, the
one with most of the files, the shortest of these), `diff` and `diffManifests` with every
way it is skipped. A manifest is what parsing leaves of it: its package name, its dependency
entries (plain, renamed, inherited) and the names of its workspace table; one that cannot be
read or parsed is one that does not parse. The order in which the tree lists directories of
one length is a choice. `Inspect` is `inspectDiff`: the requests in the code's order, each of
which may fail, with the inputs taken from sets of artifacts, trees and manifests, so that
its initial choices range over well-formed and misleading sources alike. The environment
keeps one promise: the manifest in the crate's own directory, and no other, has its name.
The directory in `.cargo_vcs_info.json` is given, not given, or missing from a file that is
there, which `readVcsInfo` turns into the root (`VcsDirs`). A content is a sequence of lines,
each of them what is visible of it and the blanks behind, and a kind of line ends: contents are
compared without the white space at the end of the text (`normalizeSource`), and printed, counted
and diffed as they are. Only Rust files have their contents compared.
`LineDiff` holds the dynamic programme of `diffOps` (`Common`, row by row from the last one),
the walk along it (`Walk`: the place in both texts after each operation), and, as a reference,
what a shortest diff is (`IsDiff`): one side of it is the old text, the other the new one, and
no lines chosen alike from both are more than those it shows as common. This is stated with
sets of indexes and knows nothing of the table.

### CargoConfig

The file is a sequence of lines; a line is a table header (with a comment behind it or
not), an assignment, a dotted assignment, a marker or other text. `locate`,
`readCargoConfig` and `writeCargoConfig` are translated over indexes as the code does it;
`Loads` and `Settings` say what cargo makes of the file. The user inserts and deletes
lines and leaves a file cargo loads. Indentation, quoting, line ends, and the remark about
the toolchain are left out, and an absent file is an empty one. `Recognised` excludes the
two spellings the patterns of `locate` do not know (see below). Of the user's lines nothing is
assumed but that they are such lines (`LinesAssumption`: a table has a name).

## Runs

| run | cfg | question | bounds |
|---|---|---|---|
| `scanner` | `MCScanner.cfg` | no false removal, no false divergence, no dropped divergence, no forgotten report, no new git lane after a rate limit | two pins (one with a finding for every lane, one of them accepted by the allowlist; one without a tree), two runners, gate and re-check both on or both off, removal and restoration, all ages |
| `lifecycle` | `MCScannerLifecycle.cfg` | the refinement, progress | one pin with something for every lane, one crash, gate on or off, every registry state and age |
| `pool` | `MCRequests.cfg` | order, no double work, bounded waits, two refinements, the promise settles | five items, two runners, four attempts, waits of nothing, 2 s and an hour, any request may fail and any worker throw |
| `git_side` | `MCGitSide.cfg` | strongest reference, no false absence, every lookup ends | four pins: one with two commits, two siblings that share a cache entry, one on an unknown host; trees of one, two and three pages against a limit of two; refusals, rate limits, broken replies |
| `ci_mode` | `MCCiMode.cfg` | the diff of added crates, the lockfile reader, exit codes over re-runs | all pairs of 24 lockfiles over nine packages (a workspace crate whose list of dependencies grows, one without any, two versions of one crate, one pin from two registries, a git crate without a checksum, an unused patch), two runs, withdrawals between them |
| `cargo_config` | `MCCargoConfig.cfg` | hand edits and writes in any order | files of up to four lines before a write, ten kinds of lines, two durations, two lists |
| `nightly` | `MCNightly.cfg` | recent verdicts, no silent row but by a run that was overtaken, no finding undone, the age gate's boundary, a lasting removal | two runs at a time, a day of two ticks, runs of at most one, a threshold of two, a scan beside the daemon |
| `inspect` | `MCInspect.cfg` | no false finding, no missing file and no modified source hidden | artifacts of up to four files, trees with two directories, whole and truncated, a directory that is given, not given, missing from the file or wrong, contents that differ in line ends, in blanks, in a line, in all lines or in length, texts longer than the lines that are diffed at most, binaries with another content, manifests that are missing, broken, another crate's, renaming and inheriting |
| `clean_means_compared`, `gate_on_escalation` | `MCScannerClean`, `Gate` | statements the scanner does not keep | one pin |
| `git_partial_page` | `MCGitSidePages.cfg` | the same of the page loops | one pin, a tree of two pages |
| `ci_lookups` | `MCCiModeLookups.cfg` | the same of CI mode | one pair of lockfiles, either way round |

Why the bounds are enough. Scanner: pins interact through the rate-limit flag, the runners
and nothing else, and two pins in two runners show every order of one worker's limit and
another's request; a third pin waits in the queue. A row's life is driven by one pin's
registry state, age and the options of successive runs, all of which the runs explore
without a bound on the number of scans. Pool: more items than runners, and more runners
than one, so that a runner comes round again while another is still busy. GitSide: the
limit of two pages is below, at and above the length of some tree, and one key has two
pins. Requests: the second and third attempt show doubling and what two waits add up to, and
the theorem covers the cap of the backoff, which the sixth attempt is the first to reach.
Nightly: two runs are enough for one to read what the other overwrites, and the theorems
cover any number; a day is longer than a run of the instance, so overlaps come from scans
and from runs that the timer meets at its own hour. A threshold of two has a version that is
too young, one that is just old enough and, with a publish time in the future, one whose age
is negative. Inspect: two directories are a right and a wrong guess, and texts of up to five
lines have ties in the table, common lines in both orders, and an end before the other's.
CiMode: shared lines (headers, versions, sources, dependencies, empty lines) between
neighbours are what makes diffs ambiguous, and nine packages with equal and different versions,
with and without a source, a checksum or dependencies, have all the neighbourhoods, that of the
exception among them. CargoConfig: a header, a key, a marker and one more line are what `locate`
tells apart; two lists and two durations show a stale one. `MaxCrashes`, `MaxRuns`,
`MaxLines` and the page limit are the only bounds on what a model counts, and the last one is
the program's. `Nightly` counts ages up to `Oldest` and `Threshold`, and nothing depends on
how far beyond them an age is; `RunsTyping` and `RecentVerdicts` show that `Oldest` is never
passed by a row without a failed check.

### Fairness

`FairSpec` assumes that runs follow one another (cron, CI), that the pool hands out queued
work and an await returns (`WF` of `Resumed`: a request ends in an answer or a failure),
that passes end, and that rows grow old. `SF` of `Asked` says that a service that is asked
again and again, in run after run, answers at last: without it an eternal outage is a fair
behaviour and no pin need ever be recorded. No fairness is assumed of the registry, of
crashes or of rate limits.

`RemovalEventuallyFlagged` and `AgedPinCleared` hold under these assumptions for the
re-check as coded: a failed re-check leaves the row due.

For `Pool`, a worker that is awaited settles; `ImplementsFairPool` shows where that comes
from: every single attempt of a request is answered or fails (`WF` of `Runs`, the timeouts
of `fetch`), timers fire, and attempts and waits are bounded. For `GitSide`, one `WF` per pin: the
lookup is sequential code and each request ends. Neither assumes which answer comes.

For `Nightly`: `WF` of each run's next step; `SF` of `Tick` and of `Night`, since time and the
timer wait in the model for a run to end or for a slot to be free, which they do not in
reality; and that from some time on no run is killed and no request fails, without which no
removal need ever be noticed. Nothing is assumed of the registry or of scans by hand.

### Where code and documentation differ

Found by a run each:

- `CleanMeansCompared`: `docs/FAQ.md` says NO_GIT_TAG is "explicitly not a clean verdict".
  An untagged pin under the age gate is recorded SUSPICIOUS, and when the age finding goes
  the re-check stores CLEAN (`scanner.js:244`): what the status was without the age finding
  is not stored. `recordMetaOnly` does the same for a failed comparison.
- `NewFindingMeetsGate`: with `--fail-on high` a pin that was SUSPICIOUS with a medium
  finding and is then removed from the registry is not reported, since only a change of
  status is (`scanner.js:124`).
- `NoFalseAbsence`: a later page of a GitLab or Gitea tree that is refused ends the loop
  without setting `truncated` (`hosts.js:94`), and what it would have listed is reported as
  missing. `AbsencesAreReal`, which excepts exactly this case, holds.
- `OnlyCratesIoLookedUp`: what CI mode looks up at crates.io need not be a crates.io package
  of the lockfile, and the run's counterexample has both reasons. A context line leaves
  `pendingName` set (`ci.js:145`): where a crate is replaced by one of the same version git
  shows the version as context, and the new name is paired with the next version that is
  added, of another package, against `ci.js:121`. And `parseCargoLock` drops packages without
  `registry+` in their source (`cargo-lock.js:39`), those of a `sparse+` registry among them, so
  an added one carries no source into the scan (`ci.js:115`) and is not set aside there
  (`scanner.js:74`), though `README.md:389` says that alternate registries "are never probed".
  Added git and workspace packages are looked up in the same way.

Stated as exceptions of properties that hold: each is a disagreement with a document that
the code lets through, written into the property, which so says how far it goes.

- `LimitStopsNewLanes`: when the git host limits the scan "the comparison stops for the rest of
  the run" (`README.md:64`). The content loop looks at the flag once, before its first file
  (`scanner.js:413`), and goes on asking for the suspects that are left.
- `NoSilentRow` (`crossed`): two overlapping runs may turn a row SUSPICIOUS without a report.
  Both read a young version's row; one finds it old enough and writes CLEAN; the version is
  withdrawn; the other writes the removal, and `scanner.js:124` compares with the SUSPICIOUS
  status it had read. A withdrawn version is then in the store (`README.md:387`: it "flips to
  SUSPICIOUS on the next daemon run"), but nobody hears of it.
- `HonestNeverAccused`: "no false positives" for workspaces (`README.md:254`). A missing
  `path_in_vcs` becomes `''` (`fetcher.js:166`), which the differ takes for the crate's directory
  without trying another (`differ.js:54`): an honest crate of a workspace, half of whose file
  names the root has too, gets FILE_NOT_IN_GIT or BUILD_RS_INJECTED. And where the directory
  is guessed, the shortest of those with most of the crate's files is taken (`differ.js:148`), so an
  honest crate may be compared with a sibling and get SOURCE_MODIFIED; it gets no other
  finding then.
- `DifferencesAreShown`: a binary that the tree has under its name is compared with nothing, so
  one that was replaced passes with "every published file matches the source"
  (`inspect.js:88`), though `README.md:501` says that "every shared file is content-checked", and
  `differ.js:7` says the same.
- `PureAdditionExact` (`ToldFrom`): a new package directly behind an old one with the same
  version and all of its lines, as two workspace crates without dependencies, may have its
  version line shown as context and the old one's as added (`ci.js:141`). The new package is
  not named, and not scanned, against `ci.js:120`.

Only some disagreements have a run of their own that is violated; for these five the run that
holds explores the behaviour, and leaving the exception out of the property makes TLC show it.

Met while modelling; the models behave as the code does, and no property is stated for them:

- A pin that a rate limit kept from being compared is recorded as NO_GIT_TAG, and `isChecked`
  (`scanner.js:76`) skips it in every later run: it is never compared, though the README
  says "the comparison stops for the rest of the run".
- A `[[patch.unused]]` entry in the diff counts as an added package (`ci.js:148`).
- The README says a withdrawn version "flips to SUSPICIOUS on the next daemon run". A row
  written late in one night is not yet a day old when the next night's run reads it
  (`scanner.js:111`, `db.js:103`), so it may be the run after; `VerdictIsRecent` has the
  bound that holds, two days and a run.
- `util.js:13` says that the rate limits of a 403 are honoured; a 403 is not retried at all
  (`util.js:30`). A `Retry-After` of more than 15 s is cut to 15 s. The fetch behind the
  loop of `fetchRetry` is never reached.
- `inspect.js:88` prints "every published file matches the source" also when the tree was
  truncated and when files other than Rust files have other contents; a suspect that cannot be
  read is left out without a word (`inspect.js:109`), and the returned status does not count the
  files that were shown as modified (`inspect.js:120`).
- The manifest lane resolves an inherited dependency against the crate's own manifest and
  the root's (`manifest.js:139`); a workspace root in between is not read.
- An info finding alone never fails a run, since `gateExit` sees SUSPICIOUS packages only
  (`cargo-witness.js:205`), though the README says `--fail-on info`.
- A crash between the write of a verdict and the report leaves a SUSPICIOUS row that no run
  will ever report (`scanner.js:270`). The ledger's action `Lose` is this.
- Any status but 200, 403 and 429 for a commit moves on to the next candidate and at last
  to the tags (`git-tree.js:46`); the README says there is "no blind tag-guessing when a
  commit is known". `StrongestAnchor` says what does hold.
- Siblings of one version without a commit share a cache entry although their tag
  candidates have the crate's name (`scanner.js:465`): the second is compared with the tree
  of the first one's tag.
- The crate whose version line git shows as context (`ci.js:141`) is not scanned at all;
  a crate whose version alone changes has its name line as context, and is not either.
- The summary says that all added dependencies match their git source when their status is
  NO_GIT_TAG or ERROR (`action.js:59`).
- `tableOf` does not know `[registry] # comment` (`cargo-config.js:51`), nor `locate` an
  inline table (`cargo-config.js:47`): the writer appends a second table, and cargo refuses
  the file. The properties of `CargoConfig` that need it are stated for `Recognised` files.

## Proofs

`ScannerProofs` proves for every set of pins, every truth about them, every allowlist,
concurrency and environment, from the named assumptions on the constants:

| theorem | statement |
|---|---|
| `Typing` | `Spec => []TypeOK` |
| `RemovalsAreReal` | `Spec => []RemovalWasSeen` |
| `Soundness` | `Spec => []VerdictsAreSound` |
| `AlertsAreReported` | `Spec => []NoAlertLost` |
| `DivergenceIsCarried` | `Spec => DivergenceCarried` |
| `LimitIsKept` | `Spec => LimitStopsNewLanes` |
| `Refinement` | `Spec => ImplementsLedger` |

None of the invariants is inductive alone. `Inv` strengthens them with what the workers
know: a worker at `probe` has received a 404, and its pin was not served since (so it is in
`wasGone`), and so with a pin that has a removal finding; the findings a worker
holds are its age finding and parts of `Truth` for lanes its tree allows; `due` holds the
status and findings the store still has for every pin not yet re-checked; and every
unreported SUSPICIOUS pin is one whose `result` the running pass will report. The
twenty-odd actions are first grouped by what they do to the store (move a worker, fail,
record a verdict, refresh one), so that each conjunct is proved for four kinds of step and
the rest; `Invariance` is the induction, and the theorems follow from it. `Refinement` maps
records to `Compare`, refreshes to `Refresh`, the report to `Announce`, a crash to `Lose`
and every other step to a stutter.

`PoolProofs` proves for every number of items, every limit, and workers that throw or not:

| theorem | statement |
|---|---|
| `InOrder` | `Spec => []ResultsInOrder` |
| `CalledOnce` | `Spec => []NeverTwice` |
| `Refinement` | `Spec => ImplementsTaskBag` |

Its invariant relates the counter with the runners: exactly the indexes below `next` were
handed out, no two runners hold the same one, a runner has returned exactly when its index
is beyond the end, and a result that is missing below `next` is in the hands of a runner.
A `Settle` is then a `Finish` that begins the next task (or none), a `Throw` an `Abandon`.

`GitSideProofs` proves for every set of pins, every content of the hosts, every page limit
and any number of lookups sharing the cache:

| theorem | statement |
|---|---|
| `StrongestIsCompared` | `Spec => []StrongestAnchor` |
| `AbsencesProved` | `Spec => []AbsencesAreReal` |
| `Typing` | `Spec => []TypeOK` |

Its invariant adds what a lookup under way knows: all candidates before its own are passed
(`RefsShape`: whatever is stronger than a candidate is before it), and it has listed all
pages before the one it asks for; and that every outcome in the cache or in hand that is
not marked truncated is a whole tree, unless a page of it was refused. A step asks for a
page (`AskInv`), ends a lookup beside the cache (`SettleInv`) or through it (`FoundInv`).

About `Requests`, `PoolProofs` goes on for every number of items, runners and tries and every
wait a service may ask for:

| theorem | statement |
|---|---|
| `RequestsTyping` | `SpecRequests => []RequestsTypeOK` |
| `WaitsAreBounded` | `SpecRequests => []NeverStalls` |
| `OrderedWithRetries`, `OnceWithRetries` | `SpecRequests => []ResultsInOrder`, `[]NeverTwice` |
| `BagWithRetries` | `SpecRequests => ImplementsTaskBag` |

`NeverStalls` is inductive with the type of `call`: a retry adds to `waited` exactly what the
bounds grow by, for which the powers of two up to the cap are a lemma. Every step of a
request is a step of `Pool` or leaves the pool alone, so the rest follows from what is proved
of the pool.

`NightlyProofs` proves for any number of runs at a time and every length of a day, of a run
and of the threshold:

| theorem | statement |
|---|---|
| `RunsTyping` | `Spec => []TypeOK` |
| `RecentVerdicts` | `Spec => []VerdictIsRecent` |
| `NoRowIsSilent` | `Spec => []NoSilentRow` |
| `DivergenceKept` | `Spec => []DivergenceSurvives` |
| `NothingClearedEarly` | `Spec => []NotClearedEarly` |

The invariant says what the copies know that runs hold: a run between its read of the row
and its write has the row's findings unless another run has written since (`CopyInv`), so that only
a run in `behind` takes a row for SUSPICIOUS that is not (`ToldInv`), and in any case the
divergence if the row must have it (`DivergenceInv`); a run that is comparing a young
version holds the age finding (`AgeInv`). For the age of a row, `DueInv`: if a row was due
when the timer fired last, then some run is on its way to it that has been at work for at
least `age - 2 * Day` ticks. The timer makes it true, with the new run for a row that has
just become due and with the one that was there before otherwise; a tick keeps it, because
both sides grow by one; a run gives its place up only by writing the row, by a failed check
or by dying. Since a run lasts at most `Duration`, the bound follows. Steps fall into two kinds, those
that move a run (`RunStep`, `RunDue`) and those that write the row (`WriteStep`).

`CiModeProofs` proves for all lockfiles that cargo may write (`LocksAssumption`), whatever
crates.io has and withdraws and however often the job runs:

| theorem | statement |
|---|---|
| `RunTyping` | `Spec => []TypeOK` |
| `AdditionsExact` | `Spec => []PureAdditionExact` |
| `AlternatesLeftAlone` | `Spec => []RegistriesKeptApart` |
| `NoFlagIsPassed` | `Spec => []FlaggedNeverPassed` |

`AdditionsExact` is about git's freedom. `left` is the table for the two texts, and while a
commit only adds packages and dependencies the whole old text is still ahead in the new one
(`BlockStays`, `PlacesAre`): a shortest diff keeps every line of it, and passes none that it will
need (`Ahead`, `NothingIsPassed`). Headers, sources, dependencies and empty lines may be kept
anywhere, but name and version of an old package only where they stand in the new text
(`MatchedAtHome`). A name has no other place, since new packages share none with old ones. A version
matched behind its place would have gone past something that is still needed: the next old
package's name, or, within the new packages that come before it, a line that none of them with
this version has (`Telling`, `MatchedInTime`, which is what `ToldFrom` is for). So name and version
of a new package are read as added, one behind the other, and those of an old one as context.
`HasRead` says what has been named at a line of the new text, and `OnlyNewRead` that this is so
at every place of the diff.

`RunTyping` rests on `Lookups`: what is in `todo` or `due` is what the diff has named, whatever
that is, and a pass ends only when all of it was looked up. `AlternatesLeftAlone` rests on
`ParseIs`: `parseCargoLock` finds in the text of a lockfile exactly its packages with a `registry+` source, in
their order. The text is read block by block (`BlockReads`), whatever has been collected before.
`ProbeInv` says the rest: no pin in `todo`, in `due` or in the store is last read with another
registry, and during a scan every other added pin is in `todo`, in the store or among the results.
`NoFlagIsPassed`: while a scan is under way every added pin that has a row is in `known`, refreshed
by the re-check or not, or in `results`, with the row's verdict, since pass 1 touches only pins
without a row and pass 2 only pins in `known`.

`InspectProofs` proves for all artifacts, trees, manifests, directories and texts:

| theorem | statement |
|---|---|
| `InspectTyping` | `Spec => []TypeOK` |
| `HonestIsSafe` | `Spec => []HonestNeverAccused` |
| `DifferencesShown` | `Spec => []DifferencesAreShown` |

The heart of `HonestIsSafe` is about `Differ`: when all files of a crate are found from one
candidate directory, the directory that is taken has as many hits, so all files are found from
there as well (`AllFoundAtPrefix`), and a generated file is neither Rust nor binary; and the
dependencies `diffManifests` knows, when it is not skipped, are those cargo would see
(`NothingInjected`). A directory that is given is not a candidate among others, which is why the
theorem needs it to be the crate's own. What is shown is a content suspect (`SuspectsInv`)
that differs by more than white space at its end, so nothing is where the directory is the only
one with the crate's contents.

`DifferencesShown` needs that `diffOps` is right for all texts (`DiffIs`): the walk ends with
both texts at their ends (`Arrives`), each side of it is a text (`SidesAre`), it passes as many
common lines as the table says (`Score`), and no choice of lines alike in both is larger, by
induction over what is left of the two (`BoundSteps`, `MostInCommon`). An empty list of
operations belongs to equal texts (`EmptyDiff`), which a suspect's are not.

`CargoConfigProofs` proves for files of any length, all durations and exclude lists, and
whatever lines the user types (`LinesAssumption`):

| theorem | statement |
|---|---|
| `CargoStillLoads` | `Spec => []CargoLoads` |
| `ReaderIsRight` | `Spec => []ReaderAgrees` |
| `WrittenIsRead` | `Spec => []WriteIsReadBack` |
| `WritingAgain` | `Spec => []WriteIsIdempotent` |
| `LinesStay` | `Spec => UserLinesKept` |

The inductive invariant is that the file is made of such lines, that `CargoLoads` holds and that
the last write is still what it wrote (`WriteIsReadBack`, `WriteIsIdempotent`). A file changes in
two ways. Lines that mean nothing to a table or a key go or come (`kept`, the marker, the empty
line): the rest is embedded in the new file with every line in the section it had (`Moved`), and
cargo, `locate` and the reader see the same. Or one line comes or is replaced: a write is first
brought to the form without a marker (`Bare`: lines before, the assignment, lines after, for each
of the four places the code may choose), where the assignment is the one key that is added, in
cargo's registry table (`UnderHeader`, `UnderDotted`, `BareLoads`); the marker is then one more
line without a meaning (`Marked`).

`ListProofs` has what these share. Induction is had from the fact that `<` is well-founded: a
property is a set of numbers, which has a least member outside of it or none (`Least`, `UpTo`). A
function that is defined from its value before, or behind, is shown to be the one that goes step
by step (`Iterated`, `IteratedDown`, `SameUp`, `SameDown`), which makes the texts, the reader of
lockfiles, the table and the walk things to prove about. The rest is about filtered lists (two are alike
when they keep the same elements in the same order) and about the table of `LineDiff`
(`CommonIs`, `CommonAtMost`, `AllIn...`).

With these every invariant and action property of the passing runs, and every refinement
without fairness, is a theorem. Only model-checked are the properties that need fairness,
which are out of the prover's reach: `RunsEnd`, `EveryPinRecorded`, `RemovalEventuallyFlagged` and `AgedPinCleared` of the
scanner, `LookupsEnd` of the git side, `PoolSettles` and `ImplementsFairPool` of the requests,
`WithdrawnIsFlagged` of the nights; and the statements that are violated.

## Plan

Done, in this order, the most important behaviour first: the scan loop with its ledger and
proofs; the pool with its bag of tasks and proofs; the git side and its proofs; CI mode;
the config writer; the requests below the pool and their proofs; the nights and overlapping
runs with their proofs; the lockfile reader in CI mode; the pure lanes and the inspection
that puts them together; the proofs of the config writer, of the readers of diff and lockfile
in CI mode, and of the lines the inspection shows.

To come:

1. A composition of `GitSide` with the scanner's run loop in place of its tree stage.
2. `Scanner` with `Differ` in place of `Truth`, for one pin: what the lanes compute flows into
   the stored verdict.

## Not modelled

- `report.js`, `sarif.js`, `notifier.js`: they print what the other parts decided and keep
  no state.
- `config.js`, `scripts/`, `dist/`: constants from the environment, build tooling, and the
  generated bundle of the sources.
- The table `runs`: written at the end of a run, read by `--history` alone.
- Parsing and formatting of durations in `publish-age.js`, and of the command line: text.
- Downloading, unpacking and hashing of crates and the parsing of URLs, attestations, TOML
  and JSON: I/O and parsing whose outcome the models take as data.
