------------------------------- MODULE Scanner -------------------------------
(***************************************************************************)
(* The scan loop of cargo-witness (src/src/scanner.js) over its store      *)
(* (src/src/store.js, src/src/db.js), driven run after run by --scan or    *)
(* --daemon (src/bin/cargo-witness.js).                                    *)
(*                                                                         *)
(* A run has two passes.  The scan pass takes every pin the store does not *)
(* know through metadata, download, git tree, manifest and content         *)
(* comparison, at most Concurrency pins at a time, and records a verdict.  *)
(* The recheck pass then reads the registry metadata of every stored pin   *)
(* whose last check is stale.  An action is what the program does between  *)
(* two awaits; the reply it resumes with is what the service says at that  *)
(* moment.                                                                 *)
(***************************************************************************)
EXTENDS Findings, FiniteSets

CONSTANTS
  Pkgs,            \* the lockfile's crates.io pins: records with name, version
  Concurrency,     \* runners of the pool
  Files,           \* what findings are about: files, dependencies, "" for the pin itself
  Truth,           \* for every pin, what its artifact and its git side contain
  AllowRules,      \* allowlist rules
  Excluded,        \* pins named by --min-publish-age-exclude
  RunOptions,      \* the [gate, recheck] options a run may be started with
  FailOn,          \* --fail-on
  RegistryStates,  \* what may happen to a pin on crates.io
  Ages,            \* how old a pin may be to begin with
  MaxCrashes       \* bound: crashes in a behaviour

FindingSet == [flag : FlagNames, file : Files]

\* Mutant: the age finding counts as part of the git-diff verdict.
MetaFlagsWithoutAge == {"YANKED", "VERSION_REMOVED", "CRATE_REMOVED"}

\* Flags the recheck recomputes; every other one is the git-diff verdict.
META_FLAGS == {"YANKED", "VERSION_REMOVED", "CRATE_REMOVED", "PUBLISH_AGE"}
RegistryFindings == {Finding(flag) : flag \in META_FLAGS}

Divergences == {f \in FindingSet : f.flag \notin META_FLAGS}

PinTruth ==
  [source   : {"missing", "elsewhere", "located"}, \* how tree lookup and prefix search end
   absent   : SUBSET Divergences,  \* files of the artifact that git does not have
   injected : SUBSET Divergences,  \* dependencies the git manifest does not declare
   artifact : SUBSET Divergences,  \* attestation and checksum findings
   suspects : SUBSET Divergences,  \* files whose blob hash differs from git's ...
   differs  : SUBSET Divergences]  \* ... and those that still differ once normalised

ASSUME ConcurrencyAssumption == Concurrency \in Nat \ {0}
ASSUME FilesAssumption == "" \in Files
ASSUME TruthAssumption == Truth \in [Pkgs -> PinTruth]
ASSUME OptionsAssumption == /\ RunOptions \subseteq [gate : BOOLEAN, recheck : BOOLEAN]
                            /\ FailOn \in Severities
ASSUME RegistryAssumption ==
  /\ RegistryStates \subseteq {"live", "yanked", "versionGone", "crateGone"}
  /\ Ages \subseteq {"young", "old", "unknown"}
ASSUME CrashAssumption == MaxCrashes \in Nat

VARIABLES
  \* the store, which survives a crash
  rows,        \* the packages table: status, findings, and whether metadata is fresh
  \* the process
  phase,       \* what the run is doing
  opts,        \* the options of the run
  job,         \* for every pin, how far the current pass has got with it
  limited,     \* state.gitRateLimited
  due,         \* the rows getRecheckDue returned
  result,      \* what the workers returned
  suspicious,  \* the findings the run will report
  \* the world
  registry,    \* crates.io's state of every pin
  age,         \* younger or older than --min-publish-age, or publish time unknown
  crashes,
  \* history: no code reads these
  wasGone,     \* pins whose version endpoint said 404 when it last answered
  compared,    \* pins whose recorded verdict rests on a comparison with git
  unseen,      \* pins that became SUSPICIOUS in the store and were not reported
  lost         \* pins whose report a crash swallowed

store == <<rows, compared>>
process == <<phase, opts, job, limited, due, result, suspicious>>
world == <<registry, age, crashes>>
alerts == <<unseen, lost>>
vars == <<store, process, world, wasGone, alerts>>

Statuses == {"CLEAN", "NO_GIT_TAG", "SUSPICIOUS"}
Stages == {"idle", "queued", "meta", "probe", "download", "tree", "manifest",
           "content", "done"}
GitStages == {"tree", "manifest", "content"}
Waiting == {"meta", "probe", "download"} \union GitStages

Unrecorded == [status |-> "unrecorded", flags |-> {}, fresh |-> FALSE]
NotDue == [status |-> "none", flags |-> {}]
NoResult == NotDue

\* A worker's locals: the age finding, yanked as metadata said it, the tree it
\* got, the findings so far and the content suspects still to confirm.
Locals(stage) == [at |-> stage, age |-> {}, yanked |-> FALSE, tree |-> "missing",
                  flags |-> {}, left |-> {}]
AllIdle == [p \in Pkgs |-> Locals("idle")]

Recorded(p) == rows[p].status # "unrecorded"
Active == {p \in Pkgs : job[p].at \in Waiting}
\* Mutant: pins that take no part in the pass are waited for.
EveryPinDone == \A p \in Pkgs : job[p].at = "done"

PassDone == \A p \in Pkgs : job[p].at \in {"idle", "done"}
Gone(p) == registry[p] \in {"versionGone", "crateGone"}

Enter(p, j, stage) == job' = [job EXCEPT ![p] = [j EXCEPT !.at = stage]]
Leave(p) == job' = [job EXCEPT ![p] = Locals("done")]

suppress(p, flags) == applyAllowlist(AllowRules, p, flags)

-----------------------------------------------------------------------------
(* Writing the store.                                                        *)

\* A pin that turns SUSPICIOUS is owed a report.
Owe(p, status) ==
  unseen' = IF status = "SUSPICIOUS" /\ rows[p].status # "SUSPICIOUS"
            THEN unseen \union {p} ELSE unseen

\* db.recordPackage with the worker's return value; whole is history.
recordPackage(p, status, flags, whole) ==
  /\ rows' = [rows EXCEPT ![p] = [status |-> status, flags |-> flags, fresh |-> TRUE]]
  /\ result' = [result EXCEPT ![p] = [status |-> status, flags |-> flags]]
  /\ compared' = IF whole THEN compared \union {p} ELSE compared \ {p}
  /\ Owe(p, status)
  /\ Leave(p)

\* A verdict from registry metadata alone.
recordMetaOnly(p, raw) ==
  LET flags == suppress(p, raw)
  IN  recordPackage(p, IF isSuspicious(flags) THEN "SUSPICIOUS" ELSE "CLEAN", flags, FALSE)

\* The end of compareArtifact.
Conclude(p, j) ==
  LET flags == suppress(p, j.flags)
      status == IF isSuspicious(flags) THEN "SUSPICIOUS"
                ELSE IF j.tree # "located" THEN "NO_GIT_TAG" ELSE "CLEAN"
  IN  recordPackage(p, status, flags, j.tree = "located")

\* Mutant: the re-check forgets what the comparison found.
RecheckDropsBase(p, raw) ==
  LET flags == suppress(p, raw)
      status == IF isSuspicious(flags) THEN "SUSPICIOUS"
                ELSE IF due[p].status = "SUSPICIOUS" THEN "CLEAN" ELSE due[p].status
  IN  /\ rows' = [rows EXCEPT ![p] = [status |-> status, flags |-> flags, fresh |-> TRUE]]
      /\ result' = [result EXCEPT ![p] = [status |-> status, flags |-> flags]]
      /\ Owe(p, status) /\ Leave(p) /\ UNCHANGED compared

\* Mutant: a row whose last finding has gone keeps its status.
RecheckKeepsStatus(p, raw) ==
  LET flags == {f \in due[p].flags : f.flag \notin META_FLAGS} \union suppress(p, raw)
      status == IF isSuspicious(flags) THEN "SUSPICIOUS" ELSE due[p].status
  IN  /\ rows' = [rows EXCEPT ![p] = [status |-> status, flags |-> flags, fresh |-> TRUE]]
      /\ result' = [result EXCEPT ![p] = [status |-> status, flags |-> flags]]
      /\ Owe(p, status) /\ Leave(p) /\ UNCHANGED compared

\* The end of recheckOne: registry findings replaced, the rest carried over.
recordMetaCheck(p, raw) ==
  LET base == {f \in due[p].flags : f.flag \notin META_FLAGS}
      flags == base \union suppress(p, raw)
      status == IF isSuspicious(flags) THEN "SUSPICIOUS"
                ELSE IF due[p].status = "SUSPICIOUS" THEN "CLEAN" ELSE due[p].status
  IN  /\ rows' = [rows EXCEPT ![p] = [status |-> status, flags |-> flags, fresh |-> TRUE]]
      /\ result' = [result EXCEPT ![p] = [status |-> status, flags |-> flags]]
      /\ Owe(p, status)
      /\ Leave(p)
      /\ UNCHANGED compared

-----------------------------------------------------------------------------
(* The lanes of compareArtifact.                                             *)

\* After the manifest lane: attestation, checksum and yanked findings, then the
\* content suspects if the git host still answers.
AfterManifest(p, j, isLimited) ==
  LET yankedFlag == IF j.yanked THEN {Finding("YANKED")} ELSE {}
      k == [j EXCEPT !.flags = @ \union Truth[p].artifact \union yankedFlag,
                     !.left = Truth[p].suspects]
      confirm == ~isLimited /\ j.tree = "located" /\ k.left # {}
  IN  \/ confirm /\ Enter(p, k, "content") /\ UNCHANGED <<store, result, unseen>>
      \/ ~confirm /\ Conclude(p, k)

\* The tree is in, or there is none: diff it, then read the manifest if possible.
AfterTree(p, tree, isLimited) ==
  LET found == IF tree = "located" THEN Truth[p].absent ELSE {}
      k == [job[p] EXCEPT !.tree = tree, !.flags = job[p].age \union found]
      readManifest == ~isLimited /\ tree = "located"
  IN  \/ readManifest /\ Enter(p, k, "manifest") /\ UNCHANGED <<store, result, unseen>>
      \/ ~readManifest /\ AfterManifest(p, k, isLimited)

AfterSuspect(p, f, found) ==
  LET k == [job[p] EXCEPT !.left = @ \ {f}, !.flags = @ \union found]
  IN  \/ k.left # {} /\ Enter(p, k, "content") /\ UNCHANGED <<store, result, unseen>>
      \/ k.left = {} /\ Conclude(p, k)

\* gatePublishAge: only a known publish time younger than the threshold gates.
gatePublishAge(p) ==
  IF opts.gate /\ p \notin Excluded /\ age[p] = "young"
  THEN {Finding("PUBLISH_AGE")} ELSE {}

\* pushAbsenceFlag, from the crate endpoint's answer.
AbsenceFlag(p) == Finding(IF registry[p] = "crateGone" THEN "CRATE_REMOVED"
                                                      ELSE "VERSION_REMOVED")

-----------------------------------------------------------------------------
(* Both passes: a runner takes a pin and asks crates.io about it.            *)

Unasked == <<phase, opts, due, suspicious, world, lost>>
Resting == <<Unasked, wasGone>>

StartRun(o) ==
  /\ phase = "idle"
  /\ phase' = "scan"
  /\ opts' = o
  /\ job' = [p \in Pkgs |-> Locals(IF Recorded(p) THEN "idle" ELSE "queued")]
  /\ limited' = FALSE
  /\ due' = [p \in Pkgs |-> NotDue]
  /\ result' = [p \in Pkgs |-> NoResult]
  /\ suspicious' = {}
  /\ UNCHANGED <<store, world, wasGone, alerts>>

Take(p) ==
  /\ job[p].at = "queued"
  /\ Cardinality(Active) < Concurrency
  /\ Enter(p, job[p], "meta")
  /\ UNCHANGED <<Resting, store, limited, result, unseen>>

\* Mutant: any failed answer is taken for a 404.
AnyFailureIsAbsence(p) ==
  /\ job[p].at = "meta"
  /\ wasGone' = IF Gone(p) THEN wasGone \union {p} ELSE wasGone
  /\ Enter(p, job[p], "probe")
  /\ UNCHANGED <<Unasked, store, limited, result, unseen>>

\* The version endpoint answers 404; one more GET asks about the crate.
MetaGone(p) ==
  /\ job[p].at = "meta"
  /\ Gone(p)
  /\ wasGone' = wasGone \union {p}
  /\ Enter(p, job[p], "probe")
  /\ UNCHANGED <<Unasked, store, limited, result, unseen>>

\* Mutant: a failed re-check is stored as a verdict.
FailureIsStored(p) ==
  /\ job[p].at \in {"meta", "probe"}
  /\ rows' = IF phase = "scan" THEN rows ELSE [rows EXCEPT ![p].status = "ERROR"]
  /\ result' = [result EXCEPT ![p] = [status |-> "ERROR", flags |-> {}]]
  /\ Leave(p)
  /\ UNCHANGED <<Resting, compared, limited, unseen>>

\* The metadata request fails for good: the scan pass reports ERROR and records
\* nothing, the recheck pass keeps the row as it was.
MetaFails(p) ==
  /\ job[p].at \in {"meta", "probe"}
  /\ result' = IF phase = "scan"
               THEN [result EXCEPT ![p] = [status |-> "ERROR", flags |-> {}]] ELSE result
  /\ Leave(p)
  /\ UNCHANGED <<Resting, store, limited, unseen>>

-----------------------------------------------------------------------------
(* The scan pass: checkOne.                                                  *)

MetaServed(p) ==
  /\ phase = "scan" /\ job[p].at = "meta"
  /\ ~Gone(p)
  /\ Enter(p, [job[p] EXCEPT !.age = gatePublishAge(p), !.yanked = registry[p] = "yanked"],
           "download")
  /\ wasGone' = wasGone \ {p}
  /\ UNCHANGED <<Unasked, store, limited, result, unseen>>

\* Mutant: an absent version is an error, as before absences were findings.
AbsenceIsError(p) ==
  /\ phase = "scan" /\ job[p].at = "probe"
  /\ result' = [result EXCEPT ![p] = [status |-> "ERROR", flags |-> {}]]
  /\ Leave(p)
  /\ UNCHANGED <<Resting, limited, store, unseen>>

\* The crate endpoint answers: the absence itself is the finding.
RecordAbsence(p) ==
  /\ phase = "scan" /\ job[p].at = "probe"
  /\ recordMetaOnly(p, {AbsenceFlag(p)})
  /\ UNCHANGED <<Resting, limited>>

\* Download or tree lookup fails, other than by rate limit: ERROR, unless the
\* age gate already has a finding to record.
CompareFails(p) ==
  /\ job[p].at \in {"download", "tree"}
  /\ \/ /\ job[p].age # {}
        /\ recordMetaOnly(p, job[p].age)
     \/ /\ job[p].age = {}
        /\ result' = [result EXCEPT ![p] = [status |-> "ERROR", flags |-> {}]]
        /\ Leave(p)
        /\ UNCHANGED <<store, unseen>>
  /\ UNCHANGED <<Resting, limited>>

\* Mutant: the rate limit is not looked at before the tree request.
DownloadedIgnoresLimit(p) ==
  /\ job[p].at = "download"
  /\ Enter(p, job[p], "tree")
  /\ UNCHANGED <<Resting, store, result, unseen, limited>>

\* After the download the git host is asked for the tree, unless it is limited.
Downloaded(p) ==
  /\ job[p].at = "download"
  /\ \/ ~limited /\ Enter(p, job[p], "tree") /\ UNCHANGED <<store, result, unseen>>
     \/ limited /\ AfterTree(p, "missing", TRUE)
  /\ UNCHANGED <<Resting, limited>>

TreeAnswered(p) ==
  /\ job[p].at = "tree"
  /\ AfterTree(p, Truth[p].source, limited)
  /\ UNCHANGED <<Resting, limited>>

TreeLimited(p) ==
  /\ job[p].at = "tree"
  /\ limited' = TRUE
  /\ AfterTree(p, "missing", TRUE)
  /\ UNCHANGED Resting

ManifestRead(p) ==
  /\ job[p].at = "manifest"
  /\ AfterManifest(p, [job[p] EXCEPT !.flags = @ \union Truth[p].injected], limited)
  /\ UNCHANGED <<Resting, limited>>

\* Every unknown in the manifest lane suppresses its findings.
ManifestSkipped(p) ==
  /\ job[p].at = "manifest"
  /\ AfterManifest(p, job[p], limited)
  /\ UNCHANGED <<Resting, limited>>

ManifestLimited(p) ==
  /\ job[p].at = "manifest"
  /\ limited' = TRUE
  /\ AfterManifest(p, job[p], TRUE)
  /\ UNCHANGED Resting

\* Mutant: a differing blob hash is a finding, line endings included.
SuspectNotNormalised(p, f) ==
  /\ job[p].at = "content" /\ f \in job[p].left
  /\ AfterSuspect(p, f, {f})
  /\ UNCHANGED <<Resting, limited>>

\* A suspect's file is read and compared, or stays unconfirmed.  The loop goes
\* on after a rate limit: gitRateLimited is not read inside it.
SuspectRead(p, f) ==
  /\ job[p].at = "content" /\ f \in job[p].left
  /\ AfterSuspect(p, f, {f} \intersect Truth[p].differs)
  /\ UNCHANGED <<Resting, limited>>

SuspectUnread(p, f) ==
  /\ job[p].at = "content" /\ f \in job[p].left
  /\ AfterSuspect(p, f, {})
  /\ limited' \in {limited, TRUE}
  /\ UNCHANGED Resting

-----------------------------------------------------------------------------
(* The recheck pass: recheckOne.                                             *)

RecheckServed(p) ==
  /\ phase = "recheck" /\ job[p].at = "meta"
  /\ ~Gone(p)
  /\ recordMetaCheck(p, gatePublishAge(p) \union
                        IF registry[p] = "yanked" THEN {Finding("YANKED")} ELSE {})
  /\ wasGone' = wasGone \ {p}
  /\ UNCHANGED <<Unasked, limited>>

RecheckAbsence(p) ==
  /\ phase = "recheck" /\ job[p].at = "probe"
  /\ recordMetaCheck(p, {AbsenceFlag(p)})
  /\ UNCHANGED <<Resting, limited>>

-----------------------------------------------------------------------------
(* The ends of the passes and of the run.                                    *)

Reported(p) == [pkg |-> p, flags |-> result[p].flags]
ScanFindings == {Reported(p) : p \in {q \in Pkgs : result[q].status = "SUSPICIOUS"}}

\* Mutant: only a CLEAN pin that turns SUSPICIOUS is reported.
OnlyClearedFindings ==
  {Reported(p) : p \in {q \in Pkgs : /\ due[q].status = "CLEAN"
                                     /\ result[q].status = "SUSPICIOUS"}}

RecheckFindings ==
  {Reported(p) : p \in {q \in Pkgs : /\ due[q].status # "none"
                                     /\ result[q].status = "SUSPICIOUS"
                                     /\ due[q].status # "SUSPICIOUS"}}

\* Mutant: only cleared pins are re-checked.
OnlyClearedDue == {p \in Pkgs : rows[p].status = "CLEAN" /\ ~rows[p].fresh}

\* getRecheckDue: stored pins whose metadata check is older than 24 hours.
RecheckDue == {p \in Pkgs : Recorded(p) /\ ~rows[p].fresh}

EndScan ==
  /\ phase = "scan" /\ PassDone
  /\ suspicious' = ScanFindings
  /\ phase' = IF opts.recheck THEN "recheck" ELSE "report"
  /\ due' = [p \in Pkgs |-> IF opts.recheck /\ p \in RecheckDue
                            THEN [status |-> rows[p].status, flags |-> rows[p].flags]
                            ELSE NotDue]
  /\ job' = [p \in Pkgs |-> Locals(IF opts.recheck /\ p \in RecheckDue
                                   THEN "queued" ELSE "idle")]
  /\ UNCHANGED <<opts, limited, result, store, world, wasGone, alerts>>

EndRecheck ==
  /\ phase = "recheck" /\ PassDone
  /\ suspicious' = suspicious \union RecheckFindings
  /\ phase' = "report"
  /\ job' = AllIdle
  /\ UNCHANGED <<opts, limited, due, result, store, world, wasGone, alerts>>

\* What the process forgets when it ends.
Quiet == /\ phase' = "idle"
         /\ job' = AllIdle
         /\ limited' = FALSE
         /\ due' = [p \in Pkgs |-> NotDue]
         /\ result' = [p \in Pkgs |-> NoResult]
         /\ suspicious' = {}
         /\ UNCHANGED opts

\* The caller of runScan notifies, prints and exits with gateExit.
Report ==
  /\ phase = "report"
  /\ Quiet
  /\ unseen' = unseen \ {s.pkg : s \in suspicious}
  /\ UNCHANGED <<lost, store, world, wasGone>>

\* The process dies or runScan throws: what was recorded stays recorded.
Crash ==
  /\ phase # "idle" /\ crashes < MaxCrashes
  /\ crashes' = crashes + 1
  /\ Quiet
  /\ lost' = lost \union unseen
  /\ unseen' = {}
  /\ UNCHANGED <<store, registry, age, wasGone>>

-----------------------------------------------------------------------------
(* The world.  A run takes less than the 24 hours that make a row stale.     *)

RegistryMoves(p, s) ==
  /\ s # registry[p]
  /\ registry' = [registry EXCEPT ![p] = s]
  /\ UNCHANGED <<age, crashes, store, process, wasGone, alerts>>

AgesOut(p) ==
  /\ age[p] = "young"
  /\ age' = [age EXCEPT ![p] = "old"]
  /\ UNCHANGED <<registry, crashes, store, process, wasGone, alerts>>

Stale(p) ==
  /\ phase = "idle" /\ rows[p].fresh
  /\ rows' = [rows EXCEPT ![p] = [status |-> rows[p].status, flags |-> rows[p].flags,
                                   fresh |-> FALSE]]
  /\ UNCHANGED <<compared, world, process, wasGone, alerts>>

-----------------------------------------------------------------------------
Init ==
  /\ rows = [p \in Pkgs |-> Unrecorded]
  /\ phase = "idle" /\ opts \in RunOptions
  /\ job = AllIdle /\ limited = FALSE
  /\ due = [p \in Pkgs |-> NotDue] /\ result = [p \in Pkgs |-> NoResult]
  /\ suspicious = {}
  /\ registry \in [Pkgs -> RegistryStates]
  /\ age \in [Pkgs -> Ages]
  /\ crashes = 0
  /\ wasGone = {} /\ compared = {} /\ unseen = {} /\ lost = {}

Step(p) == \/ Take(p) \/ MetaGone(p) \/ MetaFails(p)
           \/ MetaServed(p) \/ RecordAbsence(p) \/ CompareFails(p) \/ Downloaded(p)
           \/ TreeAnswered(p) \/ TreeLimited(p)
           \/ ManifestRead(p) \/ ManifestSkipped(p) \/ ManifestLimited(p)
           \/ \E f \in Truth[p].suspects : SuspectRead(p, f) \/ SuspectUnread(p, f)
           \/ RecheckServed(p) \/ RecheckAbsence(p)

World(p) == \/ \E s \in RegistryStates : RegistryMoves(p, s)
            \/ AgesOut(p) \/ Stale(p)

Next == \/ \E o \in RunOptions : StartRun(o)
        \/ \E p \in Pkgs : Step(p) \/ World(p)
        \/ EndScan \/ EndRecheck \/ Report \/ Crash

Spec == Init /\ [][Next]_vars

(* Fairness.  A pool runner never stops taking work, the process never pauses  *)
(* between its own steps, a request is answered or fails, and runs follow one  *)
(* another (cron).  A service that is asked again and again answers at last.   *)
Answered(p) == \/ MetaServed(p) \/ MetaGone(p) \/ RecordAbsence(p)
               \/ RecheckServed(p) \/ RecheckAbsence(p) \/ Downloaded(p)
Resumed(p) == \/ Answered(p) \/ MetaFails(p) \/ CompareFails(p) \/ TreeAnswered(p)
              \/ TreeLimited(p)
              \/ ManifestRead(p) \/ ManifestSkipped(p) \/ ManifestLimited(p)
              \/ \E f \in Truth[p].suspects : SuspectRead(p, f) \/ SuspectUnread(p, f)
Asked(p, stage) == job[p].at = stage /\ Answered(p)

Fairness ==
  /\ WF_vars(\E o \in RunOptions : StartRun(o))
  /\ WF_vars(EndScan) /\ WF_vars(EndRecheck) /\ WF_vars(Report)
  /\ \A p \in Pkgs : /\ WF_vars(Take(p)) /\ WF_vars(Resumed(p))
                     /\ SF_vars(Asked(p, "meta")) /\ SF_vars(Asked(p, "probe"))
                     /\ SF_vars(Asked(p, "download")) /\ SF_vars(TreeAnswered(p))
                     /\ SF_vars(Stale(p))

FairSpec == Spec /\ Fairness

-----------------------------------------------------------------------------
(* Properties.                                                               *)

JobType ==
  [at : Stages, age : SUBSET FindingSet, yanked : BOOLEAN,
   tree : {"missing", "elsewhere", "located"}, flags : SUBSET FindingSet,
   left : SUBSET FindingSet]

\* Every variable has its type.
TypeOK ==
  /\ rows \in [Pkgs -> [status : Statuses \union {"unrecorded"},
                        flags : SUBSET FindingSet, fresh : BOOLEAN]]
  /\ phase \in {"idle", "scan", "recheck", "report"}
  /\ opts \in [gate : BOOLEAN, recheck : BOOLEAN]
  /\ job \in [Pkgs -> JobType]
  /\ limited \in BOOLEAN
  /\ due \in [Pkgs -> [status : Statuses \union {"none"}, flags : SUBSET FindingSet]]
  /\ result \in [Pkgs -> [status : Statuses \union {"none", "ERROR"},
                          flags : SUBSET FindingSet]]
  /\ suspicious \subseteq [pkg : Pkgs, flags : SUBSET FindingSet]
  /\ registry \in [Pkgs -> {"live", "yanked", "versionGone", "crateGone"}]
  /\ age \in [Pkgs -> {"young", "old", "unknown"}]
  /\ crashes \in Nat
  /\ wasGone \subseteq Pkgs /\ compared \subseteq Pkgs
  /\ unseen \subseteq Pkgs /\ lost \subseteq Pkgs

\* fetcher.js: "an outage or rate limit can never masquerade as a removal".  A
\* stored removal finding means that the version endpoint answered the program with
\* a 404, and has not served the version since, however failures, retries and
\* restorations interleave with the two requests.
RemovalWasSeen ==
  \A p \in Pkgs : \A f \in rows[p].flags :
    f.flag \in {"VERSION_REMOVED", "CRATE_REMOVED"} => p \in wasGone

GitFindings(p) == Truth[p].absent \union Truth[p].injected \union Truth[p].differs

\* The git lanes accuse nobody they have not compared: a stored divergence is one
\* the artifact really has, and one that only git can show is stored only for a
\* pin whose tree was found and located.
VerdictsAreSound ==
  \A p \in Pkgs : \A f \in rows[p].flags \ RegistryFindings :
    \/ f \in Truth[p].artifact
    \/ f \in GitFindings(p) /\ p \in compared /\ Truth[p].source = "located"

\* scanner.js: the re-check "carries the stored git-diff verdict".  No step, of
\* either pass, before or after a crash, adds or drops a stored divergence.
DivergenceOf(flags) == {f \in flags : f.flag \notin META_FLAGS}
DivergenceCarried ==
  [][\A p \in Pkgs : Recorded(p) =>
       DivergenceOf(rows'[p].flags) = DivergenceOf(rows[p].flags)]_vars

\* Once the git host has limited the scan no worker enters the tree, manifest or
\* content lane, from the step that meets the limit on.  What goes on is what the
\* code lets go on: requests under way, and the content lane of a worker that is in
\* it, which asks for its remaining suspects and for nothing else (scanner.js:413).
\* README.md says that "the comparison stops for the rest of the run".
LimitStopsNewLanes ==
  [][limited' => \A p \in Pkgs :
       job'[p].at \in GitStages => /\ job'[p].at = job[p].at
                                  /\ job'[p].left \subseteq job[p].left]_vars

\* When a run has ended, every pin it turned SUSPICIOUS has been reported, in
\* whichever pass that happened, or a crash took the report.
NoAlertLost == phase = "idle" => unseen = {}

\* Scanner implements the abstract ledger: a row is the pin's verdict, and what a
\* comparison may find is what the pin's artifact and git side contain.
verdict == [p \in Pkgs |-> [status |-> rows[p].status, flags |-> rows[p].flags]]
Possible == [p \in Pkgs |-> GitFindings(p) \union Truth[p].artifact]
Ledger == INSTANCE VerdictLedger WITH Pkgs <- Pkgs, Possible <- Possible, verdict <- verdict,
                                      unseen <- unseen, lost <- lost
ImplementsLedger == Ledger!Spec

\* A run ends, whatever fails in it.
RunsEnd == phase # "idle" ~> phase = "idle"

\* Every pin is recorded at last: a failed attempt is retried by the next run.
EveryPinRecorded == \A p \in Pkgs : <>Recorded(p)

\* A pin that is gone for good ends up flagged, and stays so: a failed re-check
\* leaves the row due, so that the next run asks again.
RemovalEventuallyFlagged ==
  \A p \in Pkgs : <>[](registry[p] = "crateGone")
                    => <>[](Finding("CRATE_REMOVED") \in rows[p].flags)

\* The age finding does not outlive the age: once the pin is old enough the
\* re-check drops it.
AgedPinCleared ==
  \A p \in Pkgs : age[p] = "old" ~> [](Finding("PUBLISH_AGE") \notin rows[p].flags)

-----------------------------------------------------------------------------
(* Properties the documentation states and the code does not keep.           *)

\* docs/FAQ.md: NO_GIT_TAG is "explicitly not a clean verdict".  A verdict CLEAN
\* then rests on a comparison with the git side.
CleanMeansCompared == \A p \in Pkgs : rows[p].status = "CLEAN" => p \in compared

\* README: "--scan and --ci exit non-zero when a finding meets --fail-on".  When the
\* findings of a pin reach --fail-on, and those its row had before the run did not,
\* the run's exit code is 1.
MeetsGate(flags) == atLeast(maxSeverity(flags), FailOn)
NewFindingMeetsGate ==
  phase = "report" =>
    \A p \in Pkgs :
      MeetsGate(result[p].flags) /\ ~MeetsGate(due[p].flags)
        => gateExit(suspicious, FailOn) = 1
=============================================================================
