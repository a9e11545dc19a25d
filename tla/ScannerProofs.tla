---------------------------- MODULE ScannerProofs ----------------------------
(***************************************************************************)
(* Scanner, for every lockfile, every truth about it and every number of   *)
(* runners: its invariants, and that it implements VerdictLedger.          *)
(*                                                                         *)
(* Whatever a worker does to its pin is one of four things: it moves on,   *)
(* fails, records a verdict or refreshes one (PinStep below).  That is     *)
(* proved once, action by action; the theorems then need four cases.       *)
(***************************************************************************)
EXTENDS Scanner, TLAPS

Absences == {Finding("VERSION_REMOVED"), Finding("CRATE_REMOVED")}
Notices == {Finding("YANKED"), Finding("PUBLISH_AGE")}

\* Finding f about pin p is a registry notice, or really there to be found; what
\* only git can show needs a located tree.
Backed(p, f, located) ==
  \/ f \in Notices
  \/ f \in Truth[p].artifact
  \/ located /\ Truth[p].source = "located" /\ f \in GitFindings(p)

JobFits(p, j) ==
  /\ j \in JobType
  /\ j.age \subseteq {Finding("PUBLISH_AGE")}
  /\ \A f \in j.flags : Backed(p, f, j.tree = "located")
  /\ j.tree = "located" => Truth[p].source = "located"
  /\ j.at \in {"manifest", "content"} => j.tree = "located"

VerdictFits(p, status, flags, whole) ==
  /\ status \in Statuses /\ flags \subseteq FindingSet /\ whole \in BOOLEAN
  /\ status = "SUSPICIOUS" <=> isSuspicious(flags)
  /\ \/ p \in wasGone /\ \E f \in Absences : flags \subseteq {f}
     \/ \A f \in flags : Backed(p, f, whole)

\* What the registry may say about a pin, before the allowlist.
View(p, raw) == \/ raw \subseteq Notices
                \/ p \in wasGone /\ \E f \in Absences : raw = {f}

Moves(p) == /\ \E j \in JobType :
                 /\ JobFits(p, j) /\ j.at \in Waiting
                 /\ phase = "recheck" => j.at \in {"meta", "probe"}
                 /\ j.at = "probe" => p \in wasGone'
                 /\ job' = [job EXCEPT ![p] = j]
            /\ \/ UNCHANGED wasGone
               \/ wasGone' = wasGone \union {p}
               \/ phase = "scan" /\ wasGone' = wasGone \ {p}
            /\ UNCHANGED <<store, result, unseen>>

Fails(p) == /\ job' = [job EXCEPT ![p] = Locals("done")]
            /\ \/ UNCHANGED result
               \/ phase = "scan" /\ result' = [result EXCEPT ![p] = [status |-> "ERROR",
                                                                     flags |-> {}]]
            /\ UNCHANGED <<store, unseen, wasGone>>

Records(p) == /\ phase = "scan" /\ UNCHANGED wasGone
              /\ \E status \in Statuses, flags \in SUBSET FindingSet, whole \in BOOLEAN :
                   VerdictFits(p, status, flags, whole) /\ recordPackage(p, status, flags, whole)

Refreshes(p) == /\ phase = "recheck"
                /\ \E raw \in SUBSET FindingSet :
                     /\ View(p, raw) /\ recordMetaCheck(p, raw)
                     /\ \/ UNCHANGED wasGone
                        \/ raw \subseteq Notices /\ wasGone' = wasGone \ {p}

\* The pass has taken p and is not done with it.
PinStep(p) == /\ job[p].at \in {"queued"} \union Waiting
              /\ Moves(p) \/ Fails(p) \/ Records(p) \/ Refreshes(p)
              /\ limited' \in BOOLEAN
              /\ UNCHANGED Unasked

\* While a pass is on, the rows it still has to write are as it found them.
PassInv ==
  \A p \in Pkgs :
    /\ JobFits(p, job[p])
    /\ phase \in {"idle", "report"} => job[p].at = "idle"
    /\ job[p].at \in {"download"} \union GitStages => phase = "scan"
    /\ phase = "scan" /\ job[p].at \in {"queued"} \union Waiting => ~Recorded(p)
    /\ phase = "recheck" /\ job[p].at \in {"queued", "meta", "probe"} =>
         /\ Recorded(p)
         /\ due[p].status = rows[p].status /\ due[p].flags = rows[p].flags
         /\ result[p].status = "none"
    /\ phase = "scan" /\ result[p].status \in Statuses => Recorded(p) /\ rows[p].fresh
    /\ phase = "scan" /\ result[p].status = "ERROR" => ~Recorded(p)

\* Every pin that is owed a report is among what this run is going to report.
AlertInv ==
  \A p \in unseen :
    /\ Recorded(p)
    /\ \/ phase = "scan" /\ result[p].status = "SUSPICIOUS"
       \/ phase \in {"recheck", "report"} /\ p \in {s.pkg : s \in suspicious}
       \/ phase = "recheck" /\ result[p].status = "SUSPICIOUS"
          /\ due[p].status \notin {"none", "SUSPICIOUS"}

\* Only a 404 leads to the second request, and a pin that is not recorded has no findings.
GoneInv == \A p \in Pkgs : /\ job[p].at = "probe" => p \in wasGone
                           /\ ~Recorded(p) => rows[p].flags = {}

Inv == TypeOK /\ PassInv /\ AlertInv /\ GoneInv /\ RemovalWasSeen /\ VerdictsAreSound

-----------------------------------------------------------------------------
(* Findings.                                                                 *)

\* The allowlist only ever removes findings.
LEMMA SuppressOnlyRemoves ==
  ASSUME NEW p, NEW flags PROVE suppress(p, flags) \subseteq flags
BY DEF suppress, applyAllowlist

\* isSuspicious asks whether any finding is worse than info.
LEMMA SuspiciousMeaning ==
  ASSUME NEW flags
  PROVE isSuspicious(flags) <=> \E f \in flags : severityOf(f) \in {"medium", "high"}
BY DEF isSuspicious, atLeast, maxSeverity, RANK, severityOf

\* Registry findings are findings, and no divergence is one of them.
LEMMA FindingKinds ==
  /\ Notices \subseteq FindingSet /\ Absences \subseteq FindingSet
  /\ Notices \union Absences = RegistryFindings
  /\ \A f \in RegistryFindings : f.flag \in META_FLAGS
  /\ \A f \in Notices : f.flag \in {"YANKED", "PUBLISH_AGE"}
  /\ \A f \in Absences : f.flag \in {"VERSION_REMOVED", "CRATE_REMOVED"}
<1>1. ASSUME NEW flag \in META_FLAGS
      PROVE  Finding(flag) \in FindingSet /\ Finding(flag).flag = flag
  BY FilesAssumption DEF META_FLAGS, FindingSet, Finding, FlagNames, HighFlags, MediumFlags, InfoFlags
<1>2. Notices \union Absences = RegistryFindings
  BY DEF Notices, Absences, RegistryFindings, META_FLAGS
<1> QED BY <1>1, <1>2 DEF Notices, Absences, RegistryFindings, META_FLAGS

\* What a pin's truth holds are divergences.
LEMMA TruthTypes ==
  ASSUME NEW p \in Pkgs
  PROVE  /\ Truth[p].absent \in SUBSET Divergences /\ Truth[p].injected \in SUBSET Divergences
         /\ Truth[p].artifact \in SUBSET Divergences /\ Truth[p].suspects \in SUBSET Divergences
         /\ Truth[p].differs \in SUBSET Divergences
         /\ Truth[p].source \in {"missing", "elsewhere", "located"}
         /\ GitFindings(p) \in SUBSET Divergences
         /\ Divergences \subseteq FindingSet
         /\ \A f \in Divergences : f.flag \notin META_FLAGS
BY TruthAssumption DEF PinTruth, GitFindings, Divergences

-----------------------------------------------------------------------------
(* The lanes: from a job that fits, a worker goes on to one that fits or       *)
(* records a verdict that fits.                                              *)

LEMMA ConcludeRecords ==
  ASSUME NEW p \in Pkgs, NEW j, JobFits(p, j), phase = "scan", UNCHANGED wasGone, Conclude(p, j)
  PROVE  Records(p)
<1> DEFINE flags == suppress(p, j.flags)
           status == IF isSuspicious(flags) THEN "SUSPICIOUS"
                     ELSE IF j.tree # "located" THEN "NO_GIT_TAG" ELSE "CLEAN"
<1>1. recordPackage(p, status, flags, j.tree = "located")
  BY DEF Conclude
<1>2. flags \subseteq j.flags
  BY SuppressOnlyRemoves
<1>3. j.flags \subseteq FindingSet
  BY DEF JobFits, JobType
<1>4. /\ status \in Statuses /\ flags \in SUBSET FindingSet
      /\ (j.tree = "located") \in BOOLEAN
      /\ status = "SUSPICIOUS" <=> isSuspicious(flags)
  BY <1>2, <1>3 DEF Statuses
<1>5. VerdictFits(p, status, flags, j.tree = "located")
  BY <1>2, <1>4 DEF VerdictFits, JobFits
<1> HIDE DEF flags, status
<1> QED BY <1>1, <1>4, <1>5 DEF Records

LEMMA MetaOnlyRecords ==
  ASSUME NEW p \in Pkgs, NEW raw, View(p, raw), phase = "scan", UNCHANGED wasGone, recordMetaOnly(p, raw)
  PROVE  Records(p)
<1> DEFINE flags == suppress(p, raw)
           status == IF isSuspicious(flags) THEN "SUSPICIOUS" ELSE "CLEAN"
<1>1. recordPackage(p, status, flags, FALSE)
  BY DEF recordMetaOnly
<1>2. flags \subseteq raw
  BY SuppressOnlyRemoves
<1>3. raw \subseteq FindingSet
  BY FindingKinds DEF View
<1>4. /\ status \in Statuses /\ flags \in SUBSET FindingSet
      /\ status = "SUSPICIOUS" <=> isSuspicious(flags)
  BY <1>2, <1>3 DEF Statuses
<1>5. VerdictFits(p, status, flags, FALSE)
  BY <1>2, <1>4 DEF VerdictFits, View, Backed
<1> HIDE DEF flags, status
<1> QED BY <1>1, <1>4, <1>5 DEF Records

LEMMA AfterManifestFits ==
  ASSUME NEW p \in Pkgs, NEW j, JobFits(p, j), phase = "scan", UNCHANGED wasGone, NEW isLimited \in BOOLEAN,
         AfterManifest(p, j, isLimited)
  PROVE  Moves(p) \/ Records(p)
<1> DEFINE yankedFlag == IF j.yanked THEN {Finding("YANKED")} ELSE {}
           k == [j EXCEPT !.flags = @ \union Truth[p].artifact \union yankedFlag,
                          !.left = Truth[p].suspects]
           m == [k EXCEPT !.at = "content"]
<1>1. k \in JobType
  BY TruthTypes, FindingKinds DEF JobFits, JobType, Notices
<1>2. \A f \in k.flags : Backed(p, f, k.tree = "located")
  BY DEF JobFits, JobType, Backed, Notices
<1>3. JobFits(p, k)
  BY <1>1, <1>2 DEF JobFits, JobType
<1>4. CASE Enter(p, k, "content") /\ j.tree = "located" /\ UNCHANGED <<store, result, unseen>>
  <2>1. m \in JobType /\ m.at = "content" /\ m.flags = k.flags /\ m.tree = "located"
        /\ m.age = k.age
    BY <1>1, <1>4 DEF JobType, Stages, JobFits
  <2>2. JobFits(p, m)
    BY <1>3, <2>1 DEF JobFits, JobType
  <2>3. job' = [job EXCEPT ![p] = m]
    BY <1>4 DEF Enter
  <2> HIDE DEF m
  <2> QED BY <1>4, <2>1, <2>2, <2>3 DEF Moves, Waiting, GitStages
<1>5. CASE Conclude(p, k)
  <2> HIDE DEF k
  <2> QED BY <1>3, <1>5, ConcludeRecords
<1> QED BY <1>4, <1>5 DEF AfterManifest

LEMMA AfterTreeFits ==
  ASSUME NEW p \in Pkgs, JobFits(p, job[p]), phase = "scan", UNCHANGED wasGone, NEW isLimited \in BOOLEAN,
         job[p].at \in {"download", "tree"},
         NEW tree \in {"missing", "elsewhere", "located"},
         tree = "located" => Truth[p].source = "located",
         AfterTree(p, tree, isLimited)
  PROVE  Moves(p) \/ Records(p)
<1> DEFINE found == IF tree = "located" THEN Truth[p].absent ELSE {}
           k == [job[p] EXCEPT !.tree = tree, !.flags = job[p].age \union found]
           m == [k EXCEPT !.at = "manifest"]
<1>1. k \in JobType
  BY TruthTypes DEF JobFits, JobType
<1>2. k.tree = tree /\ k.flags = job[p].age \union found /\ k.at = job[p].at /\ k.age = job[p].age
  BY DEF JobFits, JobType
<1>3. \A f \in k.flags : Backed(p, f, k.tree = "located")
  BY <1>2 DEF JobFits, Backed, Notices, GitFindings
<1>4. JobFits(p, k)
  BY <1>1, <1>2, <1>3 DEF JobFits
<1>5. CASE Enter(p, k, "manifest") /\ tree = "located" /\ UNCHANGED <<store, result, unseen>>
  <2>1. m \in JobType /\ m.at = "manifest" /\ m.flags = k.flags /\ m.tree = "located"
        /\ m.age = k.age
    BY <1>1, <1>2, <1>5 DEF JobType, Stages
  <2>2. JobFits(p, m)
    BY <1>4, <1>2, <2>1 DEF JobFits
  <2>3. job' = [job EXCEPT ![p] = m]
    BY <1>5 DEF Enter
  <2> HIDE DEF m
  <2> QED BY <1>5, <2>1, <2>2, <2>3 DEF Moves, Waiting, GitStages
<1>6. CASE AfterManifest(p, k, isLimited)
  <2> HIDE DEF k
  <2> QED BY <1>4, <1>6, AfterManifestFits
<1> QED BY <1>5, <1>6 DEF AfterTree

\* A limited scan goes on without a tree.
LEMMA NoTreeFits ==
  ASSUME NEW p \in Pkgs, JobFits(p, job[p]), phase = "scan", UNCHANGED wasGone,
         job[p].at \in {"download", "tree"}, AfterTree(p, "missing", TRUE)
  PROVE  Moves(p) \/ Records(p)
<1>1. "missing" \in {"missing", "elsewhere", "located"} /\ "missing" # "located"
  OBVIOUS
<1> QED BY <1>1, AfterTreeFits

LEMMA AfterSuspectFits ==
  ASSUME NEW p \in Pkgs, JobFits(p, job[p]), phase = "scan", UNCHANGED wasGone, job[p].at = "content",
         NEW f, NEW found \in SUBSET Truth[p].differs, AfterSuspect(p, f, found)
  PROVE  Moves(p) \/ Records(p)
<1> DEFINE k == [job[p] EXCEPT !.left = @ \ {f}, !.flags = @ \union found]
           m == [k EXCEPT !.at = "content"]
<1>1. k \in JobType
  BY TruthTypes DEF JobFits, JobType
<1>2. /\ k.tree = job[p].tree /\ k.flags = job[p].flags \union found /\ k.at = job[p].at
      /\ k.age = job[p].age /\ k.tree = "located" /\ Truth[p].source = "located"
  BY DEF JobFits, JobType
<1>3. \A g \in k.flags : Backed(p, g, k.tree = "located")
  BY <1>2 DEF JobFits, Backed, GitFindings
<1>4. JobFits(p, k)
  BY <1>1, <1>2, <1>3 DEF JobFits
<1>5. CASE Enter(p, k, "content") /\ UNCHANGED <<store, result, unseen>>
  <2>1. m \in JobType /\ m.at = "content" /\ m.flags = k.flags /\ m.tree = k.tree
        /\ m.age = k.age
    BY <1>1, <1>2 DEF JobType, Stages
  <2>2. JobFits(p, m)
    BY <1>2, <1>4, <2>1 DEF JobFits
  <2>3. job' = [job EXCEPT ![p] = m]
    BY <1>5 DEF Enter
  <2> HIDE DEF m
  <2> QED BY <1>5, <2>1, <2>2, <2>3 DEF Moves, Waiting, GitStages
<1>6. CASE Conclude(p, k)
  <2> HIDE DEF k
  <2> QED BY <1>4, <1>6, ConcludeRecords
<1> QED BY <1>5, <1>6 DEF AfterSuspect

-----------------------------------------------------------------------------
\* A finding the age gate raises is the one about age.
LEMMA GateRaisesAge ==
  ASSUME NEW p PROVE gatePublishAge(p) \subseteq {Finding("PUBLISH_AGE")}
BY DEF gatePublishAge

LEMMA AbsenceIsView ==
  ASSUME NEW p \in Pkgs, p \in wasGone PROVE View(p, {AbsenceFlag(p)})
BY DEF View, AbsenceFlag, Absences

\* Whatever a worker does to its pin is a PinStep.
LEMMA StepIsPinStep ==
  ASSUME Inv, NEW p \in Pkgs, Step(p) PROVE PinStep(p)
<1> USE DEF Waiting, GitStages, Resting
<1>1. JobFits(p, job[p]) /\ job[p] \in JobType /\ limited \in BOOLEAN
      /\ phase \in {"idle", "scan", "recheck", "report"}
  BY DEF Inv, PassInv, TypeOK
<1>2. CASE Take(p)
  <2>1. JobFits(p, [job[p] EXCEPT !.at = "meta"])
    BY <1>1 DEF JobFits, JobType, Stages
  <2> QED BY <1>1, <1>2, <2>1 DEF Take, PinStep, Moves, Enter, JobFits, JobType
<1>3. CASE MetaGone(p)
  <2>1. p \in wasGone' /\ wasGone' = wasGone \union {p}
    BY <1>3 DEF MetaGone
  <2>2. JobFits(p, [job[p] EXCEPT !.at = "probe"])
    BY <1>1 DEF JobFits, JobType, Stages
  <2> QED BY <1>1, <1>3, <2>1, <2>2 DEF MetaGone, PinStep, Moves, Enter, JobFits, JobType
<1>4. CASE MetaFails(p)
  BY <1>1, <1>4 DEF MetaFails, PinStep, Fails, Leave
<1>5. CASE MetaServed(p)
  <2> DEFINE k == [job[p] EXCEPT !.age = gatePublishAge(p), !.yanked = registry[p] = "yanked"]
             m == [k EXCEPT !.at = "download"]
  <2>1. /\ m \in JobType /\ m.at = "download" /\ m.age = gatePublishAge(p)
        /\ m.flags = job[p].flags /\ m.tree = job[p].tree
    BY <1>1, GateRaisesAge, FindingKinds DEF JobType, Stages, Notices
  <2>2. JobFits(p, m)
    BY <1>1, <2>1, GateRaisesAge DEF JobFits
  <2>3. phase = "scan" /\ job' = [job EXCEPT ![p] = m] /\ job[p].at = "meta"
    BY <1>5 DEF MetaServed, Enter
  <2>4. UNCHANGED <<Unasked, store, limited, result, unseen>> /\ wasGone' = wasGone \ {p}
    BY <1>5 DEF MetaServed
  <2> HIDE DEF m
  <2> QED BY <1>1, <2>1, <2>2, <2>3, <2>4 DEF PinStep, Moves
<1>6. CASE RecordAbsence(p)
  <2>1. View(p, {AbsenceFlag(p)})
    BY <1>6, AbsenceIsView DEF RecordAbsence, Inv, GoneInv
  <2>2. Records(p)
    BY <1>6, <2>1, MetaOnlyRecords DEF RecordAbsence
  <2> QED BY <1>1, <1>6, <2>2 DEF RecordAbsence, PinStep
<1>7. CASE CompareFails(p)
  <2>1. phase = "scan"
    BY <1>7 DEF CompareFails, Inv, PassInv
  <2>2. CASE recordMetaOnly(p, job[p].age)
    <3>1. View(p, job[p].age)
      BY <1>1 DEF View, JobFits, Notices
    <3>2. Records(p)
      BY <1>7, <2>1, <2>2, <3>1, MetaOnlyRecords DEF CompareFails
    <3> QED BY <1>1, <1>7, <3>2 DEF CompareFails, PinStep
  <2>3. CASE Leave(p) /\ result' = [result EXCEPT ![p] = [status |-> "ERROR", flags |-> {}]]
             /\ UNCHANGED <<store, unseen>>
    BY <1>1, <1>7, <2>1, <2>3 DEF CompareFails, PinStep, Fails, Leave
  <2> QED BY <1>7, <2>2, <2>3 DEF CompareFails
<1>8. CASE Downloaded(p)
  <2>1. phase = "scan"
    BY <1>8 DEF Downloaded, Inv, PassInv
  <2>2. CASE Enter(p, job[p], "tree") /\ UNCHANGED <<store, result, unseen>>
    <3>1. JobFits(p, [job[p] EXCEPT !.at = "tree"])
      BY <1>1 DEF JobFits, JobType, Stages
    <3> QED BY <1>1, <1>8, <2>1, <2>2, <3>1
            DEF Downloaded, PinStep, Moves, Enter, JobFits, JobType
  <2>3. CASE AfterTree(p, "missing", TRUE)
    <3>1. Moves(p) \/ Records(p)
      BY <1>1, <1>8, <2>1, <2>3, NoTreeFits, Zenon DEF Downloaded
    <3> QED BY <1>1, <1>8, <3>1 DEF Downloaded, PinStep
  <2>4. \/ Enter(p, job[p], "tree") /\ UNCHANGED <<store, result, unseen>>
        \/ AfterTree(p, "missing", TRUE)
    BY <1>8, Zenon DEF Downloaded
  <2> QED BY <2>2, <2>3, <2>4
<1>9. CASE TreeAnswered(p)
  <2>1. phase = "scan"
    BY <1>9 DEF TreeAnswered, Inv, PassInv
  <2> QED BY <1>1, <1>9, <2>1, TruthTypes, AfterTreeFits DEF TreeAnswered, PinStep
<1>10. CASE TreeLimited(p)
  <2>1. phase = "scan"
    BY <1>10 DEF TreeLimited, Inv, PassInv
  <2>2. /\ AfterTree(p, "missing", TRUE) /\ limited' = TRUE
        /\ job[p].at = "tree" /\ UNCHANGED Resting
    BY <1>10, Zenon DEF TreeLimited
  <2>3. Moves(p) \/ Records(p)
    BY <1>1, <2>1, <2>2, NoTreeFits, Zenon
  <2> QED BY <2>2, <2>3 DEF PinStep
<1>11. CASE ManifestRead(p)
  <2> DEFINE k == [job[p] EXCEPT !.flags = @ \union Truth[p].injected]
  <2>1. phase = "scan" /\ job[p].tree = "located" /\ Truth[p].source = "located"
    BY <1>1, <1>11 DEF ManifestRead, Inv, PassInv, JobFits
  <2>2. /\ k \in JobType /\ k.at = job[p].at /\ k.age = job[p].age /\ k.tree = job[p].tree
        /\ k.flags = job[p].flags \union Truth[p].injected
    BY <1>1, TruthTypes DEF JobType
  <2>3. JobFits(p, k)
    BY <1>1, <2>1, <2>2 DEF JobFits, Backed, GitFindings
  <2>4. AfterManifest(p, k, limited)
    BY <1>11 DEF ManifestRead
  <2> HIDE DEF k
  <2> QED BY <1>1, <1>11, <2>1, <2>3, <2>4, AfterManifestFits DEF ManifestRead, PinStep
<1>12. CASE ManifestSkipped(p)
  <2>1. phase = "scan"
    BY <1>12 DEF ManifestSkipped, Inv, PassInv
  <2> QED BY <1>1, <1>12, <2>1, AfterManifestFits DEF ManifestSkipped, PinStep
<1>13. CASE ManifestLimited(p)
  <2>1. phase = "scan"
    BY <1>13 DEF ManifestLimited, Inv, PassInv
  <2> QED BY <1>1, <1>13, <2>1, AfterManifestFits DEF ManifestLimited, PinStep
<1>14. ASSUME NEW f \in Truth[p].suspects, SuspectRead(p, f) PROVE PinStep(p)
  <2>1. phase = "scan"
    BY <1>14 DEF SuspectRead, Inv, PassInv
  <2> QED BY <1>1, <1>14, <2>1, AfterSuspectFits DEF SuspectRead, PinStep
<1>15. ASSUME NEW f \in Truth[p].suspects, SuspectUnread(p, f) PROVE PinStep(p)
  <2>1. phase = "scan"
    BY <1>15 DEF SuspectUnread, Inv, PassInv
  <2>2. {} \in SUBSET Truth[p].differs
    OBVIOUS
  <2> QED BY <1>1, <1>15, <2>1, <2>2, AfterSuspectFits DEF SuspectUnread, PinStep
<1>16. CASE RecheckServed(p)
  <2> DEFINE raw == gatePublishAge(p) \union
                    IF registry[p] = "yanked" THEN {Finding("YANKED")} ELSE {}
  <2>1. raw \subseteq Notices
    BY GateRaisesAge DEF Notices
  <2>2. recordMetaCheck(p, raw) /\ phase = "recheck" /\ wasGone' = wasGone \ {p}
    BY <1>16 DEF RecheckServed
  <2>3. raw \in SUBSET FindingSet /\ View(p, raw)
    BY <2>1, FindingKinds DEF View
  <2> HIDE DEF raw
  <2> QED BY <1>1, <1>16, <2>1, <2>2, <2>3 DEF RecheckServed, PinStep, Refreshes
<1>17. CASE RecheckAbsence(p)
  <2>1. View(p, {AbsenceFlag(p)})
    BY <1>17, AbsenceIsView DEF RecheckAbsence, Inv, GoneInv
  <2>2. {AbsenceFlag(p)} \in SUBSET FindingSet
    BY <2>1, FindingKinds DEF View
  <2> QED BY <1>1, <1>17, <2>1, <2>2 DEF RecheckAbsence, PinStep, Refreshes
<1> QED BY <1>2, <1>3, <1>4, <1>5, <1>6, <1>7, <1>8, <1>9, <1>10, <1>11, <1>12, <1>13,
           <1>14, <1>15, <1>16, <1>17 DEF Step

-----------------------------------------------------------------------------
(* The invariant.                                                            *)

\* JobFits speaks of constants alone.
LEMMA FitsForGood ==
  ASSUME NEW p, NEW j, JobFits(p, j) PROVE JobFits(p, j)'
BY DEF JobFits, Backed, GitFindings

LEMMA IdleJobFits ==
  ASSUME NEW p, NEW stage \in {"idle", "queued", "done"} PROVE JobFits(p, Locals(stage))
BY DEF JobFits, JobType, Locals, Stages

LEMMA InitInv == Init => Inv
<1> SUFFICES ASSUME Init PROVE Inv
  OBVIOUS
<1>1. TypeOK
  <2>1. rows \in [Pkgs -> [status : Statuses \union {"unrecorded"},
                           flags : SUBSET FindingSet, fresh : BOOLEAN]]
    BY DEF Init, Unrecorded
  <2>2. job \in [Pkgs -> JobType]
    BY DEF Init, AllIdle, Locals, JobType, Stages
  <2>3. due \in [Pkgs -> [status : Statuses \union {"none"}, flags : SUBSET FindingSet]]
        /\ result \in [Pkgs -> [status : Statuses \union {"none", "ERROR"},
                                flags : SUBSET FindingSet]]
    BY DEF Init, NotDue, NoResult
  <2>4. /\ opts \in [gate : BOOLEAN, recheck : BOOLEAN]
        /\ registry \in [Pkgs -> {"live", "yanked", "versionGone", "crateGone"}]
        /\ age \in [Pkgs -> {"young", "old", "unknown"}]
    BY OptionsAssumption, RegistryAssumption DEF Init
  <2> QED BY <2>1, <2>2, <2>3, <2>4 DEF Init, TypeOK
<1>2. PassInv
  <2> SUFFICES ASSUME NEW p \in Pkgs PROVE PassInv!(p)
    BY DEF PassInv
  <2>1. job[p] = Locals("idle") /\ job[p].at = "idle" /\ phase = "idle"
    BY DEF Init, AllIdle, Locals
  <2> QED BY <2>1, IdleJobFits DEF Waiting, GitStages
<1>3. AlertInv /\ GoneInv
  BY DEF Init, AlertInv, GoneInv, AllIdle, Locals, Unrecorded
<1>4. RemovalWasSeen /\ VerdictsAreSound
  BY DEF Init, RemovalWasSeen, VerdictsAreSound, Unrecorded
<1> QED BY <1>1, <1>2, <1>3, <1>4 DEF Inv

\* A verdict that fits is one the safety properties allow.
LEMMA FittingVerdictIsSound ==
  ASSUME NEW p \in Pkgs, NEW status, NEW flags, NEW whole \in BOOLEAN,
         VerdictFits(p, status, flags, whole)
  PROVE  /\ \A f \in flags : f.flag \in {"VERSION_REMOVED", "CRATE_REMOVED"} => p \in wasGone
         /\ \A f \in flags \ RegistryFindings :
              \/ f \in Truth[p].artifact
              \/ f \in GitFindings(p) /\ whole /\ Truth[p].source = "located"
<1>1. CASE p \in wasGone /\ \E f \in Absences : flags \subseteq {f}
  BY <1>1, FindingKinds
<1>2. CASE \A f \in flags : Backed(p, f, whole)
  <2>1. ASSUME NEW f \in flags, f \in Notices
        PROVE  f \in RegistryFindings /\ f.flag \notin {"VERSION_REMOVED", "CRATE_REMOVED"}
    BY <2>1, FindingKinds
  <2>2. ASSUME NEW f \in flags, f \notin Notices
        PROVE  /\ f.flag \notin {"VERSION_REMOVED", "CRATE_REMOVED"}
               /\ \/ f \in Truth[p].artifact
                  \/ f \in GitFindings(p) /\ whole /\ Truth[p].source = "located"
    <3>1. \/ f \in Truth[p].artifact
          \/ f \in GitFindings(p) /\ whole /\ Truth[p].source = "located"
      BY <1>2, <2>2, Zenon DEF Backed
    <3>2. f \in Truth[p].artifact \/ f \in GitFindings(p)
      BY <3>1
    <3>3. f.flag \notin {"VERSION_REMOVED", "CRATE_REMOVED"}
      BY <3>2, TruthTypes DEF META_FLAGS
    <3> QED BY <3>1, <3>3, Zenon
  <2> QED BY <2>1, <2>2
<1> QED BY <1>1, <1>2 DEF VerdictFits

LEMMA PinStepInv ==
  ASSUME Inv, NEW p \in Pkgs, PinStep(p) PROVE Inv'
<1> USE DEF Waiting, GitStages, Statuses
<1>1. /\ TypeOK /\ PassInv /\ AlertInv /\ GoneInv /\ RemovalWasSeen /\ VerdictsAreSound
      /\ JobFits(p, job[p]) /\ job[p].at \in {"queued"} \union Waiting
  BY DEF Inv, PassInv, PinStep
<1>2. /\ UNCHANGED <<phase, opts, due, suspicious, registry, age, crashes, lost>>
      /\ limited' \in BOOLEAN
  BY DEF PinStep, Unasked, world
<1>3. /\ wasGone' \subseteq Pkgs
      /\ \A q \in Pkgs \ {p} : q \in wasGone' <=> q \in wasGone
  BY <1>1 DEF PinStep, Moves, Fails, Records, Refreshes, TypeOK
<1>4. \A q, j : JobFits(q, j) => JobFits(q, j)'
  BY FitsForGood
<1>5. phase \in {"scan", "recheck"}
  BY <1>1 DEF PassInv, TypeOK
<1>6. CASE Moves(p)
  <2> PICK j \in JobType : /\ JobFits(p, j) /\ j.at \in Waiting
                           /\ phase = "recheck" => j.at \in {"meta", "probe"}
                           /\ j.at = "probe" => p \in wasGone'
                           /\ job' = [job EXCEPT ![p] = j]
    BY <1>6 DEF Moves
  <2>1. UNCHANGED <<rows, compared, result, unseen>>
    BY <1>6 DEF Moves, store
  <2>2. TypeOK'
    BY <1>1, <1>2, <1>3, <2>1 DEF TypeOK
  <2>3. PassInv'
    <3> SUFFICES ASSUME NEW q \in Pkgs PROVE PassInv!(q)'
      BY DEF PassInv
    <3>1. CASE q = p
      <4>1. job'[p] = j
        BY <1>1 DEF TypeOK
      <4> QED BY <1>1, <1>2, <1>4, <1>5, <2>1, <3>1, <4>1 DEF PassInv, Recorded
    <3>2. CASE q # p
      <4>1. job'[q] = job[q]
        BY <1>1, <3>2 DEF TypeOK
      <4> QED BY <1>1, <1>2, <1>4, <2>1, <4>1 DEF PassInv, Recorded
    <3> QED BY <3>1, <3>2
  <2>4. AlertInv'
    BY <1>1, <1>2, <2>1 DEF AlertInv, Recorded
  <2>5. GoneInv'
    <3>1. job'[p] = j /\ \A q \in Pkgs \ {p} : job'[q] = job[q]
      BY <1>1 DEF TypeOK
    <3> QED BY <1>1, <1>3, <2>1, <3>1 DEF GoneInv, Recorded
  <2>6. RemovalWasSeen'
    <3>1. p \in wasGone => p \in wasGone' \/ ~Recorded(p)
      BY <1>1, <1>6 DEF Moves, PassInv
    <3> QED BY <1>1, <1>3, <2>1, <3>1 DEF RemovalWasSeen, GoneInv
  <2>7. VerdictsAreSound'
    BY <1>1, <2>1 DEF VerdictsAreSound, GitFindings
  <2> QED BY <2>2, <2>3, <2>4, <2>5, <2>6, <2>7 DEF Inv
<1>7. CASE Fails(p)
  <2>1. /\ job' = [job EXCEPT ![p] = Locals("done")]
        /\ UNCHANGED <<rows, compared, unseen, wasGone>>
    BY <1>7 DEF Fails, store
  <2>2. JobFits(p, Locals("done")) /\ Locals("done") \in JobType /\ Locals("done").at = "done"
    BY IdleJobFits DEF JobFits, Locals
  <2>3. TypeOK'
    <3>1. result' \in [Pkgs -> [status : Statuses \union {"none", "ERROR"},
                                flags : SUBSET FindingSet]]
      BY <1>1, <1>7 DEF Fails, TypeOK
    <3> QED BY <1>1, <1>2, <1>3, <2>1, <2>2, <3>1 DEF TypeOK
  <2>4. PassInv'
    <3> SUFFICES ASSUME NEW q \in Pkgs PROVE PassInv!(q)'
      BY DEF PassInv
    <3>1. CASE q = p
      <4>1. job'[p] = Locals("done") /\ (phase # "scan" => result' = result)
        BY <1>1, <1>7, <2>1 DEF TypeOK, Fails
      <4>2. phase = "scan" => ~Recorded(p)
        BY <1>1 DEF PassInv
      <4>3. phase = "scan" => result'[p].status \notin Statuses
        BY <1>1, <1>7, <4>2 DEF PassInv, Fails, TypeOK
      <4> QED BY <1>2, <1>4, <1>5, <2>1, <2>2, <3>1, <4>1, <4>2, <4>3 DEF Recorded
    <3>2. CASE q # p
      <4>1. job'[q] = job[q] /\ result'[q] = result[q]
        BY <1>1, <1>7, <2>1, <3>2 DEF TypeOK, Fails
      <4> QED BY <1>1, <1>2, <1>4, <2>1, <4>1 DEF PassInv, Recorded
    <3> QED BY <3>1, <3>2
  <2>5. AlertInv'
    <3>1. ASSUME NEW q \in unseen PROVE result'[q] = result[q] \/ (phase = "scan" /\ q = p)
      BY <1>7, <1>1 DEF Fails, TypeOK
    <3>2. phase = "scan" => p \notin unseen
      BY <1>1 DEF PassInv, AlertInv
    <3> QED BY <1>1, <1>2, <2>1, <3>1, <3>2 DEF AlertInv, Recorded
  <2>6. RemovalWasSeen' /\ VerdictsAreSound'
    BY <1>1, <2>1 DEF RemovalWasSeen, VerdictsAreSound, GitFindings
  <2>7. GoneInv'
    BY <1>1, <2>1, <2>2 DEF GoneInv, Recorded, TypeOK
  <2> QED BY <2>3, <2>4, <2>5, <2>6, <2>7 DEF Inv
<1>8. CASE Records(p)
  <2> PICK status \in Statuses, flags \in SUBSET FindingSet, whole \in BOOLEAN :
        VerdictFits(p, status, flags, whole) /\ recordPackage(p, status, flags, whole)
    BY <1>8 DEF Records
  <2>1. /\ phase = "scan" /\ ~Recorded(p)
        /\ rows' = [rows EXCEPT ![p] = [status |-> status, flags |-> flags, fresh |-> TRUE]]
        /\ result' = [result EXCEPT ![p] = [status |-> status, flags |-> flags]]
        /\ compared' = IF whole THEN compared \union {p} ELSE compared \ {p}
        /\ unseen' = IF status = "SUSPICIOUS" THEN unseen \union {p} ELSE unseen
        /\ job' = [job EXCEPT ![p] = Locals("done")]
        /\ UNCHANGED wasGone
    BY <1>1, <1>8 DEF Records, recordPackage, Owe, Leave, PassInv, Recorded
  <2>2. JobFits(p, Locals("done")) /\ Locals("done") \in JobType /\ Locals("done").at = "done"
    BY IdleJobFits DEF JobFits, Locals
  <2>3. TypeOK'
    <3>1. rows' \in [Pkgs -> [status : Statuses \union {"unrecorded"},
                              flags : SUBSET FindingSet, fresh : BOOLEAN]]
      BY <1>1, <2>1 DEF TypeOK
    <3>2. result' \in [Pkgs -> [status : Statuses \union {"none", "ERROR"},
                                flags : SUBSET FindingSet]]
      BY <1>1, <2>1 DEF TypeOK
    <3> QED BY <1>1, <1>2, <1>3, <2>1, <2>2, <3>1, <3>2 DEF TypeOK
  <2>4. /\ rows'[p] = [status |-> status, flags |-> flags, fresh |-> TRUE]
        /\ result'[p] = [status |-> status, flags |-> flags] /\ job'[p] = Locals("done")
        /\ \A q \in Pkgs \ {p} : /\ rows'[q] = rows[q] /\ result'[q] = result[q]
                                 /\ job'[q] = job[q] /\ (q \in compared' <=> q \in compared)
    BY <1>1, <2>1 DEF TypeOK
  <2>5. PassInv'
    <3> SUFFICES ASSUME NEW q \in Pkgs PROVE PassInv!(q)'
      BY DEF PassInv
    <3>1. CASE q = p
      BY <1>2, <1>4, <2>1, <2>2, <2>4, <3>1 DEF Recorded
    <3>2. CASE q # p
      BY <1>1, <1>2, <1>4, <2>4, <3>2 DEF PassInv, Recorded
    <3> QED BY <3>1, <3>2
  <2>6. AlertInv'
    <3> SUFFICES ASSUME NEW q \in unseen' PROVE AlertInv!(q)'
      BY DEF AlertInv
    <3>1. CASE q = p
      <4>1. status = "SUSPICIOUS"
        BY <1>1, <2>1, <3>1 DEF AlertInv
      <4> QED BY <1>2, <2>1, <2>4, <3>1, <4>1 DEF Recorded
    <3>2. CASE q # p
      BY <1>1, <1>2, <2>1, <2>4, <3>2 DEF AlertInv, Recorded, TypeOK
    <3> QED BY <3>1, <3>2
  <2>7. RemovalWasSeen' /\ VerdictsAreSound'
    BY <1>1, <1>2, <2>1, <2>4, FittingVerdictIsSound
       DEF RemovalWasSeen, VerdictsAreSound, GitFindings
  <2>8. GoneInv'
    BY <1>1, <2>1, <2>2, <2>4 DEF GoneInv, Recorded
  <2> QED BY <2>3, <2>5, <2>6, <2>7, <2>8 DEF Inv
<1>9. CASE Refreshes(p)
  <2> PICK raw \in SUBSET FindingSet :
        /\ View(p, raw) /\ recordMetaCheck(p, raw)
        /\ \/ UNCHANGED wasGone
           \/ raw \subseteq Notices /\ wasGone' = wasGone \ {p}
    BY <1>9 DEF Refreshes
  <2> DEFINE base == {f \in due[p].flags : f.flag \notin META_FLAGS}
             flags == base \union suppress(p, raw)
             status == IF isSuspicious(flags) THEN "SUSPICIOUS"
                       ELSE IF due[p].status = "SUSPICIOUS" THEN "CLEAN" ELSE due[p].status
  <2>1. /\ rows' = [rows EXCEPT ![p] = [status |-> status, flags |-> flags, fresh |-> TRUE]]
        /\ result' = [result EXCEPT ![p] = [status |-> status, flags |-> flags]]
        /\ compared' = compared
        /\ unseen' = IF status = "SUSPICIOUS" /\ rows[p].status # "SUSPICIOUS"
                     THEN unseen \union {p} ELSE unseen
        /\ job' = [job EXCEPT ![p] = Locals("done")]
    BY DEF recordMetaCheck, Owe, Leave
  <2>2. JobFits(p, Locals("done")) /\ Locals("done") \in JobType /\ Locals("done").at = "done"
    BY IdleJobFits DEF JobFits, Locals
  <2>3. /\ phase = "recheck" /\ Recorded(p) /\ job[p].at \in {"queued", "meta", "probe"}
        /\ due[p].status = rows[p].status /\ due[p].flags = rows[p].flags
        /\ result[p].status = "none"
    BY <1>1, <1>9 DEF Refreshes, PassInv
  <2>4. suppress(p, raw) \subseteq raw
    BY SuppressOnlyRemoves
  <2>5. flags \in SUBSET FindingSet /\ status \in Statuses
    BY <1>1, <2>3, <2>4 DEF TypeOK, Recorded
  <2>6. /\ \A f \in flags : f.flag \in META_FLAGS => f \in raw
        /\ \A f \in flags \ RegistryFindings : f \in rows[p].flags
    BY <2>3, <2>4, FindingKinds DEF View
  <2> HIDE DEF flags, status
  <2>7. TypeOK'
    <3>1. rows' \in [Pkgs -> [status : Statuses \union {"unrecorded"},
                              flags : SUBSET FindingSet, fresh : BOOLEAN]]
      BY <1>1, <2>1, <2>5 DEF TypeOK
    <3>2. result' \in [Pkgs -> [status : Statuses \union {"none", "ERROR"},
                                flags : SUBSET FindingSet]]
      BY <1>1, <2>1, <2>5 DEF TypeOK
    <3> QED BY <1>1, <1>2, <1>3, <2>1, <2>2, <3>1, <3>2 DEF TypeOK
  <2>8. /\ rows'[p] = [status |-> status, flags |-> flags, fresh |-> TRUE]
        /\ result'[p] = [status |-> status, flags |-> flags] /\ job'[p] = Locals("done")
        /\ \A q \in Pkgs \ {p} : rows'[q] = rows[q] /\ result'[q] = result[q] /\ job'[q] = job[q]
    BY <1>1, <2>1 DEF TypeOK
  <2>9. PassInv'
    <3> SUFFICES ASSUME NEW q \in Pkgs PROVE PassInv!(q)'
      BY DEF PassInv
    <3>1. CASE q = p
      BY <1>2, <1>4, <2>2, <2>3, <2>8, <3>1 DEF Recorded
    <3>2. CASE q # p
      BY <1>1, <1>2, <1>4, <2>8, <3>2 DEF PassInv, Recorded
    <3> QED BY <3>1, <3>2
  <2>10. AlertInv'
    <3> SUFFICES ASSUME NEW q \in unseen' PROVE AlertInv!(q)'
      BY DEF AlertInv
    <3>1. CASE q = p
      <4>1. Recorded(p)'
        BY <2>5, <2>8 DEF Recorded
      <4>2. CASE p \in unseen
        BY <1>1, <1>2, <2>3, <3>1, <4>1, <4>2 DEF AlertInv
      <4>3. CASE status = "SUSPICIOUS" /\ rows[p].status # "SUSPICIOUS"
        BY <1>1, <1>2, <2>3, <2>8, <3>1, <4>1, <4>3 DEF Recorded, TypeOK
      <4> QED BY <2>1, <3>1, <4>2, <4>3
    <3>2. CASE q # p
      BY <1>1, <1>2, <2>1, <2>8, <3>2 DEF AlertInv, Recorded, TypeOK
    <3> QED BY <3>1, <3>2
  <2>11. RemovalWasSeen'
    <3>1. \A f \in raw : f.flag \in {"VERSION_REMOVED", "CRATE_REMOVED"} => p \in wasGone'
      BY FindingKinds DEF View
    <3>2. \A f \in flags : f.flag \in {"VERSION_REMOVED", "CRATE_REMOVED"} => p \in wasGone'
      BY <2>6, <3>1 DEF META_FLAGS
    <3> QED BY <1>1, <1>3, <2>8, <3>2 DEF RemovalWasSeen
  <2>12. VerdictsAreSound'
    BY <1>1, <2>1, <2>6, <2>8 DEF VerdictsAreSound, GitFindings
  <2>13. GoneInv'
    <3>1. rows'[p].status # "unrecorded" /\ job'[p].at = "done"
      BY <2>2, <2>5, <2>8
    <3> QED BY <1>1, <1>3, <2>8, <3>1 DEF GoneInv, Recorded
  <2> QED BY <2>7, <2>9, <2>10, <2>11, <2>12, <2>13 DEF Inv
<1> QED BY <1>6, <1>7, <1>8, <1>9 DEF PinStep

\* Every other step of the system.
LEMMA RestInv ==
  ASSUME Inv,
         \/ \E o \in RunOptions : StartRun(o)
         \/ \E p \in Pkgs : World(p)
         \/ EndScan \/ EndRecheck \/ Report \/ Crash
         \/ UNCHANGED vars
  PROVE  Inv'
<1> USE DEF Waiting, GitStages, Statuses
<1>1. TypeOK /\ PassInv /\ AlertInv /\ GoneInv /\ RemovalWasSeen /\ VerdictsAreSound
  BY DEF Inv
<1>2. /\ \A stage \in {"idle", "queued"} :
           /\ Locals(stage) \in JobType /\ Locals(stage).at = stage
           /\ \A p : JobFits(p, Locals(stage)) /\ JobFits(p, Locals(stage))'
      /\ NotDue.status = "none" /\ NotDue.flags = {}
      /\ NotDue \in [status : Statuses \union {"none"}, flags : SUBSET FindingSet]
      /\ NotDue \in [status : Statuses \union {"none", "ERROR"}, flags : SUBSET FindingSet]
  <2>1. \A stage \in {"idle", "queued"} : \A p :
          /\ JobFits(p, Locals(stage)) /\ Locals(stage) \in JobType /\ Locals(stage).at = stage
    BY IdleJobFits DEF Locals, JobFits
  <2>2. \A stage \in {"idle", "queued"} : \A p : JobFits(p, Locals(stage))'
    BY DEF JobFits, JobType, Locals, Stages
  <2>3. /\ NotDue.status = "none" /\ NotDue.flags = {}
        /\ NotDue \in [status : Statuses \union {"none"}, flags : SUBSET FindingSet]
        /\ NotDue \in [status : Statuses \union {"none", "ERROR"}, flags : SUBSET FindingSet]
    BY DEF NotDue
  <2> QED BY <2>1, <2>2, <2>3
<1>3. ASSUME NEW o \in RunOptions, StartRun(o) PROVE Inv'
  <2>1. /\ phase = "idle" /\ phase' = "scan" /\ opts' = o /\ limited' = FALSE
        /\ job' = [p \in Pkgs |-> Locals(IF Recorded(p) THEN "idle" ELSE "queued")]
        /\ due' = [p \in Pkgs |-> NotDue] /\ result' = [p \in Pkgs |-> NoResult]
        /\ suspicious' = {}
        /\ UNCHANGED <<rows, compared, registry, age, crashes, wasGone, unseen, lost>>
    BY <1>3 DEF StartRun, store, world, alerts
  <2>2. TypeOK'
    <3>1. job' \in [Pkgs -> JobType]
      BY <1>2, <2>1
    <3>2. opts' \in [gate : BOOLEAN, recheck : BOOLEAN]
      BY <2>1, OptionsAssumption
    <3> QED BY <1>1, <1>2, <2>1, <3>1, <3>2 DEF TypeOK, NoResult
  <2>3. PassInv'
    <3> SUFFICES ASSUME NEW p \in Pkgs PROVE PassInv!(p)'
      BY DEF PassInv
    <3>1. job'[p] = Locals(IF Recorded(p) THEN "idle" ELSE "queued") /\ result'[p] = NotDue
      BY <2>1 DEF NoResult
    <3> QED BY <1>2, <2>1, <3>1 DEF Recorded
  <2>4. unseen = {}
    BY <1>1, <2>1 DEF AlertInv
  <2>5. AlertInv'
    BY <2>1, <2>4 DEF AlertInv
  <2>6. GoneInv' /\ RemovalWasSeen' /\ VerdictsAreSound'
    <3>1. \A p \in Pkgs : job'[p].at # "probe"
      BY <2>1 DEF Locals
    <3> QED BY <1>1, <2>1, <3>1 DEF GoneInv, Recorded, RemovalWasSeen, VerdictsAreSound, GitFindings
  <2> QED BY <2>2, <2>3, <2>5, <2>6 DEF Inv
<1>4. ASSUME NEW p \in Pkgs, World(p) PROVE Inv'
  <2>1. UNCHANGED <<compared, phase, opts, job, limited, due, result, suspicious, wasGone,
                    unseen, lost, crashes>>
    BY <1>4 DEF World, RegistryMoves, AgesOut, Stale, store, process, alerts, world
  <2>2. \A q, j : JobFits(q, j) => JobFits(q, j)'
    BY FitsForGood
  <2>3. CASE \E s \in RegistryStates : RegistryMoves(p, s)
    <3> PICK s \in RegistryStates : RegistryMoves(p, s)
      BY <2>3
    <3>1. registry' = [registry EXCEPT ![p] = s] /\ UNCHANGED <<rows, age>>
      BY DEF RegistryMoves, store
    <3>2. TypeOK'
      BY <1>1, <2>1, <3>1, RegistryAssumption DEF TypeOK
    <3>3. GoneInv'
      BY <1>1, <2>1, <3>1 DEF GoneInv, Recorded
    <3>4. PassInv' /\ AlertInv'
      BY <1>1, <2>1, <2>2, <3>1 DEF PassInv, AlertInv, Recorded
    <3>5. RemovalWasSeen' /\ VerdictsAreSound'
      BY <1>1, <2>1, <3>1 DEF RemovalWasSeen, VerdictsAreSound, GitFindings
    <3> QED BY <3>2, <3>3, <3>4, <3>5 DEF Inv
  <2>4. CASE AgesOut(p)
    <3>1. age' = [age EXCEPT ![p] = "old"] /\ UNCHANGED <<rows, registry>>
      BY <2>4 DEF AgesOut, store
    <3>2. TypeOK'
      BY <1>1, <2>1, <3>1 DEF TypeOK
    <3>3. PassInv' /\ AlertInv'
      BY <1>1, <2>1, <2>2, <3>1 DEF PassInv, AlertInv, Recorded
    <3>4. GoneInv' /\ RemovalWasSeen' /\ VerdictsAreSound'
      BY <1>1, <2>1, <3>1 DEF GoneInv, Recorded, RemovalWasSeen, VerdictsAreSound, GitFindings
    <3> QED BY <3>2, <3>3, <3>4 DEF Inv
  <2>5. CASE Stale(p)
    <3>1. /\ phase = "idle" /\ rows' = [rows EXCEPT ![p] = [status |-> rows[p].status, flags |-> rows[p].flags,
                                       fresh |-> FALSE]]
          /\ UNCHANGED <<registry, age>>
      BY <2>5 DEF Stale, world
    <3>2. \A q \in Pkgs : rows'[q].status = rows[q].status /\ rows'[q].flags = rows[q].flags
      BY <1>1, <3>1 DEF TypeOK
    <3>3. TypeOK'
      <4>1. rows' \in [Pkgs -> [status : Statuses \union {"unrecorded"},
                                flags : SUBSET FindingSet, fresh : BOOLEAN]]
        BY <1>1, <3>1 DEF TypeOK
      <4>2. UNCHANGED <<phase, opts, job, limited, due, result, suspicious, registry, age,
                        crashes, wasGone, compared, unseen, lost>>
        BY <2>1, <3>1
      <4> QED BY <1>1, <4>1, <4>2 DEF TypeOK
    <3>4. PassInv' /\ AlertInv'
      BY <1>1, <2>1, <2>2, <3>1, <3>2 DEF PassInv, AlertInv, Recorded
    <3>5. GoneInv' /\ RemovalWasSeen' /\ VerdictsAreSound'
      BY <1>1, <2>1, <3>1, <3>2 DEF GoneInv, Recorded, RemovalWasSeen, VerdictsAreSound, GitFindings
    <3> QED BY <3>3, <3>4, <3>5 DEF Inv
  <2> QED BY <1>4, <2>3, <2>4, <2>5 DEF World
<1>5. CASE EndScan
  <2>1. /\ phase = "scan" /\ phase' \in {"recheck", "report"} /\ suspicious' = ScanFindings
        /\ UNCHANGED <<opts, limited, result, rows, compared, registry, age, crashes,
                       wasGone, unseen, lost>>
    BY <1>5 DEF EndScan, store, world, alerts
  <2>2. /\ due' \in [Pkgs -> [status : Statuses \union {"none"}, flags : SUBSET FindingSet]]
        /\ job' \in [Pkgs -> JobType]
    <3>1. ASSUME NEW p \in Pkgs, Recorded(p)
          PROVE  [status |-> rows[p].status, flags |-> rows[p].flags] \in
                   [status : Statuses \union {"none"}, flags : SUBSET FindingSet]
      BY <1>1, <3>1 DEF TypeOK, Recorded
    <3> QED BY <1>2, <1>5, <3>1 DEF EndScan, RecheckDue
  <2>3. suspicious' \subseteq [pkg : Pkgs, flags : SUBSET FindingSet]
    BY <1>1, <2>1 DEF ScanFindings, Reported, TypeOK
  <2>4. TypeOK'
    BY <1>1, <2>1, <2>2, <2>3 DEF TypeOK
  <2>5. PassInv'
    <3> SUFFICES ASSUME NEW p \in Pkgs PROVE PassInv!(p)'
      BY DEF PassInv
    <3>1. CASE opts.recheck /\ p \in RecheckDue
      <4>1. /\ job'[p] = Locals("queued") /\ Recorded(p) /\ ~rows[p].fresh
            /\ due'[p] = [status |-> rows[p].status, flags |-> rows[p].flags]
            /\ phase' = "recheck"
        BY <1>5, <3>1 DEF EndScan, RecheckDue
      <4>2. result[p].status = "none"
        BY <1>1, <2>1, <4>1 DEF PassInv, TypeOK
      <4> QED BY <1>2, <2>1, <4>1, <4>2 DEF Recorded
    <3>2. CASE ~(opts.recheck /\ p \in RecheckDue)
      <4>1. job'[p] = Locals("idle")
        BY <1>5, <3>2 DEF EndScan
      <4> QED BY <1>2, <2>1, <4>1
    <3> QED BY <3>1, <3>2
  <2>6. AlertInv'
    <3> SUFFICES ASSUME NEW p \in unseen PROVE AlertInv!(p)'
      BY <2>1 DEF AlertInv
    <3>1. p \in Pkgs /\ Recorded(p) /\ result[p].status = "SUSPICIOUS"
      BY <1>1, <2>1 DEF AlertInv, TypeOK
    <3>2. Reported(p) \in suspicious' /\ Reported(p).pkg = p
      BY <2>1, <3>1 DEF ScanFindings, Reported
    <3> QED BY <2>1, <3>1, <3>2 DEF Recorded
  <2>7. GoneInv' /\ RemovalWasSeen' /\ VerdictsAreSound'
    <3>1. \A p \in Pkgs : job'[p].at # "probe"
      BY <1>5 DEF EndScan, Locals
    <3> QED BY <1>1, <2>1, <3>1 DEF GoneInv, Recorded, RemovalWasSeen, VerdictsAreSound, GitFindings
  <2> QED BY <2>4, <2>5, <2>6, <2>7 DEF Inv
<1>6. CASE EndRecheck
  <2>1. /\ phase = "recheck" /\ phase' = "report"
        /\ suspicious' = suspicious \union RecheckFindings
        /\ job' = [p \in Pkgs |-> Locals("idle")]
        /\ UNCHANGED <<opts, limited, due, result, rows, compared, registry, age, crashes,
                       wasGone, unseen, lost>>
    BY <1>6 DEF EndRecheck, AllIdle, store, world, alerts
  <2>2. suspicious' \subseteq [pkg : Pkgs, flags : SUBSET FindingSet]
    BY <1>1, <2>1 DEF RecheckFindings, Reported, TypeOK
  <2>3. TypeOK'
    BY <1>1, <1>2, <2>1, <2>2 DEF TypeOK
  <2>4. PassInv'
    <3> SUFFICES ASSUME NEW p \in Pkgs PROVE PassInv!(p)'
      BY DEF PassInv
    <3>1. job'[p] = Locals("idle")
      BY <2>1
    <3> QED BY <1>2, <2>1, <3>1
  <2>5. AlertInv'
    <3> SUFFICES ASSUME NEW p \in unseen PROVE AlertInv!(p)'
      BY <2>1 DEF AlertInv
    <3>1. p \in Pkgs /\ Recorded(p)
      BY <1>1 DEF AlertInv, TypeOK
    <3>2. CASE p \in {s.pkg : s \in suspicious}
      BY <2>1, <3>1, <3>2 DEF Recorded
    <3>3. CASE result[p].status = "SUSPICIOUS" /\ due[p].status \notin {"none", "SUSPICIOUS"}
      <4>1. Reported(p) \in suspicious' /\ Reported(p).pkg = p
        BY <2>1, <3>1, <3>3 DEF RecheckFindings, Reported
      <4> QED BY <2>1, <3>1, <4>1 DEF Recorded
    <3> QED BY <1>1, <2>1, <3>2, <3>3 DEF AlertInv
  <2>6. GoneInv' /\ RemovalWasSeen' /\ VerdictsAreSound'
    <3>1. \A p \in Pkgs : job'[p].at # "probe"
      BY <1>2, <2>1
    <3> QED BY <1>1, <2>1, <3>1 DEF GoneInv, Recorded, RemovalWasSeen, VerdictsAreSound, GitFindings
  <2> QED BY <2>3, <2>4, <2>5, <2>6 DEF Inv
<1>7. ASSUME Quiet, unseen' = {} , lost' \subseteq lost \union unseen, crashes' \in Nat,
             UNCHANGED <<rows, compared, registry, age, wasGone>>
      PROVE  Inv'
  <2>1. /\ phase' = "idle" /\ limited' = FALSE /\ opts' = opts /\ suspicious' = {}
        /\ job' = [p \in Pkgs |-> Locals("idle")]
        /\ due' = [p \in Pkgs |-> NotDue] /\ result' = [p \in Pkgs |-> NotDue]
    BY <1>7 DEF Quiet, AllIdle, NoResult
  <2>2. TypeOK'
    <3>1. /\ due' \in [Pkgs -> [status : Statuses \union {"none"}, flags : SUBSET FindingSet]]
          /\ result' \in [Pkgs -> [status : Statuses \union {"none", "ERROR"},
                                   flags : SUBSET FindingSet]]
          /\ job' \in [Pkgs -> JobType]
      BY <1>2, <2>1
    <3> QED BY <1>1, <1>7, <2>1, <3>1 DEF TypeOK
  <2>3. PassInv'
    <3> SUFFICES ASSUME NEW p \in Pkgs PROVE PassInv!(p)'
      BY DEF PassInv
    <3>1. job'[p] = Locals("idle")
      BY <2>1
    <3> QED BY <1>2, <2>1, <3>1
  <2>4. AlertInv' /\ GoneInv'
    <3>1. \A p \in Pkgs : job'[p].at = "idle"
      BY <1>7 DEF Quiet, AllIdle, Locals
    <3> QED BY <1>1, <1>7, <3>1 DEF AlertInv, GoneInv, Recorded
  <2>5. RemovalWasSeen' /\ VerdictsAreSound'
    BY <1>1, <1>7 DEF RemovalWasSeen, VerdictsAreSound, GitFindings
  <2> QED BY <2>2, <2>3, <2>4, <2>5 DEF Inv
<1>8. CASE Report
  <2>1. unseen' = {}
    BY <1>1, <1>8 DEF Report, AlertInv
  <2> QED BY <1>1, <1>7, <1>8, <2>1 DEF Report, store, world, TypeOK
<1>9. CASE Crash
  BY <1>1, <1>7, <1>9, CrashAssumption DEF Crash, store, TypeOK
<1>10. CASE UNCHANGED vars
  <2>1. UNCHANGED <<rows, compared, phase, opts, job, limited, due, result, suspicious,
                    registry, age, crashes, wasGone, unseen, lost>>
    BY <1>10 DEF vars, store, process, world, alerts
  <2>2. TypeOK' /\ AlertInv' /\ GoneInv'
    BY <1>1, <2>1 DEF TypeOK, AlertInv, GoneInv, Gone, Recorded
  <2>3. PassInv'
    BY <1>1, <2>1, FitsForGood DEF PassInv, Recorded
  <2>4. RemovalWasSeen' /\ VerdictsAreSound'
    BY <1>1, <2>1 DEF RemovalWasSeen, VerdictsAreSound, GitFindings
  <2> QED BY <2>2, <2>3, <2>4 DEF Inv
<1> QED BY <1>3, <1>4, <1>5, <1>6, <1>8, <1>9, <1>10

-----------------------------------------------------------------------------
\* The inductive invariant holds for every instance.
THEOREM Invariance == Spec => []Inv
<1>1. Inv /\ [Next]_vars => Inv'
  <2> SUFFICES ASSUME Inv, [Next]_vars PROVE Inv'
    OBVIOUS
  <2>1. ASSUME NEW p \in Pkgs, Step(p) PROVE Inv'
    BY <2>1, StepIsPinStep, PinStepInv
  <2> QED BY <2>1, RestInv DEF Next
<1> QED BY <1>1, InitInv, PTL DEF Spec

\* Every variable keeps its type.
THEOREM Typing == Spec => []TypeOK
BY Invariance, PTL DEF Inv

\* Where a removal finding is stored, the version endpoint has answered the program with a
\* 404, and that was its last answer.
THEOREM RemovalsAreReal == Spec => []RemovalWasSeen
BY Invariance, PTL DEF Inv

\* Every stored divergence is real, and one only git can show was compared.
THEOREM Soundness == Spec => []VerdictsAreSound
BY Invariance, PTL DEF Inv

\* A finished run has reported every pin it turned SUSPICIOUS.
THEOREM AlertsAreReported == Spec => []NoAlertLost
<1>1. Inv => NoAlertLost
  BY DEF Inv, AlertInv, NoAlertLost
<1> QED BY <1>1, Invariance, PTL

-----------------------------------------------------------------------------
(* The abstract ledger.                                                      *)

SameVerdicts == \A p \in Pkgs : rows'[p].status = rows[p].status /\ rows'[p].flags = rows[p].flags

\* Seen from the store, a step records a new pin, refreshes a stored one, or
\* leaves the verdicts alone.
LEMMA StoreSteps ==
  ASSUME Inv, [Next]_vars
  PROVE  \/ \E p \in Pkgs : Records(p) /\ ~Recorded(p) /\ lost' = lost
         \/ \E p \in Pkgs : /\ Refreshes(p) /\ Recorded(p) /\ lost' = lost
                            /\ due[p].status = rows[p].status /\ due[p].flags = rows[p].flags
         \/ /\ SameVerdicts
            /\ \/ unseen' = unseen /\ lost' = lost
               \/ unseen' = {} /\ lost' = lost
               \/ unseen' = {} /\ lost' = lost \union unseen
<1>1. ASSUME NEW p \in Pkgs, Step(p)
      PROVE  \/ Records(p) /\ ~Recorded(p) /\ lost' = lost
             \/ /\ Refreshes(p) /\ Recorded(p) /\ lost' = lost
                /\ due[p].status = rows[p].status /\ due[p].flags = rows[p].flags
             \/ SameVerdicts /\ unseen' = unseen /\ lost' = lost
  <2>1. PinStep(p)
    BY <1>1, StepIsPinStep
  <2>2. lost' = lost /\ job[p].at \in {"queued"} \union Waiting
    BY <2>1 DEF PinStep, Unasked
  <2>3. CASE Moves(p) \/ Fails(p)
    BY <2>2, <2>3 DEF Moves, Fails, SameVerdicts, store
  <2>4. CASE Records(p)
    BY <2>2, <2>4 DEF Records, Inv, PassInv
  <2>5. CASE Refreshes(p)
    BY <2>2, <2>5 DEF Refreshes, Inv, PassInv, Waiting, GitStages
  <2> QED BY <2>1, <2>3, <2>4, <2>5 DEF PinStep
<1>2. ASSUME NEW p \in Pkgs, World(p)
      PROVE  SameVerdicts /\ unseen' = unseen /\ lost' = lost
  <2>1. unseen' = unseen /\ lost' = lost
    BY <1>2 DEF World, RegistryMoves, AgesOut, Stale, alerts
  <2>2. CASE Stale(p)
    BY <2>1, <2>2 DEF Stale, SameVerdicts, Inv, TypeOK
  <2>3. CASE (\E s \in RegistryStates : RegistryMoves(p, s)) \/ AgesOut(p)
    BY <2>1, <2>3 DEF RegistryMoves, AgesOut, SameVerdicts, store
  <2> QED BY <1>2, <2>1, <2>2, <2>3 DEF World
<1>3. ASSUME Report PROVE SameVerdicts /\ unseen' = {} /\ lost' = lost
  BY <1>3 DEF Report, SameVerdicts, store, Inv, AlertInv
<1>4. ASSUME Crash PROVE SameVerdicts /\ unseen' = {} /\ lost' = lost \union unseen
  BY <1>4 DEF Crash, SameVerdicts, store
<1>5. ASSUME (\E o \in RunOptions : StartRun(o)) \/ EndScan \/ EndRecheck \/ UNCHANGED vars
      PROVE  SameVerdicts /\ unseen' = unseen /\ lost' = lost
  BY <1>5 DEF StartRun, EndScan, EndRecheck, vars, SameVerdicts, store, alerts
<1> QED BY <1>1, <1>2, <1>3, <1>4, <1>5 DEF Next

\* What a refresh leaves of a row's findings, and what it adds.
LEMMA RefreshCarries ==
  ASSUME Inv, NEW p \in Pkgs, NEW raw, View(p, raw), due[p].flags = rows[p].flags,
         recordMetaCheck(p, raw)
  PROVE  DivergenceOf(rows'[p].flags) = DivergenceOf(rows[p].flags)
<1> DEFINE base == {f \in due[p].flags : f.flag \notin META_FLAGS}
<1>1. rows'[p].flags = base \union suppress(p, raw)
  BY DEF recordMetaCheck, Inv, TypeOK
<1>2. \A f \in suppress(p, raw) : f.flag \in META_FLAGS
  BY SuppressOnlyRemoves, FindingKinds DEF View
<1> QED BY <1>1, <1>2 DEF DivergenceOf

\* No step adds a divergence to a stored row, or drops one.
THEOREM DivergenceIsCarried == Spec => DivergenceCarried
<1>1. ASSUME Inv, [Next]_vars, NEW p \in Pkgs, Recorded(p)
      PROVE  DivergenceOf(rows'[p].flags) = DivergenceOf(rows[p].flags)
  <2>1. ASSUME NEW q \in Pkgs, Records(q), ~Recorded(q) PROVE rows'[p] = rows[p]
    BY <1>1, <2>1 DEF Records, recordPackage, Inv, TypeOK
  <2>2. ASSUME NEW q \in Pkgs, Refreshes(q), due[q].flags = rows[q].flags
        PROVE  DivergenceOf(rows'[p].flags) = DivergenceOf(rows[p].flags)
    <3> PICK raw \in SUBSET FindingSet : View(q, raw) /\ recordMetaCheck(q, raw)
      BY <2>2 DEF Refreshes
    <3>1. CASE p = q
      BY <1>1, <2>2, <3>1, RefreshCarries
    <3>2. CASE p # q
      <4>1. rows'[p] = rows[p]
        BY <1>1, <3>2 DEF recordMetaCheck, Inv, TypeOK
      <4> QED BY <4>1
    <3> QED BY <3>1, <3>2
  <2>3. CASE SameVerdicts
    BY <1>1, <2>3 DEF SameVerdicts
  <2> QED BY <1>1, <2>1, <2>2, <2>3, StoreSteps
<1>2. Inv /\ [Next]_vars =>
        [\A p \in Pkgs : Recorded(p) =>
           DivergenceOf(rows'[p].flags) = DivergenceOf(rows[p].flags)]_vars
  BY <1>1
<1> QED BY <1>2, Invariance, PTL DEF Spec, DivergenceCarried

-----------------------------------------------------------------------------
(* The rate limit.                                                           *)

\* Once the host is limited, what follows a tree or a manifest ends the comparison.
LEMMA LimitedEnds ==
  ASSUME NEW p, NEW j, NEW tree,
         AfterManifest(p, j, TRUE) \/ AfterTree(p, tree, TRUE)
  PROVE  Leave(p)
<1>1. ASSUME NEW k, AfterManifest(p, k, TRUE) PROVE Leave(p)
  BY <1>1 DEF AfterManifest, Conclude, recordPackage
<1>2. ASSUME AfterTree(p, tree, TRUE) PROVE Leave(p)
  BY <1>1, <1>2 DEF AfterTree
<1> QED BY <1>1, <1>2

\* Pin q is in no git lane, or is where it was with no more suspects to ask for.
NoNewLane(q) == job'[q].at \in GitStages => /\ job'[q].at = job[q].at
                                            /\ job'[q].left \subseteq job[q].left

\* A worker's step that ends with the host limited brings no pin into a git lane.
LEMMA LimitedStep ==
  ASSUME TypeOK, NEW p \in Pkgs, Step(p), limited', NEW q \in Pkgs
  PROVE  NoNewLane(q)
<1>1. limited \in BOOLEAN /\ job \in [Pkgs -> JobType]
  BY DEF TypeOK
<1>2. ASSUME NEW j \in JobType, NEW stage, Enter(p, j, stage),
             stage \in GitStages => stage = job[p].at /\ j.left \subseteq job[p].left
      PROVE  NoNewLane(q)
  BY <1>1, <1>2 DEF Enter, JobType, NoNewLane
<1>3. ASSUME Leave(p) PROVE NoNewLane(q)
  BY <1>1, <1>3 DEF Leave, Locals, GitStages, NoNewLane
<1>4. CASE Take(p) \/ MetaGone(p) \/ MetaServed(p)
  <2>1. job[p] \in JobType
    BY <1>1
  <2>2. [job[p] EXCEPT !.age = gatePublishAge(p), !.yanked = registry[p] = "yanked"] \in JobType
    <3>1. gatePublishAge(p) \in SUBSET FindingSet
      BY FindingKinds, GateRaisesAge DEF Notices
    <3>2. (registry[p] = "yanked") \in BOOLEAN
      OBVIOUS
    <3> QED BY <2>1, <3>1, <3>2 DEF JobType
  <2> QED BY <1>2, <1>4, <2>1, <2>2 DEF Take, MetaGone, MetaServed, GitStages
<1>5. CASE MetaFails(p) \/ RecordAbsence(p) \/ CompareFails(p) \/ RecheckServed(p) \/ RecheckAbsence(p)
  BY <1>3, <1>5 DEF MetaFails, RecordAbsence, CompareFails, RecheckServed, RecheckAbsence,
     recordMetaOnly, recordPackage, recordMetaCheck
<1>6. CASE TreeLimited(p) \/ ManifestLimited(p)
  BY <1>3, <1>6, LimitedEnds DEF TreeLimited, ManifestLimited
<1>7. CASE Downloaded(p) \/ TreeAnswered(p) \/ ManifestRead(p) \/ ManifestSkipped(p)
  <2>1. limited = TRUE
    BY <1>1, <1>7 DEF Downloaded, TreeAnswered, ManifestRead, ManifestSkipped
  <2> QED BY <1>3, <1>7, <2>1, LimitedEnds DEF Downloaded, TreeAnswered, ManifestRead, ManifestSkipped
<1>8. ASSUME NEW f, SuspectRead(p, f) \/ SuspectUnread(p, f) PROVE NoNewLane(q)
  <2> PICK found : job[p].at = "content" /\ AfterSuspect(p, f, found)
    BY <1>8 DEF SuspectRead, SuspectUnread
  <2>1. CASE Leave(p)
    BY <1>3, <2>1
  <2> DEFINE j == [job[p] EXCEPT !.left = @ \ {f}, !.flags = @ \union found]
  <2>2. CASE Enter(p, j, "content")
    BY <1>1, <2>2 DEF Enter, JobType, NoNewLane
  <2> QED BY <2>1, <2>2 DEF AfterSuspect, Conclude, recordPackage
<1> QED BY <1>4, <1>5, <1>6, <1>7, <1>8 DEF Step

\* README: once the git host limits the scan, "the comparison stops for the rest of the run".
\* What holds of it, whatever the workers do: from the step that meets the limit on no worker
\* enters the tree, manifest or content lane; one that is in the content lane already goes on
\* with the suspects it has left, and only with those.
THEOREM LimitIsKept == Spec => LimitStopsNewLanes
<1> DEFINE Stops == limited' => \A p \in Pkgs :
                      job'[p].at \in GitStages => /\ job'[p].at = job[p].at
                                                 /\ job'[p].left \subseteq job[p].left
<1>1. ASSUME TypeOK, [Next]_vars, limited', NEW q \in Pkgs PROVE NoNewLane(q)
  <2>1. ASSUME NEW p \in Pkgs, Step(p) PROVE NoNewLane(q)
    BY <1>1, <2>1, LimitedStep
  <2>2. CASE (\E p \in Pkgs : World(p)) \/ UNCHANGED vars
    BY <2>2 DEF World, RegistryMoves, AgesOut, Stale, process, vars, NoNewLane
  <2>3. CASE EndScan \/ EndRecheck
    <3>1. job'[q].at \in {"idle", "queued"}
      BY <2>3 DEF EndScan, EndRecheck, AllIdle, Locals
    <3> QED BY <3>1 DEF GitStages, NoNewLane
  <2>4. CASE (\E o \in RunOptions : StartRun(o)) \/ Report \/ Crash
    BY <1>1, <2>4 DEF StartRun, Report, Crash, Quiet
  <2> QED BY <1>1, <2>1, <2>2, <2>3, <2>4 DEF Next
<1>2. TypeOK /\ [Next]_vars => [Stops]_vars
  BY <1>1 DEF NoNewLane
<1> QED BY <1>2, Typing, PTL DEF Spec, LimitStopsNewLanes

-----------------------------------------------------------------------------
(* Scanner implements VerdictLedger.                                         *)

\* After the allowlist, the registry's view of a pin is still a view.
LEMMA SuppressedView ==
  ASSUME NEW p, NEW raw, View(p, raw), NEW flags, flags \subseteq raw
  PROVE  flags \in Ledger!RegistryViews
<1>1. Ledger!Notices = Notices /\ Ledger!Absences = Absences
  BY DEF Ledger!Notices, Ledger!Absences, Notices, Absences, Ledger!Finding, Finding
<1>2. CASE raw \subseteq Notices
  BY <1>1, <1>2 DEF Ledger!RegistryViews
<1>3. ASSUME NEW f \in Absences, raw = {f} PROVE flags \in Ledger!RegistryViews
  <2>1. flags = {} \/ flags = {f}
    BY <1>3
  <2> QED BY <1>1, <2>1 DEF Ledger!RegistryViews
<1> QED BY <1>2, <1>3 DEF View

LEMMA SameSuspicion == ASSUME NEW flags PROVE Ledger!isSuspicious(flags) <=> isSuspicious(flags)
BY DEF Ledger!isSuspicious, Ledger!atLeast, Ledger!maxSeverity, Ledger!RANK,
       Ledger!severityOf, Ledger!HighFlags, Ledger!InfoFlags,
       isSuspicious, atLeast, maxSeverity, RANK, severityOf, HighFlags, InfoFlags

\* A write of one row, as the ledger sees it.
LEMMA WriteIsBecomes ==
  ASSUME TypeOK, NEW p \in Pkgs, NEW status, NEW flags,
         status = "SUSPICIOUS" <=> isSuspicious(flags),
         rows' = [rows EXCEPT ![p] = [status |-> status, flags |-> flags, fresh |-> TRUE]],
         Owe(p, status), lost' = lost
  PROVE  Ledger!Becomes(p, status, flags)
<1>1. verdict' = [verdict EXCEPT ![p] = [status |-> status, flags |-> flags]]
  BY DEF verdict, TypeOK
<1>2. verdict[p].status = rows[p].status
  BY DEF verdict
<1> QED BY <1>1, <1>2, SameSuspicion DEF Ledger!Becomes, Owe, verdict

LEMMA RecordIsCompare ==
  ASSUME Inv, NEW p \in Pkgs, Records(p), ~Recorded(p), lost' = lost
  PROVE  Ledger!Compare(p)
<1> PICK status \in Statuses, flags \in SUBSET FindingSet, whole \in BOOLEAN :
      VerdictFits(p, status, flags, whole) /\ recordPackage(p, status, flags, whole)
  BY DEF Records
<1>1. Ledger!Becomes(p, status, flags)
  BY WriteIsBecomes DEF recordPackage, VerdictFits, Inv
<1>2. \E found \in SUBSET (GitFindings(p) \union Truth[p].artifact),
         view \in Ledger!RegistryViews : flags = found \union view
  <2>1. CASE \E f \in Absences : p \in wasGone /\ flags \subseteq {f}
    <3> PICK f \in Absences : p \in wasGone /\ flags \subseteq {f}
      BY <2>1
    <3> DEFINE raw == {f}
    <3>1. View(p, raw) /\ flags \subseteq raw
      BY DEF View
    <3> HIDE DEF raw
    <3>2. flags \in Ledger!RegistryViews
      BY <3>1, SuppressedView
    <3>3. {} \in SUBSET (GitFindings(p) \union Truth[p].artifact) /\ flags = {} \union flags
      OBVIOUS
    <3> QED BY <3>2, <3>3
  <2>2. CASE \A f \in flags : Backed(p, f, whole)
    <3> DEFINE view == flags \intersect Notices
               found == flags \ Notices
    <3>1. View(p, view)
      BY DEF View
    <3>2. view \in Ledger!RegistryViews
      BY <3>1, SuppressedView
    <3>3. found \subseteq GitFindings(p) \union Truth[p].artifact
      <4>1. \A f \in flags : f \in Notices \/ f \in Truth[p].artifact \/ f \in GitFindings(p)
        <5>1. ASSUME NEW f \in flags, Backed(p, f, whole)
              PROVE  f \in Notices \/ f \in Truth[p].artifact \/ f \in GitFindings(p)
          BY <5>1, Zenon DEF Backed
        <5> QED BY <2>2, <5>1, Zenon
      <4> QED BY <4>1
    <3>4. flags = found \union view
      OBVIOUS
    <3> HIDE DEF view, found
    <3> QED BY <3>2, <3>3, <3>4
  <2> QED BY <2>1, <2>2 DEF VerdictFits
<1>3. verdict[p].status = "unrecorded"
  BY DEF verdict, Recorded
<1>4. PICK found \in SUBSET Possible[p], view \in Ledger!RegistryViews :
        Ledger!Becomes(p, status, found \union view)
  BY <1>1, <1>2 DEF Possible
<1> QED BY <1>3, <1>4 DEF Ledger!Compare, Statuses

LEMMA RefreshIsRefresh ==
  ASSUME Inv, NEW p \in Pkgs, Refreshes(p), Recorded(p), lost' = lost,
         due[p].status = rows[p].status, due[p].flags = rows[p].flags
  PROVE  Ledger!Refresh(p)
<1> PICK raw \in SUBSET FindingSet : View(p, raw) /\ recordMetaCheck(p, raw)
  BY DEF Refreshes
<1> PICK view : view = suppress(p, raw)
  OBVIOUS
<1> PICK flags : flags = {f \in due[p].flags : f.flag \notin META_FLAGS} \union view
  OBVIOUS
<1> PICK status : status = IF isSuspicious(flags) THEN "SUSPICIOUS"
                           ELSE IF due[p].status = "SUSPICIOUS" THEN "CLEAN" ELSE due[p].status
  OBVIOUS
<1>1. /\ rows' = [rows EXCEPT ![p] = [status |-> status, flags |-> flags, fresh |-> TRUE]]
      /\ Owe(p, status)
  BY DEF recordMetaCheck
<1>2. view \in Ledger!RegistryViews
  BY SuppressOnlyRemoves, SuppressedView
<1>3. verdict[p].status = rows[p].status /\ verdict[p].flags = rows[p].flags
  BY DEF verdict
<1>4. flags = Ledger!Divergence(p) \union view
  BY <1>3 DEF Ledger!Divergence, Ledger!RegistryFlags, META_FLAGS, verdict
<1>5. /\ status \in {"SUSPICIOUS", rows[p].status} \union
                    (IF rows[p].status = "SUSPICIOUS" THEN {"CLEAN"} ELSE {})
      /\ status = "SUSPICIOUS" <=> isSuspicious(flags)
  OBVIOUS
<1>6. Ledger!Becomes(p, status, flags)
  BY <1>1, <1>5, WriteIsBecomes DEF Inv
<1>7. verdict[p].status # "unrecorded"
  BY <1>3 DEF Recorded
<1>8. status \in {"SUSPICIOUS", verdict[p].status} \union
                 (IF verdict[p].status = "SUSPICIOUS" THEN {"CLEAN"} ELSE {})
  BY <1>3, <1>5
<1>9. flags \in {Ledger!Divergence(p) \union view}
  BY <1>4
<1> HIDE DEF verdict
<1> QED BY <1>2, <1>6, <1>7, <1>8, <1>9, Zenon DEF Ledger!Refresh

\* The store implements the abstract ledger: verdicts are given once, refreshed by
\* the registry alone, and every SUSPICIOUS one is reported unless a crash intervenes.
THEOREM Refinement == Spec => ImplementsLedger
<1>1. Init => Ledger!Init
  BY DEF Init, Unrecorded, Ledger!Init, Ledger!NoVerdict, verdict
<1>2. Inv /\ [Next]_vars => [Ledger!Next]_(Ledger!ledger)
  <2> SUFFICES ASSUME Inv, [Next]_vars PROVE [Ledger!Next]_(Ledger!ledger)
    OBVIOUS
  <2>1. ASSUME NEW p \in Pkgs, Records(p), ~Recorded(p), lost' = lost PROVE Ledger!Next
    BY <2>1, RecordIsCompare DEF Ledger!Next
  <2>2. ASSUME NEW p \in Pkgs, Refreshes(p), Recorded(p), lost' = lost,
               due[p].status = rows[p].status, due[p].flags = rows[p].flags
        PROVE  Ledger!Next
    BY <2>2, RefreshIsRefresh DEF Ledger!Next
  <2>3. ASSUME SameVerdicts PROVE verdict' = verdict
    BY <2>3 DEF SameVerdicts, verdict
  <2>4. CASE SameVerdicts /\ unseen' = unseen /\ lost' = lost
    BY <2>3, <2>4 DEF Ledger!ledger, verdict
  <2>5. CASE SameVerdicts /\ unseen' = {} /\ lost' = lost
    BY <2>3, <2>5 DEF Ledger!Next, Ledger!Announce, verdict
  <2>6. CASE SameVerdicts /\ unseen' = {} /\ lost' = lost \union unseen
    BY <2>3, <2>6 DEF Ledger!Next, Ledger!Lose, verdict
  <2> QED BY <2>1, <2>2, <2>4, <2>5, <2>6, StoreSteps
<1> QED BY <1>1, <1>2, Invariance, PTL DEF Spec, ImplementsLedger, Ledger!Spec
=============================================================================
