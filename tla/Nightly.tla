------------------------------ MODULE Nightly -------------------------------
(***************************************************************************)
(* The row of one pin, and the runs that work on it at the same time: the  *)
(* daemon of src/bin/cargo-witness.js starts one every night, whatever     *)
(* became of the last one, and a --scan may be started beside it.  They    *)
(* share the database of src/src/db.js and nothing else.  Time passes in   *)
(* ticks; what Scanner knows as fresh is here the time of the last check.  *)
(***************************************************************************)
EXTENDS Findings

CONSTANTS
  Slots,       \* the runs there may be at a time
  ScanBeside,  \* is --scan used beside the daemon?
  Day,         \* ticks from one 03:00 to the next, and RECHECK_MAX_AGE_MS
  Duration,    \* the longest a run takes
  Threshold    \* --min-publish-age

ASSUME NightlyAssumption ==
  /\ ScanBeside \in BOOLEAN
  /\ Day \in Nat \ {0} /\ Duration \in Nat /\ Threshold \in Nat \ {0}

VARIABLES
  hour,      \* ticks since 03:00
  fired,     \* has the timer started this night's run?
  row,       \* the pin's row: recorded or not, and its findings
  age,       \* ticks since meta_checked_at (counted up to Oldest)
  registry,  \* what crates.io says of the version: "live" or "gone"
  published, \* ticks since created_at; -1: it is still to come
  run,       \* the runs
  lag,       \* history: meta_checked_at minus the time of the answer behind the row
  missed,    \* history: has a check failed since the row was written?
  settled,   \* history: since the row last turned SUSPICIOUS, has some run reported the
             \* pin, or died with its report?
  behind,    \* history: the runs that hold a copy of the row another run has overwritten
  crossed,   \* history: was the row last turned SUSPICIOUS by one of these?
  firsts,    \* history: how often pass 1 has recorded the pin (counted up to 2)
  found      \* history: had the first of these records the divergence?

history == <<lag, missed, settled, behind, crossed, firsts, found>>
clock == <<hour, fired, age, published>>
vars == <<clock, row, registry, run, history>>

Oldest == 2 * Day + Duration + 1
Lower(x, y) == IF x <= y THEN x ELSE y

Removed == Finding("VERSION_REMOVED")
Young == Finding("PUBLISH_AGE")
Divergence == Finding("BUILD_RS_INJECTED")
META_FLAGS == {Removed, Young}

\* since: ticks since it started; heard: ticks since its request was answered; flags:
\* the row's findings when it read them, or its own so far; alert: is the pin among
\* its suspicious ones?
Idle == [at |-> "idle", since |-> 0, heard |-> 0, flags |-> {}, alert |-> FALSE]

Init ==
  /\ hour = 0 /\ fired = FALSE
  /\ row = [recorded |-> FALSE, flags |-> {}] /\ age = 0
  /\ registry = "live" /\ published \in -1 .. 0
  /\ run = [s \in Slots |-> Idle]
  /\ lag = 0 /\ missed = FALSE /\ settled = FALSE
  /\ behind = {} /\ crossed = FALSE /\ firsts = 0 /\ found = FALSE

-----------------------------------------------------------------------------
(* Time, and who starts runs.                                                *)

\* The run goes on with these locals.
GoesOn(s, locals) == run' = [run EXCEPT ![s] = locals]

\* The run has been answered and has not written the row yet.
Heard == {"compare", "probe", "live", "gone"}

\* Date.now() moves on: no run takes longer than Duration, and the timer is on time.
TickTo(h) ==
  /\ hour = 0 => fired
  /\ \A s \in Slots : run[s].at # "idle" => run[s].since < Duration
  /\ hour' = h /\ fired' = FALSE
  /\ age' = Lower(age + 1, Oldest) /\ published' = Lower(published + 1, Threshold)
  /\ run' = [s \in Slots |-> IF run[s].at = "idle" THEN Idle ELSE
               [run[s] EXCEPT !.since = @ + 1,
                              !.heard = IF run[s].at \in Heard THEN @ + 1 ELSE 0]]
  /\ UNCHANGED <<row, registry, history>>

\* Mutant: an hour too many.
TickOver == TickTo((hour + 1) % (Day + 1))

Tick == TickTo((hour + 1) % Day)

\* runScan up to its first await: isChecked decides whether the pin is compared.
Start(s) ==
  /\ run[s].at = "idle"
  /\ GoesOn(s, [run[s] EXCEPT !.at = IF row.recorded THEN "recorded" ELSE "meta"])
  /\ UNCHANGED <<hour, age, published, row, registry, history>>

\* cron.schedule('0 3 * * *', doScan) does not wait for the last night's run.
Night == hour = 0 /\ ~fired /\ fired' = TRUE /\ \E s \in Slots : Start(s)
Scan == ScanBeside /\ UNCHANGED fired /\ \E s \in Slots : Start(s)

\* The run ends with its report: it settles nothing while the row is not SUSPICIOUS.
Settles(s) == settled' = (settled \/ (run[s].alert /\ isSuspicious(row.flags)))

\* The process dies; what it would have reported is gone.
Kill(s) ==
  /\ run[s].at # "idle"
  /\ GoesOn(s, Idle)
  /\ Settles(s)
  /\ missed' = TRUE /\ behind' = behind \ {s}
  /\ UNCHANGED <<clock, row, registry, lag, crossed, firsts, found>>

-----------------------------------------------------------------------------
(* A run.                                                                    *)

Max0(t) == IF t < 0 THEN 0 ELSE t

\* Mutant: the threshold is rounded down.
GatedLess == IF Max0(published) >= Threshold - 1 THEN {} ELSE {Young}

\* evaluatePublishAge: a version published in the future is 0 ticks old.
Gated == IF Max0(published) >= Threshold THEN {} ELSE {Young}

\* The run holds a copy of the row.
Copied == {"recheck", "live", "gone"}

\* recordPackage and recordMetaCheck set meta_checked_at to the time they are called.
WriteAnd(s, flags, reported, next) ==
  /\ row' = [recorded |-> TRUE, flags |-> flags]
  /\ GoesOn(s, [at |-> next, since |-> run[s].since, heard |-> 0, flags |-> {},
                 alert |-> run[s].alert \/ reported])
  /\ age' = 0 /\ lag' = run[s].heard /\ missed' = FALSE
  /\ settled' = (settled /\ isSuspicious(flags))
  /\ crossed' = (isSuspicious(flags) /\ IF isSuspicious(row.flags) THEN crossed ELSE s \in behind)
  /\ behind' = {t \in Slots \ {s} : run[t].at \in Copied}
  /\ UNCHANGED <<hour, fired, published, registry>>

\* Mutant: only a first check reports the pin.
WriteQuietly(s, flags, was, next) ==
  WriteAnd(s, flags, isSuspicious(flags) /\ ~row.recorded, next)

\* The pin is reported when its status becomes SUSPICIOUS: was are the findings before.
Write(s, flags, was, next) ==
  WriteAnd(s, flags, isSuspicious(flags) /\ ~isSuspicious(was), next)

Move(s, from, to) == /\ run[s].at = from /\ GoesOn(s, [run[s] EXCEPT !.at = to])
                     /\ UNCHANGED <<clock, row, registry>>

(* Pass 1: the pin is compared.                                              *)

Record(s, flags) ==
  /\ Write(s, flags, {}, "recorded")
  /\ firsts' = Lower(firsts + 1, 2)
  /\ found' = (IF firsts = 0 THEN Divergence \in flags ELSE found)

\* The version endpoint answers.  A 404 leads to a second request.
MetaServed(s) ==
  /\ run[s].at = "meta" /\ registry = "live"
  /\ GoesOn(s, [run[s] EXCEPT !.at = "compare", !.flags = Gated])
  /\ UNCHANGED <<clock, row, registry, history>>

MetaGone(s) == registry = "gone" /\ Move(s, "meta", "probe") /\ UNCHANGED history

RecordAbsence(s) == run[s].at = "probe" /\ Record(s, {Removed})

\* The comparison finds the divergence, or the git host limits this run and it does
\* not, or it fails: then a row is left only if the age gate has a finding.
Compared(s) ==
  /\ run[s].at = "compare"
  /\ \/ Record(s, run[s].flags \union {Divergence})
     \/ Record(s, run[s].flags)

Fails(s) ==
  /\ run[s].at \in {"meta", "probe"} \/ (run[s].at = "compare" /\ run[s].flags = {})
  /\ GoesOn(s, [run[s] EXCEPT !.at = "recorded", !.flags = {}])
  /\ UNCHANGED <<clock, row, registry, history>>

(* Pass 2: the row is re-checked when it is due.                             *)

\* Mutant: rows of the last night count as checked.
DueAfterTwoDays == row.recorded /\ age > 2 * Day

\* getRecheckDue: meta_checked_at >= cutoff is not due.
Due == row.recorded /\ age > Day

\* All pins are through pass 1: the cutoff is taken and the row is read.
ReadRow(s) ==
  /\ run[s].at = "recorded"
  /\ GoesOn(s, [run[s] EXCEPT !.at = IF Due THEN "recheck" ELSE "report",
                              !.flags = IF Due THEN row.flags ELSE {}])
  /\ UNCHANGED <<clock, row, registry, history>>

\* The registry answers; the run goes on when the answer has arrived.
Answered(s) == Move(s, "recheck", registry) /\ UNCHANGED history

\* Mutant: the findings of the registry replace all others.
OnlyFresh(was, fresh) == fresh

\* Mutant: the old flags are dropped after the new ones were added.
DropLast(was, fresh) == (was \union fresh) \ META_FLAGS

\* The comparison's findings are carried over, the registry's are recomputed.
Merge(was, fresh) == (was \ META_FLAGS) \union fresh

\* recheckOne merges what it read of the row with what the registry says.
Refresh(s) ==
  /\ run[s].at \in {"live", "gone"}
  /\ Write(s, Merge(run[s].flags, IF run[s].at = "gone" THEN {Removed} ELSE Gated),
           run[s].flags, "report")
  /\ UNCHANGED <<firsts, found>>

\* Mutant: a failed check counts as one.
RefreshAnyway(s) ==
  /\ run[s].at \in {"recheck", "gone"}
  /\ GoesOn(s, [run[s] EXCEPT !.at = "report", !.flags = {}, !.heard = 0])
  /\ age' = 0 /\ lag' = Lower(lag + age, Oldest)
  /\ UNCHANGED <<hour, fired, published, row, registry, missed, settled, behind, crossed,
                 firsts, found>>

\* An outage or a rate limit, at the first or at the second request: the row stays due.
RecheckFails(s) ==
  /\ run[s].at \in {"recheck", "gone"}
  /\ GoesOn(s, [run[s] EXCEPT !.at = "report", !.flags = {}, !.heard = 0])
  /\ missed' = TRUE /\ behind' = behind \ {s}
  /\ UNCHANGED <<clock, row, registry, lag, settled, crossed, firsts, found>>

\* notifySuspicious, and the end of the run.
Report(s) ==
  /\ run[s].at = "report"
  /\ GoesOn(s, Idle)
  /\ Settles(s)
  /\ UNCHANGED <<clock, row, registry, lag, missed, behind, crossed, firsts, found>>

-----------------------------------------------------------------------------
\* Versions are removed, and now and then restored.
RegistryMoves ==
  /\ registry' \in {"live", "gone"} \ {registry}
  /\ UNCHANGED <<clock, row, run, history>>

Works(s) == \/ MetaServed(s) \/ MetaGone(s) \/ RecordAbsence(s) \/ Compared(s) \/ Fails(s)
            \/ ReadRow(s) \/ Answered(s) \/ Refresh(s) \/ RecheckFails(s) \/ Report(s)

Next == \/ Tick \/ Night \/ Scan \/ RegistryMoves
        \/ \E s \in Slots : Works(s) \/ Kill(s)

Spec == Init /\ [][Next]_vars

\* Time passes and the timer fires, whatever the slots are busy with; a run goes on;
\* at last processes are not killed and requests do not fail any more.
Quiet == \A s \in Slots : ~Kill(s) /\ ~Fails(s) /\ ~RecheckFails(s)
FairSpec ==
  /\ Spec
  /\ SF_vars(Tick) /\ SF_vars(Night)
  /\ \A s \in Slots : WF_vars(Works(s))
  /\ <>[][Quiet]_vars

-----------------------------------------------------------------------------
(* Properties.                                                               *)

Stages == {"idle", "meta", "probe", "compare", "recorded", "recheck", "live", "gone", "report"}
Flags == {Removed, Young, Divergence}
Locals == [at : Stages, since : 0 .. Duration, heard : 0 .. Duration,
           flags : SUBSET Flags, alert : BOOLEAN]

TypeOK ==
  /\ hour \in 0 .. Day - 1 /\ fired \in BOOLEAN
  /\ row \in [recorded : BOOLEAN, flags : SUBSET Flags]
  /\ age \in 0 .. Oldest /\ registry \in {"live", "gone"}
  /\ published \in -1 .. Threshold
  /\ run \in [Slots -> Locals]
  /\ lag \in Nat /\ missed \in BOOLEAN /\ settled \in BOOLEAN
  /\ behind \subseteq Slots /\ crossed \in BOOLEAN
  /\ firsts \in 0 .. 2 /\ found \in BOOLEAN

\* scanner.js: "persists meta_checked_at so the next 24h of runs skip it".  What is
\* skipped rests on an answer that is at most one run older than the stored time, and
\* unless a check failed the stored time is never more than two days and a run ago,
\* whatever runs overlap and whenever in the night they come to the pin.  (Two days: a
\* row written late in one night is not due yet in the next.)
VerdictIsRecent ==
  row.recorded => lag <= Duration /\ (missed \/ age <= 2 * Day + Duration)

\* A row does not turn SUSPICIOUS in silence: since it did, the pin has been reported, or
\* is on the list of a run that will report it, or that run has died.  The exception is
\* the code's own: scanner.js:124 compares with the status the run read, so a run that
\* holds a copy of a SUSPICIOUS row, which another run has cleared since, turns the row
\* SUSPICIOUS again and nobody reports it (crossed).  Only a copy another run has
\* overwritten does that: without overlap no row is silent.
NoSilentRow ==
  isSuspicious(row.flags) => settled \/ crossed \/ \E s \in Slots : run[s].alert

\* A run that re-checks the row from an old copy does not undo the comparison: while
\* only one run has compared the pin, what it found stays.
DivergenceSurvives == found /\ firsts = 1 => Divergence \in row.flags

\* publish-age.js: "A version exactly at the threshold has cleared it", and a publish
\* time in the future counts as now.  A version the registry serves is stored without
\* the age finding only once it is as old as the threshold, whichever run wrote last.
NotClearedEarly ==
  row.recorded /\ published < Threshold => row.flags \intersect META_FLAGS # {}

\* README: "A version withdrawn after cargo-witness cleared it flips to SUSPICIOUS".
\* A version that is gone for good ends up flagged for good, although a run that read
\* an older answer may write it later.
WithdrawnIsFlagged == <>[](registry = "gone") => <>[](Removed \in row.flags)

=============================================================================
