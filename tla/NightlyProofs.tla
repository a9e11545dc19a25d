--------------------------- MODULE NightlyProofs ----------------------------
(***************************************************************************)
(* The invariants of Nightly, for any number of runs at a time and every   *)
(* length of a day, a run and the threshold.                               *)
(***************************************************************************)
EXTENDS Nightly, TLAPS

\* The run will re-check the row, if it is due.
Watching == Copied \union {"recorded"}

RunsInv == \A s \in Slots : /\ run[s].heard <= run[s].since
                            /\ run[s].at = "idle" => run[s] = Idle

FirstInv == /\ firsts = 0 <=> ~row.recorded
            /\ ~row.recorded => row.flags = {} /\ \A s \in Slots : run[s].at \notin Copied

DivergenceInv ==
  found /\ firsts = 1 =>
    /\ Divergence \in row.flags
    /\ \A s \in Slots : run[s].at \in Copied => Divergence \in run[s].flags

\* Who is not behind has a true copy.
CopyInv ==
  /\ \A s \in behind : run[s].at \in Copied
  /\ \A s \in Slots \ behind : run[s].at \in Copied => run[s].flags = row.flags

\* The pin is reported, or will be unless a run dies; or the row was turned by a run that
\* was behind.
Told == settled \/ crossed \/ \E s \in Slots : run[s].alert
ToldInv == isSuspicious(row.flags) => Told

AgeInv ==
  /\ NotClearedEarly
  /\ \A s \in Slots : run[s].at = "compare" /\ published < Threshold => Young \in run[s].flags

\* Ticks since the timer last started a run.
SinceNight == IF hour = 0 /\ ~fired THEN Day ELSE hour

\* A row that was due when the timer last started a run is looked after by a run that
\* was started in the first night it was due.
DueInv ==
  row.recorded /\ ~missed /\ age > Day + SinceNight
    => \E s \in Slots : run[s].at \in Watching /\ run[s].since >= age - 2 * Day

StateInv == /\ TypeOK /\ RunsInv /\ FirstInv /\ DivergenceInv /\ CopyInv /\ ToldInv /\ AgeInv
            /\ lag <= Duration
Inv == StateInv /\ DueInv

LEMMA ThreeFlags ==
  /\ Removed # Young /\ META_FLAGS \subseteq Flags /\ Divergence \in Flags \ META_FLAGS
  /\ ~isSuspicious({})
<1>1. maxSeverity({}) = "none"
  BY DEF maxSeverity
<1>2. ~isSuspicious({})
  BY <1>1 DEF isSuspicious, atLeast
<1> QED BY <1>2 DEF Removed, Young, Divergence, META_FLAGS, Flags, Finding

LEMMA IdleLocals == Idle \in Locals /\ Idle.heard = Idle.since /\ Idle.at = "idle"
BY NightlyAssumption DEF Idle, Locals, Stages

LEMMA InitInv == Init => Inv
<1> SUFFICES ASSUME Init PROVE Inv
  OBVIOUS
<1> USE NightlyAssumption
<1>1. \A s \in Slots : run[s] = Idle
  BY DEF Init
<1>2. run \in [Slots -> Locals]
  BY IdleLocals DEF Init
<1>3. TypeOK
  <2>1. hour \in 0 .. Day - 1 /\ age \in 0 .. Oldest /\ published \in -1 .. Threshold
    BY DEF Init, Oldest
  <2>2. row \in [recorded : BOOLEAN, flags : SUBSET Flags]
    BY DEF Init
  <2>3. lag \in Nat /\ firsts \in 0 .. 2
    BY DEF Init
  <2>4. fired \in BOOLEAN /\ missed \in BOOLEAN /\ settled \in BOOLEAN /\ found \in BOOLEAN
        /\ crossed \in BOOLEAN /\ behind \subseteq Slots /\ registry \in {"live", "gone"}
    BY Zenon DEF Init
  <2> QED BY <1>2, <2>1, <2>2, <2>3, <2>4 DEF TypeOK
<1>4. RunsInv
  BY <1>1 DEF RunsInv, Idle
<1>5. FirstInv /\ DivergenceInv /\ CopyInv /\ AgeInv /\ lag <= Duration
  BY <1>1 DEF Init, FirstInv, DivergenceInv, CopyInv, AgeInv, NotClearedEarly, Idle, Copied
<1>6. ToldInv
  BY <1>1, ThreeFlags DEF Init, ToldInv, Idle, Copied
<1>7. DueInv
  BY DEF Init, DueInv
<1> QED BY <1>3, <1>4, <1>5, <1>6, <1>7 DEF Inv, StateInv

-----------------------------------------------------------------------------
(* A run goes on and the row stays.                                          *)

\* What such a step may do to the run's locals.
Keeps(s, locals) ==
  /\ locals.heard <= locals.since
  /\ locals.at = "idle" => locals = Idle
  /\ run[s].alert => locals.alert \/ settled' \/ ~isSuspicious(row.flags)
  /\ behind' \in SUBSET behind /\ behind \ {s} \subseteq behind'
  /\ locals.at \in Copied => behind' = behind
  /\ s \in behind' => locals.at \in Copied
  /\ locals.at \in Copied => /\ row.recorded
                              /\ \/ locals.flags = row.flags
                                 \/ run[s].at \in Copied /\ locals.flags = run[s].flags
  /\ locals.at = "compare" /\ published < Threshold => Young \in locals.flags

LEMMA RunStep ==
  ASSUME StateInv, NEW s \in Slots, NEW locals \in Locals, GoesOn(s, locals), Keeps(s, locals),
         hour' = hour, fired' \in BOOLEAN, age' = age, published' = published, row' = row,
         registry' = registry, lag' = lag, crossed' = crossed, firsts' = firsts, found' = found,
         missed' \in BOOLEAN, settled' \in BOOLEAN, settled => settled'
  PROVE  StateInv'
<1> USE DEF StateInv
<1>0. run \in [Slots -> Locals]
  BY DEF TypeOK, Locals
<1>1. run' \in [Slots -> Locals] /\ \A t \in Slots : run'[t] = IF t = s THEN locals ELSE run[t]
  BY <1>0 DEF GoesOn
<1>2. TypeOK'
  BY <1>1 DEF TypeOK, Keeps
<1>3. RunsInv'
  BY <1>1 DEF RunsInv, Keeps
<1>4. FirstInv'
  BY <1>1 DEF FirstInv, Keeps
<1>5. DivergenceInv'
  BY <1>1 DEF DivergenceInv, Keeps
<1>6. CopyInv'
  BY <1>1 DEF CopyInv, Keeps, TypeOK
<1>7. ToldInv'
  BY <1>1 DEF ToldInv, Told, Keeps
<1>8. AgeInv'
  BY <1>1 DEF AgeInv, NotClearedEarly, Keeps
<1> QED BY <1>2, <1>3, <1>4, <1>5, <1>6, <1>7, <1>8

\* The run still watches the row, or need not any more.
LEMMA RunDue ==
  ASSUME Inv, NEW s \in Slots, NEW locals \in Locals, GoesOn(s, locals),
         hour' = hour, fired' = fired, age' = age, row' = row,
         missed' \/ (missed' = missed /\
           (run[s].at \in Watching /\ row.recorded /\ age > Day
              => locals.at \in Watching /\ locals.since = run[s].since))
  PROVE  DueInv'
<1> USE NightlyAssumption DEF Inv, StateInv
<1>1. \A t \in Slots : run'[t] = IF t = s THEN locals ELSE run[t]
  BY DEF GoesOn, TypeOK
<1> SUFFICES ASSUME row.recorded, ~missed', age > Day + SinceNight
             PROVE  \E t \in Slots : run'[t].at \in Watching /\ run'[t].since >= age - 2 * Day
  BY DEF DueInv, SinceNight
<1>2. age > Day
  BY DEF SinceNight, TypeOK
<1>3. PICK t \in Slots : run[t].at \in Watching /\ run[t].since >= age - 2 * Day
  BY DEF DueInv
<1> QED BY <1>1, <1>2, <1>3

-----------------------------------------------------------------------------
(* The row is written.                                                       *)

LEMMA WriteStep ==
  ASSUME StateInv, NEW s \in Slots, NEW flags \in SUBSET Flags, NEW was,
         NEW next \in {"recorded", "report"}, Write(s, flags, was, next),
         isSuspicious(was) => s \in behind \/ was = row.flags,
         published < Threshold => flags \intersect META_FLAGS # {},
         firsts' \in 1 .. 2, found' \in BOOLEAN,
         found' /\ firsts' = 1 => /\ Divergence \in flags
                                  /\ \A t \in Slots : run[t].at \in Copied /\ t # s
                                                        => Divergence \in run[t].flags
  PROVE  Inv'
<1> DEFINE reported == isSuspicious(flags) /\ ~isSuspicious(was)
           locals == [at |-> next, since |-> run[s].since, heard |-> 0, flags |-> {},
                      alert |-> run[s].alert \/ reported]
<1> USE NightlyAssumption DEF StateInv
<1>0. run \in [Slots -> Locals]
  BY DEF TypeOK, Locals
<1>1. locals \in Locals
  <2>1. reported \in BOOLEAN
    BY DEF isSuspicious, atLeast
  <2>2. run[s].since \in 0 .. Duration /\ run[s].alert \in BOOLEAN
    BY <1>0 DEF Locals
  <2> HIDE DEF reported
  <2>3. (run[s].alert \/ reported) \in BOOLEAN
    BY <2>1, <2>2
  <2> QED BY <2>2, <2>3 DEF Locals, Stages
<1>2. locals.at = next /\ locals.heard = 0 /\ locals.since = run[s].since
      /\ locals.alert = (run[s].alert \/ reported)
  OBVIOUS
<1>3. /\ row' = [recorded |-> TRUE, flags |-> flags] /\ age' = 0 /\ missed' = FALSE
      /\ GoesOn(s, locals) /\ lag' = run[s].heard
      /\ settled' = (settled /\ isSuspicious(flags))
      /\ crossed' = (isSuspicious(flags) /\ IF isSuspicious(row.flags) THEN crossed
                                             ELSE s \in behind)
      /\ behind' = {t \in Slots \ {s} : run[t].at \in Copied}
      /\ UNCHANGED <<hour, fired, published, registry>>
  BY DEF Write, WriteAnd
<1> HIDE DEF locals, reported
<1>4. run' \in [Slots -> Locals] /\ \A t \in Slots : run'[t] = IF t = s THEN locals ELSE run[t]
  BY <1>0, <1>1, <1>3 DEF GoesOn
<1>5. row'.recorded = TRUE /\ row'.flags = flags
  BY <1>3
<1>6. TypeOK'
  <2>1. row' \in [recorded : BOOLEAN, flags : SUBSET Flags]
    BY <1>3
  <2>2. age' \in 0 .. Oldest
    BY <1>3 DEF Oldest
  <2>3. lag' \in 0 .. Duration
    BY <1>0, <1>3 DEF Locals
  <2>4. firsts' \in 0 .. 2 /\ lag' \in Nat
    BY <2>3
  <2>5. missed' \in BOOLEAN /\ settled' \in BOOLEAN /\ crossed' \in BOOLEAN
        /\ behind' \subseteq Slots
    <3>1. isSuspicious(flags) \in BOOLEAN /\ isSuspicious(row.flags) \in BOOLEAN
          /\ (s \in behind) \in BOOLEAN /\ settled \in BOOLEAN /\ crossed \in BOOLEAN
      BY DEF TypeOK, isSuspicious, atLeast
    <3> QED BY <1>3, <3>1
  <2> QED BY <1>3, <1>4, <2>1, <2>2, <2>4, <2>5 DEF TypeOK
<1>7. RunsInv'
  BY <1>0, <1>2, <1>4 DEF RunsInv, Locals
<1>8. FirstInv'
  BY <1>5 DEF FirstInv
<1>9. DivergenceInv'
  BY <1>2, <1>4, <1>5 DEF DivergenceInv, Copied
<1>10. CopyInv'
  BY <1>2, <1>3, <1>4, <1>5 DEF CopyInv, Copied
<1>11. isSuspicious(flags) => Told'
  <2>1. ASSUME isSuspicious(flags), isSuspicious(row.flags) PROVE Told'
    BY <1>2, <1>3, <1>4, <2>1 DEF Told, ToldInv
  <2>2. ASSUME isSuspicious(flags), ~isSuspicious(was) PROVE Told'
    BY <1>2, <1>4, <2>2 DEF Told, reported
  <2>3. ASSUME isSuspicious(flags), s \in behind, ~isSuspicious(row.flags) PROVE Told'
    BY <1>3, <2>3 DEF Told
  <2> QED BY <2>1, <2>2, <2>3
<1>12. ToldInv'
  BY <1>5, <1>11 DEF ToldInv
<1>13. AgeInv'
  BY <1>2, <1>3, <1>4, <1>5 DEF AgeInv, NotClearedEarly
<1>14. lag' <= Duration
  BY <1>0, <1>3 DEF Locals
<1>15. DueInv'
  BY <1>3, <1>6 DEF DueInv, SinceNight, TypeOK
<1> QED BY <1>6, <1>7, <1>8, <1>9, <1>10, <1>12, <1>13, <1>14, <1>15 DEF Inv

LEMMA RecordInv ==
  ASSUME Inv, NEW s \in Slots, NEW flags \in SUBSET Flags, Record(s, flags),
         published < Threshold => flags \intersect META_FLAGS # {}
  PROVE  Inv'
<1> USE DEF Inv, StateInv
<1>1. Write(s, flags, {}, "recorded") /\ ~isSuspicious({})
  BY ThreeFlags DEF Record
<1>2. firsts' = Lower(firsts + 1, 2) /\ found' = IF firsts = 0 THEN Divergence \in flags ELSE found
  BY DEF Record
<1>3. firsts' \in 1 .. 2 /\ (firsts' = 1 => firsts = 0)
  BY <1>2 DEF TypeOK, Lower
<1>4. found' \in BOOLEAN
  <2>1. (Divergence \in flags) \in BOOLEAN /\ found \in BOOLEAN
    BY DEF TypeOK
  <2> QED BY <1>2, <2>1
<1>5. firsts' = 1 => \A t \in Slots : run[t].at \notin Copied
  BY <1>3 DEF FirstInv
<1> QED BY <1>1, <1>2, <1>3, <1>4, <1>5, WriteStep

LEMMA GatedFlags ==
  /\ Gated \in SUBSET Flags /\ Gated \subseteq META_FLAGS
  /\ StateInv /\ published < Threshold => Young \in Gated
BY NightlyAssumption, ThreeFlags DEF Gated, Max0, Flags, META_FLAGS, StateInv, TypeOK

LEMMA RefreshInv == ASSUME Inv, NEW s \in Slots, Refresh(s) PROVE Inv'
<1> DEFINE fresh == IF run[s].at = "gone" THEN {Removed} ELSE Gated
           flags == Merge(run[s].flags, fresh)
<1> USE DEF Inv, StateInv
<1>1. run[s].at \in Copied /\ Write(s, flags, run[s].flags, "report")
      /\ firsts' = firsts /\ found' = found
  BY DEF Refresh, Copied
<1>2. fresh \in SUBSET META_FLAGS /\ (published < Threshold => fresh # {})
  BY GatedFlags, ThreeFlags DEF META_FLAGS
<1>3. run[s].flags \in SUBSET Flags
  BY DEF TypeOK, Locals
<1> HIDE DEF fresh
<1>4. flags \in SUBSET Flags
  BY <1>2, <1>3, ThreeFlags DEF Merge
<1>5. published < Threshold => flags \intersect META_FLAGS # {}
  BY <1>2 DEF Merge
<1>6. s \in behind \/ run[s].flags = row.flags
  BY <1>1 DEF CopyInv
<1>7. firsts' \in 1 .. 2 /\ found' \in BOOLEAN
  BY <1>1 DEF FirstInv, TypeOK
<1>8. found' /\ firsts' = 1 => /\ Divergence \in flags
                               /\ \A t \in Slots : run[t].at \in Copied /\ t # s
                                                     => Divergence \in run[t].flags
  BY <1>1, ThreeFlags DEF DivergenceInv, Merge
<1> HIDE DEF flags
<1> QED BY <1>1, <1>4, <1>5, <1>6, <1>7, <1>8, WriteStep

LEMMA ComparedInv == ASSUME Inv, NEW s \in Slots, Compared(s) PROVE Inv'
<1>1. run[s].flags \in SUBSET Flags
      /\ (published < Threshold => run[s].flags \intersect META_FLAGS # {})
  BY DEF Inv, StateInv, TypeOK, Locals, AgeInv, Compared, META_FLAGS
<1>2. run[s].flags \union {Divergence} \in SUBSET Flags
  BY <1>1, ThreeFlags
<1>3. CASE Record(s, run[s].flags \union {Divergence})
  BY <1>1, <1>2, <1>3, RecordInv
<1>4. CASE Record(s, run[s].flags)
  BY <1>1, <1>4, RecordInv
<1> QED BY <1>3, <1>4 DEF Compared

LEMMA AbsenceInv == ASSUME Inv, NEW s \in Slots, RecordAbsence(s) PROVE Inv'
<1>1. {Removed} \in SUBSET Flags /\ {Removed} \intersect META_FLAGS # {}
  BY DEF Flags, META_FLAGS
<1> QED BY <1>1, RecordInv DEF RecordAbsence

-----------------------------------------------------------------------------
(* The steps that leave the row alone.                                       *)

LEMMA FailedLocals ==
  ASSUME NEW r \in Locals
  PROVE  LET locals == [r EXCEPT !.at = "report", !.flags = {}, !.heard = 0]
         IN  /\ locals \in Locals /\ locals.at = "report"
             /\ locals.since = r.since /\ locals.heard = 0 /\ locals.alert = r.alert
<1>1. 0 \in 0 .. Duration /\ "report" \in Stages /\ {} \in SUBSET Flags
  BY NightlyAssumption DEF Stages
<1> QED BY <1>1 DEF Locals

LEMMA LocalsFacts ==
  ASSUME StateInv, NEW s \in Slots
  PROVE  /\ run[s] \in Locals /\ run[s].flags \in SUBSET Flags /\ run[s].heard <= run[s].since
         /\ run[s].alert \in BOOLEAN /\ run[s].since \in 0 .. Duration
BY DEF StateInv, TypeOK, Locals, RunsInv

LEMMA StartState ==
  ASSUME StateInv, NEW s \in Slots, Start(s), fired' \in BOOLEAN
  PROVE  StateInv'
<1> DEFINE locals == [run[s] EXCEPT !.at = IF row.recorded THEN "recorded" ELSE "meta"]
<1>1. (IF row.recorded THEN "recorded" ELSE "meta") \in {"recorded", "meta"}
  OBVIOUS
<1>2. locals \in Locals /\ locals.at \in {"recorded", "meta"} /\ locals.heard = run[s].heard
      /\ locals.since = run[s].since /\ locals.alert = run[s].alert
  <2>1. run[s] \in Locals /\ (IF row.recorded THEN "recorded" ELSE "meta") \in Stages
    BY <1>1, LocalsFacts DEF Stages
  <2> QED BY <1>1, <2>1 DEF Locals
<1>3. GoesOn(s, locals) /\ UNCHANGED <<hour, age, published, row, registry, history>>
  BY DEF Start
<1> HIDE DEF locals
<1>4. Keeps(s, locals)
  BY <1>2, <1>3, LocalsFacts DEF Keeps, Copied, history, Start, StateInv, CopyInv
<1> QED BY <1>2, <1>3, <1>4, RunStep DEF history, StateInv, TypeOK

LEMMA ScanInv == ASSUME Inv, Scan PROVE Inv'
<1>1. PICK s \in Slots : Start(s)
  BY DEF Scan
<1>2. StateInv'
  BY <1>1, StartState DEF Scan, Inv, StateInv, TypeOK
<1> DEFINE locals == [run[s] EXCEPT !.at = IF row.recorded THEN "recorded" ELSE "meta"]
<1>3. locals \in Locals
  <2>1. run[s] \in Locals /\ (IF row.recorded THEN "recorded" ELSE "meta") \in Stages
    BY LocalsFacts DEF Stages, Inv
  <2> QED BY <2>1 DEF Locals
<1>4. GoesOn(s, locals) /\ run[s].at \notin Watching
      /\ UNCHANGED <<hour, fired, age, row, missed>>
  BY <1>1 DEF Start, Scan, history, Watching, Copied
<1> HIDE DEF locals
<1>5. DueInv'
  BY <1>3, <1>4, RunDue
<1> QED BY <1>2, <1>5 DEF Inv

\* The timer starts a run: if the row became due only now, this run looks after it.
LEMMA NightInv == ASSUME Inv, Night PROVE Inv'
<1> USE NightlyAssumption DEF Inv, StateInv
<1>1. PICK s \in Slots : Start(s)
  BY DEF Night
<1>2. StateInv'
  BY <1>1, StartState DEF Night
<1> DEFINE locals == [run[s] EXCEPT !.at = IF row.recorded THEN "recorded" ELSE "meta"]
<1>3. GoesOn(s, locals) /\ run[s] = Idle
      /\ UNCHANGED <<hour, age, row, missed>> /\ hour = 0 /\ ~fired /\ fired' = TRUE
  BY <1>1 DEF Start, Night, history, RunsInv
<1>4. locals.since = 0 /\ (row.recorded => locals.at = "recorded")
  <2>1. run[s] \in Locals
    BY LocalsFacts
  <2> QED BY <1>3, <2>1 DEF Idle, Locals
<1> HIDE DEF locals
<1>5. \A t \in Slots : run'[t] = IF t = s THEN locals ELSE run[t]
  BY <1>3 DEF GoesOn, TypeOK
<1>6. ASSUME row.recorded, ~missed, age > Day
      PROVE  \E t \in Slots : run'[t].at \in Watching /\ run'[t].since >= age - 2 * Day
  <2>1. CASE age > 2 * Day
    <3>1. PICK t \in Slots : run[t].at \in Watching /\ run[t].since >= age - 2 * Day
      BY <1>3, <1>6, <2>1 DEF DueInv, SinceNight, TypeOK
    <3>2. t # s
      BY <1>3, <3>1 DEF Idle, Watching, Copied
    <3> QED BY <1>5, <3>1, <3>2
  <2>2. CASE age <= 2 * Day
    <3>1. 0 >= age - 2 * Day
      BY <2>2 DEF TypeOK
    <3> QED BY <1>4, <1>5, <1>6, <3>1 DEF Watching
  <2> QED BY <2>1, <2>2 DEF TypeOK
<1>7. DueInv'
  BY <1>3, <1>6 DEF DueInv, SinceNight
<1> QED BY <1>2, <1>7

LEMMA KillInv == ASSUME Inv, NEW s \in Slots, Kill(s) PROVE Inv'
<1>1. GoesOn(s, Idle) /\ missed' = TRUE /\ behind' = behind \ {s}
      /\ UNCHANGED <<hour, fired, age, published, row, registry, lag, crossed, firsts, found>>
  BY DEF Kill, clock
<1>2. settled' = (settled \/ (run[s].alert /\ isSuspicious(row.flags)))
  BY DEF Kill, Settles
<1>3. /\ settled' \in BOOLEAN /\ (settled => settled')
      /\ run[s].alert => settled' \/ ~isSuspicious(row.flags)
  <2>1. settled \in BOOLEAN /\ run[s].alert \in BOOLEAN /\ isSuspicious(row.flags) \in BOOLEAN
    BY LocalsFacts DEF Inv, StateInv, TypeOK, isSuspicious, atLeast
  <2> QED BY <1>2, <2>1
<1>4. Keeps(s, Idle)
  BY <1>1, <1>3 DEF Keeps, Idle, Copied, Inv, StateInv, CopyInv
<1>5. fired' \in BOOLEAN
  BY <1>1 DEF Inv, StateInv, TypeOK
<1>6. StateInv'
  BY <1>1, <1>3, <1>4, <1>5, IdleLocals, RunStep DEF Inv
<1>7. DueInv'
  BY <1>1, IdleLocals, RunDue
<1> QED BY <1>6, <1>7 DEF Inv

LEMMA ServedInv == ASSUME Inv, NEW s \in Slots, MetaServed(s) PROVE Inv'
<1> DEFINE locals == [run[s] EXCEPT !.at = "compare", !.flags = Gated]
<1>1. locals \in Locals /\ locals.at = "compare" /\ locals.flags = Gated
      /\ locals.since = run[s].since /\ locals.heard = run[s].heard
      /\ locals.alert = run[s].alert
  <2>1. run[s] \in Locals /\ "compare" \in Stages /\ Gated \in SUBSET Flags
    BY LocalsFacts, GatedFlags DEF Inv, Stages
  <2> QED BY <2>1 DEF Locals
<1>2. GoesOn(s, locals) /\ run[s].at \notin Watching
      /\ UNCHANGED <<hour, fired, age, published, row, registry, lag, missed, settled, behind,
                     crossed, firsts, found>>
  BY DEF MetaServed, clock, history, Watching, Copied
<1> HIDE DEF locals
<1>3. Keeps(s, locals)
  BY <1>1, <1>2, LocalsFacts, GatedFlags DEF Keeps, Copied, Watching, Inv, StateInv, CopyInv
<1>4. StateInv'
  BY <1>1, <1>2, <1>3, RunStep DEF Inv, StateInv, TypeOK
<1>5. DueInv'
  BY <1>1, <1>2, RunDue
<1> QED BY <1>4, <1>5 DEF Inv

LEMMA GoneInv == ASSUME Inv, NEW s \in Slots, MetaGone(s) PROVE Inv'
<1> DEFINE locals == [run[s] EXCEPT !.at = "probe"]
<1>1. locals \in Locals /\ locals.at = "probe"
      /\ locals.since = run[s].since /\ locals.heard = run[s].heard
      /\ locals.alert = run[s].alert
  <2>1. run[s] \in Locals /\ "probe" \in Stages
    BY LocalsFacts DEF Inv, Stages
  <2> QED BY <2>1 DEF Locals
<1>2. GoesOn(s, locals) /\ run[s].at \notin Watching
      /\ UNCHANGED <<hour, fired, age, published, row, registry, lag, missed, settled, behind,
                     crossed, firsts, found>>
  BY DEF MetaGone, Move, clock, history, Watching, Copied
<1> HIDE DEF locals
<1>3. Keeps(s, locals)
  BY <1>1, <1>2, LocalsFacts DEF Keeps, Copied, Watching, Inv, StateInv, CopyInv
<1>4. StateInv'
  BY <1>1, <1>2, <1>3, RunStep DEF Inv, StateInv, TypeOK
<1>5. DueInv'
  BY <1>1, <1>2, RunDue
<1> QED BY <1>4, <1>5 DEF Inv

LEMMA FailsInv == ASSUME Inv, NEW s \in Slots, Fails(s) PROVE Inv'
<1> DEFINE locals == [run[s] EXCEPT !.at = "recorded", !.flags = {}]
<1>1. locals \in Locals /\ locals.at = "recorded"
      /\ locals.since = run[s].since /\ locals.heard = run[s].heard
      /\ locals.alert = run[s].alert
  <2>1. run[s] \in Locals /\ "recorded" \in Stages
    BY LocalsFacts DEF Inv, Stages
  <2> QED BY <2>1 DEF Locals
<1>2. GoesOn(s, locals) /\ run[s].at \notin Watching
      /\ UNCHANGED <<hour, fired, age, published, row, registry, lag, missed, settled, behind,
                     crossed, firsts, found>>
  BY DEF Fails, clock, history, Watching, Copied
<1> HIDE DEF locals
<1>3. Keeps(s, locals)
  BY <1>1, <1>2, LocalsFacts DEF Keeps, Copied, Watching, Inv, StateInv, CopyInv
<1>4. StateInv'
  BY <1>1, <1>2, <1>3, RunStep DEF Inv, StateInv, TypeOK
<1>5. DueInv'
  BY <1>1, <1>2, RunDue
<1> QED BY <1>4, <1>5 DEF Inv

LEMMA ReadInv == ASSUME Inv, NEW s \in Slots, ReadRow(s) PROVE Inv'
<1> DEFINE at == IF Due THEN "recheck" ELSE "report"
           flags == IF Due THEN row.flags ELSE {}
           locals == [run[s] EXCEPT !.at = at, !.flags = flags]
<1>1. at \in {"recheck", "report"} /\ flags \in SUBSET Flags
      /\ (at = "recheck" => Due /\ flags = row.flags) /\ (Due => at = "recheck")
  BY DEF Inv, StateInv, TypeOK
<1>2. GoesOn(s, locals)
      /\ UNCHANGED <<hour, fired, age, published, row, registry, lag, missed, settled, behind,
                     crossed, firsts, found>>
  BY DEF ReadRow, clock, history
<1> HIDE DEF at, flags
<1>3. locals \in Locals /\ locals.at = at /\ locals.flags = flags
      /\ locals.since = run[s].since /\ locals.heard = run[s].heard
      /\ locals.alert = run[s].alert
  <2>1. run[s] \in Locals /\ at \in Stages
    BY <1>1, LocalsFacts DEF Inv, Stages
  <2> QED BY <1>1, <2>1 DEF Locals
<1> HIDE DEF locals
<1>4. Keeps(s, locals)
  BY <1>1, <1>2, <1>3, LocalsFacts DEF Keeps, Copied, Inv, Due, ReadRow, StateInv, CopyInv
<1>5. StateInv'
  BY <1>2, <1>3, <1>4, RunStep DEF Inv, StateInv, TypeOK
<1>6. row.recorded /\ age > Day => locals.at \in Watching
  BY <1>1, <1>3 DEF Due, Watching, Copied
<1>7. DueInv'
  BY <1>2, <1>3, <1>6, RunDue
<1> QED BY <1>5, <1>7 DEF Inv

LEMMA AnsweredInv == ASSUME Inv, NEW s \in Slots, Answered(s) PROVE Inv'
<1> DEFINE locals == [run[s] EXCEPT !.at = registry]
<1>1. registry \in {"live", "gone"}
  BY DEF Inv, StateInv, TypeOK
<1>2. locals \in Locals /\ locals.at = registry /\ locals.flags = run[s].flags
      /\ locals.since = run[s].since /\ locals.heard = run[s].heard
      /\ locals.alert = run[s].alert
  <2>1. run[s] \in Locals /\ registry \in Stages
    BY <1>1, LocalsFacts DEF Inv, Stages
  <2> QED BY <2>1 DEF Locals
<1>3. GoesOn(s, locals) /\ run[s].at \in Copied
      /\ UNCHANGED <<hour, fired, age, published, row, registry, lag, missed, settled, behind,
                     crossed, firsts, found>>
  BY DEF Answered, Move, clock, history, Copied
<1> HIDE DEF locals
<1>4. row.recorded
  BY <1>3 DEF Inv, StateInv, FirstInv
<1>5. Keeps(s, locals)
  BY <1>1, <1>2, <1>3, <1>4, LocalsFacts DEF Keeps, Inv, Copied
<1>6. StateInv'
  BY <1>2, <1>3, <1>5, RunStep DEF Inv, StateInv, TypeOK
<1>7. locals.at \in Watching
  BY <1>1, <1>2 DEF Watching, Copied
<1>8. DueInv'
  BY <1>2, <1>3, <1>7, RunDue
<1> QED BY <1>6, <1>8 DEF Inv

LEMMA RecheckFailsInv == ASSUME Inv, NEW s \in Slots, RecheckFails(s) PROVE Inv'
<1> DEFINE locals == [run[s] EXCEPT !.at = "report", !.flags = {}, !.heard = 0]
<1>1. locals \in Locals /\ locals.at = "report"
      /\ locals.since = run[s].since /\ locals.heard = 0
      /\ locals.alert = run[s].alert
  BY LocalsFacts, FailedLocals DEF Inv
<1>2. GoesOn(s, locals) /\ missed' = TRUE /\ behind' = behind \ {s}
      /\ UNCHANGED <<hour, fired, age, published, row, registry, lag, settled, crossed,
                     firsts, found>>
  BY DEF RecheckFails, clock
<1> HIDE DEF locals
<1>3. Keeps(s, locals)
  BY <1>1, <1>2, LocalsFacts DEF Keeps, Copied, Inv, StateInv, CopyInv
<1>4. StateInv'
  BY <1>1, <1>2, <1>3, RunStep DEF Inv, StateInv, TypeOK
<1>5. DueInv'
  BY <1>1, <1>2, RunDue
<1> QED BY <1>4, <1>5 DEF Inv

LEMMA ReportInv == ASSUME Inv, NEW s \in Slots, Report(s) PROVE Inv'
<1>1. GoesOn(s, Idle) /\ run[s].at \notin Watching
      /\ UNCHANGED <<hour, fired, age, published, row, registry, lag, missed, behind, crossed,
                     firsts, found>>
  BY DEF Report, clock, Watching, Copied
<1>2. settled' = (settled \/ (run[s].alert /\ isSuspicious(row.flags)))
  BY DEF Report, Settles
<1>3. /\ settled' \in BOOLEAN /\ (settled => settled')
      /\ run[s].alert => settled' \/ ~isSuspicious(row.flags)
  <2>1. settled \in BOOLEAN /\ run[s].alert \in BOOLEAN /\ isSuspicious(row.flags) \in BOOLEAN
    BY LocalsFacts DEF Inv, StateInv, TypeOK, isSuspicious, atLeast
  <2> QED BY <1>2, <2>1
<1>4. Keeps(s, Idle)
  BY <1>1, <1>3 DEF Keeps, Idle, Copied, Inv, StateInv, CopyInv, Watching
<1>5. fired' \in BOOLEAN /\ missed' \in BOOLEAN
  BY <1>1 DEF Inv, StateInv, TypeOK
<1>6. StateInv'
  BY <1>1, <1>3, <1>4, <1>5, IdleLocals, RunStep DEF Inv
<1>7. DueInv'
  BY <1>1, IdleLocals, RunDue
<1> QED BY <1>6, <1>7 DEF Inv

LEMMA RegistryInv == ASSUME Inv, RegistryMoves PROVE Inv'
<1> USE DEF Inv, StateInv
<1>1. registry' \in {"live", "gone"}
      /\ UNCHANGED <<hour, fired, age, published, row, run, lag, missed, settled,
                     behind, crossed, firsts, found>>
  BY DEF RegistryMoves, clock, history
<1>2. TypeOK'
  BY <1>1 DEF TypeOK
<1>3. RunsInv' /\ FirstInv' /\ DivergenceInv' /\ CopyInv' /\ AgeInv' /\ (lag <= Duration)'
  BY <1>1 DEF RunsInv, FirstInv, DivergenceInv, CopyInv, AgeInv, NotClearedEarly
<1>4. ToldInv'
  BY <1>1 DEF ToldInv, Told
<1>5. DueInv'
  BY <1>1 DEF DueInv, SinceNight
<1> QED BY <1>2, <1>3, <1>4, <1>5

LEMMA StutterInv == ASSUME Inv, UNCHANGED vars PROVE Inv'
<1> USE DEF Inv, StateInv
<1>1. UNCHANGED <<hour, fired, age, published, row, registry, run, lag, missed,
                     settled, behind, crossed, firsts, found>>
  BY DEF vars, clock, history
<1>2. TypeOK'
  BY <1>1 DEF TypeOK
<1>3. RunsInv' /\ FirstInv' /\ DivergenceInv' /\ CopyInv' /\ AgeInv' /\ (lag <= Duration)'
  BY <1>1 DEF RunsInv, FirstInv, DivergenceInv, CopyInv, AgeInv, NotClearedEarly
<1>4. ToldInv'
  BY <1>1 DEF ToldInv, Told
<1>5. DueInv'
  BY <1>1 DEF DueInv, SinceNight
<1> QED BY <1>2, <1>3, <1>4, <1>5

-----------------------------------------------------------------------------
(* Time passes.                                                              *)

\* What becomes of a run's locals in a tick.
Aged(r) == IF r.at = "idle" THEN Idle ELSE
             [r EXCEPT !.since = @ + 1, !.heard = IF r.at \in Heard THEN @ + 1 ELSE 0]

LEMMA AgedLocals ==
  ASSUME NEW r \in Locals, r.heard <= r.since, r.at = "idle" => r = Idle,
         r.at # "idle" => r.since < Duration
  PROVE  /\ Aged(r) \in Locals /\ Aged(r).at = r.at /\ Aged(r).flags = r.flags
         /\ Aged(r).alert = r.alert /\ Aged(r).heard <= Aged(r).since
         /\ r.at # "idle" => Aged(r).since = r.since + 1
         /\ Aged(r).at = "idle" => Aged(r) = Idle
<1>1. CASE r.at = "idle"
  BY <1>1, IdleLocals DEF Aged
<1>2. CASE r.at # "idle"
  <2> DEFINE heard == IF r.at \in Heard THEN r.heard + 1 ELSE 0
             since == r.since + 1
  <2>1. r.since \in 0 .. Duration /\ r.heard \in 0 .. Duration
    BY DEF Locals
  <2>2. since \in 0 .. Duration /\ heard \in 0 .. Duration /\ heard <= since
    BY <1>2, <2>1, NightlyAssumption
  <2>3. Aged(r) = [r EXCEPT !.since = since, !.heard = heard]
    BY <1>2 DEF Aged
  <2> HIDE DEF heard, since
  <2>4. /\ Aged(r) \in Locals /\ Aged(r).at = r.at /\ Aged(r).flags = r.flags
        /\ Aged(r).alert = r.alert /\ Aged(r).heard = heard /\ Aged(r).since = since
    BY <2>2, <2>3 DEF Locals
  <2> QED BY <1>2, <2>2, <2>4 DEF since
<1> QED BY <1>1, <1>2

LEMMA TickInv == ASSUME Inv, Tick PROVE Inv'
<1> USE NightlyAssumption DEF Inv, StateInv
<1>1. /\ hour = 0 => fired
      /\ hour' = (hour + 1) % Day /\ fired' = FALSE
      /\ age' = Lower(age + 1, Oldest) /\ published' = Lower(published + 1, Threshold)
      /\ run' = [s \in Slots |-> Aged(run[s])]
      /\ UNCHANGED <<row, registry, lag, missed, settled, behind,
                     crossed, firsts, found>>
  BY DEF Tick, TickTo, Aged, history
<1>2. \A s \in Slots :
        /\ run'[s] \in Locals /\ run'[s].at = run[s].at /\ run'[s].flags = run[s].flags
        /\ run'[s].alert = run[s].alert /\ run'[s].heard <= run'[s].since
        /\ run[s].at # "idle" => run'[s].since = run[s].since + 1
        /\ run'[s].at = "idle" => run'[s] = Idle
  <2> SUFFICES ASSUME NEW s \in Slots
               PROVE  /\ run'[s] \in Locals /\ run'[s].at = run[s].at
                      /\ run'[s].flags = run[s].flags
                      /\ run'[s].alert = run[s].alert /\ run'[s].heard <= run'[s].since
                      /\ run[s].at # "idle" => run'[s].since = run[s].since + 1
                      /\ run'[s].at = "idle" => run'[s] = Idle
    OBVIOUS
  <2>1. run[s] \in Locals /\ run[s].heard <= run[s].since
        /\ (run[s].at = "idle" => run[s] = Idle)
        /\ (run[s].at # "idle" => run[s].since < Duration)
    BY DEF Tick, TickTo, TypeOK, RunsInv
  <2>2. run'[s] = Aged(run[s])
    BY <1>1
  <2> QED BY <2>1, <2>2, AgedLocals
<1>3. run' \in [Slots -> Locals]
  BY <1>1, <1>2
<1>4. hour' = IF hour + 1 = Day THEN 0 ELSE hour + 1
  <2>1. hour \in 0 .. Day - 1
    BY DEF TypeOK
  <2>2. CASE hour + 1 = Day
    BY <1>1, <2>1, <2>2
  <2>3. CASE hour + 1 < Day
    BY <1>1, <2>1, <2>3
  <2> QED BY <2>1, <2>2, <2>3
<1>5. age' \in 0 .. Oldest /\ age' <= age + 1
  BY <1>1 DEF TypeOK, Lower, Oldest
<1>6. published' \in -1 .. Threshold /\ published <= published'
  BY <1>1 DEF TypeOK, Lower
<1>7. TypeOK'
  <2>1. hour' \in 0 .. Day - 1
    BY <1>4 DEF TypeOK
  <2>2. fired' \in BOOLEAN
    BY <1>1
  <2> QED BY <1>1, <1>3, <1>5, <1>6, <2>1, <2>2 DEF TypeOK, Oldest
<1>8. RunsInv' /\ (lag <= Duration)'
  BY <1>1, <1>2 DEF RunsInv
<1>9. FirstInv' /\ DivergenceInv' /\ CopyInv'
  BY <1>1, <1>2 DEF FirstInv, DivergenceInv, CopyInv, TypeOK
<1>10. Told <=> Told'
  BY <1>1, <1>2 DEF Told
<1>11. ToldInv'
  BY <1>1, <1>2, <1>10 DEF ToldInv
<1>12. published' < Threshold => published < Threshold
  BY <1>6 DEF TypeOK
<1>13. AgeInv'
  BY <1>1, <1>2, <1>12 DEF AgeInv, NotClearedEarly
<1>14. SinceNight' = SinceNight + 1
  BY <1>1, <1>4 DEF SinceNight, TypeOK
<1>15. DueInv'
  <2> SUFFICES ASSUME row.recorded, ~missed, age' > Day + SinceNight'
               PROVE  \E t \in Slots : /\ run'[t].at \in Watching
                                       /\ run'[t].since >= age' - 2 * Day
    BY <1>1 DEF DueInv
  <2>1. SinceNight \in Nat /\ age \in Nat
    BY DEF SinceNight, TypeOK, Oldest
  <2>2. age > Day + SinceNight
    BY <1>5, <1>14, <2>1
  <2>3. PICK t \in Slots : run[t].at \in Watching /\ run[t].since >= age - 2 * Day
    BY <2>2 DEF DueInv
  <2>4. run[t].since \in Nat /\ run[t].at # "idle"
    BY <2>3, LocalsFacts DEF Watching, Copied
  <2> QED BY <1>2, <1>5, <2>1, <2>3, <2>4
<1> QED BY <1>7, <1>8, <1>9, <1>11, <1>13, <1>15

-----------------------------------------------------------------------------
(* The theorems.                                                             *)

THEOREM RunsInvariance == Spec => []Inv
<1>1. Inv /\ [Next]_vars => Inv'
  <2> SUFFICES ASSUME Inv, [Next]_vars PROVE Inv'
    OBVIOUS
  <2>1. CASE Tick
    BY <2>1, TickInv
  <2>2. CASE Night
    BY <2>2, NightInv
  <2>3. CASE Scan
    BY <2>3, ScanInv
  <2>4. CASE RegistryMoves
    BY <2>4, RegistryInv
  <2>5. ASSUME NEW s \in Slots, Works(s) PROVE Inv'
    BY <2>5, ServedInv, GoneInv, AbsenceInv, ComparedInv, FailsInv, ReadInv, AnsweredInv,
       RefreshInv, RecheckFailsInv, ReportInv DEF Works
  <2>6. ASSUME NEW s \in Slots, Kill(s) PROVE Inv'
    BY <2>6, KillInv
  <2>7. CASE UNCHANGED vars
    BY <2>7, StutterInv
  <2> QED BY <2>1, <2>2, <2>3, <2>4, <2>5, <2>6, <2>7 DEF Next
<1> QED BY <1>1, InitInv, PTL DEF Spec

\* The clock, the row and the locals of every run stay in their ranges; so the counters of
\* the model are never at a bound that cuts a behaviour off.
THEOREM RunsTyping == Spec => []TypeOK
<1>1. Inv => TypeOK
  BY DEF Inv, StateInv
<1> QED BY <1>1, RunsInvariance, PTL

\* recordPackage, recordMetaCheck and getRecheckDue: what a run skips rests on an answer at
\* most one run older than the stored time, and without a failed check the stored time is at
\* most two days and a run old.  A row that is older than a day when the timer fires is taken
\* up by the run it starts; that run is at its end, or the row is younger.
THEOREM RecentVerdicts == Spec => []VerdictIsRecent
<1>1. ASSUME Inv PROVE VerdictIsRecent
  <2> USE NightlyAssumption, <1>1 DEF Inv, StateInv
  <2>1. SinceNight \in 0 .. Day /\ age \in Nat
    BY DEF SinceNight, TypeOK, Oldest
  <2>2. ASSUME row.recorded, ~missed PROVE age <= 2 * Day + Duration
    <3>1. CASE age > Day + SinceNight
      <4>1. PICK t \in Slots : run[t].since >= age - 2 * Day
        BY <2>2, <3>1 DEF DueInv
      <4>2. run[t].since \in 0 .. Duration
        BY LocalsFacts
      <4> QED BY <2>1, <4>1, <4>2
    <3>2. CASE age <= Day + SinceNight
      BY <2>1, <3>2
    <3> QED BY <2>1, <3>1, <3>2
  <2> QED BY <2>2 DEF VerdictIsRecent
<1> QED BY <1>1, RunsInvariance, PTL

\* runScan's alerts: since a row turned SUSPICIOUS the pin was reported, or is on the list of a
\* run that will report it, or that run has died; or the row was turned by a run whose copy of
\* it another run had overwritten, which is the one way to be silent (scanner.js:124).
THEOREM NoRowIsSilent == Spec => []NoSilentRow
<1>1. Inv => NoSilentRow
  BY DEF Inv, StateInv, ToldInv, Told, NoSilentRow
<1> QED BY <1>1, RunsInvariance, PTL

\* recheckOne: a re-check that works on an old copy of the row keeps the divergence the only
\* comparison has found.
THEOREM DivergenceKept == Spec => []DivergenceSurvives
<1>1. Inv => DivergenceSurvives
  BY DEF Inv, StateInv, DivergenceInv, DivergenceSurvives
<1> QED BY <1>1, RunsInvariance, PTL

\* evaluatePublishAge: whichever run wrote last, a version the registry serves has no row
\* without the age finding before it is as old as the threshold.
THEOREM NothingClearedEarly == Spec => []NotClearedEarly
<1>1. Inv => NotClearedEarly
  BY DEF Inv, StateInv, AgeInv
<1> QED BY <1>1, RunsInvariance, PTL

=============================================================================
