---------------------------- MODULE VerdictLedger ----------------------------
(***************************************************************************)
(* What a user of cargo-witness is promised about the stored verdicts,     *)
(* whatever the runs, requests and crashes behind them:                    *)
(*   - a pin gets a verdict from one comparison and is never compared      *)
(*     again;                                                              *)
(*   - from then on only what the registry says about it changes;          *)
(*   - a verdict is SUSPICIOUS exactly when a finding makes it so;         *)
(*   - every pin that turns SUSPICIOUS is owed a report, and nothing but a *)
(*     crash takes that debt away without paying it.                       *)
(* Scanner implements this specification.                                  *)
(***************************************************************************)
EXTENDS Findings

CONSTANTS Pkgs,
          Possible   \* for every pin, the divergences a comparison may find

VARIABLES verdict, unseen, lost

ledger == <<verdict, unseen, lost>>

NoVerdict == [status |-> "unrecorded", flags |-> {}]

\* What the registry may say: the version or the crate is gone, or it is there
\* and may be yanked or young.
Absences == {Finding("VERSION_REMOVED"), Finding("CRATE_REMOVED")}
Notices == {Finding("YANKED"), Finding("PUBLISH_AGE")}
RegistryViews == {{}} \union {{f} : f \in Absences} \union SUBSET Notices

RegistryFlags == {"VERSION_REMOVED", "CRATE_REMOVED", "YANKED", "PUBLISH_AGE"}
Divergence(p) == {f \in verdict[p].flags : f.flag \notin RegistryFlags}

Becomes(p, status, flags) ==
  /\ status = "SUSPICIOUS" <=> isSuspicious(flags)
  /\ verdict' = [verdict EXCEPT ![p] = [status |-> status, flags |-> flags]]
  /\ unseen' = IF status = "SUSPICIOUS" /\ verdict[p].status # "SUSPICIOUS"
               THEN unseen \union {p} ELSE unseen
  /\ UNCHANGED lost

Compare(p) ==
  /\ verdict[p].status = "unrecorded"
  /\ \E status \in {"CLEAN", "NO_GIT_TAG", "SUSPICIOUS"},
        found \in SUBSET Possible[p], view \in RegistryViews :
       Becomes(p, status, found \union view)

\* Only a verdict that was SUSPICIOUS may turn CLEAN.
Refresh(p) ==
  /\ verdict[p].status # "unrecorded"
  /\ \E status \in {"SUSPICIOUS", verdict[p].status} \union
                   (IF verdict[p].status = "SUSPICIOUS" THEN {"CLEAN"} ELSE {}),
        view \in RegistryViews :
       \E flags \in {Divergence(p) \union view} : Becomes(p, status, flags)

Announce == unseen' = {} /\ UNCHANGED <<verdict, lost>>

Lose == lost' = lost \union unseen /\ unseen' = {} /\ UNCHANGED verdict

Init == verdict = [p \in Pkgs |-> NoVerdict] /\ unseen = {} /\ lost = {}

Next == (\E p \in Pkgs : Compare(p) \/ Refresh(p)) \/ Announce \/ Lose

Spec == Init /\ [][Next]_ledger
=============================================================================
