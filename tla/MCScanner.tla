------------------------------ MODULE MCScanner ------------------------------
(* Instances of Scanner for TLC.                                             *)
EXTENDS Scanner, TLC

\* A crate with something for every lane, and one whose repository has no usable tag.
tampered == [name |-> "tampered", version |-> "1.0.0"]
untagged == [name |-> "untagged", version |-> "0.2.0"]

File(flag, file) == [flag |-> flag, file |-> file]
Pin(source, absent, injected, artifact, suspects, differs) ==
  [source |-> source, absent |-> absent, injected |-> injected,
   artifact |-> artifact, suspects |-> suspects, differs |-> differs]

AllTruth ==
  (tampered :> Pin("located", {File("FILE_NOT_IN_GIT", "src/gen.rs")}, {File("DEP_INJECTED", "evil")}, {},
                   {File("SOURCE_MODIFIED", "src/lib.rs"), File("BUILD_RS_MODIFIED", "build.rs")},
                   {File("SOURCE_MODIFIED", "src/lib.rs")}))
  @@ (untagged :> Pin("missing", {}, {}, {Finding("TRUSTED_PUBLISH")}, {}, {}))

SomeFiles == {"", "evil", "src/lib.rs", "build.rs", "src/gen.rs"}

TruthOf(pins) == [p \in pins |-> AllTruth[p]]
TwoPins == {tampered, untagged}
OnePin == {untagged}
OneTampered == {tampered}
TwoPinsTruth == TruthOf(TwoPins)
OnePinTruth == TruthOf(OnePin)
OneTamperedTruth == TruthOf(OneTampered)

\* The allowlist accepts a generated file, whatever the version.
GeneratedFileRule == {[name |-> "tampered", version |-> "*", flag |-> "FILE_NOT_IN_GIT",
                       file |-> "src/gen.rs"]}
NoRules == {}
NoPins == {}

GatedRuns == {[gate |-> TRUE, recheck |-> TRUE]}
PlainRuns == {[gate |-> FALSE, recheck |-> TRUE]}
CheckedRuns == [gate : BOOLEAN, recheck : {TRUE}]
MixedRuns == {[gate |-> TRUE, recheck |-> TRUE], [gate |-> FALSE, recheck |-> FALSE]}

Old == {"old"}
YoungOrOld == {"young", "old"}
AnyAge == {"young", "old", "unknown"}
Live == {"live"}
Removable == {"live", "crateGone"}
AnyState == {"live", "yanked", "versionGone", "crateGone"}
=============================================================================
