------------------------------ MODULE Findings ------------------------------
(***************************************************************************)
(* Findings, their severities and the allowlist: src/src/severity.js,      *)
(* src/src/allowlist.js and gateExit of src/bin/cargo-witness.js.  All of  *)
(* it is pure.                                                             *)
(*                                                                         *)
(* A finding is a flag and the file it is about ("" where the code passes  *)
(* null).  The code keeps a package's findings in an array; nothing that   *)
(* is modelled depends on their order, so here they are a set.             *)
(***************************************************************************)
EXTENDS Integers

HighFlags == {"CHECKSUM_MISMATCH", "BUILD_RS_INJECTED", "DEP_INJECTED",
              "BUILD_RS_MODIFIED", "BINARY_NOT_IN_GIT", "VERSION_REMOVED",
              "CRATE_REMOVED"}
MediumFlags == {"SOURCE_MODIFIED", "FILE_NOT_IN_GIT", "PUBLISH_AGE"}
InfoFlags == {"VCS_MISMATCH", "TRUSTED_PUBLISH", "YANKED"}
FlagNames == HighFlags \union MediumFlags \union InfoFlags

Severities == {"info", "medium", "high"}
RANK == [info |-> 0, medium |-> 1, high |-> 2]

\* pushFlag(flags, flag, null): a finding about the package, not about a file.
Finding(flag) == [flag |-> flag, file |-> ""]

\* An unknown flag counts as medium.
severityOf(f) == CASE f.flag \in HighFlags -> "high"
                   [] f.flag \in InfoFlags -> "info"
                   [] OTHER -> "medium"

\* The worst severity among the findings; "none" stands for null.
maxSeverity(flags) ==
  IF \E f \in flags : severityOf(f) = "high" THEN "high"
  ELSE IF \E f \in flags : severityOf(f) = "medium" THEN "medium"
  ELSE IF flags # {} THEN "info" ELSE "none"

atLeast(sev, threshold) == sev # "none" /\ RANK[sev] >= RANK[threshold]

isSuspicious(flags) == atLeast(maxSeverity(flags), "medium")

-----------------------------------------------------------------------------
(* The allowlist: rules match a package by name, and anything where they say *)
(* nothing ("*").                                                            *)

Wild(pattern, value) == pattern \in {"*", value}

matches(rule, p, f) == /\ rule.name = p.name
                       /\ Wild(rule.version, p.version)
                       /\ Wild(rule.flag, f.flag)
                       /\ Wild(rule.file, f.file)

\* The findings the allowlist keeps.
applyAllowlist(rules, p, flags) ==
  {f \in flags : \A rule \in rules : ~matches(rule, p, f)}

-----------------------------------------------------------------------------
\* The exit code of --scan: 1 when the worst reported finding reaches --fail-on.
gateExit(suspicious, failOn) ==
  IF \E s \in suspicious : atLeast(maxSeverity(s.flags), failOn) THEN 1 ELSE 0
=============================================================================
