------------------------------- MODULE Differ -------------------------------
(***************************************************************************)
(* src/src/differ.js and src/src/manifest.js: what a published artifact    *)
(* has that its git tree has not.  All of it is pure.                      *)
(*                                                                         *)
(* A path is the sequence of its names.  A tree is its files, a function   *)
(* from paths to contents, and whether the host truncated it; an artifact  *)
(* is a function from the paths below `{name}-{version}/`.  A blob sha is  *)
(* the content itself: the lines of a text and its line ends.  A line is   *)
(* what is visible of it, from its first character on, and the white space *)
(* behind that; a text that ends with a line end has an empty last line.   *)
(***************************************************************************)
EXTENDS Findings, Integers, Sequences, FiniteSets

CONSTANTS RustNames,    \* file names that end with .rs, in whatever case
          BinaryNames   \* and with one of BINARY_EXTS

GeneratedNames == {"Cargo.toml", ".cargo_vcs_info.json", ".cargo-ok", "Cargo.toml.orig",
                   "Cargo.lock"}
AUTO_GENERATED == {<<file>> : file \in GeneratedNames}

ASSUME DifferAssumption ==
  /\ "build.rs" \in RustNames /\ RustNames \intersect BinaryNames = {}
  /\ GeneratedNames \intersect (RustNames \union BinaryNames) = {}

IsRust(rel) == rel[Len(rel)] \in RustNames
IsBinary(rel) == rel[Len(rel)] \in BinaryNames

Lines == [visible : STRING, blanks : STRING]

\* The white space at the end of the text goes, and what kind of line ends it has; the
\* blanks behind any other line stay.
VisibleLines(text) == {k \in DOMAIN text : text[k].visible # ""}
normalizeSource(content) ==
  LET seen == VisibleLines(content.text)
  IN  [k \in {n \in DOMAIN content.text : \E l \in seen : n <= l} |->
         IF \E l \in seen : k < l THEN content.text[k]
         ELSE [content.text[k] EXCEPT !.blanks = ""]]

-----------------------------------------------------------------------------
(* Where in the tree the crate is.                                           *)

gitKey(prefix, rel) == prefix \o rel
InGit(artifact, git, prefix) == {rel \in DOMAIN artifact : gitKey(prefix, rel) \in DOMAIN git.files}
comparableFiles(artifact) == DOMAIN artifact \ AUTO_GENERATED
Hits(artifact, git, prefix) ==
  Cardinality(InGit(artifact, git, prefix) \intersect comparableFiles(artifact))

\* The root, and every directory with a Cargo.toml.
Candidates(git) ==
  {<<>>} \union {SubSeq(path, 1, Len(path) - 1) :
                   path \in {p \in DOMAIN git.files : p[Len(p)] = "Cargo.toml"}}

\* The shortest of the directories with the most hits; between two of one length the
\* order of the tree decides.  Directory names are of one length here.
resolveGitPrefix(artifact, git) ==
  IF comparableFiles(artifact) = {} THEN {<<>>}
  ELSE {p \in Candidates(git) : \A q \in Candidates(git) :
          \/ Hits(artifact, git, q) < Hits(artifact, git, p)
          \/ Hits(artifact, git, q) = Hits(artifact, git, p) /\ Len(p) <= Len(q)}

\* confidence >= 0.5
Located(artifact, git, prefix) ==
  comparableFiles(artifact) # {}
  /\ 2 * Hits(artifact, git, prefix) >= Cardinality(comparableFiles(artifact))

-----------------------------------------------------------------------------
(* diff, when the crate is located.                                          *)

AbsenceOf(rel) ==
  [flag |-> IF rel = <<"build.rs">> THEN "BUILD_RS_INJECTED"
            ELSE IF IsBinary(rel) THEN "BINARY_NOT_IN_GIT" ELSE "FILE_NOT_IN_GIT",
   file |-> rel]

\* A truncated tree cannot prove a file absent.
Absences(artifact, git, prefix) ==
  IF git.truncated THEN {} ELSE
  {AbsenceOf(rel) : rel \in {r \in DOMAIN artifact \ InGit(artifact, git, prefix) :
                               IsRust(r) \/ IsBinary(r)}}

\* Mutant: the repository's path is kept.
SuspectPaths(artifact, git, prefix) ==
  {gitKey(prefix, rel) : rel \in
     {r \in InGit(artifact, git, prefix) :
        IsRust(r) /\ git.files[gitKey(prefix, r)] # artifact[r]}}

contentSuspects(artifact, git, prefix) ==
  {rel \in InGit(artifact, git, prefix) :
     IsRust(rel) /\ git.files[gitKey(prefix, rel)] # artifact[rel]}

ModifiedOf(rel) ==
  [flag |-> IF rel = <<"build.rs">> THEN "BUILD_RS_MODIFIED" ELSE "SOURCE_MODIFIED",
   file |-> rel]

-----------------------------------------------------------------------------
(* The manifest lane.  A manifest is its package name, its dependency entries *)
(* of all tables, and what [workspace.dependencies] names; parses is FALSE    *)
(* for one that cannot be parsed or read.                                     *)

\* parseManifestDeps
names(manifest) ==
  {IF d.form = "package" THEN d.package ELSE d.key :
     d \in {e \in manifest.deps : e.form # "workspace"}}
inherited(manifest) == {d.key : d \in {e \in manifest.deps : e.form = "workspace"}}

\* Is the root's manifest asked for?
NeedsRoot(prefix, own) == prefix # <<>> /\ ~(inherited(own) \subseteq DOMAIN own.workspace)

rootDeps(prefix, own, root) ==
  IF ~NeedsRoot(prefix, own) THEN own.workspace
  ELSE [k \in DOMAIN own.workspace \union DOMAIN root.workspace |->
          IF k \in DOMAIN own.workspace THEN own.workspace[k] ELSE root.workspace[k]]

gitNames(prefix, own, root) ==
  names(own) \union {rootDeps(prefix, own, root)[k] : k \in inherited(own)}

\* Mutant: any crate's manifest will do.
AnyCrates(name, own) == FALSE

\* A manifest without a [package] table has the package name "".
OtherCrates(name, own) == own.package # name

\* The dependency names on the git side cannot be told: own is the manifest at the
\* prefix, root the one at the root of the tree.
Skipped(name, toml, git, prefix, own, root) ==
  \/ git.truncated \/ ~toml.parses
  \/ /\ names(toml) # {}
     /\ \/ gitKey(prefix, <<"Cargo.toml">>) \notin DOMAIN git.files
        \/ ~own.parses \/ OtherCrates(name, own)
        \/ NeedsRoot(prefix, own) /\ ~root.parses
        \/ ~(inherited(own) \subseteq DOMAIN rootDeps(prefix, own, root))

diffManifests(name, toml, git, prefix, own, root) ==
  IF Skipped(name, toml, git, prefix, own, root) THEN {}
  ELSE {[flag |-> "DEP_INJECTED", file |-> <<d>>] :
          d \in {n \in names(toml) : n \notin gitNames(prefix, own, root)}}
=============================================================================
