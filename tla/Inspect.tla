------------------------------ MODULE Inspect -------------------------------
(***************************************************************************)
(* inspectDiff of src/src/inspect.js, `--diff <name> <version>`: one       *)
(* version, its tree, the two lanes of Differ and the content of the files *)
(* that differ, each behind a request of its own that may fail.            *)
(***************************************************************************)
EXTENDS Differ, LineDiff

CONSTANTS name,       \* the crate
          Artifacts,  \* what crates.io may serve,
          Tomls,      \* with which manifest,
          Trees,      \* what the git host may serve,
          Manifests,  \* with which manifests,
          Dirs,       \* and where the crate may be in it
          maxLines    \* of a text that is diffed

AreTexts(files) == \A path \in DOMAIN files : files[path].text \in Seq(Lines)

ASSUME InspectAssumption ==
  /\ Dirs \subseteq Seq(STRING)
  /\ \A files \in Artifacts : IsFiniteSet(DOMAIN files) /\ AreTexts(files)
  /\ \A git \in Trees : git.truncated \in BOOLEAN /\ AreTexts(git.files)

VARIABLES
  at,        \* the step that comes next
  artifact, toml,   \* crate.crateFiles and the artifact's Cargo.toml
  known,     \* {crate.vcsInfo.pathInVcs}, or {} without vcsInfo
  tree,      \* tree.gitFiles
  home,      \* history: {the directory the crate has in the tree}, or {}
  prefix,    \* result.gitPrefix
  own, root, \* the manifests at the prefix and at the root of the tree
  flags,     \* [...result.flags, ...manifest.flags]
  suspects,  \* result.contentSuspects that are still to be read
  shown,     \* the modified files, and the lines that were printed for them
  unread,    \* history: could one of them not be read?
  status     \* what is returned

inputs == <<artifact, toml, known>>
source == <<tree, home>>
outcome == <<flags, suspects, shown, unread, status>>
vars == <<at, inputs, source, prefix, own, root, outcome>>

NoManifest == [parses |-> FALSE, package |-> "", deps |-> {}, workspace |-> <<>>]
NoTree == [files |-> <<>>, truncated |-> FALSE]

Init ==
  /\ at = "meta"
  /\ artifact = <<>> /\ toml = NoManifest /\ known = {} /\ tree = NoTree /\ home = {}
  /\ prefix = <<>> /\ own = NoManifest /\ root = NoManifest
  /\ flags = {} /\ suspects = {} /\ shown = {} /\ unread = FALSE /\ status = "none"

\* Any of the requests may throw; inspectDiff then throws too, unless it says otherwise.
Throws ==
  /\ at \in {"meta", "artifact", "tree"} /\ at' = "thrown"
  /\ UNCHANGED <<inputs, source, prefix, own, root, outcome>>

\* The version is gone: nothing to diff, and that is the finding.
Absent ==
  /\ at = "meta" /\ at' = "done"
  /\ \E flag \in {"VERSION_REMOVED", "CRATE_REMOVED"} : flags' = {Finding(flag)}
  /\ status' = "SUSPICIOUS"
  /\ UNCHANGED <<inputs, source, prefix, own, root, suspects, shown, unread>>

Served ==
  /\ at = "meta" /\ at' = "artifact"
  /\ UNCHANGED <<inputs, source, prefix, own, root, outcome>>

\* readVcsInfo: a file without a path_in_vcs, as older versions of cargo wrote it, is read
\* as if it named the root.
VcsDirs == Dirs \union {<<>>}

\* fetchCrate.
Unpacked ==
  /\ at = "artifact" /\ at' = "tree"
  /\ artifact' \in Artifacts /\ toml' \in Tomls /\ known' \in {{}} \union {{d} : d \in VcsDirs}
  /\ UNCHANGED <<source, prefix, own, root, outcome>>

NoTreeFound ==
  /\ at = "tree" /\ at' = "done" /\ status' = "NO_GIT_TAG"
  /\ UNCHANGED <<inputs, source, prefix, own, root, flags, suspects, shown, unread>>

\* fetchGitTree answers and diff is made.  Not located: the manifests are not compared.
Compared ==
  /\ at = "tree"
  /\ tree' \in Trees /\ home' \in {{}} \union {{d} : d \in Dirs}
  /\ prefix' \in IF known # {} THEN known ELSE resolveGitPrefix(artifact, tree')
  /\ IF Located(artifact, tree', prefix')
     THEN /\ at' = "manifest"
          /\ flags' = Absences(artifact, tree', prefix')
          /\ suspects' = contentSuspects(artifact, tree', prefix')
          /\ status' = IF isSuspicious(flags') THEN "SUSPICIOUS" ELSE "CLEAN"
     ELSE /\ at' = "done" /\ status' = "NO_GIT_TAG"
          /\ UNCHANGED <<flags, suspects>>
  /\ UNCHANGED <<inputs, own, root, shown, unread>>

\* diffManifests; a request that fails, and any exception, skips the lane.  Only the
\* manifest in the crate's own directory has its name; the root's is read on demand.
ManifestsRead ==
  /\ at = "manifest" /\ at' = "contents"
  /\ own' \in {m \in Manifests : (m.package = name) = (home = {prefix})}
  /\ IF NeedsRoot(prefix, own') THEN root' \in Manifests ELSE UNCHANGED root
  /\ flags' = flags \union diffManifests(name, toml, tree, prefix, own', root')
  /\ UNCHANGED <<inputs, source, prefix, suspects, shown, unread, status>>

\* printUnifiedDiff: the lines of both texts, or a note that there are too many.
Printed(remote, local) ==
  IF Larger(Len(remote), Len(local)) > maxLines THEN <<>> ELSE diffOps(remote, local)

\* The file's content on the git side is read.  Normalised texts are compared, but the
\* texts themselves are printed, their line ends alone made the same.
ContentRead(rel) ==
  /\ at = "contents" /\ rel \in suspects
  /\ suspects' = suspects \ {rel}
  /\ LET remote == tree.files[gitKey(prefix, rel)]
         local == artifact[rel]
     IN  shown' = IF normalizeSource(remote) = normalizeSource(local) THEN shown
                  ELSE shown \union {[finding |-> ModifiedOf(rel),
                                      lines |-> Printed(remote.text, local.text)]}
  /\ UNCHANGED <<at, inputs, source, prefix, own, root, flags, unread, status>>

\* It is not there, or the request fails: nothing is printed for it.
ContentUnread(rel) ==
  /\ at = "contents" /\ rel \in suspects
  /\ suspects' = suspects \ {rel} /\ unread' = TRUE
  /\ UNCHANGED <<at, inputs, source, prefix, own, root, flags, shown, status>>

\* "No divergence" is printed when there was nothing to print from the start.
Ends ==
  /\ at = "contents" /\ suspects = {} /\ at' = "done"
  /\ status' = IF isSuspicious(flags) THEN "SUSPICIOUS" ELSE status
  /\ UNCHANGED <<inputs, source, prefix, own, root, flags, suspects, shown, unread>>

Next == \/ Throws \/ Absent \/ Served \/ Unpacked \/ NoTreeFound \/ Compared \/ ManifestsRead
        \/ Ends
        \/ \E rel \in suspects : ContentRead(rel)
        \/ \E rel \in suspects : ContentUnread(rel)

Spec == Init /\ [][Next]_vars

-----------------------------------------------------------------------------
(* Properties.                                                               *)

TypeOK ==
  /\ at \in {"meta", "artifact", "tree", "manifest", "contents", "done", "thrown"}
  /\ toml \in Tomls \/ toml = NoManifest
  /\ tree.truncated \in BOOLEAN
  /\ known = {} \/ \E d \in VcsDirs : known = {d}
  /\ home = {} \/ \E d \in Dirs : home = {d}
  /\ \A m \in {own, root} : m \in Manifests \/ m = NoManifest
  /\ \A f \in flags \union {s.finding : s \in shown} : f.flag \in FlagNames
  /\ suspects \subseteq DOMAIN artifact /\ unread \in BOOLEAN
  /\ status \in {"none", "NO_GIT_TAG", "CLEAN", "SUSPICIOUS"}

\* What cargo takes the dependencies of the manifest in the crate's directory for:
\* an inherited one is the workspace's, and the workspace is its own or the root's.
Workspace == IF own.workspace # <<>> THEN own.workspace ELSE root.workspace
DeclaredDeps == names(own) \union {Workspace[k] : k \in inherited(own)}

\* The artifact was packaged from the tree in the crate's directory; other files there
\* and elsewhere are as they like.
Honest ==
  \E d \in home :
    /\ ~tree.truncated => /\ gitKey(d, <<"Cargo.toml">>) \in DOMAIN tree.files
                          /\ comparableFiles(artifact) \subseteq InGit(artifact, tree, d)
    /\ \A rel \in InGit(artifact, tree, d) \ AUTO_GENERATED :
         normalizeSource(tree.files[gitKey(d, rel)]) = normalizeSource(artifact[rel])
    /\ prefix = d /\ at \in {"contents", "done"}
         => inherited(own) \subseteq DOMAIN Workspace /\ names(toml) \subseteq DeclaredDeps

\* manifest.js: "Every unknown suppresses the flag rather than guessing".  An artifact that
\* was packaged from its tree gets no finding for a file or a dependency, whatever directory
\* was guessed, as long as the one .cargo_vcs_info.json gives, if it gives one, is the
\* crate's own; and no file of it is shown as modified where the directory is its own.
\* The two conditions are the code's two false accusations, against README's "no false
\* positives": the root that readVcsInfo makes of a missing path_in_vcs is not scored
\* against other directories, and a guessed directory may be another crate's, with other
\* contents under the same names.
HonestNeverAccused ==
  Honest /\ known \subseteq home => flags = {} /\ (home = {prefix} => shown = {})

\* README: "shows exactly how a crate's published artifact differs from its source
\* (unified diff of modified build.rs / source)".  When the crate was located in a whole
\* tree and every file could be read, each Rust file or binary that the tree has not has a
\* finding; and each Rust file that it has with another content, more than white space at
\* the end, is shown with lines that lead from the one text to the other on a shortest way.
\* A binary that the tree has under its name is compared with nothing, so one that was
\* replaced passes with "every published file matches the source".
DifferencesAreShown ==
  at = "done" /\ tree # NoTree /\ Located(artifact, tree, prefix) /\ ~tree.truncated /\ ~unread
    => \A rel \in DOMAIN artifact :
         LET there == gitKey(prefix, rel) \in DOMAIN tree.files
             remote == tree.files[gitKey(prefix, rel)]
             local == artifact[rel]
         IN  /\ ~there /\ (IsRust(rel) \/ IsBinary(rel)) => \E f \in flags : f.file = rel
             /\ there /\ IsRust(rel) /\ normalizeSource(remote) # normalizeSource(local) =>
                  \E s \in shown :
                    /\ s.finding.file = rel
                    /\ s.lines # <<>> => IsDiff(s.lines, remote.text, local.text)
                    /\ s.lines = <<>> => Larger(Len(remote.text), Len(local.text)) > maxLines
=============================================================================
