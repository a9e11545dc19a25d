----------------------------- MODULE MCInspect ------------------------------
(* Instances of Inspect for TLC: a crate at the root or in a directory of a  *)
(* tree, beside another crate with some of the same files.                   *)
EXTENDS Inspect

Build == <<"build.rs">>
Lib == <<"src", "lib.rs">>
Binary == <<"x.so">>

Line(visible) == [visible |-> visible, blanks |-> ""]
Spaced(visible) == [visible |-> visible, blanks |-> " "]
Text(visible) == [k \in DOMAIN visible |-> Line(visible[k])]

\* A text, the same but for line ends and white space at its end, and other ones: with
\* blanks behind a line within it, of as many lines as are diffed, and of one more.
Same == [text |-> Text(<<"p", "q", "">>), ends |-> "lf"]
Alike == {[text |-> t, ends |-> "crlf"] :
            t \in {Same.text, Text(<<"p", "q">>), <<Line("p"), Spaced("q"), Line(""), Spaced("")>>}}
Other == [text |-> Text(<<"q", "p", "p", "q">>), ends |-> "lf"]
Others == {[text |-> t, ends |-> "crlf"] :
             t \in {Text(<<"">>), Text(<<"q", "">>), <<Spaced("p"), Line("q"), Line("")>>,
                    Text(<<"r", "p", "r", "q">>), Text(<<"q", "p", "q", "", "">>)}}

\* A content is named by how it differs from the artifact's.
SomeArtifacts == {[rel \in S \union {<<"Cargo.toml">>} |-> Same] : S \in SUBSET {Build, Lib, Binary}}

\* The files of one directory: a content for some of the paths.
FilesOf(S, contents) == UNION {[T -> contents] : T \in SUBSET S}

SomeDirs == {<<>>, <<"a">>}
In(d, f) == [path \in {d \o rel : rel \in DOMAIN f} |-> f[SubSeq(path, Len(d) + 1, Len(path))]]
Both(f, g) == [path \in DOMAIN f \union DOMAIN g |-> IF path \in DOMAIN f THEN f[path] ELSE g[path]]

Toml(present) == IF present THEN [p \in {<<"Cargo.toml">>} |-> Other] ELSE <<>>

SomeTrees ==
  {[files |-> Both(Both(f, Toml(t[1])), In(<<"a">>, Both(g, Toml(t[2])))), truncated |-> cut] :
     f \in FilesOf({Lib}, {Same, Other}),
     g \in FilesOf({Build, Lib}, {Same, Other}) \union FilesOf({Lib}, Alike \union Others)
             \union FilesOf({Lib, Binary}, {Same, Other}),
     t \in {<<TRUE, TRUE>>, <<TRUE, FALSE>>, <<FALSE, TRUE>>}, cut \in BOOLEAN}

Dep(key) == [key |-> key, form |-> "plain", package |-> ""]
Renamed(key, package) == [key |-> key, form |-> "package", package |-> package]
Inherited(key) == [key |-> key, form |-> "workspace", package |-> ""]

Manifest(package, deps, workspace) ==
  [parses |-> TRUE, package |-> package, deps |-> deps, workspace |-> workspace]

SomeTomls == {NoManifest, Manifest("crate", {Renamed("k", "d")}, <<>>)}

SomeManifests ==
  {NoManifest, [NoManifest EXCEPT !.package = "crate"]} \union
  {Manifest(package, deps, workspace) :
     package \in {"crate", "other"}, deps \in {{}, {Dep("d")}, {Dep("e"), Inherited("k")}},
     workspace \in {<<>>, [k |-> "d"], [k |-> "e"]}}
=============================================================================
