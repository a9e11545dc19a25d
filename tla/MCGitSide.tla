----------------------------- MODULE MCGitSide -----------------------------
(* Instances of GitSide for TLC.                                             *)
EXTENDS GitSide, TLC

Pin(name, version, repository, attested, vcs) ==
  [name |-> name, version |-> version, repository |-> repository,
   attested |-> attested, vcs |-> vcs]

\* A monorepo with a crate published from an attested commit, and two siblings that
\* have only tags and one version; and a crate on a host nobody supports.
released == Pin("core", "2.0.0", "mono", "c1", "c2")
tagged == Pin("cli", "1.0.0", "mono", "", "")
sibling == Pin("gui", "1.0.0", "mono", "", "")
elsewhere == Pin("odd", "1.0.0", "nowhere", "", "")

SomePins == {released, tagged, sibling, elsewhere}
Tagged == {tagged}

Everything == {"core.rs", "util.rs", "extra.rs", "cli.rs", "gui.rs", "odd.rs"}

CrateFiles == (released :> {"core.rs", "util.rs", "extra.rs"})
              @@ (tagged :> {"cli.rs", "util.rs"})
              @@ (sibling :> {"gui.rs", "util.rs"})
              @@ (elsewhere :> {"odd.rs"})
CrateOf(pins) == [p \in pins |-> CrateFiles[p]]
SomeCrates == CrateOf(SomePins)
TaggedCrate == CrateOf(Tagged)

Tree(pages, hidden) == [pages |-> pages, hidden |-> hidden]

\* Three pages, one more than the limit; a part hidden; two pages.
SomeHost ==
  "mono" :> ((Commit("c1") :> Tree(<<{"core.rs"}, {"util.rs"}, {"extra.rs"}>>, {}))
             @@ (Commit("c2") :> Tree(<<{"core.rs", "util.rs"}, {}>>, {"extra.rs"}))
             @@ (Tag("v{ver}", "", "2.0.0") :> Tree(<<{"core.rs", "util.rs"}, {}>>, {}))
             @@ (Tag("{name}-v{ver}", "cli", "1.0.0") :> Tree(<<{"util.rs"}, {"cli.rs"}>>, {})))

AllFaults == {"refused", "limited", "broken"}
Refusals == {"refused"}
=============================================================================
