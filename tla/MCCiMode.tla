------------------------------ MODULE MCCiMode ------------------------------
(* Instances of CiMode for TLC.                                              *)
EXTENDS CiMode

Line(text) == <<"rest", text>>
Package(name, version, source, rest) == [name |-> name, version |-> version, source |-> source, rest |-> rest]

\* A package of a registry has its checksum.
Published(name, version, source) ==
  Package(name, version, source, <<Line("checksum of " \o name \o version \o source)>>)

\* A workspace crate that depends on the crates given, and one without dependencies.
app(crates) ==
  Package("app", "1", "workspace",
          IF crates = <<>> THEN <<>>
          ELSE <<Line("dependencies")>> \o [k \in DOMAIN crates |-> Line(crates[k].name \o crates[k].version)])

b2 == Published("b", "2", "crates.io")
b3 == Published("b", "3", "crates.io")
c2 == Published("c", "2", "alternate")
c2too == Published("c", "2", "crates.io")
cli == Package("cli", "1", "workspace", <<>>)
d1 == Published("d", "1", "crates.io")
e1 == Package("e", "1", "git", <<>>)
f1 == Package("f", "1", "unused", <<>>)

\* Lockfiles are sorted, their packages and then unused patches.
Sorted == <<b2, b3, c2, c2too, d1, e1>>
Picked(picks) == [k \in 1 .. Cardinality(picks) |->
                    Sorted[CHOOSE n \in picks : Cardinality({m \in picks : m <= n}) = k]]
Lock(crates) == <<app(crates)>> \o crates
SomeLocks == {Lock(Picked(picks)) : picks \in SUBSET {1, 2, 3, 5} \union {{3, 4}, {6}, {3, 6}}}
             \union {Lock(<<cli>>), Lock(<<b2, cli>>), Lock(<<cli, d1>>)}
             \union {Lock(<<>>) \o <<f1>>, Lock(<<c2>>) \o <<f1>>}

\* A crate replaced by another one of the same version, before one that is upgraded; and one
\* more crate, from a sparse+ registry.
b1 == Published("b", "1", "crates.io")
d3 == Published("d", "3", "crates.io")
s4 == Published("s", "4", "sparse")
RenameLocks == {Lock(<<b1, b2, d1>>), Lock(<<b1, c2too, d3, s4>>)}

SomeCrates == {<<"b", "2">>, <<"b", "3">>, <<"d", "1">>, <<"d", "3">>}
CleanCrates == {<<"b", "2">>, <<"b", "3">>}
UntaggedCrates == {<<"d", "1">>}
=============================================================================
