---------------------------- MODULE MCCargoConfig ----------------------------
(* Instances of CargoConfig for TLC.                                         *)
EXTENDS CargoConfig

SomeLines == {Header("registry", FALSE), Header("registry", TRUE), Header("net", FALSE),
              Assign(BARE_KEY, "1 day"), Dotted("registry", BARE_KEY, "1 day"),
              Dotted("registry", "default", "mine"), Assign("registry", "{ ... }"),
              Marker("old"), Marker(None), Empty}

SomeDurations == {"7 days", "2 weeks"}
SomeLists == {None, "serde"}
=============================================================================
