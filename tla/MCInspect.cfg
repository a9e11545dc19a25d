SPECIFICATION Spec
CONSTANTS
  RustNames = {"build.rs", "lib.rs"}
  BinaryNames = {"x.so"}
  maxLines = 4
  name = "crate"
  Artifacts <- SomeArtifacts
  Tomls <- SomeTomls
  Trees <- SomeTrees
  Manifests <- SomeManifests
  Dirs <- SomeDirs
INVARIANTS TypeOK HonestNeverAccused DifferencesAreShown
CHECK_DEADLOCK FALSE
