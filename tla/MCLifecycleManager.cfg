SPECIFICATION Spec
CONSTANTS
  NoManifest = NoManifest
  Artifacts = {a1, a2}
  Notes = {n1}
  Releases = {v1, v2}
  UserContents = {u1}
  Obstacles = {"directory", "symlink"}
  MaxTouched = 1
  MaxTrouble = 3
CONSTRAINT
  Scope
SYMMETRY
  Symmetry
INVARIANTS
  TypeOK
PROPERTIES
  RecordsWhatIsThere
  ForgetsOnlyWhenGone
  CustodySpec
  CallsRunOut
