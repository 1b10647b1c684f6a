SPECIFICATION Spec
CONSTANTS
  NoManifest = NoManifest
  Artifacts = {a1}
  Notes = {n1}
  Releases = {v1}
  UserContents = {u1}
  Obstacles = {}
  MaxTouched = 1
  MaxTrouble = 3
CONSTRAINT
  Scope
SYMMETRY
  Symmetry
PROPERTIES
  NotesNeverOverwritten
