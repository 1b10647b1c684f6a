SPECIFICATION Spec
CONSTANTS
  Configs <- SomeConfigs
  Layouts <- TwoLayouts
  Locations <- Places
  Notes <- SomeNotes
  Latest = 2
  None = None
  Names <- SomeNames
  Fold <- Folded
  NoPort = NoPort
CONSTRAINT Scope
INVARIANTS
  ApprovalTellsEdits
  TaskStaysInScope
PROPERTIES
  StoresAppearWhereAsked
