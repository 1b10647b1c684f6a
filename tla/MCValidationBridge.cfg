SPECIFICATION Spec
CONSTANTS
  Directories = {1, 2}
  Paths = {1, 2, 3}
  DirectoryOf <- TwoDirectories
  FoldedName <- CaseVariants
  MaxFiles = 2
  StartLimitBurst = 2
PROPERTIES
  SafeScanMissesNothing
  NoFalseAlarm
  ProblemStopsBridge
  RepairLetsItRun
