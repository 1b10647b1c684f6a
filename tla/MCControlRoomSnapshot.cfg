SPECIFICATION Spec
CONSTANTS
  ReadOnlyPaths = {1}
  ReadWritePaths = {2}
  RunIds = {1, 2, 3}
  t1 = t1
  t2 = t2
  TaskIds = {t1, t2}
  CommandIds = {1, 2, 3}
  TaskOf <- TasksOf
  RunStates = {s1, s2}
  Runtimes = {x1, x2}
  Limits = {1, 2}
  NoNote = NoNote
  Unreadable = Unreadable
  NoRow = NoRow
  NoSnapshot = NoSnapshot
CONSTRAINT
  Scope
ACTION_CONSTRAINT
  MovesWhenRead
SYMMETRY
  Symmetry
INVARIANTS
  TypeOK
  DurableShown
  NothingHidden
  LiveStateIsLive
  TasksAgreeWithQueue
