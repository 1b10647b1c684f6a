SPECIFICATION Spec
CONSTANTS
  NoRow = NoRow
  Null = Null
  ResourceIds = {t1, n1}
  TaskIds = {t1}
  Generations = {0, 1, 2}
  Hashes = {h1}
  Paths = {p1, p2}
  CommandIds = {c1, c2}
  TraceIds = {tr1, tr2}
  CommandStates = {"running"}
  RunIds = {r1, r2}
  AttemptNumbers = {1, 2}
  Executors = {x1, x2}
  Epochs = {1, 2, 3}
  ReceiptIds = {}
  StepIds = {}
  IdempotencyKeys = {}
  ReceiptStatuses = {}
  ApprovalIds = {a1}
  EventIds = {e1, e2}
  Sequences = {0, 1, 2}
  Destinations = {d1}
SYMMETRY Symmetry
CONSTRAINT Focus
INVARIANTS
  EvidenceCoherent
  LeaseAuthority
  OneCurrent
PROPERTIES
  DecisionFinal
  TakeoverOnlyWhenIdle
CHECK_DEADLOCK FALSE
