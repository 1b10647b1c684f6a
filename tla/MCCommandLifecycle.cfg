SPECIFICATION LifecycleSpec
CONSTANTS
  NoRow = NoRow
  Null = Null
  ResourceIds = {t1}
  TaskIds = {t1}
  Generations = {1, 2}
  Hashes = {h1}
  Paths = {p1}
  CommandIds = {c1, c2}
  TraceIds = {tr1, tr2}
  CommandStates = {"queued", "validated", "claimed", "running", "awaiting_approval", "retry_scheduled", "verifying", "completed", "blocked", "failed", "cancelled", "dead_letter", "superseded"}
  RunIds = {r1}
  AttemptNumbers = {1}
  Executors = {x1}
  Epochs = {1}
  ReceiptIds = {rc1}
  StepIds = {s1}
  IdempotencyKeys = {k1}
  ReceiptStatuses = {"completed", "deduplicated", "blocked", "failed", "cancelled", "dead_letter", "superseded"}
  ApprovalIds = {}
  EventIds = {}
  Sequences = {}
  Destinations = {}
SYMMETRY Symmetry
INVARIANTS
  CompletedTheWholeWay
  DecisionReachable
CHECK_DEADLOCK FALSE
