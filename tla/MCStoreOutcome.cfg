SPECIFICATION Spec
CONSTANTS
  NoRow = NoRow
  Null = Null
  ResourceIds = {t1}
  TaskIds = {t1}
  Generations = {1, 2}
  Hashes = {h1, h2}
  Paths = {p1}
  CommandIds = {c1, c2}
  TraceIds = {tr1, tr2}
  CommandStates = {"queued", "verifying", "completed", "failed"}
  RunIds = {r1, r2}
  AttemptNumbers = {1}
  Executors = {}
  Epochs = {}
  ReceiptIds = {rc1, rc2}
  StepIds = {s1, s2}
  IdempotencyKeys = {k1, k2}
  ReceiptStatuses = {"completed", "deduplicated", "failed"}
  ApprovalIds = {}
  EventIds = {}
  Sequences = {}
  Destinations = {}
SYMMETRY Symmetry
INVARIANTS
  TypeOK
  OutcomeBacked
PROPERTIES
  OutcomeFinal
  LedgerSpec
  ExecutedGenerationFrozen
CHECK_DEADLOCK FALSE
