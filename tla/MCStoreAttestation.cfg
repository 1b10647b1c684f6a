SPECIFICATION Spec
CONSTANTS
  NoRow = NoRow
  Null = Null
  ResourceIds = {t1}
  TaskIds = {t1}
  Generations = {1}
  Hashes = {h1}
  Paths = {p1}
  CommandIds = {c1}
  TraceIds = {tr1}
  CommandStates = {"awaiting_approval"}
  RunIds = {r1}
  AttemptNumbers = {1}
  Executors = {}
  Epochs = {}
  ReceiptIds = {}
  StepIds = {}
  IdempotencyKeys = {}
  ReceiptStatuses = {}
  ApprovalIds = {a1}
  EventIds = {}
  Sequences = {}
  Destinations = {}
SYMMETRY Symmetry
INVARIANTS
  DecisionsAttested
CHECK_DEADLOCK FALSE
