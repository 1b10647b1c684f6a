SPECIFICATION FairSpec
CONSTANTS
  Nobody = Nobody
  Unapplied = Unapplied
  Processes = {p1, p2}
  Latest = 2
  Editions = {e1, e2}
INVARIANTS
  TypeOK
  SchemaMatchesRecord
  PrefixApplied
  OneEdition
PROPERTIES
  ReturnsAtTarget
  OperationsEnd
