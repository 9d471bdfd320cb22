SPECIFICATION Spec
CONSTANTS
  Names = {alice, bob}
  Tokens = {999, 1000}
  MinToken = 1000
  MaxAmount = 1
  KeyColumn = "user"
  HasRandomness = TRUE
  MaxCalls = 2
  MaxFaults = 2
  alice = alice
  bob = bob
INVARIANTS TypeOK BooksBalance AuditComplete DriftBounded AuditGap
PROPERTY ImplementsBank
PROPERTY RefusedMovesNothing
