SPECIFICATION Spec
CONSTANTS
  Names = {alice, bob}
  Tokens = {999, 1001}
  MinToken = 1000
  MaxAmount = 1
  KeyColumn = "user"
  HasRandomness = FALSE
  MaxCalls = 1
  MaxFaults = 0
  alice = alice
  bob = bob
INVARIANTS StubsNotNeeded
