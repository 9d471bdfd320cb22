SPECIFICATION SystemSpec
CONSTANTS
  Names = {alice, bob}
  Pins = {p1, p2}
  MAX_USERS = 2
  BaseToken = 2
  MinToken = 2
  Tokens = {0, 2, 3, 4}
  IntMax = 4
  MaxLogins = 10
  alice = alice
  bob = bob
  p1 = p1
  p2 = p2
INVARIANTS OnlyIssuedHonoured
CHECK_DEADLOCK FALSE
