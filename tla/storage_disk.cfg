SPECIFICATION Spec
CONSTANTS
  NPages = 5
  Statements <- LedgerStatements
  MaxStatements = 2
  MaxFaults = 0
INVARIANT CommittedOnDisk
