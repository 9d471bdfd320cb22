SPECIFICATION FairSpec
CONSTANTS
  NPages = 5
  Statements <- LedgerStatements
  MaxStatements = 4
  MaxFaults = 2
INVARIANTS TypeOK CacheServes EffectsOnlyFromCommit NothingForgotten
PROPERTIES RefusedForGood Returns
