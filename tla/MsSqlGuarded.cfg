SPECIFICATION FairSpec
CONSTANTS
  CancelPoints <- GuardedAwaits
  MaxDepth = 3
INVARIANTS
  IdleTransactionMatches
  ReadsAreWhole
PROPERTIES
  KeepsPromise
  CallsReturn
