SPECIFICATION FairSpec
CONSTANTS
  Ids = {t1, t2, t3}
  MaxQueue = 2
INVARIANTS
  ExplicitHeld
  NothingLeftBehind
  RequestsInPlace
PROPERTIES
  KeepsPromise
  CallsReturn
