SPECIFICATION MCSpec
CONSTANTS
  Dimensions = {"item", "store"}
  LastMoment = 3
  Units <- MCUnits
  BeginOf <- MCBeginOf
  Candidates <- MCCandidates
  MaxMovements = 3
  Anchors = {1, 2}
  Cuts <- MCCuts
  Requests <- DayRequests
  Null = null
  Entries <- MCEntries
  MaxRecords = 3
  Levels = 2
  Lists <- MCLists
  Conditions <- MCConditions
  Positional = positional
INVARIANTS
  RunningBalancesOfUsedDimensions
