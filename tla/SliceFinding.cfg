SPECIFICATION MCSpec
CONSTANTS
  Subjects = {"sources"}
  Names <- MCNames
  Fold <- MCFold
  Statements <- MCStatements
  MaxStatements = 2
  MaxDefinitions = 3
  Snapshots = {s1, s2}
  NoSnapshot = none
  MaxSource = 2
  MaxCaptures = 1
  JoinTexts <- MCJoinTexts
  JoinContents <- MCJoinContents
  JoinStates = {"Value", "Disabled", "Forbidden"}
  TotalsClauses <- MCTotalsClauses
  TotalsContents <- MCTotalsContents
  TotalsCatalogs <- MCTotalsCatalogs
  Separations <- MCSeparations
  SourceSessions <- MCSourceSessions
  SourceTables <- MCSourceTables
  SourceBases <- MCSourceBases
  DerefFields <- MCDerefFields
  DerefKinds <- MCDerefKinds
  DerefStatements <- MCDerefStatements
  DerefContents <- MCDerefContents
  Identifiers <- MCIdentifiers
  Comparisons <- MCComparisons
CHECK_DEADLOCK FALSE
INVARIANTS
  SliceIsActive
