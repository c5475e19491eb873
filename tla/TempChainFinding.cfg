SPECIFICATION MCSpec
CONSTANTS
  Subjects = {"packages"}
  Names <- MCNames
  Fold <- MCFold
  Statements <- MCStatements
  MaxStatements = 2
  MaxDefinitions = 3
  Snapshots = {s1, s2}
  NoSnapshot = none
  MaxSource = 2
  MaxCaptures = 2
  JoinTexts <- MCJoinTexts
  JoinContents <- MCJoinContents
  JoinStates = {"Value", "Disabled", "Forbidden"}
  TotalsClauses <- MCTotalsClauses
  TotalsContents <- MCTotalsContents
  TotalsCatalogs <- MCTotalsCatalogs
  Separations <- MCSeparations
  SourceSessions <- MCSourceSessions
  SourceTables <- MCSourceTables
  SourceBases <- MCSourceBases
  DerefFields <- MCDerefFields
  DerefKinds <- MCDerefKinds
  DerefStatements <- MCDerefStatements
  DerefContents <- MCDerefContents
  Identifiers <- MCIdentifiers
  Comparisons <- MCComparisons
SYMMETRY Symmetry
CHECK_DEADLOCK FALSE
INVARIANTS
  ExactClosure
