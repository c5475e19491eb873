CONSTANTS
  Subjects = {"console", "roles", "decisions", "rows"}
  Users <- MCUsers
  NoUser = NoUser
  Roles <- MCRoles
  RolesOf <- MCRolesOf
  Place <- MCPlace
  Entries <- MCEntries
  ByDefault = {"full"}
  Reads <- MCReads
  Joining = {"audit", "stock"}
  Elements = {"anna", "boris"}
  Objects <- MCObjects
  Entered = {"User", "Templates"}
  Restricted <- MCRestricted
  GivenRoles <- MCGivenRoles
  Templates <- MCTemplates
  Sessions <- MCSessions
  TableRows <- MCTableRows
  Joined <- MCJoined
  TemplateDepth = 3
  Batches <- MCBatches
  Answers <- MCAnswers
  Texts <- MCTexts
  Spelled <- MCSpelled
  MaxBatches = 2
  RowStatements <- MCRowStatements
  RowAnswers <- MCRowAnswers
  Movements <- MCMovements
SPECIFICATION MCSpec
INVARIANTS
  RightsKnown
  AccessApplied
  DecisionsAgree
  AccessAddsUp
  RequestIsTheReads
  AllRowsOrNone
PROPERTIES
  TypedStays
