SPECIFICATION FairSpec
CONSTANTS
  Subjects = {"metadata"}
  Names <- MCNames
  Objects <- MCObjects
  Owner <- MCOwner
  Selected <- MCSelected
  BatchSize = 2
  Depth = 2
  ResourceBytes = 2
  BatchBytes = 2
  TotalBytes = 5
  InFlightBytes = 3
  RetainCount = 4
  RetainBytes = 5
  Bases <- MCBases
  Stores <- MCStores
  Guids <- MCGuids
  Opaque <- MCOpaque
  Trim <- MCTrim
  Requests <- MCRequests
  CountLimit = 3
  ByteLimit = 4
  ResourceLimit = 2
  TotalLimit = 3
  Changes = 1
  Content <- MCContent
  Infobases <- MCInfobases
  Roles <- MCRoles
  RightsName <- MCRightsName
  Updates = 1
  Unread = Unread
  Unusable = Unusable
CHECK_DEADLOCK FALSE
INVARIANTS
  MirrorsCountAsDeclared
