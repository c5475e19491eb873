SPECIFICATION Spec
CONSTANTS
  CancelPoints <- Awaits
  MaxDepth = 3
INVARIANTS
  ExplicitIsConfirmed
  DeadStaysSilent
