CONSTANTS
  Objects = {"a", "b"}
  MaxRefreshes = 1
  Scripts <- MCScripts
SPECIFICATION Spec
INVARIANTS NothingStale TunnelIsClean
PROPERTIES DeathEndsConsole InterruptReturns RuntimeRespected
CHECK_DEADLOCK FALSE
