CONSTANTS
  Objects = {"a"}
  MaxRefreshes = 0
  Scripts <- MCScripts
SPECIFICATION Spec
INVARIANT InterruptHeard
CHECK_DEADLOCK FALSE
