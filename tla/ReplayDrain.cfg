SPECIFICATION Spec
CONSTANTS
  MaxPkts = 2
  Kinds <- MCQueries
  NSlow = 0
  Connect <- MCOneConnect
  Results <- MCResults
  AssertOnError = FALSE
  IgnoreDup = FALSE
INVARIANT EndDrainsQueue
