SPECIFICATION Spec
CONSTANTS
  MaxPkts = 2
  Kinds <- MCQueries
  NSlow = 1
  Connect <- MCOneConnect
  Results <- MCResults
  AssertOnError = FALSE
  IgnoreDup = FALSE
INVARIANT FreedIsUnreferenced
