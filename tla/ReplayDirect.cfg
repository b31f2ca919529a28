SPECIFICATION Spec
CONSTANTS
  MaxPkts = 3
  Kinds <- MCDirect
  NSlow = 0
  Connect <- MCOneConnect
  Results <- MCResults
  AssertOnError = FALSE
  IgnoreDup = FALSE
INVARIANT LastQueryHasNext
