SPECIFICATION Spec
CONSTANTS
  MaxPkts = 4
  Kinds <- MCLarge
  NSlow = 0
  Connect <- MCSure
  Results <- MCAllResults
  AssertOnError = TRUE
  IgnoreDup = TRUE
INVARIANT GatheredWhole
PROPERTY FailStop
PROPERTY ReplayEnds
