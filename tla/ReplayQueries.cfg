SPECIFICATION Spec
CONSTANTS
  MaxPkts = 4
  Kinds <- MCQueries
  NSlow = 1
  Connect <- MCConnect
  Results <- MCAllResults
  AssertOnError = FALSE
  IgnoreDup = FALSE
INVARIANT TypeOK
INVARIANT RefCountAccounts
INVARIANT NoUseAfterFree
INVARIANT LastQueryHasNext
INVARIANT SlowQueriesAlive
INVARIANT ConsumedAreUnlinked
INVARIANT NoQuerySkipped
INVARIANT OnlyEvictedLeak
PROPERTY ReplaysInOrder
PROPERTY ReplayEnds
INVARIANT NoLostWakeup
