SPECIFICATION Spec
CONSTANTS
  Keys <- MCKeys
  Kinds <- MCKinds
  Texts <- MCTexts
  TextLen <- MCTextLen
  Patterns <- MCPatterns
  Mentions <- MCMentions
  Inputs <- MCInputs
  MaxTime = 1
INVARIANT TypeOK
INVARIANT RefExact
INVARIANT NoUseAfterFree
INVARIANT SlowestKept
INVARIANT PairedWithOwnEof
INVARIANT KeptUntilEnd
INVARIANT NoLeakAtExit
INVARIANT StatsMatchHistory
INVARIANT KeyOfFirstMatch
INVARIANT PercentileReported
