SPECIFICATION Spec
CONSTANTS
  MysqlIp = "s"
  MysqlPort = 3306
  Msgs <- MCMsgs
  Inputs <- MCInputs
INVARIANT TypeOK
INVARIANT DetectsLink
INVARIANT FragmentsReachable
INVARIANT NoMixing
INVARIANT NotAppendedTwice
INVARIANT QueriesRecorded
INVARIANT RecordsInOrder
INVARIANT ReadBackWhole
CHECK_DEADLOCK FALSE
