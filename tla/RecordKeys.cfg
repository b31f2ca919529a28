SPECIFICATION Spec
CONSTANTS
  MysqlIp = "s"
  MysqlPort = 3306
  Msgs <- MCMsgs
  Inputs <- MCInputs
INVARIANT OneStreamEach
CHECK_DEADLOCK FALSE
