CONSTANTS
  Sock = {s1}
  AccSock = {}
  Rpc = {r1}
  NoRpc = NoRpc
  Cmds <- MCNoCmds
  Failures <- MCNoFailures
SPECIFICATION Spec
PROPERTY ClosedSocketsRemoved
CHECK_DEADLOCK FALSE
