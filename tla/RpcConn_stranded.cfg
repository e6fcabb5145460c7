CONSTANTS
  Sock = {s1}
  AccSock = {}
  Rpc = {r1, r2}
  NoRpc = NoRpc
  Cmds <- MCConnectOnly
  Failures <- MCNoFailures
SPECIFICATION Spec
PROPERTY RpcEventuallyAnswered
CHECK_DEADLOCK FALSE
