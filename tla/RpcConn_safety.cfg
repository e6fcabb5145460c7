CONSTANTS
  Sock = {s1, s2}
  AccSock = {a1}
  Rpc = {r1, r2}
  NoRpc = NoRpc
  Cmds <- MCAllCmds
  Failures <- MCFailuresNoClose
SPECIFICATION Spec
INVARIANT TypeOK
INVARIANT ReplyAtMostOnce
INVARIANT CallbacksOnlyForLiveConn
CHECK_DEADLOCK FALSE
