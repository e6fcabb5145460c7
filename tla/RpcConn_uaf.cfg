CONSTANTS
  Sock = {s1}
  AccSock = {a1}
  Rpc = {r1}
  NoRpc = NoRpc
  Cmds <- MCAllCmds
  Failures <- MCRstOnly
SPECIFICATION Spec
INVARIANT NoUseAfterFree
CHECK_DEADLOCK FALSE
