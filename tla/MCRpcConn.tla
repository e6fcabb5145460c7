----------------------------- MODULE MCRpcConn ------------------------------
(* Model values and sets for RpcConn.                                      *)
EXTENDS RpcConn

\* Every failure the stack and the kernel can produce, but a failing
\* tcp_close (lwIP 2.x retries the FIN from tcp_tmr instead of failing).
MCFailuresNoClose == FailureKinds \ {"close"}
MCAllCmds == {"BIND", "LISTEN", "CONNECT", "GETSOCKNAME", "GETPEERNAME"}
MCConnectOnly == {"CONNECT"}
MCNoCmds == {}
\* A clean network and stack, a peer that may reset, a failing tcp_close.
MCNoFailures == {}
MCRstOnly == {"rst"}
MCCloseOnly == {"close"}
=============================================================================
