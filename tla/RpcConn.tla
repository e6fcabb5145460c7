------------------------------- MODULE RpcConn -------------------------------
(***************************************************************************)
(* The control plane of NetconEthernetTap with the lwIP backend            *)
(* (src/src/SDK_EthernetTap.cpp): the Connection table, the RPC decoder    *)
(* and its jobmap, the RPC handlers (socket, bind, listen, connect,        *)
(* getsockname, getpeername), the lwIP callbacks that answer or end a connection        *)
(* (nc_connected, nc_err, nc_accept, nc_recved with a NULL pbuf),          *)
(* closeConnection, and the pruning pass of lwIP_loop.                     *)
(*                                                                         *)
(* A Connection is named by its data channel c (conn->sock); sockets made  *)
(* by RPC_SOCKET are in Sock, those made by nc_accept in AccSock.  Each    *)
(* RPC r (its token, and its own RPC channel) goes through                 *)
(*   "sent"   the client wrote the frame on its RPC channel,               *)
(*   "job"    phyOnUnixData stored it in jobmap and wrote the 'z' ack,     *)
(*   "canary" the client wrote the canary on the data channel,             *)
(*   "done"   the canary was read and the job dispatched and erased,       *)
(*   "orphan" the data channel was closed by the service, so the canary    *)
(*            write failed; the job stays in jobmap.                       *)
(* pcb[c] is the lwIP pcb the Connection holds (or held, once deleted);    *)
(* cbs[c] says whether lwIP callbacks with a Larg for c are set on it.     *)
(***************************************************************************)
EXTENDS Naturals, FiniteSets

CONSTANTS
  Sock,       \* application sockets created with RPC_SOCKET
  AccSock,    \* data channels of connections created by nc_accept
  Rpc,        \* RPC tokens (each with its own RPC channel)
  Cmds,       \* RPC commands the client issues after socket()
  Failures,   \* which failures of the stack and the OS the run allows
  NoRpc       \* rpcSock of a Connection with no pending connect

Chan == Sock \cup AccSock

\* Kinds of failure the stack and the kernel can produce.
FailureKinds == {"socket", "no_ips", "bind", "listen", "connect", "close",
                 "accept", "rst"}
ASSUME Failures \subseteq FailureKinds
ASSUME Cmds \subseteq {"BIND", "LISTEN", "CONNECT", "GETSOCKNAME",
                       "GETPEERNAME"}

\* The outcomes of a stack call: success, or also failure when allowed.
Outcomes(kind) == IF kind \in Failures THEN {TRUE, FALSE} ELSE {TRUE}

\* TCP states the adapter tells apart.  "CLOSING" is every state after
\* tcp_close succeeded (FIN_WAIT_x, LAST_ACK, ...), "UDP" a udp_pcb, "FREED"
\* a pcb lwIP has deallocated.
PcbState == {"NONE", "UDP", "CLOSED", "LISTEN", "SYN_SENT", "ESTABLISHED",
             "CLOSE_WAIT", "CLOSING", "FREED"}

VARIABLES
  conn,        \* conn[c]: "none", "live" (in _Connections) or "deleted"
  ctype,       \* conn->type
  pcb,         \* state of conn->TCP_pcb / UDP_pcb
  cbs,         \* lwIP callbacks with a Larg for c are set on pcb[c]
  listening,   \* conn->listening
  rpcSock,     \* conn->rpcSock: the RPC whose reply a callback will send
  bound,       \* conn->local_addr # NULL
  app,         \* application end of the data channel: "none", "open", "closed"
  call,        \* call[r]: the socket and command of RPC r, once issued
  phase,       \* phase of RPC r (see above)
  replies,     \* return values written on the RPC channel of r
  dataRetvals, \* return values written into the data channel of c
  uaf,         \* the service read a freed pcb or a deleted Connection
  errno        \* the tap thread's errno: "EAGAIN" or another value

connVars == <<conn, ctype, pcb, cbs, listening, rpcSock, bound>>
rpcVars == <<app, call, phase, replies, dataRetvals>>
vars == <<connVars, rpcVars, uaf, errno>>

NoCall == [sock |-> NoRpc, cmd |-> "NONE"]

\* The application is blocked in an RPC on socket s.
Busy(s) == \E r \in Rpc : call[r].sock = s /\ phase[r] # "orphan"
                          /\ replies[r] = 0

\* sendReturnValue(rpcSock, ...): one return value on the RPC channel of r.
Reply(r) == replies' = [replies EXCEPT ![r] = @ + 1]

-----------------------------------------------------------------------------
(* closeConnection(sock), which the callers below run under _tcpconns_m;  *)
(* st is the pcb state it reads.  getConnection finds nothing for a socket *)
(* without a live Connection.  A pcb in SYN_SENT makes it return without   *)
(* closing anything.  A udp_pcb is removed.  A TCP pcb not CLOSED gets     *)
(* tcp_close, whose success clears the callbacks; a CLOSED pcb is left     *)
(* alone.  The Connection is erased and deleted, and the data channel      *)
(* closed, whatever tcp_close returned.  tcp_close of a listening pcb      *)
(* frees it and cannot fail.                                               *)
(***************************************************************************)
TcpCloseNext(s) == IF s = "LISTEN" THEN "FREED" ELSE "CLOSING"

\* Mutant: the callbacks are left registered after a successful tcp_close.
CloseConnectionKeepsCbs(c, st, ok) ==
  LET closes == conn[c] = "live" /\ st # "SYN_SENT"
      next   == CASE ~closes -> st
                  [] st = "UDP" -> "FREED"
                  [] st = "LISTEN" -> TcpCloseNext(st)
                  [] st \in {"ESTABLISHED", "CLOSE_WAIT"} /\ ok -> TcpCloseNext(st)
                  [] OTHER -> st
  IN /\ conn' = [conn EXCEPT ![c] = IF closes THEN "deleted" ELSE @]
     /\ pcb' = [pcb EXCEPT ![c] = next]
     /\ UNCHANGED cbs
     /\ uaf' = (uaf \/ (closes /\ st = "FREED"))

CloseConnection(c, st, ok) ==
  LET closes == conn[c] = "live" /\ st # "SYN_SENT"
      next   == CASE ~closes -> st
                  [] st = "UDP" -> "FREED"
                  [] st = "LISTEN" -> TcpCloseNext(st)
                  [] st \in {"ESTABLISHED", "CLOSE_WAIT"} /\ ok -> TcpCloseNext(st)
                  [] OTHER -> st
  IN /\ conn' = [conn EXCEPT ![c] = IF closes THEN "deleted" ELSE @]
     /\ pcb' = [pcb EXCEPT ![c] = next]
     /\ cbs' = [cbs EXCEPT ![c] = @ /\ next = st]
     /\ uaf' = (uaf \/ (closes /\ st = "FREED"))

-----------------------------------------------------------------------------
(* RPC handlers, run from phyOnUnixData when the canary of RPC r arrives  *)
(* on the data channel c of a live Connection.                             *)

\* handleBind.  noIps: _ips is empty; ok: udp_bind / tcp_bind return
\* ERR_OK; use: the error is ERR_USE (otherwise ERR_VAL, not answered).
HandleBind(c, r, noIps, ok, use) ==
  CASE noIps -> Reply(r) /\ UNCHANGED <<bound>>
    [] ctype[c] = "DGRAM" ->
         /\ Reply(r)
         /\ bound' = [bound EXCEPT ![c] = @ \/ ok \/ ~use]
    [] pcb[c] # "CLOSED" -> Reply(r) /\ UNCHANGED bound
    [] ok -> Reply(r) /\ bound' = [bound EXCEPT ![c] = TRUE]
    [] use -> Reply(r) /\ UNCHANGED bound
    [] OTHER -> UNCHANGED <<replies, bound>>

\* handleListen.  ok: tcp_listen_with_backlog returns a listening pcb; it
\* returns NULL for a pcb that is not CLOSED.
HandleListen(c, r, ok) ==
  /\ Reply(r)
  /\ IF ctype[c] = "STREAM" /\ pcb[c] = "CLOSED" /\ ok
     THEN /\ pcb' = [pcb EXCEPT ![c] = "LISTEN"]
          /\ cbs' = [cbs EXCEPT ![c] = TRUE]
          /\ listening' = [listening EXCEPT ![c] = TRUE]
     ELSE UNCHANGED <<pcb, cbs, listening>>

\* Mutant: handleConnect answers at once on success, as pico_handleConnect
\* does, and nc_connected answers again.
HandleConnectEager(c, r, ok) ==
  IF ctype[c] = "DGRAM"
  THEN Reply(r) /\ UNCHANGED <<pcb, cbs, listening, rpcSock>>
  ELSE /\ cbs' = [cbs EXCEPT ![c] = TRUE]
       /\ Reply(r)
       /\ IF pcb[c] = "CLOSED" /\ ok
          THEN /\ pcb' = [pcb EXCEPT ![c] = "SYN_SENT"]
               /\ listening' = [listening EXCEPT ![c] = TRUE]
               /\ rpcSock' = [rpcSock EXCEPT ![c] = r]
          ELSE UNCHANGED <<pcb, listening, rpcSock>>

\* Mutant: conn->rpcSock is given the data channel instead of the RPC one.
HandleConnectRpcSockIsData(c, r, ok) ==
  IF ctype[c] = "DGRAM"
  THEN Reply(r) /\ UNCHANGED <<pcb, cbs, listening, rpcSock>>
  ELSE /\ cbs' = [cbs EXCEPT ![c] = TRUE]
       /\ IF pcb[c] = "CLOSED" /\ ok
          THEN /\ pcb' = [pcb EXCEPT ![c] = "SYN_SENT"]
               /\ listening' = [listening EXCEPT ![c] = TRUE]
               /\ rpcSock' = [rpcSock EXCEPT ![c] = c]
               /\ UNCHANGED replies
          ELSE Reply(r) /\ UNCHANGED <<pcb, listening, rpcSock>>

\* handleConnect.  The callbacks are set before the state check; ok:
\* tcp_connect enqueued the SYN (every error it returns is answered).
\* On success no reply is sent: nc_connected or nc_err will answer.
HandleConnect(c, r, ok) ==
  IF ctype[c] = "DGRAM"
  THEN Reply(r) /\ UNCHANGED <<pcb, cbs, listening, rpcSock>>
  ELSE /\ cbs' = [cbs EXCEPT ![c] = TRUE]
       /\ IF pcb[c] = "CLOSED" /\ ok
          THEN /\ pcb' = [pcb EXCEPT ![c] = "SYN_SENT"]
               /\ listening' = [listening EXCEPT ![c] = TRUE]
               /\ rpcSock' = [rpcSock EXCEPT ![c] = r]
               /\ UNCHANGED replies
          ELSE Reply(r) /\ UNCHANGED <<pcb, listening, rpcSock>>

\* handleGetsockname: write(fd, NULL, ...) for an unbound socket writes
\* nothing (EFAULT), so only a bound socket gets an answer.
HandleGetsockname(c, r) ==
  IF bound[c] THEN Reply(r) ELSE UNCHANGED replies

\* handleGetpeername: the same shape on conn->peer_addr, which the lwIP
\* build only ever sets to NULL (handleSocket, handleSocketProxy): the
\* write of a NULL buffer fails and no answer is ever sent.
HandleGetpeername(c, r) == UNCHANGED replies

-----------------------------------------------------------------------------
(* Initial state: no sockets, no RPCs; errno is whatever the tap thread's *)
(* earlier calls left.                                                      *)

Init ==
  /\ conn = [c \in Chan |-> "none"]
  /\ ctype = [c \in Chan |-> "STREAM"]
  /\ pcb = [c \in Chan |-> "NONE"]
  /\ cbs = [c \in Chan |-> FALSE]
  /\ listening = [c \in Chan |-> FALSE]
  /\ rpcSock = [c \in Chan |-> NoRpc]
  /\ bound = [c \in Chan |-> FALSE]
  /\ app = [c \in Chan |-> "none"]
  /\ call = [r \in Rpc |-> NoCall]
  /\ phase = [r \in Rpc |-> "unused"]
  /\ replies = [r \in Rpc |-> 0]
  /\ dataRetvals = [c \in Chan |-> 0]
  /\ uaf = FALSE
  /\ errno \in {"EAGAIN", "OTHER"}

(***************************************************************************)
(* RPC_SOCKET on channel s: phyOnUnixData sees a BUF_SZ frame with the RPC *)
(* phrase and calls handleSocket, which makes a pcb (udp_new / tcp_new may  *)
(* fail) and a Connection with sock = s; then the 'z' ack.  The client is  *)
(* blocked on s meanwhile, so the exchange is one step.  On failure the    *)
(* client gets ENOMEM and closes the socket.                               *)
(***************************************************************************)
SocketRpc(s, t, ok) ==
  /\ app[s] = "none"
  /\ conn' = [conn EXCEPT ![s] = IF ok THEN "live" ELSE "none"]
  /\ ctype' = [ctype EXCEPT ![s] = t]
  /\ pcb' = [pcb EXCEPT ![s] = IF ~ok THEN "NONE"
                               ELSE IF t = "DGRAM" THEN "UDP" ELSE "CLOSED"]
  /\ app' = [app EXCEPT ![s] = IF ok THEN "open" ELSE "closed"]
  /\ UNCHANGED <<cbs, listening, rpcSock, bound, call, phase, replies,
                 dataRetvals, uaf, errno>>

\* The client library opens a new RPC channel for r and writes the frame.
AppCall(s, r, cmd) ==
  /\ app[s] = "open"
  /\ ~Busy(s)
  /\ call[r] = NoCall
  /\ call' = [call EXCEPT ![r] = [sock |-> s, cmd |-> cmd]]
  /\ phase' = [phase EXCEPT ![r] = "sent"]
  /\ UNCHANGED <<connVars, app, replies, dataRetvals, uaf, errno>>

\* phyOnUnixData, RPC branch: jobmap[token] = (rpcSock, frame); 'z' ack.
ReadRpcFrame(r) ==
  /\ phase[r] = "sent"
  /\ phase' = [phase EXCEPT ![r] = "job"]
  /\ UNCHANGED <<connVars, app, call, replies, dataRetvals, uaf, errno>>

\* Having read the 'z', the client writes the canary on the data channel;
\* the write fails once the service has closed its end of it.
AppCanary(r) ==
  /\ phase[r] = "job"
  /\ phase' = [phase EXCEPT ![r] = IF conn[call[r].sock] = "live"
                                   THEN "canary" ELSE "orphan"]
  /\ UNCHANGED <<connVars, app, call, replies, dataRetvals, uaf, errno>>

(***************************************************************************)
(* phyOnUnixData, a read of the canary alone on the data channel c of a   *)
(* live Connection: the token is found in jobmap, wlen is 0, and the job   *)
(* is dispatched.  Every command but connect is followed by                *)
(* closeConnection(rpcSock), which finds no Connection for the RPC channel *)
(* and does nothing, and jobmap.erase; connect erases the job and keeps    *)
(* the RPC channel for the callback's reply.                               *)
(***************************************************************************)
ReadCanary(r, noIps, ok, use) ==
  LET c == call[r].sock IN
  /\ phase[r] = "canary"
  /\ conn[c] = "live"
  /\ phase' = [phase EXCEPT ![r] = "done"]
  /\ CASE call[r].cmd = "BIND" ->
            /\ HandleBind(c, r, noIps, ok, use)
            /\ UNCHANGED <<conn, ctype, pcb, cbs, listening, rpcSock>>
       [] call[r].cmd = "LISTEN" ->
            /\ HandleListen(c, r, ok)
            /\ UNCHANGED <<conn, ctype, rpcSock, bound>>
       [] call[r].cmd = "CONNECT" ->
            /\ HandleConnect(c, r, ok)
            /\ UNCHANGED <<conn, ctype, bound>>
       [] call[r].cmd = "GETSOCKNAME" ->
            /\ HandleGetsockname(c, r)
            /\ UNCHANGED connVars
       [] call[r].cmd = "GETPEERNAME" ->
            /\ HandleGetpeername(c, r)
            /\ UNCHANGED connVars
  /\ uaf' = (uaf \/ (pcb[c] = "FREED"
                     /\ call[r].cmd \notin {"GETSOCKNAME", "GETPEERNAME"}))
  /\ UNCHANGED <<app, call, dataRetvals, errno>>

\* The application closes its end of a data channel it is not using.
AppClose(c) ==
  /\ app[c] = "open"
  /\ ~Busy(c)
  /\ app' = [app EXCEPT ![c] = "closed"]
  /\ UNCHANGED <<connVars, call, phase, replies, dataRetvals, uaf, errno>>

-----------------------------------------------------------------------------
(* The tap thread's pump and the callbacks lwIP runs from the node thread *)
(* (under _tcpconns_m, taken by each callback).                            *)

(***************************************************************************)
(* The pruning pass of lwIP_loop, on a stream Connection in _Connections: *)
(* a nonblocking read(fd), then a read of TCP_pcb->state, then             *)
(* closeConnection when (n < 0 && errno != EAGAIN) || (n == 0 && errno ==  *)
(* EAGAIN).  With the application end held and nothing to read, n < 0 and *)
(* errno becomes EAGAIN: nothing is closed.  At EOF (the application       *)
(* closed its end) n == 0 and errno is whatever an earlier failing call    *)
(* left.  Data read here is TxPath's business.                             *)
(***************************************************************************)
Prune(c, ok) ==
  /\ conn[c] = "live"
  /\ ctype[c] = "STREAM"
  /\ IF app[c] = "closed"
     THEN /\ IF errno = "EAGAIN"
             THEN CloseConnection(c, pcb[c], ok)
             ELSE /\ UNCHANGED <<conn, pcb, cbs>>
                  /\ uaf' = (uaf \/ pcb[c] = "FREED")
          /\ UNCHANGED errno
     ELSE /\ errno' = "EAGAIN"
          /\ UNCHANGED <<conn, pcb, cbs>>
          /\ uaf' = (uaf \/ pcb[c] = "FREED")
  /\ UNCHANGED <<ctype, listening, rpcSock, bound, rpcVars>>

\* lwIP completes the handshake of a SYN_SENT pcb and calls nc_connected,
\* which sends ERR_OK on conn->rpcSock.
Connected(c) ==
  /\ pcb[c] = "SYN_SENT"
  /\ pcb' = [pcb EXCEPT ![c] = "ESTABLISHED"]
  /\ IF cbs[c] THEN Reply(rpcSock[c]) ELSE UNCHANGED replies
  /\ uaf' = (uaf \/ (cbs[c] /\ conn[c] = "deleted"))
  /\ UNCHANGED <<conn, ctype, cbs, listening, rpcSock, bound, app, call,
                 phase, dataRetvals, errno>>

(***************************************************************************)
(* nc_err: lwIP has already freed the pcb.  The error is written with      *)
(* sendReturnValue on the descriptor of conn->sock, the data channel, and  *)
(* closeConnection(l->conn) is passed the Connection itself as a           *)
(* PhySocket* (PhySocket is void), which getConnection never matches.      *)
(***************************************************************************)
NcErr(c) ==
  /\ dataRetvals' = [dataRetvals EXCEPT ![c] = @ + 1]
  /\ uaf' = (uaf \/ conn[c] = "deleted")

\* lwIP frees a pcb after tcp_close completes (LAST_ACK, TIME_WAIT): the
\* callbacks were cleared by closeConnection.
PcbReleased(c) ==
  /\ pcb[c] = "CLOSING"
  /\ pcb' = [pcb EXCEPT ![c] = "FREED"]
  /\ UNCHANGED <<conn, ctype, cbs, listening, rpcSock, bound, app, call,
                 phase, replies, dataRetvals, uaf, errno>>

\* A reset, a refused SYN or a retransmission timeout: tcp_abandon frees
\* the pcb and then calls the error callback, if one is set.
PcbAborted(c) ==
  /\ "rst" \in Failures
  /\ pcb[c] \in {"SYN_SENT", "ESTABLISHED", "CLOSE_WAIT", "CLOSING"}
  /\ pcb' = [pcb EXCEPT ![c] = "FREED"]
  /\ IF cbs[c] THEN NcErr(c) ELSE UNCHANGED <<dataRetvals, uaf>>
  /\ UNCHANGED <<conn, ctype, cbs, listening, rpcSock, bound, app, call,
                 phase, replies, errno>>

(***************************************************************************)
(* A FIN from the peer moves an ESTABLISHED pcb to CLOSE_WAIT and calls    *)
(* nc_recved with p == NULL, which, seeing CLOSE_WAIT, runs                *)
(* closeConnection(l->conn->sock) and returns ERR_ABRT.  A Larg whose     *)
(* Connection was deleted is read all the same.                            *)
(***************************************************************************)
RemoteFin(c, ok) ==
  /\ pcb[c] = "ESTABLISHED"
  /\ IF cbs[c] /\ conn[c] = "live"
     THEN CloseConnection(c, "CLOSE_WAIT", ok)
     ELSE /\ pcb' = [pcb EXCEPT ![c] = "CLOSE_WAIT"]
          /\ uaf' = (uaf \/ cbs[c])
          /\ UNCHANGED <<conn, cbs>>
  /\ UNCHANGED <<ctype, listening, rpcSock, bound, app, call, phase,
                 replies, dataRetvals, errno>>

(***************************************************************************)
(* nc_accept on the listening Connection c for a new pcb, given data      *)
(* channel a.  The new Connection is pushed into _Connections before       *)
(* sock_fd_write hands the other end to the application; if that write    *)
(* fails (the application closed c, or the kernel refuses) nc_accept       *)
(* returns -1 and lwIP aborts the new pcb, which has no callbacks yet.     *)
(* The Connection stays, with a freed pcb and a channel nobody holds.      *)
(***************************************************************************)
NcAccept(c, a, ok) ==
  LET sent == ok /\ app[c] = "open" IN
  /\ pcb[c] = "LISTEN"
  /\ cbs[c]
  /\ conn[a] = "none"
  /\ uaf' = (uaf \/ conn[c] = "deleted")
  /\ conn' = [conn EXCEPT ![a] = "live"]
  /\ ctype' = [ctype EXCEPT ![a] = "STREAM"]
  /\ pcb' = [pcb EXCEPT ![a] = IF sent THEN "ESTABLISHED" ELSE "FREED"]
  /\ cbs' = [cbs EXCEPT ![a] = sent]
  /\ app' = [app EXCEPT ![a] = IF sent THEN "open" ELSE @]
  /\ UNCHANGED <<listening, rpcSock, bound, call, phase, replies,
                 dataRetvals, errno>>

-----------------------------------------------------------------------------
\* The stack call each command makes, for its failure kind.
CmdCall(cmd) == CASE cmd = "BIND" -> "bind"
                  [] cmd = "LISTEN" -> "listen"
                  [] cmd = "CONNECT" -> "connect"
                  [] OTHER -> "none"

\* Phy's poll, or the pruning read, delivering the canary of r.
ServeCanary(r) ==
  \E full \in Outcomes("no_ips"), ok \in Outcomes(CmdCall(call[r].cmd)),
     use \in BOOLEAN :
    ReadCanary(r, ~full, ok, use)

Next ==
  \/ \E s \in Sock, t \in {"STREAM", "DGRAM"}, ok \in Outcomes("socket") :
       SocketRpc(s, t, ok)
  \/ \E s \in Chan, r \in Rpc, cmd \in Cmds : AppCall(s, r, cmd)
  \/ \E r \in Rpc : ReadRpcFrame(r) \/ AppCanary(r) \/ ServeCanary(r)
  \/ \E c \in Chan : \/ AppClose(c) \/ Connected(c)
                    \/ PcbReleased(c) \/ PcbAborted(c)
  \/ \E c \in Chan, ok \in Outcomes("close") : Prune(c, ok) \/ RemoteFin(c, ok)
  \/ \E c \in Chan, a \in AccSock, ok \in Outcomes("accept") : NcAccept(c, a, ok)

(***************************************************************************)
(* Fairness.  The tap thread's Phy poll serves every readable channel, and *)
(* the pump prunes every stream Connection each STATUS_TMR_INTERVAL; the   *)
(* client library writes the canary as soon as it reads the 'z'.  lwIP's   *)
(* timers complete a handshake (or abort it) and release closed pcbs.      *)
(* The application and the peer are not obliged to do anything.            *)
(***************************************************************************)
Fairness ==
  /\ \A r \in Rpc : /\ WF_vars(ReadRpcFrame(r)) /\ WF_vars(AppCanary(r))
                   /\ WF_vars(ServeCanary(r))
  /\ \A c \in Chan : /\ WF_vars(\E ok \in Outcomes("close") : Prune(c, ok))
                    /\ WF_vars(Connected(c) \/ PcbAborted(c))
                    /\ WF_vars(PcbReleased(c))

Spec == Init /\ [][Next]_vars /\ Fairness

-----------------------------------------------------------------------------
TypeOK ==
  /\ conn \in [Chan -> {"none", "live", "deleted"}]
  /\ ctype \in [Chan -> {"STREAM", "DGRAM"}]
  /\ pcb \in [Chan -> PcbState]
  /\ cbs \in [Chan -> BOOLEAN]
  /\ listening \in [Chan -> BOOLEAN]
  /\ rpcSock \in [Chan -> Rpc \cup {NoRpc}]
  /\ bound \in [Chan -> BOOLEAN]
  /\ app \in [Chan -> {"none", "open", "closed"}]
  /\ call \in [Rpc -> [sock : Chan \cup {NoRpc}, cmd : Cmds \cup {"NONE"}]]
  /\ phase \in [Rpc -> {"unused", "sent", "job", "canary", "done", "orphan"}]
  /\ replies \in [Rpc -> Nat]
  /\ dataRetvals \in [Chan -> Nat]
  /\ uaf \in BOOLEAN
  /\ errno \in {"EAGAIN", "OTHER"}

\* Every RPC gets at most one return value on its RPC channel: connect is
\* answered by nc_connected (or not at all) and never also by handleConnect.
ReplyAtMostOnce == \A r \in Rpc : replies[r] <= 1

\* A pcb lwIP may still call back into carries callbacks only while its
\* Connection is in _Connections: closeConnection must not delete a
\* Connection whose Larg is still registered with lwIP.
ActivePcb == {"LISTEN", "SYN_SENT", "ESTABLISHED", "CLOSE_WAIT", "CLOSING"}
CallbacksOnlyForLiveConn ==
  \A c \in Chan : cbs[c] /\ pcb[c] \in ActivePcb => conn[c] = "live"

\* The service never reads a pcb lwIP has freed, nor a deleted Connection
\* through a Larg (pruning, nc_err, nc_recved, the RPC handlers).
NoUseAfterFree == ~uaf

\* Every RPC the client sends is eventually answered on its RPC channel,
\* unless the client's own canary write failed.
RpcEventuallyAnswered ==
  \A r \in Rpc : phase[r] = "sent" ~> (replies[r] > 0 \/ phase[r] = "orphan")

\* A Connection whose application end was closed is eventually removed
\* from _Connections by the pruning pass.
ClosedSocketsRemoved ==
  \A c \in Chan : app[c] = "closed" /\ conn[c] = "live" ~> conn[c] # "live"
=============================================================================
