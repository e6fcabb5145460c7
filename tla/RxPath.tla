------------------------------- MODULE RxPath -------------------------------
(***************************************************************************)
(* The receive path of one stream Connection of NetconEthernetTap (lwIP   *)
(* backend, src/src/SDK_EthernetTap.cpp).  lwIP hands each segment of the *)
(* peer to nc_recved, which appends it to conn->rxbuf at conn->rxsz and    *)
(* calls phyOnUnixWritable -> handleRead at once.  handleRead sends        *)
(* ZT_MAX_MTU bytes from the start of rxbuf into the application's end of  *)
(* the channel; when all of them are taken it moves the rest to the front, *)
(* lowers rxsz by ZT_MAX_MTU and reopens the TCP window by as much with    *)
(* tcp_recved.  Otherwise it switches write notifications off; Phy calls   *)
(* phyOnUnixWritable again only while they are on, and the pruning pass of *)
(* lwIP_loop switches them on for every connection with rxsz > 0.          *)
(*                                                                         *)
(* Bytes are numbered 1, 2, ... in the order the peer sends them; a slot   *)
(* of rxbuf that holds nothing the peer sent holds Stale.  rxsz is a C int *)
(* and may go below zero.                                                  *)
(***************************************************************************)
EXTENDS Integers, Sequences, SequencesExt

CONSTANTS
  Mtu,         \* ZT_MAX_MTU: the length of every streamSend of handleRead
  RxBufSz,     \* DEFAULT_TCP_RX_BUF_SZ: the size of conn->rxbuf
  TcpWnd,      \* TCP_WND: lwIP's receive window
  SegSizes,    \* payload lengths of the segments lwIP passes to nc_recved
  Partial,     \* whether the application channel may take part of a send
  MaxBytes,    \* bound: bytes the peer sends in all
  RxszFloor,   \* bound: handleRead is not run once rxsz is this low
  Stale

ASSUME /\ {Mtu, RxBufSz, TcpWnd} \subseteq Nat \ {0}
       /\ Mtu <= RxBufSz
       /\ SegSizes \subseteq 1..TcpWnd
       /\ Partial \in BOOLEAN
       /\ MaxBytes \in Nat /\ RxszFloor \in Int /\ RxszFloor < 0

Slot == 0..(RxBufSz - 1)
Byte == (1..MaxBytes) \cup {Stale}

\* What _phy.streamSend(conn->sock, conn->rxbuf, ZT_MAX_MTU) may return:
\* -1 (EAGAIN), all of it, or, if the channel takes part of a send, less.
SendResults == {-1, Mtu} \cup (IF Partial THEN 1..(Mtu - 1) ELSE {})

VARIABLES
  rcvd,        \* bytes lwIP has passed to nc_recved: 1..rcvd
  rcvWnd,      \* pcb->rcv_wnd
  rxbuf,       \* conn->rxbuf
  rxsz,        \* conn->rxsz
  writable,    \* Phy write notifications for conn->sock
  app,         \* bytes the application has read from its end of the channel
  oob          \* a memcpy of nc_recved or handleRead reached outside rxbuf

vars == <<rcvd, rcvWnd, rxbuf, rxsz, writable, app, oob>>

-----------------------------------------------------------------------------
(* The memory operations on conn->rxbuf.                                  *)

\* memcpy(conn->rxbuf + off, payload, len): slots outside the array are
\* not part of rxbuf (and OutOfBuf says that such a copy happened).
WriteAt(buf, off, bytes) ==
  [i \in Slot |-> IF off <= i /\ i < off + Len(bytes)
                  THEN bytes[i - off + 1] ELSE buf[i]]

OutOfBuf(off, len) == off < 0 \/ off + len > RxBufSz

\* The first Mtu bytes of rxbuf, as streamSend sends them.
MtuHead(buf) == [i \in 1..Mtu |-> buf[i - 1]]

\* Mutant: the move is made only when more than one MTU remains.
MoveDownSkipsLast(buf, sz) ==
  IF sz - Mtu > Mtu
  THEN [i \in Slot |-> IF i < sz - Mtu /\ i + Mtu < RxBufSz
                       THEN buf[i + Mtu] ELSE buf[i]]
  ELSE buf

\* if(rxsz-n > 0) memcpy(rxbuf, rxbuf+ZT_MAX_MTU, rxsz - ZT_MAX_MTU).  The
\* regions overlap once more than two MTUs are buffered; the C libraries
\* the SDK is built with move the bytes as memmove would.
MoveDown(buf, sz) ==
  IF sz - Mtu > 0
  THEN [i \in Slot |-> IF i < sz - Mtu /\ i + Mtu < RxBufSz
                       THEN buf[i + Mtu] ELSE buf[i]]
  ELSE buf

\* tcp_recved(pcb, len): lwIP 1.4 grows rcv_wnd and clamps it to TCP_WND.
TcpRecved(wnd, len) == IF wnd + len > TcpWnd THEN TcpWnd ELSE wnd + len

\* Mutant: tcp_recved(pcb, ZT_MAX_MTU) runs whatever streamSend returned.
HandleReadRecvedAlways(buf, sz, wnd, wr, o, n) ==
  IF sz # 0 /\ n = Mtu
  THEN /\ app' = app \o MtuHead(buf)
       /\ rxbuf' = MoveDown(buf, sz)
       /\ rxsz' = sz - Mtu
       /\ rcvWnd' = TcpRecved(wnd, Mtu)
       /\ writable' = (wr /\ sz - Mtu # 0)
       /\ oob' = (o \/ sz > RxBufSz)
  ELSE /\ app' = app
       /\ rxbuf' = buf
       /\ rxsz' = sz
       /\ rcvWnd' = IF sz # 0 THEN TcpRecved(wnd, Mtu) ELSE wnd
       /\ writable' = FALSE
       /\ oob' = o

(***************************************************************************)
(* handleRead on a Connection whose rxbuf, rxsz, rcv_wnd, notification and *)
(* oob flag are buf, sz, wnd, wr and o, when streamSend returns n.  A     *)
(* partial send reaches the application although the code keeps the bytes.*)
(***************************************************************************)
HandleRead(buf, sz, wnd, wr, o, n) ==
  IF sz # 0 /\ n = Mtu
  THEN /\ app' = app \o MtuHead(buf)
       /\ rxbuf' = MoveDown(buf, sz)
       /\ rxsz' = sz - Mtu
       /\ rcvWnd' = TcpRecved(wnd, Mtu)
       /\ writable' = (wr /\ sz - Mtu # 0)
       /\ oob' = (o \/ sz > RxBufSz)
  ELSE /\ app' = IF sz # 0 /\ n > 0 THEN app \o SubSeq(MtuHead(buf), 1, n)
                 ELSE app
       /\ rxbuf' = buf
       /\ rxsz' = sz
       /\ rcvWnd' = wnd
       /\ writable' = FALSE
       /\ oob' = o

-----------------------------------------------------------------------------
(* Actions.                                                                *)

Init ==
  /\ rcvd = 0
  /\ rcvWnd = TcpWnd
  /\ rxbuf = [i \in Slot |-> Stale]
  /\ rxsz = 0
  /\ writable = FALSE
  /\ app = <<>>
  /\ oob = FALSE

(***************************************************************************)
(* A segment of len bytes inside the receive window arrives; lwIP lowers  *)
(* rcv_wnd and calls nc_recved, which copies the payload to rxbuf + rxsz   *)
(* whatever room is left ("not enough room" is only logged), adds len to   *)
(* rxsz and calls phyOnUnixWritable(sock, NULL, true) under the same locks.*)
(***************************************************************************)
NcRecved(len, n) ==
  LET bytes == [i \in 1..len |-> rcvd + i] IN
  /\ len <= rcvWnd
  /\ rcvd + len <= MaxBytes
  /\ rcvd' = rcvd + len
  /\ HandleRead(WriteAt(rxbuf, rxsz, bytes), rxsz + len, rcvWnd - len,
                writable, oob \/ OutOfBuf(rxsz, len), n)

\* Phy's poll finds the channel writable while notifications are on and
\* calls phyOnUnixWritable(sock, uptr, false), which takes _tcpconns_m and
\* _rx_buf_m and runs handleRead.
PhyOnUnixWritable(n) ==
  /\ writable
  /\ rxsz > RxszFloor
  /\ HandleRead(rxbuf, rxsz, rcvWnd, writable, oob, n)
  /\ UNCHANGED rcvd

\* Mutant: the pruning pass re-arms only connections with more than an MTU.
PruneAboveMtu ==
  /\ rxsz > Mtu
  /\ writable' = TRUE
  /\ UNCHANGED <<rcvd, rcvWnd, rxbuf, rxsz, app, oob>>

\* lwIP_loop's pruning pass: "If there's anything on the RX buf, set to
\* notify in case we stalled".
Prune ==
  /\ rxsz > 0
  /\ writable' = TRUE
  /\ UNCHANGED <<rcvd, rcvWnd, rxbuf, rxsz, app, oob>>

Next ==
  \/ \E len \in SegSizes, n \in SendResults : NcRecved(len, n)
  \/ \E n \in SendResults : PhyOnUnixWritable(n)
  \/ Prune

(***************************************************************************)
(* Fairness.  lwIP_loop runs the pruning pass every STATUS_TMR_INTERVAL    *)
(* while _run is set: weak fairness.  Phy's poll serves a socket on every  *)
(* iteration while its write notification is on, and the application      *)
(* reads its channel, so a full send succeeds whenever it keeps being      *)
(* tried; the notification is switched off and on, hence strong fairness. *)
(* The peer may stop sending at any time.                                  *)
(***************************************************************************)
Fairness ==
  /\ WF_vars(Prune)
  /\ SF_vars(PhyOnUnixWritable(Mtu))

Spec == Init /\ [][Next]_vars /\ Fairness

-----------------------------------------------------------------------------
(* Properties.                                                             *)

\* The application reads exactly the peer's bytes, in order, each once:
\* about the record arithmetic of handleRead (sends of ZT_MAX_MTU, rxsz -=
\* ZT_MAX_MTU, the move to the front) against the byte appends of nc_recved.
RxBytesInOrder == app = [i \in 1..Len(app) |-> i]

\* nc_recved never checks the room left in rxbuf: the buffer stays within
\* its bounds only if lwIP's window, reopened by handleRead's tcp_recved,
\* never admits more than the free space.
RxWithinBuffer == ~oob /\ rxsz \in 0..RxBufSz

\* Every byte lwIP has passed to nc_recved eventually reaches the
\* application, also after a send that found the channel full switched
\* write notifications off.
RxEventuallyDelivered ==
  \A k \in 1..MaxBytes : (rcvd >= k) ~> (Len(app) >= k)
=============================================================================
