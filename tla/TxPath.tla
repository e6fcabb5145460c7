------------------------------- MODULE TxPath -------------------------------
(***************************************************************************)
(* The transmit path of one Connection of NetconEthernetTap (lwIP backend, *)
(* src/src/SDK_EthernetTap.cpp): bytes the application writes into its    *)
(* end of the application-facing channel are read by the tap thread       *)
(* (phyOnUnixData, from Phy's poll or from the pruning read of lwIP_loop), *)
(* appended to conn->txbuf, and handed to the lwIP pcb by handleWrite.     *)
(* The pcb's snd_buf shrinks on tcp_write and grows when the peer ACKs,    *)
(* after which lwIP calls nc_sent.  Read notifications on the channel are  *)
(* switched off and on by three places: the txsz check in phyOnUnixData    *)
(* ("disabled"), handleWrite when snd_buf is 0 ("probation"), and nc_sent.  *)
(*                                                                         *)
(* The picoTCP build (SDK_PICOTCP) shares phyOnUnixData; its handleWrite *)
(* is pico_handleWrite, and picoTCP's PICO_SOCK_EV_WR event, raised when   *)
(* the socket's send queue has room again, runs pico_cb_tcp_write.  It has *)
(* no nc_sent, no pruning read and no makeshift poll.  backend is the      *)
(* build, fixed for a run of the program and chosen by Init.               *)
(*                                                                         *)
(* Bytes are numbered 1, 2, ... in the order the application writes them; *)
(* the canary (an RPC correlation token followed by padding) is written    *)
(* as CanarySz copies of Tok followed by PaddingSz copies of Pad.  Memory  *)
(* that phyOnUnixData reads or exposes past what was written to it holds   *)
(* Stale.  conn->txbuf[0, txsz) is the sequence txbuf, so txsz = Len(txbuf)*)
(* and a txsz beyond TxBufSz is a write past the end of the array.         *)
(***************************************************************************)
EXTENDS Integers, Sequences, SequencesExt, FiniteSetsExt

CONSTANTS
  Backends,      \* the builds checked: "lwip" (SDK_LWIP), "pico" (SDK_PICOTCP)
  SockTypes,     \* the types socket() may give the connection
  Mtu,           \* ZT_MAX_MTU: the most pico_handleWrite writes at once
  TxBufSz,       \* size of conn->txbuf
  RxSoftMax,     \* DEFAULT_TCP_RX_BUF_SZ, the softmax phyOnUnixData uses
  TxSoftMax,     \* DEFAULT_TCP_TX_BUF_SZ, the softmax nc_sent uses
  SndBufSz,      \* TCP_SND_BUF: initial pcb->snd_buf
  UdpMtu,        \* ZT_UDP_DEFAULT_PAYLOAD_MTU
  ReadMax,       \* bytes Phy's poll reads from the channel at once
  PruneReadMax,  \* BUF_SZ: bytes the pruning read of lwIP_loop takes
  WriteMax,      \* bound: bytes in one application write
  MaxBytes,      \* bound: data bytes the application writes in all
  MaxCanaries,   \* bound: canaries the application writes
  CanarySz,      \* CANARY_SZ
  PaddingSz,     \* PADDING_SZ
  Tok, Pad, Stale

ASSUME Backends \subseteq {"lwip", "pico"} /\ Backends # {}
ASSUME SockTypes \subseteq {"SOCK_STREAM", "SOCK_DGRAM"} /\ SockTypes # {}
ASSUME \A n \in {TxBufSz, RxSoftMax, TxSoftMax, SndBufSz, UdpMtu, ReadMax,
                 PruneReadMax, WriteMax, MaxBytes, Mtu, CanarySz, PaddingSz} :
         n \in Nat \ {0}
ASSUME MaxCanaries \in Nat

VARIABLES
  backend,      \* the stack the SDK was built with
  ctype,        \* conn->type, fixed when the Connection is made
  appOut,       \* bytes in the channel written by the app, not yet read
  appWrites,    \* history: the data of every application write, in order
  canaries,     \* number of canaries the application has written
  txbuf,        \* conn->txbuf[0, conn->txsz)
  segments,     \* history: the payload of every tcp_write / udp_send
  sndbuf,       \* pcb->snd_buf, or the room in the pico_socket's send queue
  inflight,     \* bytes written to the pcb or pico_socket and not yet ACKed
  readable,     \* Phy read notifications for conn->sock
  disabled,     \* conn->disabled
  probation,    \* conn->probation
  oob           \* a memcpy of phyOnUnixData landed outside conn->txbuf

vars == <<backend, ctype, appOut, appWrites, canaries, txbuf, segments, sndbuf, inflight,
          readable, disabled, probation, oob>>

Stream == ctype = "SOCK_STREAM"
Lwip == backend = "lwip"

Byte == 1..MaxBytes \cup {Tok, Pad, Stale}

AppData == FlattenSeq(appWrites)

-----------------------------------------------------------------------------
(* Helpers for the byte arithmetic of phyOnUnixData.                       *)

StaleSeq(n) == [i \in 1..n |-> Stale]
PadSeq == [i \in 1..PaddingSz |-> Pad]
TokSeq == [i \in 1..CanarySz |-> Tok]

\* n bytes of Phy's read buffer from offset off: past len it holds old data.
ReadBuf(buf, off, n) ==
  [i \in 1..n |-> IF off + i <= Len(buf) THEN buf[off + i] ELSE Stale]

\* memcpy of src to the start of dst: a prefix of dst is overwritten.
CopyOver(dst, src) ==
  [i \in 1..Len(dst) |-> IF i <= Len(src) THEN src[i] ELSE dst[i]]

\* buffer.find(padding_pattern), -1 for npos.
PaddingPos(buf) ==
  LET hits == {i \in 0..(Len(buf) - PaddingSz) :
                 SubSeq(buf, i + 1, i + PaddingSz) = PadSeq}
  IN IF hits = {} THEN -1 ELSE Min(hits)

(***************************************************************************)
(* The decoding of a non-RPC read in phyOnUnixData.  Frame is the record  *)
(* of what the code computes: whether the token was found in the job map,  *)
(* which memcpy branch runs, wlen, and the bytes that end up in            *)
(* txbuf[txsz, txsz + wlen).  The three canary branches copy to            *)
(* (&conn->txbuf)+conn->txsz, which is txsz * sizeof(txbuf) bytes past the *)
(* array: only for txsz = 0 does the copy land in the buffer.              *)
(***************************************************************************)
Frame(buf, txsz) ==
  LET len  == Len(buf)
      ppos == PaddingPos(buf)
      cpos == ppos - CanarySz
      cd   == len > CanarySz + PaddingSz /\ cpos = 0
      dc   == len > CanarySz + PaddingSz /\ cpos > 0
                /\ cpos = len - CanarySz + PaddingSz
      dcd  == len > CanarySz + PaddingSz /\ cpos > 0
                /\ len > cpos + CanarySz + PaddingSz
      wlen == CASE ppos = -1 -> len
                [] len = CanarySz + PaddingSz /\ cpos = 0 -> 0
                [] cd \/ dc \/ dcd -> len - CanarySz + PaddingSz
                [] OTHER -> len
      inBuf(bytes) == IF txsz = 0 THEN CopyOver(StaleSeq(wlen), bytes)
                      ELSE StaleSeq(wlen)
      lead  == ReadBuf(buf, 0, cpos + 1)
      trail == ReadBuf(buf, ppos + PaddingSz,
                       len - (cpos + CanarySz + PaddingSz))
      region ==
        CASE ppos = -1 -> buf
          [] cd -> inBuf(ReadBuf(buf, ppos + PaddingSz, wlen))
          [] dc -> inBuf(ReadBuf(buf, 0, wlen))
          [] dcd -> IF txsz = 0
                    THEN CopyOver(CopyOver(StaleSeq(wlen), lead), trail)
                    ELSE StaleSeq(wlen)
          [] OTHER -> StaleSeq(wlen)
  IN [found  |-> cpos > -1 => SubSeq(buf, cpos + 1, cpos + CanarySz) = TokSeq,
      copied |-> ppos # -1 /\ (cd \/ dc \/ dcd),
      region |-> region]

-----------------------------------------------------------------------------
(* handleWrite and the buffer adjustment it makes after a successful write.*)

\* Mutant: the memmove starts one byte early.
TxAfterWriteKeepsOne(tb, r) == SubSeq(tb, r, Len(tb))

\* memmove(&conn->txbuf, conn->txbuf+r, txsz-r); conn->txsz -= r
TxAfterWrite(tb, r) == SubSeq(tb, r + 1, Len(tb))

\* Mutants: r ignores snd_buf; r is txsz only when all of it fits.
WriteLenUncapped(tb) == Len(tb)
WriteLenWholeOnly(tb) == IF Len(tb) <= sndbuf THEN Len(tb) ELSE 0

\* r = conn->txsz < sndbuf ? conn->txsz : sndbuf
WriteLen(tb) == Min({Len(tb), sndbuf})

(***************************************************************************)
(* The lwIP body of handleWrite(conn) from a state whose txbuf is tb and   *)
(* whose readable flag is rd.  ok is the stack's answer: tcp_write /       *)
(* pbuf_alloc and udp_send succeed, or fail with ERR_MEM / ERR_RTE and     *)
(* leave the data.                                                         *)
(***************************************************************************)
LwipHandleWrite(tb, rd, ok) ==
  IF Stream
  THEN IF sndbuf = 0
       THEN /\ readable' = (rd /\ probation)
            /\ probation' = TRUE
            /\ UNCHANGED <<sndbuf, inflight, segments>>
            /\ txbuf' = tb
       ELSE LET r == WriteLen(tb) IN
            /\ IF Len(tb) > 0 /\ r > 0 /\ ok
               THEN /\ segments' = Append(segments, SubSeq(tb, 1, r))
                    /\ txbuf' = TxAfterWrite(tb, r)
                    /\ sndbuf' = sndbuf - r
                    /\ inflight' = inflight + r
               ELSE /\ txbuf' = tb
                    /\ UNCHANGED <<segments, sndbuf, inflight>>
            /\ readable' = rd
            /\ UNCHANGED probation
  ELSE LET n == Min({Len(tb), UdpMtu}) IN
       /\ IF ok
          THEN /\ segments' = Append(segments, SubSeq(tb, 1, n))
               /\ txbuf' = TxAfterWrite(tb, n)
          ELSE /\ txbuf' = tb
               /\ UNCHANGED segments
       /\ readable' = rd
       /\ UNCHANGED <<sndbuf, inflight, probation>>

(***************************************************************************)
(* __pico_socket_write(conn->picosock, &conn->txbuf, min(txsz, ZT_MAX_MTU)) *)
(* from a txbuf tb when the send queue has room sb, and the buffer         *)
(* adjustment after it.  Every pico_socket is a TCP socket (pico_handleSocket*)
(* opens PICO_PROTO_TCP whatever conn->type), which queues what fits and   *)
(* returns that count, possibly 0; on failure (ok = FALSE) it returns -1   *)
(* and the handler returns with txbuf untouched.                           *)
(***************************************************************************)
PicoSocketWrite(tb, sb, fl, ok) ==
  LET r == Min({Len(tb), Mtu, sb}) IN
  IF ok /\ r > 0
  THEN /\ segments' = Append(segments, SubSeq(tb, 1, r))
       /\ txbuf' = TxAfterWrite(tb, r)
       /\ sndbuf' = sb - r
       /\ inflight' = fl + r
  ELSE /\ txbuf' = tb
       /\ sndbuf' = sb
       /\ inflight' = fl
       /\ UNCHANGED segments

\* handleWrite(conn): pico_handleWrite in the picoTCP build, which leaves
\* the read notification alone, and the lwIP body otherwise.
HandleWrite(tb, rd, ok) ==
  IF Lwip
  THEN LwipHandleWrite(tb, rd, ok)
  ELSE /\ PicoSocketWrite(tb, sndbuf, inflight, ok)
       /\ readable' = rd
       /\ UNCHANGED probation

(***************************************************************************)
(* phyOnUnixData for a read buf that is not an RPC: the job lookup, the   *)
(* copy into txbuf, the backpressure check on the old txsz (stream only),  *)
(* txsz += wlen and handleWrite.  A token that is not in the job map makes *)
(* the handler return and the whole read is dropped.                       *)
(***************************************************************************)
PhyOnUnixData(buf, ok) ==
  LET f == Frame(buf, Len(txbuf))
      wlen == Len(f.region)
      off == Stream /\ Len(txbuf) > RxSoftMax
      on  == Stream /\ ~off /\ disabled
  IN IF ~f.found \/ wlen = 0
     THEN UNCHANGED <<txbuf, segments, sndbuf, inflight, readable, disabled,
                      probation, oob>>
     ELSE /\ oob' = (oob \/ (f.copied /\ Len(txbuf) > 0))
          /\ disabled' = IF off THEN TRUE ELSE IF on THEN FALSE ELSE disabled
          /\ HandleWrite(txbuf \o f.region,
                         IF off THEN FALSE ELSE IF on THEN TRUE ELSE readable,
                         ok)

(***************************************************************************)
(* nc_sent(len): lwIP reports len bytes ACKed (snd_buf already grown).     *)
(***************************************************************************)
\* Mutant: nc_sent never takes the connection off probation.
NcSentKeepsProbation(len) ==
  /\ probation' = probation
  /\ readable' = IF len > 0 /\ ~probation /\ Len(txbuf) < TxSoftMax
                 THEN TRUE ELSE readable

NcSent(len) ==
  LET prob == probation /\ ~(Len(txbuf) = 0) IN
  /\ probation' = prob
  /\ readable' = IF len > 0 /\ ~prob /\ Len(txbuf) < TxSoftMax
                 THEN TRUE ELSE readable

-----------------------------------------------------------------------------
(* Actions.                                                                *)

Init ==
  /\ backend \in Backends
  /\ ctype \in SockTypes
  /\ appOut = <<>>
  /\ appWrites = <<>>
  /\ canaries = 0
  /\ txbuf = <<>>
  /\ segments = <<>>
  /\ sndbuf = SndBufSz
  /\ inflight = 0
  /\ readable = TRUE
  /\ disabled = FALSE
  /\ probation = FALSE
  /\ oob = FALSE

\* The application writes k data bytes (send/write on its descriptor).
AppWrite(k) ==
  LET data == [i \in 1..k |-> Len(AppData) + i] IN
  /\ Len(AppData) + k <= MaxBytes
  /\ appOut' = appOut \o data
  /\ appWrites' = Append(appWrites, data)
  /\ UNCHANGED <<backend, ctype, canaries, txbuf, segments, sndbuf, inflight, readable,
                 disabled, probation, oob>>

\* The client library writes the canary of an RPC on the data channel.
AppCanary ==
  /\ canaries < MaxCanaries
  /\ appOut' = appOut \o TokSeq \o PadSeq
  /\ canaries' = canaries + 1
  /\ UNCHANGED <<backend, ctype, appWrites, txbuf, segments, sndbuf, inflight, readable,
                 disabled, probation, oob>>

\* Reading n bytes of a unix stream socket returns all that is there, up
\* to n: the reader never sees an application write split below n.
ReadUpTo(n) == SubSeq(appOut, 1, Min({n, Len(appOut)}))
Unread(n) == SubSeq(appOut, Min({n, Len(appOut)}) + 1, Len(appOut))

\* Phy's poll finds the channel readable and calls phyOnUnixData.
PollRead(ok) ==
  /\ readable
  /\ appOut # <<>>
  /\ PhyOnUnixData(ReadUpTo(ReadMax), ok)
  /\ appOut' = Unread(ReadMax)
  /\ UNCHANGED <<backend, ctype, appWrites, canaries>>

\* lwIP_loop, connection pruning: a nonblocking read(fd, BUF_SZ) of every
\* stream connection, whatever its read notification, fed to phyOnUnixData.
PruneRead(ok) ==
  /\ Lwip
  /\ Stream
  /\ appOut # <<>>
  /\ PhyOnUnixData(ReadUpTo(PruneReadMax), ok)
  /\ appOut' = Unread(PruneReadMax)
  /\ UNCHANGED <<backend, ctype, appWrites, canaries>>

\* Mutant: the makeshift poll serves stream connections only.
LoopTcpTimerStreamOnly(ok) ==
  /\ Lwip
  /\ Stream
  /\ Len(txbuf) > 0
  /\ HandleWrite(txbuf, readable, ok)
  /\ UNCHANGED <<backend, ctype, appOut, appWrites, canaries, disabled, oob>>

\* lwIP_loop, TCP timer: the makeshift poll calls handleWrite if txsz > 0.
LoopTcpTimer(ok) ==
  /\ Lwip
  /\ Len(txbuf) > 0
  /\ HandleWrite(txbuf, readable, ok)
  /\ UNCHANGED <<backend, ctype, appOut, appWrites, canaries, disabled, oob>>

\* The peer ACKs k bytes: lwIP grows snd_buf and calls nc_sent(k).
Ack(k) ==
  /\ Lwip
  /\ Stream
  /\ k \in 1..inflight
  /\ sndbuf' = sndbuf + k
  /\ inflight' = inflight - k
  /\ NcSent(k)
  /\ UNCHANGED <<backend, ctype, appOut, appWrites, canaries, txbuf, segments, disabled,
                 oob>>

(***************************************************************************)
(* The peer ACKs k bytes of a pico_socket: the send queue gains room and   *)
(* picoTCP raises PICO_SOCK_EV_WR; pico_cb_tcp takes _tcpconns_m and runs  *)
(* pico_cb_tcp_write, which returns at once if txsz is 0 and otherwise     *)
(* writes min(txsz, ZT_MAX_MTU) as pico_handleWrite does.  Nothing here    *)
(* touches the read notification.                                          *)
(***************************************************************************)
PicoAck(k, ok) ==
  /\ ~Lwip
  /\ k \in 1..inflight
  /\ PicoSocketWrite(txbuf, sndbuf + k, inflight - k, ok)
  /\ UNCHANGED <<backend, ctype, appOut, appWrites, canaries, readable,
                 disabled, probation, oob>>

Next ==
  \/ \E k \in 1..WriteMax : AppWrite(k)
  \/ AppCanary
  \/ \E ok \in BOOLEAN : PollRead(ok)
  \/ \E ok \in BOOLEAN : PruneRead(ok)
  \/ \E ok \in BOOLEAN : LoopTcpTimer(ok)
  \/ \E k \in 1..SndBufSz : Ack(k)
  \/ \E k \in 1..SndBufSz, ok \in BOOLEAN : PicoAck(k, ok)

(***************************************************************************)
(* Fairness.  lwIP_loop runs its TCP timer every ZT_LWIP_TCP_TIMER_INTERVAL *)
(* while _run is set, and the stack's writes fail only transiently, so a  *)
(* successful makeshift poll is weakly fair.  Phy's poll serves every      *)
(* readable socket on each iteration, but the readable flag is switched    *)
(* off and on by the other steps, so reads are strongly fair.  The peer    *)
(* ACKs the data in flight eventually (an assumption on the network).      *)
(* pico_loop polls Phy and ticks the pico stack on one thread: the same    *)
(* fairness for its reads and ACKs.                                        *)
(***************************************************************************)
Fairness ==
  /\ WF_vars(LoopTcpTimer(TRUE))
  /\ SF_vars(PollRead(TRUE))
  /\ WF_vars(\E k \in 1..SndBufSz : Ack(k))
  /\ WF_vars(\E k \in 1..SndBufSz, ok \in BOOLEAN : PicoAck(k, ok))

Spec == Init /\ [][Next]_vars /\ Fairness

-----------------------------------------------------------------------------
(* Properties.                                                             *)

TypeOK ==
  /\ backend \in Backends
  /\ ctype \in SockTypes
  /\ appOut \in Seq(Byte)
  /\ appWrites \in Seq(Seq(1..MaxBytes))
  /\ canaries \in 0..MaxCanaries
  /\ txbuf \in Seq(Byte)
  /\ segments \in Seq(Seq(Byte))
  /\ sndbuf \in 0..SndBufSz
  /\ inflight \in 0..SndBufSz
  /\ sndbuf + inflight = SndBufSz
  /\ {readable, disabled, probation, oob} \subseteq BOOLEAN

\* Every data byte the application writes reaches the stack exactly once
\* and in order: what was handed to tcp_write/udp_send, then txbuf, then the
\* unread channel (canary bytes stripped) is exactly what was written.  This
\* is about the buffer arithmetic of phyOnUnixData and handleWrite.
TxBytesConserved ==
  FlattenSeq(segments) \o txbuf
    \o SelectSeq(appOut, LAMBDA b : b \notin {Tok, Pad}) = AppData

\* conn->txbuf is never filled past its size: phyOnUnixData memcpy's the
\* read into txbuf[txsz] and checks txsz against the softmax only before.
TxWithinCapacity == Len(txbuf) <= TxBufSz

\* In the lwIP build every byte the application writes is eventually
\* handed to the stack (the picoTCP build has no retry of a failed write
\* and nothing that switches reads back on: see ReadResumes).
TxEventuallyDelivered ==
  \A k \in 1..MaxBytes :
    (Lwip /\ Len(AppData) >= k) ~> (Len(FlattenSeq(segments)) >= k)

\* In the lwIP build, read notifications switched off by backpressure
\* (disabled, probation) are eventually switched back on by nc_sent.  In
\* the picoTCP build only phyOnUnixData itself switches them on, and it is
\* not called while they are off.
ReadResumes == (Lwip /\ ~readable) ~> readable
=============================================================================
