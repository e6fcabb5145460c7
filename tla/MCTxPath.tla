------------------------------ MODULE MCTxPath ------------------------------
(* Model-checking instance of TxPath: small buffer sizes chosen so that    *)
(* the softmax checks, snd_buf exhaustion and partial reads all happen.    *)
EXTENDS TxPath

\* Sizes of one connection.  The buffer and both softmaxes are 3 bytes (the
\* SDK uses one size for the TCP buffer and its softmaxes); the pcb takes 2
\* bytes before its window is full, so txbuf has to hold data; Phy's poll
\* reads up to 2 bytes at once and the pruning read (BUF_SZ, an RPC frame)
\* 1 byte, both smaller than the buffer as in the SDK.
MCTxBufSz == 3
MCSoftMax == 3
MCSndBufSz == 2
MCUdpMtu == 2
MCReadMax == 2
MCPruneReadMax == 1
MCWriteMax == 2
MCMaxBytes == 5

\* picoTCP build: ZT_MAX_MTU is smaller than the send queue, as in the SDK
\* (2800 bytes against picoTCP's default queue), so both caps on a write
\* bind in turn.
MCMtu == 1

\* For the canary run: reads large enough to hold a canary and data on both
\* sides of it, and the smallest canary (one token byte, one padding byte).
MCCanaryReadMax == 4
====
