\* Stream connection: can conn->txbuf be filled past its size?
CONSTANTS
  Backends = {"lwip"}
  Mtu <- MCMtu
  SockTypes = {"SOCK_STREAM"}
  TxBufSz <- MCTxBufSz
  RxSoftMax <- MCSoftMax
  TxSoftMax <- MCSoftMax
  SndBufSz <- MCSndBufSz
  UdpMtu <- MCUdpMtu
  ReadMax <- MCReadMax
  PruneReadMax <- MCPruneReadMax
  WriteMax <- MCWriteMax
  MaxBytes <- MCMaxBytes
  MaxCanaries = 0
  CanarySz = 2
  PaddingSz = 1
  Tok = Tok
  Pad = Pad
  Stale = Stale
SPECIFICATION Spec
INVARIANT TxWithinCapacity
CHECK_DEADLOCK FALSE
