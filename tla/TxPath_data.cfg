\* A stream or a datagram connection of either build, no canaries: buffer
\* arithmetic, backpressure and delivery.
CONSTANTS
  Backends = {"lwip", "pico"}
  Mtu <- MCMtu
  SockTypes = {"SOCK_STREAM", "SOCK_DGRAM"}
  TxBufSz <- MCTxBufSz
  RxSoftMax <- MCSoftMax
  TxSoftMax <- MCSoftMax
  SndBufSz <- MCSndBufSz
  UdpMtu <- MCUdpMtu
  ReadMax <- MCReadMax
  PruneReadMax <- MCPruneReadMax
  WriteMax <- MCWriteMax
  MaxBytes <- MCMaxBytes
  MaxCanaries = 0
  CanarySz = 2
  PaddingSz = 1
  Tok = Tok
  Pad = Pad
  Stale = Stale
SPECIFICATION Spec
INVARIANT TypeOK
INVARIANT TxBytesConserved
PROPERTY TxEventuallyDelivered
PROPERTY ReadResumes
CHECK_DEADLOCK FALSE
