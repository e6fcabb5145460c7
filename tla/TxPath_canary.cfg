\* Stream connection with one RPC canary in the data: is it stripped exactly?
CONSTANTS
  Backends = {"lwip"}
  Mtu <- MCMtu
  SockTypes = {"SOCK_STREAM"}
  TxBufSz <- MCTxBufSz
  RxSoftMax <- MCSoftMax
  TxSoftMax <- MCSoftMax
  SndBufSz <- MCSndBufSz
  UdpMtu <- MCUdpMtu
  ReadMax <- MCCanaryReadMax
  PruneReadMax <- MCReadMax
  WriteMax <- MCWriteMax
  MaxBytes <- MCMaxBytes
  MaxCanaries = 1
  CanarySz = 1
  PaddingSz = 1
  Tok = Tok
  Pad = Pad
  Stale = Stale
SPECIFICATION Spec
INVARIANT TxBytesConserved
CHECK_DEADLOCK FALSE
