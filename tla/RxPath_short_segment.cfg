\* A segment shorter than ZT_MAX_MTU: what does the application read?
CONSTANTS
  Mtu <- MCMtu
  RxBufSz <- MCRxBufSz
  TcpWnd <- MCTcpWnd
  SegSizes <- MCShortSegs
  Partial = FALSE
  MaxBytes <- MCMaxBytes
  RxszFloor <- MCRxszFloor
  Stale = Stale
  EthHdrLen <- MCEthHdrLen
  PayloadLens <- MCPayloadLens
  PoolBufLen <- MCPoolBufLen
SPECIFICATION MCSpec
INVARIANT RxBytesInOrder
CHECK_DEADLOCK FALSE
