\* Segments of exactly ZT_MAX_MTU bytes, sends that go through whole or not
\* at all: ordering, buffer bounds and delivery.
CONSTANTS
  Mtu <- MCMtu
  RxBufSz <- MCRxBufSz
  TcpWnd <- MCTcpWnd
  SegSizes <- MCWholeSegs
  Partial = FALSE
  MaxBytes <- MCMaxBytes
  RxszFloor <- MCRxszFloor
  Stale = Stale
  EthHdrLen <- MCEthHdrLen
  PayloadLens <- MCPayloadLens
  PoolBufLen <- MCPoolBufLen
SPECIFICATION MCSpec
INVARIANT RxBytesInOrder
INVARIANT RxWithinBuffer
 
PROPERTY RxEventuallyDelivered
CHECK_DEADLOCK FALSE
