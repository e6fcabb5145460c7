------------------------------ MODULE MCRxPath ------------------------------
(* Bounds for RxPath.  ZT_MAX_MTU is 2 bytes and rxbuf holds three MTUs, so *)
(* that a move to the front overlaps; the window is the buffer's size.     *)
(* RxPath_records also runs the tap's frame receive (EtherFrame) beside  *)
(* the connection: put and setEnabled interleave with the callbacks and  *)
(* the pump, and share no variable with them.                             *)
EXTENDS RxPath, EtherFrame

MCMtu == 2
MCRxBufSz == 6
MCTcpWnd == 6
MCMaxBytes == 16
MCRxszFloor == -4

\* Segments of one MTU, and segments of one and two bytes.
MCWholeSegs == {2}
MCShortSegs == {1, 2}

\* Frames: a 2-token header (14 bytes in the code), payloads of 0 to 2
\* tokens, pool buffers of 2 tokens: splits with a first pbuf shorter than
\* the header, frames ending at a pbuf boundary and empty payloads occur.
MCEthHdrLen == 2
MCPayloadLens == 0..2
MCPoolBufLen == 2

\* The connection's receive path and the tap's frame I/O, interleaved.
MCNext ==
  \/ Next /\ UNCHANGED frameVars
  \/ FrameNext /\ UNCHANGED vars

MCInit == Init /\ FrameInit

MCSpec == MCInit /\ [][MCNext]_<<vars, frameVars>> /\ Fairness
=============================================================================
