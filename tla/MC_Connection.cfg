CONSTANTS
  FrameLen <- MCFrameLen
  ClientHeartbeat <- MCClientHeartbeat
  HeartbeatValues <- MCHeartbeatValues
  MaxWire <- MCMaxWire
  ServerFollowsProtocol = FALSE

SPECIFICATION Spec

\* The loop really stops: main_loop returns its error and run() returns.
CHECK_DEADLOCK FALSE

INVARIANTS
  TypeOK
  ServerCloseReqMarksCloseOk
  ClosingAfterCloseSent
  CloseOkSentAtMostOnce
  HandshakeOrder

PROPERTIES
  CloseHandshakeSpec
  QueuedNeverDropped
