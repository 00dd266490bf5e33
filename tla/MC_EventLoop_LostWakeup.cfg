CONSTANTS
  FrameLen <- MCFrameLen
  ClientHeartbeat <- MCClientHeartbeat
  HeartbeatValues = {0}
  MaxWire <- MCMaxWire
  ServerFollowsProtocol = TRUE
  PollTimeout = FALSE

SPECIFICATION Spec

\* The loop really stops: main_loop returns its error and run() returns.
CHECK_DEADLOCK FALSE

PROPERTIES
  QueuedDataWritten
