CONSTANTS
  FrameLen <- MCFrameLen
  ClientHeartbeat <- MCClientHeartbeat
  HeartbeatValues <- MCHeartbeatValues
  MaxWire <- MCMaxWire
  ServerFollowsProtocol = TRUE

SPECIFICATION Spec

\* The loop really stops: main_loop returns its error and run() returns.
CHECK_DEADLOCK FALSE

INVARIANT
  NothingSentAfterClose
