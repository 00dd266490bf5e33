----------------------------- MODULE MC_EventLoop -----------------------------
(***************************************************************************)
(* Model-checking instance of EventLoop: the frame lengths of MC_Connection *)
(* and a server that follows the protocol; each cfg fixes the heartbeat.   *)
(***************************************************************************)
EXTENDS EventLoop

\* Connection's OutFrames and NoHeartbeatPref, written out: a constant's
\* value may not refer back to the instance C that the constant configures.
MCFrameLen ==
  [f \in {"StartOk", "TuneOk", "Open", "CloseOk", "Close", "Heartbeat"} |->
     IF f \in {"StartOk", "TuneOk", "Close"} THEN 2 ELSE 1]

MCClientHeartbeat == -1

MCMaxWire == 10

=============================================================================
