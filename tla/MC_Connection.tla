---------------------------- MODULE MC_Connection ----------------------------
(***************************************************************************)
(* Model-checking instance of Connection: frames of one and two bytes, so  *)
(* that partial writes split frames and close offsets differ from frame    *)
(* counts; the server decides the heartbeat (0 or 1 s).                   *)
(***************************************************************************)
EXTENDS Connection

MCFrameLen ==
  [f \in OutFrames |-> IF f \in {"StartOk", "TuneOk", "Close"} THEN 2 ELSE 1]

MCClientHeartbeat == NoHeartbeatPref

MCHeartbeatValues == {0, 1}

MCMaxWire == 12

=============================================================================
