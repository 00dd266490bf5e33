------------------------------ MODULE EventLoop ------------------------------
(***************************************************************************)
(* EventLoop::main_loop (src/event_loop.rs) as a reactor around the        *)
(* Connection handlers.  One iteration polls, handles the STREAM event     *)
(* (write first, then read) and the HEARTBEAT event in either order, and   *)
(* then re-registers the socket's interest when outbuf went from empty to  *)
(* non-empty or back.                                                      *)
(*                                                                         *)
(* The socket is registered edge-triggered.  `pending` says the poller has *)
(* a notification queued for the socket: a wakeup arrives (data from the   *)
(* server, send-buffer space after a WouldBlock) only for a kind in the    *)
(* registered interest, and a poll reports the socket's current readiness  *)
(* within the interest, then clears the notification.  Re-registering      *)
(* re-arms it: if the socket is already ready for the new interest, the    *)
(* next poll reports it.                                                   *)
(*                                                                         *)
(* The server is the environment: it puts one frame at a time in flight   *)
(* and drains its receive buffer.                                          *)
(***************************************************************************)
EXTENDS Integers, Sequences

CONSTANTS FrameLen, ClientHeartbeat, HeartbeatValues, MaxWire,
          ServerFollowsProtocol,
          PollTimeout   \* ConnectionOptions::poll_timeout is Some

VARIABLES cstate, outbuf, serverPos, ourPos, rx, tx, result, wire,
          interest,   \* readiness kinds the socket is registered for
          pending,    \* the poller holds a notification for the socket
          writable,   \* a write would not block
          inflight,   \* the frame the server has sent and we have not read
          phase,      \* "Poll": blocked in poll; "Events": handling events
          had,        \* had_data_to_write, sampled after the poll
          streamEv,   \* readiness of this iteration's STREAM event
          stream,     \* the part of the STREAM handler still to run
          timers      \* the heartbeat timers due in this iteration

C == INSTANCE Connection

ASSUME PollTimeoutAssumption == PollTimeout \in BOOLEAN

connVars == <<cstate, outbuf, serverPos, ourPos, rx, tx, result, wire>>
loopVars == <<interest, pending, writable, inflight, phase, had, streamEv, stream, timers>>
vars == <<connVars, loopVars>>

NoFrame == [kind |-> "None"]

Kinds == {"R", "W"}

\* The socket's current readiness.
Readiness == (IF inflight # NoFrame THEN {"R"} ELSE {}) \cup (IF writable THEN {"W"} ELSE {})

\* What a poll reports for the STREAM token.
StreamReady == IF pending THEN Readiness \cap interest ELSE {}

\* A wakeup of the given kinds queues a notification if it matches the interest.
Wakeup(kinds) == pending' = (pending \/ kinds \cap interest # {})

\* The heartbeat timers that have been started (and so may come due).
Started == {t \in {"Rx", "Tx"} : IF t = "Rx" THEN rx # "None" ELSE tx # "None"}

(***************************************************************************)
(* EventLoop::new registers the stream readable|writable; the connected    *)
(* socket is writable, so the first poll reports it.                       *)
(***************************************************************************)
Init ==
  /\ C!Init
  /\ interest = Kinds
  /\ pending = TRUE
  /\ writable = TRUE
  /\ inflight = NoFrame
  /\ phase = "Poll"
  /\ had = FALSE
  /\ streamEv = {}
  /\ stream = {}
  /\ timers = {}

(***************************************************************************)
(* Poll::poll returns the STREAM event if one is queued and the HEARTBEAT  *)
(* event if timers are due (time is abstract: any started timer may be     *)
(* due); main_loop then samples had_data_to_write.                         *)
(***************************************************************************)
Poll ==
  /\ phase = "Poll"
  /\ result = C!Running
  /\ \E due \in SUBSET Started :
       /\ StreamReady # {} \/ due # {}
       /\ timers' = due
  /\ streamEv' = StreamReady
  /\ stream' = StreamReady
  /\ pending' = FALSE
  /\ had' = (outbuf # <<>>)
  /\ phase' = "Events"
  /\ UNCHANGED <<connVars, interest, writable, inflight>>

\* poll fails, or returns no event within poll_timeout.
PollError ==
  /\ phase = "Poll"
  /\ result = C!Running
  /\ \E err \in {"Io", "SocketPollTimeout"} :
       /\ err = "SocketPollTimeout" => PollTimeout /\ StreamReady = {}
       /\ C!Fail(err, cstate)
  /\ UNCHANGED <<outbuf, serverPos, ourPos, rx, tx, wire>>
  /\ UNCHANGED loopVars

(***************************************************************************)
(* The STREAM event: write_to_stream if writable, then read_from_stream if *)
(* readable.  A write that does not empty outbuf stopped on WouldBlock;    *)
(* the socket reported writable, so its first write accepted a byte.       *)
(***************************************************************************)
\* Mutant: the readable branch is an `else if`, skipped after a write.
StreamWriteElseRead ==
  /\ phase = "Events"
  /\ "W" \in stream
  /\ C!WriteToStream
  /\ writable' = (outbuf' = <<>> \/ result' # C!Running)
  /\ ~writable' => Len(wire') > Len(wire)
  /\ stream' = {}
  /\ UNCHANGED <<interest, pending, inflight, phase, had, streamEv, timers>>

StreamWrite ==
  /\ phase = "Events"
  /\ "W" \in stream
  /\ C!WriteToStream
  /\ writable' = (outbuf' = <<>> \/ result' # C!Running)
  /\ ~writable' => Len(wire') > Len(wire)
  /\ stream' = stream \ {"W"}
  /\ UNCHANGED <<interest, pending, inflight, phase, had, streamEv, timers>>

StreamRead ==
  /\ phase = "Events"
  /\ stream = {"R"}
  /\ result = C!Running
  /\ C!ReadFrame(inflight) \/ C!ReadError
  /\ inflight' = NoFrame
  /\ stream' = {}
  /\ UNCHANGED wire
  /\ UNCHANGED <<interest, pending, writable, phase, had, streamEv, timers>>

(***************************************************************************)
(* The HEARTBEAT event: process_heartbeat_timers fires each due timer.  It *)
(* runs before or after the whole STREAM handler, never in its middle.     *)
(***************************************************************************)
TimerReady == phase = "Events" /\ stream \in {{}, streamEv}

TimerFireRx ==
  /\ TimerReady
  /\ "Rx" \in timers
  /\ C!FireRx
  /\ timers' = timers \ {"Rx"}
  /\ UNCHANGED <<interest, pending, writable, inflight, phase, had, streamEv, stream>>

\* Past the model's bound MaxWire a heartbeat is no longer queued.
TimerFireTx ==
  /\ TimerReady
  /\ "Tx" \in timers
  /\ \/ C!FireTx
     \/ /\ result = C!Running
        /\ Len(wire) + Len(outbuf) + FrameLen["Heartbeat"] > MaxWire
        /\ UNCHANGED connVars
  /\ timers' = timers \ {"Tx"}
  /\ UNCHANGED <<interest, pending, writable, inflight, phase, had, streamEv, stream>>

(***************************************************************************)
(* End of the iteration: re-register on a change of outbuf occupancy.     *)
(***************************************************************************)
\* Mutant: the first branch tests had_data_to_write alone, dropping
\* `&& !have_data_to_write`.
RereregHadOnly ==
  /\ phase = "Events" /\ stream = {} /\ timers = {}
  /\ result = C!Running
  /\ \/ /\ had
        /\ interest' = {"R"}
        /\ pending' = (pending \/ "R" \in Readiness)
     \/ /\ ~had /\ outbuf # <<>>
        /\ interest' = Kinds
        /\ pending' = (pending \/ Readiness # {})
     \/ /\ ~had /\ outbuf = <<>>
        /\ UNCHANGED <<interest, pending>>
  /\ phase' = "Poll"
  /\ UNCHANGED <<connVars, writable, inflight, had, streamEv, stream, timers>>

Rereg ==
  /\ phase = "Events" /\ stream = {} /\ timers = {}
  /\ result = C!Running
  /\ \/ /\ had /\ outbuf = <<>>
        /\ interest' = {"R"}
        /\ pending' = (pending \/ "R" \in Readiness)
     \/ /\ ~had /\ outbuf # <<>>
        /\ interest' = Kinds
        /\ pending' = (pending \/ Readiness # {})
     \/ /\ had = (outbuf # <<>>)
        /\ UNCHANGED <<interest, pending>>
  /\ phase' = "Poll"
  /\ UNCHANGED <<connVars, writable, inflight, had, streamEv, stream, timers>>

\* Poll::reregister fails.
ReregError ==
  /\ phase = "Events" /\ stream = {} /\ timers = {}
  /\ result = C!Running
  /\ had # (outbuf # <<>>)
  /\ C!Fail("Io", cstate)
  /\ UNCHANGED <<outbuf, serverPos, ourPos, rx, tx, wire>>
  /\ UNCHANGED loopVars

(***************************************************************************)
(* The server: it sends a frame when the last one has been read, and reads *)
(* what we wrote, freeing send-buffer space after a WouldBlock.            *)
(***************************************************************************)
ServerSend(f) ==
  /\ result = C!Running
  /\ inflight = NoFrame
  /\ C!ServerSends(f)
  /\ inflight' = f
  /\ Wakeup({"R"})
  /\ UNCHANGED <<connVars, interest, writable, phase, had, streamEv, stream, timers>>

SocketDrained ==
  /\ result = C!Running
  /\ ~writable
  /\ writable' = TRUE
  /\ Wakeup({"W"})
  /\ UNCHANGED <<connVars, interest, inflight, phase, had, streamEv, stream, timers>>

\* The frames AMQP 0-9-1 obliges the server to send: the replies it owes.
Replies ==
  {f \in C!InFrames :
     \/ f.kind = "Start" /\ cstate = "Start"
     \/ f.kind = "Tune" /\ C!Sent("StartOk")
     \/ f.kind = "OpenOk" /\ C!Sent("Open")
     \/ f.kind = "CloseOk" /\ C!Sent("Close")}

ServerReply == \E f \in Replies : ServerSend(f)

\* A poll at which the started rx timer is due.
PollRx == Poll /\ "Rx" \in timers'

Next ==
  \/ Poll
  \/ PollError
  \/ StreamWrite
  \/ StreamRead
  \/ TimerFireRx
  \/ TimerFireTx
  \/ Rereg
  \/ ReregError
  \/ \E f \in C!InFrames : ServerSend(f)
  \/ SocketDrained

(***************************************************************************)
(* The loop runs whenever it can; the server answers what it owes and      *)
(* keeps reading its socket.  A reply is enabled only while no other frame *)
(* is in flight, so it needs strong fairness.  Time passes: a started rx  *)
(* timer comes due at a later poll however often the tx timer or the      *)
(* socket wake the loop first (HeartbeatTimers re-arms it for the time    *)
(* left), which is strong fairness of a poll that reports it.             *)
(***************************************************************************)
Fairness ==
  /\ WF_vars(Poll)
  /\ WF_vars(StreamWrite)
  /\ WF_vars(StreamRead)
  /\ WF_vars(TimerFireRx)
  /\ WF_vars(TimerFireTx)
  /\ WF_vars(Rereg)
  /\ WF_vars(SocketDrained)
  /\ SF_vars(ServerReply)
  /\ SF_vars(PollRx)

Spec == Init /\ [][Next]_vars /\ Fairness

(***************************************************************************)
(* Properties.                                                             *)
(***************************************************************************)

\* The re-registration of main_loop (lines 494-514): whenever the loop
\* blocks in poll with data queued, the socket is registered for writable
\* readiness, so the data is not left behind a readable-only interest.
WritableInterestWhileQueued ==
  (phase = "Poll" /\ result = C!Running /\ outbuf # <<>>) => "W" \in interest

\* Design note 9 of the spec: edge-triggered readiness needs the interest
\* re-armed whenever data is queued.  Data queued by a handler is
\* eventually written out (outbuf empties) or the loop stops; it does not
\* wait for an unrelated event that may never come.
QueuedDataWritten ==
  outbuf # <<>> ~> (outbuf = <<>> \/ result # C!Running)

\* The handshake of process() finishes: from Start the connection reaches
\* Steady, or the loop stops, against a server that answers each step.
HandshakeCompletes ==
  cstate = "Start" ~> (cstate = "Steady" \/ result # C!Running)

\* Once our close is on the socket (Closing), the loop ends: the server's
\* close-ok is read and process() returns ClientClosedConnection, or the
\* loop stops otherwise.
ClosingEnds ==
  cstate = "Closing" ~> result # C!Running

=============================================================================
