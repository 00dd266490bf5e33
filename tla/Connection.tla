----------------------------- MODULE Connection -----------------------------
(***************************************************************************)
(* The single-connection core of amiquip's event loop (src/event_loop.rs): *)
(* the handshake state machine ConnectionState::process, the write path    *)
(* Inner::write_to_stream with its close-request bookkeeping, the read     *)
(* path Inner::read_from_stream, the heartbeat timers and the error        *)
(* rewrite of EventLoop::run.                                              *)
(*                                                                         *)
(* The output buffer is a sequence of bytes.  A byte records the frame it  *)
(* belongs to and whether it is that frame's last byte, so that byte       *)
(* offsets (CloseRequest.pos) and partial writes are modelled exactly      *)
(* while frame payloads are abstracted away.  `wire` is every byte handed  *)
(* to the socket, in order: what the server receives.                      *)
(*                                                                         *)
(* The server is arbitrary (any frame in any state) unless                 *)
(* ServerFollowsProtocol restricts it to what an AMQP 0-9-1 broker sends.  *)
(* Time is abstract: a timer may fire, a poll may time out and the socket  *)
(* may fail at any step.                                                   *)
(***************************************************************************)
EXTENDS Integers, Sequences

CONSTANTS
  FrameLen,         \* serialized length in bytes of each frame the client sends
  ClientHeartbeat,  \* ConnectionOptions heartbeat preference (NoHeartbeatPref if unset)
  HeartbeatValues,  \* heartbeat intervals a server may propose in connection.tune
  MaxWire,          \* bound on the bytes sent, which only heartbeats grow without end
  ServerFollowsProtocol  \* TRUE: the server answers as AMQP 0-9-1 says; FALSE: any frame

\* Frames the client serializes into its output buffer.
OutFrames == {"StartOk", "TuneOk", "Open", "CloseOk", "Close", "Heartbeat"}

NoHeartbeatPref == -1

ASSUME FrameLenAssumption == FrameLen \in [OutFrames -> Nat \ {0}]
ASSUME ClientHeartbeatAssumption == ClientHeartbeat \in Nat \cup {NoHeartbeatPref}
ASSUME HeartbeatValuesAssumption == HeartbeatValues \subseteq Nat
ASSUME MaxWireAssumption == MaxWire \in Nat
ASSUME ServerFollowsProtocolAssumption == ServerFollowsProtocol \in BOOLEAN

(***************************************************************************)
(* Data.                                                                   *)
(***************************************************************************)
Byte == [frame : OutFrames, last : BOOLEAN]

\* OutputBuffer::push_method / push_heartbeat: the bytes of one frame.
Serialize(f) == [i \in 1..FrameLen[f] |-> [frame |-> f, last |-> i = FrameLen[f]]]

\* The last byte of a frame of kind f.
FrameEnd(f) == [frame |-> f, last |-> TRUE]

\* Frames the server may send; the fields are what process() looks at.
InFrames ==
       [kind : {"Start"}, authOk : BOOLEAN]
  \cup [kind : {"Tune"}, frameMaxOk : BOOLEAN, heartbeat : HeartbeatValues]
  \cup [kind : {"Secure", "OpenOk", "Close", "CloseOk", "Heartbeat", "Other"}]

ConnStates == {"Start", "Secure", "Tune", "Open", "Steady", "Closing"}

\* Option<CloseRequest>: None, or the byte offset `pos` of the request.
NoReq == -1

\* Option<Heartbeat>: None, or whether activity was recorded since the last fire.
HeartbeatStates == {"None", "Idle", "Active"}

Running == "Running"

Errors == {"Io", "UnexpectedSocketClose", "ReceivedMalformed",
           "UnsupportedAuth", "FrameMaxTooSmall", "SocketPollTimeout",
           "SaslSecureNotSupported", "InvalidCredentials",
           "HandshakeWrongServerFrame", "MissedServerHeartbeats",
           "ServerClosedConnection", "ClientClosedConnection"}

VARIABLES
  cstate,     \* EventLoop.state : ConnectionState
  outbuf,     \* Inner.outbuf
  serverPos,  \* Inner.server_close_req (its pos)
  ourPos,     \* Inner.our_close_req (its pos)
  rx, tx,     \* Inner.heartbeats.rx / .tx
  result,     \* Running, or the error EventLoop::run returned
  wire        \* every byte written to the socket

vars == <<cstate, outbuf, serverPos, ourPos, rx, tx, result, wire>>

TypeOK ==
  /\ cstate \in ConnStates
  /\ outbuf \in Seq(Byte)
  /\ serverPos \in Nat \cup {NoReq}
  /\ ourPos \in Nat \cup {NoReq}
  /\ rx \in HeartbeatStates
  /\ tx \in HeartbeatStates
  /\ result \in {Running} \cup Errors
  /\ wire \in Seq(Byte)

(***************************************************************************)
(* Helpers.                                                                *)
(***************************************************************************)
\* EventLoop::run: an error while in Secure is reported as InvalidCredentials.
\* `st` is the connection state when main_loop returns the error.
Fail(err, st) ==
  /\ cstate' = st
  /\ result' = IF st = "Secure" THEN "InvalidCredentials" ELSE err

\* HeartbeatTimers::record_rx_activity / record_tx_activity.
RecordActivity(hb) == IF hb = "None" THEN "None" ELSE "Active"

\* Inner::start_heartbeats: both timers start together, only for interval > 0.
StartHeartbeat(interval) == IF interval > 0 THEN "Idle" ELSE "None"

\* ConnectionOptions::make_tune_ok: the client's heartbeat if set, else the server's.
NegotiatedHeartbeat(f) ==
  IF ClientHeartbeat = NoHeartbeatPref THEN f.heartbeat ELSE ClientHeartbeat

\* Mutant: the limit stops one byte short of the request's end offset.
LimitByShort(n, pos) == IF pos # NoReq /\ pos < n THEN pos - 1 ELSE n

\* usize::min(len, req.pos) when the request is Some.
LimitBy(n, pos) == IF pos # NoReq /\ pos < n THEN pos ELSE n

\* write_to_stream: how much of outbuf may be written before stopping.
WriteLen == LimitBy(LimitBy(Len(outbuf), serverPos), ourPos)

\* OutputBuffer::drain_written(n).
Drain(buf, n) == SubSeq(buf, n + 1, Len(buf))

\* Mutant: the Option is ignored and None is decremented like a position.
DrainCloseReqIgnoringNone(pos, k) == pos - k

\* Mutant: the decrement after a partial write is forgotten.
DrainCloseReqKept(pos, k) == pos

\* On WouldBlock, server_close_req.pos -= pos (our_close_req is left alone).
DrainCloseReq(pos, k) == IF pos = NoReq THEN NoReq ELSE pos - k

\* Positions in s where a frame of kind f ends.
EndsOf(s, f) == {i \in 1..Len(s) : s[i] = FrameEnd(f)}

\* A complete frame of kind f has been handed to the socket.
Sent(f) == EndsOf(wire, f) # {}

(***************************************************************************)
(* The environment: which frame the server may send next.  A server that  *)
(* follows the protocol sends start first, tune only once it has our      *)
(* start-ok, open-ok once it has our open, close-ok only to our close,     *)
(* heartbeats and channel traffic only once the connection is tuned and   *)
(* opened, never secure (PLAIN and EXTERNAL need none), and close at any  *)
(* time after start; once it has sent close it sends only close-ok.       *)
(***************************************************************************)
ServerSends(f) ==
  ~ServerFollowsProtocol \/
  /\ serverPos # NoReq => f.kind = "CloseOk"
  /\ CASE f.kind = "Start"     -> cstate = "Start"
    [] f.kind = "Tune"      -> cstate = "Secure" /\ Sent("StartOk")
    [] f.kind = "OpenOk"    -> cstate = "Open" /\ Sent("Open")
    [] f.kind = "CloseOk"   -> Sent("Close")
    [] f.kind = "Close"     -> cstate # "Start"
    [] f.kind = "Heartbeat" -> cstate \notin {"Start", "Secure"} /\ rx # "None"
    [] f.kind = "Other"     -> cstate \in {"Steady", "Closing"}
    [] f.kind = "Secure"    -> FALSE

(***************************************************************************)
(* Inner::set_server_close_req and Inner::set_our_close_req: only the      *)
(* first request is kept; the reply (close-ok) or our close is pushed and  *)
(* its end offset recorded.                                                *)
(***************************************************************************)
\* Mutant: no "only keep the first" check; every close queues a close-ok.
SetServerCloseReqEvery ==
  /\ outbuf' = outbuf \o Serialize("CloseOk")
  /\ serverPos' = Len(outbuf) + FrameLen["CloseOk"]

SetServerCloseReq ==
  \/ /\ serverPos # NoReq
     /\ UNCHANGED <<outbuf, serverPos>>
  \/ /\ serverPos = NoReq
     /\ outbuf' = outbuf \o Serialize("CloseOk")
     /\ serverPos' = Len(outbuf) + FrameLen["CloseOk"]

SetOurCloseReq ==
  \/ /\ ourPos # NoReq
     /\ UNCHANGED <<outbuf, ourPos>>
  \/ /\ ourPos = NoReq
     /\ outbuf' = outbuf \o Serialize("Close")
     /\ ourPos' = Len(outbuf) + FrameLen["Close"]

(***************************************************************************)
(* ConnectionState::process(frame), one disjunct per match arm.  A frame   *)
(* that is processed without error records rx activity afterwards          *)
(* (read_from_stream, n > 0).                                              *)
(***************************************************************************)
\* The arm returned Ok(()) in state st.
Accept(st) ==
  /\ cstate' = st
  /\ rx' = RecordActivity(rx)
  /\ UNCHANGED <<tx, result>>

\* The arms for Start: connection.start is answered with start-ok.
ProcessStart(f) ==
  /\ cstate = "Start"
  /\ \/ /\ f.kind = "Start" /\ f.authOk
        /\ outbuf' = outbuf \o Serialize("StartOk")
        /\ Accept("Secure")
     \/ /\ f.kind = "Start" /\ ~f.authOk
        /\ Fail("UnsupportedAuth", "Start")
        /\ UNCHANGED <<outbuf, rx, tx>>
     \/ /\ f.kind # "Start"
        /\ Fail("HandshakeWrongServerFrame", "Start")
        /\ UNCHANGED <<outbuf, rx, tx>>
  /\ UNCHANGED <<serverPos, ourPos>>

\* Mutant: open is queued before tune-ok.
ProcessSecureOpenFirst(f) ==
  /\ cstate = "Secure"
  /\ \/ /\ f.kind = "Secure"
        /\ Fail("SaslSecureNotSupported", "Secure")
        /\ UNCHANGED <<outbuf, rx, tx>>
     \/ /\ f.kind = "Tune" /\ ~f.frameMaxOk
        /\ Fail("FrameMaxTooSmall", "Tune")
        /\ UNCHANGED <<outbuf, rx, tx>>
     \/ /\ f.kind = "Tune" /\ f.frameMaxOk
        /\ cstate' = "Open"
        /\ rx' = RecordActivity(StartHeartbeat(NegotiatedHeartbeat(f)))
        /\ tx' = StartHeartbeat(NegotiatedHeartbeat(f))
        /\ outbuf' = outbuf \o Serialize("Open") \o Serialize("TuneOk")
        /\ UNCHANGED result
     \/ /\ f.kind \notin {"Secure", "Tune"}
        /\ Fail("HandshakeWrongServerFrame", "Secure")
        /\ UNCHANGED <<outbuf, rx, tx>>
  /\ UNCHANGED <<serverPos, ourPos>>

\* The arms for Secure, and for Tune, which Secure enters to re-process the
\* same connection.tune: tune-ok and open are queued, heartbeats started.
ProcessSecure(f) ==
  /\ cstate = "Secure"
  /\ \/ /\ f.kind = "Secure"
        /\ Fail("SaslSecureNotSupported", "Secure")
        /\ UNCHANGED <<outbuf, rx, tx>>
     \/ /\ f.kind = "Tune" /\ ~f.frameMaxOk
        /\ Fail("FrameMaxTooSmall", "Tune")
        /\ UNCHANGED <<outbuf, rx, tx>>
     \/ /\ f.kind = "Tune" /\ f.frameMaxOk
        /\ cstate' = "Open"
        /\ rx' = RecordActivity(StartHeartbeat(NegotiatedHeartbeat(f)))
        /\ tx' = StartHeartbeat(NegotiatedHeartbeat(f))
        /\ outbuf' = outbuf \o Serialize("TuneOk") \o Serialize("Open")
        /\ UNCHANGED result
     \/ /\ f.kind \notin {"Secure", "Tune"}
        /\ Fail("HandshakeWrongServerFrame", "Secure")
        /\ UNCHANGED <<outbuf, rx, tx>>
  /\ UNCHANGED <<serverPos, ourPos>>

\* The arms for Open: open-ok completes the handshake, close is honoured.
ProcessOpen(f) ==
  /\ cstate = "Open"
  /\ \/ /\ f.kind = "OpenOk"
        /\ Accept("Steady")
        /\ UNCHANGED <<outbuf, serverPos>>
     \/ /\ f.kind = "Close"
        /\ SetServerCloseReq
        /\ Accept("Open")
     \/ /\ f.kind \notin {"OpenOk", "Close"}
        /\ Fail("HandshakeWrongServerFrame", "Open")
        /\ UNCHANGED <<outbuf, serverPos, rx, tx>>
  /\ UNCHANGED ourPos

\* Mutant: the close-ok arm never matches (say, a pattern on the wrong
\* channel), so Closing discards every frame.
ProcessClosingDiscardAll(f) ==
  /\ cstate = "Closing"
  /\ Accept("Closing")
  /\ UNCHANGED <<outbuf, serverPos, ourPos>>

\* The arms for Closing: only close-ok matters, it ends the loop.
ProcessClosing(f) ==
  /\ cstate = "Closing"
  /\ \/ /\ f.kind = "CloseOk"
        /\ Fail("ClientClosedConnection", "Closing")
        /\ UNCHANGED <<rx, tx>>
     \/ /\ f.kind # "CloseOk"
        /\ Accept("Closing")
  /\ UNCHANGED <<outbuf, serverPos, ourPos>>

\* Mutant: Steady switches to Closing as soon as our close is queued.
ProcessSteadyClosingEarly(f) ==
  /\ cstate = "Steady"
  /\ \/ /\ f.kind = "Close"
        /\ SetServerCloseReq
        /\ UNCHANGED ourPos
        /\ Accept("Steady")
     \/ /\ f.kind # "Close"
        /\ SetOurCloseReq
        /\ UNCHANGED serverPos
        /\ Accept("Closing")

\* The arms for Steady: close is honoured, anything else is answered with
\* our own close (NOT_IMPLEMENTED).
ProcessSteady(f) ==
  /\ cstate = "Steady"
  /\ \/ /\ f.kind = "Close"
        /\ SetServerCloseReq
        /\ UNCHANGED ourPos
     \/ /\ f.kind # "Close"
        /\ SetOurCloseReq
        /\ UNCHANGED serverPos
  /\ Accept("Steady")

Process(f) ==
  \/ ProcessStart(f)
  \/ ProcessSecure(f)
  \/ ProcessOpen(f)
  \/ ProcessClosing(f)
  \/ ProcessSteady(f)

(***************************************************************************)
(* Inner::read_from_stream: the socket is readable.  The frame buffer      *)
(* delivers a complete frame (heartbeats are dropped, the rest go to       *)
(* process), or only part of one, or fails.                                *)
(***************************************************************************)
\* The frame buffer delivers the complete frame f to the callback.
ReadFrame(f) ==
  /\ ServerSends(f)
  /\ \/ /\ f.kind = "Heartbeat"
        /\ rx' = RecordActivity(rx)
        /\ UNCHANGED <<cstate, outbuf, serverPos, ourPos, tx, result>>
     \/ /\ f.kind # "Heartbeat"
        /\ Process(f)

\* read_from fails: the socket closed mid-frame, malformed bytes, or I/O.
ReadError ==
  /\ \E err \in {"Io", "UnexpectedSocketClose", "ReceivedMalformed"} :
        Fail(err, cstate)
  /\ UNCHANGED <<outbuf, serverPos, ourPos, rx, tx>>

ReadFromStream ==
  /\ result = Running
  /\ \/ \E f \in InFrames : ReadFrame(f)
     \/ /\ rx' = RecordActivity(rx)
        /\ UNCHANGED <<cstate, outbuf, serverPos, ourPos, tx, result>>
     \/ ReadError
  /\ UNCHANGED wire

(***************************************************************************)
(* Inner::write_to_stream: the socket is writable.  The write loop hands   *)
(* k bytes to the socket in total.  Each stream.write(&outbuf[pos..]) may  *)
(* write past `len`, so a loop that completes has written any k with       *)
(* len <= k <= Len(outbuf).  It stops early on WouldBlock or an I/O error. *)
(***************************************************************************)
\* The write loop and its bookkeeping, outside Closing.
WriteQueued ==
  /\ \E k \in 0..Len(outbuf) :
       /\ wire' = wire \o SubSeq(outbuf, 1, k)
       /\ tx' = IF k > 0 THEN RecordActivity(tx) ELSE tx
       /\ UNCHANGED rx
       /\ \/ /\ k < WriteLen
             /\ serverPos' = DrainCloseReq(serverPos, k)
             /\ outbuf' = Drain(outbuf, k)
             /\ UNCHANGED <<cstate, ourPos, result>>
          \/ /\ k < WriteLen
             /\ Fail("Io", cstate)
             /\ UNCHANGED <<outbuf, serverPos, ourPos>>
          \/ /\ k >= WriteLen
             /\ WriteLen = 0 => k = 0
             /\ \/ /\ serverPos = WriteLen
                   /\ Fail("ServerClosedConnection", cstate)
                   /\ UNCHANGED <<outbuf, serverPos, ourPos>>
                \/ /\ serverPos # WriteLen
                   /\ cstate' = IF ourPos = WriteLen THEN "Closing" ELSE cstate
                   /\ outbuf' = <<>>
                   /\ UNCHANGED <<serverPos, ourPos, result>>

\* Mutant: the early return for Closing is dropped, so the buffer queued
\* after our close (a heartbeat, say) is written while awaiting close-ok.
WriteToStreamWhileClosing ==
  /\ result = Running
  /\ WriteQueued

WriteToStream ==
  /\ result = Running
  /\ \/ /\ cstate = "Closing"
        /\ outbuf' = <<>>
        /\ UNCHANGED <<cstate, serverPos, ourPos, rx, tx, result, wire>>
     \/ /\ cstate # "Closing"
        /\ WriteQueued

(***************************************************************************)
(* Inner::process_heartbeat_timers: one due timer taken from the wheel.    *)
(* Heartbeat::fire reports StillRunning if activity was recorded since the *)
(* last fire and Expired otherwise, and clears the activity.               *)
(***************************************************************************)
FireRx ==
  /\ result = Running
  /\ rx # "None"
  /\ \/ /\ rx = "Active"
        /\ rx' = "Idle"
        /\ UNCHANGED <<cstate, result>>
     \/ /\ rx = "Idle"
        /\ Fail("MissedServerHeartbeats", cstate)
        /\ UNCHANGED rx
  /\ UNCHANGED <<outbuf, serverPos, ourPos, tx, wire>>

FireTx ==
  /\ result = Running
  /\ tx # "None"
  /\ Len(wire) + Len(outbuf) + FrameLen["Heartbeat"] <= MaxWire
  /\ tx' = "Idle"
  /\ outbuf' = IF tx = "Idle" /\ outbuf = <<>> THEN Serialize("Heartbeat") ELSE outbuf
  /\ UNCHANGED <<cstate, serverPos, ourPos, rx, result, wire>>

(***************************************************************************)
(* EventLoop::main_loop: Poll::poll failed or returned no event.           *)
(***************************************************************************)
PollFails ==
  /\ result = Running
  /\ \E err \in {"Io", "SocketPollTimeout"} : Fail(err, cstate)
  /\ UNCHANGED <<outbuf, serverPos, ourPos, rx, tx, wire>>

(***************************************************************************)
(* EventLoop::new: state Start, empty buffer, no requests, no timers.      *)
(***************************************************************************)
Init ==
  /\ cstate = "Start"
  /\ outbuf = <<>>
  /\ serverPos = NoReq
  /\ ourPos = NoReq
  /\ rx = "None"
  /\ tx = "None"
  /\ result = Running
  /\ wire = <<>>

Next ==
  \/ ReadFromStream
  \/ WriteToStream
  \/ FireRx
  \/ FireTx
  \/ PollFails

Spec == Init /\ [][Next]_vars

(***************************************************************************)
(* Properties.                                                             *)
(***************************************************************************)

\* Every frame of kind b in s ends after some frame of kind a.
Precedes(s, a, b) == \A i \in EndsOf(s, b) : \E j \in EndsOf(s, a) : j < i

HandshakeFrames == {"StartOk", "TuneOk", "Open"}

\* The complete frames of s are start-ok, tune-ok, open, in that order and
\* each once, followed by other frames only.
HandshakeOrdered(s) ==
  /\ \A h \in HandshakeFrames : \A i, j \in EndsOf(s, h) : i = j
  /\ Precedes(s, "StartOk", "TuneOk")
  /\ Precedes(s, "TuneOk", "Open")
  /\ \A g \in OutFrames \ HandshakeFrames : Precedes(s, "Open", g)

\* Spec invariant 2 for server_close_req (write_to_stream, set_server_close_req):
\* while the connection runs and is not Closing, a recorded server close
\* request points exactly at the last byte of the queued close-ok, however
\* the buffer has been drained by partial writes since.
ServerCloseReqMarksCloseOk ==
  (result = Running /\ cstate # "Closing" /\ serverPos # NoReq) =>
     /\ serverPos \in 1..Len(outbuf)
     /\ outbuf[serverPos] = FrameEnd("CloseOk")

\* Spec invariant 2 for our_close_req (write_to_stream, set_our_close_req):
\* while we have not entered Closing, our recorded close request points at
\* the last byte of the queued close.
OurCloseReqMarksClose ==
  (result = Running /\ cstate # "Closing" /\ ourPos # NoReq) =>
     /\ ourPos \in 1..Len(outbuf)
     /\ outbuf[ourPos] = FrameEnd("Close")

\* Spec invariant 4 and the server-close path of write_to_stream: Closing is
\* entered only once our whole close frame is on the socket, and the loop
\* reports ServerClosedConnection only once the whole close-ok is.
ClosingAfterCloseSent ==
  /\ cstate = "Closing" => Sent("Close")
  /\ result = "ServerClosedConnection" => Sent("CloseOk")

\* set_server_close_req keeps only the first close: however many close
\* frames the server sends, at most one close-ok reaches the socket.
CloseOkSentAtMostOnce ==
  \A i, j \in EndsOf(wire, "CloseOk") : i = j

\* The handshake replies of process() reach the server as start-ok, tune-ok,
\* open, in that order, each once, before any other frame.
HandshakeOrder == HandshakeOrdered(wire)

\* Every byte handed to the socket or still queued, in order.
Committed == wire \o outbuf

\* The final outbuf.clear() of write_to_stream ("there might be data
\* leftover here, but go ahead and clear it anyway"), its WouldBlock drain
\* and the pushes of process() and the tx timer: queued bytes are discarded
\* unsent only by a step that enters Closing or ends the loop.  Every other
\* step keeps what was written and queued, in order, and only appends.
QueuedNeverDropped ==
  [][(result' = Running /\ cstate' # "Closing") =>
       /\ Len(Committed') >= Len(Committed)
       /\ SubSeq(Committed', 1, Len(Committed)) = Committed]_vars

\* The comment of write_to_stream: when closing, we send only up through the
\* serialized close-ok or close; nothing follows either on the socket.
NothingSentAfterClose ==
  \A i \in EndsOf(wire, "Close") \cup EndsOf(wire, "CloseOk") : i = Len(wire)

\* The close handshake as the server sees it (CloseHandshake): the frames
\* on the socket, whether the state machine is Closing, and the result.
CH == INSTANCE CloseHandshake
        WITH closeSent <- Sent("Close"), closeOkSent <- Sent("CloseOk"),
             closing <- (cstate = "Closing"), outcome <- result,
             sentLen <- Len(wire), Errors <- Errors

\* write_to_stream, process() and run() keep the promises of the close
\* handshake: Closing only after our whole close is written, never left,
\* and silent; ServerClosedConnection only after the whole close-ok;
\* ClientClosedConnection only from Closing; nothing after the loop ends.
CloseHandshakeSpec == CH!Spec

=============================================================================
