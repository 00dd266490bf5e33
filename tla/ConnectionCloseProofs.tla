----------------------- MODULE ConnectionCloseProofs -----------------------
(***************************************************************************)
(* Proofs about what reaches the socket around the close handshake: the   *)
(* loop is Closing, or reports ServerClosedConnection, only once the whole *)
(* frame is on the wire, and at most one close-ok is ever sent.            *)
(***************************************************************************)
EXTENDS ConnectionProofs

USE FrameLenAssumption, ClientHeartbeatAssumption, HeartbeatValuesAssumption,
    MaxWireAssumption, ServerFollowsProtocolAssumption

(***************************************************************************)
(* Where the frame ends lie in a concatenation, in a written prefix and in *)
(* what drain_written leaves.                                              *)
(***************************************************************************)
LEMMA EndsConcat ==
  ASSUME NEW w \in Seq(Byte), NEW t \in Seq(Byte), NEW f
  PROVE  EndsOf(w \o t, f) = EndsOf(w, f) \cup {Len(w) + j : j \in EndsOf(t, f)}
<1>1. /\ Len(w \o t) = Len(w) + Len(t)
      /\ \A i \in 1..Len(w) + Len(t) :
            (w \o t)[i] = IF i <= Len(w) THEN w[i] ELSE t[i - Len(w)]
      /\ Len(w) \in Nat /\ Len(t) \in Nat
  BY ConcatProperties, LenProperties
<1>2. EndsOf(w \o t, f) \subseteq EndsOf(w, f) \cup {Len(w) + j : j \in EndsOf(t, f)}
  <2> SUFFICES ASSUME NEW i \in EndsOf(w \o t, f), i \notin EndsOf(w, f)
               PROVE  \E j \in EndsOf(t, f) : i = Len(w) + j
    OBVIOUS
  <2>1. i - Len(w) \in EndsOf(t, f)
    BY <1>1 DEF EndsOf
  <2>2. i \in Int
    BY DEF EndsOf
  <2> QED BY <1>1, <2>1, <2>2
<1>3. EndsOf(w, f) \subseteq EndsOf(w \o t, f)
  BY <1>1 DEF EndsOf
<1>4. \A j \in EndsOf(t, f) : Len(w) + j \in EndsOf(w \o t, f)
  BY <1>1 DEF EndsOf
<1> QED BY <1>2, <1>3, <1>4

LEMMA EndsPrefix ==
  ASSUME NEW buf \in Seq(Byte), NEW k \in 0..Len(buf), NEW f
  PROVE  /\ SubSeq(buf, 1, k) \in Seq(Byte)
         /\ EndsOf(SubSeq(buf, 1, k), f) = {i \in EndsOf(buf, f) : i <= k}
<1>1. /\ SubSeq(buf, 1, k) \in Seq(Byte)
      /\ Len(SubSeq(buf, 1, k)) = k
      /\ \A i \in 1..k : SubSeq(buf, 1, k)[i] = buf[i]
  BY SubSeqProperties
<1> QED BY <1>1 DEF EndsOf

LEMMA EndsDrain ==
  ASSUME NEW buf \in Seq(Byte), NEW k \in 0..Len(buf), NEW f
  PROVE  /\ Drain(buf, k) \in Seq(Byte)
         /\ EndsOf(Drain(buf, k), f) = {i - k : i \in {j \in EndsOf(buf, f) : j > k}}
<1>1. /\ Drain(buf, k) \in Seq(Byte)
      /\ Len(Drain(buf, k)) = Len(buf) - k
      /\ \A i \in 1..(Len(buf) - k) : Drain(buf, k)[i] = buf[k + i]
  BY SubSeqProperties DEF Drain
<1>2. EndsOf(Drain(buf, k), f) \subseteq {i - k : i \in {j \in EndsOf(buf, f) : j > k}}
  <2> SUFFICES ASSUME NEW i \in EndsOf(Drain(buf, k), f)
               PROVE  \E j \in EndsOf(buf, f) : j > k /\ i = j - k
    OBVIOUS
  <2>1. k + i \in EndsOf(buf, f)
    BY <1>1 DEF EndsOf
  <2>2. i \in Int
    BY DEF EndsOf
  <2> QED BY <1>1, <2>1, <2>2 DEF EndsOf
<1>3. \A j \in EndsOf(buf, f) : j > k => j - k \in EndsOf(Drain(buf, k), f)
  <2> SUFFICES ASSUME NEW j \in EndsOf(buf, f), j > k
               PROVE  j - k \in EndsOf(Drain(buf, k), f)
    OBVIOUS
  <2>1. j - k \in 1..(Len(buf) - k) /\ buf[j] = FrameEnd(f)
    BY LenProperties DEF EndsOf
  <2>2. Drain(buf, k)[j - k] = buf[j]
    BY <1>1, <2>1 DEF EndsOf
  <2> QED BY <1>1, <2>1, <2>2 DEF EndsOf
<1> QED BY <1>1, <1>2, <1>3

(***************************************************************************)
(* The socket only ever receives more bytes: a frame that was sent stays   *)
(* sent, and a write of k bytes sends every frame that ends among them.    *)
(***************************************************************************)
LEMMA SentKept ==
  ASSUME wire \in Seq(Byte), NEW t \in Seq(Byte), wire' = wire \o t, NEW f,
         Sent(f)
  PROVE  Sent(f)'
BY EndsConcat DEF Sent

LEMMA SentWritten ==
  ASSUME wire \in Seq(Byte), NEW buf \in Seq(Byte), NEW k \in 0..Len(buf),
         NEW i \in 1..k, NEW f, buf[i] = FrameEnd(f),
         wire' = wire \o SubSeq(buf, 1, k)
  PROVE  Sent(f)'
<1>1. SubSeq(buf, 1, k) \in Seq(Byte) /\ i \in EndsOf(SubSeq(buf, 1, k), f)
  BY EndsPrefix DEF EndsOf
<1>2. EndsOf(wire \o SubSeq(buf, 1, k), f)
        = EndsOf(wire, f) \cup {Len(wire) + j : j \in EndsOf(SubSeq(buf, 1, k), f)}
  BY <1>1, EndsConcat
<1>3. EndsOf(wire', f) # {}
  BY <1>1, <1>2
<1> QED BY <1>3 DEF Sent

(***************************************************************************)
(* Our close request.  A partial write leaves our_close_req.pos where it   *)
(* was (the stale position of finding 1), but the queued close only moves  *)
(* towards the front: it ends at or before the recorded position, or it    *)
(* has already been written.                                               *)
(***************************************************************************)
Queued(buf, p) == \E i \in 1..Len(buf) : i <= p /\ buf[i] = FrameEnd("Close")

OurCloseQueued ==
  (result = Running /\ cstate # "Closing" /\ ourPos # NoReq) =>
     Sent("Close") \/ Queued(outbuf, ourPos)

\* The inductive invariant behind ClosingAfterCloseSent.
CInv == IInv /\ OurCloseQueued /\ ClosingAfterCloseSent

LEMMA AppendQueued ==
  ASSUME NEW buf \in Seq(Byte), NEW t \in Seq(Byte), NEW p, Queued(buf, p)
  PROVE  Queued(buf \o t, p)
BY AppendKeeps DEF Queued

\* set_our_close_req pushes the close and records the offset of its end.
LEMMA QueuedPush ==
  ASSUME NEW buf \in Seq(Byte)
  PROVE  Queued(buf \o Serialize("Close"), Len(buf) + FrameLen["Close"])
<1>1. "Close" \in OutFrames /\ FrameLen["Close"] \in Nat \ {0} /\ Len(buf) \in Nat
  BY LenProperties DEF OutFrames
<1>2. /\ Len(buf \o Serialize("Close")) = Len(buf) + FrameLen["Close"]
      /\ (buf \o Serialize("Close"))[Len(buf) + FrameLen["Close"]] = FrameEnd("Close")
  BY <1>1, PushFacts
<1> QED BY <1>1, <1>2 DEF Queued

(***************************************************************************)
(* Two shapes of step.  A step that stops the loop with an error other     *)
(* than ServerClosedConnection keeps the invariant provided it only stops  *)
(* in Closing once the close is out; a step that keeps the loop running   *)
(* outside Closing keeps it provided our close stays queued or sent.       *)
(***************************************************************************)
LEMMA CloseFail ==
  ASSUME NEW err \in Errors \ {"ServerClosedConnection"}, NEW st, Fail(err, st),
         st = "Closing" => Sent("Close")'
  PROVE  OurCloseQueued' /\ ClosingAfterCloseSent'
BY DEF Fail, Errors, Running, OurCloseQueued, ClosingAfterCloseSent

LEMMA CloseRun ==
  ASSUME result' = Running, cstate' # "Closing",
         ourPos' # NoReq => Sent("Close")' \/ Queued(outbuf', ourPos')
  PROVE  OurCloseQueued' /\ ClosingAfterCloseSent'
BY DEF Running, OurCloseQueued, ClosingAfterCloseSent

(***************************************************************************)
(* process() keeps the invariant: the handshake arms append behind our     *)
(* close, Steady pushes the close and records its end, Closing stays       *)
(* Closing, and no arm fails with ServerClosedConnection.                  *)
(***************************************************************************)
LEMMA CloseProcess ==
  ASSUME CInv, result = Running, NEW f \in InFrames, Process(f), UNCHANGED wire
  PROVE  OurCloseQueued' /\ ClosingAfterCloseSent'
<1>0. TypeOK
  BY DEF CInv, IInv
<1>1. Sent("Close")' = Sent("Close")
  BY DEF Sent
<1>2. (cstate # "Closing" /\ ourPos # NoReq) => Sent("Close") \/ Queued(outbuf, ourPos)
  BY DEF CInv, OurCloseQueued
<1>3. cstate = "Closing" => Sent("Close")
  BY DEF CInv, ClosingAfterCloseSent
<1>4. ASSUME NEW t \in Seq(Byte), outbuf' = outbuf \o t, UNCHANGED ourPos,
             cstate # "Closing"
      PROVE  ourPos' # NoReq => Sent("Close")' \/ Queued(outbuf', ourPos')
  BY <1>0, <1>1, <1>2, <1>4, AppendQueued DEF TypeOK
<1>5. ASSUME UNCHANGED <<outbuf, ourPos>>, cstate # "Closing"
      PROVE  ourPos' # NoReq => Sent("Close")' \/ Queued(outbuf', ourPos')
  BY <1>1, <1>2, <1>5
<1>6. \A g \in OutFrames : Serialize(g) \in Seq(Byte)
  BY SerializeFacts
<1>7. CASE ProcessStart(f)
  <2>1. CASE outbuf' = outbuf \o Serialize("StartOk") /\ Accept("Secure")
             /\ UNCHANGED ourPos
    BY <1>7, <2>1, <1>4, <1>6, CloseRun DEF Accept, ProcessStart, OutFrames
  <2>2. CASE \E e \in Errors \ {"ServerClosedConnection"} : Fail(e, "Start")
    BY <2>2, CloseFail
  <2> QED BY <1>7, <2>1, <2>2 DEF ProcessStart, Errors
<1>8. CASE ProcessSecure(f)
  <2>1. CASE /\ outbuf' = outbuf \o Serialize("TuneOk") \o Serialize("Open")
             /\ cstate' = "Open" /\ UNCHANGED <<result, ourPos>>
    <3>1. outbuf \o Serialize("TuneOk") \in Seq(Byte)
      BY <1>0, PushFacts DEF TypeOK, OutFrames
    <3>2. CASE ourPos # NoReq /\ Queued(outbuf, ourPos)
      <4>1. Queued(outbuf \o Serialize("TuneOk"), ourPos)
        BY <3>2, <1>0, <1>6, AppendQueued DEF TypeOK, OutFrames
      <4> QED BY <2>1, <3>1, <4>1, <1>6, AppendQueued, CloseRun DEF OutFrames
    <3>3. CASE ourPos = NoReq \/ Sent("Close")
      BY <2>1, <3>3, <1>1, CloseRun
    <3> QED BY <1>8, <1>2, <3>2, <3>3 DEF ProcessSecure
  <2>2. CASE \E e \in Errors \ {"ServerClosedConnection"} :
               Fail(e, "Secure") \/ Fail(e, "Tune")
    BY <2>2, CloseFail
  <2> QED BY <1>8, <2>1, <2>2 DEF ProcessSecure, Errors
<1>9. CASE ProcessOpen(f)
  <2>1. CASE Accept("Steady") /\ UNCHANGED <<outbuf, ourPos>>
    BY <1>9, <2>1, <1>5, CloseRun DEF Accept, ProcessOpen
  <2>2. CASE SetServerCloseReq /\ Accept("Open") /\ UNCHANGED ourPos
    <3>1. CASE UNCHANGED outbuf
      BY <1>9, <2>2, <3>1, <1>5, CloseRun DEF Accept, ProcessOpen
    <3>2. CASE outbuf' = outbuf \o Serialize("CloseOk")
      BY <1>9, <2>2, <3>2, <1>4, <1>6, CloseRun DEF Accept, ProcessOpen, OutFrames
    <3> QED BY <2>2, <3>1, <3>2 DEF SetServerCloseReq
  <2>3. CASE \E e \in Errors \ {"ServerClosedConnection"} : Fail(e, "Open")
    BY <2>3, CloseFail
  <2> QED BY <1>9, <2>1, <2>2, <2>3 DEF ProcessOpen, Errors
<1>10. CASE ProcessClosing(f)
  <2>1. Sent("Close")'
    BY <1>10, <1>1, <1>3 DEF ProcessClosing
  <2>2. CASE Fail("ClientClosedConnection", "Closing")
    BY <2>1, <2>2, CloseFail DEF Errors
  <2>3. CASE Accept("Closing")
    BY <2>1, <2>3 DEF Accept, OurCloseQueued, ClosingAfterCloseSent, Running
  <2> QED BY <1>10, <2>2, <2>3 DEF ProcessClosing
<1>11. CASE ProcessSteady(f)
  <2>0. cstate' = "Steady" /\ result' = Running
    BY <1>11 DEF ProcessSteady, Accept
  <2>1. CASE SetServerCloseReq /\ UNCHANGED ourPos
    <3>1. CASE UNCHANGED outbuf
      BY <1>11, <2>0, <2>1, <3>1, <1>5, CloseRun DEF ProcessSteady
    <3>2. CASE outbuf' = outbuf \o Serialize("CloseOk")
      BY <1>11, <2>0, <2>1, <3>2, <1>4, <1>6, CloseRun DEF ProcessSteady, OutFrames
    <3> QED BY <2>1, <3>1, <3>2 DEF SetServerCloseReq
  <2>2. CASE SetOurCloseReq
    <3>1. CASE ourPos # NoReq /\ UNCHANGED <<outbuf, ourPos>>
      BY <1>11, <2>0, <3>1, <1>5, CloseRun DEF ProcessSteady
    <3>2. CASE outbuf' = outbuf \o Serialize("Close")
               /\ ourPos' = Len(outbuf) + FrameLen["Close"]
      BY <2>0, <3>2, <1>0, QueuedPush, CloseRun DEF TypeOK
    <3> QED BY <2>2, <3>1, <3>2 DEF SetOurCloseReq
  <2> QED BY <1>11, <2>1, <2>2 DEF ProcessSteady
<1> QED BY <1>7, <1>8, <1>9, <1>10, <1>11 DEF Process

(***************************************************************************)
(* write_to_stream keeps the invariant.  A partial write either sends our  *)
(* close or moves it k bytes nearer the front; Closing is entered only     *)
(* when the write reached our_close_req.pos, so the close's end is among   *)
(* the bytes written; a complete write that enters no Closing wrote the    *)
(* whole buffer; and ServerClosedConnection is returned only when the     *)
(* write reached server_close_req.pos, the end of the close-ok.            *)
(***************************************************************************)
LEMMA CloseWrite ==
  ASSUME CInv, WriteToStream
  PROVE  OurCloseQueued' /\ ClosingAfterCloseSent'
<1>0. TypeOK /\ ServerCloseReqMarksCloseOk
  BY DEF CInv, IInv
<1>1. CASE cstate = "Closing"
  <2>1. Sent("Close")' /\ cstate' = "Closing" /\ result' = Running
    BY <1>1 DEF WriteToStream, WriteQueued, CInv, ClosingAfterCloseSent, Sent
  <2> QED BY <2>1 DEF OurCloseQueued, ClosingAfterCloseSent, Running
<1>2. CASE cstate # "Closing"
  <2>0. /\ result = Running
        /\ ourPos # NoReq => Sent("Close") \/ Queued(outbuf, ourPos)
    BY <1>2 DEF WriteToStream, WriteQueued, CInv, OurCloseQueued
  <2>1. /\ WriteLen \in 0..Len(outbuf)
        /\ ourPos # NoReq => WriteLen <= ourPos
        /\ WriteLen \in {Len(outbuf), serverPos, ourPos}
    BY <1>0, WriteLenFacts
  <2>2. PICK k \in 0..Len(outbuf) :
           /\ wire' = wire \o SubSeq(outbuf, 1, k)
           /\ \/ /\ k < WriteLen
                 /\ outbuf' = Drain(outbuf, k)
                 /\ UNCHANGED <<cstate, ourPos, result>>
              \/ /\ k < WriteLen
                 /\ Fail("Io", cstate)
              \/ /\ k >= WriteLen
                 /\ serverPos = WriteLen
                 /\ Fail("ServerClosedConnection", cstate)
              \/ /\ k >= WriteLen
                 /\ serverPos # WriteLen
                 /\ cstate' = IF ourPos = WriteLen THEN "Closing" ELSE cstate
                 /\ UNCHANGED <<ourPos, result>>
    BY <1>2 DEF WriteToStream, WriteQueued
  <2>3. SubSeq(outbuf, 1, k) \in Seq(Byte)
    BY <1>0, SubSeqProperties DEF TypeOK
  <2>4. Sent("Close") => Sent("Close")'
    BY <1>0, <2>2, <2>3, SentKept DEF TypeOK
  \* Our close ends among the first k bytes, or it was already sent.
  <2>5. ASSUME ourPos # NoReq, ourPos <= k
        PROVE  Sent("Close")'
    <3>1. CASE Sent("Close")
      BY <3>1, <2>4
    <3>2. CASE Queued(outbuf, ourPos)
      <4>1. PICK i \in 1..Len(outbuf) : i <= ourPos /\ outbuf[i] = FrameEnd("Close")
        BY <3>2 DEF Queued
      <4>2. i \in 1..k /\ outbuf \in Seq(Byte) /\ wire \in Seq(Byte)
        BY <4>1, <2>5, <1>0 DEF TypeOK, NoReq
      <4> QED BY <4>1, <4>2, <2>2, SentWritten
    <3> QED BY <2>0, <2>5, <3>1, <3>2
  <2>6. CASE k < WriteLen /\ outbuf' = Drain(outbuf, k)
             /\ UNCHANGED <<cstate, ourPos, result>>
    <3>1. ASSUME ourPos # NoReq, Queued(outbuf, ourPos)
          PROVE  Sent("Close")' \/ Queued(outbuf', ourPos')
      <4>1. PICK i \in 1..Len(outbuf) : i <= ourPos /\ outbuf[i] = FrameEnd("Close")
        BY <3>1 DEF Queued
      <4>2. CASE i <= k
        <5>1. i \in 1..k /\ outbuf \in Seq(Byte) /\ wire \in Seq(Byte)
          BY <4>1, <4>2, <1>0 DEF TypeOK
        <5> QED BY <4>1, <5>1, <2>2, SentWritten
      <4>3. CASE i > k
        <5>0. k \in 0..(i - 1) /\ outbuf \in Seq(Byte)
          BY <4>1, <4>3, <1>0, LenProperties DEF TypeOK
        <5>1. i - k \in 1..Len(Drain(outbuf, k)) /\ Drain(outbuf, k)[i - k] = outbuf[i]
          BY <4>1, <5>0, DrainKeeps
        <5>2. i - k <= ourPos
          BY <4>1, <1>0 DEF TypeOK
        <5> QED BY <2>6, <5>1, <5>2, <4>1 DEF Queued
      <4> QED BY <4>2, <4>3
    <3> QED BY <2>0, <2>4, <2>6, <3>1, <1>2, CloseRun
  <2>7. CASE k < WriteLen /\ Fail("Io", cstate)
    BY <2>7, <1>2, CloseFail DEF Errors
  <2>8. CASE k >= WriteLen /\ serverPos = WriteLen
             /\ Fail("ServerClosedConnection", cstate)
    <3>1. serverPos \in 1..Len(outbuf) /\ outbuf[serverPos] = FrameEnd("CloseOk")
      BY <2>0, <2>1, <2>8, <1>0, <1>2 DEF ServerCloseReqMarksCloseOk, NoReq
    <3>2. Sent("CloseOk")'
      BY <3>1, <2>8, <1>0, <2>2, SentWritten DEF TypeOK
    <3> QED BY <3>2, <2>8, <1>2 DEF Fail, OurCloseQueued, ClosingAfterCloseSent, Running
  <2>9. CASE /\ k >= WriteLen /\ serverPos # WriteLen
             /\ cstate' = IF ourPos = WriteLen THEN "Closing" ELSE cstate
             /\ UNCHANGED <<ourPos, result>>
    <3>1. CASE ourPos = WriteLen
      <4>1. Sent("Close")'
        BY <3>1, <2>9, <2>1, <2>5 DEF NoReq
      <4> QED BY <4>1, <3>1, <2>9, <2>0 DEF OurCloseQueued, ClosingAfterCloseSent, Running
    <3>2. CASE ourPos # WriteLen
      <4>1. WriteLen = Len(outbuf) /\ k = Len(outbuf)
        BY <3>2, <2>9, <2>1
      <4>2. ourPos # NoReq => Sent("Close")'
        <5>1. CASE Sent("Close")
          BY <5>1, <2>4
        <5>2. CASE ourPos # NoReq /\ Queued(outbuf, ourPos)
          <6>1. PICK i \in 1..Len(outbuf) : outbuf[i] = FrameEnd("Close")
            BY <5>2 DEF Queued
          <6> QED BY <6>1, <4>1, <1>0, <2>2, SentWritten DEF TypeOK
        <5> QED BY <2>0, <5>1, <5>2
      <4> QED BY <4>2, <3>2, <2>9, <2>0, <1>2, CloseRun
    <3> QED BY <3>1, <3>2
  <2> QED BY <2>2, <2>6, <2>7, <2>8, <2>9
<1> QED BY <1>1, <1>2

\* read_from_stream: process(), a dropped heartbeat or partial frame, or a
\* read error, which stops the loop in the state it was in.
LEMMA CloseRead ==
  ASSUME CInv, ReadFromStream
  PROVE  OurCloseQueued' /\ ClosingAfterCloseSent'
<1>1. CASE \E f \in InFrames : f.kind # "Heartbeat" /\ Process(f)
  BY <1>1, CloseProcess DEF ReadFromStream
<1>2. CASE UNCHANGED <<cstate, outbuf, ourPos, result>>
  BY <1>2 DEF ReadFromStream, CInv, OurCloseQueued, ClosingAfterCloseSent, Sent
<1>3. CASE \E e \in Errors \ {"ServerClosedConnection"} : Fail(e, cstate)
  <2>1. cstate = "Closing" => Sent("Close")'
    BY DEF ReadFromStream, CInv, ClosingAfterCloseSent, Sent
  <2> QED BY <1>3, <2>1, CloseFail
<1> QED BY <1>1, <1>2, <1>3 DEF ReadFromStream, ReadFrame, ReadError, Errors

LEMMA CloseInit == Init => CInv
BY MarksInit DEF Init, CInv, OurCloseQueued, ClosingAfterCloseSent, NoReq, Running

LEMMA CloseNext == CInv /\ [Next]_vars => CInv'
<1> SUFFICES ASSUME CInv, [Next]_vars PROVE CInv'
  OBVIOUS
<1>0. IInv'
  BY MarksNext DEF CInv
<1> SUFFICES OurCloseQueued' /\ ClosingAfterCloseSent'
  BY <1>0 DEF CInv
<1>1. CASE ReadFromStream
  BY <1>1, CloseRead
<1>2. CASE WriteToStream
  BY <1>2, CloseWrite
<1>3. CASE FireRx \/ PollFails
  <2>1. cstate = "Closing" => Sent("Close")'
    BY <1>3 DEF FireRx, PollFails, CInv, ClosingAfterCloseSent, Sent
  <2>2. CASE UNCHANGED <<cstate, result>>
    BY <1>3, <2>2 DEF FireRx, PollFails, Fail, Errors, CInv, OurCloseQueued,
                      ClosingAfterCloseSent, Sent
  <2>3. CASE \E e \in Errors \ {"ServerClosedConnection"} : Fail(e, cstate)
    BY <2>1, <2>3, CloseFail
  <2> QED BY <1>3, <2>2, <2>3 DEF FireRx, PollFails, Errors
<1>4. CASE FireTx
  \* A heartbeat replaces outbuf only when it is empty, and an empty buffer
  \* queues no close.
  <2>1. ~Queued(<<>>, ourPos)
    BY DEF Queued
  <2>2. CASE outbuf = <<>>
    BY <1>4, <2>1, <2>2 DEF FireTx, CInv, OurCloseQueued, ClosingAfterCloseSent, Sent
  <2>3. CASE outbuf # <<>>
    BY <1>4, <2>3 DEF FireTx, CInv, OurCloseQueued, ClosingAfterCloseSent, Sent
  <2> QED BY <2>2, <2>3
<1>5. CASE UNCHANGED vars
  BY <1>5 DEF vars, CInv, OurCloseQueued, ClosingAfterCloseSent, Sent
<1> QED BY <1>1, <1>2, <1>3, <1>4, <1>5 DEF Next

\* Spec invariant 4 and the server-close path of write_to_stream, for every
\* frame length and heartbeat: the loop enters Closing only once our whole
\* close is on the socket, across the stale our_close_req.pos that partial
\* writes leave behind, and reports ServerClosedConnection only once the
\* whole close-ok is.
THEOREM ClosingCorrect == Spec => []ClosingAfterCloseSent
<1>1. Init => CInv
  BY CloseInit
<1>2. CInv /\ [Next]_vars => CInv'
  BY CloseNext
<1>3. CInv => ClosingAfterCloseSent
  BY DEF CInv
<1> QED BY <1>1, <1>2, <1>3, PTL DEF Spec

(***************************************************************************)
(* At most one close-ok.  push_method of frame g adds one frame end, of    *)
(* kind g, at the new end of the buffer.                                   *)
(***************************************************************************)
LEMMA EndsSerialize ==
  ASSUME NEW g \in OutFrames, NEW f
  PROVE  EndsOf(Serialize(g), f) = IF g = f THEN {FrameLen[g]} ELSE {}
<1>1. Serialize(g) \in Seq(Byte) /\ Len(Serialize(g)) = FrameLen[g]
  BY SerializeFacts
<1>2. FrameLen[g] \in Nat \ {0}
  OBVIOUS
<1>3. \A i \in 1..FrameLen[g] :
         (Serialize(g)[i] = FrameEnd(f)) <=> (g = f /\ i = FrameLen[g])
  BY DEF Serialize, FrameEnd
<1> QED BY <1>1, <1>2, <1>3 DEF EndsOf

LEMMA EndsPush ==
  ASSUME NEW buf \in Seq(Byte), NEW g \in OutFrames, NEW f
  PROVE  EndsOf(buf \o Serialize(g), f)
           = EndsOf(buf, f) \cup (IF g = f THEN {Len(buf) + FrameLen[g]} ELSE {})
<1>1. Serialize(g) \in Seq(Byte)
  BY SerializeFacts
<1>2. EndsOf(buf \o Serialize(g), f)
        = EndsOf(buf, f) \cup {Len(buf) + j : j \in EndsOf(Serialize(g), f)}
  BY <1>1, EndsConcat
<1> QED BY <1>2, EndsSerialize

AtMostOne(S) == \A i, j \in S : i = j

(***************************************************************************)
(* A write of k bytes.  If the socket already has a frame end of kind f    *)
(* the buffer has none; otherwise the buffer's one end goes either to the  *)
(* socket or stays queued, never both.                                     *)
(***************************************************************************)
LEMMA WriteOnce ==
  ASSUME NEW w \in Seq(Byte), NEW buf \in Seq(Byte), NEW k \in 0..Len(buf), NEW f,
         AtMostOne(EndsOf(w, f)), AtMostOne(EndsOf(buf, f)),
         EndsOf(w, f) # {} => EndsOf(buf, f) = {}
  PROVE  /\ AtMostOne(EndsOf(w \o SubSeq(buf, 1, k), f))
         /\ AtMostOne(EndsOf(Drain(buf, k), f))
         /\ EndsOf(w \o SubSeq(buf, 1, k), f) # {} => EndsOf(Drain(buf, k), f) = {}
         /\ EndsOf(w, f) \cup EndsOf(buf, f) = {} =>
              EndsOf(w \o SubSeq(buf, 1, k), f) \cup EndsOf(Drain(buf, k), f) = {}
<1> DEFINE EW == EndsOf(w, f)
           EB == EndsOf(buf, f)
           EP == {i \in EB : i <= k}
           ED == {i - k : i \in {j \in EB : j > k}}
<1>1. /\ SubSeq(buf, 1, k) \in Seq(Byte)
      /\ EndsOf(SubSeq(buf, 1, k), f) = EP
  BY EndsPrefix
<1>2. EndsOf(Drain(buf, k), f) = ED
  BY EndsDrain
<1>3. EndsOf(w \o SubSeq(buf, 1, k), f) = EW \cup {Len(w) + j : j \in EP}
  <2>0. \A tt \in Seq(Byte) :
          EndsOf(w \o tt, f) = EndsOf(w, f) \cup {Len(w) + j : j \in EndsOf(tt, f)}
    BY EndsConcat
  <2>1. EndsOf(w \o SubSeq(buf, 1, k), f)
          = EW \cup {Len(w) + j : j \in EndsOf(SubSeq(buf, 1, k), f)}
    BY <1>1, <2>0
  <2> QED BY <1>1, <2>1
<1>4. EB \subseteq Int /\ Len(w) \in Int
  BY LenProperties DEF EndsOf
<1>5. CASE EW # {}
  <2>1. EB = {}
    BY <1>5
  <2> QED BY <1>2, <1>3, <1>5, <2>1 DEF AtMostOne
<1>6. CASE EW = {}
  <2>1. AtMostOne(EW \cup {Len(w) + j : j \in EP})
    BY <1>4, <1>6 DEF AtMostOne
  <2>2. AtMostOne(ED)
    BY <1>4 DEF AtMostOne
  <2>3. EP # {} => ED = {}
    BY <1>4 DEF AtMostOne
  <2>4. EB = {} => EP = {} /\ ED = {}
    OBVIOUS
  <2> QED BY <1>2, <1>3, <1>6, <2>1, <2>2, <2>3, <2>4
<1> QED BY <1>5, <1>6

(***************************************************************************)
(* The inductive invariant behind CloseOkSentAtMostOnce: while the loop    *)
(* runs, the buffer holds at most one close-ok, none once one is on the    *)
(* socket, and none at all before the server's close was recorded.         *)
(***************************************************************************)
OkQueued ==
  result = Running =>
     /\ AtMostOne(EndsOf(outbuf, "CloseOk"))
     /\ EndsOf(wire, "CloseOk") # {} => EndsOf(outbuf, "CloseOk") = {}
     /\ serverPos = NoReq =>
           EndsOf(wire, "CloseOk") \cup EndsOf(outbuf, "CloseOk") = {}

OInv == TypeOK /\ CloseOkSentAtMostOnce /\ OkQueued

LEMMA EmptyEnds ==
  ASSUME NEW f
  PROVE  EndsOf(<<>>, f) = {}
BY DEF EndsOf

\* A step that leaves wire and server_close_req alone and queues no close-ok.
LEMMA OkKeep ==
  ASSUME OkQueued, result = Running, UNCHANGED <<wire, serverPos>>,
         EndsOf(outbuf', "CloseOk") = EndsOf(outbuf, "CloseOk")
  PROVE  OkQueued'
BY DEF OkQueued

LEMMA OkStop ==
  ASSUME NEW err \in Errors, NEW st, Fail(err, st)
  PROVE  OkQueued'
BY FailStops DEF OkQueued

\* Appending any frame but close-ok leaves the close-ok ends alone.
LEMMA OkAppend ==
  ASSUME NEW buf \in Seq(Byte), NEW g \in OutFrames \ {"CloseOk"}
  PROVE  /\ buf \o Serialize(g) \in Seq(Byte)
         /\ EndsOf(buf \o Serialize(g), "CloseOk") = EndsOf(buf, "CloseOk")
<1>1. g \in OutFrames /\ g # "CloseOk"
  OBVIOUS
<1>2. EndsOf(buf \o Serialize(g), "CloseOk")
        = EndsOf(buf, "CloseOk") \cup (IF g = "CloseOk" THEN {Len(buf) + FrameLen[g]} ELSE {})
  BY <1>1, EndsPush
<1> QED BY <1>1, <1>2, PushFacts

(***************************************************************************)
(* set_server_close_req pushes a close-ok only for the first close, when   *)
(* neither the socket nor the buffer has one.                              *)
(***************************************************************************)
LEMMA OkServerCloseReq ==
  ASSUME OInv, result = Running, SetServerCloseReq, UNCHANGED <<wire, result>>
  PROVE  OkQueued'
<1>0. TypeOK /\ OkQueued
  BY DEF OInv
<1>1. CASE serverPos # NoReq /\ UNCHANGED <<outbuf, serverPos>>
  BY <1>0, <1>1, OkKeep
<1>2. CASE /\ serverPos = NoReq
           /\ outbuf' = outbuf \o Serialize("CloseOk")
           /\ serverPos' = Len(outbuf) + FrameLen["CloseOk"]
  <2>1. EndsOf(wire, "CloseOk") = {} /\ EndsOf(outbuf, "CloseOk") = {}
    BY <1>0, <1>2 DEF OkQueued
  <2>2. EndsOf(outbuf', "CloseOk") = {Len(outbuf) + FrameLen["CloseOk"]}
    BY <1>0, <1>2, <2>1, EndsPush DEF TypeOK, OutFrames
  <2>3. serverPos' # NoReq
    BY <1>0, <1>2, LenProperties DEF TypeOK, OutFrames, NoReq
  <2> QED BY <1>2, <2>1, <2>2, <2>3 DEF OkQueued, AtMostOne
<1> QED BY <1>1, <1>2 DEF SetServerCloseReq

LEMMA OkProcess ==
  ASSUME OInv, result = Running, NEW f \in InFrames, Process(f), UNCHANGED wire
  PROVE  OkQueued'
<1>0. TypeOK /\ OkQueued
  BY DEF OInv
<1>1. \A g \in OutFrames \ {"CloseOk"} :
         /\ outbuf \o Serialize(g) \in Seq(Byte)
         /\ EndsOf(outbuf \o Serialize(g), "CloseOk") = EndsOf(outbuf, "CloseOk")
  BY <1>0, OkAppend DEF TypeOK
<1>2. CASE ProcessStart(f)
  <2>1. CASE outbuf' = outbuf \o Serialize("StartOk") /\ Accept("Secure")
    BY <1>0, <1>1, <1>2, <2>1, OkKeep DEF ProcessStart, Accept, OutFrames
  <2>2. CASE \E e \in Errors : Fail(e, "Start")
    BY <2>2, OkStop
  <2> QED BY <1>2, <2>1, <2>2 DEF ProcessStart, Errors
<1>3. CASE ProcessSecure(f)
  <2>1. CASE outbuf' = outbuf \o Serialize("TuneOk") \o Serialize("Open")
             /\ UNCHANGED result
    <3>1. /\ outbuf \o Serialize("TuneOk") \in Seq(Byte)
          /\ EndsOf(outbuf \o Serialize("TuneOk"), "CloseOk") = EndsOf(outbuf, "CloseOk")
      BY <1>1 DEF OutFrames
    <3>2. EndsOf(outbuf', "CloseOk") = EndsOf(outbuf, "CloseOk")
      BY <2>1, <3>1, OkAppend DEF OutFrames
    <3> QED BY <1>0, <1>3, <2>1, <3>2, OkKeep DEF ProcessSecure
  <2>2. CASE \E e \in Errors : \E st : Fail(e, st)
    BY <2>2, OkStop
  <2> QED BY <1>3, <2>1, <2>2 DEF ProcessSecure, Errors
<1>4. CASE ProcessOpen(f)
  <2>1. CASE Accept("Steady") /\ UNCHANGED <<outbuf, serverPos>>
    BY <1>0, <1>4, <2>1, OkKeep DEF Accept
  <2>2. CASE SetServerCloseReq /\ Accept("Open")
    BY <2>2, <1>4, OkServerCloseReq DEF Accept
  <2>3. CASE \E e \in Errors : Fail(e, "Open")
    BY <2>3, OkStop
  <2> QED BY <1>4, <2>1, <2>2, <2>3 DEF ProcessOpen, Errors
<1>5. CASE ProcessClosing(f)
  <2>1. CASE Fail("ClientClosedConnection", "Closing")
    BY <2>1, OkStop DEF Errors
  <2>2. CASE Accept("Closing")
    BY <1>0, <1>5, <2>2, OkKeep DEF Accept, ProcessClosing
  <2> QED BY <1>5, <2>1, <2>2 DEF ProcessClosing
<1>6. CASE ProcessSteady(f)
  <2>0. UNCHANGED result
    BY <1>6 DEF ProcessSteady, Accept
  <2>1. CASE SetServerCloseReq
    BY <2>0, <2>1, OkServerCloseReq
  <2>2. CASE SetOurCloseReq /\ UNCHANGED serverPos
    <3>1. CASE UNCHANGED outbuf
      BY <1>0, <2>0, <2>2, <3>1, OkKeep
    <3>2. CASE outbuf' = outbuf \o Serialize("Close")
      BY <1>0, <1>1, <2>0, <2>2, <3>2, OkKeep DEF OutFrames
    <3> QED BY <2>2, <3>1, <3>2 DEF SetOurCloseReq
  <2> QED BY <1>6, <2>1, <2>2 DEF ProcessSteady
<1> QED BY <1>2, <1>3, <1>4, <1>5, <1>6 DEF Process

(***************************************************************************)
(* write_to_stream: in Closing the buffer is discarded unwritten; else k   *)
(* bytes go out, and the close-ok goes either to the socket or stays       *)
(* queued (WriteOnce).  server_close_req stays None or stays Some.         *)
(***************************************************************************)
LEMMA OkWrite ==
  ASSUME OInv, WriteToStream
  PROVE  CloseOkSentAtMostOnce' /\ OkQueued'
<1>0. TypeOK /\ CloseOkSentAtMostOnce /\ OkQueued /\ result = Running
  BY DEF OInv, WriteToStream
<1>1. CASE cstate = "Closing"
  <2>1. outbuf' = <<>> /\ UNCHANGED <<wire, serverPos, result>>
    BY <1>1 DEF WriteToStream, WriteQueued
  <2> QED BY <1>0, <2>1, EmptyEnds DEF OkQueued, CloseOkSentAtMostOnce, AtMostOne
<1>2. CASE cstate # "Closing"
  <2>1. PICK k \in 0..Len(outbuf) :
           /\ wire' = wire \o SubSeq(outbuf, 1, k)
           /\ \/ /\ k < WriteLen
                 /\ serverPos' = DrainCloseReq(serverPos, k)
                 /\ outbuf' = Drain(outbuf, k)
                 /\ UNCHANGED result
              \/ \E e \in Errors : Fail(e, cstate)
              \/ /\ outbuf' = <<>>
                 /\ UNCHANGED <<serverPos, result>>
    BY <1>2 DEF WriteToStream, WriteQueued, Errors
  <2>2. /\ AtMostOne(EndsOf(wire', "CloseOk"))
        /\ AtMostOne(EndsOf(Drain(outbuf, k), "CloseOk"))
        /\ EndsOf(wire', "CloseOk") # {} => EndsOf(Drain(outbuf, k), "CloseOk") = {}
        /\ EndsOf(wire, "CloseOk") \cup EndsOf(outbuf, "CloseOk") = {} =>
             EndsOf(wire', "CloseOk") \cup EndsOf(Drain(outbuf, k), "CloseOk") = {}
    <3>1. /\ wire \in Seq(Byte) /\ outbuf \in Seq(Byte)
          /\ AtMostOne(EndsOf(wire, "CloseOk"))
          /\ AtMostOne(EndsOf(outbuf, "CloseOk"))
          /\ EndsOf(wire, "CloseOk") # {} => EndsOf(outbuf, "CloseOk") = {}
      BY <1>0 DEF TypeOK, OkQueued, CloseOkSentAtMostOnce, AtMostOne
    <3>2. /\ AtMostOne(EndsOf(wire \o SubSeq(outbuf, 1, k), "CloseOk"))
          /\ AtMostOne(EndsOf(Drain(outbuf, k), "CloseOk"))
          /\ EndsOf(wire \o SubSeq(outbuf, 1, k), "CloseOk") # {} =>
               EndsOf(Drain(outbuf, k), "CloseOk") = {}
          /\ EndsOf(wire, "CloseOk") \cup EndsOf(outbuf, "CloseOk") = {} =>
               EndsOf(wire \o SubSeq(outbuf, 1, k), "CloseOk")
                 \cup EndsOf(Drain(outbuf, k), "CloseOk") = {}
      BY <3>1, WriteOnce
    <3> QED BY <2>1, <3>2
  <2>3. CloseOkSentAtMostOnce'
    BY <2>2 DEF CloseOkSentAtMostOnce, AtMostOne
  <2>4. CASE k < WriteLen /\ serverPos' = DrainCloseReq(serverPos, k)
             /\ outbuf' = Drain(outbuf, k) /\ UNCHANGED result
    <3>1. serverPos' = NoReq => serverPos = NoReq
      BY <1>0, <2>4, WriteLenFacts DEF DrainCloseReq, NoReq, TypeOK
    <3> QED BY <1>0, <2>2, <2>3, <2>4, <3>1 DEF OkQueued
  <2>5. CASE \E e \in Errors : Fail(e, cstate)
    BY <2>3, <2>5, OkStop
  <2>6. CASE outbuf' = <<>> /\ UNCHANGED <<serverPos, result>>
    BY <1>0, <2>2, <2>3, <2>6, EmptyEnds DEF OkQueued, AtMostOne
  <2> QED BY <2>1, <2>4, <2>5, <2>6
<1> QED BY <1>1, <1>2

LEMMA OkRead ==
  ASSUME OInv, ReadFromStream
  PROVE  OkQueued'
<1>1. CASE \E f \in InFrames : f.kind # "Heartbeat" /\ Process(f)
  BY <1>1, OkProcess DEF ReadFromStream
<1>2. CASE UNCHANGED <<outbuf, serverPos>>
  BY <1>2, OkKeep DEF ReadFromStream, OInv
<1>3. CASE \E e \in Errors : Fail(e, cstate)
  BY <1>3, OkStop
<1> QED BY <1>1, <1>2, <1>3 DEF ReadFromStream, ReadFrame, ReadError, Errors

LEMMA OkInit == Init => OInv
BY TypeInit, EmptyEnds DEF Init, OInv, OkQueued, CloseOkSentAtMostOnce, AtMostOne

LEMMA OkNext == OInv /\ [Next]_vars => OInv'
<1> SUFFICES ASSUME OInv, [Next]_vars PROVE OInv'
  OBVIOUS
<1>0. TypeOK' /\ TypeOK /\ OkQueued
  BY TypeNext DEF OInv
<1> SUFFICES CloseOkSentAtMostOnce' /\ OkQueued'
  BY <1>0 DEF OInv
<1>1. CASE ReadFromStream
  BY <1>1, OkRead DEF ReadFromStream, OInv, CloseOkSentAtMostOnce
<1>2. CASE WriteToStream
  BY <1>2, OkWrite
<1>3. CASE FireRx \/ PollFails
  <2>1. CloseOkSentAtMostOnce'
    BY <1>3 DEF FireRx, PollFails, OInv, CloseOkSentAtMostOnce
  <2>2. CASE \E e \in Errors : Fail(e, cstate)
    BY <2>1, <2>2, OkStop
  <2>3. CASE UNCHANGED result
    BY <1>0, <1>3, <2>1, <2>3, OkKeep DEF FireRx, PollFails
  <2> QED BY <1>3, <2>2, <2>3 DEF FireRx, PollFails, Errors
<1>4. CASE FireTx
  <2>1. EndsOf(outbuf', "CloseOk") = EndsOf(outbuf, "CloseOk")
    <3>1. EndsOf(Serialize("Heartbeat"), "CloseOk") = {}
      BY EndsSerialize DEF OutFrames
    <3> QED BY <1>4, <3>1, EmptyEnds DEF FireTx
  <2> QED BY <1>0, <1>4, <2>1, OkKeep DEF FireTx, OInv, CloseOkSentAtMostOnce
<1>5. CASE UNCHANGED vars
  BY <1>5 DEF vars, OInv, OkQueued, CloseOkSentAtMostOnce
<1> QED BY <1>1, <1>2, <1>3, <1>4, <1>5 DEF Next

\* set_server_close_req keeps only the first close of the server, for every
\* frame length: however many close frames arrive and however the writes
\* are split, at most one close-ok reaches the socket.
THEOREM CloseOkOnceCorrect == Spec => []CloseOkSentAtMostOnce
<1>1. Init => OInv
  BY OkInit
<1>2. OInv /\ [Next]_vars => OInv'
  BY OkNext
<1>3. OInv => CloseOkSentAtMostOnce
  BY DEF OInv
<1> QED BY <1>1, <1>2, <1>3, PTL DEF Spec

(***************************************************************************)
(* Refinement of the close handshake (CloseHandshakeSpec).  Under the      *)
(* mapping of Connection.tla a step of a handler is a step of              *)
(* CloseHandshake or a stutter; entering Closing and ending with           *)
(* ServerClosedConnection need ClosingAfterCloseSent in the new state,     *)
(* which CInv provides.                                                    *)
(***************************************************************************)
\* A write hands bytes to the socket: what was sent stays sent.
LEMMA WireSends ==
  ASSUME TypeOK, NEW t \in Seq(Byte), wire' = wire \o t
  PROVE  CH!Sends
<1>1. Sent("Close") => Sent("Close")'
  BY SentKept DEF TypeOK
<1>2. Sent("CloseOk") => Sent("CloseOk")'
  BY SentKept DEF TypeOK
<1>3. Len(wire') = Len(wire) + Len(t) /\ Len(wire) \in Nat /\ Len(t) \in Nat
  BY ConcatProperties, LenProperties DEF TypeOK
<1> QED BY <1>1, <1>2, <1>3 DEF CH!Sends, Sent

\* A step that writes nothing.
LEMMA WireQuiet ==
  ASSUME TypeOK, UNCHANGED wire
  PROVE  CH!Sends /\ CH!Quiet
<1>1. Len(wire) \in Nat
  BY LenProperties DEF TypeOK
<1> QED BY <1>1 DEF CH!Sends, CH!Quiet, Sent

LEMMA HandshakeInit == Init => CH!Init
BY EmptyEnds DEF Init, CH!Init, Sent, Running, CH!Running

(***************************************************************************)
(* What a read does to the mapped state: nothing is written, and either    *)
(* the result and Closing stay, or the loop ends with an error other than  *)
(* the two close errors, or close-ok ends it in Closing.                   *)
(***************************************************************************)
ReadShape ==
  \/ UNCHANGED result /\ (cstate' = "Closing") = (cstate = "Closing")
  \/ /\ result' \in Errors \ {"ServerClosedConnection", "ClientClosedConnection"}
     /\ (cstate' = "Closing") = (cstate = "Closing")
  \/ result' = "ClientClosedConnection" /\ cstate = "Closing" /\ cstate' = "Closing"

LEMMA ReadShapes ==
  ASSUME ReadFromStream
  PROVE  UNCHANGED wire /\ ReadShape
<1>1. UNCHANGED wire
  BY DEF ReadFromStream
<1> SUFFICES ReadShape
  BY <1>1
<1>2. CASE \E f \in InFrames : f.kind # "Heartbeat" /\ Process(f)
  <2>1. PICK f \in InFrames : Process(f)
    BY <1>2
  <2>2. CASE ProcessStart(f)
    BY <2>2 DEF ProcessStart, Accept, Fail, Errors, ReadShape
  <2>3. CASE ProcessSecure(f)
    BY <2>3 DEF ProcessSecure, Fail, Errors, ReadShape
  <2>4. CASE ProcessOpen(f)
    BY <2>4 DEF ProcessOpen, Accept, Fail, Errors, ReadShape
  <2>5. CASE ProcessClosing(f)
    BY <2>5 DEF ProcessClosing, Accept, Fail, Errors, ReadShape
  <2>6. CASE ProcessSteady(f)
    BY <2>6 DEF ProcessSteady, Accept, ReadShape
  <2> QED BY <2>1, <2>2, <2>3, <2>4, <2>5, <2>6, <1>1 DEF Process
<1>3. CASE UNCHANGED <<cstate, result>>
  BY <1>1, <1>3 DEF ReadShape
<1>4. CASE \E e \in {"Io", "UnexpectedSocketClose", "ReceivedMalformed"} : Fail(e, cstate)
  BY <1>1, <1>4 DEF Fail, Errors, ReadShape
<1> QED BY <1>2, <1>3, <1>4 DEF ReadFromStream, ReadFrame, ReadError

LEMMA HandshakeStep == CInv /\ CInv' /\ [Next]_vars => [CH!Next]_CH!vars
<1> SUFFICES ASSUME CInv, CInv', [Next]_vars PROVE [CH!Next]_CH!vars
  OBVIOUS
<1>0. TypeOK /\ ClosingAfterCloseSent'
  BY DEF CInv, IInv
<1>1. UNCHANGED <<wire, cstate, result>> => UNCHANGED CH!vars
  BY DEF CH!vars, Sent
\* A step that ends the loop with an error other than the two close errors.
<1>2. ASSUME result = Running, CH!Sends, (cstate = "Closing") => CH!Quiet,
             result' \in Errors \ {"ServerClosedConnection", "ClientClosedConnection"},
             (cstate' = "Closing") = (cstate = "Closing")
      PROVE  CH!Next
  BY <1>2 DEF CH!Next, CH!EndError, CH!ServerClosed, CH!ClientClosed, CH!Running, Running
<1>3. CASE ReadFromStream
  <2>1. UNCHANGED wire /\ ReadShape
    BY <1>3, ReadShapes
  <2>2. CH!Sends /\ CH!Quiet /\ result = Running
    BY <1>0, <1>3, <2>1, WireQuiet DEF ReadFromStream
  <2>3. CASE UNCHANGED result /\ (cstate' = "Closing") = (cstate = "Closing")
    BY <2>1, <2>3 DEF CH!vars, Sent
  <2>4. CASE /\ result' \in Errors \ {"ServerClosedConnection", "ClientClosedConnection"}
             /\ (cstate' = "Closing") = (cstate = "Closing")
    BY <2>2, <2>4, <1>2
  <2>5. CASE result' = "ClientClosedConnection" /\ cstate = "Closing" /\ cstate' = "Closing"
    <3>1. CH!EndClientClosed
      BY <2>2, <2>5 DEF CH!EndClientClosed, CH!ClientClosed, CH!Running, Running
    <3> QED BY <3>1 DEF CH!Next
  <2> QED BY <2>1, <2>3, <2>4, <2>5 DEF ReadShape
<1>4. CASE WriteToStream
  <2>1. CASE cstate = "Closing"
    BY <1>4, <2>1, <1>1 DEF WriteToStream
  <2>2. CASE cstate # "Closing"
    <3>0. result = Running
      BY <1>4 DEF WriteToStream
    <3>1. PICK k \in 0..Len(outbuf) :
             /\ wire' = wire \o SubSeq(outbuf, 1, k)
             /\ \/ UNCHANGED <<cstate, result>>
                \/ Fail("Io", cstate)
                \/ Fail("ServerClosedConnection", cstate)
                \/ /\ cstate' = IF ourPos = WriteLen THEN "Closing" ELSE cstate
                   /\ UNCHANGED result
      BY <1>4, <2>2 DEF WriteToStream, WriteQueued
    <3>2. CH!Sends
      <4>1. SubSeq(outbuf, 1, k) \in Seq(Byte)
        BY <1>0, SubSeqProperties DEF TypeOK
      <4> QED BY <1>0, <3>1, <4>1, WireSends
    <3>3. CASE UNCHANGED <<cstate, result>>
      <4>1. CH!Send
        BY <2>2, <3>0, <3>2, <3>3 DEF CH!Send, CH!Running, Running
      <4> QED BY <4>1 DEF CH!Next
    <3>4. CASE Fail("Io", cstate)
      BY <2>2, <3>0, <3>2, <3>4, <1>2 DEF Fail, Errors
    <3>5. CASE Fail("ServerClosedConnection", cstate) /\ cstate = "Secure"
      BY <2>2, <3>0, <3>2, <3>5, <1>2 DEF Fail, Errors
    <3>6. CASE Fail("ServerClosedConnection", cstate) /\ cstate # "Secure"
      <4>1. result' = "ServerClosedConnection" /\ cstate' = cstate
        BY <3>6 DEF Fail
      <4>2. Sent("CloseOk")'
        BY <1>0, <4>1 DEF ClosingAfterCloseSent
      <4>3. CH!EndServerClosed
        BY <2>2, <3>0, <3>2, <4>1, <4>2
        DEF CH!EndServerClosed, CH!ServerClosed, CH!Running, Running
      <4> QED BY <4>3 DEF CH!Next
    <3>7. CASE /\ cstate' = IF ourPos = WriteLen THEN "Closing" ELSE cstate
               /\ UNCHANGED result
      <4>1. CASE ourPos = WriteLen
        <5>1. cstate' = "Closing" /\ Sent("Close")'
          BY <1>0, <3>7, <4>1 DEF ClosingAfterCloseSent
        <5>2. CH!EnterClosing
          BY <2>2, <3>0, <3>2, <3>7, <5>1 DEF CH!EnterClosing, CH!Running, Running
        <5> QED BY <5>2 DEF CH!Next
      <4>2. CASE ourPos # WriteLen
        <5>1. CH!Send
          BY <2>2, <3>0, <3>2, <3>7, <4>2 DEF CH!Send, CH!Running, Running
        <5> QED BY <5>1 DEF CH!Next
      <4> QED BY <4>1, <4>2
    <3> QED BY <3>1, <3>3, <3>4, <3>5, <3>6, <3>7
  <2> QED BY <2>1, <2>2
<1>5. CASE FireRx \/ PollFails
  <2>1. UNCHANGED wire /\ result = Running
    BY <1>5 DEF FireRx, PollFails
  <2>2. CH!Sends /\ CH!Quiet
    BY <1>0, <2>1, WireQuiet
  <2>3. CASE UNCHANGED <<cstate, result>>
    BY <2>1, <2>3, <1>1
  <2>4. CASE \E e \in {"MissedServerHeartbeats", "Io", "SocketPollTimeout"} : Fail(e, cstate)
    BY <2>1, <2>2, <2>4, <1>2 DEF Fail, Errors
  <2> QED BY <1>5, <2>3, <2>4 DEF FireRx, PollFails
<1>6. CASE FireTx
  BY <1>6, <1>1 DEF FireTx
<1>7. CASE UNCHANGED vars
  BY <1>7, <1>1 DEF vars
<1> QED BY <1>3, <1>4, <1>5, <1>6, <1>7 DEF Next

\* The close path of write_to_stream, process() and run() implements the
\* close handshake: Closing only after our whole close is on the socket,
\* never left and silent; ServerClosedConnection only after the whole
\* close-ok; ClientClosedConnection only from Closing; nothing after the end.
THEOREM ImplementsCloseHandshake == Spec => CloseHandshakeSpec
<1>1. Init => CInv /\ CH!Init
  BY CloseInit, HandshakeInit
<1>2. CInv /\ [Next]_vars => CInv'
  BY CloseNext
<1>3. CInv /\ CInv' /\ [Next]_vars => [CH!Next]_CH!vars
  BY HandshakeStep
<1> QED BY <1>1, <1>2, <1>3, PTL DEF Spec, CloseHandshakeSpec, CH!Spec

=============================================================================
