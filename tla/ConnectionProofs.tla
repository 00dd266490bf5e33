-------------------------- MODULE ConnectionProofs --------------------------
(***************************************************************************)
(* Proofs about the Connection model, for every value of its constants     *)
(* that satisfies the module's assumptions.                                *)
(***************************************************************************)
EXTENDS Connection, SequenceTheorems, TLAPS

USE FrameLenAssumption, ClientHeartbeatAssumption, HeartbeatValuesAssumption,
    MaxWireAssumption, ServerFollowsProtocolAssumption

(***************************************************************************)
(* What push_method appends: FrameLen[f] bytes ending in the frame's end.  *)
(***************************************************************************)
LEMMA SerializeFacts ==
  ASSUME NEW f \in OutFrames
  PROVE  /\ Serialize(f) \in Seq(Byte)
         /\ Len(Serialize(f)) = FrameLen[f]
         /\ Serialize(f)[FrameLen[f]] = FrameEnd(f)
<1>1. FrameLen[f] \in Nat \ {0}
  OBVIOUS
<1>2. \A i \in 1..FrameLen[f] : Serialize(f)[i] \in Byte
  BY DEF Serialize, Byte
<1>3. Serialize(f) \in [1..FrameLen[f] -> Byte]
  BY <1>2 DEF Serialize
<1>4. Serialize(f) \in Seq(Byte) /\ Len(Serialize(f)) = FrameLen[f]
  BY <1>1, <1>3, LenProperties, SeqDef
<1>5. Serialize(f)[FrameLen[f]] = FrameEnd(f)
  <2>1. FrameLen[f] \in 1..FrameLen[f]
    BY <1>1
  <2>2. Serialize(f)[FrameLen[f]] = [frame |-> f, last |-> FrameLen[f] = FrameLen[f]]
    BY <2>1, Zenon DEF Serialize
  <2> QED BY <2>2, Zenon DEF FrameEnd
<1> QED BY <1>4, <1>5

(***************************************************************************)
(* Appending a frame to a buffer of bytes.                                 *)
(***************************************************************************)
LEMMA PushFacts ==
  ASSUME NEW buf \in Seq(Byte), NEW f \in OutFrames
  PROVE  /\ buf \o Serialize(f) \in Seq(Byte)
         /\ Len(buf \o Serialize(f)) = Len(buf) + FrameLen[f]
         /\ \A i \in 1..Len(buf) : (buf \o Serialize(f))[i] = buf[i]
         /\ (buf \o Serialize(f))[Len(buf) + FrameLen[f]] = FrameEnd(f)
<1>1. Serialize(f) \in Seq(Byte) /\ Len(Serialize(f)) = FrameLen[f]
      /\ Serialize(f)[FrameLen[f]] = FrameEnd(f)
  BY SerializeFacts
<1>2. FrameLen[f] \in Nat \ {0}
  OBVIOUS
<1>3. /\ buf \o Serialize(f) \in Seq(Byte)
      /\ Len(buf \o Serialize(f)) = Len(buf) + Len(Serialize(f))
      /\ \A i \in 1..Len(buf) + Len(Serialize(f)) :
            (buf \o Serialize(f))[i]
            = (IF i =< Len(buf) THEN buf[i] ELSE Serialize(f)[i - Len(buf)])
  BY <1>1, ConcatProperties
<1>4. Len(buf) \in Nat
  BY LenProperties
<1>5. (buf \o Serialize(f))[Len(buf) + FrameLen[f]] = Serialize(f)[FrameLen[f]]
  BY <1>1, <1>2, <1>3, <1>4
<1> QED BY <1>1, <1>2, <1>3, <1>4, <1>5

(***************************************************************************)
(* The write loop's length is the smallest of the buffer length and the    *)
(* recorded close positions.                                               *)
(***************************************************************************)
LEMMA WriteLenFacts ==
  ASSUME TypeOK
  PROVE  /\ WriteLen \in 0..Len(outbuf)
         /\ serverPos # NoReq => WriteLen <= serverPos
         /\ ourPos # NoReq => WriteLen <= ourPos
         /\ WriteLen \in {Len(outbuf), serverPos, ourPos}
BY DEF TypeOK, WriteLen, LimitBy, NoReq

(***************************************************************************)
(* Type correctness.                                                       *)
(***************************************************************************)
LEMMA TypeInit == Init => TypeOK
BY EmptySeq DEF Init, TypeOK, NoReq, HeartbeatStates, Running, ConnStates

LEMMA TypeRecordActivity ==
  ASSUME NEW hb \in HeartbeatStates
  PROVE  RecordActivity(hb) \in HeartbeatStates
BY DEF RecordActivity, HeartbeatStates

LEMMA TypeStartHeartbeat ==
  ASSUME NEW n
  PROVE  StartHeartbeat(n) \in HeartbeatStates
BY DEF StartHeartbeat, HeartbeatStates

(***************************************************************************)
(* Recording a close request appends one frame and a position in Nat.      *)
(***************************************************************************)
LEMMA TypeSetServerCloseReq ==
  ASSUME outbuf \in Seq(Byte), serverPos \in Nat \cup {NoReq}, SetServerCloseReq
  PROVE  outbuf' \in Seq(Byte) /\ serverPos' \in Nat \cup {NoReq}
<1>1. Len(outbuf) \in Nat /\ outbuf \o Serialize("CloseOk") \in Seq(Byte)
  BY PushFacts, LenProperties DEF OutFrames
<1>2. FrameLen["CloseOk"] \in Nat
  BY DEF OutFrames
<1>3. CASE serverPos # NoReq /\ UNCHANGED <<outbuf, serverPos>>
  BY <1>3
<1>4. CASE outbuf' = outbuf \o Serialize("CloseOk") /\ serverPos' = Len(outbuf) + FrameLen["CloseOk"]
  BY <1>1, <1>2, <1>4
<1> QED BY <1>3, <1>4 DEF SetServerCloseReq

LEMMA TypeSetOurCloseReq ==
  ASSUME outbuf \in Seq(Byte), ourPos \in Nat \cup {NoReq}, SetOurCloseReq
  PROVE  outbuf' \in Seq(Byte) /\ ourPos' \in Nat \cup {NoReq}
<1>1. Len(outbuf) \in Nat /\ outbuf \o Serialize("Close") \in Seq(Byte)
  BY PushFacts, LenProperties DEF OutFrames
<1>2. FrameLen["Close"] \in Nat
  BY DEF OutFrames
<1>3. CASE ourPos # NoReq /\ UNCHANGED <<outbuf, ourPos>>
  BY <1>3
<1>4. CASE outbuf' = outbuf \o Serialize("Close") /\ ourPos' = Len(outbuf) + FrameLen["Close"]
  BY <1>1, <1>2, <1>4
<1> QED BY <1>3, <1>4 DEF SetOurCloseReq

(***************************************************************************)
(* The steps of process() keep the types; the frame's bytes go to outbuf.  *)
(***************************************************************************)
LEMMA TypeProcess ==
  ASSUME TypeOK, NEW f \in InFrames, Process(f), UNCHANGED wire
  PROVE  TypeOK'
<1> USE DEF TypeOK
<1>1. CASE ProcessStart(f)
  <2>1. outbuf \o Serialize("StartOk") \in Seq(Byte)
    BY PushFacts DEF OutFrames
  <2>2. RecordActivity(rx) \in HeartbeatStates
    BY TypeRecordActivity
  <2> QED BY <1>1, <2>1, <2>2
          DEF ProcessStart, Accept, Fail, Errors, ConnStates
<1>2. CASE ProcessSecure(f)
  <2>1. outbuf \o Serialize("TuneOk") \o Serialize("Open") \in Seq(Byte)
    BY PushFacts DEF OutFrames
  <2>2. /\ StartHeartbeat(NegotiatedHeartbeat(f)) \in HeartbeatStates
        /\ RecordActivity(StartHeartbeat(NegotiatedHeartbeat(f))) \in HeartbeatStates
    BY TypeStartHeartbeat, TypeRecordActivity
  <2> QED BY <1>2, <2>1, <2>2
          DEF ProcessSecure, Fail, Errors, ConnStates
<1>3. SetServerCloseReq => outbuf' \in Seq(Byte) /\ serverPos' \in Nat \cup {NoReq}
  BY TypeSetServerCloseReq
<1>4. SetOurCloseReq => outbuf' \in Seq(Byte) /\ ourPos' \in Nat \cup {NoReq}
  BY TypeSetOurCloseReq
<1>5. RecordActivity(rx) \in HeartbeatStates
  BY TypeRecordActivity
<1>6. CASE ProcessOpen(f)
  BY <1>6, <1>3, <1>5 DEF ProcessOpen, Accept, Fail, Errors, ConnStates
<1>7. CASE ProcessClosing(f)
  BY <1>7, <1>5 DEF ProcessClosing, Accept, Fail, Errors, ConnStates
<1>8. CASE ProcessSteady(f)
  BY <1>8, <1>3, <1>4, <1>5 DEF ProcessSteady, Accept, ConnStates
<1> QED BY <1>1, <1>2, <1>6, <1>7, <1>8 DEF Process

LEMMA TypeRead ==
  ASSUME TypeOK, ReadFromStream
  PROVE  TypeOK'
<1> USE DEF TypeOK
<1>1. RecordActivity(rx) \in HeartbeatStates
  BY TypeRecordActivity
<1>2. CASE \E f \in InFrames : f.kind # "Heartbeat" /\ Process(f)
  BY <1>2, TypeProcess DEF ReadFromStream, ReadFrame
<1>3. CASE ~\E f \in InFrames : f.kind # "Heartbeat" /\ Process(f)
  BY <1>1, <1>3 DEF ReadFromStream, ReadFrame, ReadError, Fail, ConnStates, Errors
<1> QED BY <1>2, <1>3

LEMMA TypeWrite ==
  ASSUME TypeOK, WriteToStream
  PROVE  TypeOK'
<1> USE DEF TypeOK
<1>1. CASE cstate = "Closing"
  BY <1>1 DEF WriteToStream, WriteQueued
<1>2. CASE cstate # "Closing"
  <2>1. PICK k \in 0..Len(outbuf) :
           /\ wire' = wire \o SubSeq(outbuf, 1, k)
           /\ tx' = IF k > 0 THEN RecordActivity(tx) ELSE tx
           /\ UNCHANGED rx
           /\ \/ /\ k < WriteLen
                 /\ serverPos' = DrainCloseReq(serverPos, k)
                 /\ outbuf' = Drain(outbuf, k)
                 /\ UNCHANGED <<cstate, ourPos, result>>
              \/ /\ k < WriteLen
                 /\ Fail("Io", cstate)
                 /\ UNCHANGED <<outbuf, serverPos, ourPos>>
              \/ /\ k >= WriteLen
                 /\ WriteLen = 0 => k = 0
                 /\ \/ /\ serverPos = WriteLen
                       /\ Fail("ServerClosedConnection", cstate)
                       /\ UNCHANGED <<outbuf, serverPos, ourPos>>
                    \/ /\ serverPos # WriteLen
                       /\ cstate' = IF ourPos = WriteLen THEN "Closing" ELSE cstate
                       /\ outbuf' = <<>>
                       /\ UNCHANGED <<serverPos, ourPos, result>>
    BY <1>2 DEF WriteToStream, WriteQueued
  <2>2. SubSeq(outbuf, 1, k) \in Seq(Byte) /\ Drain(outbuf, k) \in Seq(Byte)
    BY SubSeqProperties DEF Drain
  <2>3. wire' \in Seq(Byte)
    BY <2>1, <2>2, ConcatProperties
  <2>4. k < WriteLen => DrainCloseReq(serverPos, k) \in Nat \cup {NoReq}
    BY WriteLenFacts DEF DrainCloseReq, NoReq
  <2>5. tx' \in HeartbeatStates
    BY <2>1, TypeRecordActivity
  <2>6. CASE k < WriteLen /\ serverPos' = DrainCloseReq(serverPos, k)
             /\ outbuf' = Drain(outbuf, k) /\ UNCHANGED <<cstate, ourPos, result>>
    BY <2>1, <2>2, <2>3, <2>4, <2>5, <2>6
  <2>7. CASE Fail("Io", cstate) /\ UNCHANGED <<outbuf, serverPos, ourPos>>
    BY <2>1, <2>3, <2>5, <2>7 DEF Fail, Errors
  <2>8. CASE Fail("ServerClosedConnection", cstate)
             /\ UNCHANGED <<outbuf, serverPos, ourPos>>
    BY <2>1, <2>3, <2>5, <2>8 DEF Fail, Errors
  <2>9. CASE /\ cstate' = IF ourPos = WriteLen THEN "Closing" ELSE cstate
             /\ outbuf' = <<>>
             /\ UNCHANGED <<serverPos, ourPos, result>>
    BY <2>1, <2>3, <2>5, <2>9, EmptySeq DEF ConnStates
  <2> QED BY <2>1, <2>6, <2>7, <2>8, <2>9
<1> QED BY <1>1, <1>2

LEMMA TypeNext == TypeOK /\ [Next]_vars => TypeOK'
<1> SUFFICES ASSUME TypeOK, [Next]_vars PROVE TypeOK'
  OBVIOUS
<1> USE DEF TypeOK
<1>1. CASE ReadFromStream
  BY <1>1, TypeRead
<1>2. CASE WriteToStream
  BY <1>2, TypeWrite
<1>3. CASE FireRx
  BY <1>3 DEF FireRx, Fail, HeartbeatStates, Errors
<1>4. CASE FireTx
  BY <1>4, SerializeFacts DEF FireTx, HeartbeatStates, OutFrames
<1>5. CASE PollFails
  BY <1>5 DEF PollFails, Fail, Errors, ConnStates
<1>6. CASE UNCHANGED vars
  BY <1>6 DEF vars
<1> QED BY <1>1, <1>2, <1>3, <1>4, <1>5, <1>6 DEF Next

\* The model is well typed: the state machine, buffer, close requests,
\* timers and result keep their types under every handler.
THEOREM TypeCorrect == Spec => []TypeOK
BY TypeInit, TypeNext, PTL DEF Spec

(***************************************************************************)
(* Buffer facts behind the close-ok position: appending keeps the bytes    *)
(* already queued, and drain_written(k) moves byte p to p - k.             *)
(***************************************************************************)
LEMMA AppendKeeps ==
  ASSUME NEW buf \in Seq(Byte), NEW t \in Seq(Byte), NEW p \in 1..Len(buf)
  PROVE  p \in 1..Len(buf \o t) /\ (buf \o t)[p] = buf[p]
BY ConcatProperties

LEMMA DrainKeeps ==
  ASSUME NEW buf \in Seq(Byte), NEW p \in 1..Len(buf), NEW k \in 0..(p - 1)
  PROVE  p - k \in 1..Len(Drain(buf, k)) /\ Drain(buf, k)[p - k] = buf[p]
<1>1. k + 1 \in 1..(Len(buf) + 1) /\ Len(buf) \in 0..Len(buf)
  BY LenProperties
<1>2. /\ Len(Drain(buf, k)) = Len(buf) - k
      /\ \A i \in 1..(Len(buf) - k) : Drain(buf, k)[i] = buf[k + 1 + i - 1]
  BY <1>1, SubSeqProperties DEF Drain
<1> QED BY <1>2

(***************************************************************************)
(* The recorded server close request points at the last byte of the       *)
(* queued close-ok.                                                         *)
(***************************************************************************)
MarksCloseOk(p, buf) == p \in 1..Len(buf) /\ buf[p] = FrameEnd("CloseOk")

\* The inductive strengthening: the invariant needs the types.
IInv == TypeOK /\ ServerCloseReqMarksCloseOk

LEMMA SetServerCloseReqMarks ==
  ASSUME TypeOK, SetServerCloseReq,
         serverPos # NoReq => MarksCloseOk(serverPos, outbuf)
  PROVE  serverPos' # NoReq /\ MarksCloseOk(serverPos', outbuf')
<1>1. CASE serverPos # NoReq /\ UNCHANGED <<outbuf, serverPos>>
  BY <1>1
<1>2. CASE /\ serverPos = NoReq
           /\ outbuf' = outbuf \o Serialize("CloseOk")
           /\ serverPos' = Len(outbuf) + FrameLen["CloseOk"]
  <2>1. "CloseOk" \in OutFrames
    BY DEF OutFrames
  <2>2. FrameLen["CloseOk"] \in Nat \ {0} /\ Len(outbuf) \in Nat
    BY <2>1, LenProperties DEF TypeOK
  <2>3. Len(outbuf') = Len(outbuf) + FrameLen["CloseOk"]
        /\ outbuf'[serverPos'] = FrameEnd("CloseOk")
    BY <1>2, <2>1, PushFacts DEF TypeOK
  <2> QED BY <1>2, <2>2, <2>3 DEF MarksCloseOk, NoReq
<1> QED BY <1>1, <1>2 DEF SetServerCloseReq

\* Appending to outbuf without touching serverPos keeps the mark.
LEMMA AppendMarks ==
  ASSUME NEW buf \in Seq(Byte), NEW t \in Seq(Byte), NEW p,
         MarksCloseOk(p, buf)
  PROVE  MarksCloseOk(p, buf \o t)
BY AppendKeeps DEF MarksCloseOk

LEMMA FailStops ==
  ASSUME NEW err \in Errors, NEW st, Fail(err, st)
  PROVE  result' # Running
BY DEF Fail, Errors, Running

(***************************************************************************)
(* process() keeps the close-ok mark: handshake arms only append to        *)
(* outbuf, a close from the server records the first request only.         *)
(***************************************************************************)
LEMMA MarksProcess ==
  ASSUME IInv, result = Running, NEW f \in InFrames, Process(f)
  PROVE  ServerCloseReqMarksCloseOk'
<1> DEFINE Hyp == serverPos # NoReq => MarksCloseOk(serverPos, outbuf)
<1> DEFINE Goal == (result' = Running /\ cstate' # "Closing" /\ serverPos' # NoReq)
                     => MarksCloseOk(serverPos', outbuf')
<1>0. TypeOK
  BY DEF IInv
<1> SUFFICES Goal
  BY DEF ServerCloseReqMarksCloseOk, MarksCloseOk
<1>1. CASE ProcessStart(f)
  <2>1. Hyp
    BY <1>1 DEF IInv, ServerCloseReqMarksCloseOk, MarksCloseOk, ProcessStart
  <2>2. CASE outbuf' = outbuf \o Serialize("StartOk") /\ UNCHANGED serverPos
    BY <2>1, <2>2, <1>0, AppendMarks, SerializeFacts DEF TypeOK, OutFrames
  <2>3. CASE \E e \in Errors : Fail(e, "Start")
    BY <2>3, FailStops
  <2> QED BY <1>1, <2>2, <2>3 DEF ProcessStart, Accept, Errors
<1>2. CASE ProcessSecure(f)
  <2>1. Hyp
    BY <1>2 DEF IInv, ServerCloseReqMarksCloseOk, MarksCloseOk, ProcessSecure
  <2>2. CASE outbuf' = outbuf \o Serialize("TuneOk") \o Serialize("Open")
             /\ UNCHANGED serverPos
    <3>1. outbuf \o Serialize("TuneOk") \in Seq(Byte)
          /\ Serialize("Open") \in Seq(Byte) /\ Serialize("TuneOk") \in Seq(Byte)
      BY <1>0, PushFacts, SerializeFacts DEF TypeOK, OutFrames
    <3> QED BY <2>1, <2>2, <3>1, <1>0, AppendMarks DEF TypeOK
  <2>3. CASE \E e \in Errors : \E st : Fail(e, st)
    BY <2>3, FailStops
  <2> QED BY <1>2, <2>2, <2>3 DEF ProcessSecure, Errors
<1>3. CASE ProcessOpen(f)
  <2>1. Hyp
    BY <1>3 DEF IInv, ServerCloseReqMarksCloseOk, MarksCloseOk, ProcessOpen
  <2>2. CASE SetServerCloseReq
    BY <2>1, <2>2, <1>0, SetServerCloseReqMarks
  <2>3. CASE UNCHANGED <<outbuf, serverPos>>
    BY <2>1, <2>3
  <2>4. CASE \E e \in Errors : Fail(e, "Open")
    BY <2>4, FailStops
  <2> QED BY <1>3, <2>2, <2>3, <2>4 DEF ProcessOpen, Errors
<1>4. CASE ProcessClosing(f)
  <2>1. cstate' = "Closing"
    BY <1>4 DEF ProcessClosing, Accept, Fail
  <2> QED BY <2>1
<1>5. CASE ProcessSteady(f)
  <2>1. Hyp
    BY <1>5 DEF IInv, ServerCloseReqMarksCloseOk, MarksCloseOk, ProcessSteady
  <2>2. CASE SetServerCloseReq
    BY <2>1, <2>2, <1>0, SetServerCloseReqMarks
  <2>3. CASE SetOurCloseReq /\ UNCHANGED serverPos
    <3>1. CASE UNCHANGED outbuf
      BY <2>1, <2>3, <3>1
    <3>2. CASE outbuf' = outbuf \o Serialize("Close")
      BY <2>1, <2>3, <3>2, <1>0, AppendMarks, SerializeFacts DEF TypeOK, OutFrames
    <3> QED BY <2>3, <3>1, <3>2 DEF SetOurCloseReq
  <2> QED BY <1>5, <2>2, <2>3 DEF ProcessSteady
<1> QED BY <1>1, <1>2, <1>3, <1>4, <1>5 DEF Process

(***************************************************************************)
(* write_to_stream keeps the close-ok mark: a partial write drains k bytes *)
(* before the close-ok and moves its position by k; a write that empties   *)
(* outbuf past a pending close-ok must have stopped at our close, and then *)
(* the loop is Closing.                                                    *)
(***************************************************************************)
LEMMA MarksWrite ==
  ASSUME IInv, WriteToStream
  PROVE  ServerCloseReqMarksCloseOk'
<1> DEFINE Goal == (result' = Running /\ cstate' # "Closing" /\ serverPos' # NoReq)
                     => MarksCloseOk(serverPos', outbuf')
<1>0. TypeOK
  BY DEF IInv
<1> SUFFICES Goal
  BY DEF ServerCloseReqMarksCloseOk, MarksCloseOk
<1>1. CASE cstate = "Closing"
  BY <1>1 DEF WriteToStream, WriteQueued
<1>2. CASE cstate # "Closing"
  <2>0. serverPos # NoReq => MarksCloseOk(serverPos, outbuf)
    BY <1>2 DEF WriteToStream, WriteQueued, IInv, ServerCloseReqMarksCloseOk, MarksCloseOk
  <2>1. /\ WriteLen \in 0..Len(outbuf)
        /\ serverPos # NoReq => WriteLen <= serverPos
        /\ WriteLen \in {Len(outbuf), serverPos, ourPos}
    BY <1>0, WriteLenFacts
  <2>2. PICK k \in 0..Len(outbuf) :
           \/ /\ k < WriteLen
              /\ serverPos' = DrainCloseReq(serverPos, k)
              /\ outbuf' = Drain(outbuf, k)
           \/ \E e \in Errors : Fail(e, cstate)
           \/ /\ cstate' = IF ourPos = WriteLen THEN "Closing" ELSE cstate
              /\ serverPos # WriteLen
              /\ UNCHANGED serverPos
    BY <1>2 DEF WriteToStream, WriteQueued, Errors
  <2>3. CASE k < WriteLen /\ serverPos' = DrainCloseReq(serverPos, k)
             /\ outbuf' = Drain(outbuf, k)
    <3>1. CASE serverPos = NoReq
      BY <2>3, <3>1 DEF DrainCloseReq
    <3>2. CASE serverPos # NoReq
      <4>1. serverPos \in 1..Len(outbuf) /\ outbuf[serverPos] = FrameEnd("CloseOk")
        BY <2>0, <3>2 DEF MarksCloseOk
      <4>2. k \in 0..(serverPos - 1)
        BY <2>1, <2>3, <3>2, <4>1
      <4>3. serverPos' = serverPos - k
        BY <2>3, <3>2 DEF DrainCloseReq
      <4> QED BY <4>1, <4>2, <4>3, <2>3, <1>0, DrainKeeps DEF TypeOK, MarksCloseOk
    <3> QED BY <3>1, <3>2
  <2>4. CASE \E e \in Errors : Fail(e, cstate)
    BY <2>4, FailStops
  <2>5. CASE /\ cstate' = IF ourPos = WriteLen THEN "Closing" ELSE cstate
             /\ serverPos # WriteLen
             /\ UNCHANGED serverPos
    <3>1. CASE ourPos = WriteLen
      BY <2>5, <3>1
    <3>2. CASE ourPos # WriteLen /\ serverPos # NoReq
      <4>1. serverPos \in 1..Len(outbuf)
        BY <2>0, <3>2 DEF MarksCloseOk
      <4> QED BY <2>1, <2>5, <3>2, <4>1
    <3>3. CASE serverPos = NoReq
      BY <2>5, <3>3
    <3> QED BY <3>1, <3>2, <3>3
  <2> QED BY <2>2, <2>3, <2>4, <2>5
<1> QED BY <1>1, <1>2

LEMMA MarksRead ==
  ASSUME IInv, ReadFromStream
  PROVE  ServerCloseReqMarksCloseOk'
<1>1. CASE \E f \in InFrames : f.kind # "Heartbeat" /\ Process(f)
  BY <1>1, MarksProcess DEF ReadFromStream, ReadFrame
<1>2. CASE UNCHANGED <<cstate, outbuf, serverPos, result>>
  BY <1>2 DEF IInv, ServerCloseReqMarksCloseOk
<1>3. CASE \E e \in Errors : Fail(e, cstate)
  BY <1>3, FailStops DEF ServerCloseReqMarksCloseOk
<1> QED BY <1>1, <1>2, <1>3 DEF ReadFromStream, ReadFrame, ReadError, Errors

LEMMA MarksInit == Init => IInv
BY TypeInit DEF Init, IInv, ServerCloseReqMarksCloseOk, NoReq

LEMMA MarksNext == IInv /\ [Next]_vars => IInv'
<1> SUFFICES ASSUME IInv, [Next]_vars PROVE IInv'
  OBVIOUS
<1>0. TypeOK'
  BY TypeNext DEF IInv
<1> SUFFICES ServerCloseReqMarksCloseOk'
  BY <1>0 DEF IInv
<1>1. CASE ReadFromStream
  BY <1>1, MarksRead
<1>2. CASE WriteToStream
  BY <1>2, MarksWrite
<1>3. CASE FireRx \/ PollFails
  <2>1. CASE UNCHANGED <<cstate, outbuf, serverPos, result>>
    BY <2>1 DEF IInv, ServerCloseReqMarksCloseOk
  <2>2. CASE \E e \in Errors : Fail(e, cstate)
    BY <2>2, FailStops DEF ServerCloseReqMarksCloseOk
  <2> QED BY <1>3, <2>1, <2>2 DEF FireRx, PollFails, Errors
<1>4. CASE FireTx
  <2>1. CASE outbuf = <<>>
    <3>1. cstate # "Closing" /\ result = Running => serverPos = NoReq
      BY <2>1 DEF IInv, ServerCloseReqMarksCloseOk
    <3> QED BY <1>4, <3>1 DEF FireTx, ServerCloseReqMarksCloseOk
  <2>2. CASE outbuf # <<>>
    BY <1>4, <2>2 DEF FireTx, IInv, ServerCloseReqMarksCloseOk
  <2> QED BY <2>1, <2>2
<1>5. CASE UNCHANGED vars
  BY <1>5 DEF vars, IInv, ServerCloseReqMarksCloseOk
<1> QED BY <1>1, <1>2, <1>3, <1>4, <1>5 DEF Next

\* Spec invariant 2 for server_close_req: until the loop is Closing or has
\* stopped, the recorded position is the end of the queued close-ok, across
\* every partial write (drain_written) and every later push.
THEOREM ServerCloseReqCorrect == Spec => []ServerCloseReqMarksCloseOk
<1>1. Init => IInv
  BY MarksInit
<1>2. IInv /\ [Next]_vars => IInv'
  BY MarksNext
<1>3. IInv => ServerCloseReqMarksCloseOk
  BY DEF IInv
<1> QED BY <1>1, <1>2, <1>3, PTL DEF Spec

=============================================================================
