--------------------- MODULE ConnectionHandshakeProofs ---------------------
(***************************************************************************)
(* Proof that the handshake replies of process() reach the socket in       *)
(* order: start-ok, tune-ok and open, each once, before any other frame    *)
(* (HandshakeOrder).                                                       *)
(*                                                                         *)
(* The argument follows the stream of bytes the loop has committed to:     *)
(* what is on the wire followed by what is still queued.  process() and    *)
(* the heartbeat timer only append to it, a partial write moves bytes from *)
(* the front of outbuf to the wire without changing it, and a completed    *)
(* write or the Closing early return drops its tail.  The order holds of   *)
(* the whole stream, and dropping a tail keeps it; what must be shown is   *)
(* that the tail dropped never holds the open frame that later frames are  *)
(* appended after.                                                         *)
(*                                                                         *)
(* The same stream gives the second result: while the loop runs outside    *)
(* Closing it only grows (QueuedNeverDropped), because a completed write   *)
(* that drops the tail of outbuf has written all of it.                    *)
(***************************************************************************)
EXTENDS ConnectionCloseProofs

USE FrameLenAssumption, ClientHeartbeatAssumption, HeartbeatValuesAssumption,
    MaxWireAssumption, ServerFollowsProtocolAssumption

(***************************************************************************)
(* HandshakeOrdered depends on a sequence only through its frame ends.  It *)
(* survives cutting the sequence at any point, and appending one frame     *)
(* that the order admits.                                                  *)
(***************************************************************************)
LEMMA EndsInRange ==
  ASSUME NEW s \in Seq(Byte), NEW f
  PROVE  EndsOf(s, f) \subseteq 1..Len(s)
BY DEF EndsOf

LEMMA PrecedesRestrict ==
  ASSUME NEW s \in Seq(Byte), NEW t, NEW m \in Int, NEW a, NEW b,
         EndsOf(t, a) = {i \in EndsOf(s, a) : i <= m},
         EndsOf(t, b) = {i \in EndsOf(s, b) : i <= m},
         Precedes(s, a, b)
  PROVE  Precedes(t, a, b)
<1> SUFFICES ASSUME NEW i \in EndsOf(t, b)
             PROVE  \E j \in EndsOf(t, a) : j < i
  BY DEF Precedes
<1>1. i \in EndsOf(s, b) /\ i <= m /\ i \in Int
  BY EndsInRange
<1>2. PICK j \in EndsOf(s, a) : j < i
  BY <1>1 DEF Precedes
<1>3. j \in Int
  BY EndsInRange
<1> QED BY <1>1, <1>2, <1>3

LEMMA OrderedRestrict ==
  ASSUME NEW s \in Seq(Byte), NEW t, NEW m \in Int,
         \A f \in OutFrames : EndsOf(t, f) = {i \in EndsOf(s, f) : i <= m},
         HandshakeOrdered(s)
  PROVE  HandshakeOrdered(t)
<1>1. \A h \in HandshakeFrames : \A i, j \in EndsOf(t, h) : i = j
  BY DEF HandshakeOrdered, HandshakeFrames, OutFrames
<1>2. \A a, b \in OutFrames : Precedes(s, a, b) => Precedes(t, a, b)
  BY PrecedesRestrict
<1>3. /\ Precedes(t, "StartOk", "TuneOk")
      /\ Precedes(t, "TuneOk", "Open")
      /\ \A g \in OutFrames \ HandshakeFrames : Precedes(t, "Open", g)
  BY <1>2 DEF HandshakeOrdered, OutFrames
<1> QED BY <1>1, <1>3 DEF HandshakeOrdered

\* Pushing a frame of kind g adds one end, after every end already there.
LEMMA PushEnds ==
  ASSUME NEW s \in Seq(Byte), NEW g \in OutFrames, NEW f
  PROVE  /\ s \o Serialize(g) \in Seq(Byte)
         /\ EndsOf(s \o Serialize(g), f)
              = EndsOf(s, f) \cup (IF g = f THEN {Len(s) + FrameLen[g]} ELSE {})
         /\ \A i \in EndsOf(s, f) : i < Len(s) + FrameLen[g]
<1>1. s \o Serialize(g) \in Seq(Byte)
  BY PushFacts
<1>2. EndsOf(s \o Serialize(g), f)
        = EndsOf(s, f) \cup (IF g = f THEN {Len(s) + FrameLen[g]} ELSE {})
  BY EndsPush
<1>3. FrameLen[g] \in Nat \ {0} /\ Len(s) \in Nat
  BY LenProperties
<1> QED BY <1>1, <1>2, <1>3, EndsInRange

LEMMA PrecedesPush ==
  ASSUME NEW s \in Seq(Byte), NEW g \in OutFrames, NEW a, NEW b,
         Precedes(s, a, b), b = g => EndsOf(s, a) # {}
  PROVE  Precedes(s \o Serialize(g), a, b)
<1> SUFFICES ASSUME NEW i \in EndsOf(s \o Serialize(g), b)
             PROVE  \E j \in EndsOf(s \o Serialize(g), a) : j < i
  BY DEF Precedes
<1>1. /\ EndsOf(s \o Serialize(g), a)
           = EndsOf(s, a) \cup (IF g = a THEN {Len(s) + FrameLen[g]} ELSE {})
      /\ EndsOf(s \o Serialize(g), b)
           = EndsOf(s, b) \cup (IF g = b THEN {Len(s) + FrameLen[g]} ELSE {})
      /\ \A j \in EndsOf(s, a) : j < Len(s) + FrameLen[g]
  BY PushEnds
<1>2. CASE i \in EndsOf(s, b)
  BY <1>1, <1>2 DEF Precedes
<1>3. CASE i \notin EndsOf(s, b)
  <2>1. b = g /\ i = Len(s) + FrameLen[g]
    BY <1>1, <1>3
  <2>2. PICK j \in EndsOf(s, a) : TRUE
    BY <2>1
  <2> QED BY <1>1, <2>1, <2>2
<1> QED BY <1>2, <1>3

\* The order admits a frame g: a handshake frame not sent before, after its
\* predecessor; any other frame after open.
Admits(s, g) ==
  /\ g \in HandshakeFrames => EndsOf(s, g) = {}
  /\ g = "TuneOk" => EndsOf(s, "StartOk") # {}
  /\ g = "Open" => EndsOf(s, "TuneOk") # {}
  /\ g \notin HandshakeFrames => EndsOf(s, "Open") # {}

LEMMA OrderedPush ==
  ASSUME NEW s \in Seq(Byte), NEW g \in OutFrames,
         HandshakeOrdered(s), Admits(s, g)
  PROVE  HandshakeOrdered(s \o Serialize(g))
<1>1. \A h \in HandshakeFrames : \A i, j \in EndsOf(s \o Serialize(g), h) : i = j
  <2> SUFFICES ASSUME NEW h \in HandshakeFrames
               PROVE  \A i, j \in EndsOf(s \o Serialize(g), h) : i = j
    OBVIOUS
  <2>1. EndsOf(s \o Serialize(g), h)
          = EndsOf(s, h) \cup (IF g = h THEN {Len(s) + FrameLen[g]} ELSE {})
    BY PushEnds
  <2> QED BY <2>1 DEF HandshakeOrdered, Admits
<1>2. Precedes(s \o Serialize(g), "StartOk", "TuneOk")
  BY PrecedesPush DEF HandshakeOrdered, Admits
<1>3. Precedes(s \o Serialize(g), "TuneOk", "Open")
  BY PrecedesPush DEF HandshakeOrdered, Admits
<1>4. \A b \in OutFrames \ HandshakeFrames : Precedes(s \o Serialize(g), "Open", b)
  BY PrecedesPush DEF HandshakeOrdered, Admits, HandshakeFrames
<1> QED BY <1>1, <1>2, <1>3, <1>4 DEF HandshakeOrdered

(***************************************************************************)
(* The stream under the writes.  The wire is a prefix of the stream; a    *)
(* write of k bytes moves the cut k bytes on; a partial write leaves the   *)
(* stream as it was.                                                       *)
(***************************************************************************)
LEMMA WireEnds ==
  ASSUME NEW w \in Seq(Byte), NEW b \in Seq(Byte), NEW f
  PROVE  EndsOf(w, f) = {i \in EndsOf(w \o b, f) : i <= Len(w)}
<1>1. EndsOf(w \o b, f) = EndsOf(w, f) \cup {Len(w) + j : j \in EndsOf(b, f)}
  BY EndsConcat
<1>2. \A j \in EndsOf(b, f) : j \in Nat /\ j >= 1
  BY DEF EndsOf
<1>3. Len(w) \in Nat
  BY LenProperties
<1> QED BY <1>1, <1>2, <1>3, EndsInRange

LEMMA WrittenEnds ==
  ASSUME NEW w \in Seq(Byte), NEW b \in Seq(Byte), NEW k \in 0..Len(b), NEW f
  PROVE  /\ w \o SubSeq(b, 1, k) \in Seq(Byte)
         /\ EndsOf(w \o SubSeq(b, 1, k), f)
              = {i \in EndsOf(w \o b, f) : i <= Len(w) + k}
<1>1. SubSeq(b, 1, k) \in Seq(Byte)
      /\ EndsOf(SubSeq(b, 1, k), f) = {i \in EndsOf(b, f) : i <= k}
  BY EndsPrefix
<1>2. EndsOf(w \o SubSeq(b, 1, k), f)
        = EndsOf(w, f) \cup {Len(w) + j : j \in EndsOf(SubSeq(b, 1, k), f)}
  BY <1>1, EndsConcat
<1>3. EndsOf(w \o b, f) = EndsOf(w, f) \cup {Len(w) + j : j \in EndsOf(b, f)}
  BY EndsConcat
<1>4. /\ Len(w) \in Nat
      /\ \A j \in EndsOf(b, f) : j \in Nat
      /\ \A i \in EndsOf(w, f) : i \in 1..Len(w)
  BY LenProperties, EndsInRange
<1>5. w \o SubSeq(b, 1, k) \in Seq(Byte)
  BY <1>1, ConcatProperties
<1> QED BY <1>1, <1>2, <1>3, <1>4, <1>5

LEMMA StreamPush ==
  ASSUME NEW w \in Seq(Byte), NEW b \in Seq(Byte), NEW g \in OutFrames
  PROVE  w \o (b \o Serialize(g)) = (w \o b) \o Serialize(g)
<1> HIDE FrameLenAssumption, ClientHeartbeatAssumption, HeartbeatValuesAssumption,
         MaxWireAssumption, ServerFollowsProtocolAssumption
<1>1. Serialize(g) \in Seq(Byte)
  BY SerializeFacts
<1> QED BY <1>1, ConcatAssociative

LEMMA StreamDrain ==
  ASSUME NEW w \in Seq(Byte), NEW b \in Seq(Byte), NEW k \in 0..Len(b), NEW f
  PROVE  /\ (w \o SubSeq(b, 1, k)) \o Drain(b, k) \in Seq(Byte)
         /\ EndsOf((w \o SubSeq(b, 1, k)) \o Drain(b, k), f) = EndsOf(w \o b, f)
<1> DEFINE P == SubSeq(b, 1, k)
           D == Drain(b, k)
<1>1. /\ w \o P \in Seq(Byte)
      /\ EndsOf(w \o P, f) = {i \in EndsOf(w \o b, f) : i <= Len(w) + k}
  BY WrittenEnds
<1>2. /\ P \in Seq(Byte) /\ Len(P) = k
      /\ D \in Seq(Byte)
      /\ EndsOf(D, f) = {i - k : i \in {j \in EndsOf(b, f) : j > k}}
  BY EndsDrain, SubSeqProperties
<1>3. Len(w \o P) = Len(w) + k
  BY <1>2, ConcatProperties
<1>4. EndsOf((w \o P) \o D, f) = EndsOf(w \o P, f) \cup {Len(w \o P) + j : j \in EndsOf(D, f)}
  BY <1>1, <1>2, EndsConcat
<1>5. EndsOf(w \o b, f) = EndsOf(w, f) \cup {Len(w) + j : j \in EndsOf(b, f)}
  BY EndsConcat
<1>6. /\ Len(w) \in Nat
      /\ \A j \in EndsOf(b, f) : j \in Nat
      /\ \A i \in EndsOf(w, f) : i \in 1..Len(w)
  BY LenProperties, EndsInRange
<1>7. (w \o P) \o D \in Seq(Byte)
  BY <1>1, <1>2, ConcatProperties
<1>8. EndsOf((w \o P) \o D, f) \subseteq EndsOf(w \o b, f)
  <2> SUFFICES ASSUME NEW x \in EndsOf((w \o P) \o D, f), x \notin EndsOf(w \o P, f)
               PROVE  x \in EndsOf(w \o b, f)
    BY <1>1
  <2>1. PICK i \in EndsOf(b, f) : i > k /\ x = Len(w) + k + (i - k)
    BY <1>2, <1>3, <1>4
  <2> QED BY <2>1, <1>5, <1>6
<1>9. EndsOf(w \o b, f) \subseteq EndsOf((w \o P) \o D, f)
  <2> SUFFICES ASSUME NEW x \in EndsOf(w \o b, f), x > Len(w) + k
               PROVE  x \in EndsOf((w \o P) \o D, f)
    <3>1. w \o b \in Seq(Byte) /\ Len(w \o b) \in Nat
      BY ConcatProperties, LenProperties
    <3>2. \A x \in EndsOf(w \o b, f) : x \in Int
      <4>1. EndsOf(w \o b, f) \subseteq 1..Len(w \o b)
        BY <3>1, EndsInRange
      <4> QED BY <3>1, <4>1
    <3> QED BY <1>1, <1>4, <3>2
  <2>1. PICK i \in EndsOf(b, f) : x = Len(w) + i
    BY <1>5, <1>6
  <2>2. i > k /\ i - k \in EndsOf(D, f)
    BY <2>1, <1>2, <1>6
  <2>3. x = Len(w \o P) + (i - k)
    BY <2>1, <1>3, <1>6
  <2> QED BY <2>2, <2>3, <1>4
<1> QED BY <1>7, <1>8, <1>9

(***************************************************************************)
(* The inductive invariant.  While the loop runs, the stream is ordered    *)
(* and holds exactly what the state has queued: nothing before start-ok is *)
(* queued (Start), only start-ok in Secure, and an open from Open on.  No  *)
(* close request or heartbeat exists before the handshake reaches Open,    *)
(* and Tune is only ever a state the loop stopped in.  CInv adds that a    *)
(* recorded close is still queued or sent, which keeps the open frame in   *)
(* the part of the stream a completed write keeps.                         *)
(***************************************************************************)
StreamState ==
  /\ cstate # "Tune"
  /\ cstate \in {"Start", "Secure"} =>
        serverPos = NoReq /\ ourPos = NoReq /\ tx = "None"
  /\ cstate = "Start" => \A g \in OutFrames : EndsOf(Committed, g) = {}
  /\ cstate = "Secure" =>
        /\ EndsOf(Committed, "StartOk") # {}
        /\ \A g \in OutFrames \ {"StartOk"} : EndsOf(Committed, g) = {}
  /\ cstate \in {"Open", "Steady", "Closing"} => EndsOf(Committed, "Open") # {}

HInv ==
  /\ CInv
  /\ HandshakeOrder
  /\ result = Running => HandshakeOrdered(Committed) /\ StreamState


\* What a step must establish besides CInv.
HStep == HandshakeOrder' /\ (result' = Running => (HandshakeOrdered(Committed) /\ StreamState)')

LEMMA OrderedNoEnds ==
  ASSUME NEW s, \A g \in OutFrames : EndsOf(s, g) = {}
  PROVE  HandshakeOrdered(s)
BY DEF HandshakeOrdered, Precedes, HandshakeFrames, OutFrames

LEMMA OrderedSameEnds ==
  ASSUME NEW s, NEW t, \A g \in OutFrames : EndsOf(t, g) = EndsOf(s, g),
         HandshakeOrdered(s)
  PROVE  HandshakeOrdered(t)
BY DEF HandshakeOrdered, Precedes, HandshakeFrames, OutFrames

\* A step that stops the loop and writes nothing.
LEMMA HStop ==
  ASSUME HandshakeOrder, UNCHANGED wire, result' # Running
  PROVE  HStep
BY DEF HStep, HandshakeOrder

\* A step that only touches rx or the result, and does not stop the loop.
LEMMA HKeep ==
  ASSUME HInv, result' = Running => result = Running,
         UNCHANGED <<cstate, outbuf, serverPos, ourPos, tx, wire>>
  PROVE  HStep
BY DEF HInv, HStep, HandshakeOrder, Committed, StreamState

\* Once open is in the stream, appending a close, a close-ok or a heartbeat
\* keeps the stream ordered.
LEMMA HAppendOther ==
  ASSUME HInv, result = Running, result' = Running,
         cstate \in {"Open", "Steady", "Closing"},
         cstate' \in {"Open", "Steady", "Closing"},
         UNCHANGED wire,
         \/ outbuf' = outbuf
         \/ \E g \in OutFrames \ HandshakeFrames : outbuf' = outbuf \o Serialize(g)
  PROVE  HStep
<1>0. /\ wire \in Seq(Byte) /\ outbuf \in Seq(Byte)
      /\ Committed \in Seq(Byte)
      /\ HandshakeOrder /\ HandshakeOrdered(Committed)
      /\ EndsOf(Committed, "Open") # {}
  BY ConcatProperties DEF HInv, CInv, IInv, TypeOK, StreamState, Committed
<1>1. StreamState'
  <2>1. CASE outbuf' = outbuf
    BY <1>0, <2>1 DEF StreamState, Committed
  <2>2. CASE \E g \in OutFrames \ HandshakeFrames : outbuf' = outbuf \o Serialize(g)
    <3>1. PICK g \in OutFrames \ HandshakeFrames : outbuf' = outbuf \o Serialize(g)
      BY <2>2
    <3>2. Committed' = Committed \o Serialize(g)
      BY <1>0, <3>1, StreamPush DEF Committed
    <3>3. EndsOf(Committed, "Open") \subseteq EndsOf(Committed \o Serialize(g), "Open")
      BY <1>0, PushEnds
    <3> QED BY <1>0, <3>2, <3>3 DEF StreamState, HandshakeFrames
  <2> QED BY <2>1, <2>2
<1>2. HandshakeOrdered(Committed')
  <2>1. CASE outbuf' = outbuf
    BY <1>0, <2>1 DEF Committed
  <2>2. CASE \E g \in OutFrames \ HandshakeFrames : outbuf' = outbuf \o Serialize(g)
    <3>1. PICK g \in OutFrames \ HandshakeFrames : outbuf' = outbuf \o Serialize(g)
      BY <2>2
    <3>2. Committed' = Committed \o Serialize(g)
      BY <1>0, <3>1, StreamPush DEF Committed
    <3>3. Admits(Committed, g)
      BY <1>0, <3>1 DEF Admits, HandshakeFrames
    <3> QED BY <1>0, <3>2, <3>3, OrderedPush
  <2> QED BY <2>1, <2>2
<1> QED BY <1>0, <1>1, <1>2 DEF HStep, HandshakeOrder


\* process(): the handshake arms append start-ok, then tune-ok and open, in
\* the states that admit them; the later arms append only closes.
LEMMA HProcess ==
  ASSUME HInv, result = Running, NEW f \in InFrames, Process(f), UNCHANGED wire
  PROVE  HStep
<1>0. /\ TypeOK /\ HandshakeOrder /\ HandshakeOrdered(Committed) /\ StreamState
      /\ wire \in Seq(Byte) /\ outbuf \in Seq(Byte) /\ Committed \in Seq(Byte)
  BY ConcatProperties DEF HInv, CInv, IInv, TypeOK, Committed
<1>1. CASE result' # Running
  BY <1>0, <1>1, HStop
<1> SUFFICES ASSUME result' = Running PROVE HStep
  BY <1>1
<1>2. HandshakeOrder'
  BY <1>0 DEF HandshakeOrder
<1>3. CASE ProcessStart(f)
  <2>1. /\ cstate = "Start" /\ cstate' = "Secure"
        /\ outbuf' = outbuf \o Serialize("StartOk")
        /\ UNCHANGED <<serverPos, ourPos, tx>>
    BY <1>3 DEF ProcessStart, Accept, Fail, Running
  <2> DEFINE n == Len(Committed) + FrameLen["StartOk"]
  <2>2. Committed' = Committed \o Serialize("StartOk")
    BY <1>0, <2>1, StreamPush DEF Committed, OutFrames
  <2>3. \A g \in OutFrames : EndsOf(Committed, g) = {}
    BY <1>0, <2>1 DEF StreamState
  <2>4. HandshakeOrdered(Committed')
    <3>1. Admits(Committed, "StartOk")
      BY <2>3 DEF Admits, OutFrames, HandshakeFrames
    <3>2. HandshakeOrdered(Committed \o Serialize("StartOk"))
      BY <1>0, <3>1, OrderedPush DEF OutFrames
    <3> QED BY <2>2, <3>2
  <2>5. EndsOf(Committed', "StartOk") = {n}
    <3>1. EndsOf(Committed \o Serialize("StartOk"), "StartOk")
            = EndsOf(Committed, "StartOk") \cup {n}
      BY <1>0, PushEnds DEF OutFrames
    <3> QED BY <2>2, <2>3, <3>1 DEF OutFrames
  <2>6. \A g \in OutFrames \ {"StartOk"} : EndsOf(Committed', g) = {}
    <3> SUFFICES ASSUME NEW g \in OutFrames \ {"StartOk"}
                 PROVE  EndsOf(Committed', g) = {}
      OBVIOUS
    <3>1. EndsOf(Committed \o Serialize("StartOk"), g)
            = EndsOf(Committed, g) \cup (IF "StartOk" = g THEN {n} ELSE {})
      BY <1>0, PushEnds DEF OutFrames
    <3> QED BY <2>2, <2>3, <3>1
  <2>7. StreamState'
    BY <1>0, <2>1, <2>5, <2>6 DEF StreamState
  <2> QED BY <1>2, <2>4, <2>7 DEF HStep
<1>4. CASE ProcessSecure(f)
  <2>1. /\ cstate = "Secure" /\ cstate' = "Open"
        /\ outbuf' = (outbuf \o Serialize("TuneOk")) \o Serialize("Open")
    BY <1>4 DEF ProcessSecure, Fail, Running
  <2> DEFINE T == Committed \o Serialize("TuneOk")
  <2>2. Committed' = T \o Serialize("Open")
    <3>1. outbuf \o Serialize("TuneOk") \in Seq(Byte)
      BY <1>0, PushFacts DEF OutFrames
    <3>2. wire \o ((outbuf \o Serialize("TuneOk")) \o Serialize("Open"))
            = (wire \o (outbuf \o Serialize("TuneOk"))) \o Serialize("Open")
      BY <1>0, <3>1, StreamPush DEF OutFrames
    <3>3. wire \o (outbuf \o Serialize("TuneOk")) = T
      BY <1>0, StreamPush DEF Committed, OutFrames
    <3> QED BY <2>1, <3>2, <3>3 DEF Committed
  <2>3. /\ EndsOf(Committed, "StartOk") # {}
        /\ EndsOf(Committed, "TuneOk") = {}
        /\ EndsOf(Committed, "Open") = {}
    BY <1>0, <2>1 DEF StreamState, OutFrames
  <2>4. HandshakeOrdered(T) /\ T \in Seq(Byte)
    <3>1. Admits(Committed, "TuneOk")
      BY <2>3 DEF Admits, HandshakeFrames
    <3> QED BY <1>0, <3>1, OrderedPush, PushFacts DEF OutFrames
  <2>5. EndsOf(T, "TuneOk") # {}
    <3>1. EndsOf(T, "TuneOk") = EndsOf(Committed, "TuneOk") \cup {Len(Committed) + FrameLen["TuneOk"]}
      BY <1>0, PushEnds DEF OutFrames
    <3> QED BY <3>1
  <2>6. EndsOf(T, "Open") = {}
    <3>1. \A ff : EndsOf(T, ff)
                  = EndsOf(Committed, ff)
                    \cup (IF "TuneOk" = ff THEN {Len(Committed) + FrameLen["TuneOk"]} ELSE {})
      BY <1>0, PushEnds DEF OutFrames
    <3> QED BY <2>3, <3>1
  <2>7. HandshakeOrdered(Committed')
    <3>1. Admits(T, "Open")
      BY <2>5, <2>6 DEF Admits, HandshakeFrames
    <3>2. HandshakeOrdered(T \o Serialize("Open"))
      BY <2>4, <3>1, OrderedPush DEF OutFrames
    <3> QED BY <2>2, <3>2
  <2>8. EndsOf(Committed', "Open") # {}
    <3>1. EndsOf(T \o Serialize("Open"), "Open") = EndsOf(T, "Open") \cup {Len(T) + FrameLen["Open"]}
      BY <2>4, PushEnds DEF OutFrames
    <3> QED BY <2>2, <3>1
  <2>9. StreamState'
    BY <2>1, <2>8 DEF StreamState
  <2> QED BY <1>2, <2>7, <2>9 DEF HStep
<1>5. CASE ProcessOpen(f)
  <2>1. /\ cstate = "Open" /\ cstate' \in {"Open", "Steady"}
        /\ \/ outbuf' = outbuf
           \/ outbuf' = outbuf \o Serialize("CloseOk")
    BY <1>5 DEF ProcessOpen, Accept, SetServerCloseReq, Fail, Running
  <2> QED BY <1>0, <2>1, HAppendOther DEF HandshakeFrames, OutFrames
<1>6. CASE ProcessClosing(f)
  <2>1. cstate = "Closing" /\ cstate' = "Closing" /\ outbuf' = outbuf
    BY <1>6 DEF ProcessClosing, Accept, Fail, Running
  <2> QED BY <1>0, <2>1, HAppendOther
<1>7. CASE ProcessSteady(f)
  <2>1. /\ cstate = "Steady" /\ cstate' = "Steady"
        /\ \/ outbuf' = outbuf
           \/ outbuf' = outbuf \o Serialize("CloseOk")
           \/ outbuf' = outbuf \o Serialize("Close")
    BY <1>7 DEF ProcessSteady, Accept, SetServerCloseReq, SetOurCloseReq
  <2> QED BY <1>0, <2>1, HAppendOther DEF HandshakeFrames, OutFrames
<1> QED BY <1>3, <1>4, <1>5, <1>6, <1>7 DEF Process


\* Every close in an ordered stream comes after an open.
LEMMA OpenBeforeClose ==
  ASSUME NEW s \in Seq(Byte), HandshakeOrdered(s),
         NEW c \in EndsOf(s, "Close"), NEW m \in Int, c <= m
  PROVE  \E j \in EndsOf(s, "Open") : j <= m
<1>1. Precedes(s, "Open", "Close")
  BY DEF HandshakeOrdered, HandshakeFrames, OutFrames
<1>2. PICK j \in EndsOf(s, "Open") : j < c
  BY <1>1 DEF Precedes
<1>3. j \in Int /\ c \in Int
  BY EndsInRange
<1> QED BY <1>2, <1>3

\* A close that is sent, or queued at or before our_close_req.pos, ends in
\* the stream no later than the wire plus that position.
LEMMA CloseInStream ==
  ASSUME TypeOK, ourPos \in Nat, Sent("Close") \/ Queued(outbuf, ourPos)
  PROVE  \E c \in EndsOf(Committed, "Close") : c <= Len(wire) + ourPos
<1>0. wire \in Seq(Byte) /\ outbuf \in Seq(Byte) /\ Len(wire) \in Nat
  BY LenProperties DEF TypeOK
<1>1. CASE Sent("Close")
  <2>1. PICK c \in EndsOf(wire, "Close") : TRUE
    BY <1>1 DEF Sent
  <2>2. c \in EndsOf(Committed, "Close") /\ c \in 1..Len(wire)
    BY <1>0, <2>1, WireEnds, EndsInRange DEF Committed
  <2> QED BY <1>0, <2>2
<1>2. CASE Queued(outbuf, ourPos)
  <2>1. PICK i \in 1..Len(outbuf) : i <= ourPos /\ outbuf[i] = FrameEnd("Close")
    BY <1>2 DEF Queued
  <2>2. i \in EndsOf(outbuf, "Close")
    BY <2>1 DEF EndsOf
  <2>3. Len(wire) + i \in EndsOf(Committed, "Close")
    BY <1>0, <2>2, EndsConcat DEF Committed
  <2> QED BY <1>0, <2>1, <2>3
<1> QED BY <1>1, <1>2


\* write_to_stream.  In Closing the early return drops the queue, and the
\* open is already on the wire because our close is.  Otherwise k bytes
\* move to the wire: a partial write keeps the stream, a completed one
\* drops the tail past k, which ends at or after our recorded close and so
\* after the open.
LEMMA HWrite ==
  ASSUME HInv, WriteToStream
  PROVE  HStep
<1>0. /\ TypeOK /\ HandshakeOrder /\ HandshakeOrdered(Committed) /\ StreamState
      /\ OurCloseQueued /\ ClosingAfterCloseSent /\ result = Running
      /\ wire \in Seq(Byte) /\ outbuf \in Seq(Byte) /\ Committed \in Seq(Byte)
      /\ Len(Committed) = Len(wire) + Len(outbuf)
  BY ConcatProperties DEF HInv, CInv, IInv, TypeOK, Committed, WriteToStream
<1>1. CASE cstate = "Closing"
  <2>1. outbuf' = <<>> /\ UNCHANGED <<cstate, result, wire>>
    BY <1>1 DEF WriteToStream
  <2>2. Committed' = wire
    BY <1>0, <2>1, ConcatEmptySeq DEF Committed
  <2>3. PICK c \in EndsOf(wire, "Close") : TRUE
    BY <1>0, <1>1 DEF ClosingAfterCloseSent, Sent
  <2>4. c \in EndsOf(Committed, "Close") /\ c <= Len(wire)
    BY <1>0, <2>3, WireEnds DEF Committed
  <2>5. PICK j \in EndsOf(Committed, "Open") : j <= Len(wire)
    BY <1>0, <2>4, OpenBeforeClose, LenProperties
  <2>6. j \in EndsOf(wire, "Open")
    BY <1>0, <2>5, WireEnds DEF Committed
  <2>7. StreamState'
    BY <1>1, <2>1, <2>2, <2>6 DEF StreamState
  <2> QED BY <1>0, <2>1, <2>2, <2>7 DEF HStep, HandshakeOrder
<1>2. CASE cstate # "Closing"
  <2>1. PICK k \in 0..Len(outbuf) :
           /\ wire' = wire \o SubSeq(outbuf, 1, k)
           /\ tx' = IF k > 0 THEN RecordActivity(tx) ELSE tx
           /\ \/ /\ k < WriteLen
                 /\ serverPos' = DrainCloseReq(serverPos, k)
                 /\ outbuf' = Drain(outbuf, k)
                 /\ UNCHANGED <<cstate, ourPos, result>>
              \/ \E e \in Errors : Fail(e, cstate)
              \/ /\ k >= WriteLen
                 /\ serverPos # WriteLen
                 /\ cstate' = IF ourPos = WriteLen THEN "Closing" ELSE cstate
                 /\ outbuf' = <<>>
                 /\ UNCHANGED <<serverPos, ourPos, result>>
    BY <1>2 DEF WriteToStream, WriteQueued, Errors
  <2>2. /\ wire' \in Seq(Byte)
        /\ \A g : EndsOf(wire', g) = {i \in EndsOf(Committed, g) : i <= Len(wire) + k}
    BY <1>0, <2>1, WrittenEnds DEF Committed
  <2>3. HandshakeOrder'
    <3>1. Len(wire) + k \in Int
      BY <1>0, LenProperties
    <3> QED BY <1>0, <2>2, <3>1, OrderedRestrict DEF HandshakeOrder
  <2>4. /\ tx = "None" => tx' = "None"
        /\ serverPos = NoReq => DrainCloseReq(serverPos, k) = NoReq
    BY <2>1 DEF RecordActivity, DrainCloseReq
  <2>5. CASE /\ k < WriteLen
             /\ serverPos' = DrainCloseReq(serverPos, k)
             /\ outbuf' = Drain(outbuf, k)
             /\ UNCHANGED <<cstate, ourPos, result>>
    <3>1. /\ Committed' \in Seq(Byte)
          /\ \A g : EndsOf(Committed', g) = EndsOf(Committed, g)
      BY <1>0, <2>1, <2>5, StreamDrain DEF Committed
    <3>2. HandshakeOrdered(Committed')
      BY <1>0, <3>1, OrderedSameEnds
    <3>3. StreamState'
      BY <1>0, <2>4, <2>5, <3>1 DEF StreamState
    <3> QED BY <2>3, <3>2, <3>3 DEF HStep
  <2>6. CASE \E e \in Errors : Fail(e, cstate)
    BY <2>3, <2>6, FailStops DEF HStep
  <2>7. CASE /\ k >= WriteLen
             /\ serverPos # WriteLen
             /\ cstate' = IF ourPos = WriteLen THEN "Closing" ELSE cstate
             /\ outbuf' = <<>>
             /\ UNCHANGED <<serverPos, ourPos, result>>
    <3>1. Committed' = wire' /\ \A g : EndsOf(Committed', g) \subseteq EndsOf(Committed, g)
      BY <2>2, <2>7, ConcatEmptySeq DEF Committed
    <3>2. /\ WriteLen \in 0..Len(outbuf)
          /\ WriteLen \in {Len(outbuf), serverPos, ourPos}
      BY <1>0, WriteLenFacts
    <3>3. cstate \in {"Start", "Secure"} => cstate' = cstate /\ k = Len(outbuf)
      BY <1>0, <2>7, <3>2 DEF StreamState, NoReq
    <3>4. CASE cstate \in {"Start", "Secure"}
      <4>1. \A g : EndsOf(Committed', g) = EndsOf(Committed, g)
        <5> SUFFICES ASSUME NEW g PROVE EndsOf(Committed', g) = EndsOf(Committed, g)
          OBVIOUS
        <5>1. EndsOf(Committed, g) \subseteq 1..Len(Committed)
          BY <1>0, EndsInRange
        <5>2. EndsOf(Committed', g) = {i \in EndsOf(Committed, g) : i <= Len(wire) + k}
          BY <2>2, <3>1
        <5>3. k = Len(outbuf)
          BY <3>3, <3>4
        <5> QED BY <1>0, <5>1, <5>2, <5>3
      <4> QED BY <1>0, <2>3, <2>4, <2>7, <3>1, <3>3, <3>4, <4>1 DEF HStep, StreamState,
                 HandshakeOrder
    <3>5. CASE cstate \notin {"Start", "Secure"}
      <4>1. cstate \in {"Open", "Steady"} /\ cstate' \in {"Open", "Steady", "Closing"}
        BY <1>0, <1>2, <2>7, <3>5 DEF StreamState, TypeOK, ConnStates
      <4>2. \E j \in EndsOf(Committed, "Open") : j <= Len(wire) + k
        <5>1. CASE WriteLen = Len(outbuf)
          <6>1. PICK j \in EndsOf(Committed, "Open") : TRUE
            BY <1>0, <4>1 DEF StreamState
          <6>2. j \in 1..Len(Committed)
            BY <1>0, EndsInRange
          <6> QED BY <1>0, <2>7, <5>1, <6>1, <6>2
        <5>2. CASE WriteLen = ourPos
          <6>1. ourPos \in Nat /\ ourPos <= k
            BY <2>7, <3>2, <5>2
          <6>2. Sent("Close") \/ Queued(outbuf, ourPos)
            BY <1>0, <1>2, <6>1 DEF OurCloseQueued, NoReq
          <6>3. PICK c \in EndsOf(Committed, "Close") : c <= Len(wire) + ourPos
            BY <1>0, <6>1, <6>2, CloseInStream
          <6>4. Len(wire) + k \in Int /\ c <= Len(wire) + k
            <7>1. c \in 1..Len(Committed) /\ Len(wire) \in Nat
              BY <1>0, EndsInRange, LenProperties
            <7> QED BY <1>0, <6>1, <6>3, <7>1
          <6> QED BY <1>0, <6>3, <6>4, OpenBeforeClose
        <5> QED BY <2>7, <3>2, <5>1, <5>2
      <4>3. EndsOf(Committed', "Open") # {}
        BY <2>2, <3>1, <4>2
      <4> QED BY <2>3, <2>7, <3>1, <4>1, <4>3 DEF HStep, StreamState, HandshakeOrder
    <3> QED BY <3>4, <3>5
  <2> QED BY <2>1, <2>5, <2>6, <2>7
<1> QED BY <1>1, <1>2


\* read_from_stream: process(), a dropped heartbeat or partial frame, or a
\* read error.
LEMMA HRead ==
  ASSUME HInv, ReadFromStream
  PROVE  HStep
<1>0. HandshakeOrder /\ result = Running /\ UNCHANGED wire
  BY DEF HInv, ReadFromStream
<1>1. CASE \E f \in InFrames : f.kind # "Heartbeat" /\ Process(f)
  BY <1>0, <1>1, HProcess
<1>2. CASE UNCHANGED <<cstate, outbuf, serverPos, ourPos, tx, result>>
  BY <1>0, <1>2, HKeep
<1>3. CASE \E e \in Errors : Fail(e, cstate)
  BY <1>0, <1>3, FailStops, HStop
<1> QED BY <1>1, <1>2, <1>3 DEF ReadFromStream, ReadFrame, ReadError, Errors

\* The heartbeat timer queues a heartbeat only into an empty buffer, and
\* only once the handshake has started the timers, so after open.
LEMMA HFireTx ==
  ASSUME HInv, FireTx
  PROVE  HStep
<1>0. /\ TypeOK /\ StreamState /\ result = Running /\ tx # "None"
      /\ UNCHANGED <<cstate, result, wire>>
  BY DEF HInv, CInv, IInv, FireTx
<1>1. cstate \in {"Open", "Steady", "Closing"}
  BY <1>0 DEF StreamState, TypeOK, ConnStates
<1>2. \/ outbuf' = outbuf
      \/ \E g \in OutFrames \ HandshakeFrames : outbuf' = outbuf \o Serialize(g)
  <2>1. CASE tx = "Idle" /\ outbuf = <<>>
    <3>1. Serialize("Heartbeat") \in Seq(Byte)
      BY SerializeFacts DEF OutFrames
    <3>2. outbuf \o Serialize("Heartbeat") = Serialize("Heartbeat")
      BY <2>1, <3>1, ConcatEmptySeq
    <3> QED BY <2>1, <3>2 DEF FireTx, OutFrames, HandshakeFrames
  <2>2. CASE ~(tx = "Idle" /\ outbuf = <<>>)
    BY <2>2 DEF FireTx
  <2> QED BY <2>1, <2>2
<1> QED BY <1>0, <1>1, <1>2, HAppendOther

LEMMA HInit == Init => HInv
<1> SUFFICES ASSUME Init PROVE HInv
  OBVIOUS
<1>1. CInv
  BY CloseInit
<1>2. wire = <<>> /\ Committed = <<>>
  BY EmptySeq, ConcatEmptySeq DEF Init, Committed
<1>3. \A g \in OutFrames : EndsOf(wire, g) = {} /\ EndsOf(Committed, g) = {}
  BY <1>2, EmptyEnds
<1>4. HandshakeOrder /\ HandshakeOrdered(Committed)
  BY <1>3, OrderedNoEnds DEF HandshakeOrder
<1> QED BY <1>1, <1>3, <1>4 DEF Init, HInv, StreamState, NoReq

LEMMA HNext == HInv /\ [Next]_vars => HInv'
<1> SUFFICES ASSUME HInv, [Next]_vars PROVE HInv'
  OBVIOUS
<1>0. CInv'
  BY CloseNext DEF HInv
<1> SUFFICES HStep
  BY <1>0 DEF HStep, HInv
<1>1. CASE ReadFromStream
  BY <1>1, HRead
<1>2. CASE WriteToStream
  BY <1>2, HWrite
<1>3. CASE FireRx
  <2>1. CASE UNCHANGED <<cstate, result>>
    BY <1>3, <2>1, HKeep DEF FireRx
  <2>2. CASE Fail("MissedServerHeartbeats", cstate)
    BY <1>3, <2>2, FailStops, HStop DEF FireRx, HInv, Errors
  <2> QED BY <1>3, <2>1, <2>2 DEF FireRx
<1>4. CASE FireTx
  BY <1>4, HFireTx
<1>5. CASE PollFails
  BY <1>5, FailStops, HStop DEF PollFails, HInv, Errors
<1>6. CASE UNCHANGED vars
  BY <1>6, HKeep DEF vars
<1> QED BY <1>1, <1>2, <1>3, <1>4, <1>5, <1>6 DEF Next

\* process() answers start, tune and the rest in order, and write_to_stream
\* and the heartbeat timer never reorder them, for every frame length and
\* heartbeat: the server receives start-ok, tune-ok and open, each once and
\* in that order, before any other frame, however the writes are split and
\* whatever the server sends.
THEOREM HandshakeOrderCorrect == Spec => []HandshakeOrder
<1>1. Init => HInv
  BY HInit
<1>2. HInv /\ [Next]_vars => HInv'
  BY HNext
<1>3. HInv => HandshakeOrder
  BY DEF HInv
<1> QED BY <1>1, <1>2, <1>3, PTL DEF Spec


(***************************************************************************)
(* Queued bytes are never dropped while the loop keeps running outside     *)
(* Closing (QueuedNeverDropped): the stream of committed bytes only grows. *)
(***************************************************************************)
\* a is the first Len(a) elements of b.
IsPrefix(a, b) == Len(a) <= Len(b) /\ SubSeq(b, 1, Len(a)) = a

\* The first n elements of a sequence of bytes are the sequence's own.
LEMMA TakeFacts ==
  ASSUME NEW s \in Seq(Byte), NEW n \in 0..Len(s)
  PROVE  /\ SubSeq(s, 1, n) \in Seq(Byte)
         /\ Len(SubSeq(s, 1, n)) = n
         /\ \A i \in 1..n : SubSeq(s, 1, n)[i] = s[i]
<1>1. \A i \in 1..n : s[i] \in Byte
  BY LenProperties, ElementOfSeq
<1> QED BY <1>1, SubSeqProperties

LEMMA PrefixExtend ==
  ASSUME NEW a \in Seq(Byte), NEW c \in Seq(Byte)
  PROVE  IsPrefix(a, a \o c)
<1>1. /\ a \o c \in Seq(Byte)
      /\ Len(a \o c) = Len(a) + Len(c)
      /\ \A i \in 1..Len(a) : (a \o c)[i] = a[i]
  BY ConcatProperties, LenProperties
<1>2. Len(a) \in 0..Len(a \o c)
  BY <1>1, LenProperties
<1>3. /\ SubSeq(a \o c, 1, Len(a)) \in Seq(Byte)
      /\ Len(SubSeq(a \o c, 1, Len(a))) = Len(a)
      /\ \A i \in 1..Len(a) : SubSeq(a \o c, 1, Len(a))[i] = a[i]
  BY <1>1, <1>2, TakeFacts
<1>4. SubSeq(a \o c, 1, Len(a)) = a
  BY <1>3, SeqEqual
<1> QED BY <1>1, <1>2, <1>4 DEF IsPrefix

LEMMA PrefixSame ==
  ASSUME NEW a \in Seq(Byte)
  PROVE  IsPrefix(a, a)
BY SubSeqFull, LenProperties DEF IsPrefix

LEMMA PrefixTrans ==
  ASSUME NEW a \in Seq(Byte), NEW b \in Seq(Byte), NEW c \in Seq(Byte),
         IsPrefix(a, b), IsPrefix(b, c)
  PROVE  IsPrefix(a, c)
<1>1. Len(a) \in 0..Len(b) /\ Len(b) \in 0..Len(c)
  BY LenProperties DEF IsPrefix
<1>2. \A i \in 1..Len(b) : b[i] = c[i]
  <2>1. \A i \in 1..Len(b) : SubSeq(c, 1, Len(b))[i] = c[i]
    BY <1>1, TakeFacts
  <2> QED BY <2>1 DEF IsPrefix
<1>3. \A i \in 1..Len(a) : a[i] = b[i]
  <2>1. \A i \in 1..Len(a) : SubSeq(b, 1, Len(a))[i] = b[i]
    BY <1>1, TakeFacts
  <2> QED BY <2>1 DEF IsPrefix
<1>4. Len(a) \in 0..Len(c)
  BY <1>1
<1>5. /\ SubSeq(c, 1, Len(a)) \in Seq(Byte)
      /\ Len(SubSeq(c, 1, Len(a))) = Len(a)
      /\ \A i \in 1..Len(a) : SubSeq(c, 1, Len(a))[i] = a[i]
  BY <1>1, <1>2, <1>3, <1>4, TakeFacts
<1>6. SubSeq(c, 1, Len(a)) = a
  BY <1>5, SeqEqual
<1> QED BY <1>4, <1>6 DEF IsPrefix

\* p is the front of b and d the rest.
SplitOf(p, d, b) ==
  /\ \A i \in 1..Len(p) : p[i] = b[i]
  /\ \A i \in 1..Len(d) : d[i] = b[Len(p) + i]

\* Splitting b into a front p and a back d, and appending both in turn to
\* w, appends b.
LEMMA ConcatSplit ==
  ASSUME NEW w \in Seq(Byte), NEW b \in Seq(Byte), NEW p \in Seq(Byte),
         NEW d \in Seq(Byte), Len(p) + Len(d) = Len(b), SplitOf(p, d, b)
  PROVE  (w \o p) \o d = w \o b
<1> HIDE FrameLenAssumption, ClientHeartbeatAssumption, HeartbeatValuesAssumption,
         MaxWireAssumption, ServerFollowsProtocolAssumption
<1>1. Len(w) \in Nat /\ Len(b) \in Nat /\ Len(p) \in Nat /\ Len(d) \in Nat
  BY LenProperties
<1>2. w \o p \in Seq(Byte)
  BY ConcatProperties
<1>3. Len(w \o p) = Len(w) + Len(p)
  BY ConcatProperties
<1>4. \A i \in 1..(Len(w) + Len(p)) : (w \o p)[i] = IF i <= Len(w) THEN w[i] ELSE p[i - Len(w)]
  BY ConcatProperties
<1>5. \A r \in Seq(Byte) :
        /\ r \o d \in Seq(Byte) /\ Len(r \o d) = Len(r) + Len(d)
        /\ \A i \in 1..(Len(r) + Len(d)) :
              (r \o d)[i] = IF i <= Len(r) THEN r[i] ELSE d[i - Len(r)]
  BY ConcatProperties
<1>6. (w \o p) \o d \in Seq(Byte) /\ Len((w \o p) \o d) = Len(w \o p) + Len(d)
  BY <1>2, <1>5, Zenon
<1>7. \A i \in 1..(Len(w \o p) + Len(d)) :
        ((w \o p) \o d)[i] = IF i <= Len(w \o p) THEN (w \o p)[i] ELSE d[i - Len(w \o p)]
  BY <1>2, <1>5, Zenon
<1>8. Len((w \o p) \o d) = Len(w) + Len(b)
  <2>1. Len(w) \in Int /\ Len(p) \in Int /\ Len(d) \in Int /\ Len(b) \in Int
        /\ Len(w \o p) \in Int /\ Len((w \o p) \o d) \in Int
    BY <1>1, <1>3, <1>6
  <2> QED BY <2>1, <1>3, <1>6
<1>9. /\ w \o b \in Seq(Byte) /\ Len(w \o b) = Len(w) + Len(b)
      /\ \A i \in 1..(Len(w) + Len(b)) : (w \o b)[i] = IF i <= Len(w) THEN w[i] ELSE b[i - Len(w)]
  BY ConcatProperties
<1>10. \A i \in 1..(Len(w) + Len(b)) : ((w \o p) \o d)[i] = (w \o b)[i]
  <2> SUFFICES ASSUME NEW i \in 1..(Len(w) + Len(b))
               PROVE  ((w \o p) \o d)[i] = (w \o b)[i]
    OBVIOUS
  <2>1. i \in 1..(Len(w \o p) + Len(d))
    BY <1>1, <1>3
  <2>2. ((w \o p) \o d)[i] = IF i <= Len(w \o p) THEN (w \o p)[i] ELSE d[i - Len(w \o p)]
    BY <2>1, <1>7
  <2>3. (w \o b)[i] = IF i <= Len(w) THEN w[i] ELSE b[i - Len(w)]
    BY <1>9
  <2>4. CASE i <= Len(w)
    <3>1. i \in 1..(Len(w) + Len(p)) /\ i <= Len(w \o p)
      BY <2>4, <1>1, <1>3
    <3> QED BY <2>4, <3>1, <2>2, <2>3, <1>4
  <2>5. CASE Len(w) < i /\ i <= Len(w) + Len(p)
    <3>1. i \in 1..(Len(w) + Len(p)) /\ i <= Len(w \o p) /\ i - Len(w) \in 1..Len(p)
      BY <2>5, <1>1, <1>3
    <3>2. p[i - Len(w)] = b[i - Len(w)]
      BY <3>1 DEF SplitOf
    <3> QED BY <2>5, <3>1, <3>2, <2>2, <2>3, <1>4
  <2>6. CASE Len(w) + Len(p) < i
    <3>1. ~(i <= Len(w \o p)) /\ ~(i <= Len(w))
      BY <2>6, <1>1, <1>3
    <3>2. i - Len(w \o p) \in 1..Len(d) /\ Len(p) + (i - Len(w \o p)) = i - Len(w)
      BY <2>6, <1>1, <1>3
    <3>3. d[i - Len(w \o p)] = b[Len(p) + (i - Len(w \o p))]
      BY <3>2 DEF SplitOf
    <3> QED BY <3>1, <3>2, <3>3, <2>2, <2>3
  <2> QED BY <2>4, <2>5, <2>6, <1>1
<1> QED BY <1>6, <1>8, <1>9, <1>10, SeqEqual

\* A write of k bytes moves them from the front of outbuf to the wire and
\* leaves the stream of committed bytes as it was.
LEMMA DrainSame ==
  ASSUME NEW w \in Seq(Byte), NEW b \in Seq(Byte), NEW k \in 0..Len(b)
  PROVE  (w \o SubSeq(b, 1, k)) \o Drain(b, k) = w \o b
<1> HIDE FrameLenAssumption, ClientHeartbeatAssumption, HeartbeatValuesAssumption,
         MaxWireAssumption, ServerFollowsProtocolAssumption
<1>1. SubSeq(b, 1, k) \in Seq(Byte) /\ Len(SubSeq(b, 1, k)) = k
      /\ \A i \in 1..k : SubSeq(b, 1, k)[i] = b[i]
  BY TakeFacts
<1>2. /\ Drain(b, k) \in Seq(Byte) /\ Len(Drain(b, k)) = Len(b) - k
      /\ \A i \in 1..(Len(b) - k) : Drain(b, k)[i] = b[k + i]
  <2>1. \A i \in (k + 1)..Len(b) : b[i] \in Byte
    BY ElementOfSeq
  <2> QED BY <2>1, SubSeqProperties, LenProperties DEF Drain
<1>3. Len(SubSeq(b, 1, k)) + Len(Drain(b, k)) = Len(b)
  BY <1>1, <1>2
<1>4. /\ \A i \in 1..Len(SubSeq(b, 1, k)) : SubSeq(b, 1, k)[i] = b[i]
      /\ \A i \in 1..Len(Drain(b, k)) : Drain(b, k)[i] = b[Len(SubSeq(b, 1, k)) + i]
  BY <1>1, <1>2
<1>5. SplitOf(SubSeq(b, 1, k), Drain(b, k), b)
  BY <1>4 DEF SplitOf
<1> QED BY <1>1, <1>2, <1>3, <1>5, ConcatSplit, ZenonT(60)

\* process() leaves outbuf as it was or appends one or two frames to it.
LEMMA QProcess ==
  ASSUME NEW f \in InFrames, Process(f)
  PROVE  \/ outbuf' = outbuf
         \/ \E g \in OutFrames : outbuf' = outbuf \o Serialize(g)
         \/ \E g, h \in OutFrames : outbuf' = (outbuf \o Serialize(g)) \o Serialize(h)
<1>0. {"StartOk", "TuneOk", "Open", "CloseOk", "Close"} \subseteq OutFrames
  BY DEF OutFrames
<1>1. CASE ProcessStart(f)
  BY <1>0, <1>1, Zenon DEF ProcessStart
<1>2. CASE ProcessSecure(f)
  BY <1>0, <1>2, Zenon DEF ProcessSecure
<1>3. CASE ProcessOpen(f)
  BY <1>0, <1>3, Zenon DEF ProcessOpen, SetServerCloseReq
<1>4. CASE ProcessClosing(f)
  BY <1>4 DEF ProcessClosing
<1>5. CASE ProcessSteady(f)
  BY <1>0, <1>5, Zenon DEF ProcessSteady, SetServerCloseReq, SetOurCloseReq
<1> QED BY <1>1, <1>2, <1>3, <1>4, <1>5 DEF Process

\* Appending one or two frames to the buffer extends the committed stream.
LEMMA PrefixPushes ==
  ASSUME NEW w \in Seq(Byte), NEW b \in Seq(Byte), NEW b2,
         \/ b2 = b
         \/ \E g \in OutFrames : b2 = b \o Serialize(g)
         \/ \E g, h \in OutFrames : b2 = (b \o Serialize(g)) \o Serialize(h)
  PROVE  IsPrefix(w \o b, w \o b2)
<1>1. w \o b \in Seq(Byte)
  BY ConcatProperties
<1>2. CASE b2 = b
  BY <1>1, <1>2, PrefixSame
<1>3. CASE \E g \in OutFrames : b2 = b \o Serialize(g)
  <2>1. PICK g \in OutFrames : b2 = b \o Serialize(g)
    BY <1>3
  <2>2. Serialize(g) \in Seq(Byte)
    BY SerializeFacts
  <2>3. w \o b2 = (w \o b) \o Serialize(g)
    BY <2>1, StreamPush
  <2> QED BY <1>1, <2>2, <2>3, PrefixExtend
<1>4. CASE \E g, h \in OutFrames : b2 = (b \o Serialize(g)) \o Serialize(h)
  <2>1. PICK g, h \in OutFrames : b2 = (b \o Serialize(g)) \o Serialize(h)
    BY <1>4
  <2>2. Serialize(g) \in Seq(Byte) /\ Serialize(h) \in Seq(Byte)
    BY SerializeFacts
  <2>3. b \o Serialize(g) \in Seq(Byte) /\ (w \o b) \o Serialize(g) \in Seq(Byte)
    BY <1>1, <2>2, ConcatProperties
  <2>4. w \o b2 = ((w \o b) \o Serialize(g)) \o Serialize(h)
    <3>1. w \o b2 = (w \o (b \o Serialize(g))) \o Serialize(h)
      BY <2>1, <2>3, StreamPush
    <3>2. w \o (b \o Serialize(g)) = (w \o b) \o Serialize(g)
      BY StreamPush
    <3> QED BY <3>1, <3>2
  <2>5. IsPrefix(w \o b, (w \o b) \o Serialize(g))
    BY <1>1, <2>2, PrefixExtend
  <2>6. IsPrefix((w \o b) \o Serialize(g), ((w \o b) \o Serialize(g)) \o Serialize(h))
    BY <2>2, <2>3, PrefixExtend
  <2>7. ((w \o b) \o Serialize(g)) \o Serialize(h) \in Seq(Byte)
    BY <2>2, <2>3, ConcatProperties
  <2> QED BY <1>1, <2>3, <2>4, <2>5, <2>6, <2>7, PrefixTrans
<1> QED BY <1>2, <1>3, <1>4


\* The committed stream is a sequence of bytes.
LEMMA CommittedType ==
  ASSUME TypeOK
  PROVE  Committed \in Seq(Byte)
BY ConcatProperties DEF TypeOK, Committed

\* read_from_stream appends to outbuf, through process(), and never writes.
LEMMA QRead ==
  ASSUME TypeOK, ReadFromStream, result' = Running
  PROVE  IsPrefix(Committed, Committed')
<1>1. wire' = wire
  BY DEF ReadFromStream
<1>2. \/ outbuf' = outbuf
      \/ \E g \in OutFrames : outbuf' = outbuf \o Serialize(g)
      \/ \E g, h \in OutFrames : outbuf' = (outbuf \o Serialize(g)) \o Serialize(h)
  <2>1. CASE \E f \in InFrames : ReadFrame(f)
    BY <2>1, QProcess DEF ReadFrame
  <2>2. CASE ReadError
    BY <2>2, FailStops DEF ReadError, Errors
  <2> QED BY <2>1, <2>2 DEF ReadFromStream
<1> QED BY <1>1, <1>2, PrefixPushes DEF TypeOK, Committed

\* The heartbeat timer appends a heartbeat frame only to an empty outbuf.
LEMMA QFireTx ==
  ASSUME TypeOK, FireTx
  PROVE  IsPrefix(Committed, Committed')
<1>1. wire' = wire
  BY DEF FireTx
<1>2. CASE tx = "Idle" /\ outbuf = <<>>
  <2>1. outbuf' = outbuf \o Serialize("Heartbeat")
    BY <1>2, ConcatEmptySeq DEF FireTx
  <2> QED BY <1>1, <2>1, PrefixPushes DEF TypeOK, Committed, OutFrames
<1>3. CASE ~(tx = "Idle" /\ outbuf = <<>>)
  BY <1>1, <1>3, CommittedType, PrefixSame DEF FireTx, Committed
<1> QED BY <1>2, <1>3

\* write_to_stream outside Closing moves bytes from outbuf to the wire; it
\* drops what is left only when it stops at our close offset and enters
\* Closing, or when it fails.
LEMMA QWrite ==
  ASSUME TypeOK, WriteToStream, result' = Running, cstate' # "Closing"
  PROVE  IsPrefix(Committed, Committed')
<1>1. CASE cstate = "Closing"
  BY <1>1 DEF WriteToStream
<1>2. CASE cstate # "Closing"
  <2>1. WriteQueued
    BY <1>2 DEF WriteToStream
  <2>2. PICK k \in 0..Len(outbuf) :
          /\ wire' = wire \o SubSeq(outbuf, 1, k)
          /\ \/ /\ k < WriteLen
                /\ outbuf' = Drain(outbuf, k)
             \/ /\ k < WriteLen
                /\ Fail("Io", cstate)
             \/ /\ k >= WriteLen
                /\ serverPos = WriteLen
                /\ Fail("ServerClosedConnection", cstate)
             \/ /\ k >= WriteLen
                /\ serverPos # WriteLen
                /\ cstate' = IF ourPos = WriteLen THEN "Closing" ELSE cstate
                /\ outbuf' = <<>>
    BY <2>1, Zenon DEF WriteQueued
  <2>3. CASE k < WriteLen /\ outbuf' = Drain(outbuf, k)
    <3>1. Committed' = Committed
      BY <2>2, <2>3, DrainSame DEF TypeOK, Committed
    <3> QED BY <3>1, CommittedType, PrefixSame
  <2>4. CASE \/ k < WriteLen /\ Fail("Io", cstate)
             \/ k >= WriteLen /\ serverPos = WriteLen
                /\ Fail("ServerClosedConnection", cstate)
    BY <2>4, FailStops DEF Errors
  <2>5. CASE /\ k >= WriteLen
             /\ serverPos # WriteLen
             /\ cstate' = IF ourPos = WriteLen THEN "Closing" ELSE cstate
             /\ outbuf' = <<>>
    <3>1. WriteLen = Len(outbuf)
      <4>1. ourPos # WriteLen
        BY <2>5
      <4> QED BY <2>5, <4>1, WriteLenFacts
    <3>2. k = Len(outbuf)
      BY <2>2, <2>5, <3>1, LenProperties DEF TypeOK
    <3>3. wire' = wire \o outbuf
      BY <2>2, <3>2, SubSeqFull DEF TypeOK
    <3>4. Committed' = wire \o outbuf
      <4>1. wire \o outbuf \in Seq(Byte)
        BY ConcatProperties DEF TypeOK
      <4> QED BY <2>5, <3>3, <4>1, ConcatEmptySeq DEF Committed
    <3> QED BY <3>4, CommittedType, PrefixSame DEF Committed
  <2> QED BY <2>2, <2>3, <2>4, <2>5
<1> QED BY <1>1, <1>2

\* One step of the loop that keeps it running outside Closing extends the
\* committed stream.
LEMMA QStep ==
  ASSUME TypeOK, [Next]_vars, result' = Running, cstate' # "Closing"
  PROVE  IsPrefix(Committed, Committed')
<1>1. CASE ReadFromStream
  BY <1>1, QRead
<1>2. CASE WriteToStream
  BY <1>2, QWrite
<1>3. CASE FireTx
  BY <1>3, QFireTx
<1>4. CASE FireRx \/ PollFails \/ UNCHANGED vars
  BY <1>4, CommittedType, PrefixSame DEF FireRx, PollFails, vars, Committed
<1> QED BY <1>1, <1>2, <1>3, <1>4 DEF Next

\* write_to_stream's final outbuf.clear() and its Closing early return
\* never drop a queued frame while the loop keeps running outside Closing,
\* for every frame length and heartbeat: whatever process() and the
\* heartbeat timer queued reaches the socket in the order it was queued.
THEOREM QueuedNeverDroppedCorrect == Spec => QueuedNeverDropped
<1>1. TypeOK /\ [Next]_vars
        => [(result' = Running /\ cstate' # "Closing") =>
              /\ Len(Committed') >= Len(Committed)
              /\ SubSeq(Committed', 1, Len(Committed)) = Committed]_vars
  BY QStep DEF IsPrefix
<1> QED BY <1>1, TypeCorrect, PTL DEF Spec, QueuedNeverDropped

=============================================================================
