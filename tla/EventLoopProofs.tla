--------------------------- MODULE EventLoopProofs ---------------------------
(***************************************************************************)
(* Proofs about the reactor of EventLoop::main_loop, for every value of    *)
(* the constants: the re-registration keeps the writable interest while    *)
(* data is queued.                                                         *)
(***************************************************************************)
EXTENDS EventLoop, TLAPS

(***************************************************************************)
(* The re-registration invariant.  At a poll the interest covers queued    *)
(* data; during the events that follow, had_data_to_write was sampled with *)
(* that interest in force, so had implies the writable interest.  Only     *)
(* the Events phase changes outbuf, and only Rereg changes the interest.   *)
(***************************************************************************)
InterestInv ==
  /\ (phase = "Poll" /\ outbuf # <<>>) => "W" \in interest
  /\ (phase = "Events" /\ had) => "W" \in interest

LEMMA InterestInit == Init => InterestInv
BY DEF Init, InterestInv, Kinds

LEMMA InterestNext == InterestInv /\ [Next]_vars => InterestInv'
<1> SUFFICES ASSUME InterestInv, [Next]_vars PROVE InterestInv'
  OBVIOUS
<1>1. CASE Poll
  BY <1>1 DEF Poll, InterestInv, connVars
<1>2. CASE PollError
  BY <1>2 DEF PollError, InterestInv, loopVars
<1>3. CASE StreamWrite
  BY <1>3 DEF StreamWrite, InterestInv
<1>4. CASE StreamRead
  BY <1>4 DEF StreamRead, InterestInv
<1>5. CASE TimerFireRx
  BY <1>5 DEF TimerFireRx, InterestInv, TimerReady
<1>6. CASE TimerFireTx
  BY <1>6 DEF TimerFireTx, InterestInv, TimerReady
<1>7. CASE Rereg
  BY <1>7 DEF Rereg, InterestInv, Kinds, connVars
<1>8. CASE ReregError
  BY <1>8 DEF ReregError, InterestInv, loopVars
<1>9. CASE \E f \in C!InFrames : ServerSend(f)
  BY <1>9 DEF ServerSend, InterestInv, connVars
<1>10. CASE SocketDrained
  BY <1>10 DEF SocketDrained, InterestInv, connVars
<1>11. CASE UNCHANGED vars
  BY <1>11 DEF vars, connVars, loopVars, InterestInv
<1> QED
  BY <1>1, <1>2, <1>3, <1>4, <1>5, <1>6, <1>7, <1>8, <1>9, <1>10, <1>11 DEF Next

\* main_loop's re-registration (lines 494-514) never leaves queued data
\* behind a readable-only interest when the loop blocks in poll.
THEOREM WritableInterestCorrect == Spec => []WritableInterestWhileQueued
<1>1. Init => InterestInv
  BY InterestInit
<1>2. InterestInv /\ [Next]_vars => InterestInv'
  BY InterestNext
<1>3. InterestInv => WritableInterestWhileQueued
  BY DEF InterestInv, WritableInterestWhileQueued
<1> QED
  BY <1>1, <1>2, <1>3, PTL DEF Spec

=============================================================================
