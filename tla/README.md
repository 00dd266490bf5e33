# TLA+ models of amiquip's connection event loop

This directory models the single-connection core of amiquip, a Rust AMQP
0-9-1 client: `src/src/event_loop.rs` and the error kinds of
`src/src/errors.rs`. TLC model-checks the modules on small instances. TLAPS
proves their main invariants for every value of the constants.

| Module | Contents |
|---|---|
| `Connection.tla` | the connection core: handshake, write path, read path, heartbeat timers |
| `CloseHandshake.tla` | the abstract close protocol that `Connection` implements |
| `EventLoop.tla` | the reactor of `main_loop` over `Connection` |
| `MC_Connection.tla`, `MC_EventLoop.tla` and the `.cfg` files | TLC instances |
| `ConnectionProofs.tla`, `ConnectionCloseProofs.tla`, `ConnectionHandshakeProofs.tla`, `EventLoopProofs.tla` | TLAPS proofs |

## 1. The system

`EventLoop` owns one TCP socket and runs a single-threaded reactor
(`main_loop`). It polls for readiness on two tokens, `STREAM` and `HEARTBEAT`,
and dispatches each event:

- **Socket writable** calls `Inner::write_to_stream`. It computes
  `len = min(outbuf.len(), server_close_req.pos, our_close_req.pos)` and writes
  `outbuf` until `len` bytes are written or the socket returns WouldBlock.
  - On WouldBlock it drains the written prefix and moves `server_close_req.pos`.
  - On completion it:
    - ends the loop with `ServerClosedConnection` if `len` is the close-ok offset;
    - enters `Closing` if `len` is our close offset;
    - clears `outbuf`.
- **Socket readable** calls `Inner::read_from_stream`. `FrameBuffer` decodes
  frames:
  - heartbeats are dropped;
  - every other frame goes to `ConnectionState::process`;
  - any byte read records rx activity.
- **Timer** calls `Inner::process_heartbeat_timers`.
  - Rx expiry ends the loop with `MissedServerHeartbeats`.
  - Tx expiry pushes a heartbeat frame, but only when `outbuf` is empty.

`ConnectionState::process` is the handshake machine:

- Start → Secure → (Tune) → Open → Steady.
- Closing is entered after our own close has been written.
- In Steady, the server's `close` queues a close-ok (`set_server_close_req`).
- In Steady, any other frame makes the client queue its own `close`
  (`set_our_close_req`).
- Each close request is kept only the first time.
- `pos` is the byte offset of the end of the queued frame.

`EventLoop::run` rewrites any error raised while the state is `Secure` into
`InvalidCredentials`.

### Inventory

| Component | State | Operations | Status |
|---|---|---|---|
| ConnectionState (23-128) | state | `process` arms | modelled |
| Inner (197-408) | outbuf, server/our close req | `set_*_close_req`, `read_from_stream`, `write_to_stream` | modelled |
| HeartbeatTimers (130-190) | rx, tx | record activity, start, fire | modelled, abstract time |
| EventLoop (410-516) | poll registration, readiness | `new`, `run`, `main_loop` | modelled (`EventLoop`); the Io errors of `new` are not |
| ErrorKind (errors.rs) | — | — | set of names |
| OutputBuffer, FrameBuffer, ConnectionOptions | — | — | not under `src/`; modelled from the spec, or abstracted to their contract (FrameBuffer: `ReadFrame`, `ReadError`) |

## 2. The module `Connection`

### State

| Variable | Models |
|---|---|
| `cstate` | `ConnectionState`. The Closing payload is dropped. |
| `outbuf` | `Inner::outbuf`, as a sequence of bytes. Each byte is `[frame, last]`: its frame kind and whether it ends that frame. The constant `FrameLen` gives each frame kind's length in bytes. This makes `CloseRequest.pos` arithmetic and partial writes exact without modelling payloads. |
| `serverPos`, `ourPos` | `server_close_req.pos` and `our_close_req.pos`, with `NoReq` for `None`. |
| `rx`, `tx` | `Option<Heartbeat>`: `"None"`, `"Idle"` (no activity since the last fire) or `"Active"`. |
| `result` | `Running`, or the error `run()` returns, after its Secure rewrite (`Fail`). |
| `wire` | Every byte handed to the socket, in order. |

### Actions

One action per event handler:

- **`ReadFromStream`** (`read_from_stream`) delivers one of:
  - a decoded frame (`ReadFrame(f)`): a heartbeat is dropped, any other frame is passed to `Process`, whose five per-state operators have one disjunct per `match` arm;
  - a partial frame (bytes but no frame; rx activity only);
  - an error (`ReadError`): Io, UnexpectedSocketClose or ReceivedMalformed.
- **`WriteToStream`** (`write_to_stream`) clears the buffer in Closing (the early return at lines 307-312). Otherwise `WriteQueued` picks the number of bytes `k` that the loop hands the socket.
  - `stream.write(&outbuf[pos..])` may accept more than `len`, so a loop that completes writes any `k` with `len <= k <= Len(outbuf)`.
  - A loop that stops early stops on WouldBlock or on an I/O error.
- **`FireRx`** and **`FireTx`** (`process_heartbeat_timers`) each model one due timer.
- **`PollFails`** is `poll` failing or returning no event.

### The abstract close handshake (`CloseHandshake.tla`)

`CloseHandshake` states what the loop promises about closing, as the server sees it on the socket (spec §3, §4.5, §7). Its state is five observations:

- `closeSent` and `closeOkSent`: a whole close or close-ok is on the socket;
- `closing`: the state machine is Closing;
- `outcome`: `Running` or the error the loop ended with;
- `sentLen`: how many bytes the socket has received.

Its actions:

- `Send`: a write outside Closing, which may complete either frame;
- `EnterClosing`: a write that completes our close;
- `EndServerClosed`: a write that completes the close-ok;
- `EndClientClosed`: a close-ok read in Closing;
- `EndError`: any other error.

In Closing nothing more is sent, and after the end nothing changes.

`Connection` defines the mapping `CH == INSTANCE CloseHandshake WITH closeSent <- Sent("Close"), closeOkSent <- Sent("CloseOk"), closing <- (cstate = "Closing"), outcome <- result, sentLen <- Len(wire)`. `CloseHandshakeSpec == CH!Spec` is checked by TLC and proved (section 5).

### Bound

`MaxWire` bounds the bytes sent. Only heartbeats grow the output without end, so only `FireTx` is guarded by it.

### Server behaviour

The constant `ServerFollowsProtocol` selects what the server may send:

- FALSE: any frame in any state.
- TRUE: the server answers as a broker does. It sends `tune` only after `start-ok` was sent, `open-ok` only after `open`, and `close-ok` only after our `close`. After its own `close` it sends nothing but `close-ok`.

The violation runs use TRUE, so that their traces are ones a real broker produces.

## 3. Runs of `Connection`

These runs use `MC_Connection.tla`:

- frames of 1 byte (open, close-ok, heartbeat) and 2 bytes (start-ok, tune-ok, close), so partial writes split frames and byte offsets differ from frame counts;
- server heartbeats of 0 or 1;
- `MaxWire = 12`.

This admits:

- the whole handshake;
- both close paths and crossing closes;
- repeated server closes;
- a heartbeat;
- every split of the buffer by WouldBlock.

The model has 12,561 distinct states and depth 32. Deadlock checking is off: the loop really stops when `main_loop` returns an error.

| Run | Expect | Checks |
|---|---|---|
| `connection_safety` | pass | `TypeOK`; `ServerCloseReqMarksCloseOk`: the close-ok offset always points at the end of the queued close-ok; `ClosingAfterCloseSent`: Closing and ServerClosedConnection only after the whole frame was written; `CloseOkSentAtMostOnce`; `HandshakeOrder`; `CloseHandshakeSpec`: Connection implements the abstract close handshake; `QueuedNeverDropped`: a step that keeps the loop running outside Closing never removes a byte from `wire \o outbuf`, so the final `outbuf.clear()` of `write_to_stream` (`event_loop.rs:373`) discards only bytes already written. |
| `our_close_req_stale` | violation | `OurCloseReqMarksClose`. |
| `write_past_close` | violation | `NothingSentAfterClose`. |

Each property of the passing run has a mutant in `PROJECT.json`: a plausible bug in the mapped code that TLC catches. The mutants include:

- not resetting `None` offsets;
- not moving the offset on a partial write;
- dropping the "only keep the first close" check;
- pushing open before tune-ok;
- entering Closing when the close is queued rather than written;
- dropping the early return for Closing in `write_to_stream`, so a heartbeat queued while awaiting close-ok is written (`CloseHandshakeSpec`);
- stopping the write one byte short of a close offset, so the final `outbuf.clear()` drops the frame's last byte (`QueuedNeverDropped`).

### Findings

1. **Stale `our_close_req.pos`** (`event_loop.rs:338`).
   - Only `server_close_req.pos` is moved when a WouldBlock drains the buffer. Spec §9 calls this safe.
   - After a partial write of our close, `our_close_req.pos` exceeds the buffer. The test `len == our_close_req.pos` then never holds: the loop never enters Closing, clears `outbuf`, and ignores the server's close-ok in Steady.
   - The connection ends on a timeout or socket close, not with `ClientClosedConnection`.
2. **Writing past `len`** (`event_loop.rs:331`).
   - `stream.write(&outbuf[pos..])` may send bytes queued after the close or close-ok that bounds the write.
   - With crossing closes, our close and the close-ok go out together, contrary to the comment at lines 314-317.

## 4. The module `EventLoop`

`EventLoop` models `main_loop` as a reactor around the handlers of
`Connection`, which it instantiates (`C == INSTANCE Connection`) on the same
variables.

### State added to Connection's

| Variable | Models |
|---|---|
| `interest` | the readiness the stream is registered for: `{"R","W"}` after `new`, `{"R"}` after the first re-registration branch |
| `pending` | the poller holds an edge notification for the stream |
| `writable` | a write would not block; false after a write stopped on WouldBlock |
| `inflight` | the frame the server has sent and the loop has not read |
| `phase` | `"Poll"`: blocked in `poll`; `"Events"`: running the handlers of one batch |
| `had` | `had_data_to_write`, sampled after the poll |
| `streamEv`, `stream` | the readiness of this batch's STREAM event, and the part of its handler still to run |
| `timers` | the heartbeat timers due in this batch |

### Edge-triggered readiness

The stream is registered with `PollOpt::edge()`. The model follows Linux epoll:

- a wakeup (`Wakeup`) queues a notification only if its kind is in the interest: data arriving (`ServerSend`), or send-buffer space freed after a WouldBlock (`SocketDrained`);
- a poll reports the socket's current readiness within the interest and clears the notification (`StreamReady`);
- re-registering re-arms: if the socket is already ready for the new interest, the next poll reports it.

### Actions

| Action | Code |
|---|---|
| `Poll` | `poll` returns the STREAM event and/or the HEARTBEAT event; `had_data_to_write` is sampled (462-472) |
| `PollError` | `poll` fails (Io) or returns no event within `poll_timeout` (SocketPollTimeout) |
| `StreamWrite` | the writable branch: `C!WriteToStream` (476-480) |
| `StreamRead` | the readable branch: `C!ReadFrame(inflight)` or `C!ReadError` (481-487) |
| `TimerFireRx`, `TimerFireTx` | the HEARTBEAT event, before or after the whole STREAM handler (489, 377-407) |
| `Rereg` | the two re-registration branches, or none (494-515) |
| `ReregError` | `reregister` fails (Io) |
| `ServerSend`, `SocketDrained` | the server: one frame in flight at a time; it reads what we wrote |

A write that leaves data in `outbuf` stopped on WouldBlock. The socket was
reported writable, so that write accepted at least one byte.

### Fairness

- **Weak fairness** of each loop action. The loop is single-threaded and never blocks outside `poll`, so an enabled handler runs.
- **Strong fairness of `ServerReply`**: the server eventually sends the reply it owes (start, tune, open-ok, close-ok). A reply is enabled only while no other frame is in flight, so weak fairness would not do.
- **Strong fairness of `PollRx`**, a poll at which the rx timer is due. Time passes: the mio timer fires the rx heartbeat after its interval, however often the tx timer or the socket wake the loop first.

Deadlock checking is off: the loop really stops when it returns an error, and
really blocks forever when nothing wakes it (the finding below).

### Relation to `Connection`

Each reactor action is a Connection action (`C!WriteToStream`, `C!ReadFrame`,
`C!ReadError`, `C!FireRx`, `C!FireTx`, `C!Fail`) conjoined with the reactor's
own bookkeeping. The Connection safety results of section 3 and the proofs
therefore carry over to the reactor by construction. Because this holds by the
way the module is written, whatever the code does, it is not checked as a
property and has no theorem.

### Runs

`MC_EventLoop.tla` has the frame lengths of `MC_Connection` and `MaxWire = 10`.
The server follows the protocol. Each cfg fixes the heartbeat.

| Run | Cfg | Expect | Checks |
|---|---|---|---|
| `eventloop_liveness` | heartbeat 1 | pass (65,965 states) | `WritableInterestWhileQueued`; `HandshakeCompletes`: from Start the connection reaches Steady or the loop stops. |
| `eventloop_close` | heartbeat 0, poll timeout set | pass (597 states) | `ClosingEnds`: once our close is on the socket, the loop ends. |
| `lost_write_wakeup` | heartbeat 0 | violation | `QueuedDataWritten`: queued data is eventually written or the loop stops. |

Heartbeat 0 is used for `eventloop_close` so that the rx timeout cannot end
the loop on its own: the property then depends on the close-ok being read.
Heartbeat 1 is used for `eventloop_liveness`, because with heartbeat 0 the
finding below makes `HandshakeCompletes` fail.

Mutants for these runs:

- a re-registration whose first branch tests `had_data_to_write` alone;
- an `else if` that skips the read after a write;
- a Closing arm that never matches close-ok.

### Finding 3: lost writable wakeup (`event_loop.rs:499`)

Trace of `lost_write_wakeup`:

1. The handshake reaches Open with tune-ok and open queued.
2. The server sends connection.close.
3. One STREAM event is both writable and readable. The write empties `outbuf`. The read processes the close and queues close-ok.
4. `had_data_to_write` and `have_data_to_write` are both true, so the socket is not re-registered.
5. The writable edge was consumed by the write, and nothing else arrives: the server waits for close-ok.

With heartbeat 0 the loop blocks in `poll` forever. With heartbeats, the rx
timeout ends it with MissedServerHeartbeats, or a server heartbeat wakes the
loop. The comment at lines 496-498 and spec design note 9 say the interest
follows the queued data. `WritableInterestWhileQueued` holds (it is proved),
but interest alone is not enough under edge triggering: a re-registration is
also what re-arms the notification.

## 5. Proofs

### `ConnectionProofs.tla`

The proofs assume only the module's named `ASSUME`s: frame lengths positive, heartbeats natural.

- **`TypeCorrect`**: `Spec => []TypeOK`. TypeOK is inductive. It rests on lemmas about `Serialize` and appending a frame (`PushFacts`), about `WriteLen`, and one per handler.
- **`ServerCloseReqCorrect`**: `Spec => []ServerCloseReqMarksCloseOk`.
  - The invariant needs the types, so the inductive invariant is `IInv == TypeOK /\ ServerCloseReqMarksCloseOk`.
  - **Appending** keeps every byte already queued (`AppendKeeps`).
  - **A partial write** stops at `k < len <= serverPos`, so `drain_written(k)` moves the close-ok to `serverPos - k` (`DrainKeeps`).
  - **A completed write that clears `outbuf` while a close-ok is pending** must have stopped at our close: `len` is the least of the buffer length and the two offsets, and the close-ok offset lies within the buffer. So that write enters Closing.
  - **`FireTx`** replaces the buffer only when it is empty, and then no close-ok can be pending.

### `ConnectionCloseProofs.tla`

It extends `ConnectionProofs` and uses the same assumptions.

Lemmas on where frame ends lie:

- `EndsConcat`: the ends of `w \o t` are those of `w`, plus those of `t` shifted by `Len(w)`;
- `EndsPrefix`: the ends of a written prefix;
- `EndsDrain`: the ends left by `drain_written`;
- `EndsSerialize` and `EndsPush`: a pushed frame adds exactly one end, of its own kind.

The theorems:

- **`ClosingCorrect`**: `Spec => []ClosingAfterCloseSent`.
  - The invariant alone is not inductive. A write enters Closing when it reaches `our_close_req.pos`, and that position goes stale after a partial write (finding 1).
  - The strengthening `OurCloseQueued` says: while the loop runs outside Closing with our close recorded, the close is on the socket, or it is queued ending at or before `ourPos`. A partial write of `k` bytes either sends the close or moves it to `i - k <= ourPos`.
  - A completed write enters Closing only if `len = ourPos`. Then the close ends within the bytes written (`SentWritten`).
  - A completed write that does not enter Closing and does not stop at the close-ok wrote the whole buffer. The close, if queued, went with it.
  - `ServerClosedConnection` needs `len = serverPos`. `ServerCloseReqMarksCloseOk` (from `IInv`) puts the close-ok's end there.
  - The inductive invariant is `CInv == IInv /\ OurCloseQueued /\ ClosingAfterCloseSent`. TLC checked it on the `connection_safety` instance before it was proved.
- **`CloseOkOnceCorrect`**: `Spec => []CloseOkSentAtMostOnce`.
  - The strengthening `OkQueued` says: while the loop runs, the buffer holds at most one close-ok; none once one is on the socket; and none anywhere before `server_close_req` is set.
  - `set_server_close_req` pushes a close-ok only when it is unset. A write sends the single queued close-ok or leaves it queued, never both (`WriteOnce`).
  - The inductive invariant is `OInv == TypeOK /\ CloseOkSentAtMostOnce /\ OkQueued`. TLC checked it before it was proved.
- **`ImplementsCloseHandshake`**: `Spec => CloseHandshakeSpec`.
  - Initial states map to `CH!Init`.
  - Under `CInv` in both states, every step maps to a `CloseHandshake` step or a stutter (`HandshakeStep`). A read writes nothing, and it keeps or ends the result in one of three ways (`ReadShape`). A write sends more bytes (`WireSends`).
  - `CInv'` supplies the sent close for `EnterClosing` and the sent close-ok for `EndServerClosed`.

### `ConnectionHandshakeProofs.tla`

It extends `ConnectionCloseProofs`.

`HandshakeOrder` is stated over frame ends (`HandshakeOrdered(wire)`):

- each of start-ok, tune-ok and open ends at most once;
- every tune-ok end has a start-ok end before it, and every open end has a tune-ok end before it;
- every other frame ends after an open.

This says the same as "the sequence of complete frames starts start-ok, tune-ok, open, and has none of them later". TLC checked that the two forms agree on every byte sequence of up to four bytes. It also checked that they agree on every reachable state of `connection_safety`. An earlier form built the frame sequence with `SelectSeq`, a recursive operator that TLAPS cannot reason about.

- **`HandshakeOrderCorrect`**: `Spec => []HandshakeOrder`.
  - The argument follows `Committed == wire \o outbuf`, everything written or queued.
  - `process()` and the tx timer append to the stream (`StreamPush`).
  - A partial write leaves the stream's frame ends as they were (`StreamDrain`).
  - A completed write, and the Closing early return, cut the stream at the end of the wire (`WrittenEnds`, `WireEnds`).
  - The order survives any cut (`OrderedRestrict`). It survives appending a frame that `Admits` allows (`OrderedPush`).
  - The invariant is not inductive alone: the wire's order says nothing about what is queued. `StreamState` ties the stream to the state machine while the loop runs:
    - nothing is queued in Start;
    - only start-ok is queued in Secure;
    - an open is queued or sent from Open on;
    - no close request or heartbeat timer exists before Open;
    - Tune is never a running state.
  - The hard step is a completed write from Open or Steady that drops the tail of the buffer. Any later heartbeat or close must follow an open, so the dropped tail must not hold the only open.
    - The write stops at `len`, which is the buffer length, `serverPos` or `ourPos`. Stopping at `serverPos` ends the loop.
    - At `ourPos`, `OurCloseQueued` (from `CInv`) puts our close at or before that offset, or on the wire already (`CloseInStream`).
    - Open precedes that close in the ordered stream (`OpenBeforeClose`), so the cut keeps it.
  - In Closing the same lemma finds the open on the wire, because our close is there (`ClosingAfterCloseSent`).
  - The inductive invariant is `HInv == CInv /\ HandshakeOrder /\ (result = Running => HandshakeOrdered(Committed) /\ StreamState)`. TLC checked it before it was proved, on the `connection_safety` instance and with a server that follows the protocol.
- **`QueuedNeverDroppedCorrect`**: `Spec => QueuedNeverDropped`, an action property.
  - It needs only `TypeOK` (`TypeCorrect`); no strengthening.
  - `process()` leaves `outbuf` alone or appends one or two frames (`QProcess`). The tx timer appends a heartbeat only to an empty buffer. Either way `Committed` is extended (`PrefixPushes`, `PrefixExtend`).
  - A write stopped by WouldBlock moves `k` bytes from the front of `outbuf` to the wire and leaves `Committed` equal (`DrainSame`).
  - A completed write that neither fails nor enters Closing stopped at `len`, which is the buffer length, `serverPos` or `ourPos`. `serverPos` ends the loop and `ourPos` enters Closing, so `len` is the whole buffer, every byte was written, and the clear drops nothing.
  - Every other step fails, or leaves `wire` and `outbuf` alone.

### `EventLoopProofs.tla`

These proofs need no assumption beyond the constants' declarations.

- **`WritableInterestCorrect`**: `Spec => []WritableInterestWhileQueued`.
  - The inductive invariant `InterestInv` adds one conjunct: during a batch, `had` implies the writable interest. `had` was sampled at a poll where the invariant held.
  - In the Poll phase only the server acts, and it leaves `outbuf` alone.
  - Handlers change `outbuf` only in the Events phase, and only `Rereg` leaves it. Its three branches cover every combination of `had` and the current occupancy.

### Only model-checked

Out of TLAPS' reach altogether, so TLC alone checks them:

- liveness and `ENABLED`: `HandshakeCompletes`, `ClosingEnds`, `QueuedDataWritten`.

Every safety invariant and action property that a run checks has a theorem.

## 6. Not modelled

- **The Io errors of `EventLoop::new`** (`Poll::new`, `register`). They happen before any state exists.
- **A peer that waits for our close-ok while we wait for its close-ok** (the simultaneous-close deadlock, line 105). The model's server always answers our close, as a broker does.
- **Serialization failures** (`InternalSerializationError`).
- **`FrameBuffer`'s buffering across reads, and several frames per read.**
  - The model's server keeps one frame in flight until it is read, and each read delivers at most one frame.
  - A batch of frames read together would only add ways to queue a reply behind a write. The finding needs just one.
- **Real time.**
  - Timers are due at any poll after they start. Strong fairness makes a started rx timer come due eventually.
  - The server's own heartbeat watchdog is not modelled.

