# TLA+ verification of redpine

redpine is a UDP-based protocol for games: connections over UDP with reliable and
unreliable packets of any size, fragmentation, congestion control and a retransmission
timer, with one client and one server implementation over a common endpoint. This
directory models the protocol as the code in `src/src` implements it, checks the models
with TLC on small instances and proves the central results with TLAPS for every value of
the parameters. `PROJECT.json` maps every definition to the lines it models.

## 1. Inventory

| component | state | operations | what makes it correct |
|---|---|---|---|
| sequence numbers (`buffer/mod.rs`) | u32 ids that wrap, windows of a power of two | `Window::contains`, `wrapping_add/sub` | an old id is never taken for a new one |
| reliable buffers (`buffer/reliable.rs`) | fragments kept, send window, next id to send, newest id sent, duplicate acks; next id expected, packet under construction | `push`, `peek/pop_sendable`, `acknowledge`, `resend_all`; `receive` | packets come out once, in order, whole; nothing unacknowledged is forgotten |
| unreliable buffers (`buffer/unreliable.rs`) | fragments with expiry times; id expected, packet under construction | `push`, `pop_expired`, `peek/pop_sendable`; `receive`, `reset` | only whole packets, in order; no loss the network did not cause |
| segment sender (`endpoint/segment_tx.rs`) | window, sizes and nonces of the segments in it, bytes in transit, ack and nonce histories | `mark_sent`, `acknowledge` | exact bytes in transit; honest acks pass the nonce test; drops are inferred from real gaps |
| segment receiver (`endpoint/segment_rx.rs`) | window, two reorder slots, two histories | `receive`, `sync`, `next_ack_info` | segments once and in order; the history tells the truth |
| congestion control (`endpoint/cc.rs`) | mode, window, drop counter (16.16 fixed point) | `handle_ack`, `handle_drop`, `handle_timeout` | floor, one halving per window, bounded growth |
| prioritization (`endpoint/prio.rs`) | a weighted counter per channel | `next`, `mark_sent` | no starvation, shares by weight, no overflow |
| endpoint (`endpoint/mod.rs`) | state (PreInit, Active, Closing, Closed, Zombie), timer state, RTO, all of the above | `init`, `enqueue`, `flush`, `disconnect`, `handle_frame`, `handle_rto_timer` | reliable delivery end to end; the timer agrees with the state; a close ends, once |
| client (`client.rs`) | handshake phase, packets waiting for the connection, one endpoint, one timer, events | connect, application calls, `poll_event`, `wait_event` | an attempt ends; one Connect, then packets, then one ending; packets sent early are not lost |
| server (`server/mod.rs`, `server/peer.rs`) | peer table, an `Arc<RwLock<Peer>>` each, events, key and clock of the cookies | bind, handshakes, event loops; `PeerHandle` calls from other threads | the table keeps its limit and holds the right peers; only fresh cookies of this server make peers; peers that close leave |
| timer queue (`timer_queue.rs`) | weak references to peers, rotated | `add_timer`, `test` in batches | every timer is reached, dead entries fall off |
| cookie (`server/handshake_mac.rs`) | a random key | `compute` | depends on address, nonces and timestamp |
| frames (`frame/`) | none | `write`, `read`, CRC | decoding inverts encoding, frames fit |
| sockets (`socket.rs`) | a UDP socket | send, read, wait | pure I/O |

How they interact. The application calls `enqueue`, `send`, `flush` and `disconnect` of
the client or of a peer's handle, which call the endpoint. `Endpoint::flush` asks
`FragmentTxBuffers` for datagrams (`Prio` picks the channel), `SegmentTx` for room and
`AimdReno` for the congestion window, and hands frames to the host through `HostContext`,
which also sets and clears the host's one timer and collects events. A frame that arrives
goes to `SegmentRx` (whose callback feeds the receive buffers), to `SegmentTx` and the
reliable buffer (acknowledgements), or to the close handshake. A timer that fires makes
the endpoint resend, sync, or give up.

What is hard. Every frame may be lost, repeated or reordered, and all ids wrap. One frame
carries an acknowledgement of segments, one of reliable fragments, and data. Timers race
late answers. The handshake keeps nothing on the server until a cookie comes back, which it
may do late, twice, or after a restart. The server tests a peer's timer under one lock and handles it under the
next, with handle calls in between. Ordering at the segment layer may skip what the
reliable layer still needs. The list with lines is under "hazards" in `PROJECT.json`.

## 2. Modules

Operators on one component's state (no variables), each a translation of one source file:

- `WrappingIds`, `Bits` - `wrapping_add/sub`, `Window::contains`, integers as sets of bits
  (only their bits are ever used, by shifts, masks and parity).
- `Fragmentation` - splitting a packet (`buffer/mod.rs`, `push`), validity of fragments.
- `ReliableBuffer`, `UnreliableBuffer` - both sides of each buffer. A packet is a sequence
  over the constant `Byte`; a `VecDeque` is a sequence; an allocation under construction
  is the sequence of the bytes so far.
- `SegmentTx`, `SegmentRx` - the windows. `SegmentTx` keeps the ring of nonce words and the
  ring of sizes with their index arithmetic; `SegmentRx`'s two slots are a sequence.
- `AimdReno`, `Prio` - congestion control in its fixed-point units, the counters modulo
  the width of their integer.
- `TimerQueue` - the server's queue of timers as a sequence: what a `test` with its limit
  signals and how it rotates the queue.
- `Wire` - frames as bytes: `Encode` is what `FrameWriter` and the `write` functions
  produce (type byte, big-endian fields, flag bits, padding of the first request, CRC),
  `Decode` what both hosts' `handle_frame` and the `read` functions make of it, size and
  CRC checks included. Header sizes are the real ones.
- `Endpoint` - the endpoint as a record of the above with the fields of the code, plus
  what `HostContext` is called with. Its operations are `EndpointInit`,
  `EndpointEnqueue`, `EndpointFlush`, `EndpointDisconnect`, `HandleFrame`,
  `HandleRtoTimer`. Loops are recursive functions over their number of turns.

State machines that compose them:

- `FifoChannel` - the abstract specification: a sequence sent, a prefix of it delivered.
- `ReliableChannel` - a reliable sender and receiver over a path that loses fragments,
  with acks lost, repeated and reordered.
- `UnreliableChannel` - the unreliable pair with a clock, losses and sync frames that are
  late, repeated or refused.
- `SegmentLink` - `SegmentTx` and `SegmentRx` over UDP.
- `Congestion`, `ChannelBalance` - `AimdReno` and `Prio` under any demand.
- `Stream` - two endpoints, their hosts and UDP: a bag of frames for each side. One action
  per host entry point: `Enqueue`, `Send`, `Flush`, `Disconnect` (application), `Receive`
  (frame handlers), `ClientTimeout` (one step, as in `ClientCore::process_timeouts`),
  `ServerTimerTest` and `ServerTimeout` (two steps, as in the server, whose timer is
  cleared in `Timer::test` and handled after another lock; `fired` is what lies in
  between), `Lose`, `Duplicate`, `Tick`.

- `Connection` - clients, the server and its peers, composed of `Endpoint`, `TimerQueue` and
  `Wire`. `client[c]` is `ClientCore` (state, handshake phase, packet buffer, frame to
  resend, endpoint with the one timer), `peers` the peer objects, `table`, `queue` and
  `fired` the server's `peers`, `timer_queue` and `timer_data_buffer`, `server` its key and
  clock. Actions of a client: `ClientReceive` (`handle_frame` with `HandleAlphaAck`,
  `HandleBetaAck`, `ClientHandleOther`), `HandshakeTimer`, `ActiveTimer`, `QuiescentTimer`
  (the three cases of `process_timeout`), `ClientEnqueue`, `ClientSend`, `ClientFlush`,
  `ClientDisconnect`, and the event loop: `WaitEvent` and `PollEvent` begin a call, inside
  which frames and then the timer are handled, `ReturnEvent` ends it or its turn. Actions
  of the server: `ServerReceive` (`HandleAlpha`, `HandleBeta`, `ServerHandleOther`),
  `TimerTest` and `PeerTimer` (the two locks of `handle_timeouts`), `PeerEnqueue`,
  `PeerSend`, `PeerFlush`, `PeerDisconnect` through handles at any moment, `DropHandles`
  (a peer object goes with its last `Arc`), `Tick`, and `Restart`: the process ends and
  another one, with a new key and a clock at 0, binds the same address. UDP is the set of
  all frames sent, each of which may arrive any number of times, in any order or never;
  frames that their client will ignore in every later state are left out of the set.

`Sums` holds the sum of the first values of a function, which a loop in `acknowledge`
computes. `MCReliable`, `MCSegment`, `MCStream` and `MCConnection` define values for TLC.
The theorems are in `ReliableProofs`, `UnreliableProofs`, `SegmentProofs`, `ControlProofs`
(congestion control and the balance of channels), `StreamProofs` and `ConnectionProofs`,
which rest on the lemmas of `CommonProofs` (wrapping ids, sums, packets and fragments) and
`EndpointProofs` (one lemma per operation of an endpoint).

Abstractions. Time is only a clock for expiry; a timer that is set may fire at any moment
(the code compares it with a clock of no guaranteed rate), and the estimate of the round
trip, computed in floating point, is any value inside its clamp. Random nonces are drawn
from a constant set of functions of the segment id. A frame is a record in all state
machines; `WireOK` of `Connection` shows that nothing is lost on its way through bytes. The
CRC is any function of the bytes. The MAC is a hash (`SipHash`, a constant) of the key and of
what it covers; all that is assumed of it is that the MACs of different keys for the same
request differ (`MacAssumption`), without which a cookie of another server could be taken
for one's own. Numbers stay below 2^31 (`u32::MAX` stands for itself as the largest number). A cookie that
is delayed until timestamps come round (49 days) is excluded by an assumption. History variables (numbers
of fragments without wrapping, what was handed out) are named as such and read by no guard
that stands for code.

## 3. Runs

Passing runs:

- **reliable** (`MCReliable.cfg`): ids modulo 5 with a window of 2, packets of 0, 2 and 3
  bytes in fragments of 2, three packets, three fragments in flight. Ids wrap, packets have
  one or two fragments, an empty packet has one. Buffers keep their windows
  (`SendWindowOK`), forget nothing (`NothingForgotten`), accept in order
  (`ReceivedInOrder`), ids in flight are unambiguous (`InFlightOK`), and the channel
  implements `FifoChannel` (`FifoSpec`).
- **segment** (`MCSegment.cfg`): ids modulo 8 starting at 6, so that they wrap; windows
  and words of 4, six segments of different nonces and sizes, so that the nonce ring is
  cut inside a word, at its end and across the wrap. `SlotsOK`, `DeliveredInOrder`,
  `HistoryTruthful`, `HonestAckVerifies`, `AcksRecognised`, `TransitExact`,
  `DropHasCause`.
- **unreliable** (`MCUnreliable.cfg`): ids modulo 3, three packets of up to three
  fragments with expiry in between, syncs at any time: `OnlyWholePackets`.
- **congestion** (`MCCongestion.cfg`): every order of acks, drops and timeouts up to a
  window of 20 segments, with rounding (segments of 3 units): `CwndOK`, `DropcntOK`,
  `AckGrowth`, `HalvedOncePerWindow`.
- **balance** (`MCBalance.cfg`): unequal weights and datagrams larger and smaller than what
  is left of a burst, the counters modulo 16: `CountersOK` (none wraps), `NoStarvation`,
  `Balanced`.
- **stream** (`MCStream.cfg`): two reliable fragments one way, an unreliable packet that
  may expire the other way, one frame lost or duplicated, any reordering, one resend,
  changes of the RTO: `TimerOK`, `TransitGuarded`, `AckedIsReceived`, and both directions
  implement `FifoChannel` (`FifoSpec`).
- **close** (`MCClose.cfg`): either or both sides disconnect at any moment, with data,
  resends and close requests in flight. No loss is counted, because a frame that is never
  read is as good as lost; TimeoutTime of three timeouts lets a close be resent and given
  up. `TimerOK`, `EndsOnce`, `DisconnectAgreed`, `DisconnectIsFinal`, and the liveness
  property `CloseCompletes`.

- **connect** (`MCConnect.cfg`): the initial state picks one of seven plans (`MCPlans` in
  `MCConnection`), which say who may do what: two clients want the only place and its
  holder gives it up (`Full`); two peers share a timer queue of which one entry is tested
  at a time (`Crowd`); cookies that expire while the clock wraps, and a restart (`Again`);
  packets before, during and after the handshake with resends (`Data`); a disconnect from
  either side with a second peer for the late frames (`Left`, `Lost`); packets both ways
  and an application in `wait_event` (`Talk`). The handshake tries twice per phase,
  `HANDSHAKE_TIMEOUT_MS` is one tick and timestamps are modulo 8, starting at 7;
  FRAME_SIZE_MAX of 35 bytes is filled to the last byte by real headers. The table
  (`TableOK`), the events (`LifecycleOK`), the packets (`DeliveredPrefix`), the cookies
  (`CookiesExpire`), the bytes of every frame sent (`WireOK`), and the liveness properties
  `HandshakeEnds` and `PeersLeave`.

Runs that show a disagreement between the code and what is written about it:

- **segment_sync** (`SyncCompletes`): `SegmentRx::sync` with nothing buffered compares the
  distance of a sync with the window's base id instead of with 0, and refuses nearly every
  sync of a long connection. The comment next to it says syncs which exceed the last
  outstanding segment are accepted.
- **unreliable_reset** (`NoArtificialLoss`): the unreliable buffer is reset on every sync,
  also when fragments it waits for are only late; the comment says that no loss is
  introduced.
- **stream_stall** (`StillTrying`): an ack of the newest segment cancels the resend timer
  although the receiver skipped an earlier one. Reliable packets are then neither
  delivered nor resent until more acks arrive; the documentation of `SendMode::Reliable`
  says they are resent until delivered.
- **wait_event** (`EventsReturned`): `Client::wait_event` waits for a frame or the timer
  before it looks at the queue. Frames handled in one call raise Connect and Receive, the
  call returns Connect, and the next call does not return Receive while the connection is
  idle; the documentation says that an event that is ready is returned immediately.

Bounds. `MaxPackets`, `MaxWire`, `MaxSegments`, `MaxSyncs`, `MaxTime`, `MaxFaults`,
`MaxResends` and the numbers in a plan only limit how long a behaviour goes on. `AckLag`, `Lag` and the guard of
`UnreliableChannel!Flush` say how late a frame may be compared with the id space; with
32-bit ids the code would need 2^32 ids less a window to pass while a frame is under way.
Id spaces and windows are as small as the assumptions on them allow, so that wrapping and
full windows occur within the bounds. Each segment of `UnreliableChannel` carries one
fragment; several in one segment is the case in which they are lost together.
Runs with bounded scripts end, so those of `Stream`, `SegmentLink`,
`UnreliableChannel` and `Connection` do not check for deadlock.

Fairness. In `Stream`: once an endpoint is not active any more, a timer that stays set
is eventually handled. Both hosts' event loops process expired timers in every turn, and
`Closing` and `Closed` endpoints always have one (`TimerOK`). Under this `CloseCompletes`
holds: a close ends with or without answers. In `Connection`: applications keep calling the
event loop, calls go on, the server's loop keeps testing timers and handles those that
have expired (weak fairness). A timer that is tested again and again is found expired at
some time (strong fairness, for a client's handshake and for each peer that is closing or
closed): frames do not set these timers anew, or once in the case of the handshake, so that
their time comes. Nothing is assumed about the network or about reading frames.

## 4. Theorems

Checked by TLAPS, for every value of the constants that satisfies the assumptions named in
the modules that declare them (all of which TLC evaluates for the runs).

**ReliableProofs** - `Invariance`: `Inv`, the conjunction of the five invariants of the
reliable run, is inductive. None of them is inductive alone: that `acknowledge` drains
only what was received depends on `InFlightOK`, the exact distance between each wrapped id
in flight and the ids of both sides (`WireOK`, `AcksOK`, `ReceiverOK`), which in turn
needs the order base <= next_send <= max_ack of `SendWindowOK`. From it `TypeCorrect`,
`SendWindowSafe`, `NothingForgottenSafe`, `InOrder`, `InFlightSafe`. Then `ImplementsFifo`:
the channel implements `FifoChannel`. The refinement needs `PacketInv`, which adds that
the fragments pushed are those of the packets one after the other (packet k begins after
`Offset(k - 1)`, a sum of fragment counts), that the packets handed out are a prefix of
those handed over, and that the packet under construction is exactly the first fragments
of the next one; a step then maps to `Fifo!Send`, `Fifo!Deliver` or a stutter.
Assumptions: twice the window fits the id space, and an ack is at most `AckLag` old with
`AckLag` plus the window below the id space.

**UnreliableProofs** - `Invariance`, `TypeCorrect`, `AlwaysOnlyWholePackets`. Fragments
carry no packet number, and expiry removes packets from the middle of the queue, so that
the invariant says that a history exists: for some P and K fragment number j is fragment
K[j] of packet P[j] (`Sources`), the queue and what is in flight agree with it (`Queued`,
`InFlight`), the packet under construction is the beginning of the packet of the last
fragment accepted (`Building`), and the packets handed out are those numbered by some
increasing f, all older than what may still be accepted (`HandedOut`). Ids that wrap are
told apart because a frame is less than a turn of ids behind, the guard of `Flush`.

**SegmentProofs** - `Invariance`, and from it every invariant of the segment run:
`TypeCorrect`, `SlotsAlwaysOK`, `AlwaysDeliveredInOrder`, `AlwaysHistoryTruthful`,
`HonestAcksAlwaysVerify`, `AcksAlwaysRecognised`, `AlwaysTransitExact`,
`DropsAlwaysHaveCause`. The invariant restates the windows in segment numbers. `RxSound` is
what a receiver is at any point inside `receive` and `sync`, not only between two calls,
because each turn of their loops is a step of the argument. `RingsSound` says that the
rings of sizes and of nonce words hold what was sent for every id in the window;
`NoncesSound` and `AckSound` carry it on to the histories and to the acks in flight, from
which `HonestAckVerifies` follows for every window, word size and alignment. `TransitExact`
is a conjunct: subtracting the oldest sizes from a sum needs a lemma on sums. `NoGapSeen`
strengthens `DropHasCause` by the sender's history. Assumptions: those of `SegmentLink`,
among them that words divide the window, the window the id space, and that the bits of an
ack fit both histories.

**ControlProofs**, congestion control - `Invariance` (`TypeOK`, `CwndOK`, `DropcntOK`), `TypeCorrect`,
`CwndSafe`, `DropcntSafe`, `AckGrowthHolds`, `HalvedOncePerWindowHolds`. The action properties rest on `DropcntOK`:
the counter is exactly what is missing of a window since the last halving. The key lemma
bounds the rounded quotient mss*mss/cwnd by a segment. Assumption: the largest window
leaves room for the square of a segment, as 64-bit integers do.

**ControlProofs**, the balance of channels - `BalanceInvariance`, `NoOverflow`,
`NoStarvationHolds`, `BalancedHolds`. The two bounds are strengthened by `PassedOK` and `LeadOK`, which relate what a channel has
waited for and the lead of one channel to the difference of the counters. Assumption: the
limits on weights, datagram sizes and bursts of the configuration.

**EndpointProofs** has a lemma for every operation of the endpoint. `Running` is an active
endpoint in the middle of a call, and each helper (`SendStreamFrame`, `FlushFragments`,
`HandleStreamAck`, `DeliverSegments`, ...) keeps it: the timer is set, or has fired,
exactly when `rto_timer_state` says so, nothing is in transit without it, and only
received packets are raised. `Outcome` is what a whole call may make of an endpoint in any
state: which frames, which events, whether it ends, and with which timer. `Sending` is the
same for an endpoint that has not handed over what it has sent and raised yet, as in
`init` followed by packets and a flush. `EventsOK` is the order of the events of one
connection, which an `Outcome` continues. Most of an endpoint's fields are left free, which keeps the lemmas independent of congestion control
and of the contents of packets.

**StreamProofs** - `Invariance`, `TimersAlwaysOK`, `TransitAlwaysGuarded`,
`AlwaysEndsOnce`, `AlwaysDisconnectAgreed` and the action property
`DisconnectAlwaysFinal`. `Inv` says of each side that its endpoint rests as `Resting`
says, that its events end at most once, and that a close frame on its way comes from a
side that is no longer active. `HostStep` shows that a step keeps this if its call has an
`Outcome`; each action then needs one lemma of `EndpointProofs`. The case that decides the
form of `StateOK` is the server between its two locks: a `PeerHandle` may disconnect there,
so that an endpoint that closes has a timer set and one that has fired, and the time it
has waited is still at most one timeout (`RtoSum`). If a single timeout may be longer than
`timeout_time_ms` (with the default configuration it may: `RTO_MAX_MS` is 60 s,
`timeout_time_ms` 10 s), that endpoint gives up at once with its timer still set, and the
timer fires once more on a zombie, which ignores it. `TimerOK` therefore asks that a zombie
has no timer only when `RtoMax < TimeoutTime`; the attempt to prove it without this
condition is what showed the case.

**ConnectionProofs** - `Invariance`, `TableAlwaysOK`, `LifecycleAlwaysOK` and the action
property `CookiesAlwaysExpire`, for any set of clients, any plan of what they and the
applications do, any table size, timeouts and number of restarts. `TableOK` and
`LifecycleOK` are not inductive; `Inv` has these parts:

- `ServerSound`: the server's objects. A peer is live while its handle, its entry in the
  table or `timer_data_buffer` refers to it. A live peer's endpoint rests as `Resting` of
  `EndpointProofs` says, with a timer that has fired exactly while the peer is in
  `timer_data_buffer`; its events are those of one connection (`EventsOK`); it has its place
  in the table until it is a zombie; and it is in the timer queue, which has no repetitions
  (`QueuesOK`). What nothing refers to is gone (`GoneOK`). Every entry of the table is a peer
  of its address (`EntriesOK`). `SoundOK` is the same in the middle of a step, before what
  nothing refers to any more is dropped. That removing an entry by address removes the
  right peer follows from this: only the endpoint that becomes a zombie in that step, and
  that until then has its place in the table, causes it.
- `CountOK`: the size of the table; it can only grow in `CreatePeer`, after the check.
- `FramesOK`: the frames in transit are frames of an endpoint, or of the handshake with a
  `Cookie`: the MAC was made with the key of this server or of an earlier one, and if it is
  this server's key, the timestamp is the clock's at some time since the server was started,
  not later than the last answer to that address. The frame that a client repeats is one of
  these as well (`HeldOK`). A restart makes all of them cookies of an earlier server.
- `ClientsOK`: a client that connects has been told nothing, an active one has an endpoint
  at rest with one connection's events, a quiescent one has been told of a failure or of a
  connection that has ended, or has never tried.
- `BoundsOK`: the clock and the counters.

`CookiesExpire` then needs that two timestamps less than a turn apart give the true distance
modulo 2^32 (`TimestampsApart`) and that a MAC tells keys apart. Assumptions:
`ConnectionAssumption` (clients are finitely many; no cookie is delayed for a turn of the
timestamps) and `MacAssumption`.

The attempt to prove `TableOK` corrected the model: `Terminate` was read from the state of
the endpoint after the call, so that a timer firing on a peer that was already a zombie
removed a second peer of its address. The code returns it only when the endpoint becomes a
zombie, and `PeerTimer` now says so.

Loops. A loop is a recursive function over its number of turns, in the form
`f[n \in 0 .. k]`. What it computes is proved in two inductions with `SetInduction` of
`CommonProofs` (a set of numbers that contains 0 and successors is Nat, from the library's
theorem about least elements): that such a function exists, and that its values keep the
property. `LET f[n]` is then the CHOOSE of it. Some operators are written in a form that
can be reasoned about in this way: the turns of `FlushFragments` are bounded by the room of
a frame, each datagram taking some of it, `DeliverSegments` reads the datagrams one by one,
`ReceiveSync` keeps what is in flight from the first segment after the sync on instead of
filtering a sequence, and `Kept` of `TimerQueue` and `Connected` of `Connection` are the
loops of the code.

Only model-checked, and why:

- `AckedIsReceived` and `FifoSpec` of `Stream`, `DeliveredPrefix` of `Connection`. They are
  not theorems for all constants: ids wrap, and these two models bound what a behaviour does
  but not how late a frame arrives compared with the id space, so that with a small id space
  and enough packets an old frame is taken for a new one. For the buffers alone, with that
  bound, `ImplementsFifo` proves them.
- `WireOK`: decoding inverts encoding by induction over the bytes of a frame.
- Liveness (`CloseCompletes`, `HandshakeEnds`, `PeersLeave`), which needs fairness and
  ENABLED.

## 5. Not modelled, and the plan

Not modelled: sockets and polling (pure I/O: every result but a frame ends the reading of
frames), the polynomial of the CRC and SipHash, the range checks of the configuration
(assumptions on constants stand for them), `data` and `set_data` of a peer's handle, the
order in which the server's queue mixes the events of different peers, and the example
programs. The floating-point round-trip estimate is abstracted as above.

Behaviours that the models have and that no property judges, because nothing written says
what should happen: a request that is repeated within the lifetime of its cookie, after its
peer has ended, makes a peer without a client, which has no timer and stays in the table
(there is no keepalive); frames belong to a peer by address alone, so that a client whose
first peer is gone talks to the second one; `disconnect` during the handshake does nothing.
They are listed under "hazards" with a note.

What is left to do:

1. `AckedIsReceived` of `Stream` as a theorem: a bound on the age of frames, as in
   `ReliableChannel` and `SegmentLink`, and the buffers' invariants carried through frames
   with several datagrams.
2. An endpoint with empty packets (`debug_assert!(size_written > 0)`), and the exchange of
   refused syncs and acks that keeps a congestion-limited connection from either
   proceeding or timing out.
