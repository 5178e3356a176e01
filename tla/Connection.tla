----------------------------- MODULE Connection -----------------------------
(***************************************************************************)
(* Clients and a server (client.rs, server/mod.rs, server/peer.rs) from    *)
(* the first handshake request to the removal of the last peer.  A client  *)
(* asks for a cookie (alpha), returns it (beta) and is active once that is *)
(* acknowledged; the server keeps nothing until a valid beta arrives, then *)
(* a peer object in its table and its timer queue.                         *)
(*                                                                         *)
(* UDP is the set of the frames sent: each may arrive any number of times, *)
(* in any order, or never; one that its client will ignore in every state  *)
(* to come is left out.  The server may also be restarted, which ends all  *)
(* its peers, draws a new key for the cookies and sets its clock to 0.  A  *)
(* timer that is set may expire at any moment.                             *)
(*                                                                         *)
(* The server's thread reads frames and handles timers; calls through a    *)
(* PeerHandle come from other threads, also between the lock under which   *)
(* Timer::test clears a timer and the one under which it is handled.       *)
(***************************************************************************)
EXTENDS Endpoint, TimerQueue, Wire

CONSTANTS
    Client,             \* the clients, which are also their addresses and nonces
    TimerTestLimit,     \* TIMER_TEST_LIMIT
    HandshakeTimeout,   \* HANDSHAKE_TIMEOUT_MS, the lifetime of a cookie
    TimestampMod,       \* 2^32: timestamps in cookies wrap
    HandshakeTries,     \* handshake_timeout_ms in units of HANDSHAKE_RESEND_TIMEOUT_MS
    U32Max,             \* u32::MAX, the packet sizes both sides allow
    SipHash(_),         \* the hash with a secret key that MACs are computed with
    Nonces,             \* the nonces that segments may get, each a function of their ids
    StartTime,          \* the server's clock in the initial state
    Plans               \* what may happen in a behaviour, one of:

\* The clients that connect, the size of the table, the packets that each client sends and
\* those that its peers send, who may disconnect, whose application uses wait_event; and
\* bounds on the peers one server creates, on the ticks of the clock, on restarts of the
\* server and on the timers that fire in an active endpoint.
Plan == [clients : SUBSET Client, peer_count_max : Nat \ {0},
         client_packets : [Client -> Seq(Seq(Byte))], peer_packets : [Client -> Seq(Seq(Byte))],
         client_disconnects : SUBSET Client, peer_disconnects : SUBSET Client,
         waiters : SUBSET Client, peers : Nat, ticks : Nat, restarts : Nat, resends : Nat]

ASSUME ConnectionAssumption ==
    /\ Client \subseteq Nat /\ IsFiniteSet(Client)
    /\ {TimerTestLimit, HandshakeTries} \subseteq Nat \ {0}
    /\ {HandshakeTimeout, TimestampMod, StartTime} \subseteq Nat
    /\ FrameRoom = FrameSizeMax - FrameOverheadSize - 5
    /\ StreamAckSize = 9 /\ DatagramHeader = 7 /\ AckBits <= 5
    /\ Plans \subseteq Plan
    \* No frame is delayed until timestamps come round (49 days).
    /\ \A plan \in Plans : plan.ticks + HandshakeTimeout < TimestampMod

VARIABLES
    plan,       \* what may happen
    client,     \* the ClientCore of each client
    events,     \* history: the events each client has raised
    app,        \* the call of its event loop each application is in, if any, how far that is, and
                \* how many events it has read
    peers,      \* the peer objects of the server, in the order of their creation
    table,      \* ServerCore::peers: the peer of an address, or 0
    queue,      \* the timer queue
    fired,      \* timer_data_buffer: peers whose timers have expired, still to be handled
    server,     \* the key of the cookies and the clock
    asked,      \* history: when a client that wants a cookie was last given one
    up,         \* the frames sent to the server, with their senders
    down,       \* the frames sent to clients, with their addressees
    used        \* how much of each bound is used up, and of the packets of each client

clientVars == <<plan, client, events, app>>
serverVars == <<peers, table, queue, fired, server, asked>>
connVars == <<plan, client, events, app, peers, table, queue, fired, server, asked, up, down, used>>

-----------------------------------------------------------------------------
(* Handshake frames *)

Params == [packet_size_in_max |-> U32Max, packet_size_out_max |-> U32Max]

ParamsCompatible(a, b) ==
    /\ a.packet_size_in_max >= b.packet_size_out_max
    /\ b.packet_size_in_max >= a.packet_size_out_max

AlphaFrame(c) ==
    [type |-> "HandshakeAlpha", protocol_id |-> ProtocolId, client_nonce |-> c]

\* HandshakeMacHasher::compute.
Mac(key, addr, client_nonce, server_nonce, timestamp) ==
    SipHash(<<key, addr, client_nonce, server_nonce, timestamp>>)

\* What was computed with one server's key is not valid for another one.
ASSUME MacAssumption ==
    \A some \in Plans : \A j, k \in 0 .. some.restarts : \A addr, nonce \in Client :
        \A timestamp \in 0 .. TimestampMod - 1 :
            Mac(j, addr, nonce, 0, timestamp) = Mac(k, addr, nonce, 0, timestamp) => j = k

\* The answer to a request; server_nonce, a random number, only enters the MAC.
AlphaAckFrame(addr, client_nonce, timestamp) ==
    [type |-> "HandshakeAlphaAck", server_params |-> Params, client_nonce |-> client_nonce,
     server_nonce |-> 0, server_timestamp |-> timestamp,
     server_mac |-> Mac(server.key, addr, client_nonce, 0, timestamp)]

BetaFrame(ack) ==
    [type |-> "HandshakeBeta", client_params |-> Params, client_nonce |-> ack.client_nonce,
     server_nonce |-> ack.server_nonce, server_timestamp |-> ack.server_timestamp,
     server_mac |-> ack.server_mac]

BetaAckFrame(frame, error) ==
    [type |-> "HandshakeBetaAck", client_nonce |-> frame.client_nonce, error |-> error]

-----------------------------------------------------------------------------
(* The initial state: Server::bind some time ago, Client::connect just now *)

ClientNew(c) ==
    [state  |-> IF c \in plan.clients THEN "Handshake" ELSE "Quiescent",
     phase  |-> "Alpha",
     waited |-> 0,
     buffer |-> <<>>,
     frame  |-> AlphaFrame(c),
     ep     |-> [EndpointNew EXCEPT !.timer = c \in plan.clients]]

Init == /\ plan \in Plans
        /\ client = [c \in Client |-> ClientNew(c)]
        /\ events = [c \in Client |-> <<>>]
        /\ app = [c \in Client |-> [call |-> "None", stage |-> "None", read |-> 0]]
        /\ peers = <<>>
        /\ table = [c \in Client |-> 0]
        /\ queue = <<>>
        /\ fired = <<>>
        /\ server = [key |-> 0, now_ms |-> StartTime]
        /\ asked = [c \in Client |-> -HandshakeTimeout]
        /\ up = {<<c, AlphaFrame(c)>> : c \in plan.clients}
        /\ down = {}
        /\ used = [ticks |-> 0, resends |-> 0, restarts |-> 0,
                   sent |-> [c \in Client |-> 0]]

-----------------------------------------------------------------------------
(* Clients.  The client's one timer is ep.timer in every state. *)

Emptied(ep) == [ep EXCEPT !.frames = <<>>, !.events = <<>>]

\* Whether a client may still handle a frame.
Heeds(core, frame) ==
    CASE frame.type = "HandshakeAlphaAck" -> core.state = "Handshake" /\ core.phase = "Alpha"
      [] frame.type = "HandshakeBetaAck"  -> core.state = "Handshake"
      [] OTHER                            -> core.state # "Quiescent"

\* EndpointContext: the client becomes new, whose endpoint has sent and raised something.
ClientBecomes(c, new) ==
    \E result \in {new} :
        /\ client' = [client EXCEPT ![c] = [result EXCEPT !.ep = Emptied(@)]]
        /\ up' = up \cup {<<c, frame>> : frame \in SeqExt!ToSet(result.ep.frames)}
        /\ down' = {m \in down : m[1] = c => Heeds(result, m[2])}
        /\ events' = [events EXCEPT ![c] = @ \o result.ep.events]

\* A client handles frames, then its timer, inside a call of poll_event or wait_event; the
\* calls of applications that are not among the waiters are left out.
EventLoop(c, stage) ==
    /\ c \in plan.waiters => app[c].stage \in {"Waiting", "Frames"}
    /\ app' = [app EXCEPT ![c].stage = IF c \in plan.waiters THEN stage ELSE @]

WithEndpoint(c, ep) == [client[c] EXCEPT !.ep = ep]

\* The connection is over; the endpoint is dropped, the timer is left as it is.
Quiescent(c, ep) ==
    [client[c] EXCEPT
       !.state = "Quiescent", !.phase = "Alpha", !.waited = 0, !.buffer = <<>>,
       !.frame = <<>>,
       !.ep = [EndpointNew EXCEPT !.timer = ep.timer, !.events = ep.events,
                                  !.frames = ep.frames]]

Failed(c, kind) == Quiescent(c, Raise(client[c].ep, [kind |-> kind]))

\* handle_handshake_alpha_ack.
HandleAlphaAck(c, frame) ==
    /\ client[c].state = "Handshake" /\ client[c].phase = "Alpha"
    /\ frame.client_nonce = c
    /\ ParamsCompatible(Params, frame.server_params)
    /\ ClientBecomes(c, [client[c] EXCEPT
          !.phase = "Beta", !.waited = 0, !.frame = BetaFrame(frame),
          !.ep = SendFrame([@ EXCEPT !.timer = TRUE], BetaFrame(frame))])

\* Mutant: the packets that were sent during the handshake are lost.
ConnectedWithoutBuffer(buffer, nonces) ==
    EndpointFlush(EndpointInit(EndpointNew), nonces, 0)

\* The endpoint of a client that becomes active: init, the packets of the buffer, flush.
Connected(buffer, nonces) ==
    LET enqueued[n \in 0 .. Len(buffer)] ==
            IF n = 0 THEN EndpointInit(EndpointNew)
            ELSE EndpointEnqueue(enqueued[n - 1], buffer[n], TRUE, 0)
    IN  EndpointFlush(enqueued[Len(buffer)], nonces, 0)

\* Mutant: a client that is refused goes on with the handshake.
HandleBetaAckStays(c, frame) ==
    /\ client[c].state = "Handshake" /\ client[c].phase = "Beta"
    /\ frame.client_nonce = c
    /\ IF frame.error = None
       THEN \E nonces \in Nonces :
               ClientBecomes(c, [client[c] EXCEPT
                  !.state = "Active", !.phase = "Alpha", !.waited = 0, !.buffer = <<>>,
                  !.frame = <<>>, !.ep = Connected(client[c].buffer, nonces)])
       ELSE ClientBecomes(c, WithEndpoint(c, Raise(client[c].ep, [kind |-> frame.error[1]])))

\* handle_handshake_beta_ack.
HandleBetaAck(c, frame) ==
    /\ client[c].state = "Handshake" /\ client[c].phase = "Beta"
    /\ frame.client_nonce = c
    /\ IF frame.error = None
       THEN \E nonces \in Nonces :
               ClientBecomes(c, [client[c] EXCEPT
                  !.state = "Active", !.phase = "Alpha", !.waited = 0, !.buffer = <<>>,
                  !.frame = <<>>, !.ep = Connected(client[c].buffer, nonces)])
       ELSE ClientBecomes(c, Failed(c, frame.error[1]))

\* handle_frame_other.
ClientHandleOther(c, frame) ==
    /\ client[c].state = "Active"
    /\ \E nonces \in Nonces :
          ClientBecomes(c, WithEndpoint(c, HandleFrame(client[c].ep, frame, nonces,
                                                       client[c].ep.rto_ms, 0)))

\* A frame arrives at a client, inside a call of its event loop.
ClientReceive(c, frame) ==
    /\ CASE frame.type = "HandshakeAlphaAck" -> HandleAlphaAck(c, frame)
         [] frame.type = "HandshakeBetaAck"  -> HandleBetaAck(c, frame)
         [] OTHER                            -> ClientHandleOther(c, frame)
    /\ EventLoop(c, "Frames")
    /\ UNCHANGED <<plan, serverVars, used>>

-----------------------------------------------------------------------------
(* The client's timer: process_timeouts *)

\* The bound on resending; an endpoint that closes gives up by itself.
CountResends(endpoints) ==
    LET n == Cardinality({i \in DOMAIN endpoints : endpoints[i].state_id = "Active"})
    IN  /\ used.resends + n <= plan.resends
        /\ used' = [used EXCEPT !.resends = @ + n]

\* Mutant: the timer is not set again.
HandshakeTimerOnce(c) ==
    /\ client[c].state = "Handshake" /\ client[c].ep.timer
    /\ \E waited \in client[c].waited + 1 .. HandshakeTries :
          IF waited >= HandshakeTries
          THEN ClientBecomes(c, Quiescent(c, Raise([client[c].ep EXCEPT !.timer = FALSE],
                                                   [kind |-> "Timeout"])))
          ELSE ClientBecomes(c, [client[c] EXCEPT
                  !.waited = waited,
                  !.ep = SendFrame([@ EXCEPT !.timer = FALSE], client[c].frame)])
    /\ EventLoop(c, "Timers")
    /\ UNCHANGED <<plan, serverVars, used>>

\* The timer may fire late: waited is the time since the phase began.
HandshakeTimer(c) ==
    /\ client[c].state = "Handshake" /\ client[c].ep.timer
    /\ \E waited \in client[c].waited + 1 .. HandshakeTries :
          IF waited >= HandshakeTries
          THEN ClientBecomes(c, Quiescent(c, Raise([client[c].ep EXCEPT !.timer = FALSE],
                                                   [kind |-> "Timeout"])))
          ELSE ClientBecomes(c, [client[c] EXCEPT
                  !.waited = waited, !.ep = SendFrame(@, client[c].frame)])
    /\ EventLoop(c, "Timers")
    /\ UNCHANGED <<plan, serverVars, used>>

\* Terminate makes the client quiescent.
ActiveTimer(c) ==
    /\ client[c].state = "Active" /\ client[c].ep.timer
    /\ CountResends(<<client[c].ep>>)
    /\ \E nonces \in Nonces :
       \E ep \in {HandleRtoTimer([client[c].ep EXCEPT !.timer = FALSE], nonces, 0)} :
          ClientBecomes(c, IF ep.state_id = "Zombie" THEN Quiescent(c, ep)
                                                     ELSE WithEndpoint(c, ep))
    /\ EventLoop(c, "Timers")
    /\ UNCHANGED <<plan, serverVars>>

\* A timer that a refused handshake has left behind.
QuiescentTimer(c) ==
    /\ client[c].state = "Quiescent" /\ client[c].ep.timer
    /\ ClientBecomes(c, WithEndpoint(c, [client[c].ep EXCEPT !.timer = FALSE]))
    /\ EventLoop(c, "Timers")
    /\ UNCHANGED <<plan, serverVars, used>>

ClientTimer(c) == HandshakeTimer(c) \/ ActiveTimer(c) \/ QuiescentTimer(c)

-----------------------------------------------------------------------------
(* The client's application *)

HasNext(c) ==
    /\ app[c].call = "None"
    /\ client[c].state # "Quiescent"
    /\ used.sent[c] < Len(plan.client_packets[c])

\* enqueue: a packet waits in the buffer until the client is active.
Enqueued(c) ==
    LET packet == plan.client_packets[c][used.sent[c] + 1]
    IN  IF client[c].state = "Handshake" THEN [client[c] EXCEPT !.buffer = Append(@, packet)]
        ELSE WithEndpoint(c, EndpointEnqueue(client[c].ep, packet, TRUE, 0))

CountSent(c) == used' = [used EXCEPT !.sent[c] = @ + 1]

ClientEnqueue(c) ==
    /\ HasNext(c)
    /\ ClientBecomes(c, Enqueued(c))
    /\ CountSent(c)
    /\ UNCHANGED <<plan, serverVars, app>>

\* send is enqueue and flush in one call.
ClientSend(c) ==
    /\ HasNext(c)
    /\ client[c].state = "Active"
    /\ \E nonces \in Nonces :
          ClientBecomes(c, WithEndpoint(c, EndpointFlush(Enqueued(c).ep, nonces, 0)))
    /\ CountSent(c)
    /\ UNCHANGED <<plan, serverVars, app>>

\* Ignored, as disconnect is, unless the client is active.
ClientFlush(c) ==
    /\ app[c].call = "None"
    /\ client[c].state = "Active"
    /\ \E nonces \in Nonces :
          ClientBecomes(c, WithEndpoint(c, EndpointFlush(client[c].ep, nonces, 0)))
    /\ UNCHANGED <<plan, serverVars, app, used>>

ClientDisconnect(c) ==
    /\ c \in plan.client_disconnects
    /\ app[c].call = "None"
    /\ client[c].state = "Active"
    /\ ClientBecomes(c, WithEndpoint(c, EndpointDisconnect(client[c].ep)))
    /\ UNCHANGED <<plan, serverVars, app, used>>

\* wait_event waits for a frame or the timer before it looks at the queue of events.
WaitEvent(c) ==
    /\ c \in plan.waiters
    /\ app[c].call = "None"
    /\ app' = [app EXCEPT ![c].call = "wait_event", ![c].stage = "Waiting"]
    /\ UNCHANGED <<plan, client, events, serverVars, up, down, used>>

HasEvent(c) == app[c].read < Len(events[c])

\* poll_event and wait_event_timeout return an event that is ready at once.
PollEvent(c) ==
    /\ c \in plan.waiters
    /\ app[c].call = "None"
    /\ app' = IF HasEvent(c) THEN [app EXCEPT ![c].read = @ + 1]
              ELSE [app EXCEPT ![c].call = "poll_event", ![c].stage = "Frames"]
    /\ UNCHANGED <<plan, client, events, serverVars, up, down, used>>

\* The end of a call, or of a turn of wait_event, which goes on until there is an event.
ReturnEvent(c) ==
    /\ app[c].stage \in {"Frames", "Timers"}
    /\ app' = [app EXCEPT ![c] =
          IF HasEvent(c) THEN [call |-> "None", stage |-> "None", read |-> app[c].read + 1]
          ELSE IF app[c].call = "wait_event" THEN [@ EXCEPT !.stage = "Waiting"]
          ELSE [@ EXCEPT !.call = "None", !.stage = "None"]]
    /\ UNCHANGED <<plan, client, events, serverVars, up, down, used>>

-----------------------------------------------------------------------------
(* The server: peers *)

PeerNew(addr) ==
    [addr |-> addr, ep |-> EndpointNew, events |-> <<>>, held |-> FALSE, sent |-> 0]

\* An Arc of the peer exists: in the table, in timer_data_buffer, or in a handle, be it in
\* the application or in an event that waits in the server's queue.
LiveIn(ps, tbl, frd, p) ==
    ps[p].held \/ tbl[ps[p].addr] = p \/ p \in SeqExt!ToSet(frd)

Live(p) == LiveIn(peers, table, fired, p)

LivePeers == {p \in DOMAIN peers : Live(p)}

\* A peer object is dropped with its last Arc.
Dropped(ps, tbl, frd) ==
    [p \in DOMAIN ps |-> IF LiveIn(ps, tbl, frd, p) THEN ps[p] ELSE PeerNew(ps[p].addr)]

\* EndpointContext: every event holds a handle of the peer.
Settled(peer, ep) ==
    [peer EXCEPT !.ep = Emptied(ep), !.events = @ \o ep.events,
                 !.held = @ \/ ep.events # <<>>]

\* Frames are sent to an address.
SendDown(addr, frames) ==
    down' = down \cup {<<addr, frame>> : frame \in {f \in frames : Heeds(client[addr], f)}}

\* A call on a peer that leaves the table and the queue alone.
PeerBecomes(p, outcome) ==
    \E ep \in {outcome} :
        /\ peers' = [peers EXCEPT ![p] = Settled(@, ep)]
        /\ SendDown(peers[p].addr, SeqExt!ToSet(ep.frames))

-----------------------------------------------------------------------------
(* The server: frames *)

Timestamp == server.now_ms % TimestampMod

\* handle_handshake_alpha keeps nothing.
HandleAlpha(addr, frame) ==
    /\ frame.protocol_id = ProtocolId
    /\ \E ack \in {AlphaAckFrame(addr, frame.client_nonce, Timestamp)} :
          /\ SendDown(addr, {ack})
          /\ asked' = IF Heeds(client[addr], ack) THEN [asked EXCEPT ![addr] = server.now_ms]
                      ELSE asked
    /\ UNCHANGED <<peers, table, queue>>

\* Mutant: saturating_sub, which takes every timestamp from before the wrap for a new one.
TimestampValidSaturating(timestamp) ==
    (IF Timestamp >= timestamp THEN Timestamp - timestamp ELSE 0) < HandshakeTimeout

TimestampValid(timestamp) ==
    (Timestamp - timestamp) % TimestampMod < HandshakeTimeout

MacValid(addr, frame) ==
    frame.server_mac = Mac(server.key, addr, frame.client_nonce, frame.server_nonce,
                           frame.server_timestamp)

\* Mutant: a peer that is closed makes room for a new one of the same address.
PeerKnownUnlessClosed(addr) == table[addr] # 0 /\ peers[table[addr]].ep.state_id # "Closed"

PeerKnown(addr) == table[addr] # 0

PeerCount == Cardinality({c \in Client : table[c] # 0})

\* A new peer is put into the table and the timer queue and initialized.
CreatePeer(addr) ==
    /\ Len(peers) < plan.peers
    /\ peers' = Append(peers, Settled(PeerNew(addr), EndpointInit(EndpointNew)))
    /\ table' = [table EXCEPT ![addr] = Len(peers) + 1]
    /\ queue' = AddTimer(queue, Len(peers) + 1)

\* Why a request is refused, if it is.
Refusal(addr, frame) ==
    IF PeerKnown(addr) THEN None
    ELSE IF PeerCount >= plan.peer_count_max THEN Some("Capacity")
    ELSE IF ~ParamsCompatible(frame.client_params, Params) THEN Some("Parameter")
    ELSE None

\* handle_handshake_beta: every valid request is answered, in case an answer was lost.
HandleBeta(addr, frame) ==
    /\ MacValid(addr, frame) /\ TimestampValid(frame.server_timestamp)
    /\ IF PeerKnown(addr) \/ Refusal(addr, frame) # None THEN UNCHANGED <<peers, table, queue>>
       ELSE CreatePeer(addr)
    /\ SendDown(addr, {BetaAckFrame(frame, Refusal(addr, frame))})
    /\ UNCHANGED asked

\* handle_frame_other.
ServerHandleOther(addr, frame) ==
    /\ table[addr] # 0
    /\ \E nonces \in Nonces, p \in {table[addr]} :
          PeerBecomes(p, HandleFrame(peers[p].ep, frame, nonces, peers[p].ep.rto_ms,
                                     server.now_ms))
    /\ UNCHANGED <<table, queue, asked>>

\* A frame arrives at the server, inside a call of its event loop.
ServerReceive(addr, frame) ==
    /\ fired = <<>>
    /\ CASE frame.type = "HandshakeAlpha" -> HandleAlpha(addr, frame)
         [] frame.type = "HandshakeBeta"  -> HandleBeta(addr, frame)
         [] OTHER                         -> ServerHandleOther(addr, frame)
    /\ UNCHANGED <<clientVars, fired, server, up, used>>

-----------------------------------------------------------------------------
(* The server: handle_timeouts *)

\* step_timer_wheel; expired are the peers among those tested whose time has come.
TimerTest(expired) ==
    /\ fired = <<>>
    /\ expired \subseteq {p \in SeqExt!ToSet(Tested(queue, TimerTestLimit)) : peers[p].ep.timer}
    /\ CountResends([p \in expired |-> peers[p].ep])
    /\ fired' = Signalled(queue, TimerTestLimit, LivePeers, expired)
    /\ queue' = Rotated(queue, TimerTestLimit, LivePeers)
    /\ peers' = [p \in DOMAIN peers |->
                    IF p \in expired THEN [peers[p] EXCEPT !.ep.timer = FALSE] ELSE peers[p]]
    /\ UNCHANGED <<clientVars, table, server, asked, up, down>>

\* The first of the peers that have expired.  Terminate, which an endpoint returns once, when
\* it becomes a zombie, removes the address from the table.
PeerTimer ==
    /\ fired # <<>>
    /\ fired' = Tail(fired)
    /\ \E nonces \in Nonces, p \in {Head(fired)} :
       \E ep \in {HandleRtoTimer(peers[p].ep, nonces, server.now_ms)} :
          /\ table' = [table EXCEPT ![peers[p].addr] =
                          IF ep.state_id = "Zombie" /\ peers[p].ep.state_id # "Zombie"
                          THEN 0 ELSE @]
          /\ peers' = Dropped([peers EXCEPT ![p] = Settled(@, ep)], table', fired')
          /\ SendDown(peers[p].addr, SeqExt!ToSet(ep.frames))
    /\ UNCHANGED <<clientVars, queue, server, asked, up, used>>

-----------------------------------------------------------------------------
(* The server's application, through handles of its peers *)

PeerEnqueue(p) ==
    LET script == plan.peer_packets[peers[p].addr]
    IN  /\ peers[p].held
        /\ peers[p].sent < Len(script)
        /\ peers' = [peers EXCEPT ![p].sent = @ + 1,
                         ![p].ep = EndpointEnqueue(@, script[peers[p].sent + 1], TRUE, 0)]
        /\ UNCHANGED <<clientVars, table, queue, fired, server, asked, up, down, used>>

PeerFlush(p) ==
    /\ peers[p].held
    /\ \E nonces \in Nonces : PeerBecomes(p, EndpointFlush(peers[p].ep, nonces, server.now_ms))
    /\ UNCHANGED <<clientVars, table, queue, fired, server, asked, up, used>>

\* send is both under one lock.
PeerSend(p) ==
    LET script == plan.peer_packets[peers[p].addr]
    IN  /\ peers[p].held
        /\ peers[p].sent < Len(script)
        /\ \E nonces \in Nonces :
           \E ep \in {EndpointFlush(EndpointEnqueue(peers[p].ep, script[peers[p].sent + 1],
                                                    TRUE, 0), nonces, server.now_ms)} :
              /\ peers' = [peers EXCEPT ![p] = [Settled(peers[p], ep) EXCEPT !.sent = @ + 1]]
              /\ SendDown(peers[p].addr, SeqExt!ToSet(ep.frames))
        /\ UNCHANGED <<clientVars, table, queue, fired, server, asked, up, used>>

PeerDisconnect(p) ==
    /\ peers[p].held
    /\ peers[p].addr \in plan.peer_disconnects
    /\ PeerBecomes(p, EndpointDisconnect(peers[p].ep))
    /\ UNCHANGED <<clientVars, table, queue, fired, server, asked, up, used>>

\* The application has read the peer's events and lets go of every handle.
DropHandles(p) ==
    /\ peers[p].held
    /\ peers' = Dropped([peers EXCEPT ![p].held = FALSE], table, fired)
    /\ UNCHANGED <<clientVars, table, queue, fired, server, asked, up, down, used>>

-----------------------------------------------------------------------------

Tick == /\ used.ticks < plan.ticks
        /\ used' = [used EXCEPT !.ticks = @ + 1]
        /\ server' = [server EXCEPT !.now_ms = @ + 1]
        /\ UNCHANGED <<clientVars, peers, table, queue, fired, asked, up, down>>

\* The process ends, and another one binds the same address.
Restart ==
    /\ used.restarts < plan.restarts
    /\ used' = [used EXCEPT !.restarts = @ + 1]
    /\ peers' = <<>>
    /\ table' = [c \in Client |-> 0]
    /\ queue' = <<>>
    /\ fired' = <<>>
    /\ server' = [key |-> server.key + 1, now_ms |-> 0]
    /\ asked' = [c \in Client |-> -HandshakeTimeout]
    /\ UNCHANGED <<clientVars, up, down>>

ClientNext(c) ==
    \/ \E m \in down : m[1] = c /\ ClientReceive(c, m[2])
    \/ ClientTimer(c)
    \/ ClientEnqueue(c) \/ ClientSend(c) \/ ClientFlush(c) \/ ClientDisconnect(c)
    \/ WaitEvent(c) \/ PollEvent(c) \/ ReturnEvent(c)

ServerNext ==
    \/ \E m \in up : ServerReceive(m[1], m[2])
    \/ \E expired \in SUBSET DOMAIN peers : TimerTest(expired)
    \/ PeerTimer
    \/ \E p \in DOMAIN peers : \/ PeerEnqueue(p) \/ PeerFlush(p) \/ PeerSend(p)
                               \/ PeerDisconnect(p) \/ DropHandles(p)
    \/ Tick
    \/ Restart

Next == (\E c \in Client : ClientNext(c)) \/ ServerNext

PeerId == UNION {1 .. some.peers : some \in Plans}

\* A peer that closes or is closed, and still in the table.
Ending(p) == p \in DOMAIN peers /\ peers[p].ep.state_id \in {"Closing", "Closed"}

\* Applications keep calling poll_event or wait_event, whose loops go on and handle a timer
\* that has expired; the server's loop tests timers in every turn and handles those that
\* have expired.  A timer that is tested again and again is found expired at some time: no
\* frame sets that of a handshake anew more than once, nor that of a peer that closes.
\* Nothing is said about frames.
Fairness ==
    /\ \A c \in Client : /\ SF_connVars(HandshakeTimer(c))
                         /\ WF_connVars(WaitEvent(c) \/ PollEvent(c))
                         /\ WF_connVars(ReturnEvent(c))
    /\ WF_connVars(\E expired \in SUBSET DOMAIN peers : TimerTest(expired))
    /\ WF_connVars(PeerTimer)
    /\ \A p \in PeerId : SF_connVars(Ending(p) /\ TimerTest({p}))

Spec == Init /\ [][Next]_connVars /\ Fairness

-----------------------------------------------------------------------------
(* Properties *)

IsPeer(p) == p \in DOMAIN peers

\* The table holds the peers that are not finished, each under its own address, and never
\* more than it may: what is removed when a peer terminates is that peer, and not one that
\* came after it.  Every peer that something refers to is in the timer queue once; since
\* the events that wait to be read refer to theirs, the server's wait_event, which waits
\* for frames first, wakes up while there are any.
TableOK ==
    /\ PeerCount <= plan.peer_count_max
    /\ \A c \in Client : table[c] # 0 => IsPeer(table[c]) /\ peers[table[c]].addr = c
    /\ \A p \in DOMAIN peers :
          /\ table[peers[p].addr] = p <=> peers[p].ep.state_id \notin {"PreInit", "Zombie"}
          /\ Live(p) => Cardinality({i \in DOMAIN queue : queue[i] = p}) = 1

\* The kinds of events with which a connection or an attempt to connect ends.
Endings == {"Disconnect", "Timeout", "Capacity", "Parameter"}

\* The events of a connection: Connect, then packets, then one ending.
Lifecycle(told) ==
    \A i \in DOMAIN told : /\ i = 1 <=> told[i].kind = "Connect"
                           /\ told[i].kind \in Endings => i = Len(told)

\* A client's application is told of one connection, or of one failure and nothing else,
\* that of a peer of one connection, however often the answers of the handshake arrive;
\* and once told of an end, the client is through.
LifecycleOK ==
    /\ \A c \in Client :
          /\ \/ Lifecycle(events[c])
             \/ Len(events[c]) = 1 /\ events[c][1].kind \in Endings \ {"Disconnect"}
          /\ client[c].state = "Handshake" => events[c] = <<>>
          /\ client[c].state = "Quiescent" /\ c \in plan.clients
                => events[c] # <<>> /\ SeqExt!Last(events[c]).kind \in Endings
    /\ \A p \in DOMAIN peers : Lifecycle(peers[p].events)

\* The packets among events.
Received(told) ==
    SeqExt!FoldLeft(LAMBDA all, e : IF e.kind = "Receive" THEN Append(all, e.packet) ELSE all,
                    <<>>, told)

\* What a peer receives are the packets of its client, in order and without gaps from the
\* first one, those that were sent before the connection existed included; also if the
\* client's frames come to a second peer of the same address.  What a client receives are
\* the packets of its peer likewise.
DeliveredPrefix ==
    /\ \A p \in DOMAIN peers :
          SeqExt!IsPrefix(Received(peers[p].events),
                          SubSeq(plan.client_packets[peers[p].addr], 1, used.sent[peers[p].addr]))
    /\ \A c \in Client : SeqExt!IsPrefix(Received(events[c]), plan.peer_packets[c])

\* A peer is created only for an address that was given a cookie by this very server less
\* than HANDSHAKE_TIMEOUT_MS ago, whatever old requests arrive, when timestamps wrap and
\* when the clock starts again with a new server.
CookiesExpire ==
    [][\A p \in DOMAIN peers' \ DOMAIN peers :
          server.now_ms - asked[peers'[p].addr] < HandshakeTimeout]_connVars

\* Every frame that is sent fits FRAME_SIZE_MAX, and what the receiver reads from its bytes
\* is what the sender wrote.
WireOK ==
    [][\A m \in (up' \ up) \cup (down' \ down) :
          /\ Len(Encode(m[2])) <= FrameSizeMax
          /\ Decode(Encode(m[2])) = Some(m[2])]_connVars

\* An attempt to connect ends, in a connection or with an error.
HandshakeEnds == <>(\A c \in Client : client[c].state # "Handshake")

\* A peer that closes gives its place in the table back, however many timers share the
\* queue and however few of them are tested at a time.
PeersLeave == \A p \in PeerId : Ending(p) ~> ~Ending(p)

\* "If any events are ready to be processed, returns the next event immediately"
\* (Client::wait_event): a call returns if there is an event, also when no timer is set
\* anywhere and no frame is going to come.
Quiet == /\ \A c \in Client : ~client[c].ep.timer
         /\ \A p \in DOMAIN peers : ~peers[p].ep.timer
         /\ fired = <<>>
EventsReturned ==
    \A c \in Client : app[c].stage = "Waiting" /\ HasEvent(c) /\ Quiet ~> app[c].call = "None"

=============================================================================
