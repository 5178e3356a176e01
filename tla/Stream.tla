------------------------------- MODULE Stream -------------------------------
(***************************************************************************)
(* A connection once both sides are active: two endpoints, their hosts     *)
(* (client.rs, server/mod.rs and server/peer.rs) and UDP between them,     *)
(* which loses, duplicates and reorders frames.  A host is what calls the  *)
(* endpoint: the application's calls, frames that arrive and the timer.    *)
(*                                                                         *)
(* The client does all of it in one thread.  The server's timer is tested  *)
(* and cleared under one lock of the peer and handled under the next one,  *)
(* so that calls through a PeerHandle may come in between; frames are read *)
(* by the thread that handles timers, and do not.                          *)
(***************************************************************************)
EXTENDS Endpoint, Bags

CONSTANTS
    Script,         \* the packets each side sends: [packet, reliable, timeout_ms]
    Nonces,         \* the nonces that segments may get, each a function of their ids
    Rtos,           \* the timeouts update_rtt may compute
    Disconnects,    \* the sides that may disconnect
    MaxFaults,      \* bound: frames lost or duplicated
    MaxResends,     \* bound: timers that fire in an active endpoint
    MaxTime         \* bound: the clock

Side == {"client", "server"}

Peer(s) == IF s = "client" THEN "server" ELSE "client"

ASSUME StreamAssumption ==
    /\ Disconnects \subseteq Side
    /\ Rtos \subseteq RtoMin .. RtoMax
    /\ Nonces \subseteq [Id -> BOOLEAN]
    /\ {MaxFaults, MaxResends, MaxTime} \subseteq Nat

VARIABLES
    ep,         \* the endpoint of each side
    net,        \* the bag of frames on their way to each side
    events,     \* the events each side has raised for its application
    fired,      \* the server's timer has expired and is about to be handled
    now_ms,     \* the clock
    sent,       \* history: the packets each side has enqueued
    used        \* how much of each bound is used up

streamVars == <<ep, net, events, fired, now_ms, sent, used>>

Init == /\ ep = [s \in Side |-> [EndpointInit(EndpointNew) EXCEPT !.events = <<>>]]
        /\ net = [s \in Side |-> EmptyBag]
        /\ events = [s \in Side |-> <<[kind |-> "Connect"]>>]
        /\ fired = FALSE
        /\ now_ms = 0
        /\ sent = [s \in Side |-> <<>>]
        /\ used = [faults |-> 0, resends |-> 0]

\* HostContext: the frames that a call has sent go to the other side, on top of arrived,
\* and the events to the application.
Host(s, outcome, arrived) ==
    \E result \in {outcome} :
        /\ ep' = [ep EXCEPT ![s] = [result EXCEPT !.frames = <<>>, !.events = <<>>]]
        /\ net' = [net EXCEPT ![s] = arrived, ![Peer(s)] = @ (+) SeqExt!ToBag(result.frames)]
        /\ events' = [events EXCEPT ![s] = @ \o result.events]

-----------------------------------------------------------------------------
(* The application *)

\* Takes the next packet of the script: enqueue, or send, which is enqueue and flush under
\* one lock, of a Client or a PeerHandle.
EnqueueNext(s) ==
    LET p == Script[s][Len(sent[s]) + 1]
    IN  EndpointEnqueue(ep[s], p.packet, p.reliable, now_ms + p.timeout_ms + 1)

HasNext(s) == ep[s].state_id = "Active" /\ Len(sent[s]) < Len(Script[s])

Enqueue(s) ==
    /\ HasNext(s)
    /\ Host(s, EnqueueNext(s), net[s])
    /\ sent' = [sent EXCEPT ![s] = Append(@, Script[s][Len(@) + 1])]
    /\ UNCHANGED <<fired, now_ms, used>>

Send(s) ==
    /\ HasNext(s)
    /\ \E nonces \in Nonces :
          Host(s, EndpointFlush(EnqueueNext(s), nonces, now_ms), net[s])
    /\ sent' = [sent EXCEPT ![s] = Append(@, Script[s][Len(@) + 1])]
    /\ UNCHANGED <<fired, now_ms, used>>

Flush(s) ==
    /\ \E nonces \in Nonces : Host(s, EndpointFlush(ep[s], nonces, now_ms), net[s])
    /\ UNCHANGED <<fired, now_ms, sent, used>>

Disconnect(s) ==
    /\ s \in Disconnects
    /\ Host(s, EndpointDisconnect(ep[s]), net[s])
    /\ UNCHANGED <<fired, now_ms, sent, used>>

-----------------------------------------------------------------------------
(* The network *)

\* A frame arrives: handle_frame.
Receive(s, frame) ==
    /\ s = "server" => ~fired
    /\ \E nonces \in Nonces, rto_ms \in Rtos \cup {ep[s].rto_ms} :
          Host(s, HandleFrame(ep[s], frame, nonces, rto_ms, now_ms),
               net[s] (-) SetToBag({frame}))
    /\ UNCHANGED <<fired, now_ms, sent, used>>

Lose(s, frame) ==
    /\ used.faults < MaxFaults
    /\ used' = [used EXCEPT !.faults = @ + 1]
    /\ net' = [net EXCEPT ![s] = @ (-) SetToBag({frame})]
    /\ UNCHANGED <<ep, events, fired, now_ms, sent>>

Duplicate(s, frame) ==
    /\ used.faults < MaxFaults
    /\ used' = [used EXCEPT !.faults = @ + 1]
    /\ net' = [net EXCEPT ![s] = @ (+) SetToBag({frame})]
    /\ UNCHANGED <<ep, events, fired, now_ms, sent>>

-----------------------------------------------------------------------------
(* Timers *)

\* The bound on resending; an endpoint that closes gives up by itself.
CountResend(s) ==
    IF ep[s].state_id = "Active"
    THEN used.resends < MaxResends /\ used' = [used EXCEPT !.resends = @ + 1]
    ELSE UNCHANGED used

\* ClientCore::process_timeouts.
ClientTimeout ==
    /\ ep["client"].timer
    /\ CountResend("client")
    /\ \E nonces \in Nonces :
          Host("client", HandleRtoTimer([ep["client"] EXCEPT !.timer = FALSE], nonces, now_ms),
               net["client"])
    /\ UNCHANGED <<fired, now_ms, sent>>

\* handle_timeouts: TimerQueue::test calls Timer::test of the peer ...
ServerTimerTest ==
    /\ ep["server"].timer /\ ~fired
    /\ CountResend("server")
    /\ ep' = [ep EXCEPT !["server"].timer = FALSE]
    /\ fired' = TRUE
    /\ UNCHANGED <<net, events, now_ms, sent>>

\* ... and the peers whose timers have expired are handled.
ServerTimeout ==
    /\ fired
    /\ fired' = FALSE
    /\ \E nonces \in Nonces :
          Host("server", HandleRtoTimer(ep["server"], nonces, now_ms), net["server"])
    /\ UNCHANGED <<now_ms, sent, used>>

Tick == /\ now_ms < MaxTime
        /\ now_ms' = now_ms + 1
        /\ UNCHANGED <<ep, net, events, fired, sent, used>>

Next == \/ \E s \in Side : Enqueue(s) \/ Send(s) \/ Flush(s) \/ Disconnect(s)
        \/ \E s \in Side : \E frame \in BagToSet(net[s]) :
              Receive(s, frame) \/ Lose(s, frame) \/ Duplicate(s, frame)
        \/ ClientTimeout \/ ServerTimerTest \/ ServerTimeout
        \/ Tick

\* The hosts' event loops handle timers that have expired.  Only this is assumed, and only
\* once an endpoint closes: nothing is said about when frames arrive or are read.
Fairness == /\ WF_streamVars(ep["client"].state_id # "Active" /\ ClientTimeout)
            /\ WF_streamVars(ep["server"].state_id # "Active" /\ ServerTimerTest)
            /\ WF_streamVars(ep["server"].state_id # "Active" /\ ServerTimeout)

Spec == Init /\ [][Next]_streamVars /\ Fairness

-----------------------------------------------------------------------------
(* Properties *)

Ending == {"Disconnect", "Timeout"}

\* The reliable packets that a side has enqueued, and those it has received.
ReliableSent(s) ==
    SeqExt!FoldLeft(LAMBDA all, p : IF p.reliable THEN Append(all, p.packet) ELSE all,
                    <<>>, sent[s])
ReliableReceived(s) ==
    SeqExt!FoldLeft(LAMBDA all, e : IF e.kind = "Receive" /\ ~e.unrel
                                    THEN Append(all, e.packet) ELSE all, <<>>, events[s])

\* The host's timer and rto_timer_state agree in every state, also between the two locks
\* of the server: the `expect("rto timer fired but state is none")` of handle_rto_timer
\* never fails, and an endpoint that closes or is closed always has a timer to leave by.
\* A timer outlives its endpoint only where one timeout is longer than TimeoutTime: a
\* disconnect between the two locks sets it, and the endpoint gives up with it set.
TimerOK ==
    \A s \in Side :
        LET pending == ep[s].timer \/ (s = "server" /\ fired) IN
        CASE ep[s].state_id = "Active"  -> pending <=> ep[s].rto_timer_state # None
          [] ep[s].state_id = "Closing" -> pending /\ ep[s].rto_timer_state # None
          [] ep[s].state_id = "Closed"  -> pending
          [] OTHER                      -> RtoMax < TimeoutTime => ~pending

\* While segments are unacknowledged the resend timer runs, whatever acks were lost,
\* repeated or overtaken.
TransitGuarded ==
    \A s \in Side : ep[s].state_id = "Active" /\ InTransit(ep[s].segment_tx) > 0
                        => ep[s].rto_timer_state # None

\* The application is told of a connection's end once, and of nothing after it.
EndsOnce ==
    \A s \in Side :
        LET n == Len(events[s]) IN
        /\ \A i \in 1 .. n : events[s][i].kind \in Ending => i = n
        /\ ep[s].state_id \in {"Closed", "Zombie"} <=> events[s][n].kind \in Ending

\* Disconnect is raised only when the other side is through with the connection too: it
\* has called disconnect, or has seen the close request.
DisconnectAgreed ==
    \A s \in Side : (\E i \in 1 .. Len(events[s]) : events[s][i].kind = "Disconnect")
                        => ep[Peer(s)].state_id # "Active"

\* A reliable fragment that the sender has discarded has been accepted by the receiver,
\* across segments that were skipped, resynchronised and resent.
AckedIsReceived ==
    \A s \in Side :
        SeqExt!FoldLeft(LAMBDA n, packet : n + FragmentCount(packet), 0, ReliableSent(s))
            <= ep[Peer(s)].reliable_rx.next_fragment_id + Len(ep[s].rel.fragments)

\* "No more packets will be sent or received once this function has been called"
\* (disconnect): nothing is handed to the application afterwards, no segment is sent.
DisconnectIsFinal ==
    [][\A s \in Side : ep[s].state_id # "Active" =>
          /\ \A i \in Len(events[s]) + 1 .. Len(events'[s]) : events'[s][i].kind \in Ending
          /\ ep'[s].segment_tx.next_id = ep[s].segment_tx.next_id]_streamVars

\* Each direction delivers the reliable packets once and in order.
ClientFifo == INSTANCE FifoChannel WITH Item <- Seq(Byte),
    sent <- ReliableSent("client"), delivered <- ReliableReceived("server")
ServerFifo == INSTANCE FifoChannel WITH Item <- Seq(Byte),
    sent <- ReliableSent("server"), delivered <- ReliableReceived("client")
FifoSpec == ClientFifo!Spec /\ ServerFifo!Spec

\* An endpoint that closes ends, with or without an answer, and is destroyed.
CloseCompletes ==
    \A s \in Side : ep[s].state_id \in {"Closing", "Closed"} ~> ep[s].state_id = "Zombie"

\* "The packet will be sent and resent until delivered" (SendMode::Reliable, lib.rs):
\* while reliable fragments that were sent are unacknowledged and both sides are active,
\* the resend timer runs or some frame is still on its way.
StillTrying ==
    \A s \in Side :
        \/ ep[s].rel.base_id = ep[s].rel.max_ack_id
        \/ ep[s].rto_timer_state # None
        \/ \E r \in Side : net[r] # EmptyBag \/ ep[r].state_id # "Active"

=============================================================================
