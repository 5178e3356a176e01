---------------------------- MODULE StreamProofs ----------------------------
(***************************************************************************)
(* Two endpoints and the network between them: timers, the end of a        *)
(* connection and what the application is told of it, for every script,    *)
(* every window, every timeout and every bound on faults and resends.      *)
(*                                                                         *)
(* The invariant says of each side that its endpoint is as EndpointProofs  *)
(* finds it between two calls, that its events end at most once, and that  *)
(* a frame on its way that closes was sent by a side that is closing.      *)
(***************************************************************************)
EXTENDS Stream, EndpointProofs

-----------------------------------------------------------------------------
(* The invariant *)

\* The frames of a bag, whose sender has left or not.
FramesOK(bag, left) ==
    \A frame \in BagToSet(bag) : FrameOK(frame) /\ (frame.type \in {"Close", "CloseAck"} => left)

Handling(s) == s = "server" /\ fired

SideOK(s) ==
    /\ Resting(ep[s], Handling(s))
    /\ EventsOK(events[s], ep[s])
    /\ Agreed(events[s], Left(ep[Peer(s)]))
    /\ FramesOK(net[s], Left(ep[Peer(s)]))

Inv ==
    /\ fired \in BOOLEAN
    /\ DOMAIN ep = Side /\ DOMAIN net = Side /\ DOMAIN events = Side
    /\ \A s \in Side : SideOK(s)

-----------------------------------------------------------------------------
(* What a host does with the outcome of a call *)

LEMMA PeerFacts ==
    ASSUME NEW s \in Side
    PROVE  /\ Peer(s) \in Side /\ Peer(s) # s /\ Peer(Peer(s)) = s
           /\ \A r \in Side : r = s \/ r = Peer(s)
BY DEF Side, Peer

\* The frames of a call join those that the side has sent before.
LEMMA FramesAdded ==
    ASSUME NEW bag, NEW old, FramesOK(bag, Left(old)), NEW new, NEW handling, NEW agreed,
           Outcome(old, new, handling, agreed)
    PROVE  FramesOK(bag (+) SeqExt!ToBag(new.frames), Left(new))
<1>1. Left(old) => Left(new)
  BY DEF Left, Outcome
<1>2. DOMAIN new.frames = 1 .. Len(new.frames)
  BY IsSeqLen DEF Outcome
<1>3. PICK b : b = SeqExt!ToBag(new.frames)
  OBVIOUS
<1>4. \A frame \in DOMAIN b : \E i \in 1 .. Len(new.frames) : frame = new.frames[i]
  BY <1>2, <1>3 DEF SeqExt!ToBag, SeqExt!Range
<1>5. \A frame \in BagToSet(bag (+) b) : frame \in DOMAIN bag \/ frame \in DOMAIN b
  BY DEF (+), BagToSet
<1>6. ASSUME NEW frame \in BagToSet(bag (+) b)
      PROVE  FrameOK(frame) /\ (frame.type \in {"Close", "CloseAck"} => Left(new))
  <2>1. CASE frame \in DOMAIN bag
    BY <1>1, <2>1 DEF FramesOK, BagToSet
  <2>2. CASE frame \in DOMAIN b
    BY <1>4, <2>2 DEF Outcome, Left
  <2> QED BY <1>5, <2>1, <2>2
<1> QED BY <1>3, <1>6 DEF FramesOK

\* The part of DisconnectIsFinal that a step of one side is about.
Final(s) ==
    ep[s].state_id # "Active" =>
        /\ \A i \in Len(events[s]) + 1 .. Len(events'[s]) : events'[s][i].kind \in Ending
        /\ ep'[s].segment_tx.next_id = ep[s].segment_tx.next_id

\* A step that leaves a side as it was keeps the word given.
LEMMA UntouchedIsFinal ==
    ASSUME Inv, NEW s \in Side, events'[s] = events[s],
           ep'[s].segment_tx = ep[s].segment_tx
    PROVE  Final(s)
<1>1. PICK n \in Nat : n = Len(events[s])
  BY IsSeqLen DEF Inv, SideOK, EventsOK
<1>2. n + 1 .. n = {}
  OBVIOUS
<1> QED BY <1>1, <1>2 DEF Final

\* The step of a host whose call has such an outcome.
LEMMA HostStep ==
    ASSUME Inv, NEW s \in Side, NEW outcome, NEW arrived, Host(s, outcome, arrived),
           BagToSet(arrived) \subseteq BagToSet(net[s]),
           fired' \in BOOLEAN, s = "client" => fired' = fired,
           Outcome(ep[s], outcome, s = "server" /\ fired', Left(ep[Peer(s)]))
    PROVE  Inv' /\ \A r \in Side : Final(r)
<1>1. PICK p \in Side : p = Peer(s) /\ p # s /\ s = Peer(p) /\ \A r \in Side : r = s \/ r = p
  BY PeerFacts
<1>2. PICK e : e = [outcome EXCEPT !.frames = <<>>, !.events = <<>>]
  OBVIOUS
<1>3. /\ ep' = [ep EXCEPT ![s] = e]
      /\ net' = [net EXCEPT ![s] = arrived, ![p] = @ (+) SeqExt!ToBag(outcome.frames)]
      /\ events' = [events EXCEPT ![s] = @ \o outcome.events]
  BY <1>1, <1>2 DEF Host
<1>4. /\ DOMAIN ep' = Side /\ DOMAIN net' = Side /\ DOMAIN events' = Side
      /\ ep'[s] = e /\ ep'[p] = ep[p]
      /\ net'[s] = arrived /\ net'[p] = net[p] (+) SeqExt!ToBag(outcome.frames)
      /\ events'[s] = events[s] \o outcome.events /\ events'[p] = events[p]
  BY <1>1, <1>3 DEF Inv
<1>5. /\ Resting(e, s = "server" /\ fired') /\ e.state_id = outcome.state_id
      /\ e.segment_tx = outcome.segment_tx
  BY <1>2, EmptiedRests
<1>6. SideOK(s) /\ SideOK(p)
  BY <1>1 DEF Inv
<1>7. /\ Left(ep[s]) => Left(e)
      /\ Left(ep[s]) => e.segment_tx.next_id = ep[s].segment_tx.next_id
  BY <1>5 DEF Outcome, Left
<1>8. SideOK(s)'
  <2>1. EventsOK(events'[s], e) /\ Agreed(events'[s], Left(ep[p]))
    <3>1. EventsOK(events[s], ep[s]) /\ Agreed(events[s], Left(ep[p]))
      BY <1>1, <1>6 DEF SideOK
    <3>2. EventsOK(events'[s], outcome) /\ Agreed(events'[s], Left(ep[p]))
      BY <1>1, <1>4, <3>1, EventsAdded
    <3> QED BY <1>5, <3>2 DEF EventsOK, Ended
  <2>2. FramesOK(arrived, Left(ep[p]))
    BY <1>1, <1>6 DEF SideOK, FramesOK
  <2>3. Resting(ep'[s], Handling(s)')
    BY <1>4, <1>5 DEF Handling
  <2> QED BY <1>1, <1>4, <2>1, <2>2, <2>3 DEF SideOK
<1>9. SideOK(p)'
  <2>1. Resting(ep'[p], Handling(p)')
    <3>1. Resting(ep[p], Handling(p))
      BY <1>6 DEF SideOK
    <3>2. Handling(p)' = Handling(p)
      BY <1>1 DEF Handling, Side
    <3> QED BY <1>4, <3>1, <3>2
  <2>2. EventsOK(events'[p], ep'[p])
    BY <1>4, <1>6 DEF SideOK
  <2>3. Agreed(events'[p], Left(e))
    BY <1>1, <1>4, <1>6, <1>7 DEF SideOK, Agreed
  <2>4. FramesOK(net'[p], Left(e))
    <3>1. FramesOK(net[p], Left(ep[s]))
      BY <1>1, <1>6 DEF SideOK
    <3>2. FramesOK(net'[p], Left(outcome))
      BY <1>4, <3>1, FramesAdded
    <3> QED BY <1>5, <3>2 DEF Left
  <2> QED BY <1>1, <1>4, <2>1, <2>2, <2>3, <2>4 DEF SideOK
<1>10. Final(s)
  <2>1. EventsOK(events[s], ep[s])
    BY <1>6 DEF SideOK
  <2>2. Left(ep[s]) => \A i \in Len(events[s]) + 1 .. Len(events'[s]) :
                           events'[s][i].kind \in Ending
    BY <1>4, <2>1, EventsAdded DEF EndKinds, Ending
  <2> QED BY <1>4, <1>7, <2>2 DEF Final, Left
<1>11. Final(p)
  BY <1>4, UntouchedIsFinal
<1> QED BY <1>1, <1>4, <1>8, <1>9, <1>10, <1>11 DEF Inv

-----------------------------------------------------------------------------
(* Init *)

LEMMA InitHolds == Init => Inv
<1> SUFFICES ASSUME Init PROVE Inv
  OBVIOUS
<1>1. PICK first : first = EndpointInit(EndpointNew)
  OBVIOUS
<1>2. PICK e : e = [first EXCEPT !.events = <<>>]
  OBVIOUS
<1>3. PICK connect : connect = <<[kind |-> "Connect"]>>
  OBVIOUS
<1>4. ASSUME NEW s \in Side
      PROVE  /\ ep[s] = e /\ net[s] = EmptyBag /\ events[s] = connect
             /\ ep[Peer(s)] = e
  BY <1>1, <1>2, <1>3, PeerFacts DEF Init
<1>5. Resting(e, FALSE) /\ e.state_id = "Active"
  <2>1. Sending(first, FALSE, connect)
    BY <1>1, <1>3, InitSends
  <2>2. DOMAIN first = EpFields /\ first.frames = <<>>
    BY <1>1 DEF EndpointInit, EndpointNew, Raise, EpFields
  <2>3. e = [first EXCEPT !.frames = <<>>, !.events = <<>>]
    BY <1>2, <2>2 DEF EpFields
  <2> QED BY <2>1, <2>3, SendingRests
<1>6. EventsOK(connect, e) /\ \A i \in 1 .. Len(connect) : connect[i].kind # "Disconnect"
  BY <1>3, <1>5, ConnectOK DEF Ended
<1>7. BagToSet(EmptyBag) = {}
  BY DEF BagToSet, EmptyBag, SetToBag
<1>8. ASSUME NEW s \in Side PROVE SideOK(s)
  <2>1. Handling(s) = FALSE
    BY DEF Handling, Init
  <2>2. Resting(ep[s], Handling(s)) /\ EventsOK(events[s], ep[s])
    BY <1>4, <1>5, <1>6, <2>1
  <2> QED BY <1>4, <1>6, <1>7, <2>2 DEF SideOK, Agreed, FramesOK
<1> QED BY <1>8 DEF Inv, Init

-----------------------------------------------------------------------------
(* Steps *)

\* What a call needs to know of the side that it is made on.
LEMMA SideFacts ==
    ASSUME Inv, NEW s \in Side
    PROVE  /\ Resting(ep[s], s = "server" /\ fired)
           /\ BagToSet(net[s]) \subseteq BagToSet(net[s])
           /\ fired \in BOOLEAN
BY DEF Inv, SideOK, Handling

LEMMA EnqueueStep ==
    ASSUME Inv, NEW s \in Side, Enqueue(s) \/ Send(s)
    PROVE  Inv' /\ \A r \in Side : Final(r)
<1>1. PICK p : p = Script[s][Len(sent[s]) + 1]
  OBVIOUS
<1>2. PICK time : time = now_ms + p.timeout_ms + 1
  OBVIOUS
<1>3. EnqueueNext(s) = EndpointEnqueue(ep[s], p.packet, p.reliable, time)
  BY <1>1, <1>2 DEF EnqueueNext
<1>4. fired' = fired /\ ep[s].state_id = "Active"
  BY DEF Enqueue, Send, HasNext
<1>5. PICK outcome, nonces :
         /\ outcome = EnqueueNext(s) \/ outcome = EndpointFlush(EnqueueNext(s), nonces, now_ms)
         /\ Host(s, outcome, net[s])
  BY DEF Enqueue, Send
<1>6. Outcome(ep[s], outcome, s = "server" /\ fired, Left(ep[Peer(s)]))
  BY <1>3, <1>4, <1>5, SideFacts, EnqueueOutcome
<1> QED BY <1>4, <1>5, <1>6, SideFacts, HostStep

LEMMA FlushStep ==
    ASSUME Inv, NEW s \in Side, Flush(s)
    PROVE  Inv' /\ \A r \in Side : Final(r)
<1>1. PICK nonces : Host(s, EndpointFlush(ep[s], nonces, now_ms), net[s])
  BY DEF Flush
<1>2. fired' = fired
  BY DEF Flush
<1>3. Outcome(ep[s], EndpointFlush(ep[s], nonces, now_ms), s = "server" /\ fired,
              Left(ep[Peer(s)]))
  BY SideFacts, FlushOutcome
<1> QED BY <1>1, <1>2, <1>3, SideFacts, HostStep

LEMMA DisconnectStep ==
    ASSUME Inv, NEW s \in Side, Disconnect(s)
    PROVE  Inv' /\ \A r \in Side : Final(r)
<1>1. Host(s, EndpointDisconnect(ep[s]), net[s]) /\ fired' = fired
  BY DEF Disconnect
<1>2. Outcome(ep[s], EndpointDisconnect(ep[s]), s = "server" /\ fired, Left(ep[Peer(s)]))
  BY SideFacts, DisconnectOutcome
<1> QED BY <1>1, <1>2, SideFacts, HostStep

LEMMA ReceiveStep ==
    ASSUME Inv, NEW s \in Side, NEW frame \in BagToSet(net[s]), Receive(s, frame)
    PROVE  Inv' /\ \A r \in Side : Final(r)
<1>1. PICK nonces \in Nonces, rto \in Rtos \cup {ep[s].rto_ms} :
         Host(s, HandleFrame(ep[s], frame, nonces, rto, now_ms), net[s] (-) SetToBag({frame}))
  BY DEF Receive
<1>2. fired' = fired /\ (s = "server" /\ fired) = FALSE /\ fired \in BOOLEAN
  BY SideFacts DEF Receive
<1>3. Resting(ep[s], FALSE)
  BY <1>2, SideFacts
<1>4. rto \in RtoMin .. RtoMax
  BY <1>3, StreamAssumption DEF Resting, PartsOK
<1>5. FrameOK(frame) /\ (frame.type \in {"Close", "CloseAck"} => Left(ep[Peer(s)]))
  BY DEF Inv, SideOK, FramesOK
<1>6. Outcome(ep[s], HandleFrame(ep[s], frame, nonces, rto, now_ms), FALSE, Left(ep[Peer(s)]))
  BY <1>3, <1>4, <1>5, HandleFrameOutcome
<1>7. Outcome(ep[s], HandleFrame(ep[s], frame, nonces, rto, now_ms), s = "server" /\ fired',
              Left(ep[Peer(s)]))
  BY <1>2, <1>6
<1>8. BagToSet(net[s] (-) SetToBag({frame})) \subseteq BagToSet(net[s])
  BY DEF BagToSet, (-)
<1> QED BY <1>1, <1>2, <1>7, <1>8, HostStep

\* A step that changes the frames on their way to one side, or nothing at all.
LEMMA NetworkStep ==
    ASSUME Inv, UNCHANGED <<ep, events, fired>>, DOMAIN net' = Side,
           \A s \in Side : BagToSet(net'[s]) \subseteq BagToSet(net[s])
    PROVE  Inv' /\ \A r \in Side : Final(r)
<1>1. ASSUME NEW s \in Side PROVE SideOK(s)'
  BY DEF Inv, SideOK, FramesOK, Handling
<1>2. ASSUME NEW s \in Side PROVE Final(s)
  BY UntouchedIsFinal
<1> QED BY <1>1, <1>2 DEF Inv

LEMMA FaultStep ==
    ASSUME Inv, NEW s \in Side, NEW frame \in BagToSet(net[s]),
           Lose(s, frame) \/ Duplicate(s, frame)
    PROVE  Inv' /\ \A r \in Side : Final(r)
<1>1. PICK bag : net' = [net EXCEPT ![s] = bag] /\ BagToSet(bag) \subseteq BagToSet(net[s])
  <2>1. CASE Lose(s, frame)
    <3>1. net' = [net EXCEPT ![s] = net[s] (-) SetToBag({frame})]
      BY <2>1 DEF Lose, Inv
    <3>2. BagToSet(net[s] (-) SetToBag({frame})) \subseteq BagToSet(net[s])
      BY DEF BagToSet, (-)
    <3> QED BY <3>1, <3>2
  <2>2. CASE Duplicate(s, frame)
    <3>1. net' = [net EXCEPT ![s] = net[s] (+) SetToBag({frame})]
      BY <2>2 DEF Duplicate, Inv
    <3>2. BagToSet(net[s] (+) SetToBag({frame})) \subseteq BagToSet(net[s])
      BY DEF BagToSet, (+), SetToBag
    <3> QED BY <3>1, <3>2
  <2> QED BY <2>1, <2>2
<1>2. UNCHANGED <<ep, events, fired>>
  BY DEF Lose, Duplicate
<1>3. DOMAIN net' = Side /\ \A r \in Side : BagToSet(net'[r]) \subseteq BagToSet(net[r])
  BY <1>1 DEF Inv
<1> QED BY <1>2, <1>3, NetworkStep

\* Both locks in one: the client has a single thread.
LEMMA ClientTimeoutStep ==
    ASSUME Inv, ClientTimeout
    PROVE  Inv' /\ \A r \in Side : Final(r)
<1>1. PICK s \in Side : s = "client"
  BY DEF Side
<1>2. PICK tested : tested = [ep[s] EXCEPT !.timer = FALSE]
  OBVIOUS
<1>3. PICK nonces : Host(s, HandleRtoTimer(tested, nonces, now_ms), net[s])
  BY <1>1, <1>2 DEF ClientTimeout
<1>4. ep[s].timer /\ fired' = fired
  BY <1>1 DEF ClientTimeout
<1>5. Resting(ep[s], FALSE) /\ (s = "server" /\ fired') = FALSE
  <2>1. (s = "server" /\ fired) = FALSE /\ (s = "server" /\ fired') = FALSE
    BY <1>1
  <2> QED BY <2>1, SideFacts
<1>6. Due(tested)
  BY <1>2, <1>4, <1>5, TimerTestKeeps
<1>7. tested.state_id = ep[s].state_id /\ tested.segment_tx = ep[s].segment_tx
  BY <1>2, <1>5 DEF Resting, PartsOK, EpFields
<1>8. Outcome(tested, HandleRtoTimer(tested, nonces, now_ms), FALSE, Left(ep[Peer(s)]))
  BY <1>6, HandleRtoTimerOutcome
<1>9. Outcome(ep[s], HandleRtoTimer(tested, nonces, now_ms), FALSE, Left(ep[Peer(s)]))
  BY <1>7, <1>8 DEF Outcome, Ended
<1>10. Outcome(ep[s], HandleRtoTimer(tested, nonces, now_ms), s = "server" /\ fired',
               Left(ep[Peer(s)]))
  BY <1>5, <1>9
<1> QED BY <1>3, <1>4, <1>10, SideFacts, HostStep

LEMMA ServerTimerTestStep ==
    ASSUME Inv, ServerTimerTest
    PROVE  Inv' /\ \A r \in Side : Final(r)
<1>1. PICK s, p \in Side : /\ s = "server" /\ p = "client" /\ p = Peer(s) /\ s = Peer(p)
                           /\ \A r \in Side : r = s \/ r = p
  BY DEF Side, Peer
<1>2. PICK tested : tested = [ep[s] EXCEPT !.timer = FALSE]
  OBVIOUS
<1>3. /\ ep' = [ep EXCEPT ![s] = tested] /\ fired' = TRUE
      /\ net' = net /\ events' = events /\ ep[s].timer /\ fired = FALSE
  BY <1>1, <1>2, SideFacts DEF ServerTimerTest, Inv
<1>4. Resting(ep[s], FALSE)
  BY <1>3, SideFacts
<1>5. Resting(tested, TRUE)
  BY <1>2, <1>3, <1>4, TimerTestKeeps
<1>6. tested.state_id = ep[s].state_id /\ tested.segment_tx = ep[s].segment_tx
  BY <1>2, <1>4 DEF Resting, PartsOK, EpFields
<1>7. DOMAIN ep' = Side /\ ep'[s] = tested /\ ep'[p] = ep[p]
  BY <1>1, <1>3 DEF Inv
<1>8. SideOK(s) /\ SideOK(p)
  BY DEF Inv
<1>9. SideOK(s)'
  <2>1. Handling(s)' = TRUE
    BY <1>1, <1>3 DEF Handling
  <2>2. Resting(ep'[s], Handling(s)')
    BY <1>5, <1>7, <2>1
  <2> QED BY <1>1, <1>3, <1>6, <1>7, <1>8, <2>2 DEF SideOK, EventsOK, Ended
<1>10. SideOK(p)'
  <2>1. Handling(p)' = Handling(p)
    BY <1>1 DEF Handling
  <2>2. Left(ep'[s]) = Left(ep[s])
    BY <1>6, <1>7 DEF Left
  <2> QED BY <1>1, <1>3, <1>7, <1>8, <2>1, <2>2 DEF SideOK
<1>11. Final(s) /\ Final(p)
  BY <1>3, <1>6, <1>7, UntouchedIsFinal
<1> QED BY <1>1, <1>3, <1>7, <1>9, <1>10, <1>11 DEF Inv

LEMMA ServerTimeoutStep ==
    ASSUME Inv, ServerTimeout
    PROVE  Inv' /\ \A r \in Side : Final(r)
<1>1. PICK s \in Side : s = "server"
  BY DEF Side
<1>2. PICK nonces : Host(s, HandleRtoTimer(ep[s], nonces, now_ms), net[s])
  BY <1>1 DEF ServerTimeout
<1>3. fired = TRUE /\ fired' = FALSE
  BY SideFacts, <1>1 DEF ServerTimeout
<1>4. Resting(ep[s], TRUE)
  BY <1>1, <1>3, SideFacts
<1>5. Outcome(ep[s], HandleRtoTimer(ep[s], nonces, now_ms), FALSE, Left(ep[Peer(s)]))
  BY <1>4, FiredIsDue, HandleRtoTimerOutcome
<1>6. Outcome(ep[s], HandleRtoTimer(ep[s], nonces, now_ms), s = "server" /\ fired',
              Left(ep[Peer(s)]))
  BY <1>3, <1>5
<1> QED BY <1>1, <1>2, <1>3, <1>6, SideFacts, HostStep

\* Every step keeps the invariant and the word given by disconnect.
LEMMA StepHolds ==
    ASSUME Inv, [Next]_streamVars
    PROVE  Inv' /\ \A r \in Side : Final(r)
<1>1. ASSUME NEW s \in Side, Enqueue(s) \/ Send(s) \/ Flush(s) \/ Disconnect(s)
      PROVE  Inv' /\ \A r \in Side : Final(r)
  BY <1>1, EnqueueStep, FlushStep, DisconnectStep
<1>2. ASSUME NEW s \in Side, NEW frame \in BagToSet(net[s]),
             Receive(s, frame) \/ Lose(s, frame) \/ Duplicate(s, frame)
      PROVE  Inv' /\ \A r \in Side : Final(r)
  BY <1>2, ReceiveStep, FaultStep
<1>3. CASE ClientTimeout \/ ServerTimerTest \/ ServerTimeout
  BY <1>3, ClientTimeoutStep, ServerTimerTestStep, ServerTimeoutStep
<1>4. CASE Tick \/ UNCHANGED streamVars
  BY <1>4, NetworkStep DEF Tick, streamVars, Inv
<1> QED BY <1>1, <1>2, <1>3, <1>4 DEF Next

-----------------------------------------------------------------------------
(* Theorems *)

\* The invariant holds in every state, whatever the network, the applications and the
\* timers do.
THEOREM Invariance == Spec => []Inv
<1>1. Inv /\ [Next]_streamVars => Inv'
  BY StepHolds
<1> QED BY <1>1, InitHolds, PTL DEF Spec

\* The host's timer and rto_timer_state always agree, also between the two locks of the
\* server, and an endpoint that closes or is closed has a timer to leave by (TimerOK).
THEOREM TimersAlwaysOK == Spec => []TimerOK
<1>1. Inv => TimerOK
  <2> SUFFICES ASSUME Inv PROVE TimerOK
    OBVIOUS
  <2>1. ASSUME NEW s \in Side PROVE StateOK(ep[s], s = "server" /\ fired)
    BY SideFacts DEF Resting
  <2> QED BY <2>1 DEF TimerOK, StateOK, ClockOK
<1> QED BY <1>1, Invariance, PTL

\* Whatever acks were lost, repeated or overtaken, unacknowledged segments have a resend
\* timer (TransitGuarded).
THEOREM TransitAlwaysGuarded == Spec => []TransitGuarded
<1>1. Inv => TransitGuarded
  <2> SUFFICES ASSUME Inv, NEW s \in Side, ep[s].state_id = "Active",
                      ep[s].rto_timer_state = None
               PROVE  InTransit(ep[s].segment_tx) = 0
    <3>1. \A n : n = 0 => ~(n > 0)
      OBVIOUS
    <3> QED BY <3>1 DEF TransitGuarded
  <2>1. PICK tx : tx = ep[s].segment_tx
    OBVIOUS
  <2>2. TxOK(tx) /\ tx.base_id = tx.next_id
    BY <2>1, SideFacts DEF Resting, PartsOK, StateOK, ClockOK
  <2> QED BY <2>1, <2>2, SubSelf DEF InTransit, TxOK
<1> QED BY <1>1, Invariance, PTL

\* The application of each side is told of the end once, exactly when its endpoint has
\* ended, and of nothing after it (EndsOnce).
THEOREM AlwaysEndsOnce == Spec => []EndsOnce
<1>1. Inv => EndsOnce
  BY DEF Inv, SideOK, EventsOK, EndsOnce, Ended, Ending, EndKinds
<1> QED BY <1>1, Invariance, PTL

\* A Disconnect event is raised only when the other side is through with the connection
\* too (DisconnectAgreed), although close frames are lost, repeated and overtaken.
THEOREM AlwaysDisconnectAgreed == Spec => []DisconnectAgreed
<1>1. Inv => DisconnectAgreed
  BY DEF Inv, SideOK, Agreed, Left, DisconnectAgreed
<1> QED BY <1>1, Invariance, PTL

\* After disconnect nothing but the ending is handed to the application, and no segment is
\* sent (DisconnectIsFinal).
THEOREM DisconnectAlwaysFinal == Spec => DisconnectIsFinal
<1>1. Inv /\ [Next]_streamVars
        => [\A s \in Side : ep[s].state_id # "Active" =>
              /\ \A i \in Len(events[s]) + 1 .. Len(events'[s]) : events'[s][i].kind \in Ending
              /\ ep'[s].segment_tx.next_id = ep[s].segment_tx.next_id]_streamVars
  BY StepHolds DEF Final
<1> QED BY <1>1, Invariance, PTL DEF Spec, DisconnectIsFinal


=============================================================================
