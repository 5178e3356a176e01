-------------------------- MODULE UnreliableBuffer --------------------------
(***************************************************************************)
(* The unreliable fragment buffers (buffer/unreliable.rs) as operators on  *)
(* records.  A fragment is sent once; one whose time has come is dropped   *)
(* from the front of the queue, and only fragments that are really sent    *)
(* get an id.  The receiver builds one packet at a time.                   *)
(***************************************************************************)
EXTENDS WrappingIds, Fragmentation

\* current_build is None.
NoBuild == "None"

-----------------------------------------------------------------------------
(* TxBuffer: entries are the fragments with their expire_time_ms. *)

UnrelTxNew(base_id) == [entries |-> <<>>, next_fragment_id |-> base_id]

UnrelPush(tx, packet, expire_time_ms) ==
    [tx EXCEPT !.entries =
        @ \o [i \in 1 .. FragmentCount(packet) |->
                [fragment |-> Fragments(packet)[i], expire_time_ms |-> expire_time_ms]]]

\* pop_expired: what is left starts at the first entry that has not expired.
PopExpired(tx, now_ms) ==
    LET n == Len(tx.entries)
        live == {i \in 1 .. n : tx.entries[i].expire_time_ms > now_ms}
        front == IF live = {} THEN n + 1 ELSE CHOOSE i \in live : \A j \in live : i <= j
    IN  [tx EXCEPT !.entries = SubSeq(@, front, n)]

\* peek_sendable returns something, under the id next_fragment_id.
UnrelHasSendable(tx) == tx.entries # <<>>
UnrelPeekSendable(tx) == tx.entries[1].fragment

\* Mutant: the id is incremented without wrapping.
UnrelPopNoWrap(tx) ==
    [entries          |-> Tail(tx.entries),
     next_fragment_id |-> tx.next_fragment_id + 1]

UnrelPopSendable(tx) ==
    [entries          |-> Tail(tx.entries),
     next_fragment_id |-> WrappingAdd(tx.next_fragment_id, 1)]

-----------------------------------------------------------------------------
(* RxBuffer *)

UnrelRxNew(base_id) == [base_id |-> base_id, build |-> NoBuild]

\* receive accepts any valid first fragment, and a later one only if it continues
\* the packet under construction.
Continues(rx, fragment_id) == fragment_id = rx.base_id /\ rx.build # NoBuild

UnrelAccepts(rx, fragment_id, fragment) ==
    /\ FragmentIsValid(fragment)
    /\ fragment.first \/ Continues(rx, fragment_id)

\* receive: the buffer afterwards, and the packets it returns (none or one).
UnrelReceive(rx, fragment_id, fragment) ==
    IF UnrelAccepts(rx, fragment_id, fragment)
    THEN LET buffer == IF fragment.first THEN fragment.data ELSE rx.build \o fragment.data
         IN  [rx  |-> [base_id |-> WrappingAdd(fragment_id, 1),
                       build   |-> IF fragment.last THEN NoBuild ELSE buffer],
              out |-> IF fragment.last THEN <<buffer>> ELSE <<>>]
    ELSE [rx |-> rx, out |-> <<>>]

\* Mutant: the packet under construction survives.
UnrelResetKeeps(rx) == rx

UnrelReset(rx) == [rx EXCEPT !.build = NoBuild]

=============================================================================
