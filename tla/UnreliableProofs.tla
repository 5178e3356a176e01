-------------------------- MODULE UnreliableProofs --------------------------
(***************************************************************************)
(* Proofs about the unreliable buffers and the channel between them, for   *)
(* every fragment size, id width, lengths and timeouts of packets.         *)
(***************************************************************************)
EXTENDS UnreliableChannel, CommonProofs

-----------------------------------------------------------------------------
(* The inductive invariant *)

\* The bytes of packets, and what is queued and in flight.
Data == Seq(Nat \X Nat)
DataFragment == [first : BOOLEAN, last : BOOLEAN, data : Data]
Entry == [fragment : DataFragment, expire_time_ms : Nat]
Message == [n : Nat, id : Id, fragment : DataFragment]

\* The types of all variables, and the order of the numbers of segments.  A segment
\* that is not yet received is less than a full turn of ids after the anchor.
Base ==
    /\ packets \in Seq(Data) /\ delivered \in Seq(Data)
    /\ utx \in [entries : Seq(Entry), next_fragment_id : Id]
    /\ urx \in [base_id : Id, build : Data \cup {NoBuild}]
    /\ wire \in Seq(Message)
    /\ last \in Nat /\ floor \in Nat /\ anchor \in Nat /\ now_ms \in 0 .. MaxTime
    /\ anchor <= floor /\ floor <= last /\ last <= anchor + IdMod
    /\ utx.next_fragment_id = last % IdMod
    /\ syncs \subseteq 1 .. last

\* The first N fragments: the j-th one is fragment K[j] of packet P[j].  They are in
\* the order of the packets pk, and each but a first one follows its predecessor in
\* the packet.
Sources(N, pk, P, K) ==
    /\ \A j \in 1 .. N : /\ P[j] \in 1 .. Len(pk)
                         /\ K[j] \in 1 .. FragmentCount(pk[P[j]])
    /\ \A i, j \in 1 .. N : i < j => P[i] < P[j] \/ (P[i] = P[j] /\ K[i] < K[j])
    /\ \A j \in 1 .. N : K[j] # 1 => /\ j - 1 \in 1 .. N
                                     /\ P[j - 1] = P[j] /\ K[j] = K[j - 1] + 1

\* The entries are the fragments after the first l, and those of a packet expire at
\* the same time.
Queued(entries, l, pk, P, K) ==
    /\ \A i \in 1 .. Len(entries) :
          entries[i].fragment = Fragments(pk[P[l + i]])[K[l + i]]
    /\ \A i \in 2 .. Len(entries) :
          K[l + i] # 1 => entries[i].expire_time_ms = entries[i - 1].expire_time_ms

\* A segment in flight is numbered by its id and carries the fragment it was sent with.
InFlight(P, K) ==
    \A i \in 1 .. Len(wire) :
        /\ wire[i].n \in floor + 1 .. last
        /\ wire[i].id = (wire[i].n - 1) % IdMod
        /\ wire[i].fragment = Fragments(packets[P[wire[i].n]])[K[wire[i].n]]
        /\ \A j \in 1 .. i - 1 : wire[j].n < wire[i].n

\* The packet under construction is the packet of the last accepted fragment up to it.
Building(P, K) ==
    urx.build # NoBuild =>
        /\ anchor \in 1 .. last /\ urx.base_id = anchor % IdMod
        /\ K[anchor] < FragmentCount(packets[P[anchor]])
        /\ urx.build = SubSeq(packets[P[anchor]], 1, K[anchor] * FragmentSize)

\* The packets handed out are those numbered by f, in order, and no fragment that may
\* still be accepted belongs to one of them or to an earlier packet.
HandedOut(N, P, f) ==
    /\ f \in [1 .. Len(delivered) -> 1 .. Len(packets)]
    /\ \A i \in 1 .. Len(delivered) :
          delivered[i] = packets[f[i]] /\ \A j \in anchor + 1 .. N : f[i] < P[j]
    /\ \A i, j \in 1 .. Len(delivered) : i < j => f[i] < f[j]

Witness(P, K, f) ==
    LET N == last + Len(utx.entries) IN
    /\ Sources(N, packets, P, K)
    /\ Queued(utx.entries, last, packets, P, K)
    /\ InFlight(P, K)
    /\ Building(P, K)
    /\ HandedOut(N, P, f)

Inv == Base /\ \E P, K, f : Witness(P, K, f)

-----------------------------------------------------------------------------
(* Packets and their fragments *)

LEMMA BaseTypes ==
    ASSUME Base
    PROVE  /\ utx.entries \in Seq(Entry) /\ utx.next_fragment_id \in Id
           /\ Len(utx.entries) \in Nat /\ Len(packets) \in Nat /\ Len(wire) \in Nat
           /\ urx.base_id \in Id /\ Len(delivered) \in Nat
           /\ now_ms \in Nat
  BY UnreliableAssumption DEF Base

\* What push appends.
LEMMA PushedEntries ==
    ASSUME NEW packet \in Data, NEW t \in Nat
    PROVE  LET new == [i \in 1 .. FragmentCount(packet) |->
                         [fragment |-> Fragments(packet)[i], expire_time_ms |-> t]]
           IN  new \in Seq(Entry) /\ Len(new) = FragmentCount(packet)
<1> DEFINE c == FragmentCount(packet)
           new == [i \in 1 .. c |-> [fragment |-> Fragments(packet)[i], expire_time_ms |-> t]]
<1>1. c \in Nat /\ Fragments(packet) \in Seq(DataFragment)
  BY FragmentBounds, FragmentsType DEF Data, DataFragment
<1>2. ASSUME NEW i \in 1 .. c PROVE new[i] \in Entry
  <2>1. Fragments(packet)[i] \in DataFragment
    <3>1. Len(Fragments(packet)) = c
      BY <1>1 DEF Fragments
    <3> HIDE DEF c
    <3> QED BY <1>1, <3>1
  <2> QED BY <2>1 DEF Entry
<1> HIDE DEF c
<1>3. new \in Seq(Entry)
  BY <1>1, <1>2
<1>4. Len(new) = c
  BY <1>1
<1> QED BY <1>3, <1>4 DEF c

\* pop_expired: d entries are dropped from the front, and the next one is a first
\* fragment if any entry was.
LEMMA ExpiredEntries ==
    ASSUME Base, NEW P, NEW K, Queued(utx.entries, last, packets, P, K)
    PROVE  \E d \in 0 .. Len(utx.entries) :
             /\ PopExpired(utx, now_ms) =
                  [entries          |-> SubSeq(utx.entries, d + 1, Len(utx.entries)),
                   next_fragment_id |-> utx.next_fragment_id]
             /\ d > 0 /\ d < Len(utx.entries) => K[last + (d + 1)] = 1
<1> DEFINE es == utx.entries
           n == Len(es)
           live == {i \in 1 .. n : es[i].expire_time_ms > now_ms}
           front == IF live = {} THEN n + 1 ELSE CHOOSE i \in live : \A j \in live : i <= j
<1>1. n \in Nat /\ es \in Seq(Entry) /\ now_ms \in Nat
  BY BaseTypes
<1>2. PopExpired(utx, now_ms) = [utx EXCEPT !.entries = SubSeq(es, front, n)]
  BY DEF PopExpired
<1>3. [utx EXCEPT !.entries = SubSeq(es, front, n)] =
        [entries |-> SubSeq(es, front, n), next_fragment_id |-> utx.next_fragment_id]
  <2>1. utx \in [entries : Seq(Entry), next_fragment_id : Id]
    BY DEF Base
  <2>2. ASSUME NEW x
        PROVE  [utx EXCEPT !.entries = x] =
                 [entries |-> x, next_fragment_id |-> utx.next_fragment_id]
    BY <2>1
  <2> HIDE DEF front, n, es
  <2> QED BY <2>2
<1>4. CASE live = {}
  <2>1. front = n + 1 /\ n \in 0 .. n
    BY <1>1, <1>4
  <2>2. ~(n < n)
    BY <1>1
  <2> QED BY <1>2, <1>3, <2>1, <2>2
<1>5. CASE live # {}
  <2>1. PICK x \in live : \A j \in live : x <= j
    <3>1. live \subseteq Nat
      BY <1>1
    <3> HIDE DEF live
    <3> QED BY <1>5, <3>1, LeastElement
  <2>2. front \in live /\ \A j \in live : front <= j
    BY <1>5, <2>1
  <2> HIDE DEF front
  <2> DEFINE d == front - 1
  <2>3. front \in 1 .. n /\ d \in 0 .. n /\ d + 1 = front
    BY <1>1, <2>2
  <2>4. ASSUME d > 0 PROVE K[last + front] = 1
    <3>1. front \in 2 .. n /\ front - 1 \in 1 .. n /\ ~(front <= front - 1)
      BY <1>1, <2>3, <2>4
    <3>2. ~(es[front - 1].expire_time_ms > now_ms)
      BY <2>2, <3>1
    <3>3. es[front].expire_time_ms > now_ms
      BY <2>2
    <3>4. es[front].expire_time_ms # es[front - 1].expire_time_ms
      BY <3>2, <3>3
    <3> QED BY <3>1, <3>4 DEF Queued
  <2> QED BY <1>2, <1>3, <2>3, <2>4
<1> QED BY <1>4, <1>5

\* Dropping d fragments after the first l leaves the rest in order, if the next one is
\* a first fragment.
Without(X, l, d, N) == [j \in 1 .. N - d |-> IF j <= l THEN X[j] ELSE X[j + d]]

LEMMA ExpiredSources ==
    ASSUME NEW pk, NEW P, NEW K, NEW l \in Nat, NEW N \in Nat, NEW d \in Nat, l + d <= N,
           Sources(N, pk, P, K), d > 0 /\ l + d < N => K[l + (d + 1)] = 1
    PROVE  Sources(N - d, pk, Without(P, l, d, N), Without(K, l, d, N))
<1> DEFINE p == Without(P, l, d, N)
           k == Without(K, l, d, N)
           M == N - d
           at(j) == IF j <= l THEN j ELSE j + d
<1>1. ASSUME NEW j \in 1 .. M
      PROVE  at(j) \in 1 .. N /\ p[j] = P[at(j)] /\ k[j] = K[at(j)]
  BY DEF Without
<1>2. \A i, j \in 1 .. M : i < j => at(i) < at(j)
  OBVIOUS
<1>3. ASSUME NEW j \in 1 .. M, k[j] # 1
      PROVE  j - 1 \in 1 .. M /\ p[j - 1] = p[j] /\ k[j] = k[j - 1] + 1
  <2>1. /\ at(j) - 1 \in 1 .. N /\ P[at(j) - 1] = P[at(j)]
        /\ K[at(j)] = K[at(j) - 1] + 1
    <3> DEFINE i == at(j)
    <3>1. i \in 1 .. N /\ K[i] # 1
      BY <1>1, <1>3
    <3> HIDE DEF i
    <3>2. i - 1 \in 1 .. N /\ P[i - 1] = P[i] /\ K[i] = K[i - 1] + 1
      BY <3>1 DEF Sources
    <3> QED BY <3>2 DEF i
  <2>2. j # l + 1 \/ d = 0
    <3>1. SUFFICES ASSUME j = l + 1, d # 0 PROVE FALSE
      OBVIOUS
    <3>2. at(j) = l + (d + 1) /\ d > 0 /\ l + d < N
      BY <3>1
    <3> QED BY <1>1, <1>3, <3>2
  <2>3. at(j) - 1 = at(j - 1) /\ j - 1 \in 1 .. M
    BY <2>1, <2>2
  <2> HIDE DEF at
  <2> QED BY <1>1, <2>1, <2>3
<1> HIDE DEF p, k, M
<1>4. \A j \in 1 .. M : /\ p[j] \in 1 .. Len(pk) /\ k[j] \in 1 .. FragmentCount(pk[p[j]])
  <2> HIDE DEF at
  <2> QED BY <1>1 DEF Sources
<1>5. ASSUME NEW i \in 1 .. M, NEW j \in 1 .. M, i < j
      PROVE  p[i] < p[j] \/ (p[i] = p[j] /\ k[i] < k[j])
  <2>1. at(i) < at(j)
    BY <1>2, <1>5
  <2> HIDE DEF at
  <2> QED BY <1>1, <2>1 DEF Sources
<1>6. Sources(M, pk, p, k)
  BY <1>3, <1>4, <1>5 DEF Sources
<1> QED BY <1>6 DEF M, p, k

LEMMA ExpiredQueued ==
    ASSUME NEW es \in Seq(Entry), NEW pk, NEW P, NEW K, NEW l \in Nat,
           NEW d \in 0 .. Len(es), Queued(es, l, pk, P, K)
    PROVE  LET N == l + Len(es)
           IN  Queued(SubSeq(es, d + 1, Len(es)), l, pk, Without(P, l, d, N), Without(K, l, d, N))
<1> DEFINE n == Len(es)
           N == l + n
           p == Without(P, l, d, N)
           k == Without(K, l, d, N)
           t == SubSeq(es, d + 1, n)
<1>1. n \in Nat /\ d \in Nat /\ d <= n
  OBVIOUS
<1>2. t \in Seq(Entry) /\ Len(t) = n - d /\ \A i \in 1 .. n - d : t[i] = es[d + i]
  BY <1>1, DropProperties
<1> HIDE DEF t, n
<1>3. ASSUME NEW i \in 1 .. n - d
      PROVE  /\ p[l + i] = P[l + (d + i)] /\ k[l + i] = K[l + (d + i)]
             /\ d + i \in 1 .. n
  <2>1. l + i \in 1 .. N - d /\ ~(l + i <= l) /\ (l + i) + d = l + (d + i) /\ d + i \in 1 .. n
    BY <1>1
  <2> QED BY <2>1 DEF Without
<1> HIDE DEF p, k
<1>4. ASSUME NEW i \in 1 .. Len(t) PROVE t[i].fragment = Fragments(pk[p[l + i]])[k[l + i]]
  BY <1>2, <1>3 DEF Queued, n
<1>5. ASSUME NEW i \in 2 .. Len(t), k[l + i] # 1
      PROVE  t[i].expire_time_ms = t[i - 1].expire_time_ms
  <2>1. /\ i \in 1 .. n - d /\ i - 1 \in 1 .. n - d /\ d + i \in 2 .. n
        /\ (d + i) - 1 = d + (i - 1)
    BY <1>1, <1>2
  <2>2. es[d + i].expire_time_ms = es[(d + i) - 1].expire_time_ms
    <3> DEFINE x == d + i
    <3>1. x \in 2 .. n /\ K[l + x] # 1
      BY <1>3, <1>5, <2>1
    <3> HIDE DEF x
    <3>2. es[x].expire_time_ms = es[x - 1].expire_time_ms
      BY <3>1 DEF Queued, n
    <3> QED BY <3>2 DEF x
  <2> QED BY <1>2, <2>1, <2>2
<1>6. Queued(t, l, pk, p, k)
  BY <1>4, <1>5 DEF Queued
<1> QED BY <1>6 DEF t, p, k, n

\* push: the fragments of one more packet, after all others, and their sources.
NewEntries(packet, t) ==
    [i \in 1 .. FragmentCount(packet) |-> [fragment |-> Fragments(packet)[i], expire_time_ms |-> t]]
AddedPacket(P, N, c, n) == [j \in 1 .. N + c |-> IF j <= N THEN P[j] ELSE n + 1]
AddedIndex(K, N, c) == [j \in 1 .. N + c |-> IF j <= N THEN K[j] ELSE j - N]

LEMMA PushedSources ==
    ASSUME NEW pk \in Seq(Data), NEW packet \in Data, NEW P, NEW K, NEW N \in Nat,
           NEW c \in Nat, c = FragmentCount(packet), Sources(N, pk, P, K),
           NEW p, p = AddedPacket(P, N, c, Len(pk)),
           NEW k, k = AddedIndex(K, N, c)
    PROVE  Sources(N + c, Append(pk, packet), p, k)
<1> USE DEF AddedPacket, AddedIndex
<1> DEFINE all == Append(pk, packet)
           n == Len(pk)
<1>1. n \in Nat /\ all \in Seq(Data) /\ Len(all) = n + 1 /\ all[n + 1] = packet
      /\ \A i \in 1 .. n : all[i] = pk[i]
  BY AppendProperties
<1> HIDE DEF n, all
<1>2. \A j \in 1 .. N + c : /\ j <= N => j \in 1 .. N /\ p[j] = P[j] /\ k[j] = K[j]
                            /\ ~(j <= N) => p[j] = n + 1 /\ k[j] = j - N
  BY DEF n
<1>3. \A j \in 1 .. N : P[j] \in 1 .. n /\ K[j] \in 1 .. FragmentCount(pk[P[j]])
  BY DEF Sources, n
<1>4. ASSUME NEW j \in 1 .. N + c
      PROVE  p[j] \in 1 .. n + 1 /\ k[j] \in 1 .. FragmentCount(all[p[j]])
  <2>1. CASE j <= N
    <3>1. p[j] = P[j] /\ k[j] = K[j] /\ P[j] \in 1 .. n /\ K[j] \in 1 .. FragmentCount(pk[P[j]])
      BY <1>2, <1>3, <2>1
    <3>2. P[j] \in 1 .. n + 1 /\ all[P[j]] = pk[P[j]]
      BY <1>1, <3>1
    <3> QED BY <3>1, <3>2
  <2>2. CASE ~(j <= N)
    <3>1. p[j] = n + 1 /\ k[j] = j - N /\ j - N \in 1 .. c /\ n + 1 \in 1 .. n + 1
      BY <1>1, <1>2, <2>2
    <3> QED BY <1>1, <3>1
  <2> QED BY <2>1, <2>2
<1>5. ASSUME NEW i \in 1 .. N + c, NEW j \in 1 .. N + c, i < j
      PROVE  p[i] < p[j] \/ (p[i] = p[j] /\ k[i] < k[j])
  <2>1. CASE j <= N
    <3>1. i <= N
      BY <1>5, <2>1
    <3> QED BY <1>2, <1>5, <2>1, <3>1 DEF Sources
  <2>2. CASE ~(j <= N) /\ i <= N
    <3>1. p[i] = P[i] /\ P[i] \in 1 .. n /\ p[j] = n + 1
      BY <1>2, <1>3, <2>2
    <3> QED BY <1>1, <3>1
  <2>3. CASE ~(j <= N) /\ ~(i <= N)
    BY <1>2, <1>5, <2>3
  <2> QED BY <2>1, <2>2, <2>3
<1>6. ASSUME NEW j \in 1 .. N + c, k[j] # 1
      PROVE  j - 1 \in 1 .. N + c /\ p[j - 1] = p[j] /\ k[j] = k[j - 1] + 1
  <2>1. CASE j <= N
    <3>1. j \in 1 .. N /\ K[j] # 1 /\ p[j] = P[j] /\ k[j] = K[j]
      BY <1>2, <1>6, <2>1
    <3>2. j - 1 \in 1 .. N /\ P[j - 1] = P[j] /\ K[j] = K[j - 1] + 1
      BY <3>1 DEF Sources
    <3>3. j - 1 \in 1 .. N + c /\ j - 1 <= N
      BY <3>2
    <3> QED BY <1>2, <3>1, <3>2, <3>3
  <2>2. CASE ~(j <= N)
    <3>1. k[j] = j - N /\ p[j] = n + 1
      BY <1>2, <2>2
    <3>2. j - 1 \in 1 .. N + c /\ ~(j - 1 <= N)
      BY <1>6, <2>2, <3>1
    <3> QED BY <1>2, <3>1, <3>2
  <2> QED BY <2>1, <2>2
<1>7. Sources(N + c, all, p, k)
  BY <1>1, <1>4, <1>5, <1>6 DEF Sources
<1> QED BY <1>7 DEF all

LEMMA PushedQueued ==
    ASSUME NEW pk \in Seq(Data), NEW packet \in Data, NEW P, NEW K, NEW l \in Nat,
           NEW es \in Seq(Entry), NEW t \in Nat,
           Sources(l + Len(es), pk, P, K), Queued(es, l, pk, P, K)
    PROVE  /\ es \o NewEntries(packet, t) \in Seq(Entry)
           /\ Len(es \o NewEntries(packet, t)) = Len(es) + FragmentCount(packet)
           /\ Queued(es \o NewEntries(packet, t), l, Append(pk, packet),
                     AddedPacket(P, l + Len(es), FragmentCount(packet), Len(pk)),
                     AddedIndex(K, l + Len(es), FragmentCount(packet)))
<1>0. PICK c \in Nat : c = FragmentCount(packet)
  BY FragmentBounds DEF Data
<1>01. PICK N \in Nat : N = l + Len(es)
  OBVIOUS
<1>02. PICK p : p = AddedPacket(P, N, c, Len(pk))
  OBVIOUS
<1>03. PICK k : k = AddedIndex(K, N, c)
  OBVIOUS
<1>04. PICK new : new = NewEntries(packet, t)
  OBVIOUS
<1>05. SUFFICES /\ es \o new \in Seq(Entry) /\ Len(es \o new) = Len(es) + c
                /\ Queued(es \o new, l, Append(pk, packet), p, k)
  BY <1>0, <1>01, <1>02, <1>03, <1>04
<1>06. Sources(N, pk, P, K)
  BY <1>01
<1> USE DEF AddedPacket, AddedIndex, NewEntries
<1> DEFINE all == Append(pk, packet)
           n == Len(pk)
           m == Len(es)
           q == es \o new
<1>1. n \in Nat /\ all \in Seq(Data) /\ Len(all) = n + 1 /\ all[n + 1] = packet
      /\ \A i \in 1 .. n : all[i] = pk[i]
  BY AppendProperties
<1>2. new \in Seq(Entry) /\ Len(new) = c
  BY <1>0, <1>04, PushedEntries
<1>3. /\ q \in Seq(Entry) /\ Len(q) = m + c /\ m \in Nat
      /\ \A i \in 1 .. m + c : q[i] = IF i <= m THEN es[i] ELSE new[i - m]
  <2>1. \A s1, s2 \in Seq(Entry) :
           /\ s1 \o s2 \in Seq(Entry) /\ Len(s1 \o s2) = Len(s1) + Len(s2) /\ Len(s1) \in Nat
           /\ \A i \in 1 .. Len(s1) + Len(s2) :
                 (s1 \o s2)[i] = IF i <= Len(s1) THEN s1[i] ELSE s2[i - Len(s1)]
    BY ConcatProperties
  <2> QED BY <1>2, <2>1
<1> HIDE DEF n, all, m, q
<1>4. ASSUME NEW i \in 1 .. m + c
      PROVE  /\ i <= m => /\ l + i \in 1 .. N /\ p[l + i] = P[l + i] /\ k[l + i] = K[l + i]
                          /\ q[i] = es[i] /\ i \in 1 .. m
                          /\ all[P[l + i]] = pk[P[l + i]]
             /\ ~(i <= m) => /\ p[l + i] = n + 1 /\ k[l + i] = i - m /\ i - m \in 1 .. c
                             /\ q[i] = new[i - m]
  <2>1. l + i \in 1 .. N + c /\ (l + i <= N <=> i <= m) /\ (l + i) - N = i - m
    BY <1>01, <1>3 DEF m
  <2>2. CASE i <= m
    <3>1. l + i \in 1 .. N /\ i \in 1 .. m
      BY <2>1, <2>2
    <3>2. P[l + i] \in 1 .. n
      BY <1>06, <3>1 DEF Sources, n
    <3> QED BY <1>02, <1>03, <1>1, <1>3, <2>1, <2>2, <3>1, <3>2
  <2>3. CASE ~(i <= m)
    <3>1. i - m \in 1 .. c
      BY <1>3, <2>3
    <3> QED BY <1>02, <1>03, <1>3, <2>1, <2>3, <3>1 DEF n
  <2> QED BY <2>2, <2>3
<1>5. ASSUME NEW i \in 1 .. m + c PROVE q[i].fragment = Fragments(all[p[l + i]])[k[l + i]]
  <2>1. CASE i <= m
    <3>1. /\ p[l + i] = P[l + i] /\ k[l + i] = K[l + i] /\ q[i] = es[i] /\ i \in 1 .. m
          /\ all[P[l + i]] = pk[P[l + i]]
      BY <1>4, <2>1
    <3>2. es[i].fragment = Fragments(pk[P[l + i]])[K[l + i]]
      BY <3>1 DEF Queued, m
    <3> QED BY <3>1, <3>2
  <2>2. CASE ~(i <= m)
    <3>1. p[l + i] = n + 1 /\ k[l + i] = i - m /\ i - m \in 1 .. c /\ q[i] = new[i - m]
      BY <1>4, <2>2
    <3>2. new[i - m].fragment = Fragments(packet)[i - m]
      BY <1>0, <1>04, <3>1
    <3> QED BY <1>1, <3>1, <3>2
  <2> QED BY <2>1, <2>2
<1>6. ASSUME NEW i \in 2 .. m + c, k[l + i] # 1
      PROVE  q[i].expire_time_ms = q[i - 1].expire_time_ms
  <2>0. i \in 1 .. m + c /\ i - 1 \in 1 .. m + c
    BY <1>3
  <2>1. CASE i <= m
    <3>1. i \in 2 .. m /\ i - 1 <= m
      BY <1>3, <2>1
    <3>2. es[i].expire_time_ms = es[i - 1].expire_time_ms
      BY <1>4, <1>6, <2>0, <2>1, <3>1 DEF Queued, m
    <3> QED BY <1>4, <2>0, <2>1, <3>1, <3>2
  <2>2. CASE ~(i <= m)
    <3>1. k[l + i] = i - m /\ i - m \in 1 .. c /\ q[i] = new[i - m]
      BY <1>4, <2>0, <2>2
    <3>2. ~(i - 1 <= m)
      <4>1. i - m # 1
        BY <1>6, <3>1, Zenon
      <4>2. i \in Int /\ m \in Int
        BY <1>3
      <4> QED BY <2>2, <4>1, <4>2
    <3>3. (i - 1) - m \in 1 .. c /\ q[i - 1] = new[(i - 1) - m]
      BY <1>4, <2>0, <3>2
    <3> QED BY <1>0, <1>04, <3>1, <3>3
  <2> QED BY <2>1, <2>2
<1>7. Queued(q, l, all, p, k)
  BY <1>3, <1>5, <1>6 DEF Queued
<1> QED BY <1>3, <1>7 DEF q, all, m

-----------------------------------------------------------------------------
(* The actions *)

\* What was sent keeps its source when later fragments are added or dropped.
Agree(P, K, p, k) ==
    /\ \A j \in 1 .. last : p[j] = P[j] /\ k[j] = K[j]
    /\ \A i \in 1 .. Len(packets) : packets'[i] = packets[i]

LEMMA SourcesKept ==
    ASSUME Base, NEW P, NEW K, NEW p, NEW k,
           Sources(last + Len(utx.entries), packets, P, K), Agree(P, K, p, k)
    PROVE  /\ \A j \in 1 .. last :
                 /\ p[j] = P[j] /\ k[j] = K[j] /\ packets'[p[j]] = packets[P[j]]
                 /\ P[j] \in 1 .. Len(packets)
                 /\ K[j] \in 1 .. FragmentCount(packets[P[j]])
           /\ Building(P, K) /\ UNCHANGED <<urx, anchor>> /\ last' \in Nat /\ last <= last'
                 => Building(p, k)'
<1>1. last \in Nat /\ Len(utx.entries) \in Nat
  BY BaseTypes DEF Base
<1>2. \A j \in 1 .. last : j \in 1 .. last + Len(utx.entries)
  BY <1>1
<1>3. ASSUME NEW j \in 1 .. last
      PROVE  /\ p[j] = P[j] /\ k[j] = K[j] /\ packets'[p[j]] = packets[P[j]]
             /\ P[j] \in 1 .. Len(packets) /\ K[j] \in 1 .. FragmentCount(packets[P[j]])
  BY <1>2 DEF Sources, Agree
<1>4. ASSUME Building(P, K), UNCHANGED <<urx, anchor>>, last' \in Nat, last <= last'
      PROVE  Building(p, k)'
  <2> SUFFICES ASSUME urx.build # NoBuild
               PROVE  /\ anchor \in 1 .. last' /\ urx.base_id = anchor % IdMod
                      /\ k[anchor] < FragmentCount(packets'[p[anchor]])
                      /\ urx.build = SubSeq(packets'[p[anchor]], 1, k[anchor] * FragmentSize)
    BY <1>4 DEF Building
  <2>1. /\ anchor \in 1 .. last /\ urx.base_id = anchor % IdMod
        /\ K[anchor] < FragmentCount(packets[P[anchor]])
        /\ urx.build = SubSeq(packets[P[anchor]], 1, K[anchor] * FragmentSize)
    BY <1>4 DEF Building
  <2>2. anchor \in 1 .. last'
    BY <1>1, <1>4, <2>1
  <2> QED BY <1>3, <2>1, <2>2
<1> QED BY <1>3, <1>4

\* InFlight in the next state, of the segments that were in flight before.
Before(p, k) ==
    \A i \in 1 .. Len(wire) :
        /\ wire[i].n \in floor + 1 .. last
        /\ wire[i].id = (wire[i].n - 1) % IdMod
        /\ wire[i].fragment = Fragments(packets'[p[wire[i].n]])[k[wire[i].n]]
        /\ \A j \in 1 .. i - 1 : wire[j].n < wire[i].n

LEMMA InFlightKept ==
    ASSUME Base, NEW P, NEW K, NEW p, NEW k, InFlight(P, K),
           Sources(last + Len(utx.entries), packets, P, K), Agree(P, K, p, k)
    PROVE  Before(p, k)
<1> SUFFICES ASSUME NEW i \in 1 .. Len(wire)
             PROVE  /\ wire[i].n \in floor + 1 .. last
                    /\ wire[i].id = (wire[i].n - 1) % IdMod
                    /\ wire[i].fragment = Fragments(packets'[p[wire[i].n]])[k[wire[i].n]]
                    /\ \A j \in 1 .. i - 1 : wire[j].n < wire[i].n
  BY DEF Before
<1>1. /\ wire[i].n \in floor + 1 .. last /\ wire[i].id = (wire[i].n - 1) % IdMod
      /\ wire[i].fragment = Fragments(packets[P[wire[i].n]])[K[wire[i].n]]
      /\ \A j \in 1 .. i - 1 : wire[j].n < wire[i].n
  BY DEF InFlight
<1>2. wire[i].n \in 1 .. last
  BY <1>1 DEF Base
<1>3. p[wire[i].n] = P[wire[i].n] /\ k[wire[i].n] = K[wire[i].n]
      /\ packets'[p[wire[i].n]] = packets[P[wire[i].n]]
  BY <1>2, SourcesKept
<1> QED BY <1>1, <1>3

LEMMA EnqueueInv ==
    ASSUME Base, NEW P, NEW K, NEW f, Witness(P, K, f),
           NEW length \in Lengths, NEW timeout_ms \in Timeouts, Enqueue(length, timeout_ms)
    PROVE  Inv'
<1>1. PICK packet : packet = [i \in 1 .. length |-> <<Len(packets) + 1, i>>]
  OBVIOUS
<1>2. PICK t : t = now_ms + timeout_ms + 1
  OBVIOUS
<1>3. PICK c : c = FragmentCount(packet)
  OBVIOUS
<1>4. PICK new : new = NewEntries(packet, t)
  OBVIOUS
<1>5. PICK N : N = last + Len(utx.entries)
  OBVIOUS
<1>6. PICK p : p = AddedPacket(P, N, c, Len(packets))
  OBVIOUS
<1>7. PICK k : k = AddedIndex(K, N, c)
  OBVIOUS
<1>8. /\ utx' = [utx EXCEPT !.entries = utx.entries \o new]
      /\ packets' = Append(packets, packet)
      /\ UNCHANGED <<urx, wire, syncs, now_ms, delivered, last, floor, anchor, handed>>
  BY <1>1, <1>2, <1>3, <1>4 DEF Enqueue, UnrelPush, NewEntries
<1>9. /\ length \in Nat /\ timeout_ms \in Nat /\ t \in Nat /\ packets \in Seq(Data)
      /\ Len(packets) \in Nat /\ utx.entries \in Seq(Entry) /\ Len(utx.entries) \in Nat
      /\ last \in Nat /\ N \in Nat
  BY <1>2, <1>5, BaseTypes, UnreliableAssumption DEF Base
<1>10. packet \in Data /\ c \in Nat
  <2>1. packet \in Data
    <3>1. \A i \in 1 .. length : <<Len(packets) + 1, i>> \in Nat \X Nat
      BY <1>9
    <3> QED BY <1>1, <1>9, <3>1 DEF Data
  <2> QED BY <1>3, <2>1, FragmentBounds DEF Data
<1>11. /\ Sources(N, packets, P, K) /\ Queued(utx.entries, last, packets, P, K)
       /\ InFlight(P, K) /\ Building(P, K) /\ HandedOut(N, P, f)
  BY <1>5 DEF Witness
<1>12. Sources(N + c, packets', p, k)
  BY <1>3, <1>6, <1>7, <1>8, <1>9, <1>10, <1>11, PushedSources
<1>13. /\ utx.entries \o new \in Seq(Entry) /\ Len(utx.entries \o new) = Len(utx.entries) + c
       /\ Queued(utx.entries \o new, last, packets', p, k)
  BY <1>3, <1>4, <1>5, <1>6, <1>7, <1>8, <1>9, <1>10, <1>11, PushedQueued
<1>14. /\ utx'.entries = utx.entries \o new /\ utx'.next_fragment_id = utx.next_fragment_id
       /\ utx' \in [entries : Seq(Entry), next_fragment_id : Id]
  BY <1>8, <1>13 DEF Base
<1>15. /\ packets' \in Seq(Data) /\ Len(packets') = Len(packets) + 1
       /\ \A i \in 1 .. Len(packets) : packets'[i] = packets[i]
  BY <1>8, <1>9, <1>10, AppendProperties
<1>16. Base'
  BY <1>8, <1>14, <1>15 DEF Base
<1>17. Agree(P, K, p, k)
  <2>1. \A j \in 1 .. last : j \in 1 .. N + c /\ j <= N
    BY <1>5, <1>9, <1>10
  <2> QED BY <1>6, <1>7, <1>15, <2>1 DEF AddedPacket, AddedIndex, Agree
<1>18. InFlight(p, k)'
  <2>1. Before(p, k)
    BY <1>5, <1>11, <1>17, InFlightKept
  <2> QED BY <1>8, <2>1 DEF InFlight, Before
<1>19. Building(p, k)'
  BY <1>5, <1>8, <1>9, <1>11, <1>17, SourcesKept
<1>20. HandedOut(N + c, p, f)'
  <2>1. /\ f \in [1 .. Len(delivered) -> 1 .. Len(packets)]
        /\ \A i \in 1 .. Len(delivered) :
              delivered[i] = packets[f[i]] /\ \A j \in anchor + 1 .. N : f[i] < P[j]
        /\ \A i, j \in 1 .. Len(delivered) : i < j => f[i] < f[j]
    BY <1>11 DEF HandedOut
  <2>2. f \in [1 .. Len(delivered) -> 1 .. Len(packets')]
    <3>1. 1 .. Len(packets) \subseteq 1 .. Len(packets')
      BY <1>9, <1>15
    <3> QED BY <2>1, <3>1
  <2>3. \A i \in 1 .. Len(delivered) : delivered[i] = packets'[f[i]]
    BY <1>15, <2>1
  <2>4. ASSUME NEW i \in 1 .. Len(delivered), NEW j \in anchor + 1 .. N + c
        PROVE  f[i] < p[j]
    <3>0. j \in 1 .. N + c /\ anchor \in Nat
      BY <1>9, <1>10 DEF Base
    <3>1. CASE j <= N
      <4>1. j \in anchor + 1 .. N
        BY <1>9, <3>0, <3>1
      <4>2. p[j] = P[j]
        BY <1>6, <3>0, <3>1 DEF AddedPacket
      <4> QED BY <2>1, <4>1, <4>2
    <3>2. CASE ~(j <= N)
      <4>1. p[j] = Len(packets) + 1
        BY <1>6, <3>0, <3>2 DEF AddedPacket
      <4>2. f[i] \in 1 .. Len(packets)
        BY <2>1
      <4> QED BY <1>9, <4>1, <4>2
    <3> QED BY <3>1, <3>2
  <2> QED BY <1>8, <2>1, <2>2, <2>3, <2>4 DEF HandedOut
<1>21. last' + Len(utx'.entries) = N + c
  BY <1>5, <1>8, <1>9, <1>10, <1>13, <1>14
<1>22. Witness(p, k, f)'
  <2>1. /\ Sources(last' + Len(utx'.entries), packets', p, k)
        /\ Queued(utx'.entries, last', packets', p, k)
    BY <1>8, <1>12, <1>13, <1>14, <1>21
  <2>2. HandedOut(last + Len(utx.entries), p, f)'
    BY <1>20, <1>21 DEF HandedOut
  <2> QED BY <1>18, <1>19, <2>1, <2>2 DEF Witness
<1> QED BY <1>16, <1>22 DEF Inv

\* Sending the first entry only moves the boundary between sent and queued.
LEMMA SentQueued ==
    ASSUME NEW es \in Seq(Entry), es # <<>>, NEW l \in Nat, NEW pk, NEW P, NEW K,
           Queued(es, l, pk, P, K)
    PROVE  /\ Tail(es) \in Seq(Entry) /\ Len(Tail(es)) = Len(es) - 1 /\ Len(es) \in Nat
           /\ Len(es) >= 1 /\ es[1] \in Entry
           /\ es[1].fragment = Fragments(pk[P[l + 1]])[K[l + 1]]
           /\ Queued(Tail(es), l + 1, pk, P, K)
<1> DEFINE n == Len(es)
           t == Tail(es)
<1>1. /\ t \in Seq(Entry) /\ Len(t) = n - 1 /\ n \in Nat /\ n >= 1 /\ es[1] \in Entry
      /\ \A i \in 1 .. Len(t) : t[i] = es[i + 1]
  <2>1. t \in Seq(Entry) /\ Len(t) = n - 1 /\ \A i \in 1 .. Len(t) : t[i] = es[i + 1]
    BY HeadTailProperties
  <2>2. n \in Nat /\ n # 0
    OBVIOUS
  <2>3. n >= 1 /\ 1 \in 1 .. n
    BY <2>2
  <2> QED BY <2>1, <2>2, <2>3
<1> HIDE DEF n, t
<1>2. es[1].fragment = Fragments(pk[P[l + 1]])[K[l + 1]]
  <2>1. 1 \in 1 .. n
    BY <1>1
  <2> QED BY <2>1 DEF Queued, n
<1>3. ASSUME NEW i \in 1 .. Len(t)
      PROVE  t[i].fragment = Fragments(pk[P[(l + 1) + i]])[K[(l + 1) + i]]
  <2>1. i + 1 \in 1 .. n /\ (l + 1) + i = l + (i + 1)
    BY <1>1
  <2> QED BY <1>1, <2>1 DEF Queued, n
<1>4. ASSUME NEW i \in 2 .. Len(t), K[(l + 1) + i] # 1
      PROVE  t[i].expire_time_ms = t[i - 1].expire_time_ms
  <2>1. /\ i \in 1 .. Len(t) /\ i - 1 \in 1 .. Len(t) /\ i + 1 \in 2 .. n
        /\ (l + 1) + i = l + (i + 1) /\ (i - 1) + 1 = (i + 1) - 1
    BY <1>1
  <2>2. es[i + 1].expire_time_ms = es[(i + 1) - 1].expire_time_ms
    BY <1>4, <2>1 DEF Queued, n
  <2> QED BY <1>1, <2>1, <2>2
<1>5. Queued(t, l + 1, pk, P, K)
  BY <1>3, <1>4 DEF Queued
<1> QED BY <1>1, <1>2, <1>5 DEF n, t

LEMMA FlushInv ==
    ASSUME Base, NEW P, NEW K, NEW f, Witness(P, K, f), Flush
    PROVE  Inv'
<1>1. PICK N : N = last + Len(utx.entries)
  OBVIOUS
<1>2. /\ Sources(N, packets, P, K) /\ Queued(utx.entries, last, packets, P, K)
      /\ InFlight(P, K) /\ Building(P, K) /\ HandedOut(N, P, f)
  BY <1>1 DEF Witness
<1>3. PICK d \in 0 .. Len(utx.entries) :
         /\ PopExpired(utx, now_ms) =
              [entries          |-> SubSeq(utx.entries, d + 1, Len(utx.entries)),
               next_fragment_id |-> utx.next_fragment_id]
         /\ d > 0 /\ d < Len(utx.entries) => K[last + (d + 1)] = 1
  BY <1>2, ExpiredEntries
<1>4. PICK es : es = SubSeq(utx.entries, d + 1, Len(utx.entries))
  OBVIOUS
<1>5. PICK p, k : p = Without(P, last, d, N) /\ k = Without(K, last, d, N)
  OBVIOUS
<1>6. PICK M : M = N - d
  OBVIOUS
<1>7. /\ utx.entries \in Seq(Entry) /\ Len(utx.entries) \in Nat /\ last \in Nat /\ N \in Nat
      /\ d \in Nat /\ d <= Len(utx.entries) /\ last + d <= N /\ M \in Nat /\ last <= M
      /\ anchor \in Nat /\ floor \in Nat /\ anchor <= floor /\ floor <= last
      /\ packets \in Seq(Data) /\ wire \in Seq(Message) /\ Len(wire) \in Nat
  BY <1>1, <1>6, BaseTypes DEF Base
<1>8. es \in Seq(Entry) /\ Len(es) = Len(utx.entries) - d /\ M = last + Len(es)
  <2>1. es \in Seq(Entry) /\ Len(es) = Len(utx.entries) - d
    <3>1. PICK all \in Seq(Entry) : all = utx.entries
      BY <1>7
    <3>2. /\ SubSeq(all, d + 1, Len(all)) \in Seq(Entry)
          /\ Len(SubSeq(all, d + 1, Len(all))) = Len(all) - d
      BY <1>7, <3>1, DropProperties
    <3> QED BY <1>4, <3>1, <3>2, Zenon
  <2> QED BY <1>1, <1>6, <1>7, <2>1
<1>9. Sources(M, packets, p, k)
  <2>1. d > 0 /\ last + d < N => K[last + (d + 1)] = 1
    BY <1>1, <1>3, <1>7
  <2> QED BY <1>2, <1>5, <1>6, <1>7, <2>1, ExpiredSources
<1>10. Queued(es, last, packets, p, k)
  BY <1>1, <1>2, <1>4, <1>5, <1>7, ExpiredQueued
<1>11. /\ UNCHANGED <<urx, syncs, now_ms, packets, delivered, floor, anchor, handed>>
       /\ last < anchor + IdMod
       /\ IF es # <<>>
          THEN /\ utx' = [entries          |-> Tail(es),
                          next_fragment_id |-> WrappingAdd(utx.next_fragment_id, 1)]
               /\ wire' = Append(wire, [n |-> last + 1, id |-> utx.next_fragment_id,
                                        fragment |-> es[1].fragment])
               /\ last' = last + 1
          ELSE /\ utx' = [entries |-> es, next_fragment_id |-> utx.next_fragment_id]
               /\ UNCHANGED <<wire, last>>
  BY <1>3, <1>4 DEF Flush, UnrelHasSendable, UnrelPopSendable, UnrelPeekSendable
<1>12. Agree(P, K, p, k)
  <2>1. \A j \in 1 .. last : j \in 1 .. N - d /\ j <= last
    BY <1>6, <1>7
  <2> QED BY <1>5, <1>11, <2>1 DEF Agree, Without
<1>13. Before(p, k)
  BY <1>1, <1>2, <1>12, InFlightKept
<1>14. HandedOut(M, p, f)'
  <2>1. /\ f \in [1 .. Len(delivered) -> 1 .. Len(packets)]
        /\ \A i \in 1 .. Len(delivered) :
              delivered[i] = packets[f[i]] /\ \A j \in anchor + 1 .. N : f[i] < P[j]
        /\ \A i, j \in 1 .. Len(delivered) : i < j => f[i] < f[j]
    BY <1>2 DEF HandedOut
  <2>2. ASSUME NEW i \in 1 .. Len(delivered), NEW j \in anchor + 1 .. M PROVE f[i] < p[j]
    <3>1. j \in 1 .. N - d
      BY <1>6, <1>7
    <3>2. CASE j <= last
      <4>1. p[j] = P[j] /\ j \in anchor + 1 .. N
        BY <1>5, <1>6, <1>7, <3>1, <3>2 DEF Without
      <4> QED BY <2>1, <4>1
    <3>3. CASE ~(j <= last)
      <4>1. p[j] = P[j + d] /\ j + d \in anchor + 1 .. N
        BY <1>5, <1>6, <1>7, <3>1, <3>3 DEF Without
      <4> QED BY <2>1, <4>1
    <3> QED BY <3>2, <3>3
  <2> QED BY <1>11, <2>1, <2>2 DEF HandedOut
<1>15. CASE es # <<>>
  <2>1. PICK m : m = [n |-> last + 1, id |-> utx.next_fragment_id, fragment |-> es[1].fragment]
    OBVIOUS
  <2>2. /\ utx' = [entries          |-> Tail(es),
                   next_fragment_id |-> WrappingAdd(utx.next_fragment_id, 1)]
        /\ wire' = Append(wire, m) /\ last' = last + 1
    BY <1>11, <1>15, <2>1
  <2>3. /\ Tail(es) \in Seq(Entry) /\ Len(Tail(es)) = Len(es) - 1 /\ Len(es) \in Nat
        /\ Len(es) >= 1 /\ es[1] \in Entry
        /\ es[1].fragment = Fragments(packets[p[last + 1]])[k[last + 1]]
        /\ Queued(Tail(es), last + 1, packets, p, k)
    BY <1>7, <1>8, <1>10, <1>15, SentQueued
  <2>4. /\ utx.next_fragment_id \in Id /\ utx.next_fragment_id = last % IdMod
        /\ WrappingAdd(utx.next_fragment_id, 1) \in Id
        /\ WrappingAdd(utx.next_fragment_id, 1) = (last + 1) % IdMod
    <3>1. utx.next_fragment_id = last % IdMod
      BY DEF Base
    <3> QED BY <1>7, <3>1, ModSucc, AddType
  <2>5. m \in Message
    BY <1>7, <2>1, <2>3, <2>4 DEF Message, Entry
  <2>6. /\ wire' \in Seq(Message) /\ Len(wire') = Len(wire) + 1 /\ wire'[Len(wire) + 1] = m
        /\ \A i \in 1 .. Len(wire) : wire'[i] = wire[i]
    BY <1>7, <2>2, <2>5, AppendProperties
  <2>7. Base'
    <3>1. utx' \in [entries : Seq(Entry), next_fragment_id : Id]
          /\ utx'.next_fragment_id = last' % IdMod
      BY <2>2, <2>3, <2>4
    <3>2. last' \in Nat /\ floor <= last' /\ last' <= anchor + IdMod
      BY <1>7, <1>11, <2>2, IdModAssumption
    <3>3. syncs \subseteq 1 .. last'
      <4>1. 1 .. last \subseteq 1 .. last'
        BY <1>7, <2>2
      <4> QED BY <4>1 DEF Base
    <3> QED BY <1>11, <2>6, <3>1, <3>2, <3>3 DEF Base
  <2>8. InFlight(p, k)'
    <3> SUFFICES ASSUME NEW i \in 1 .. Len(wire')
                 PROVE  /\ wire'[i].n \in floor + 1 .. last'
                        /\ wire'[i].id = (wire'[i].n - 1) % IdMod
                        /\ wire'[i].fragment =
                             Fragments(packets'[p[wire'[i].n]])[k[wire'[i].n]]
                        /\ \A j \in 1 .. i - 1 : wire'[j].n < wire'[i].n
      BY <1>11 DEF InFlight
    <3>1. CASE i \in 1 .. Len(wire)
      <4>1. wire'[i] = wire[i] /\ \A j \in 1 .. i - 1 : j \in 1 .. Len(wire) /\ wire'[j] = wire[j]
        <5>1. \A j \in 1 .. i - 1 : j \in 1 .. Len(wire)
          BY <1>7, <3>1
        <5> QED BY <2>6, <3>1, <5>1
      <4>2. /\ wire[i].n \in floor + 1 .. last /\ wire[i].id = (wire[i].n - 1) % IdMod
            /\ wire[i].fragment = Fragments(packets'[p[wire[i].n]])[k[wire[i].n]]
            /\ \A j \in 1 .. i - 1 : wire[j].n < wire[i].n
        BY <1>13, <3>1 DEF Before
      <4>3. wire[i].n \in floor + 1 .. last'
        BY <1>7, <2>2, <4>2
      <4> QED BY <4>1, <4>2, <4>3
    <3>2. CASE i = Len(wire) + 1
      <4>1. wire'[i] = m /\ m.n = last + 1 /\ m.id = utx.next_fragment_id
            /\ m.fragment = es[1].fragment
        BY <2>1, <2>6, <3>2
      <4>2. last + 1 \in floor + 1 .. last' /\ (last + 1) - 1 = last
        BY <1>7, <2>2
      <4>3. ASSUME NEW j \in 1 .. i - 1 PROVE wire'[j].n < last + 1
        <5>1. j \in 1 .. Len(wire) /\ wire'[j] = wire[j]
          BY <1>7, <2>6, <3>2
        <5>2. wire[j].n \in floor + 1 .. last
          BY <1>13, <5>1 DEF Before
        <5> QED BY <1>7, <5>1, <5>2
      <4> QED BY <1>11, <2>3, <2>4, <4>1, <4>2, <4>3
    <3> QED BY <1>7, <2>6, <3>1, <3>2
  <2>9. Building(p, k)'
    <3>1. last' \in Nat /\ last <= last'
      BY <1>7, <2>2
    <3> QED BY <1>1, <1>2, <1>11, <1>12, <3>1, SourcesKept
  <2>10. last' + Len(utx'.entries) = M /\ utx'.entries = Tail(es)
    <3>1. utx'.entries = Tail(es)
      BY <2>2
    <3>2. (last + 1) + Len(Tail(es)) = M
      <4>1. \A a, b \in Nat : (a + 1) + (b - 1) = a + b
        OBVIOUS
      <4>2. (last + 1) + (Len(es) - 1) = last + Len(es)
        BY <1>7, <2>3, <4>1
      <4> QED BY <1>8, <2>3, <4>2, Zenon
    <3> QED BY <2>2, <3>1, <3>2, Zenon
  <2>11. Witness(p, k, f)'
    <3>1. /\ Sources(last' + Len(utx'.entries), packets', p, k)
          /\ Queued(utx'.entries, last', packets', p, k)
      BY <1>9, <1>11, <2>2, <2>3, <2>10
    <3>2. HandedOut(last + Len(utx.entries), p, f)'
      BY <1>14, <2>10 DEF HandedOut
    <3> QED BY <2>8, <2>9, <3>1, <3>2 DEF Witness
  <2> QED BY <2>7, <2>11 DEF Inv
<1>16. CASE es = <<>>
  <2>1. /\ utx' = [entries |-> es, next_fragment_id |-> utx.next_fragment_id]
        /\ UNCHANGED <<wire, last>>
    BY <1>11, <1>16
  <2>2. Base'
    <3>1. utx' \in [entries : Seq(Entry), next_fragment_id : Id]
          /\ utx'.next_fragment_id = last % IdMod
      BY <1>8, <2>1 DEF Base
    <3> QED BY <1>11, <2>1, <3>1 DEF Base
  <2>3. InFlight(p, k)'
    BY <1>11, <1>13, <2>1 DEF InFlight, Before
  <2>4. Building(p, k)'
    <3>1. last' \in Nat /\ last <= last'
      BY <1>7, <2>1
    <3> QED BY <1>1, <1>2, <1>11, <1>12, <3>1, SourcesKept
  <2>5. last' + Len(utx'.entries) = M /\ utx'.entries = es
    BY <1>8, <2>1
  <2>6. Witness(p, k, f)'
    <3>1. /\ Sources(last' + Len(utx'.entries), packets', p, k)
          /\ Queued(utx'.entries, last', packets', p, k)
      BY <1>9, <1>10, <1>11, <2>1, <2>5
    <3>2. HandedOut(last + Len(utx.entries), p, f)'
      BY <1>14, <2>5 DEF HandedOut
    <3> QED BY <2>3, <2>4, <3>1, <3>2 DEF Witness
  <2> QED BY <2>2, <2>6 DEF Inv
<1> QED BY <1>15, <1>16

\* The actions that touch neither queue nor the receiver.
LEMMA UnchangedWitness ==
    ASSUME NEW P, NEW K, NEW f, Witness(P, K, f),
           UNCHANGED <<utx, urx, wire, packets, delivered, last, floor, anchor>>
    PROVE  Witness(P, K, f)'
  BY DEF Witness, InFlight, Building, HandedOut

LEMMA TickInv ==
    ASSUME Base, NEW P, NEW K, NEW f, Witness(P, K, f), Tick
    PROVE  Inv'
<1>1. UNCHANGED <<utx, urx, wire, syncs, packets, delivered, last, floor, anchor, handed>>
  BY DEF Tick
<1>2. now_ms' \in 0 .. MaxTime
  BY UnreliableAssumption DEF Tick, Base
<1>3. Base'
  BY <1>1, <1>2 DEF Base
<1>4. Witness(P, K, f)'
  BY <1>1, UnchangedWitness
<1> QED BY <1>3, <1>4 DEF Inv

LEMMA SendSyncInv ==
    ASSUME Base, NEW P, NEW K, NEW f, Witness(P, K, f), SendSync
    PROVE  Inv'
<1>1. UNCHANGED <<utx, urx, wire, now_ms, packets, delivered, last, floor, anchor, handed>>
      /\ last > 0 /\ syncs' = syncs \cup {last}
  BY DEF SendSync
<1>2. last \in 1 .. last
  BY <1>1 DEF Base
<1>3. Base'
  BY <1>1, <1>2 DEF Base
<1>4. Witness(P, K, f)'
  BY <1>1, UnchangedWitness
<1> QED BY <1>3, <1>4 DEF Inv

\* The rest of the witness, when only the wire has changed.
LEMMA WireWitness ==
    ASSUME NEW P, NEW K, NEW f, Witness(P, K, f), InFlight(P, K)',
           UNCHANGED <<utx, urx, packets, delivered, last, anchor>>
    PROVE  Witness(P, K, f)'
  BY DEF Witness, Building, HandedOut

LEMMA LoseInv ==
    ASSUME Base, NEW P, NEW K, NEW f, Witness(P, K, f), NEW i \in 1 .. Len(wire), Lose(i)
    PROVE  Inv'
<1> DEFINE g(j) == IF j < i THEN j ELSE j + 1
<1>1. UNCHANGED <<utx, urx, syncs, now_ms, packets, delivered, last, floor, anchor, handed>>
      /\ wire' = SubSeq(wire, 1, i - 1) \o SubSeq(wire, i + 1, Len(wire))
  BY DEF Lose
<1>2. wire \in Seq(Message) /\ Len(wire) \in Nat /\ InFlight(P, K)
  BY BaseTypes DEF Base, Witness
<1>3. /\ wire' \in Seq(Message) /\ Len(wire') = Len(wire) - 1
      /\ \A j \in 1 .. Len(wire') : wire'[j] = wire[g(j)]
  BY <1>1, <1>2, RemoveProperties
<1>4. ASSUME NEW j \in 1 .. Len(wire')
      PROVE  /\ g(j) \in 1 .. Len(wire)
             /\ \A h \in 1 .. j - 1 : g(h) \in 1 .. g(j) - 1 /\ h \in 1 .. Len(wire')
  BY <1>2, <1>3
<1> HIDE DEF g
<1>5. InFlight(P, K)'
  <2> SUFFICES ASSUME NEW j \in 1 .. Len(wire')
               PROVE  /\ wire'[j].n \in floor + 1 .. last
                      /\ wire'[j].id = (wire'[j].n - 1) % IdMod
                      /\ wire'[j].fragment = Fragments(packets[P[wire'[j].n]])[K[wire'[j].n]]
                      /\ \A h \in 1 .. j - 1 : wire'[h].n < wire'[j].n
    BY <1>1 DEF InFlight
  <2>1. /\ wire[g(j)].n \in floor + 1 .. last
        /\ wire[g(j)].id = (wire[g(j)].n - 1) % IdMod
        /\ wire[g(j)].fragment = Fragments(packets[P[wire[g(j)].n]])[K[wire[g(j)].n]]
        /\ \A h \in 1 .. g(j) - 1 : wire[h].n < wire[g(j)].n
    BY <1>2, <1>4 DEF InFlight
  <2> QED BY <1>3, <1>4, <2>1
<1>6. Base'
  BY <1>1, <1>3 DEF Base
<1>7. Witness(P, K, f)'
  BY <1>1, <1>5, WireWitness
<1> QED BY <1>6, <1>7 DEF Inv

\* HandedOut when the anchor moves on and nothing is handed out.
LEMMA AnchorMoves ==
    ASSUME NEW N \in Int, NEW P, NEW f, HandedOut(N, P, f), anchor \in Nat, anchor' \in Nat,
           anchor <= anchor', UNCHANGED <<packets, delivered>>
    PROVE  HandedOut(N, P, f)'
<1>0. PICK a \in Nat, b \in Nat : a = anchor /\ b = anchor' /\ a <= b
  OBVIOUS
<1>1. \A j \in b + 1 .. N : j \in a + 1 .. N
  <2>1. \A x, y \in Nat : x <= y => \A j \in y + 1 .. N : j \in x + 1 .. N
    BY ONLY N \in Int
  <2> QED BY <1>0, <2>1
<1> QED BY <1>0, <1>1 DEF HandedOut

LEMMA ReceiveSyncInv ==
    ASSUME Base, NEW P, NEW K, NEW f, Witness(P, K, f),
           NEW s \in syncs, NEW accepted \in BOOLEAN, ReceiveSync(s, accepted)
    PROVE  Inv'
<1>1. /\ UNCHANGED <<utx, syncs, now_ms, packets, delivered, last, handed>>
      /\ accepted => s > floor
      /\ urx' = UnrelReset(urx) /\ floor' = (IF accepted THEN s ELSE floor)
      /\ anchor' = floor'
  BY DEF ReceiveSync
<1>2. /\ last \in Nat /\ floor \in Nat /\ anchor \in Nat /\ s \in 1 .. last
      /\ anchor <= floor /\ floor <= last /\ last <= anchor + IdMod
      /\ wire \in Seq(Message) /\ Len(wire) \in Nat /\ Len(utx.entries) \in Nat
  BY BaseTypes DEF Base
<1>3. floor' \in Nat /\ floor <= floor' /\ anchor <= anchor' /\ anchor' \in Nat
      /\ floor' <= last /\ last <= anchor' + IdMod
  BY <1>1, <1>2, IdModAssumption
<1>4. urx' \in [base_id : Id, build : Data \cup {NoBuild}] /\ urx'.build = NoBuild
  BY <1>1 DEF UnrelReset, Base
<1>5. InFlight(P, K)' /\ wire' \in Seq(Message)
  <2>1. InFlight(P, K)
    BY DEF Witness
  <2>2. CASE ~accepted
    <3>1. wire' = wire /\ floor' = floor
      BY <1>1, <2>2 DEF ReceiveSync
    <3> QED BY <1>1, <1>2, <2>1, <3>1 DEF InFlight
  <2>3. CASE accepted
    <3>1. PICK first \in 1 .. Len(wire) + 1 :
             /\ \A i \in 1 .. Len(wire) : wire[i].n > s <=> i >= first
             /\ wire' = SubSeq(wire, first, Len(wire))
      BY <2>3 DEF ReceiveSync
    <3>2. PICK d \in Nat : d = first - 1 /\ d <= Len(wire) /\ first = d + 1
      BY <1>2
    <3>3. /\ wire' \in Seq(Message) /\ Len(wire') = Len(wire) - d
          /\ \A i \in 1 .. Len(wire) - d : wire'[i] = wire[d + i]
      BY <1>2, <3>1, <3>2, DropProperties
    <3>4. ASSUME NEW i \in 1 .. Len(wire')
          PROVE  /\ wire'[i].n \in floor' + 1 .. last
                 /\ wire'[i].id = (wire'[i].n - 1) % IdMod
                 /\ wire'[i].fragment = Fragments(packets[P[wire'[i].n]])[K[wire'[i].n]]
                 /\ \A j \in 1 .. i - 1 : wire'[j].n < wire'[i].n
      <4>1. /\ d + i \in 1 .. Len(wire) /\ d + i >= first /\ wire'[i] = wire[d + i]
        <5>1. i \in 1 .. Len(wire) - d
          BY <3>3
        <5>2. d + i \in 1 .. Len(wire) /\ d + i >= d + 1
          BY <1>2, <3>2, <5>1
        <5> QED BY <3>2, <3>3, <5>1, <5>2
      <4>2. /\ wire[d + i].n \in floor + 1 .. last
            /\ wire[d + i].id = (wire[d + i].n - 1) % IdMod
            /\ wire[d + i].fragment = Fragments(packets[P[wire[d + i].n]])[K[wire[d + i].n]]
            /\ \A j \in 1 .. (d + i) - 1 : wire[j].n < wire[d + i].n
        BY <2>1, <4>1 DEF InFlight
      <4>3. wire[d + i].n > s
        BY <3>1, <4>1
      <4>4. wire[d + i].n \in floor' + 1 .. last
        BY <1>1, <1>2, <2>3, <4>2, <4>3
      <4>5. ASSUME NEW j \in 1 .. i - 1 PROVE wire'[j] = wire[d + j] /\ d + j \in 1 .. (d + i) - 1
        <5>1. j \in 1 .. Len(wire) - d /\ d + j \in 1 .. (d + i) - 1
          BY <1>2, <3>2, <3>3
        <5> QED BY <3>3, <5>1
      <4> QED BY <4>1, <4>2, <4>4, <4>5
    <3> QED BY <1>1, <3>3, <3>4 DEF InFlight
  <2> QED BY <2>2, <2>3
<1>6. Base'
  BY <1>1, <1>3, <1>4, <1>5 DEF Base
<1>7. Building(P, K)'
  BY <1>4 DEF Building
<1>8. Witness(P, K, f)'
  <2>1. PICK N \in Int : N = last + Len(utx.entries)
    BY <1>2
  <2>2. HandedOut(N, P, f)'
    BY <1>1, <1>2, <1>3, <2>1, AnchorMoves DEF Witness
  <2>3. HandedOut(last + Len(utx.entries), P, f)'
    BY <1>1, <2>1, <2>2 DEF HandedOut
  <2> QED BY <1>1, <1>5, <1>7, <2>3 DEF Witness
<1> QED BY <1>6, <1>8 DEF Inv

\* What the receiver holds and hands out once it has accepted fragment number n: the packet,
\* when that was its last fragment, and otherwise the packet's bytes so far.
Taken(done, n, packet, p, k) ==
    /\ packet \in Data /\ p \in 1 .. Len(packets)
    /\ k \in 1 .. FragmentCount(packet) /\ FragmentCount(packet) \in Nat
    /\ done.rx \in [base_id : Id, build : Data \cup {NoBuild}]
    /\ done.rx.base_id = n % IdMod
    /\ IF k = FragmentCount(packet)
       THEN done.rx.build = NoBuild /\ done.out = <<packet>>
       ELSE /\ done.rx.build = SubSeq(packet, 1, k * FragmentSize)
            /\ done.out = <<>>

\* What receive makes of an accepted segment: its packet up to it.
LEMMA AcceptedBuffer ==
    ASSUME Base, NEW P, NEW K, NEW N \in Nat, last <= N, Sources(N, packets, P, K),
           Building(P, K), NEW n \in floor + 1 .. last, NEW id, id = (n - 1) % IdMod,
           NEW fragment, fragment = Fragments(packets[P[n]])[K[n]],
           UnrelAccepts(urx, id, fragment)
    PROVE  Taken(UnrelReceive(urx, id, fragment), n, packets[P[n]], P[n], K[n])
<1>1. PICK packet : packet = packets[P[n]]
  OBVIOUS
<1>2. PICK c : c = FragmentCount(packet)
  OBVIOUS
<1>3. PICK q : q = K[n] - 1
  OBVIOUS
<1>4. PICK buffer : buffer = IF fragment.first THEN fragment.data
                                               ELSE urx.build \o fragment.data
  OBVIOUS
<1>5. /\ last \in Nat /\ floor \in Nat /\ anchor \in Nat /\ anchor <= floor
      /\ last <= anchor + IdMod /\ packets \in Seq(Data) /\ IdMod \in Nat /\ IdMod > 0
      /\ n \in Nat /\ n - 1 \in Nat /\ n \in 1 .. N /\ n <= last /\ floor < n
  BY IdModAssumption DEF Base
<1>6. /\ P[n] \in 1 .. Len(packets) /\ K[n] \in 1 .. c
  BY <1>1, <1>2, <1>5 DEF Sources
<1>7. packet \in Data /\ packet \in Seq(Nat \X Nat) /\ c \in Nat
  <2>1. packet \in Data
    BY <1>1, <1>5, <1>6
  <2> QED BY <1>2, <2>1, FragmentBounds DEF Data
<1>8. q \in Nat /\ q + 1 = K[n] /\ q < c
  BY <1>3, <1>6, <1>7
<1>9. fragment = Fragments(packet)[K[n]] /\ fragment = Fragments(packet)[q + 1]
  BY <1>1, <1>8
<1>10. fragment.first = (K[n] = 1) /\ fragment.last = (K[n] = c)
  <2>1. PICK i \in 1 .. FragmentCount(packet) : i = K[n]
    BY <1>2, <1>6
  <2>2. /\ Fragments(packet)[i].first = (i = 1)
        /\ Fragments(packet)[i].last = (i = FragmentCount(packet))
    BY <1>7, FragmentsValid
  <2> QED BY <1>2, <1>9, <2>1, <2>2
<1>11. SubSeq(packet, 1, q * FragmentSize) \o fragment.data =
         SubSeq(packet, 1, IF q + 1 = c THEN Len(packet) ELSE (q + 1) * FragmentSize)
  BY <1>2, <1>7, <1>8, <1>9, NextFragment
<1>12. buffer = SubSeq(packet, 1, q * FragmentSize) \o fragment.data
  <2>1. CASE K[n] = 1
    <3>1. q * FragmentSize = 0
      <4>1. q = 0
        BY <1>3, <2>1
      <4> QED BY <4>1, FragmentSizeAssumption
    <3>2. SubSeq(packet, 1, 0) = <<>>
      BY SubSeqEmpty
    <3>3. fragment.data \in Seq(Nat \X Nat)
      <4> DEFINE T == [first : BOOLEAN, last : BOOLEAN, data : Seq(Nat \X Nat)]
      <4>1. Fragments(packet) \in Seq(T) /\ Len(Fragments(packet)) = c
        <5>1. Fragments(packet) \in Seq(T)
          BY <1>7, FragmentsType
        <5> HIDE DEF T
        <5> QED BY <1>2, <1>7, <5>1 DEF Fragments
      <4> HIDE DEF T
      <4>2. fragment \in T
        <5>1. PICK F, i : F \in Seq(T) /\ F = Fragments(packet) /\ i = K[n]
          BY <4>1
        <5>2. i \in 1 .. Len(F)
          BY <1>6, <4>1, <5>1
        <5>3. F[i] \in T
          BY ONLY <5>1, <5>2
        <5> QED BY <1>9, <5>1, <5>3, Zenon
      <4> QED BY <4>2 DEF T
    <3>4. <<>> \o fragment.data = fragment.data
      BY <3>3, ConcatEmptySeq
    <3> QED BY <1>4, <1>10, <2>1, <3>1, <3>2, <3>4
  <2>2. CASE K[n] # 1
    <3>1. ~fragment.first
      BY <1>10, <2>2
    <3>2. id = urx.base_id /\ urx.build # NoBuild
      BY <3>1 DEF UnrelAccepts, Continues
    <3>3. /\ urx.base_id = anchor % IdMod
          /\ urx.build = SubSeq(packets[P[anchor]], 1, K[anchor] * FragmentSize)
      BY <3>2 DEF Building
    <3>4. anchor = n - 1
      <4>1. anchor \in Int /\ n - 1 \in Int /\ anchor <= n - 1 /\ (n - 1) - anchor < IdMod
        BY <1>5
      <4>2. anchor % IdMod = (n - 1) % IdMod
        BY <3>2, <3>3
      <4>3. PICK a \in Int : a = n - 1
        BY <4>1
      <4>4. ~(anchor < a)
        BY <1>5, <4>1, <4>2, <4>3, ModDistinct
      <4> QED BY <4>1, <4>3, <4>4
    <3>5. P[n - 1] = P[n] /\ K[n] = K[n - 1] + 1
      BY <1>5, <2>2 DEF Sources
    <3>6. K[n - 1] = q
      <4>1. n - 1 \in 1 .. N
        BY <1>5, <2>2 DEF Sources
      <4>2. K[n - 1] \in 1 .. FragmentCount(packet)
        BY <1>1, <3>5, <4>1 DEF Sources
      <4>3. K[n - 1] \in Nat
        BY <1>2, <1>7, <4>2
      <4> QED BY <1>3, <3>5, <4>3
    <3> QED BY <1>1, <1>4, <3>1, <3>3, <3>4, <3>5, <3>6
  <2> QED BY <2>1, <2>2
<1>13. buffer = SubSeq(packet, 1, IF K[n] = c THEN Len(packet) ELSE K[n] * FragmentSize)
  BY <1>8, <1>11, <1>12
<1>14. /\ UnrelReceive(urx, id, fragment) =
            [rx  |-> [base_id |-> WrappingAdd(id, 1),
                      build   |-> IF K[n] = c THEN NoBuild ELSE buffer],
             out |-> IF K[n] = c THEN <<buffer>> ELSE <<>>]
  BY <1>4, <1>10 DEF UnrelReceive
<1>15. WrappingAdd(id, 1) = n % IdMod /\ WrappingAdd(id, 1) \in Id
  <2>1. PICK a \in Nat : a = n - 1 /\ n = a + 1
    BY <1>5
  <2>2. a % IdMod \in Id /\ WrappingAdd(a % IdMod, 1) = (a + 1) % IdMod
    BY <2>1, ModSucc
  <2> QED BY <2>1, <2>2, AddType
<1>16. CASE K[n] = c
  <2>1. buffer = packet
    <3>1. SubSeq(packet, 1, Len(packet)) = packet
      BY <1>7, SubSeqFull
    <3> QED BY <1>13, <1>16, <3>1
  <2>2. PICK done, b : /\ done = UnrelReceive(urx, id, fragment) /\ b = WrappingAdd(id, 1)
                       /\ done = [rx |-> [base_id |-> b, build |-> NoBuild], out |-> <<buffer>>]
    BY <1>14, <1>16
  <2>3. /\ done.rx \in [base_id : Id, build : Data \cup {NoBuild}]
        /\ done.rx.base_id = n % IdMod /\ done.rx.build = NoBuild /\ done.out = <<buffer>>
    BY <1>15, <2>2
  <2> QED BY <1>1, <1>2, <1>6, <1>7, <1>16, <2>1, <2>2, <2>3 DEF Taken
<1>17. CASE K[n] # c
  <2>1. buffer = SubSeq(packet, 1, K[n] * FragmentSize)
    BY <1>13, <1>17
  <2>2. buffer \in Data
    <3>1. K[n] < c /\ K[n] \in 1 .. FragmentCount(packet)
      BY <1>2, <1>6, <1>7, <1>17
    <3>2. K[n] * FragmentSize \in Nat /\ K[n] * FragmentSize <= Len(packet)
      BY <1>2, <1>7, <3>1, FragmentBounds
    <3>3. PICK h \in Nat : h = K[n] * FragmentSize /\ h <= Len(packet)
      BY <3>2
    <3>4. SubSeq(packet, 1, h) \in Seq(Nat \X Nat)
      BY <1>7, <3>3
    <3> QED BY <2>1, <3>3, <3>4 DEF Data
  <2>3. PICK done, b : /\ done = UnrelReceive(urx, id, fragment) /\ b = WrappingAdd(id, 1)
                       /\ done = [rx |-> [base_id |-> b, build |-> buffer], out |-> <<>>]
    BY <1>14, <1>17
  <2>4. /\ done.rx \in [base_id : Id, build : Data \cup {NoBuild}]
        /\ done.rx.base_id = n % IdMod /\ done.rx.build = buffer /\ done.out = <<>>
    BY <1>15, <2>2, <2>3
  <2> QED BY <1>1, <1>2, <1>6, <1>7, <1>17, <2>1, <2>3, <2>4 DEF Taken
<1> QED BY <1>16, <1>17

\* The segments behind the one that is received.
LEMMA TailInFlight ==
    ASSUME Base, NEW P, NEW K, InFlight(P, K), wire # <<>>, wire' = Tail(wire),
           floor' = Head(wire).n, UNCHANGED <<packets, last>>
    PROVE  /\ InFlight(P, K)' /\ wire' \in Seq(Message)
           /\ Head(wire) \in Message /\ Head(wire).n \in floor + 1 .. last
           /\ Head(wire).id = (Head(wire).n - 1) % IdMod
           /\ Head(wire).fragment = Fragments(packets[P[Head(wire).n]])[K[Head(wire).n]]
<1>1. wire \in Seq(Message) /\ Len(wire) \in Nat
  BY BaseTypes DEF Base
<1>2. PICK m : m = Head(wire)
  OBVIOUS
<1>3. /\ wire' \in Seq(Message) /\ m \in Message /\ m = wire[1] /\ 1 \in 1 .. Len(wire)
  <2>1. Len(wire) # 0 /\ m = wire[1]
    BY <1>1, <1>2
  <2>2. 1 \in 1 .. Len(wire)
    BY <1>1, <2>1
  <2> QED BY <1>1, <1>2, <2>1, <2>2, HeadTailProperties
<1>4. /\ m.n \in floor + 1 .. last /\ m.id = (m.n - 1) % IdMod
      /\ m.fragment = Fragments(packets[P[m.n]])[K[m.n]]
  BY <1>3 DEF InFlight
<1>5. ASSUME NEW i \in 1 .. Len(wire')
      PROVE  /\ wire'[i].n \in m.n + 1 .. last
             /\ wire'[i].id = (wire'[i].n - 1) % IdMod
             /\ wire'[i].fragment = Fragments(packets[P[wire'[i].n]])[K[wire'[i].n]]
             /\ \A j \in 1 .. i - 1 : wire'[j].n < wire'[i].n
  <2>1. /\ i + 1 \in 1 .. Len(wire) /\ 1 \in 1 .. (i + 1) - 1
        /\ wire'[i] = wire[i + 1]
        /\ \A j \in 1 .. i - 1 : j + 1 \in 1 .. (i + 1) - 1 /\ wire'[j] = wire[j + 1]
    BY <1>1, TailProperties
  <2>2. /\ wire[i + 1].n \in floor + 1 .. last
        /\ wire[i + 1].id = (wire[i + 1].n - 1) % IdMod
        /\ wire[i + 1].fragment = Fragments(packets[P[wire[i + 1].n]])[K[wire[i + 1].n]]
        /\ \A j \in 1 .. (i + 1) - 1 : wire[j].n < wire[i + 1].n
    BY <2>1 DEF InFlight
  <2>3. wire[i + 1].n \in m.n + 1 .. last
    <3>1. m.n < wire[i + 1].n
      BY <1>3, <2>1, <2>2
    <3>2. PICK x, y : x = m.n /\ y = wire[i + 1].n
      OBVIOUS
    <3>3. x \in Int /\ y \in Int /\ x < y /\ y <= last /\ last \in Nat
      BY <1>4, <2>2, <3>1, <3>2 DEF Base
    <3> QED BY <3>2, <3>3
  <2> QED BY <2>1, <2>2, <2>3
<1>6. InFlight(P, K)'
  BY <1>2, <1>5 DEF InFlight
<1> QED BY <1>2, <1>3, <1>4, <1>6

LEMMA ReceiveFragmentInv ==
    ASSUME Base, NEW P, NEW K, NEW f, Witness(P, K, f), ReceiveFragment
    PROVE  Inv'
<1>1. PICK N \in Nat : N = last + Len(utx.entries) /\ last <= N
  BY BaseTypes DEF Base
<1>2. /\ Sources(N, packets, P, K) /\ Queued(utx.entries, last, packets, P, K)
      /\ InFlight(P, K) /\ Building(P, K) /\ HandedOut(N, P, f)
  BY <1>1 DEF Witness
<1>3. PICK n, id, fragment :
         n = Head(wire).n /\ id = Head(wire).id /\ fragment = Head(wire).fragment
  OBVIOUS
<1>4. PICK done : done = UnrelReceive(urx, id, fragment)
  OBVIOUS
<1>5. /\ wire # <<>> /\ wire' = Tail(wire)
      /\ urx' = done.rx /\ delivered' = delivered \o done.out /\ floor' = n
      /\ anchor' = (IF UnrelAccepts(urx, id, fragment) THEN n ELSE anchor)
      /\ UNCHANGED <<utx, syncs, now_ms, packets, last>>
  BY <1>3, <1>4 DEF ReceiveFragment
<1>6. /\ InFlight(P, K)' /\ wire' \in Seq(Message)
      /\ n \in floor + 1 .. last /\ id = (n - 1) % IdMod
      /\ fragment = Fragments(packets[P[n]])[K[n]]
  BY <1>2, <1>3, <1>5, TailInFlight
<1>7. /\ last \in Nat /\ floor \in Nat /\ anchor \in Nat /\ anchor <= floor
      /\ last <= anchor + IdMod /\ n \in Nat /\ floor < n /\ n <= last /\ anchor < n
      /\ IdMod \in Nat /\ delivered \in Seq(Data) /\ Len(delivered) \in Nat
      /\ Len(packets) \in Nat
  BY <1>6, IdModAssumption, BaseTypes DEF Base
<1>8. CASE ~UnrelAccepts(urx, id, fragment)
  <2>1. done = [rx |-> urx, out |-> <<>>]
    BY <1>4, <1>8 DEF UnrelReceive
  <2>2. delivered \o <<>> = delivered
    BY <1>7, ConcatEmptySeq
  <2>3. UNCHANGED <<urx, delivered, anchor>>
    BY <1>5, <1>8, <2>1, <2>2
  <2>4. Base'
    <3>1. floor' \in Nat /\ anchor <= floor' /\ floor' <= last
      BY <1>5, <1>7
    <3> QED BY <1>5, <1>6, <2>3, <3>1 DEF Base
  <2>5. Witness(P, K, f)'
    BY <1>5, <1>6, <2>3, WireWitness
  <2> QED BY <2>4, <2>5 DEF Inv
<1>9. CASE UnrelAccepts(urx, id, fragment)
  <2>1. PICK packet, c : packet = packets[P[n]] /\ c = FragmentCount(packet)
    OBVIOUS
  <2>2. /\ packet \in Data /\ P[n] \in 1 .. Len(packets) /\ K[n] \in 1 .. c /\ c \in Nat
        /\ urx' \in [base_id : Id, build : Data \cup {NoBuild}]
        /\ urx'.base_id = n % IdMod
        /\ IF K[n] = c
           THEN urx'.build = NoBuild /\ done.out = <<packet>>
           ELSE urx'.build = SubSeq(packet, 1, K[n] * FragmentSize) /\ done.out = <<>>
    <3>1. Taken(UnrelReceive(urx, id, fragment), n, packets[P[n]], P[n], K[n])
      BY <1>1, <1>2, <1>6, <1>9, AcceptedBuffer
    <3>2. urx' = done.rx
      BY <1>5
    <3>3. Taken(done, n, packet, P[n], K[n])
      BY <1>4, <2>1, <3>1
    <3> QED BY <2>1, <3>2, <3>3 DEF Taken
  <2>3. anchor' = n /\ floor' = n
    BY <1>5, <1>9
  <2>4. n \in 1 .. N /\ n \in anchor + 1 .. N
    BY <1>1, <1>7
  <2>5. Building(P, K)'
    <3>1. CASE K[n] = c
      BY <2>2, <3>1 DEF Building
    <3>2. CASE K[n] # c
      <4>1. K[n] < c /\ n \in 1 .. last
        BY <1>7, <2>2, <3>2
      <4> QED BY <1>5, <2>1, <2>2, <2>3, <3>2, <4>1 DEF Building
    <3> QED BY <3>1, <3>2
  <2>6. delivered' \in Seq(Data) /\ \E g : HandedOut(N, P, g)'
    <3>1. CASE K[n] # c
      <4>1. delivered \o <<>> = delivered
        BY <1>7, ConcatEmptySeq
      <4>2. delivered' = delivered
        BY <1>5, <2>2, <3>1, <4>1
      <4>3. HandedOut(N, P, f)'
        <5>1. anchor' \in Nat /\ anchor <= anchor' /\ N \in Int
          BY <1>7, <2>3
        <5> QED BY <1>2, <1>5, <1>7, <4>2, <5>1, AnchorMoves
      <4> QED BY <1>7, <4>2, <4>3
    <3>2. CASE K[n] = c
      <4>1. PICK l \in Nat : l = Len(delivered)
        BY <1>7
      <4>2. PICK g : g = [i \in 1 .. l + 1 |-> IF i <= l THEN f[i] ELSE P[n]]
        OBVIOUS
      <4>3. /\ f \in [1 .. l -> 1 .. Len(packets)]
            /\ \A i \in 1 .. l :
                  delivered[i] = packets[f[i]] /\ \A j \in anchor + 1 .. N : f[i] < P[j]
            /\ \A i, j \in 1 .. l : i < j => f[i] < f[j]
        BY <1>2, <4>1 DEF HandedOut
      <4>4. /\ delivered' \in Seq(Data) /\ Len(delivered') = l + 1
            /\ delivered'[l + 1] = packet /\ \A i \in 1 .. l : delivered'[i] = delivered[i]
        <5>1. delivered' = Append(delivered, packet)
          <6>1. delivered \o <<packet>> = Append(delivered, packet)
            BY <1>7, <2>2, AppendIsConcat
          <6> QED BY <1>5, <2>2, <3>2, <6>1
        <5> QED BY <1>7, <2>2, <4>1, <5>1, AppendProperties
      <4>5. ASSUME NEW i \in 1 .. l + 1
            PROVE  /\ i <= l => i \in 1 .. l /\ g[i] = f[i] /\ f[i] \in 1 .. Len(packets)
                   /\ ~(i <= l) => i = l + 1 /\ g[i] = P[n]
        <5>1. i <= l => i \in 1 .. l
          OBVIOUS
        <5>2. ~(i <= l) => i = l + 1
          OBVIOUS
        <5> QED BY <4>2, <4>3, <5>1, <5>2
      <4>6. g \in [1 .. l + 1 -> 1 .. Len(packets)]
        BY <2>2, <4>2, <4>5
      <4>7. ASSUME NEW i \in 1 .. l + 1 PROVE delivered'[i] = packets[g[i]]
        <5>1. CASE i <= l
          BY <4>3, <4>4, <4>5, <5>1
        <5>2. CASE ~(i <= l)
          BY <2>1, <4>4, <4>5, <5>2
        <5> QED BY <5>1, <5>2
      <4>8. ASSUME NEW j \in n + 1 .. N PROVE P[n] < P[j]
        <5>1. n \in 1 .. N /\ j \in 1 .. N /\ n < j
          BY <1>7, <2>4
        <5>2. P[n] < P[j] \/ (P[n] = P[j] /\ K[n] < K[j])
          BY <1>2, <5>1 DEF Sources
        <5>3. K[j] \in 1 .. FragmentCount(packets[P[j]])
          BY <1>2, <5>1 DEF Sources
        <5>4. P[n] = P[j] => K[j] \in 1 .. c
          BY <2>1, <5>3
        <5>5. P[n] = P[j] => ~(K[n] < K[j])
          <6>1. \A x \in 1 .. c : ~(c < x)
            BY <2>2
          <6> QED BY <3>2, <5>4, <6>1
        <5> QED BY <5>2, <5>5
      <4>9. ASSUME NEW i \in 1 .. l + 1, NEW j \in n + 1 .. N PROVE g[i] < P[j]
        <5>1. CASE i <= l
          <6>1. j \in anchor + 1 .. N
            BY <1>7
          <6> QED BY <4>3, <4>5, <5>1, <6>1
        <5>2. CASE ~(i <= l)
          BY <4>5, <4>8, <5>2
        <5> QED BY <5>1, <5>2
      <4>10. ASSUME NEW i \in 1 .. l + 1, NEW j \in 1 .. l + 1, i < j PROVE g[i] < g[j]
        <5>1. i <= l
          BY <4>10
        <5>2. CASE j <= l
          BY <4>3, <4>5, <4>10, <5>1, <5>2
        <5>3. CASE ~(j <= l)
          <6>1. f[i] < P[n]
            BY <2>4, <4>3, <4>5, <5>1
          <6> QED BY <4>5, <5>1, <5>3, <6>1
        <5> QED BY <5>2, <5>3
      <4>11. HandedOut(N, P, g)'
        BY <1>5, <2>3, <4>4, <4>6, <4>7, <4>9, <4>10 DEF HandedOut
      <4> QED BY <4>4, <4>11
    <3> QED BY <3>1, <3>2
  <2>7. Base'
    <3>1. /\ floor' \in Nat /\ anchor' \in Nat /\ anchor' <= floor' /\ floor' <= last
          /\ last <= anchor' + IdMod
      BY <1>7, <2>3
    <3> QED BY <1>5, <1>6, <2>2, <2>6, <3>1 DEF Base
  <2>8. PICK g : HandedOut(N, P, g)'
    BY <2>6
  <2>9. Witness(P, K, g)'
    <3>1. HandedOut(last + Len(utx.entries), P, g)'
      BY <1>1, <1>5, <2>8 DEF HandedOut
    <3>2. /\ Sources(last' + Len(utx'.entries), packets', P, K)
          /\ Queued(utx'.entries, last', packets', P, K)
      BY <1>1, <1>2, <1>5
    <3> QED BY <1>6, <2>5, <3>1, <3>2 DEF Witness
  <2> QED BY <2>7, <2>9 DEF Inv
<1> QED BY <1>8, <1>9

-----------------------------------------------------------------------------
(* The theorems *)

THEOREM Invariance == Spec => []Inv
<1>1. Init => Inv
  <2> SUFFICES ASSUME Init PROVE Inv
    OBVIOUS
  <2>1. 0 % IdMod = 0 /\ 0 \in Id
    <3>1. IdMod \in Nat /\ IdMod > 1
      BY IdModAssumption
    <3> QED BY <3>1 DEF Id
  <2>2. Base
    BY <2>1, UnreliableAssumption, IdModAssumption
       DEF Base, Init, UnrelTxNew, UnrelRxNew
  <2>3. /\ utx.entries = <<>> /\ urx.build = NoBuild /\ wire = <<>> /\ packets = <<>>
        /\ delivered = <<>> /\ last = 0 /\ anchor = 0
    BY DEF Init, UnrelTxNew, UnrelRxNew
  <2>4. PICK e : e = [i \in 1 .. 0 |-> 0]
    OBVIOUS
  <2>5. Witness(e, e, e)
    <3>1. /\ Len(utx.entries) = 0 /\ Len(packets) = 0 /\ Len(wire) = 0 /\ Len(delivered) = 0
          /\ last + Len(utx.entries) = 0
      BY <2>3
    <3>2. e \in [1 .. 0 -> 1 .. 0]
      BY <2>4
    <3>3. Sources(last + Len(utx.entries), packets, e, e)
      BY <3>1 DEF Sources
    <3>4. Queued(utx.entries, last, packets, e, e)
      BY <3>1 DEF Queued
    <3>5. InFlight(e, e) /\ Building(e, e)
      BY <2>3, <3>1 DEF InFlight, Building
    <3>6. HandedOut(last + Len(utx.entries), e, e)
      BY <3>1, <3>2 DEF HandedOut
    <3> QED BY <3>3, <3>4, <3>5, <3>6 DEF Witness
  <2> QED BY <2>2, <2>5 DEF Inv
<1>2. Inv /\ [Next]_unrelVars => Inv'
  <2> SUFFICES ASSUME Inv, [Next]_unrelVars PROVE Inv'
    OBVIOUS
  <2>0. Base
    BY DEF Inv
  <2>00. PICK P, K, f : Witness(P, K, f)
    BY DEF Inv
  <2>1. ASSUME NEW length \in Lengths, NEW timeout_ms \in Timeouts,
               Enqueue(length, timeout_ms)
        PROVE  Inv'
    BY <2>0, <2>00, <2>1, EnqueueInv
  <2>2. CASE Tick
    BY <2>0, <2>00, <2>2, TickInv
  <2>3. CASE Flush
    BY <2>0, <2>00, <2>3, FlushInv
  <2>4. ASSUME NEW i \in 1 .. Len(wire), Lose(i) PROVE Inv'
    BY <2>0, <2>00, <2>4, LoseInv
  <2>5. CASE ReceiveFragment
    BY <2>0, <2>00, <2>5, ReceiveFragmentInv
  <2>6. CASE SendSync
    BY <2>0, <2>00, <2>6, SendSyncInv
  <2>7. ASSUME NEW s \in syncs, NEW accepted \in BOOLEAN, ReceiveSync(s, accepted)
        PROVE  Inv'
    BY <2>0, <2>00, <2>7, ReceiveSyncInv
  <2>8. CASE UNCHANGED unrelVars
    <3>1. Base'
      BY <2>0, <2>8 DEF Base, unrelVars
    <3>2. Witness(P, K, f)'
      BY <2>00, <2>8, UnchangedWitness DEF unrelVars
    <3> QED BY <3>1, <3>2 DEF Inv
  <2> QED BY <2>1, <2>2, <2>3, <2>4, <2>5, <2>6, <2>7, <2>8 DEF Next
<1> QED BY <1>1, <1>2, PTL DEF Spec

\* Types of the buffers; every queued fragment is one that the receiver's is_valid
\* accepts.
THEOREM TypeCorrect == Spec => []TypeOK
<1>1. Inv => TypeOK
  <2> SUFFICES ASSUME Inv PROVE TypeOK
    OBVIOUS
  <2>1. Base
    BY DEF Inv
  <2>2. PICK P, K, f : Witness(P, K, f)
    BY DEF Inv
  <2>3. ASSUME NEW i \in 1 .. Len(utx.entries)
        PROVE  FragmentIsValid(utx.entries[i].fragment)
    <3>1. PICK j : j = last + i
      OBVIOUS
    <3>2. j \in 1 .. last + Len(utx.entries)
      BY <2>1, <3>1, BaseTypes DEF Base
    <3>3. /\ P[j] \in 1 .. Len(packets) /\ K[j] \in 1 .. FragmentCount(packets[P[j]])
          /\ utx.entries[i].fragment = Fragments(packets[P[j]])[K[j]]
      BY <2>2, <3>1, <3>2 DEF Witness, Sources, Queued
    <3>4. PICK packet \in Seq(Nat \X Nat) : packet = packets[P[j]]
      BY <2>1, <3>3 DEF Base, Data
    <3>5. PICK k \in 1 .. FragmentCount(packet) : k = K[j]
      BY <3>3, <3>4
    <3>6. FragmentIsValid(Fragments(packet)[k])
      BY FragmentsValid
    <3> QED BY <3>3, <3>4, <3>5, <3>6
  <2> QED BY <2>1, <2>3, BaseTypes DEF Base, TypeOK
<1> QED BY <1>1, Invariance, PTL

\* receive hands out nothing but packets that were sent, whole, in order and each at
\* most once, although fragments expire in the middle of a packet, segments are lost,
\* syncs come late and ids wrap.
THEOREM AlwaysOnlyWholePackets == Spec => []OnlyWholePackets
<1>1. Inv => OnlyWholePackets
  BY DEF Inv, Witness, HandedOut, OnlyWholePackets
<1> QED BY <1>1, Invariance, PTL


=============================================================================
