-------------------------- MODULE ConnectionProofs --------------------------
(***************************************************************************)
(* The server's table and timer queue, what the applications are told, and *)
(* the cookies of the handshake: for any set of clients, any table size,   *)
(* any timeouts and any bounds on restarts, ticks and resends.             *)
(***************************************************************************)
EXTENDS Connection, EndpointProofs, FiniteSetTheorems

-----------------------------------------------------------------------------
(* Sequences without repetition *)

Among(x, s) == \E i \in 1 .. Len(s) : s[i] = x

Distinct(s) == IsSeq(s) /\ \A i, j \in 1 .. Len(s) : s[i] = s[j] => i = j

LEMMA ToSetIs ==
    ASSUME NEW s, IsSeq(s), NEW x
    PROVE  x \in SeqExt!ToSet(s) <=> Among(x, s)
<1>1. DOMAIN s = 1 .. Len(s)
  BY IsSeqLen
<1> QED BY <1>1 DEF SeqExt!ToSet, Among

LEMMA EmptyDistinct == Distinct(<<>>) /\ \A x : ~Among(x, <<>>)
BY EmptyIsSeq DEF Distinct, Among

LEMMA DistinctAppend ==
    ASSUME NEW s, Distinct(s), NEW x, ~Among(x, s)
    PROVE  /\ Distinct(Append(s, x))
           /\ \A y : Among(y, Append(s, x)) <=> Among(y, s) \/ y = x
<1>1. PICK t : t = Append(s, x)
  OBVIOUS
<1>2. PICK n \in Nat : n = Len(s)
  BY IsSeqLen DEF Distinct
<1>3. /\ IsSeq(t) /\ Len(t) = n + 1 /\ t[n + 1] = x /\ \A i \in 1 .. n : t[i] = s[i]
  BY <1>1, <1>2, IsSeqAppend DEF Distinct
<1>4. n + 1 \in 1 .. n + 1 /\ \A i \in 1 .. n + 1 : i \in 1 .. n \/ i = n + 1
  OBVIOUS
<1>5. \A i \in 1 .. n : i \in 1 .. n + 1
  OBVIOUS
<1>6. \A i \in 1 .. n : s[i] # x
  BY <1>2 DEF Among
<1>7. ASSUME NEW i \in 1 .. n + 1, NEW j \in 1 .. n + 1, t[i] = t[j] PROVE i = j
  BY <1>2, <1>3, <1>4, <1>6, <1>7 DEF Distinct
<1>8. ASSUME NEW y PROVE Among(y, t) <=> Among(y, s) \/ y = x
  BY <1>2, <1>3, <1>4, <1>5 DEF Among
<1> QED BY <1>1, <1>3, <1>7, <1>8 DEF Distinct

LEMMA DistinctConcat ==
    ASSUME NEW s, Distinct(s), NEW t, Distinct(t), \A x : ~(Among(x, s) /\ Among(x, t))
    PROVE  Distinct(s \o t) /\ \A x : Among(x, s \o t) <=> Among(x, s) \/ Among(x, t)
<1>1. PICK u : u = s \o t
  OBVIOUS
<1>2. PICK n, m \in Nat : n = Len(s) /\ m = Len(t)
  BY IsSeqLen DEF Distinct
<1>3. /\ IsSeq(u) /\ Len(u) = n + m
      /\ \A i \in 1 .. n : u[i] = s[i]
      /\ \A i \in n + 1 .. n + m : u[i] = t[i - n]
  BY <1>1, <1>2, IsSeqConcat DEF Distinct
<1>4. /\ \A i \in 1 .. n + m : i \in 1 .. n \/ i \in n + 1 .. n + m
      /\ \A i \in n + 1 .. n + m : i - n \in 1 .. m /\ i \in 1 .. n + m
      /\ \A i \in 1 .. n : i \in 1 .. n + m
  OBVIOUS
<1>5. ASSUME NEW i \in 1 .. n + m, NEW j \in 1 .. n + m, u[i] = u[j] PROVE i = j
  <2>1. \A k \in 1 .. n, l \in 1 .. m : s[k] # t[l]
    BY <1>2 DEF Among
  <2>2. CASE i \in 1 .. n /\ j \in 1 .. n
    BY <1>2, <1>3, <1>5, <2>2 DEF Distinct
  <2>3. CASE i \in n + 1 .. n + m /\ j \in n + 1 .. n + m
    <3>1. i - n \in 1 .. m /\ j - n \in 1 .. m /\ t[i - n] = t[j - n]
      BY <1>3, <1>4, <1>5, <2>3
    <3>2. i - n = j - n
      BY <1>2, <3>1 DEF Distinct
    <3> QED BY <2>3, <3>2
  <2>4. CASE i \in 1 .. n /\ j \in n + 1 .. n + m
    BY <1>3, <1>4, <1>5, <2>1, <2>4
  <2>5. CASE i \in n + 1 .. n + m /\ j \in 1 .. n
    BY <1>3, <1>4, <1>5, <2>1, <2>5
  <2> QED BY <1>4, <2>2, <2>3, <2>4, <2>5
<1>6. ASSUME NEW x PROVE Among(x, u) <=> Among(x, s) \/ Among(x, t)
  <2>1. ASSUME Among(x, u) PROVE Among(x, s) \/ Among(x, t)
    <3>1. PICK i \in 1 .. n + m : u[i] = x
      BY <1>3, <2>1 DEF Among
    <3> QED BY <1>2, <1>3, <1>4, <3>1 DEF Among
  <2>2. ASSUME Among(x, s) PROVE Among(x, u)
    BY <1>2, <1>3, <1>4, <2>2 DEF Among
  <2>3. ASSUME Among(x, t) PROVE Among(x, u)
    <3>1. PICK l \in 1 .. m : t[l] = x
      BY <1>2, <2>3 DEF Among
    <3>2. n + l \in n + 1 .. n + m /\ (n + l) - n = l
      OBVIOUS
    <3>3. u[n + l] = t[l]
      BY <1>3, <3>2
    <3> QED BY <1>3, <1>4, <3>1, <3>2, <3>3 DEF Among
  <2> QED BY <2>1, <2>2, <2>3
<1> QED BY <1>1, <1>3, <1>5, <1>6 DEF Distinct

LEMMA DistinctTail ==
    ASSUME NEW s, Distinct(s), s # <<>>
    PROVE  /\ Distinct(Tail(s)) /\ Among(Head(s), s)
           /\ \A x : Among(x, Tail(s)) <=> Among(x, s) /\ x # Head(s)
<1>1. PICK n \in Nat : n = Len(s) /\ n # 0
  BY IsSeqLen DEF Distinct
<1>2. PICK t : t = Tail(s)
  OBVIOUS
<1>3. /\ IsSeq(t) /\ Len(t) = n - 1 /\ \A i \in 1 .. n - 1 : t[i] = s[i + 1]
  BY <1>1, <1>2, IsSeqTail DEF Distinct
<1>4. Head(s) = s[1]
  OBVIOUS
<1>5. /\ 1 \in 1 .. n /\ \A i \in 1 .. n - 1 : i + 1 \in 1 .. n /\ i + 1 # 1
      /\ \A i \in 1 .. n : i = 1 \/ (i - 1 \in 1 .. n - 1 /\ (i - 1) + 1 = i)
  BY <1>1
<1>6. ASSUME NEW i \in 1 .. n - 1, NEW j \in 1 .. n - 1, t[i] = t[j] PROVE i = j
  <2>1. i + 1 = j + 1
    BY <1>1, <1>3, <1>5, <1>6 DEF Distinct
  <2> QED BY <2>1
<1>7. ASSUME NEW x PROVE Among(x, t) <=> Among(x, s) /\ x # s[1]
  <2>1. ASSUME Among(x, t) PROVE Among(x, s) /\ x # s[1]
    <3>1. PICK i \in 1 .. n - 1 : t[i] = x
      BY <1>3, <2>1 DEF Among
    <3> QED BY <1>1, <1>3, <1>5, <3>1 DEF Among, Distinct
  <2>2. ASSUME Among(x, s), x # s[1] PROVE Among(x, t)
    <3>1. PICK i \in 1 .. n : s[i] = x
      BY <1>1, <2>2 DEF Among
    <3>2. i - 1 \in 1 .. n - 1 /\ (i - 1) + 1 = i
      BY <1>5, <2>2, <3>1
    <3>3. t[i - 1] = x
      BY <1>3, <3>1, <3>2
    <3> QED BY <1>3, <3>2, <3>3 DEF Among
  <2> QED BY <2>1, <2>2
<1> QED BY <1>1, <1>2, <1>3, <1>4, <1>5, <1>6, <1>7 DEF Distinct, Among

\* A sequence cut in two.
LEMMA DistinctCut ==
    ASSUME NEW s, Distinct(s), NEW n \in 0 .. Len(s)
    PROVE  LET a == SubSeq(s, 1, n)
               b == SubSeq(s, n + 1, Len(s))
           IN  /\ Distinct(a) /\ Distinct(b) /\ \A x : ~(Among(x, a) /\ Among(x, b))
               /\ \A x : Among(x, s) <=> Among(x, a) \/ Among(x, b)
<1>1. PICK X : s \in Seq(X)
  BY DEF Distinct, IsSeq
<1>2. PICK m \in Nat : m = Len(s) /\ n \in 0 .. m
  BY IsSeqLen DEF Distinct
<1>3. PICK a, b : a = SubSeq(s, 1, n) /\ b = SubSeq(s, n + 1, Len(s))
  OBVIOUS
<1>4. /\ a \in Seq(X) /\ Len(a) = n /\ \A i \in 1 .. n : a[i] = s[i]
      /\ b \in Seq(X) /\ Len(b) = m - n /\ \A i \in 1 .. m - n : b[i] = s[n + i]
  <2>1. Len(a) = n /\ a \in Seq(X) /\ \A i \in 1 .. n : a[i] = s[i]
    BY <1>1, <1>2, <1>3
  <2>2. Len(b) = m - n /\ b \in Seq(X)
    BY <1>1, <1>2, <1>3
  <2>3. ASSUME NEW i \in 1 .. m - n PROVE b[i] = s[n + i]
    BY <1>1, <1>2, <1>3
  <2> QED BY <2>1, <2>2, <2>3
<1>5. /\ \A i \in 1 .. n : i \in 1 .. m
      /\ \A i \in 1 .. m - n : n + i \in 1 .. m /\ n + i \notin 1 .. n
      /\ \A i \in 1 .. m : i \in 1 .. n \/ (i - n \in 1 .. m - n /\ n + (i - n) = i)
  BY <1>2
<1>6. Distinct(a)
  BY <1>2, <1>4, <1>5 DEF Distinct, IsSeq
<1>7. Distinct(b)
  <2>1. ASSUME NEW i \in 1 .. m - n, NEW j \in 1 .. m - n, b[i] = b[j] PROVE i = j
    <3>1. n + i = n + j
      BY <1>2, <1>4, <1>5, <2>1 DEF Distinct
    <3> QED BY <1>2, <3>1
  <2> QED BY <1>4, <2>1 DEF Distinct, IsSeq
<1>8. ASSUME NEW x, Among(x, a), Among(x, b) PROVE FALSE
  <2>1. PICK i \in 1 .. n : s[i] = x
    BY <1>4, <1>8 DEF Among
  <2>2. PICK j \in 1 .. m - n : s[n + j] = x
    BY <1>4, <1>8 DEF Among
  <2>3. i = n + j
    BY <1>2, <1>5, <2>1, <2>2 DEF Distinct
  <2> QED BY <1>5, <2>3
<1>9. ASSUME NEW x PROVE Among(x, s) <=> Among(x, a) \/ Among(x, b)
  <2>1. ASSUME Among(x, s) PROVE Among(x, a) \/ Among(x, b)
    <3>1. PICK i \in 1 .. m : s[i] = x
      BY <1>2, <2>1 DEF Among
    <3>2. CASE i \in 1 .. n
      BY <1>4, <3>1, <3>2 DEF Among
    <3>3. CASE i - n \in 1 .. m - n /\ n + (i - n) = i
      BY <1>4, <3>1, <3>3 DEF Among
    <3> QED BY <1>5, <3>2, <3>3
  <2>2. ASSUME Among(x, a) PROVE Among(x, s)
    BY <1>2, <1>4, <1>5, <2>2 DEF Among
  <2>3. ASSUME Among(x, b) PROVE Among(x, s)
    BY <1>2, <1>4, <1>5, <2>3 DEF Among
  <2> QED BY <2>1, <2>2, <2>3
<1> QED BY <1>3, <1>6, <1>7, <1>8, <1>9

\* g holds the states of the loop.
IsKeepLoop(g, n, s, set) ==
    g = [i \in 0 .. n |-> IF i = 0 THEN <<>>
                          ELSE IF s[i] \in set THEN Append(g[i - 1], s[i]) ELSE g[i - 1]]

LEMMA KeepLoopExists ==
    ASSUME NEW s, NEW set, NEW n \in Nat
    PROVE  \E g : IsKeepLoop(g, n, s, set)
<1> DEFINE turn(k, i) == IF s[i] \in set THEN Append(k, s[i]) ELSE k
           T == {m \in Nat : \E g : g = [i \in 0 .. m |-> IF i = 0 THEN <<>>
                                                         ELSE turn(g[i - 1], i)]}
<1> HIDE DEF turn
<1>1. 0 \in T
  <2>1. PICK g : g = [i \in 0 .. 0 |-> <<>>]
    OBVIOUS
  <2>2. g = [i \in 0 .. 0 |-> IF i = 0 THEN <<>> ELSE turn(g[i - 1], i)]
    BY <2>1
  <2> QED BY <2>2
<1>2. ASSUME NEW m \in Nat, m \in T PROVE m + 1 \in T
  <2>1. PICK g : g = [i \in 0 .. m |-> IF i = 0 THEN <<>> ELSE turn(g[i - 1], i)]
    BY <1>2
  <2>2. PICK h : h = [i \in 0 .. m + 1 |-> IF i <= m THEN g[i] ELSE turn(g[m], i)]
    OBVIOUS
  <2>3. ASSUME NEW i \in 0 .. m + 1
        PROVE  h[i] = IF i = 0 THEN <<>> ELSE turn(h[i - 1], i)
    <3>1. CASE i <= m
      <4>1. i \in 0 .. m /\ (i # 0 => i - 1 \in 0 .. m + 1 /\ i - 1 <= m)
        BY <3>1
      <4>2. g[i] = IF i = 0 THEN <<>> ELSE turn(g[i - 1], i)
        BY <2>1, <4>1
      <4>3. h[i] = g[i] /\ (i # 0 => h[i - 1] = g[i - 1])
        BY <2>2, <3>1, <4>1
      <4> QED BY <4>2, <4>3
    <3>2. CASE ~(i <= m)
      <4>1. i # 0 /\ i - 1 = m /\ m \in 0 .. m + 1 /\ m <= m
        BY <3>2
      <4> QED BY <2>2, <3>2, <4>1
    <3> QED BY <3>1, <3>2
  <2>4. h = [i \in 0 .. m + 1 |-> IF i = 0 THEN <<>> ELSE turn(h[i - 1], i)]
    BY <2>2, <2>3
  <2> QED BY <2>4
<1> HIDE DEF T
<1>3. n \in T
  BY <1>1, <1>2, SetInduction
<1> QED BY <1>3 DEF T, turn, IsKeepLoop

\* The entries that test keeps, or signals: each as often as before, and no others.
LEMMA KeptIs ==
    ASSUME NEW s, Distinct(s), NEW set
    PROVE  /\ Distinct(Kept(s, set))
           /\ \A x : Among(x, Kept(s, set)) <=> Among(x, s) /\ x \in set
<1>1. PICK n \in Nat : n = Len(s)
  BY IsSeqLen DEF Distinct
<1>2. PICK k : k = CHOOSE g : IsKeepLoop(g, n, s, set)
  OBVIOUS
<1>3. IsKeepLoop(k, n, s, set)
  BY <1>2, KeepLoopExists
<1>4. Kept(s, set) = k[n]
  BY <1>1, <1>2 DEF Kept, IsKeepLoop
<1> DEFINE Part(m) == /\ Distinct(k[m])
                      /\ \A x : Among(x, k[m]) <=> x \in set /\ \E i \in 1 .. m : s[i] = x
           T == {m \in Nat : m <= n => Part(m)}
<1>5. 0 \in T
  <2>1. k[0] = <<>>
    BY <1>3 DEF IsKeepLoop
  <2>2. 1 .. 0 = {}
    OBVIOUS
  <2> QED BY <2>1, <2>2, EmptyDistinct
<1>6. ASSUME NEW m \in Nat, m \in T PROVE m + 1 \in T
  <2>1. SUFFICES ASSUME m + 1 <= n PROVE Part(m + 1)
    OBVIOUS
  <2>2. m + 1 \in 0 .. n /\ m + 1 # 0 /\ (m + 1) - 1 = m /\ m <= n
    BY <2>1
  <2>3. k[m + 1] = IF s[m + 1] \in set THEN Append(k[m], s[m + 1]) ELSE k[m]
    BY <1>3, <2>2 DEF IsKeepLoop
  <2>4. Part(m)
    BY <1>6, <2>2
  <2>5. /\ \A i \in 1 .. m + 1 : i \in 1 .. m \/ i = m + 1
        /\ \A i \in 1 .. m : i \in 1 .. m + 1 /\ i \in 1 .. n /\ i # m + 1
        /\ m + 1 \in 1 .. m + 1 /\ m + 1 \in 1 .. n
    BY <2>1
  <2>6. CASE s[m + 1] \in set
    <3>1. ~Among(s[m + 1], k[m])
      BY <1>1, <2>4, <2>5 DEF Distinct
    <3>2. /\ Distinct(k[m + 1])
          /\ \A y : Among(y, k[m + 1]) <=> Among(y, k[m]) \/ y = s[m + 1]
      BY <2>3, <2>4, <2>6, <3>1, DistinctAppend
    <3> QED BY <2>4, <2>5, <2>6, <3>2
  <2>7. CASE s[m + 1] \notin set
    BY <2>3, <2>4, <2>5, <2>7
  <2> QED BY <2>6, <2>7
<1> HIDE DEF T
<1>7. n \in T
  BY <1>5, <1>6, SetInduction
<1>8. Part(n)
  BY <1>7 DEF T
<1> QED BY <1>1, <1>4, <1>8 DEF Among

\* Timer::test over a part of the queue: what is live stays in it once, and what has
\* expired is signalled once.
LEMMA QueueTested ==
    ASSUME NEW q, Distinct(q), NEW live, NEW expired
    PROVE  /\ Distinct(Rotated(q, TimerTestLimit, live))
           /\ \A x : Among(x, Rotated(q, TimerTestLimit, live)) => Among(x, q)
           /\ \A x \in live : Among(x, q) => Among(x, Rotated(q, TimerTestLimit, live))
           /\ Distinct(Signalled(q, TimerTestLimit, live, expired))
           /\ \A x : Among(x, Signalled(q, TimerTestLimit, live, expired))
                        <=> Among(x, Tested(q, TimerTestLimit)) /\ x \in live \cap expired
           /\ \A x : Among(x, Tested(q, TimerTestLimit)) => Among(x, q)
           /\ IsSeq(Tested(q, TimerTestLimit))
<1>1. PICK n : n = MaxIters(q, TimerTestLimit)
  OBVIOUS
<1>2. n \in 0 .. Len(q)
  BY <1>1, ConnectionAssumption, IsSeqLen DEF MaxIters, Distinct
<1>3. PICK a, b : a = Tested(q, TimerTestLimit) /\ b = Untested(q, TimerTestLimit)
  OBVIOUS
<1>4. /\ Distinct(a) /\ Distinct(b) /\ \A x : ~(Among(x, a) /\ Among(x, b))
      /\ \A x : Among(x, q) <=> Among(x, a) \/ Among(x, b)
  BY <1>1, <1>2, <1>3, DistinctCut DEF Tested, Untested
<1>5. PICK kept : kept = Kept(a, live)
  OBVIOUS
<1>6. Distinct(kept) /\ \A x : Among(x, kept) <=> Among(x, a) /\ x \in live
  BY <1>4, <1>5, KeptIs
<1>7. Distinct(b \o kept) /\ \A x : Among(x, b \o kept) <=> Among(x, b) \/ Among(x, kept)
  BY <1>4, <1>6, DistinctConcat
<1>8. Rotated(q, TimerTestLimit, live) = b \o kept
  BY <1>3, <1>5 DEF Rotated
<1>9. /\ Distinct(Signalled(q, TimerTestLimit, live, expired))
      /\ \A x : Among(x, Signalled(q, TimerTestLimit, live, expired))
                   <=> Among(x, a) /\ x \in live \cap expired
  BY <1>3, <1>4, KeptIs DEF Signalled
<1>10. IsSeq(a)
  BY <1>4 DEF Distinct
<1> QED BY <1>3, <1>4, <1>6, <1>7, <1>8, <1>9, <1>10

-----------------------------------------------------------------------------
(* The server's peers, its table and its queues *)

PeerFields == {"addr", "ep", "events", "held", "sent"}

\* Every peer that something refers to is as EndpointProofs finds an endpoint between two
\* calls, its application has been told of one connection, and it has its place in the table
\* until it is a zombie.
PeersOK(ps, tbl, frd) ==
    \A p \in DOMAIN ps :
        /\ DOMAIN ps[p] = PeerFields /\ ps[p].addr \in Client /\ ps[p].held \in BOOLEAN
        /\ LiveIn(ps, tbl, frd, p) =>
              /\ Resting(ps[p].ep, Among(p, frd))
              /\ EventsOK(ps[p].events, ps[p].ep)
              /\ tbl[ps[p].addr] = p <=> ps[p].ep.state_id # "Zombie"

\* The others are gone.
GoneOK(ps, tbl, frd) ==
    \A p \in DOMAIN ps : ~LiveIn(ps, tbl, frd, p) => ps[p] = PeerNew(ps[p].addr)

\* An entry of the table is a peer of its address.
EntriesOK(ps, tbl) ==
    /\ DOMAIN tbl = Client
    /\ \A c \in Client : tbl[c] # 0 => tbl[c] \in DOMAIN ps /\ ps[tbl[c]].addr = c

QueuesOK(ps, tbl, q, frd) ==
    /\ Distinct(q) /\ \A p : Among(p, q) => p \in DOMAIN ps
    /\ Distinct(frd) /\ \A p : Among(p, frd) => p \in DOMAIN ps
    /\ \A p \in DOMAIN ps : LiveIn(ps, tbl, frd, p) => Among(p, q)

\* The server in the middle of a step, when what nothing refers to any more is still there.
SoundOK(ps, tbl, q, frd) ==
    IsSeq(ps) /\ PeersOK(ps, tbl, frd) /\ EntriesOK(ps, tbl) /\ QueuesOK(ps, tbl, q, frd)

ServerOK(ps, tbl, q, frd) == SoundOK(ps, tbl, q, frd) /\ GoneOK(ps, tbl, frd)

LEMMA LiveIs ==
    ASSUME NEW frd, IsSeq(frd), NEW ps, NEW tbl, NEW p
    PROVE  LiveIn(ps, tbl, frd, p)
             <=> ps[p].held \/ tbl[ps[p].addr] = p \/ Among(p, frd)
BY ToSetIs DEF LiveIn

LEMMA FunctionIsSeq ==
    ASSUME NEW n \in Nat, NEW f, f = [i \in 1 .. n |-> f[i]]
    PROVE  IsSeq(f) /\ Len(f) = n
<1>1. PICK X : X = {f[i] : i \in 1 .. n}
  OBVIOUS
<1>2. f \in [1 .. n -> X]
  BY <1>1
<1>3. f \in Seq(X)
  BY <1>2
<1> QED BY <1>2, <1>3 DEF IsSeq

LEMMA PeerNewIs ==
    ASSUME NEW addr
    PROVE  /\ DOMAIN PeerNew(addr) = PeerFields /\ PeerNew(addr).addr = addr
           /\ PeerNew(addr).ep = EndpointNew /\ PeerNew(addr).events = <<>>
           /\ PeerNew(addr).held = FALSE
BY DEF PeerNew, PeerFields

LEMMA DroppedIs ==
    ASSUME NEW ps, NEW tbl, NEW frd, NEW p \in DOMAIN ps
    PROVE  /\ Dropped(ps, tbl, frd)[p].addr = ps[p].addr
           /\ LiveIn(ps, tbl, frd, p) => Dropped(ps, tbl, frd)[p] = ps[p]
           /\ ~LiveIn(ps, tbl, frd, p) => Dropped(ps, tbl, frd)[p] = PeerNew(ps[p].addr)
BY DEF Dropped, PeerNew

\* The end of a step that lets go of references.
LEMMA DroppedOK ==
    ASSUME NEW ps, NEW tbl, NEW q, NEW frd, SoundOK(ps, tbl, q, frd)
    PROVE  ServerOK(Dropped(ps, tbl, frd), tbl, q, frd)
<1>1. PICK n \in Nat : DOMAIN ps = 1 .. n
  BY IsSeqLen DEF SoundOK
<1>2. PICK new : new = Dropped(ps, tbl, frd)
  OBVIOUS
<1>3. DOMAIN new = DOMAIN ps /\ IsSeq(new)
  <2>1. new = [p \in 1 .. n |-> new[p]]
    BY <1>1, <1>2 DEF Dropped
  <2> QED BY <1>1, <2>1, FunctionIsSeq
<1>4. ASSUME NEW p \in DOMAIN ps
      PROVE  /\ new[p].addr = ps[p].addr
             /\ LiveIn(ps, tbl, frd, p) => new[p] = ps[p]
             /\ ~LiveIn(ps, tbl, frd, p) => new[p] = PeerNew(ps[p].addr)
  BY <1>2, DroppedIs
<1>5. IsSeq(frd)
  BY DEF SoundOK, QueuesOK, Distinct
<1>6. ASSUME NEW p \in DOMAIN ps
      PROVE  LiveIn(new, tbl, frd, p) <=> LiveIn(ps, tbl, frd, p)
  <2>1. CASE LiveIn(ps, tbl, frd, p)
    BY <1>4, <1>5, <2>1, LiveIs
  <2>2. CASE ~LiveIn(ps, tbl, frd, p)
    <3>1. new[p].held = FALSE /\ new[p].addr = ps[p].addr
      <4>1. new[p] = PeerNew(ps[p].addr)
        BY <1>4, <2>2
      <4> QED BY <4>1, PeerNewIs
    <3> QED BY <1>5, <2>2, <3>1, LiveIs
  <2> QED BY <2>1, <2>2
<1>7. PeersOK(new, tbl, frd)
  <2>1. ASSUME NEW p \in DOMAIN ps
        PROVE  /\ DOMAIN new[p] = PeerFields /\ new[p].addr \in Client
               /\ new[p].held \in BOOLEAN
    <3>1. DOMAIN ps[p] = PeerFields /\ ps[p].addr \in Client /\ ps[p].held \in BOOLEAN
      BY DEF SoundOK, PeersOK
    <3>2. CASE LiveIn(ps, tbl, frd, p)
      BY <1>4, <3>1, <3>2
    <3>3. CASE ~LiveIn(ps, tbl, frd, p)
      <4>1. new[p] = PeerNew(ps[p].addr)
        BY <1>4, <3>3
      <4>2. DOMAIN new[p] = PeerFields /\ new[p].addr = ps[p].addr /\ new[p].held = FALSE
        BY <4>1, PeerNewIs
      <4> QED BY <3>1, <4>2
    <3> QED BY <3>2, <3>3
  <2>2. ASSUME NEW p \in DOMAIN ps, LiveIn(new, tbl, frd, p)
        PROVE  /\ Resting(new[p].ep, Among(p, frd))
               /\ EventsOK(new[p].events, new[p].ep)
               /\ tbl[new[p].addr] = p <=> new[p].ep.state_id # "Zombie"
    <3>1. LiveIn(ps, tbl, frd, p) /\ new[p] = ps[p]
      BY <1>4, <1>6, <2>2
    <3> QED BY <3>1 DEF SoundOK, PeersOK
  <2> QED BY <1>3, <2>1, <2>2 DEF PeersOK
<1>8. EntriesOK(new, tbl)
  BY <1>3, <1>4 DEF SoundOK, EntriesOK
<1>9. QueuesOK(new, tbl, q, frd)
  BY <1>3, <1>6 DEF SoundOK, QueuesOK
<1>10. GoneOK(new, tbl, frd)
  BY <1>3, <1>4, <1>6 DEF GoneOK
<1> QED BY <1>2, <1>3, <1>7, <1>8, <1>9, <1>10 DEF SoundOK, ServerOK

\* A call on a peer that something refers to.
LEMMA PeerReplaced ==
    ASSUME NEW ps, NEW tbl, NEW q, NEW frd, ServerOK(ps, tbl, q, frd),
           NEW p \in DOMAIN ps, LiveIn(ps, tbl, frd, p),
           NEW peer, DOMAIN peer = PeerFields, peer.addr = ps[p].addr,
           peer.held \in BOOLEAN, ps[p].held => peer.held,
           Resting(peer.ep, Among(p, frd)), EventsOK(peer.events, peer.ep),
           peer.ep.state_id = "Zombie" <=> ps[p].ep.state_id = "Zombie"
    PROVE  ServerOK([ps EXCEPT ![p] = peer], tbl, q, frd)
<1>1. PICK n \in Nat : DOMAIN ps = 1 .. n
  BY IsSeqLen DEF ServerOK, SoundOK
<1>2. PICK new : new = [ps EXCEPT ![p] = peer]
  OBVIOUS
<1>3. /\ DOMAIN new = DOMAIN ps /\ new[p] = peer
      /\ \A r \in DOMAIN ps : r # p => new[r] = ps[r]
  BY <1>2
<1>4. IsSeq(new)
  <2>1. new = [r \in 1 .. n |-> new[r]]
    BY <1>1, <1>2
  <2> QED BY <2>1, FunctionIsSeq
<1>5. IsSeq(frd) /\ SoundOK(ps, tbl, q, frd) /\ GoneOK(ps, tbl, frd)
  BY DEF ServerOK, SoundOK, QueuesOK, Distinct
<1>6. LiveIn(new, tbl, frd, p)
  BY <1>3, <1>5, LiveIs
<1>7. ASSUME NEW r \in DOMAIN ps, r # p
      PROVE  LiveIn(new, tbl, frd, r) <=> LiveIn(ps, tbl, frd, r)
  BY <1>3, <1>7 DEF LiveIn
<1>8. \A r \in DOMAIN ps : new[r].addr = ps[r].addr
  BY <1>3
<1>9. PeersOK(new, tbl, frd)
  <2>1. ASSUME NEW r \in DOMAIN ps, r # p
        PROVE  /\ DOMAIN new[r] = PeerFields /\ new[r].addr \in Client
               /\ new[r].held \in BOOLEAN
               /\ LiveIn(new, tbl, frd, r) =>
                     /\ Resting(new[r].ep, Among(r, frd))
                     /\ EventsOK(new[r].events, new[r].ep)
                     /\ tbl[new[r].addr] = r <=> new[r].ep.state_id # "Zombie"
    BY <1>3, <1>5, <1>7, <2>1 DEF SoundOK, PeersOK
  <2>2. peer.addr \in Client /\ (tbl[peer.addr] = p <=> peer.ep.state_id # "Zombie")
    BY <1>5 DEF SoundOK, PeersOK
  <2> QED BY <1>3, <2>1, <2>2 DEF PeersOK
<1>10. EntriesOK(new, tbl)
  BY <1>3, <1>5, <1>8 DEF SoundOK, EntriesOK
<1>11. QueuesOK(new, tbl, q, frd)
  BY <1>3, <1>5, <1>7 DEF SoundOK, QueuesOK
<1>12. GoneOK(new, tbl, frd)
  BY <1>3, <1>5, <1>6, <1>7 DEF GoneOK
<1> QED BY <1>2, <1>4, <1>9, <1>10, <1>11, <1>12 DEF ServerOK, SoundOK

\* What is kept of a peer after a call on its endpoint, whose outcome is new.
PeerGoesOn(s, peer, new, handling) ==
    /\ DOMAIN s = PeerFields /\ s.addr = peer.addr
    /\ s.held \in BOOLEAN /\ (peer.held => s.held)
    /\ Resting(s.ep, handling) /\ s.ep.state_id = new.state_id
    /\ EventsOK(s.events, s.ep)

LEMMA SettledOK ==
    ASSUME NEW peer, DOMAIN peer = PeerFields, peer.held \in BOOLEAN,
           NEW old, EventsOK(peer.events, old),
           NEW new, NEW handling, Outcome(old, new, handling, TRUE)
    PROVE  PeerGoesOn(Settled(peer, new), peer, new, handling)
<1>1. PICK e : e = [new EXCEPT !.frames = <<>>, !.events = <<>>]
  OBVIOUS
<1>2. Resting(e, handling) /\ e.state_id = new.state_id
  BY <1>1, EmptiedRests
<1>3. PICK all : all = peer.events \o new.events
  OBVIOUS
<1>4. EventsOK(all, new)
  BY <1>3, EventsAdded
<1>5. PICK held \in BOOLEAN : held = (peer.held \/ new.events # <<>>)
  OBVIOUS
<1>6. PICK s : s = Settled(peer, new)
  OBVIOUS
<1>7. s = [peer EXCEPT !.ep = e, !.events = all, !.held = held]
  BY <1>1, <1>3, <1>5, <1>6 DEF Settled, Emptied, PeerFields
<1>8. /\ DOMAIN s = PeerFields /\ s.addr = peer.addr
      /\ s.ep = e /\ s.events = all /\ s.held = held
  BY <1>7 DEF PeerFields
<1>9. EventsOK(s.events, s.ep)
  BY <1>2, <1>4, <1>8 DEF EventsOK, Ended
<1> QED BY <1>2, <1>5, <1>6, <1>8, <1>9 DEF PeerGoesOn

LEMMA PeerIs ==
    ASSUME NEW ps, NEW tbl, NEW q, NEW frd, ServerOK(ps, tbl, q, frd), NEW p \in DOMAIN ps
    PROVE  /\ DOMAIN ps[p] = PeerFields /\ ps[p].addr \in Client /\ ps[p].held \in BOOLEAN
           /\ ps[p].held => LiveIn(ps, tbl, frd, p)
           /\ LiveIn(ps, tbl, frd, p) =>
                 Resting(ps[p].ep, Among(p, frd)) /\ EventsOK(ps[p].events, ps[p].ep)
           /\ Among(p, frd) \in BOOLEAN
BY DEF ServerOK, SoundOK, PeersOK, LiveIn, Among

\* A call that starts from the endpoint old, which is the peer's own or that with one more
\* packet in its buffers.
LEMMA PeerCalled ==
    ASSUME NEW ps, NEW tbl, NEW q, NEW frd, ServerOK(ps, tbl, q, frd),
           NEW p \in DOMAIN ps, LiveIn(ps, tbl, frd, p),
           NEW old, old.state_id = ps[p].ep.state_id,
           NEW new, Outcome(old, new, Among(p, frd), TRUE),
           new.state_id = "Zombie" <=> old.state_id = "Zombie", NEW sent
    PROVE  /\ ServerOK([ps EXCEPT ![p] = Settled(ps[p], new)], tbl, q, frd)
           /\ ServerOK([ps EXCEPT ![p] = [Settled(ps[p], new) EXCEPT !.sent = sent]], tbl, q, frd)
<1>1. PICK peer : peer = ps[p]
  OBVIOUS
<1>2. /\ DOMAIN peer = PeerFields /\ peer.held \in BOOLEAN
      /\ EventsOK(peer.events, peer.ep)
  BY <1>1, PeerIs
<1>3. EventsOK(peer.events, old)
  BY <1>1, <1>2 DEF EventsOK, Ended
<1>4. PICK s : s = Settled(peer, new)
  OBVIOUS
<1>5. PICK r : r = [s EXCEPT !.sent = sent]
  OBVIOUS
<1>6. /\ DOMAIN s = PeerFields /\ s.addr = peer.addr
      /\ s.held \in BOOLEAN /\ (peer.held => s.held)
      /\ Resting(s.ep, Among(p, frd)) /\ s.ep.state_id = new.state_id
      /\ EventsOK(s.events, s.ep)
  <2>1. PICK handling : handling = Among(p, frd)
    OBVIOUS
  <2>2. Outcome(old, new, handling, TRUE)
    BY <2>1
  <2>3. PeerGoesOn(Settled(peer, new), peer, new, handling)
    BY <1>2, <1>3, <2>2, SettledOK
  <2> QED BY <1>4, <2>1, <2>3 DEF PeerGoesOn
<1>7. /\ DOMAIN r = PeerFields /\ r.addr = s.addr /\ r.held = s.held /\ r.ep = s.ep
      /\ r.events = s.events
  BY <1>5, <1>6 DEF PeerFields
<1>8. /\ s.addr = ps[p].addr /\ (ps[p].held => s.held)
      /\ s.ep.state_id = "Zombie" <=> ps[p].ep.state_id = "Zombie"
  BY <1>1, <1>6
<1>9. ServerOK([ps EXCEPT ![p] = s], tbl, q, frd)
  BY <1>6, <1>8, PeerReplaced
<1>10. /\ r.addr = ps[p].addr /\ r.held \in BOOLEAN /\ (ps[p].held => r.held)
       /\ Resting(r.ep, Among(p, frd)) /\ EventsOK(r.events, r.ep)
       /\ r.ep.state_id = "Zombie" <=> ps[p].ep.state_id = "Zombie"
  BY <1>6, <1>7, <1>8
<1>11. ServerOK([ps EXCEPT ![p] = r], tbl, q, frd)
  BY <1>7, <1>10, PeerReplaced
<1> QED BY <1>1, <1>4, <1>5, <1>9, <1>11

\* A call that only changes the endpoint and the number of packets.
LEMMA PeerFilled ==
    ASSUME NEW ps, NEW tbl, NEW q, NEW frd, ServerOK(ps, tbl, q, frd),
           NEW p \in DOMAIN ps, LiveIn(ps, tbl, frd, p),
           NEW e, Resting(e, Among(p, frd)), e.state_id = ps[p].ep.state_id, NEW sent
    PROVE  ServerOK([ps EXCEPT ![p] = [ps[p] EXCEPT !.sent = sent, !.ep = e]], tbl, q, frd)
<1>1. PICK peer : peer = ps[p]
  OBVIOUS
<1>2. /\ DOMAIN peer = PeerFields /\ peer.held \in BOOLEAN
      /\ EventsOK(peer.events, peer.ep)
  BY <1>1, PeerIs
<1>3. PICK r : r = [peer EXCEPT !.sent = sent, !.ep = e]
  OBVIOUS
<1>4. /\ DOMAIN r = PeerFields /\ r.addr = peer.addr /\ r.held = peer.held /\ r.ep = e
      /\ r.events = peer.events
  BY <1>2, <1>3 DEF PeerFields
<1>5. EventsOK(r.events, r.ep)
  BY <1>1, <1>2, <1>4 DEF EventsOK, Ended
<1>6. /\ r.addr = ps[p].addr /\ r.held \in BOOLEAN /\ (ps[p].held => r.held)
      /\ Resting(r.ep, Among(p, frd))
      /\ r.ep.state_id = "Zombie" <=> ps[p].ep.state_id = "Zombie"
  BY <1>1, <1>2, <1>4
<1>7. ServerOK([ps EXCEPT ![p] = r], tbl, q, frd)
  BY <1>4, <1>5, <1>6, PeerReplaced
<1> QED BY <1>1, <1>3, <1>7

-----------------------------------------------------------------------------
(* The steps of the server *)

ServerSound == ServerOK(peers, table, queue, fired)

\* What a step sends to clients are frames of endpoints.
SentOK == \A m \in down' : m \in down \/ (m[1] \in Client /\ FrameOK(m[2]))

LEMMA OutcomeSent ==
    ASSUME NEW addr \in Client, NEW old, NEW new, NEW handling, NEW agreed,
           Outcome(old, new, handling, agreed), SendDown(addr, SeqExt!ToSet(new.frames))
    PROVE  SentOK
<1>1. PICK frames : frames = new.frames
  OBVIOUS
<1>2. IsSeq(frames) /\ \A i \in 1 .. Len(frames) : FrameOK(frames[i])
  BY <1>1 DEF Outcome
<1>3. \A f \in SeqExt!ToSet(frames) : FrameOK(f)
  BY <1>2, ToSetIs DEF Among
<1>4. ASSUME NEW m \in down', m \notin down PROVE m[1] \in Client /\ FrameOK(m[2])
  <2>1. PICK f \in SeqExt!ToSet(frames) : m = <<addr, f>>
    BY <1>1, <1>4 DEF SendDown
  <2> QED BY <1>3, <2>1
<1> QED BY <1>4 DEF SentOK

LEMMA PeerBecomesOK ==
    ASSUME ServerSound, NEW p \in DOMAIN peers, Live(p),
           NEW new, Outcome(peers[p].ep, new, Among(p, fired), TRUE),
           new.state_id = "Zombie" <=> peers[p].ep.state_id = "Zombie",
           PeerBecomes(p, new), UNCHANGED <<table, queue, fired>>
    PROVE  ServerSound' /\ SentOK
<1>1. ServerOK(peers, table, queue, fired) /\ LiveIn(peers, table, fired, p)
  BY DEF ServerSound, Live
<1>2. PICK old : old = peers[p].ep
  OBVIOUS
<1>3. /\ peers' = [peers EXCEPT ![p] = Settled(peers[p], new)]
      /\ SendDown(peers[p].addr, SeqExt!ToSet(new.frames))
  BY DEF PeerBecomes
<1>4. ServerOK([peers EXCEPT ![p] = Settled(peers[p], new)], table, queue, fired)
  BY <1>1, PeerCalled
<1>5. ServerSound'
  BY <1>3, <1>4 DEF ServerSound
<1>6. peers[p].addr \in Client
  BY <1>1, PeerIs
<1>7. SentOK
  BY <1>3, <1>6, OutcomeSent
<1> QED BY <1>5, <1>7

LEMMA PeerFlushOK ==
    ASSUME ServerSound, NEW p \in DOMAIN peers, PeerFlush(p)
    PROVE  ServerSound' /\ SentOK
<1>1. PICK nonces \in Nonces : PeerBecomes(p, EndpointFlush(peers[p].ep, nonces, server.now_ms))
  BY DEF PeerFlush
<1>2. Live(p) /\ Resting(peers[p].ep, Among(p, fired))
  BY PeerIs DEF PeerFlush, ServerSound, Live
<1>3. PICK new : new = EndpointFlush(peers[p].ep, nonces, server.now_ms)
  OBVIOUS
<1>4. /\ Outcome(peers[p].ep, new, Among(p, fired), TRUE)
      /\ new.state_id = peers[p].ep.state_id
  BY <1>2, <1>3, FlushOutcome, FlushNoZombie
<1>5. PeerBecomes(p, new) /\ UNCHANGED <<table, queue, fired>>
  BY <1>1, <1>3 DEF PeerFlush
<1> QED BY <1>2, <1>4, <1>5, PeerBecomesOK

LEMMA PeerDisconnectOK ==
    ASSUME ServerSound, NEW p \in DOMAIN peers, PeerDisconnect(p)
    PROVE  ServerSound' /\ SentOK
<1>1. Live(p) /\ Resting(peers[p].ep, Among(p, fired))
  BY PeerIs DEF PeerDisconnect, ServerSound, Live
<1>2. PICK new : new = EndpointDisconnect(peers[p].ep)
  OBVIOUS
<1>3. /\ Outcome(peers[p].ep, new, Among(p, fired), TRUE)
      /\ new.state_id = "Zombie" <=> peers[p].ep.state_id = "Zombie"
  BY <1>1, <1>2, DisconnectOutcome, DisconnectNoZombie
<1>4. PeerBecomes(p, new) /\ UNCHANGED <<table, queue, fired>>
  BY <1>2 DEF PeerDisconnect
<1> QED BY <1>1, <1>3, <1>4, PeerBecomesOK

LEMMA ServerHandleOtherOK ==
    ASSUME ServerSound, fired = <<>>, NEW addr \in Client, NEW frame, FrameOK(frame),
           ServerHandleOther(addr, frame), UNCHANGED fired
    PROVE  ServerSound' /\ SentOK
<1>1. PICK p : p = table[addr]
  OBVIOUS
<1>2. p \in DOMAIN peers /\ Live(p)
  BY <1>1 DEF ServerHandleOther, ServerSound, ServerOK, SoundOK, EntriesOK, Live, LiveIn
<1>3. ~Among(p, fired)
  BY EmptyDistinct
<1>4. PICK nonces \in Nonces :
         PeerBecomes(p, HandleFrame(peers[p].ep, frame, nonces, peers[p].ep.rto_ms,
                                    server.now_ms))
  BY <1>1 DEF ServerHandleOther
<1>5. Resting(peers[p].ep, Among(p, fired))
  BY <1>2, PeerIs DEF ServerSound, Live
<1>6. Resting(peers[p].ep, FALSE) /\ Among(p, fired) = FALSE
  <2>1. Among(p, fired) = FALSE
    BY <1>3 DEF Among
  <2> QED BY <1>5, <2>1
<1>7. PICK rto \in RtoMin .. RtoMax : rto = peers[p].ep.rto_ms
  BY <1>6 DEF Resting, PartsOK
<1>8. PICK new : new = HandleFrame(peers[p].ep, frame, nonces, rto, server.now_ms)
  OBVIOUS
<1>9. /\ Outcome(peers[p].ep, new, FALSE, TRUE)
      /\ new.state_id = "Zombie" <=> peers[p].ep.state_id = "Zombie"
  <2>1. PICK e, now : e = peers[p].ep /\ now = server.now_ms
    OBVIOUS
  <2>2. Resting(e, FALSE) /\ new = HandleFrame(e, frame, nonces, rto, now)
    BY <1>6, <1>8, <2>1
  <2>3. Outcome(e, HandleFrame(e, frame, nonces, rto, now), FALSE, TRUE)
    BY <2>2, HandleFrameOutcome
  <2>4. HandleFrame(e, frame, nonces, rto, now).state_id = "Zombie" <=> e.state_id = "Zombie"
    BY <2>2, HandleFrameNoZombie
  <2> QED BY <2>1, <2>2, <2>3, <2>4
<1>10. Outcome(peers[p].ep, new, Among(p, fired), TRUE)
  BY <1>6, <1>9
<1>11. PeerBecomes(p, new) /\ UNCHANGED <<table, queue, fired>>
  BY <1>4, <1>7, <1>8 DEF ServerHandleOther
<1> QED BY <1>2, <1>9, <1>10, <1>11, PeerBecomesOK

LEMMA PeerEnqueueOK ==
    ASSUME ServerSound, NEW p \in DOMAIN peers, PeerEnqueue(p)
    PROVE  ServerSound'
<1>1. /\ Live(p) /\ Resting(peers[p].ep, Among(p, fired)) /\ DOMAIN peers[p] = PeerFields
  BY PeerIs DEF PeerEnqueue, ServerSound, Live
<1>2. PICK packet : packet = plan.peer_packets[peers[p].addr][peers[p].sent + 1]
  OBVIOUS
<1>3. PICK e : e = EndpointEnqueue(peers[p].ep, packet, TRUE, 0)
  OBVIOUS
<1>4. Resting(e, Among(p, fired)) /\ e.state_id = peers[p].ep.state_id
  <2>1. PICK old, handling, sure : old = peers[p].ep /\ handling = Among(p, fired) /\ sure = TRUE
    OBVIOUS
  <2>2. Resting(old, handling) /\ e = EndpointEnqueue(old, packet, sure, 0)
    BY <1>1, <1>3, <2>1
  <2>3. Resting(e, handling) /\ e.state_id = old.state_id
    BY <2>2, EnqueueRests
  <2> QED BY <2>1, <2>3
<1>5. PICK sent : sent = peers[p].sent + 1
  OBVIOUS
<1>6. peers' = [peers EXCEPT ![p] = [peers[p] EXCEPT !.sent = sent, !.ep = e]]
  <2>1. peers' = [peers EXCEPT ![p].sent = peers[p].sent + 1,
                     ![p].ep = EndpointEnqueue(peers[p].ep, packet, TRUE, 0)]
    BY <1>1, <1>2 DEF PeerEnqueue, PeerFields
  <2> QED BY <1>1, <1>3, <1>5, <2>1 DEF PeerFields
<1>7. ServerOK(peers', table, queue, fired)
  BY <1>1, <1>4, <1>6, PeerFilled DEF ServerSound, Live
<1> QED BY <1>7 DEF ServerSound, PeerEnqueue

LEMMA PeerSendOK ==
    ASSUME ServerSound, NEW p \in DOMAIN peers, PeerSend(p)
    PROVE  ServerSound' /\ SentOK
<1>1. /\ Live(p) /\ Resting(peers[p].ep, Among(p, fired)) /\ DOMAIN peers[p] = PeerFields
      /\ peers[p].addr \in Client
  BY PeerIs DEF PeerSend, ServerSound, Live
<1>2. PICK packet : packet = plan.peer_packets[peers[p].addr][peers[p].sent + 1]
  OBVIOUS
<1>3. PICK e : e = EndpointEnqueue(peers[p].ep, packet, TRUE, 0)
  OBVIOUS
<1>4. Resting(e, Among(p, fired)) /\ e.state_id = peers[p].ep.state_id
  <2>1. PICK old, handling, sure : old = peers[p].ep /\ handling = Among(p, fired) /\ sure = TRUE
    OBVIOUS
  <2>2. Resting(old, handling) /\ e = EndpointEnqueue(old, packet, sure, 0)
    BY <1>1, <1>3, <2>1
  <2>3. Resting(e, handling) /\ e.state_id = old.state_id
    BY <2>2, EnqueueRests
  <2> QED BY <2>1, <2>3
<1>5. PICK nonces \in Nonces : 
         \E ep \in {EndpointFlush(e, nonces, server.now_ms)} :
              /\ peers' = [peers EXCEPT ![p] = [Settled(peers[p], ep) EXCEPT !.sent = @ + 1]]
              /\ SendDown(peers[p].addr, SeqExt!ToSet(ep.frames))
  BY <1>2, <1>3 DEF PeerSend
<1>6. PICK new : new = EndpointFlush(e, nonces, server.now_ms)
  OBVIOUS
<1>7. /\ Outcome(e, new, Among(p, fired), TRUE)
      /\ new.state_id = e.state_id
  BY <1>4, <1>6, FlushOutcome, FlushNoZombie
<1>8. /\ peers' = [peers EXCEPT ![p] = [Settled(peers[p], new) EXCEPT !.sent = @ + 1]]
      /\ SendDown(peers[p].addr, SeqExt!ToSet(new.frames))
  BY <1>5, <1>6
<1>9. PICK s : s = Settled(peers[p], new)
  OBVIOUS
<1>10. PICK sent : [s EXCEPT !.sent = @ + 1] = [s EXCEPT !.sent = sent]
  BY <1>1, <1>9 DEF Settled, PeerFields
<1>11. ServerOK([peers EXCEPT ![p] = [Settled(peers[p], new) EXCEPT !.sent = sent]],
               table, queue, fired)
  BY <1>1, <1>4, <1>7, PeerCalled DEF ServerSound, Live
<1>12. ServerOK(peers', table, queue, fired)
  BY <1>8, <1>9, <1>10, <1>11
<1>13. SentOK
  BY <1>1, <1>7, <1>8, OutcomeSent
<1> QED BY <1>12, <1>13 DEF ServerSound, PeerSend

LEMMA NewPeerOK ==
    ASSUME NEW addr \in Client
    PROVE  LET s == Settled(PeerNew(addr), EndpointInit(EndpointNew))
           IN  /\ DOMAIN s = PeerFields /\ s.addr = addr /\ s.held = TRUE
               /\ Resting(s.ep, FALSE) /\ s.ep.state_id = "Active"
               /\ EventsOK(s.events, s.ep)
<1>1. PICK new : new = EndpointInit(EndpointNew)
  OBVIOUS
<1>2. PICK told : told = <<[kind |-> "Connect"]>>
  OBVIOUS
<1>3. Sending(new, FALSE, told)
  BY <1>1, <1>2, InitSends
<1>4. PICK e : e = [new EXCEPT !.frames = <<>>, !.events = <<>>]
  OBVIOUS
<1>5. Resting(e, FALSE) /\ e.state_id = "Active"
  BY <1>3, <1>4, SendingRests
<1>6. new.events = told
  BY <1>3 DEF Sending
<1>7. EventsOK(told, e)
  <2>1. ~Ended(e)
    BY <1>5 DEF Ended
  <2> QED BY <1>2, <2>1, ConnectOK
<1>8. <<>> \o told = told /\ told # <<>>
  BY <1>2
<1>9. PICK peer : peer = PeerNew(addr)
  OBVIOUS
<1>10. /\ DOMAIN peer = PeerFields /\ peer.addr = addr /\ peer.events = <<>>
       /\ peer.held = FALSE
  BY <1>9, PeerNewIs
<1>11. PICK s : s = Settled(peer, new)
  OBVIOUS
<1>12. peer.events \o new.events = told /\ (peer.held \/ new.events # <<>>) = TRUE
  BY <1>6, <1>8, <1>10
<1>13. s = [peer EXCEPT !.ep = e, !.events = told, !.held = TRUE]
  <2>1. s = [peer EXCEPT !.ep = e, !.events = peer.events \o new.events,
                         !.held = peer.held \/ new.events # <<>>]
    BY <1>4, <1>10, <1>11 DEF Settled, Emptied, PeerFields
  <2> QED BY <1>12, <2>1
<1>14. /\ DOMAIN s = PeerFields /\ s.addr = addr /\ s.held = TRUE
       /\ s.ep = e /\ s.events = told
  BY <1>10, <1>13 DEF PeerFields
<1> QED BY <1>1, <1>5, <1>7, <1>9, <1>11, <1>14

LEMMA CreatedOK ==
    ASSUME NEW ps, NEW tbl, NEW q, NEW frd, ServerOK(ps, tbl, q, frd),
           NEW addr \in Client, tbl[addr] = 0, NEW s,
           DOMAIN s = PeerFields, s.addr = addr, s.held = TRUE, Resting(s.ep, FALSE),
           s.ep.state_id = "Active", EventsOK(s.events, s.ep)
    PROVE  ServerOK(Append(ps, s), [tbl EXCEPT ![addr] = Len(ps) + 1],
                    AddTimer(q, Len(ps) + 1), frd)
<1>1. /\ IsSeq(ps) /\ PeersOK(ps, tbl, frd) /\ EntriesOK(ps, tbl)
      /\ QueuesOK(ps, tbl, q, frd) /\ GoneOK(ps, tbl, frd)
  BY DEF ServerOK, SoundOK
<1>2. PICK n \in Nat : n = Len(ps) /\ DOMAIN ps = 1 .. n
  BY <1>1, IsSeqLen
<1>3. PICK p \in Nat : p = n + 1 /\ p \notin 1 .. n /\ p # 0
  OBVIOUS
<1>4. PICK new : new = Append(ps, s)
  OBVIOUS
<1>5. /\ IsSeq(new) /\ DOMAIN new = 1 .. p /\ new[p] = s /\ \A r \in 1 .. n : new[r] = ps[r]
  BY <1>1, <1>2, <1>3, <1>4, IsSeqAppend, IsSeqLen
<1>6. /\ p \in 1 .. p /\ \A r \in 1 .. p : r \in 1 .. n \/ r = p
      /\ \A r \in 1 .. n : r \in 1 .. p /\ r # p /\ r # 0
  BY <1>3
<1>7. PICK tb : tb = [tbl EXCEPT ![addr] = p]
  OBVIOUS
<1>8. /\ DOMAIN tb = Client /\ tb[addr] = p
      /\ \A c \in Client : c # addr => tb[c] = tbl[c]
  BY <1>1, <1>7 DEF EntriesOK
<1>9. PICK qu : qu = Append(q, p)
  OBVIOUS
<1>10. ~Among(p, q) /\ ~Among(p, frd) /\ Distinct(q) /\ IsSeq(frd)
  BY <1>1, <1>2, <1>3 DEF QueuesOK, Distinct
<1>11. Distinct(qu) /\ \A r : Among(r, qu) <=> Among(r, q) \/ r = p
  BY <1>9, <1>10, DistinctAppend
<1>12. ASSUME NEW r \in 1 .. n
       PROVE  LiveIn(new, tb, frd, r) <=> LiveIn(ps, tbl, frd, r)
  <2>1. ps[r].addr \in Client
    BY <1>1, <1>2 DEF PeersOK
  <2>2. tb[ps[r].addr] = r <=> tbl[ps[r].addr] = r
    BY <1>6, <1>8, <2>1
  <2> QED BY <1>5, <2>2 DEF LiveIn
<1>13. LiveIn(new, tb, frd, p)
  BY <1>5 DEF LiveIn
<1>14. PeersOK(new, tb, frd)
  <2>1. ASSUME NEW r \in 1 .. n
        PROVE  /\ DOMAIN new[r] = PeerFields /\ new[r].addr \in Client
               /\ new[r].held \in BOOLEAN
               /\ LiveIn(new, tb, frd, r) =>
                     /\ Resting(new[r].ep, Among(r, frd))
                     /\ EventsOK(new[r].events, new[r].ep)
                     /\ tb[new[r].addr] = r <=> new[r].ep.state_id # "Zombie"
    <3>1. ps[r].addr \in Client
      BY <1>1, <1>2 DEF PeersOK
    <3>2. tb[ps[r].addr] = r <=> tbl[ps[r].addr] = r
      BY <1>6, <1>8, <3>1
    <3> QED BY <1>1, <1>2, <1>5, <1>12, <3>2 DEF PeersOK
  <2>2. Among(p, frd) = FALSE
    BY <1>10 DEF Among
  <2>3. Resting(s.ep, Among(p, frd))
    BY <2>2
  <2>4. /\ DOMAIN new[p] = PeerFields /\ new[p].addr \in Client
        /\ new[p].held \in BOOLEAN
        /\ Resting(new[p].ep, Among(p, frd))
        /\ EventsOK(new[p].events, new[p].ep)
        /\ tb[new[p].addr] = p /\ new[p].ep.state_id # "Zombie"
    BY <1>5, <1>8, <2>3
  <2> QED BY <1>5, <1>6, <2>1, <2>4 DEF PeersOK
<1>15. EntriesOK(new, tb)
  BY <1>1, <1>2, <1>5, <1>6, <1>8 DEF EntriesOK
<1>16. QueuesOK(new, tb, qu, frd)
  BY <1>1, <1>2, <1>5, <1>6, <1>11, <1>12 DEF QueuesOK
<1>17. GoneOK(new, tb, frd)
  BY <1>1, <1>2, <1>5, <1>6, <1>12, <1>13 DEF GoneOK
<1>18. ServerOK(new, tb, qu, frd)
  BY <1>5, <1>14, <1>15, <1>16, <1>17 DEF ServerOK, SoundOK
<1> QED BY <1>2, <1>3, <1>4, <1>7, <1>9, <1>18 DEF AddTimer

LEMMA CreatePeerOK ==
    ASSUME ServerSound, NEW addr \in Client, table[addr] = 0, CreatePeer(addr), UNCHANGED fired
    PROVE  ServerSound'
<1>1. PICK s : s = Settled(PeerNew(addr), EndpointInit(EndpointNew))
  OBVIOUS
<1>2. /\ DOMAIN s = PeerFields /\ s.addr = addr /\ s.held = TRUE
      /\ Resting(s.ep, FALSE) /\ s.ep.state_id = "Active"
      /\ EventsOK(s.events, s.ep)
  BY <1>1, NewPeerOK
<1>3. ServerOK(Append(peers, s), [table EXCEPT ![addr] = Len(peers) + 1],
               AddTimer(queue, Len(peers) + 1), fired)
  BY <1>2, CreatedOK DEF ServerSound
<1> QED BY <1>1, <1>3 DEF CreatePeer, ServerSound

\* A step on a peer after which less may refer to it than before.
LEMMA PeerStepped ==
    ASSUME NEW ps, NEW tbl, NEW q, NEW frd, ServerOK(ps, tbl, q, frd),
           NEW p \in DOMAIN ps, p # 0, LiveIn(ps, tbl, frd, p),
           NEW peer, DOMAIN peer = PeerFields, peer.addr = ps[p].addr, peer.held \in BOOLEAN,
           NEW tb, DOMAIN tb = Client, \A c \in Client : c # ps[p].addr => tb[c] = tbl[c],
           tb[ps[p].addr] = tbl[ps[p].addr] \/ (tbl[ps[p].addr] = p /\ tb[ps[p].addr] = 0),
           NEW fr, Distinct(fr), \A x : Among(x, fr) => Among(x, frd),
           \A x : x # p => (Among(x, fr) <=> Among(x, frd)),
           Resting(peer.ep, Among(p, fr)), EventsOK(peer.events, peer.ep),
           tb[ps[p].addr] = p <=> peer.ep.state_id # "Zombie"
    PROVE  ServerOK(Dropped([ps EXCEPT ![p] = peer], tb, fr), tb, q, fr)
<1>1. /\ IsSeq(ps) /\ PeersOK(ps, tbl, frd) /\ EntriesOK(ps, tbl)
      /\ QueuesOK(ps, tbl, q, frd) /\ GoneOK(ps, tbl, frd)
  BY DEF ServerOK, SoundOK
<1>2. PICK n \in Nat : DOMAIN ps = 1 .. n
  BY <1>1, IsSeqLen
<1>3. PICK new : new = [ps EXCEPT ![p] = peer]
  OBVIOUS
<1>4. /\ DOMAIN new = DOMAIN ps /\ new[p] = peer
      /\ \A r \in DOMAIN ps : r # p => new[r] = ps[r]
  BY <1>3
<1>5. IsSeq(new)
  <2>1. new = [r \in 1 .. n |-> new[r]]
    BY <1>2, <1>3
  <2> QED BY <2>1, FunctionIsSeq
<1>6. \A r \in DOMAIN ps : new[r].addr = ps[r].addr /\ ps[r].addr \in Client /\ r # 0
  BY <1>1, <1>2, <1>4 DEF PeersOK
<1>7. IsSeq(frd) /\ IsSeq(fr)
  BY <1>1 DEF QueuesOK, Distinct
<1>8. \A r \in DOMAIN ps : r # p => (tb[ps[r].addr] = r <=> tbl[ps[r].addr] = r)
  BY <1>6
<1>9. ASSUME NEW r \in DOMAIN ps, LiveIn(new, tb, fr, r) PROVE LiveIn(ps, tbl, frd, r)
  <2>1. CASE r = p
    BY <2>1
  <2>2. CASE r # p
    BY <1>4, <1>7, <1>8, <1>9, <2>2, LiveIs
  <2> QED BY <2>1, <2>2
<1>10. PeersOK(new, tb, fr)
  <2>1. ASSUME NEW r \in DOMAIN ps, r # p
        PROVE  /\ DOMAIN new[r] = PeerFields /\ new[r].addr \in Client
               /\ new[r].held \in BOOLEAN
    BY <1>1, <1>4, <2>1 DEF PeersOK
  <2>2. ASSUME NEW r \in DOMAIN ps, r # p, LiveIn(new, tb, fr, r)
        PROVE  /\ Resting(new[r].ep, Among(r, fr))
               /\ EventsOK(new[r].events, new[r].ep)
               /\ tb[new[r].addr] = r <=> new[r].ep.state_id # "Zombie"
    <3>1. LiveIn(ps, tbl, frd, r)
      BY <1>9, <2>2
    <3>2. /\ Resting(ps[r].ep, Among(r, frd))
          /\ EventsOK(ps[r].events, ps[r].ep)
          /\ tbl[ps[r].addr] = r <=> ps[r].ep.state_id # "Zombie"
      BY <1>1, <3>1 DEF PeersOK
    <3>3. Among(r, fr) = Among(r, frd)
      BY <2>2 DEF Among
    <3>4. new[r] = ps[r]
      BY <1>4, <2>2
    <3>5. Resting(ps[r].ep, Among(r, fr))
      BY <3>2, <3>3
    <3> QED BY <1>8, <2>2, <3>2, <3>4, <3>5
  <2>3. /\ new[p].addr \in Client /\ Resting(new[p].ep, Among(p, fr))
        /\ EventsOK(new[p].events, new[p].ep)
        /\ DOMAIN new[p] = PeerFields /\ new[p].held \in BOOLEAN
        /\ tb[new[p].addr] = p <=> new[p].ep.state_id # "Zombie"
    BY <1>4, <1>6
  <2> QED BY <1>4, <2>1, <2>2, <2>3 DEF PeersOK
<1>11. EntriesOK(new, tb)
  <2>1. ASSUME NEW c \in Client, tb[c] # 0 PROVE tb[c] \in DOMAIN ps /\ ps[tb[c]].addr = c
    BY <1>1, <2>1 DEF EntriesOK
  <2> QED BY <1>4, <1>6, <2>1 DEF EntriesOK
<1>12. QueuesOK(new, tb, q, fr)
  BY <1>1, <1>4, <1>9 DEF QueuesOK
<1>13. SoundOK(new, tb, q, fr)
  BY <1>5, <1>10, <1>11, <1>12 DEF SoundOK
<1> QED BY <1>3, <1>13, DroppedOK

LEMMA DropHandlesOK ==
    ASSUME ServerSound, NEW p \in DOMAIN peers, DropHandles(p)
    PROVE  ServerSound'
<1>1. ServerOK(peers, table, queue, fired) /\ LiveIn(peers, table, fired, p)
  BY DEF ServerSound, DropHandles, LiveIn
<1>2. /\ IsSeq(peers) /\ PeersOK(peers, table, fired) /\ EntriesOK(peers, table)
      /\ QueuesOK(peers, table, queue, fired)
  BY <1>1 DEF ServerOK, SoundOK
<1>3. p # 0 /\ DOMAIN peers[p] = PeerFields
  BY <1>2, IsSeqLen DEF PeersOK
<1>4. PICK peer : peer = [peers[p] EXCEPT !.held = FALSE]
  OBVIOUS
<1>5. /\ DOMAIN peer = PeerFields /\ peer.addr = peers[p].addr /\ peer.held = FALSE
      /\ peer.ep = peers[p].ep /\ peer.events = peers[p].events
  BY <1>3, <1>4 DEF PeerFields
<1>6. /\ Resting(peer.ep, Among(p, fired)) /\ EventsOK(peer.events, peer.ep)
      /\ table[peers[p].addr] = p <=> peer.ep.state_id # "Zombie"
  BY <1>1, <1>2, <1>5 DEF PeersOK
<1>7. DOMAIN table = Client /\ Distinct(fired) /\ peer.held \in BOOLEAN
  BY <1>2, <1>5 DEF EntriesOK, QueuesOK
<1>8. ServerOK(Dropped([peers EXCEPT ![p] = peer], table, fired), table, queue, fired)
  BY <1>1, <1>3, <1>5, <1>6, <1>7, PeerStepped
<1>9. [peers EXCEPT ![p].held = FALSE] = [peers EXCEPT ![p] = peer]
  BY <1>4
<1> QED BY <1>8, <1>9 DEF DropHandles, ServerSound

LEMMA PeerTimerOK ==
    ASSUME ServerSound, PeerTimer
    PROVE  ServerSound' /\ SentOK
<1>1. ServerOK(peers, table, queue, fired) /\ fired # <<>>
  BY DEF ServerSound, PeerTimer
<1>2. /\ IsSeq(peers) /\ PeersOK(peers, table, fired) /\ EntriesOK(peers, table)
      /\ QueuesOK(peers, table, queue, fired)
  BY <1>1 DEF ServerOK, SoundOK
<1>3. PICK p : p = Head(fired)
  OBVIOUS
<1>4. PICK fr : fr = Tail(fired)
  OBVIOUS
<1>5. /\ Distinct(fr) /\ Among(p, fired)
      /\ \A x : Among(x, fr) <=> Among(x, fired) /\ x # p
  BY <1>1, <1>2, <1>3, <1>4, DistinctTail DEF QueuesOK
<1>6. p \in DOMAIN peers /\ p # 0
  BY <1>2, <1>5, IsSeqLen DEF QueuesOK
<1>7. LiveIn(peers, table, fired, p)
  BY <1>2, <1>5, LiveIs DEF QueuesOK, Distinct
<1>8. PICK nonces \in Nonces : \E ep \in {HandleRtoTimer(peers[p].ep, nonces, server.now_ms)} :
          /\ table' = [table EXCEPT ![peers[p].addr] =
                          IF ep.state_id = "Zombie" /\ peers[p].ep.state_id # "Zombie"
                          THEN 0 ELSE @]
          /\ peers' = Dropped([peers EXCEPT ![p] = Settled(@, ep)], table', fired')
          /\ SendDown(peers[p].addr, SeqExt!ToSet(ep.frames))
  BY <1>3 DEF PeerTimer
<1>9. PICK peer : peer = peers[p]
  OBVIOUS
<1>10. PICK addr \in Client : addr = peer.addr
  BY <1>2, <1>6, <1>9 DEF PeersOK
<1>11. PICK new : new = HandleRtoTimer(peer.ep, nonces, server.now_ms)
  OBVIOUS
<1>12. /\ DOMAIN peer = PeerFields /\ peer.held \in BOOLEAN
       /\ Resting(peer.ep, Among(p, fired)) /\ EventsOK(peer.events, peer.ep)
       /\ table[addr] = p <=> peer.ep.state_id # "Zombie"
  BY <1>2, <1>6, <1>7, <1>9, <1>10 DEF PeersOK
<1>13. Due(peer.ep)
  <2>1. Among(p, fired) = TRUE
    BY <1>5 DEF Among
  <2>2. Resting(peer.ep, TRUE)
    BY <1>12, <2>1
  <2> QED BY <2>2, FiredIsDue
<1>14. Outcome(peer.ep, new, FALSE, TRUE)
  BY <1>11, <1>13, HandleRtoTimerOutcome
<1>15. peer.ep.state_id = "Zombie" => new.state_id = "Zombie"
  BY <1>11, ZombieStays
<1>16. PICK s : s = Settled(peer, new)
  OBVIOUS
<1>17. PeerGoesOn(s, peer, new, FALSE)
  BY <1>12, <1>14, <1>16, SettledOK
<1>18. /\ DOMAIN s = PeerFields /\ s.addr = addr /\ s.held \in BOOLEAN
       /\ Resting(s.ep, FALSE) /\ s.ep.state_id = new.state_id /\ EventsOK(s.events, s.ep)
  BY <1>10, <1>17 DEF PeerGoesOn
<1>19. /\ table' = [table EXCEPT ![addr] =
                       IF new.state_id = "Zombie" /\ peer.ep.state_id # "Zombie" THEN 0 ELSE @]
       /\ peers' = Dropped([peers EXCEPT ![p] = s], table', fr)
       /\ SendDown(addr, SeqExt!ToSet(new.frames)) /\ fired' = fr
  BY <1>4, <1>8, <1>9, <1>10, <1>11, <1>16 DEF PeerTimer
<1>20. PICK tb : tb = table'
  OBVIOUS
<1>21. /\ DOMAIN tb = Client /\ \A c \in Client : c # addr => tb[c] = table[c]
       /\ tb[addr] = IF new.state_id = "Zombie" /\ peer.ep.state_id # "Zombie" THEN 0
                     ELSE table[addr]
  BY <1>2, <1>19, <1>20 DEF EntriesOK
<1>22. /\ tb[addr] = table[addr] \/ (table[addr] = p /\ tb[addr] = 0)
       /\ tb[addr] = p <=> s.ep.state_id # "Zombie"
  BY <1>6, <1>12, <1>15, <1>18, <1>21
<1>23. Resting(s.ep, Among(p, fr))
  <2>1. Among(p, fr) = FALSE
    BY <1>5 DEF Among
  <2> QED BY <1>18, <2>1
<1>24. s.addr = peers[p].addr /\ addr = peers[p].addr
  BY <1>9, <1>10, <1>18
<1>25. /\ \A c \in Client : c # peers[p].addr => tb[c] = table[c]
       /\ \/ tb[peers[p].addr] = table[peers[p].addr]
          \/ table[peers[p].addr] = p /\ tb[peers[p].addr] = 0
       /\ tb[peers[p].addr] = p <=> s.ep.state_id # "Zombie"
  BY <1>21, <1>22, <1>24
<1>26. /\ \A x : Among(x, fr) => Among(x, fired)
       /\ \A x : x # p => (Among(x, fr) <=> Among(x, fired))
  BY <1>5
<1>27. ServerOK(Dropped([peers EXCEPT ![p] = s], tb, fr), tb, queue, fr)
  BY <1>1, <1>5, <1>6, <1>7, <1>18, <1>21, <1>23, <1>24, <1>25, <1>26, PeerStepped
<1>28. ServerSound'
  BY <1>19, <1>20, <1>27 DEF ServerSound, PeerTimer
<1>29. SentOK
  BY <1>14, <1>19, OutcomeSent
<1> QED BY <1>28, <1>29

LEMMA TestedOK ==
    ASSUME NEW ps, NEW tbl, NEW q, ServerOK(ps, tbl, q, <<>>), NEW expired,
           \A p \in expired : p \in DOMAIN ps /\ LiveIn(ps, tbl, <<>>, p) /\ ps[p].ep.timer,
           NEW fr, Distinct(fr), \A x : Among(x, fr) <=> x \in expired,
           NEW qu, Distinct(qu), \A x : Among(x, qu) => Among(x, q),
           \A x \in DOMAIN ps : LiveIn(ps, tbl, <<>>, x) => Among(x, qu),
           NEW new, DOMAIN new = DOMAIN ps, IsSeq(new),
           \A p \in DOMAIN ps :
              new[p] = IF p \in expired
                       THEN [ps[p] EXCEPT !.ep = [ps[p].ep EXCEPT !.timer = FALSE]] ELSE ps[p]
    PROVE  ServerOK(new, tbl, qu, fr)
<1>1. /\ IsSeq(ps) /\ PeersOK(ps, tbl, <<>>) /\ EntriesOK(ps, tbl)
      /\ QueuesOK(ps, tbl, q, <<>>) /\ GoneOK(ps, tbl, <<>>)
  BY DEF ServerOK, SoundOK
<1>2. IsSeq(fr) /\ IsSeq(<<>>) /\ \A x : ~Among(x, <<>>)
  BY EmptyDistinct DEF Distinct
<1>3. ASSUME NEW p \in DOMAIN ps
      PROVE  /\ DOMAIN new[p] = PeerFields /\ new[p].addr = ps[p].addr
             /\ new[p].held = ps[p].held /\ new[p].events = ps[p].events
             /\ new[p].ep = IF p \in expired THEN [ps[p].ep EXCEPT !.timer = FALSE] ELSE ps[p].ep
  <2>1. DOMAIN ps[p] = PeerFields
    BY <1>1 DEF PeersOK
  <2>2. PICK peer, e : peer = ps[p] /\ e = [ps[p].ep EXCEPT !.timer = FALSE]
    OBVIOUS
  <2>3. CASE p \in expired
    <3>1. new[p] = [peer EXCEPT !.ep = e]
      BY <2>2, <2>3
    <3>2. PICK r : r = [peer EXCEPT !.ep = e]
      OBVIOUS
    <3>3. /\ DOMAIN r = PeerFields /\ r.addr = peer.addr /\ r.held = peer.held
          /\ r.events = peer.events /\ r.ep = e
      BY <2>1, <2>2, <3>2 DEF PeerFields
    <3> QED BY <2>2, <2>3, <3>1, <3>2, <3>3
  <2>4. CASE p \notin expired
    BY <2>1, <2>4
  <2> QED BY <2>3, <2>4
<1>4. ASSUME NEW p \in DOMAIN ps
      PROVE  LiveIn(new, tbl, fr, p) <=> LiveIn(ps, tbl, <<>>, p)
  <2>1. LiveIn(new, tbl, fr, p) <=> new[p].held \/ tbl[new[p].addr] = p \/ Among(p, fr)
    BY <1>2, LiveIs
  <2>2. LiveIn(ps, tbl, <<>>, p) <=> ps[p].held \/ tbl[ps[p].addr] = p
    BY <1>2, LiveIs
  <2>3. new[p].held = ps[p].held /\ new[p].addr = ps[p].addr
    BY <1>3
  <2> QED BY <2>1, <2>2, <2>3
<1>5. PeersOK(new, tbl, fr)
  <2>1. ASSUME NEW p \in DOMAIN ps
        PROVE  /\ DOMAIN new[p] = PeerFields /\ new[p].addr \in Client
               /\ new[p].held \in BOOLEAN
    BY <1>1, <1>3 DEF PeersOK
  <2>2. ASSUME NEW p \in DOMAIN ps, LiveIn(new, tbl, fr, p)
        PROVE  /\ Resting(new[p].ep, Among(p, fr))
               /\ EventsOK(new[p].events, new[p].ep)
               /\ tbl[new[p].addr] = p <=> new[p].ep.state_id # "Zombie"
    <3>1. PICK old, told : old = ps[p].ep /\ told = ps[p].events
      OBVIOUS
    <3>2. Among(p, <<>>) = FALSE
      BY <1>2 DEF Among
    <3>3. /\ Resting(old, Among(p, <<>>)) /\ EventsOK(told, old)
          /\ tbl[ps[p].addr] = p <=> old.state_id # "Zombie"
      BY <1>1, <1>4, <2>2, <3>1 DEF PeersOK
    <3>4. Resting(old, FALSE)
      BY <3>2, <3>3
    <3>5. CASE p \in expired
      <4>1. PICK e : e = [old EXCEPT !.timer = FALSE]
        OBVIOUS
      <4>2. Resting(e, TRUE)
        BY <3>1, <3>4, <3>5, <4>1, TimerTestKeeps
      <4>3. e.state_id = old.state_id
        BY <3>4, <4>1 DEF Resting, PartsOK, EpFields
      <4>4. Among(p, fr) = TRUE
        BY <3>5 DEF Among
      <4>5. EventsOK(told, e)
        BY <3>3, <4>3 DEF EventsOK, Ended
      <4>6. new[p].ep = e /\ new[p].events = told /\ new[p].addr = ps[p].addr
        BY <1>3, <3>1, <3>5, <4>1
      <4> QED BY <3>3, <4>2, <4>3, <4>4, <4>5, <4>6
    <3>6. CASE p \notin expired
      <4>1. Among(p, fr) = FALSE
        BY <3>6 DEF Among
      <4>2. new[p].ep = old /\ new[p].events = told /\ new[p].addr = ps[p].addr
        BY <1>3, <3>1, <3>6
      <4> QED BY <3>3, <3>4, <4>1, <4>2
    <3> QED BY <3>5, <3>6
  <2> QED BY <2>1, <2>2 DEF PeersOK
<1>6. EntriesOK(new, tbl)
  BY <1>1, <1>3 DEF EntriesOK
<1>7. QueuesOK(new, tbl, qu, fr)
  BY <1>1, <1>4 DEF QueuesOK
<1>8. GoneOK(new, tbl, fr)
  <2>1. ASSUME NEW p \in DOMAIN ps, ~LiveIn(new, tbl, fr, p)
        PROVE  new[p] = PeerNew(new[p].addr)
    <3>1. ~LiveIn(ps, tbl, <<>>, p) /\ p \notin expired
      BY <1>4, <2>1
    <3>2. new[p] = ps[p]
      BY <3>1
    <3> QED BY <1>1, <3>1, <3>2 DEF GoneOK
  <2> QED BY <2>1 DEF GoneOK
<1> QED BY <1>5, <1>6, <1>7, <1>8 DEF ServerOK, SoundOK

LEMMA TimerTestOK ==
    ASSUME ServerSound, NEW expired, TimerTest(expired)
    PROVE  ServerSound'
<1>1. fired = <<>> /\ ServerOK(peers, table, queue, <<>>)
  BY DEF ServerSound, TimerTest
<1>2. /\ IsSeq(peers) /\ QueuesOK(peers, table, queue, <<>>) /\ GoneOK(peers, table, <<>>)
      /\ PeersOK(peers, table, <<>>)
  BY <1>1 DEF ServerOK, SoundOK
<1>3. PICK live : live = LivePeers
  OBVIOUS
<1>4. PICK tested : tested = Tested(queue, TimerTestLimit)
  OBVIOUS
<1>5. PICK qu : qu = Rotated(queue, TimerTestLimit, live)
  OBVIOUS
<1>6. PICK fr : fr = Signalled(queue, TimerTestLimit, live, expired)
  OBVIOUS
<1>7. /\ Distinct(qu) /\ \A x : Among(x, qu) => Among(x, queue)
      /\ \A x \in live : Among(x, queue) => Among(x, qu)
      /\ Distinct(fr)
      /\ \A x : Among(x, fr) <=> Among(x, tested) /\ x \in live \cap expired
      /\ \A x : Among(x, tested) => Among(x, queue)
      /\ IsSeq(tested)
  BY <1>2, <1>4, <1>5, <1>6, QueueTested DEF QueuesOK
<1>8. \A p \in DOMAIN peers : p \in live <=> LiveIn(peers, table, <<>>, p)
  BY <1>1, <1>3 DEF LivePeers, Live
<1>9. ASSUME NEW p \in expired
      PROVE  /\ Among(p, tested) /\ p \in DOMAIN peers /\ peers[p].ep.timer
             /\ LiveIn(peers, table, <<>>, p)
  <2>1. p \in SeqExt!ToSet(tested) /\ peers[p].ep.timer
    BY <1>4, <1>9 DEF TimerTest
  <2>2. Among(p, tested)
    BY <1>7, <2>1, ToSetIs
  <2>3. p \in DOMAIN peers
    BY <1>2, <1>7, <2>2 DEF QueuesOK
  <2>4. ASSUME ~LiveIn(peers, table, <<>>, p) PROVE FALSE
    <3>1. peers[p] = PeerNew(peers[p].addr)
      BY <1>2, <2>3, <2>4 DEF GoneOK
    <3>2. PICK e : e = EndpointNew
      OBVIOUS
    <3>3. peers[p].ep = e
      BY <3>1, <3>2, PeerNewIs
    <3>4. e.timer = FALSE
      BY <3>2 DEF EndpointNew
    <3>5. peers[p].ep.timer = FALSE
      BY <3>3, <3>4
    <3> QED BY <2>1, <3>5
  <2> QED BY <2>1, <2>2, <2>3, <2>4
<1>10. \A x : Among(x, fr) <=> x \in expired
  BY <1>7, <1>8, <1>9
<1>11. \A x \in DOMAIN peers : LiveIn(peers, table, <<>>, x) => Among(x, qu)
  BY <1>2, <1>7, <1>8 DEF QueuesOK
<1>12. PICK new : new = peers'
  OBVIOUS
<1>13. new = [p \in DOMAIN peers |->
                 IF p \in expired THEN [peers[p] EXCEPT !.ep.timer = FALSE] ELSE peers[p]]
  BY <1>12 DEF TimerTest
<1>14. DOMAIN new = DOMAIN peers /\ IsSeq(new)
  <2>1. PICK n \in Nat : DOMAIN peers = 1 .. n
    BY <1>2, IsSeqLen
  <2>2. new = [p \in 1 .. n |-> new[p]]
    BY <1>13, <2>1
  <2> QED BY <1>13, <2>2, FunctionIsSeq
<1>15. \A p \in DOMAIN peers :
          new[p] = IF p \in expired
                   THEN [peers[p] EXCEPT !.ep = [peers[p].ep EXCEPT !.timer = FALSE]]
                   ELSE peers[p]
  BY <1>13
<1>16. ServerOK(new, table, qu, fr)
  BY <1>1, <1>7, <1>9, <1>10, <1>11, <1>14, <1>15, TestedOK
<1> QED BY <1>3, <1>5, <1>6, <1>12, <1>16 DEF ServerSound, TimerTest

LEMMA NothingOK ==
    ServerOK(<<>>, [c \in Client |-> 0], <<>>, <<>>)
<1>1. IsSeq(<<>>) /\ DOMAIN <<>> = {}
  BY EmptyIsSeq
<1>2. PeersOK(<<>>, [c \in Client |-> 0], <<>>) /\ GoneOK(<<>>, [c \in Client |-> 0], <<>>)
  BY <1>1 DEF PeersOK, GoneOK
<1>3. EntriesOK(<<>>, [c \in Client |-> 0])
  BY DEF EntriesOK
<1>4. QueuesOK(<<>>, [c \in Client |-> 0], <<>>, <<>>)
  BY <1>1, EmptyDistinct DEF QueuesOK
<1> QED BY <1>1, <1>2, <1>3, <1>4 DEF ServerOK, SoundOK

-----------------------------------------------------------------------------
(* The size of the table *)

Entries(tbl) == {c \in Client : tbl[c] # 0}

LEMMA EntriesFinite ==
    ASSUME NEW tbl
    PROVE  IsFiniteSet(Entries(tbl)) /\ Cardinality(Entries(tbl)) \in Nat
<1>1. Entries(tbl) \in SUBSET Client
  BY DEF Entries
<1>2. IsFiniteSet(Client)
  BY ConnectionAssumption
<1>3. IsFiniteSet(Entries(tbl))
  BY <1>1, <1>2, FS_Subset
<1> QED BY <1>3, FS_CardinalityType

\* A peer is only added when there is room.
LEMMA EntryAdded ==
    ASSUME NEW tbl, DOMAIN tbl = Client, NEW addr \in Client, NEW p, NEW max \in Nat,
           ~(Cardinality(Entries(tbl)) >= max)
    PROVE  Cardinality(Entries([tbl EXCEPT ![addr] = p])) <= max
<1>1. PICK old, new : old = Entries(tbl) /\ new = Entries([tbl EXCEPT ![addr] = p])
  OBVIOUS
<1>2. IsFiniteSet(old) /\ Cardinality(old) \in Nat
  BY <1>1, EntriesFinite
<1>3. PICK more : more = old \cup {addr}
  OBVIOUS
<1>4. /\ IsFiniteSet(more)
      /\ Cardinality(more) = IF addr \in old THEN Cardinality(old) ELSE Cardinality(old) + 1
  BY <1>2, <1>3, FS_AddElement
<1>5. Cardinality(new) <= Cardinality(more) /\ Cardinality(new) \in Nat
  <2>1. new \in SUBSET more
    BY <1>1, <1>3 DEF Entries
  <2> QED BY <1>1, <1>4, <2>1, FS_Subset, EntriesFinite
<1>6. Cardinality(old) < max
  BY <1>1, <1>2
<1> QED BY <1>1, <1>2, <1>4, <1>5, <1>6

LEMMA EntryRemoved ==
    ASSUME NEW tbl, NEW tb, \A c \in Client : tb[c] = tbl[c] \/ tb[c] = 0, NEW max \in Nat,
           Cardinality(Entries(tbl)) <= max
    PROVE  Cardinality(Entries(tb)) <= max
<1>1. PICK old, new : old = Entries(tbl) /\ new = Entries(tb)
  OBVIOUS
<1>2. IsFiniteSet(old) /\ Cardinality(old) \in Nat /\ Cardinality(new) \in Nat
  BY <1>1, EntriesFinite
<1>3. new \in SUBSET old
  BY <1>1 DEF Entries
<1>4. Cardinality(new) <= Cardinality(old)
  BY <1>2, <1>3, FS_Subset
<1> QED BY <1>1, <1>2, <1>4

LEMMA NoEntries == Cardinality(Entries([c \in Client |-> 0])) = 0
<1>1. Entries([c \in Client |-> 0]) = {}
  BY DEF Entries
<1> QED BY <1>1, FS_EmptySet

-----------------------------------------------------------------------------
(* Cookies *)

\* Two clocks that are less than a turn of the timestamps apart.
LEMMA TimestampsApart ==
    ASSUME NEW M \in Nat, M > 0, NEW a \in Nat, NEW t \in Nat, t <= a, a - t < M
    PROVE  ((a % M) - (t % M)) % M = a - t
<1>1. PICK q \in Int : a % M \in 0 .. M - 1 /\ a = (M * q) + (a % M)
  BY DivMod
<1>2. PICK z \in Int : t % M \in 0 .. M - 1 /\ t = (M * z) + (t % M)
  <2>1. /\ t \div M \in Int /\ t % M \in 0 .. M - 1
        /\ t = (M * (t \div M)) + (t % M)
    BY DivMod
  <2> QED BY <2>1
<1>3. PICK u \in Int : u = a % M
  BY <1>1
<1>4. PICK v \in Int : v = t % M
  BY <1>2
<1>5. a - t = (M * (q - z)) + (u - v)
  <2>1. M * (q - z) = (M * q) - (M * z)
    OBVIOUS
  <2>2. PICK x \in Int : x = M * q
    OBVIOUS
  <2>3. PICK y \in Int : y = M * z
    OBVIOUS
  <2>4. a = x + u /\ t = y + v /\ M * (q - z) = x - y
    BY <1>1, <1>2, <1>3, <1>4, <2>1, <2>2, <2>3
  <2> QED BY <2>2, <2>3, <2>4
<1>6. u - v \in Int /\ a - t \in Int /\ a - t \in 0 .. M - 1
  OBVIOUS
<1>7. (u - v) = (M * (z - q)) + (a - t)
  <2>1. M * (z - q) = -(M * (q - z))
    OBVIOUS
  <2>2. PICK x \in Int : x = M * (q - z)
    OBVIOUS
  <2> QED BY <1>5, <2>1, <2>2
<1>8. (u - v) % M = a - t
  <2>1. PICK d \in Int : d = u - v
    OBVIOUS
  <2>2. PICK r \in 0 .. M - 1 : r = a - t
    BY <1>6
  <2>3. PICK w \in Int : w = z - q
    OBVIOUS
  <2>4. d = (M * w) + r
    BY <1>7, <2>1, <2>2, <2>3
  <2>5. d % M = r
    BY <2>4, DivModUnique
  <2> QED BY <2>1, <2>2, <2>5
<1> QED BY <1>3, <1>4, <1>8

\* The frame holds the MAC of this server, or of an earlier one, for the address and its own
\* contents; if it is this server's, it was made since then and no later than at.
Cookie(addr, frame, key, since, at) ==
    /\ frame.client_nonce \in Client /\ frame.server_nonce = 0
    /\ frame.server_timestamp \in 0 .. TimestampMod - 1
    /\ \E k \in 0 .. key :
          /\ frame.server_mac = Mac(k, addr, frame.client_nonce, 0, frame.server_timestamp)
          /\ k = key => \E t \in Nat : /\ frame.server_timestamp = t % TimestampMod
                                       /\ since <= t /\ t <= at

\* The server goes on, or is restarted.
LEMMA CookieKeeps ==
    ASSUME NEW addr, NEW frame, NEW key \in Nat, NEW since \in Int, NEW at \in Int,
           Cookie(addr, frame, key, since, at), NEW key2 \in Nat, NEW since2 \in Int,
           NEW at2 \in Int, (key2 = key /\ since2 = since /\ at <= at2) \/ key2 = key + 1
    PROVE  Cookie(addr, frame, key2, since2, at2)
<1>1. PICK k \in 0 .. key :
         /\ frame.server_mac = Mac(k, addr, frame.client_nonce, 0, frame.server_timestamp)
         /\ k = key => \E t \in Nat : /\ frame.server_timestamp = t % TimestampMod
                                      /\ since <= t /\ t <= at
  BY DEF Cookie
<1>2. k \in 0 .. key2
  OBVIOUS
<1>3. k = key2 => \E t \in Nat : /\ frame.server_timestamp = t % TimestampMod
                                 /\ since2 <= t /\ t <= at2
  <2>1. CASE key2 = key /\ since2 = since /\ at <= at2
    <3>1. SUFFICES ASSUME k = key2
                   PROVE  \E t \in Nat : /\ frame.server_timestamp = t % TimestampMod
                                         /\ since2 <= t /\ t <= at2
      OBVIOUS
    <3>2. PICK t \in Nat : /\ frame.server_timestamp = t % TimestampMod
                           /\ since <= t /\ t <= at
      BY <1>1, <2>1, <3>1
    <3>3. since2 <= t /\ t <= at2
      BY <2>1, <3>2
    <3> QED BY <3>2, <3>3
  <2>2. CASE key2 = key + 1
    BY <2>2
  <2> QED BY <2>1, <2>2
<1> QED BY <1>1, <1>2, <1>3 DEF Cookie

-----------------------------------------------------------------------------
(* Frames in transit, and clients *)

UpOK(addr, frame, key, since, at) ==
    \/ FrameOK(frame)
    \/ frame.type = "HandshakeAlpha" /\ frame.client_nonce \in Client
    \/ frame.type = "HandshakeBeta" /\ Cookie(addr, frame, key, since, at)

DownOK(addr, frame, key, since, at) ==
    \/ FrameOK(frame)
    \/ frame.type = "HandshakeAlphaAck" /\ Cookie(addr, frame, key, since, at)
    \/ frame.type = "HandshakeBetaAck"
       /\ frame.error \in {None, Some("Capacity"), Some("Parameter")}

NetOK(u, dn, key, since, at) ==
    /\ \A m \in u : m[1] \in Client /\ UpOK(m[1], m[2], key, since, at[m[1]])
    /\ \A m \in dn : m[1] \in Client /\ DownOK(m[1], m[2], key, since, at[m[1]])

CoreFields == {"state", "phase", "waited", "buffer", "frame", "ep"}

Idle(ep) == DOMAIN ep = EpFields /\ ep.frames = <<>> /\ ep.events = <<>>

\* All that an application is told of a connection that has ended or that has failed.
Through(told) ==
    \/ IsSeq(told) /\ Len(told) = 1 /\ told[1].kind \in Endings \ {"Disconnect"}
    \/ \E e : Ended(e) /\ EventsOK(told, e)

ClientOK(c, core, told, connecting) ==
    /\ DOMAIN core = CoreFields
    /\ \/ core.state = "Handshake" /\ Idle(core.ep) /\ told = <<>> /\ IsSeq(core.buffer)
       \/ /\ core.state = "Active" /\ Resting(core.ep, FALSE) /\ core.ep.state_id # "Zombie"
          /\ EventsOK(told, core.ep)
       \/ /\ core.state = "Quiescent" /\ Idle(core.ep)
          /\ Through(told) \/ (c \notin connecting /\ told = <<>>)

\* The frame that a handshake repeats.
HeldOK(c, core, key, since, at) ==
    core.state = "Handshake" => UpOK(c, core.frame, key, since, at[c])

\* What the server knows of time.
TimeOK(key, since, at) ==
    key \in Nat /\ since \in Int /\ DOMAIN at = Client /\ \A c \in Client : at[c] \in Int

Later(key, since, at, key2, since2, at2) ==
    \/ key2 = key /\ since2 = since /\ \A c \in Client : at[c] <= at2[c]
    \/ key2 = key + 1

LEMMA FramesKeep ==
    ASSUME NEW key, NEW since, NEW at, TimeOK(key, since, at),
           NEW key2, NEW since2, NEW at2, TimeOK(key2, since2, at2),
           Later(key, since, at, key2, since2, at2), NEW c \in Client, NEW frame
    PROVE  /\ UpOK(c, frame, key, since, at[c]) => UpOK(c, frame, key2, since2, at2[c])
           /\ DownOK(c, frame, key, since, at[c]) => DownOK(c, frame, key2, since2, at2[c])
<1>1. PICK a, b \in Int : a = at[c] /\ b = at2[c]
  BY DEF TimeOK
<1>2. /\ key \in Nat /\ key2 \in Nat /\ since \in Int /\ since2 \in Int
      /\ (key2 = key /\ since2 = since /\ a <= b) \/ key2 = key + 1
  BY <1>1 DEF TimeOK, Later
<1>3. Cookie(c, frame, key, since, a) => Cookie(c, frame, key2, since2, b)
  BY <1>2, CookieKeeps
<1> QED BY <1>1, <1>3 DEF UpOK, DownOK

LEMMA NetKeeps ==
    ASSUME NEW key, NEW since, NEW at, TimeOK(key, since, at),
           NEW key2, NEW since2, NEW at2, TimeOK(key2, since2, at2),
           Later(key, since, at, key2, since2, at2), NEW u, NEW dn,
           NetOK(u, dn, key, since, at)
    PROVE  NetOK(u, dn, key2, since2, at2)
<1>1. ASSUME NEW m \in u PROVE m[1] \in Client /\ UpOK(m[1], m[2], key2, since2, at2[m[1]])
  <2>1. PICK c, frame : c \in Client /\ c = m[1] /\ frame = m[2]
    BY DEF NetOK
  <2>2. UpOK(c, frame, key, since, at[c])
    BY <2>1 DEF NetOK
  <2>3. UpOK(c, frame, key2, since2, at2[c])
    BY <2>1, <2>2, FramesKeep
  <2> QED BY <2>1, <2>3
<1>2. ASSUME NEW m \in dn PROVE m[1] \in Client /\ DownOK(m[1], m[2], key2, since2, at2[m[1]])
  <2>1. PICK c, frame : c \in Client /\ c = m[1] /\ frame = m[2]
    BY DEF NetOK
  <2>2. DownOK(c, frame, key, since, at[c])
    BY <2>1 DEF NetOK
  <2>3. DownOK(c, frame, key2, since2, at2[c])
    BY <2>1, <2>2, FramesKeep
  <2> QED BY <2>1, <2>3
<1> QED BY <1>1, <1>2 DEF NetOK

-----------------------------------------------------------------------------
(* The invariant *)

Since == server.now_ms - used.ticks

BoundsOK ==
    /\ plan \in Plans
    /\ DOMAIN used = {"ticks", "resends", "restarts", "sent"}
    /\ used.ticks \in 0 .. plan.ticks /\ used.restarts \in 0 .. plan.restarts
    /\ DOMAIN server = {"key", "now_ms"}
    /\ server.key = used.restarts /\ server.now_ms \in Nat
    /\ DOMAIN asked = Client
    /\ \A c \in Client : asked[c] \in Int /\ asked[c] <= server.now_ms

CountOK == Cardinality(Entries(table)) <= plan.peer_count_max

FramesOK == NetOK(up, down, server.key, Since, asked)

ClientsOK ==
    /\ DOMAIN client = Client /\ DOMAIN events = Client
    /\ \A c \in Client : /\ ClientOK(c, client[c], events[c], plan.clients)
                         /\ HeldOK(c, client[c], server.key, Since, asked)

Inv == BoundsOK /\ CountOK /\ ServerSound /\ FramesOK /\ ClientsOK

LEMMA PlanIs ==
    ASSUME BoundsOK
    PROVE  /\ plan.peer_count_max \in Nat /\ plan.ticks \in Nat /\ plan.restarts \in Nat
           /\ plan.ticks + HandshakeTimeout < TimestampMod
           /\ HandshakeTimeout \in Nat /\ TimestampMod \in Nat /\ TimestampMod > 0
<1>1. plan \in Plan /\ plan \in Plans
  BY ConnectionAssumption DEF BoundsOK
<1>2. /\ plan.peer_count_max \in Nat /\ plan.ticks \in Nat /\ plan.restarts \in Nat
  BY <1>1 DEF Plan
<1>3. HandshakeTimeout \in Nat /\ TimestampMod \in Nat
  BY ConnectionAssumption
<1>4. plan.ticks + HandshakeTimeout < TimestampMod
  BY <1>1, ConnectionAssumption
<1> QED BY <1>2, <1>3, <1>4

LEMMA TimeIs ==
    ASSUME BoundsOK
    PROVE  TimeOK(server.key, Since, asked)
BY PlanIs DEF BoundsOK, TimeOK, Since

LEMMA TimePasses ==
    ASSUME Inv, BoundsOK', UNCHANGED <<plan, client, events, up>>,
           Later(server.key, Since, asked, server.key', Since', asked')
    PROVE  ClientsOK' /\ NetOK(up', down, server.key', Since', asked')
<1>1. TimeOK(server.key, Since, asked)
  BY TimeIs DEF Inv
<1>2. TimeOK(server.key', Since', asked')
  <2>1. plan' \in Plans /\ used'.ticks \in 0 .. plan'.ticks /\ used'.restarts \in 0 .. plan'.restarts
    BY DEF BoundsOK
  <2>2. plan.ticks \in Nat /\ plan.restarts \in Nat
    BY PlanIs DEF Inv
  <2> QED BY <2>1, <2>2 DEF BoundsOK, TimeOK, Since
<1>3. NetOK(up, down, server.key', Since', asked')
  BY <1>1, <1>2, NetKeeps DEF Inv, FramesOK
<1>4. ASSUME NEW c \in Client PROVE HeldOK(c, client[c], server.key', Since', asked')
  <2>1. PICK frame : frame = client[c].frame
    OBVIOUS
  <2>2. UpOK(c, frame, server.key, Since, asked[c]) => UpOK(c, frame, server.key', Since', asked'[c])
    BY <1>1, <1>2, FramesKeep
  <2>3. HeldOK(c, client[c], server.key, Since, asked)
    BY DEF Inv, ClientsOK
  <2> QED BY <2>1, <2>2, <2>3 DEF HeldOK
<1>5. ClientsOK'
  BY <1>4 DEF Inv, ClientsOK
<1> QED BY <1>3, <1>5

UsedKept ==
    /\ DOMAIN used' = DOMAIN used
    /\ used'.ticks = used.ticks /\ used'.restarts = used.restarts

LEMMA BoundsKept ==
    ASSUME BoundsOK, UNCHANGED <<plan, server, asked>>, UsedKept
    PROVE  BoundsOK' /\ Since' = Since
BY DEF BoundsOK, Since, UsedKept

\* A step of the server that leaves its clock alone and adds nothing to its table.
LEMMA QuietOK ==
    ASSUME Inv, ServerSound', SentOK, UNCHANGED <<plan, client, events, server, asked, up>>,
           UsedKept, \A c \in Client : table'[c] = table[c] \/ table'[c] = 0
    PROVE  Inv'
<1>1. BoundsOK' /\ Since' = Since
  BY BoundsKept DEF Inv
<1>2. CountOK'
  <2>1. plan.peer_count_max \in Nat
    BY PlanIs DEF Inv
  <2>2. Cardinality(Entries(table)) <= plan.peer_count_max
    BY DEF Inv, CountOK
  <2>3. Cardinality(Entries(table')) <= plan.peer_count_max
    BY <2>1, <2>2, EntryRemoved
  <2> QED BY <2>3 DEF CountOK, Entries
<1>3. FramesOK'
  <2>1. NetOK(up, down, server.key, Since, asked)
    BY DEF Inv, FramesOK
  <2>2. ASSUME NEW m \in down'
        PROVE  m[1] \in Client /\ DownOK(m[1], m[2], server.key, Since, asked[m[1]])
    BY <2>1, <2>2 DEF NetOK, SentOK, DownOK
  <2>3. NetOK(up, down', server.key, Since, asked)
    BY <2>1, <2>2 DEF NetOK
  <2> QED BY <1>1, <2>3 DEF FramesOK
<1>4. ClientsOK'
  BY <1>1 DEF Inv, ClientsOK
<1> QED BY <1>1, <1>2, <1>3, <1>4 DEF Inv

LEMMA ResendsKept ==
    ASSUME BoundsOK, NEW endpoints, CountResends(endpoints)
    PROVE  UsedKept
<1>1. PICK n : used' = [used EXCEPT !.resends = n]
  BY DEF CountResends, BoundsOK
<1> QED BY <1>1 DEF BoundsOK, UsedKept

LEMMA HandlesInv ==
    ASSUME Inv, NEW p \in DOMAIN peers,
           PeerEnqueue(p) \/ PeerFlush(p) \/ PeerSend(p) \/ PeerDisconnect(p) \/ DropHandles(p)
    PROVE  Inv'
<1>1. UsedKept /\ UNCHANGED <<plan, client, events, server, asked, up, table>>
  <2>1. CASE PeerEnqueue(p)
    BY <2>1 DEF PeerEnqueue, UsedKept, clientVars
  <2>2. CASE PeerFlush(p)
    BY <2>2 DEF PeerFlush, UsedKept, clientVars
  <2>3. CASE PeerSend(p)
    BY <2>3 DEF PeerSend, UsedKept, clientVars
  <2>4. CASE PeerDisconnect(p)
    BY <2>4 DEF PeerDisconnect, UsedKept, clientVars
  <2>5. CASE DropHandles(p)
    BY <2>5 DEF DropHandles, UsedKept, clientVars
  <2> QED BY <2>1, <2>2, <2>3, <2>4, <2>5
<1>2. ServerSound' /\ SentOK
  <2>1. ServerSound
    BY DEF Inv
  <2>2. CASE PeerEnqueue(p)
    BY <2>1, <2>2, PeerEnqueueOK DEF PeerEnqueue, SentOK
  <2>3. CASE PeerFlush(p)
    BY <2>1, <2>3, PeerFlushOK
  <2>4. CASE PeerSend(p)
    BY <2>1, <2>4, PeerSendOK
  <2>5. CASE PeerDisconnect(p)
    BY <2>1, <2>5, PeerDisconnectOK
  <2>6. CASE DropHandles(p)
    BY <2>1, <2>6, DropHandlesOK DEF DropHandles, SentOK
  <2> QED BY <2>2, <2>3, <2>4, <2>5, <2>6
<1> QED BY <1>1, <1>2, QuietOK

LEMMA TimersInv ==
    ASSUME Inv, PeerTimer \/ \E expired : TimerTest(expired)
    PROVE  Inv'
<1>1. ServerSound /\ BoundsOK
  BY DEF Inv
<1>2. CASE PeerTimer
  <2>1. UsedKept /\ UNCHANGED <<plan, client, events, server, asked, up>>
    BY <1>2 DEF PeerTimer, UsedKept, clientVars
  <2>2. PICK addr, zero : table' = [table EXCEPT ![addr] = zero] /\ (zero = 0 \/ zero = table[addr])
    <3>1. PICK nonces \in Nonces, p \in {Head(fired)} :
             \E ep \in {HandleRtoTimer(peers[p].ep, nonces, server.now_ms)} :
                table' = [table EXCEPT ![peers[p].addr] =
                             IF ep.state_id = "Zombie" /\ peers[p].ep.state_id # "Zombie"
                             THEN 0 ELSE table[peers[p].addr]]
      BY <1>2 DEF PeerTimer
    <3> QED BY <3>1
  <2>3. DOMAIN table = Client
    BY <1>1 DEF ServerSound, ServerOK, SoundOK, EntriesOK
  <2>4. \A c \in Client : table'[c] = table[c] \/ table'[c] = 0
    BY <2>2, <2>3
  <2> QED BY <1>1, <1>2, <2>1, <2>4, PeerTimerOK, QuietOK
<1>3. ASSUME NEW expired, TimerTest(expired) PROVE Inv'
  <2>1. UsedKept
    BY <1>1, <1>3, ResendsKept DEF TimerTest
  <2>2. UNCHANGED <<plan, client, events, server, asked, up, table>> /\ SentOK
    BY <1>3 DEF TimerTest, clientVars, SentOK
  <2> QED BY <1>1, <1>3, <2>1, <2>2, TimerTestOK, QuietOK
<1> QED BY <1>2, <1>3

LEMMA TickInv ==
    ASSUME Inv, Tick
    PROVE  Inv'
<1>1. BoundsOK' /\ Since' = Since /\ server'.key = server.key
  <2>1. BoundsOK /\ plan.ticks \in Nat /\ used.ticks < plan.ticks
    BY PlanIs DEF Inv, Tick
  <2>2. /\ used' = [used EXCEPT !.ticks = used.ticks + 1]
        /\ server' = [server EXCEPT !.now_ms = server.now_ms + 1]
    BY <2>1 DEF Tick, BoundsOK
  <2>3. /\ DOMAIN used' = DOMAIN used /\ used'.ticks = used.ticks + 1
        /\ used'.restarts = used.restarts
        /\ DOMAIN server' = DOMAIN server /\ server'.now_ms = server.now_ms + 1
        /\ server'.key = server.key
    BY <2>1, <2>2 DEF BoundsOK
  <2>4. UNCHANGED <<plan, asked>>
    BY DEF Tick, clientVars
  <2> QED BY <2>1, <2>3, <2>4 DEF BoundsOK, Since
<1>2. UNCHANGED <<plan, client, events, up, asked, down, table, peers, queue, fired>>
  BY DEF Tick, clientVars
<1>3. Later(server.key, Since, asked, server.key', Since', asked')
  BY <1>1, <1>2 DEF Later, Inv, BoundsOK
<1>4. ClientsOK' /\ NetOK(up', down, server.key', Since', asked')
  BY <1>1, <1>2, <1>3, TimePasses
<1> QED BY <1>1, <1>2, <1>4 DEF Inv, CountOK, ServerSound, FramesOK, Entries

LEMMA RestartInv ==
    ASSUME Inv, Restart
    PROVE  Inv'
<1>1. BoundsOK' /\ server'.key = server.key + 1
  <2>1. BoundsOK /\ plan.restarts \in Nat /\ used.restarts < plan.restarts
        /\ HandshakeTimeout \in Nat
    BY PlanIs DEF Inv, Restart
  <2>2. /\ used' = [used EXCEPT !.restarts = used.restarts + 1]
        /\ server' = [key |-> server.key + 1, now_ms |-> 0]
        /\ asked' = [c \in Client |-> -HandshakeTimeout] /\ plan' = plan
    BY <2>1 DEF Restart, BoundsOK, clientVars
  <2>3. /\ DOMAIN used' = DOMAIN used /\ used'.ticks = used.ticks
        /\ used'.restarts = used.restarts + 1
        /\ DOMAIN server' = {"key", "now_ms"} /\ server'.now_ms = 0
        /\ server'.key = server.key + 1
        /\ DOMAIN asked' = Client
    BY <2>1, <2>2 DEF BoundsOK
  <2>4. \A c \in Client : asked'[c] \in Int /\ asked'[c] <= 0
    BY <2>1, <2>2
  <2> QED BY <2>1, <2>2, <2>3, <2>4 DEF BoundsOK
<1>2. UNCHANGED <<plan, client, events, up, down>>
  BY DEF Restart, clientVars
<1>3. Later(server.key, Since, asked, server.key', Since', asked')
  BY <1>1 DEF Later
<1>4. ClientsOK' /\ NetOK(up', down, server.key', Since', asked')
  BY <1>1, <1>2, <1>3, TimePasses
<1>5. ServerSound'
  BY NothingOK DEF Restart, ServerSound
<1>6. CountOK'
  <2>1. plan.peer_count_max \in Nat
    BY PlanIs DEF Inv
  <2>2. Cardinality(Entries(table')) = 0
    BY NoEntries DEF Restart
  <2> QED BY <1>2, <2>1, <2>2 DEF CountOK, Entries
<1> QED BY <1>1, <1>2, <1>4, <1>5, <1>6 DEF Inv, FramesOK

-----------------------------------------------------------------------------
(* The frames that the server receives *)

LEMMA UpIs ==
    ASSUME NEW addr, NEW frame, NEW key, NEW since, NEW at, UpOK(addr, frame, key, since, at)
    PROVE  /\ frame.type = "HandshakeAlpha" => frame.client_nonce \in Client
           /\ frame.type = "HandshakeBeta" => Cookie(addr, frame, key, since, at)
           /\ frame.type \notin {"HandshakeAlpha", "HandshakeBeta"} => FrameOK(frame)
<1>1. FrameOK(frame) => frame.type \in {"Stream", "StreamSync", "Close", "CloseAck"}
  BY DEF FrameOK, StreamFrameOK
<1> QED BY <1>1 DEF UpOK

LEMMA HandleAlphaInv ==
    ASSUME Inv, NEW addr \in Client, NEW frame, frame.client_nonce \in Client,
           HandleAlpha(addr, frame), UNCHANGED <<clientVars, fired, server, up, used>>
    PROVE  Inv'
<1>1. BoundsOK /\ ServerSound /\ CountOK
  BY DEF Inv
<1>2. UNCHANGED <<plan, client, events, up, used, server, peers, table, queue, fired>>
  BY DEF clientVars, HandleAlpha
<1>3. PICK ack : /\ ack = AlphaAckFrame(addr, frame.client_nonce, Timestamp)
                 /\ SendDown(addr, {ack})
                 /\ asked' = IF Heeds(client[addr], ack)
                             THEN [asked EXCEPT ![addr] = server.now_ms] ELSE asked
  BY DEF HandleAlpha
<1>4. server.now_ms \in Nat /\ Since \in Int /\ Since <= server.now_ms /\ server.key \in Nat
  BY <1>1, PlanIs DEF BoundsOK, Since
<1>5. /\ DOMAIN asked = Client /\ DOMAIN asked' = Client
      /\ \A c \in Client : asked[c] \in Int /\ asked[c] <= server.now_ms
      /\ \A c \in Client : /\ asked'[c] \in Int /\ asked'[c] <= server.now_ms
                           /\ asked[c] <= asked'[c]
  <2>1. DOMAIN asked = Client /\ \A c \in Client : asked[c] \in Int /\ asked[c] <= server.now_ms
    BY <1>1 DEF BoundsOK
  <2>2. CASE asked' = asked
    BY <2>1, <2>2
  <2>3. CASE asked' = [asked EXCEPT ![addr] = server.now_ms]
    BY <1>4, <2>1, <2>3
  <2> QED BY <1>3, <2>1, <2>2, <2>3
<1>6. BoundsOK' /\ Since' = Since
  BY <1>1, <1>2, <1>5 DEF BoundsOK, Since
<1>7. Later(server.key, Since, asked, server.key', Since', asked')
  BY <1>2, <1>5, <1>6 DEF Later
<1>8. ClientsOK' /\ NetOK(up', down, server.key', Since', asked')
  BY <1>2, <1>6, <1>7, TimePasses
<1>9. CASE ~Heeds(client[addr], ack)
  <2>1. down' = down
    BY <1>3, <1>9 DEF SendDown
  <2> QED BY <1>1, <1>2, <1>6, <1>8, <2>1 DEF Inv, CountOK, Entries, ServerSound, FramesOK
<1>10. CASE Heeds(client[addr], ack)
  <2>1. asked'[addr] = server.now_ms
    BY <1>3, <1>5, <1>10
  <2>2. Cookie(addr, ack, server.key, Since, server.now_ms)
    <3>1. PICK time \in Nat : time = server.now_ms
      BY <1>4
    <3>2. time % TimestampMod \in 0 .. TimestampMod - 1
      BY <1>1, PlanIs, DivMod
    <3>3. /\ ack.client_nonce = frame.client_nonce /\ ack.server_nonce = 0
          /\ ack.server_timestamp = time % TimestampMod
          /\ ack.server_mac = Mac(server.key, addr, frame.client_nonce, 0, time % TimestampMod)
          /\ ack.type = "HandshakeAlphaAck"
      BY <1>3, <3>1 DEF AlphaAckFrame, Timestamp
    <3>4. server.key \in 0 .. server.key
      BY <1>4
    <3>5. Since <= time /\ time <= server.now_ms
      BY <1>4, <3>1
    <3> QED BY <3>2, <3>3, <3>4, <3>5 DEF Cookie
  <2>3. DownOK(addr, ack, server.key', Since', asked'[addr])
    <3>1. ack.type = "HandshakeAlphaAck"
      BY <1>3 DEF AlphaAckFrame
    <3>2. server.key' = server.key
      BY <1>2
    <3> QED BY <1>6, <2>1, <2>2, <3>1, <3>2 DEF DownOK
  <2>4. \A m \in down' : m \in down \/ m = <<addr, ack>>
    BY <1>3 DEF SendDown
  <2>5. ASSUME NEW m \in down'
        PROVE  m[1] \in Client /\ DownOK(m[1], m[2], server.key', Since', asked'[m[1]])
    <3>1. CASE m \in down
      BY <1>8, <3>1 DEF NetOK
    <3>2. CASE m = <<addr, ack>>
      BY <2>3, <3>2
    <3> QED BY <2>4, <3>1, <3>2
  <2>6. NetOK(up', down', server.key', Since', asked')
    BY <1>8, <2>5 DEF NetOK
  <2> QED BY <1>1, <1>2, <1>6, <1>8, <2>6 DEF Inv, CountOK, Entries, ServerSound, FramesOK
<1> QED BY <1>9, <1>10

LEMMA RefusalIs ==
    ASSUME NEW addr, NEW frame
    PROVE  Refusal(addr, frame) \in {None, Some("Capacity"), Some("Parameter")}
BY DEF Refusal

LEMMA HandleBetaInv ==
    ASSUME Inv, NEW addr \in Client, NEW frame, fired = <<>>,
           HandleBeta(addr, frame), UNCHANGED <<clientVars, fired, server, up, used>>
    PROVE  Inv'
<1>1. BoundsOK /\ ServerSound /\ CountOK
  BY DEF Inv
<1>2. UNCHANGED <<plan, client, events, up, used, server, asked, fired>>
  BY DEF clientVars, HandleBeta
<1>3. BoundsOK' /\ Since' = Since
  BY <1>1, <1>2, BoundsKept DEF UsedKept
<1>4. ServerSound' /\ CountOK'
  <2>1. CASE PeerKnown(addr) \/ Refusal(addr, frame) # None
    <3>1. UNCHANGED <<peers, table, queue>>
      BY <2>1 DEF HandleBeta
    <3> QED BY <1>1, <1>2, <3>1 DEF ServerSound, CountOK, Entries
  <2>2. CASE ~(PeerKnown(addr) \/ Refusal(addr, frame) # None)
    <3>1. CreatePeer(addr) /\ table[addr] = 0
      BY <2>2 DEF HandleBeta, PeerKnown
    <3>2. ServerSound'
      BY <1>1, <1>2, <3>1, CreatePeerOK
    <3>3. ~(PeerCount >= plan.peer_count_max)
      BY <2>2 DEF Refusal, None, Some
    <3>4. ~(Cardinality(Entries(table)) >= plan.peer_count_max)
      BY <3>3 DEF PeerCount, Entries
    <3>5. DOMAIN table = Client /\ plan.peer_count_max \in Nat
      BY <1>1, PlanIs DEF ServerSound, ServerOK, SoundOK, EntriesOK
    <3>6. Cardinality(Entries(table')) <= plan.peer_count_max
      BY <3>1, <3>4, <3>5, EntryAdded DEF CreatePeer
    <3> QED BY <1>2, <3>2, <3>6 DEF CountOK, Entries
  <2> QED BY <2>1, <2>2
<1>5. FramesOK'
  <2>1. NetOK(up, down, server.key, Since, asked)
    BY DEF Inv, FramesOK
  <2>2. PICK ack : ack = BetaAckFrame(frame, Refusal(addr, frame))
    OBVIOUS
  <2>3. /\ ack.type = "HandshakeBetaAck"
        /\ ack.error \in {None, Some("Capacity"), Some("Parameter")}
    BY <2>2, RefusalIs DEF BetaAckFrame
  <2>4. \A m \in down' : m \in down \/ m = <<addr, ack>>
    BY <2>2 DEF HandleBeta, SendDown
  <2>5. ASSUME NEW m \in down'
        PROVE  m[1] \in Client /\ DownOK(m[1], m[2], server.key, Since, asked[m[1]])
    <3>1. CASE m \in down
      BY <2>1, <3>1 DEF NetOK
    <3>2. CASE m = <<addr, ack>>
      BY <2>3, <3>2 DEF DownOK
    <3> QED BY <2>4, <3>1, <3>2
  <2>6. NetOK(up, down', server.key, Since, asked)
    BY <2>1, <2>5 DEF NetOK
  <2> QED BY <1>2, <1>3, <2>6 DEF FramesOK
<1>6. ClientsOK'
  BY <1>2, <1>3 DEF Inv, ClientsOK
<1> QED BY <1>3, <1>4, <1>5, <1>6 DEF Inv

LEMMA ServerReceiveInv ==
    ASSUME Inv, NEW m \in up, ServerReceive(m[1], m[2])
    PROVE  Inv'
<1>1. PICK addr, frame : addr \in Client /\ addr = m[1] /\ frame = m[2]
  BY DEF Inv, FramesOK, NetOK
<1>2. UpOK(addr, frame, server.key, Since, asked[addr])
  BY <1>1 DEF Inv, FramesOK, NetOK
<1>3. /\ frame.type = "HandshakeAlpha" => frame.client_nonce \in Client
      /\ frame.type \notin {"HandshakeAlpha", "HandshakeBeta"} => FrameOK(frame)
  BY <1>2, UpIs
<1>4. fired = <<>> /\ UNCHANGED <<clientVars, fired, server, up, used>>
  BY DEF ServerReceive
<1>5. CASE frame.type = "HandshakeAlpha"
  <2>1. HandleAlpha(addr, frame)
    BY <1>1, <1>5 DEF ServerReceive
  <2> QED BY <1>1, <1>3, <1>4, <1>5, <2>1, HandleAlphaInv
<1>6. CASE frame.type = "HandshakeBeta"
  <2>1. HandleBeta(addr, frame)
    BY <1>1, <1>6 DEF ServerReceive
  <2> QED BY <1>1, <1>4, <2>1, HandleBetaInv
<1>7. CASE frame.type \notin {"HandshakeAlpha", "HandshakeBeta"}
  <2>1. ServerHandleOther(addr, frame)
    BY <1>1, <1>7 DEF ServerReceive
  <2>2. FrameOK(frame) /\ ServerSound
    BY <1>3, <1>7 DEF Inv
  <2>3. ServerSound' /\ SentOK
    BY <1>1, <1>4, <2>1, <2>2, ServerHandleOtherOK
  <2>4. UNCHANGED <<plan, client, events, server, asked, up, table>> /\ UsedKept
    BY <1>4, <2>1 DEF ServerHandleOther, UsedKept, clientVars
  <2> QED BY <2>3, <2>4, QuietOK
<1> QED BY <1>5, <1>6, <1>7

-----------------------------------------------------------------------------
(* The steps of clients *)

\* A client that has become new, was told of told before and sends and raises something.
BecomesOK(c, new, told, connecting, key, since, at) ==
    /\ ClientOK(c, [new EXCEPT !.ep = Emptied(new.ep)], told \o new.ep.events, connecting)
    /\ HeldOK(c, [new EXCEPT !.ep = Emptied(new.ep)], key, since, at)
    /\ \A frame \in SeqExt!ToSet(new.ep.frames) : UpOK(c, frame, key, since, at[c])

LEMMA ClientBecomesInv ==
    ASSUME Inv, NEW c \in Client, NEW new, ClientBecomes(c, new),
           UNCHANGED <<plan, serverVars>>, UsedKept,
           BecomesOK(c, new, events[c], plan.clients, server.key, Since, asked)
    PROVE  Inv'
<1>1. BoundsOK /\ CountOK /\ ServerSound /\ FramesOK /\ ClientsOK
  BY DEF Inv
<1>2. UNCHANGED <<plan, peers, table, queue, fired, server, asked>>
  BY DEF serverVars
<1>3. BoundsOK' /\ Since' = Since /\ CountOK' /\ ServerSound'
  <2>1. BoundsOK' /\ Since' = Since
    BY <1>1, <1>2, BoundsKept
  <2> QED BY <1>1, <1>2, <2>1 DEF CountOK, Entries, ServerSound
<1>4. PICK core, told : /\ core = [new EXCEPT !.ep = Emptied(new.ep)]
                        /\ told = events[c] \o new.ep.events
  OBVIOUS
<1>5. /\ client' = [client EXCEPT ![c] = core] /\ events' = [events EXCEPT ![c] = told]
      /\ up' = up \cup {<<c, frame>> : frame \in SeqExt!ToSet(new.ep.frames)}
      /\ down' = {m \in down : m[1] = c => Heeds(new, m[2])}
  BY <1>1, <1>4 DEF ClientBecomes, ClientsOK
<1>6. ClientsOK'
  <2>1. ASSUME NEW d \in Client
        PROVE  /\ ClientOK(d, client'[d], events'[d], plan.clients)
               /\ HeldOK(d, client'[d], server.key, Since, asked)
    <3>1. CASE d = c
      BY <1>1, <1>4, <1>5, <3>1 DEF ClientsOK, BecomesOK
    <3>2. CASE d # c
      BY <1>1, <1>5, <3>2 DEF ClientsOK
    <3> QED BY <3>1, <3>2
  <2>2. DOMAIN client' = Client /\ DOMAIN events' = Client
    BY <1>1, <1>5 DEF ClientsOK
  <2> QED BY <1>2, <1>3, <2>1, <2>2 DEF ClientsOK
<1>7. FramesOK'
  <2>1. NetOK(up, down, server.key, Since, asked)
    BY <1>1 DEF FramesOK
  <2>2. ASSUME NEW m \in up'
        PROVE  m[1] \in Client /\ UpOK(m[1], m[2], server.key, Since, asked[m[1]])
    <3>1. CASE m \in up
      BY <2>1, <3>1 DEF NetOK
    <3>2. CASE m \notin up
      <4>1. PICK frame \in SeqExt!ToSet(new.ep.frames) : m = <<c, frame>>
        BY <1>5, <2>2, <3>2
      <4>2. UpOK(c, frame, server.key, Since, asked[c])
        BY DEF BecomesOK
      <4> QED BY <4>1, <4>2
    <3> QED BY <3>1, <3>2
  <2>3. NetOK(up', down', server.key, Since, asked)
    BY <1>5, <2>1, <2>2 DEF NetOK
  <2> QED BY <1>2, <1>3, <2>3 DEF FramesOK
<1> QED BY <1>3, <1>6, <1>7 DEF Inv

LEMMA EmptiedIs ==
    ASSUME NEW new, DOMAIN new = CoreFields, DOMAIN new.ep = EpFields,
           NEW core, core = [new EXCEPT !.ep = Emptied(new.ep)]
    PROVE  /\ DOMAIN core = CoreFields /\ core.state = new.state /\ core.frame = new.frame
           /\ core.buffer = new.buffer /\ Idle(core.ep) /\ core.ep = Emptied(new.ep)
<1>1. PICK e : e = Emptied(new.ep)
  OBVIOUS
<1>2. Idle(e)
  BY <1>1 DEF Emptied, Idle, EpFields
<1>3. core = [new EXCEPT !.ep = e]
  BY <1>1
<1>4. /\ DOMAIN core = CoreFields /\ core.state = new.state /\ core.frame = new.frame
      /\ core.buffer = new.buffer /\ core.ep = e
  BY <1>3 DEF CoreFields
<1> QED BY <1>1, <1>2, <1>4

\* The handshake goes on.
LEMMA StillConnecting ==
    ASSUME NEW c, NEW new, NEW told, NEW connecting, NEW key, NEW since, NEW at,
           DOMAIN new = CoreFields, DOMAIN new.ep = EpFields, new.state = "Handshake",
           told = <<>>, new.ep.events = <<>>, IsSeq(new.buffer),
           UpOK(c, new.frame, key, since, at[c]),
           IsSeq(new.ep.frames),
           \A i \in 1 .. Len(new.ep.frames) : UpOK(c, new.ep.frames[i], key, since, at[c])
    PROVE  BecomesOK(c, new, told, connecting, key, since, at)
<1>1. PICK core : core = [new EXCEPT !.ep = Emptied(new.ep)]
  OBVIOUS
<1>2. /\ DOMAIN core = CoreFields /\ core.state = new.state /\ core.frame = new.frame
      /\ core.buffer = new.buffer /\ Idle(core.ep)
  BY <1>1, EmptiedIs
<1>3. told \o new.ep.events = <<>>
  OBVIOUS
<1>4. ClientOK(c, core, <<>>, connecting)
  BY <1>2 DEF ClientOK
<1>5. HeldOK(c, core, key, since, at)
  BY <1>2 DEF HeldOK
<1>6. ASSUME NEW frame \in SeqExt!ToSet(new.ep.frames) PROVE UpOK(c, frame, key, since, at[c])
  BY <1>6, ToSetIs DEF Among
<1> QED BY <1>1, <1>3, <1>4, <1>5, <1>6 DEF BecomesOK

\* The endpoint of an active client has been called.
LEMMA StillActive ==
    ASSUME NEW c, NEW new, NEW told, NEW connecting, NEW key, NEW since, NEW at,
           DOMAIN new = CoreFields, new.state = "Active",
           NEW old, EventsOK(told, old), Outcome(old, new.ep, FALSE, TRUE),
           new.ep.state_id # "Zombie"
    PROVE  BecomesOK(c, new, told, connecting, key, since, at)
<1>1. PICK core : core = [new EXCEPT !.ep = Emptied(new.ep)]
  OBVIOUS
<1>2. PICK ep : ep = new.ep
  OBVIOUS
<1>3. DOMAIN ep = EpFields /\ Outcome(old, ep, FALSE, TRUE)
  BY <1>2 DEF Outcome, PartsOK
<1>4. DOMAIN core = CoreFields /\ core.state = "Active" /\ core.ep = Emptied(ep)
  BY <1>1, <1>2, <1>3, EmptiedIs
<1>5. Resting(core.ep, FALSE) /\ core.ep.state_id = ep.state_id
  <2>1. PICK e : e = [ep EXCEPT !.frames = <<>>, !.events = <<>>]
    OBVIOUS
  <2>2. Resting(e, FALSE) /\ e.state_id = ep.state_id
    BY <1>3, <2>1, EmptiedRests
  <2>3. core.ep = e
    BY <1>4, <2>1 DEF Emptied
  <2> QED BY <2>2, <2>3
<1>6. PICK all : all = told \o ep.events
  OBVIOUS
<1>7. EventsOK(all, ep)
  BY <1>3, <1>6, EventsAdded
<1>8. EventsOK(all, core.ep)
  BY <1>5, <1>7 DEF EventsOK, Ended
<1>9. ClientOK(c, core, all, connecting)
  BY <1>2, <1>4, <1>5, <1>8 DEF ClientOK
<1>10. HeldOK(c, core, key, since, at)
  BY <1>4 DEF HeldOK
<1>11. ASSUME NEW frame \in SeqExt!ToSet(ep.frames) PROVE UpOK(c, frame, key, since, at[c])
  <2>1. IsSeq(ep.frames) /\ \A i \in 1 .. Len(ep.frames) : FrameOK(ep.frames[i])
    BY <1>3 DEF Outcome
  <2>2. FrameOK(frame)
    BY <1>11, <2>1, ToSetIs DEF Among
  <2> QED BY <2>2 DEF UpOK
<1> QED BY <1>1, <1>2, <1>6, <1>9, <1>10, <1>11 DEF BecomesOK

\* The client is through.
LEMMA NowQuiescent ==
    ASSUME NEW c \in Client, DOMAIN client[c] = CoreFields, NEW ep, IsSeq(ep.frames),
           \A i \in 1 .. Len(ep.frames) : FrameOK(ep.frames[i]),
           NEW told, NEW connecting, NEW key, NEW since, NEW at, Through(told \o ep.events)
    PROVE  BecomesOK(c, Quiescent(c, ep), told, connecting, key, since, at)
<1>1. PICK e : e = [EndpointNew EXCEPT !.timer = ep.timer, !.events = ep.events,
                                       !.frames = ep.frames]
  OBVIOUS
<1>2. DOMAIN e = EpFields /\ e.frames = ep.frames /\ e.events = ep.events
  <2>1. DOMAIN EndpointNew = EpFields
    BY DEF EndpointNew, EpFields
  <2>2. PICK z : z = EndpointNew
    OBVIOUS
  <2> QED BY <1>1, <2>1, <2>2 DEF EpFields
<1>3. PICK old : old = client[c]
  OBVIOUS
<1>4. PICK new : new = Quiescent(c, ep)
  OBVIOUS
<1>5. new = [old EXCEPT !.state = "Quiescent", !.phase = "Alpha", !.waited = 0,
                        !.buffer = <<>>, !.frame = <<>>, !.ep = e]
  BY <1>1, <1>3, <1>4 DEF Quiescent
<1>6. DOMAIN new = CoreFields /\ new.state = "Quiescent" /\ new.ep = e
  BY <1>3, <1>5 DEF CoreFields
<1>7. PICK core : core = [new EXCEPT !.ep = Emptied(new.ep)]
  OBVIOUS
<1>8. DOMAIN core = CoreFields /\ core.state = "Quiescent" /\ Idle(core.ep)
  BY <1>2, <1>6, <1>7, EmptiedIs
<1>9. ClientOK(c, core, told \o new.ep.events, connecting)
  BY <1>2, <1>6, <1>8 DEF ClientOK
<1>10. HeldOK(c, core, key, since, at)
  BY <1>8 DEF HeldOK
<1>11. ASSUME NEW frame \in SeqExt!ToSet(new.ep.frames) PROVE UpOK(c, frame, key, since, at[c])
  <2>1. new.ep.frames = ep.frames
    BY <1>2, <1>6
  <2>2. FrameOK(frame)
    BY <1>11, <2>1, ToSetIs DEF Among
  <2> QED BY <2>2 DEF UpOK
<1> QED BY <1>4, <1>7, <1>9, <1>10, <1>11 DEF BecomesOK

LEMMA ClientIs ==
    ASSUME Inv, NEW c \in Client
    PROVE  /\ DOMAIN client[c] = CoreFields
           /\ client[c].state \in {"Handshake", "Active", "Quiescent"}
           /\ client[c].state = "Handshake" =>
                 /\ Idle(client[c].ep) /\ events[c] = <<>> /\ IsSeq(client[c].buffer)
                 /\ UpOK(c, client[c].frame, server.key, Since, asked[c])
           /\ client[c].state = "Active" =>
                 /\ Resting(client[c].ep, FALSE) /\ client[c].ep.state_id # "Zombie"
                 /\ EventsOK(events[c], client[c].ep)
           /\ client[c].state = "Quiescent" =>
                 /\ Idle(client[c].ep)
                 /\ Through(events[c]) \/ (c \notin plan.clients /\ events[c] = <<>>)
<1>1. PICK core : core = client[c]
  OBVIOUS
<1>2. /\ ClientOK(c, core, events[c], plan.clients)
      /\ HeldOK(c, core, server.key, Since, asked)
  BY <1>1 DEF Inv, ClientsOK
<1> QED BY <1>1, <1>2 DEF ClientOK, HeldOK

LEMMA WithEndpointIs ==
    ASSUME NEW c, DOMAIN client[c] = CoreFields, NEW ep
    PROVE  /\ DOMAIN WithEndpoint(c, ep) = CoreFields /\ WithEndpoint(c, ep).ep = ep
           /\ WithEndpoint(c, ep).state = client[c].state
           /\ WithEndpoint(c, ep).frame = client[c].frame
           /\ WithEndpoint(c, ep).buffer = client[c].buffer
<1>1. PICK core, new : core = client[c] /\ new = WithEndpoint(c, ep)
  OBVIOUS
<1>2. new = [core EXCEPT !.ep = ep]
  BY <1>1 DEF WithEndpoint
<1> QED BY <1>1, <1>2 DEF CoreFields

\* A call on the endpoint of an active client.
LEMMA ActiveCalled ==
    ASSUME Inv, NEW c \in Client, client[c].state = "Active",
           NEW old, old.state_id = client[c].ep.state_id,
           NEW ep, Outcome(old, ep, FALSE, TRUE), ep.state_id # "Zombie",
           ClientBecomes(c, WithEndpoint(c, ep)), UNCHANGED <<plan, serverVars>>, UsedKept
    PROVE  Inv'
<1>1. DOMAIN client[c] = CoreFields /\ EventsOK(events[c], client[c].ep)
  BY ClientIs
<1>2. PICK new : new = WithEndpoint(c, ep)
  OBVIOUS
<1>3. DOMAIN new = CoreFields /\ new.state = "Active" /\ new.ep = ep
  BY <1>1, <1>2, WithEndpointIs
<1>4. EventsOK(events[c], old)
  BY <1>1 DEF EventsOK, Ended
<1>5. BecomesOK(c, new, events[c], plan.clients, server.key, Since, asked)
  BY <1>3, <1>4, StillActive
<1>6. ClientBecomes(c, new)
  BY <1>2
<1> QED BY <1>5, <1>6, ClientBecomesInv

LEMMA SentKept ==
    ASSUME BoundsOK, NEW c, CountSent(c)
    PROVE  UsedKept
<1>1. PICK n : used' = [used EXCEPT !.sent = n]
  BY DEF CountSent, BoundsOK
<1> QED BY <1>1 DEF BoundsOK, UsedKept

LEMMA ClientCallsInv ==
    ASSUME Inv, NEW c \in Client, client[c].state = "Active",
           ClientFlush(c) \/ ClientDisconnect(c) \/ ClientEnqueue(c) \/ ClientSend(c)
    PROVE  Inv'
<1>1. PICK old : old = client[c].ep
  OBVIOUS
<1>2. DOMAIN client[c] = CoreFields /\ Resting(old, FALSE) /\ old.state_id # "Zombie"
  BY <1>1, ClientIs
<1>3. BoundsOK
  BY DEF Inv
<1>4. CASE ClientFlush(c)
  <2>1. PICK nonces \in Nonces : ClientBecomes(c, WithEndpoint(c, EndpointFlush(client[c].ep, nonces, 0)))
    BY <1>4 DEF ClientFlush
  <2>2. PICK ep : ep = EndpointFlush(old, nonces, 0)
    OBVIOUS
  <2>3. Outcome(old, ep, FALSE, TRUE) /\ ep.state_id = old.state_id
    BY <1>2, <2>2, FlushOutcome, FlushNoZombie
  <2>4. ClientBecomes(c, WithEndpoint(c, ep))
    BY <1>1, <2>1, <2>2
  <2>5. UNCHANGED <<plan, serverVars>> /\ UsedKept
    BY <1>4 DEF ClientFlush, UsedKept
  <2> QED BY <1>1, <1>2, <2>3, <2>4, <2>5, ActiveCalled
<1>5. CASE ClientDisconnect(c)
  <2>1. PICK ep : ep = EndpointDisconnect(old)
    OBVIOUS
  <2>2. Outcome(old, ep, FALSE, TRUE) /\ ep.state_id # "Zombie"
    BY <1>2, <2>1, DisconnectOutcome, DisconnectNoZombie
  <2>3. ClientBecomes(c, WithEndpoint(c, ep))
    BY <1>1, <1>5, <2>1 DEF ClientDisconnect
  <2>4. UNCHANGED <<plan, serverVars>> /\ UsedKept
    BY <1>5 DEF ClientDisconnect, UsedKept
  <2> QED BY <1>1, <2>2, <2>3, <2>4, ActiveCalled
<1>6. PICK e, packet, sure : /\ e = EndpointEnqueue(old, packet, sure, 0) /\ sure = TRUE
                             /\ packet = plan.client_packets[c][used.sent[c] + 1]
  OBVIOUS
<1>7. Resting(e, FALSE) /\ e.state_id = old.state_id
  <2>1. PICK handling : handling = FALSE
    OBVIOUS
  <2>2. Resting(old, handling) /\ e = EndpointEnqueue(old, packet, sure, 0)
    BY <1>2, <1>6, <2>1
  <2>3. Resting(e, handling) /\ e.state_id = old.state_id
    BY <2>2, EnqueueRests
  <2> QED BY <2>1, <2>3
<1>8. Enqueued(c) = WithEndpoint(c, e)
  BY <1>1, <1>6 DEF Enqueued
<1>9. CASE ClientEnqueue(c)
  <2>1. Outcome(e, e, FALSE, TRUE)
    BY <1>7, NothingOutcome
  <2>2. ClientBecomes(c, WithEndpoint(c, e))
    BY <1>8, <1>9 DEF ClientEnqueue
  <2>3. UNCHANGED <<plan, serverVars>> /\ UsedKept
    BY <1>3, <1>9, SentKept DEF ClientEnqueue
  <2> QED BY <1>1, <1>2, <1>7, <2>1, <2>2, <2>3, ActiveCalled
<1>10. CASE ClientSend(c)
  <2>1. PICK nonces \in Nonces : ClientBecomes(c, WithEndpoint(c, EndpointFlush(Enqueued(c).ep, nonces, 0)))
    BY <1>10 DEF ClientSend
  <2>2. Enqueued(c).ep = e
    BY <1>2, <1>8, WithEndpointIs
  <2>3. PICK ep : ep = EndpointFlush(e, nonces, 0)
    OBVIOUS
  <2>4. Outcome(e, ep, FALSE, TRUE) /\ ep.state_id = e.state_id
    BY <1>7, <2>3, FlushOutcome, FlushNoZombie
  <2>5. ClientBecomes(c, WithEndpoint(c, ep))
    BY <2>1, <2>2, <2>3
  <2>6. UNCHANGED <<plan, serverVars>> /\ UsedKept
    BY <1>3, <1>10, SentKept DEF ClientSend
  <2> QED BY <1>1, <1>2, <1>7, <2>4, <2>5, <2>6, ActiveCalled
<1> QED BY <1>4, <1>5, <1>9, <1>10

LEMMA ClientHandleOtherInv ==
    ASSUME Inv, NEW c \in Client, NEW frame, FrameOK(frame), ClientHandleOther(c, frame),
           UNCHANGED <<plan, serverVars>>, UsedKept
    PROVE  Inv'
<1>1. client[c].state = "Active"
  BY DEF ClientHandleOther
<1>2. PICK old : old = client[c].ep
  OBVIOUS
<1>3. Resting(old, FALSE) /\ old.state_id # "Zombie"
  BY <1>1, <1>2, ClientIs
<1>4. PICK rto \in RtoMin .. RtoMax : rto = old.rto_ms
  BY <1>3 DEF Resting, PartsOK
<1>5. PICK nonces \in Nonces :
         ClientBecomes(c, WithEndpoint(c, HandleFrame(old, frame, nonces, rto, 0)))
  BY <1>2, <1>4 DEF ClientHandleOther
<1>6. Outcome(old, HandleFrame(old, frame, nonces, rto, 0), FALSE, TRUE)
  BY <1>3, HandleFrameOutcome
<1>7. HandleFrame(old, frame, nonces, rto, 0).state_id # "Zombie"
  BY <1>3, HandleFrameNoZombie
<1> QED BY <1>1, <1>2, <1>5, <1>6, <1>7, ActiveCalled

LEMMA ActiveTimerInv ==
    ASSUME Inv, NEW c \in Client, ActiveTimer(c)
    PROVE  Inv'
<1>1. client[c].state = "Active" /\ client[c].ep.timer
  BY DEF ActiveTimer
<1>2. PICK old : old = client[c].ep
  OBVIOUS
<1>3. /\ DOMAIN client[c] = CoreFields /\ Resting(old, FALSE)
      /\ EventsOK(events[c], old)
  BY <1>1, <1>2, ClientIs
<1>4. PICK tested : tested = [old EXCEPT !.timer = FALSE]
  OBVIOUS
<1>5. Due(tested)
  BY <1>1, <1>2, <1>3, <1>4, TimerTestKeeps
<1>6. tested.state_id = old.state_id
  BY <1>3, <1>4 DEF Resting, PartsOK, EpFields
<1>7. PICK nonces \in Nonces : \E ep \in {HandleRtoTimer(tested, nonces, 0)} :
         ClientBecomes(c, IF ep.state_id = "Zombie" THEN Quiescent(c, ep)
                                                    ELSE WithEndpoint(c, ep))
  BY <1>2, <1>4 DEF ActiveTimer
<1>8. PICK ep : ep = HandleRtoTimer(tested, nonces, 0)
  OBVIOUS
<1>9. Outcome(tested, ep, FALSE, TRUE)
  BY <1>5, <1>8, HandleRtoTimerOutcome
<1>10. UNCHANGED <<plan, serverVars>> /\ UsedKept
  BY ResendsKept DEF ActiveTimer, Inv
<1>11. CASE ep.state_id = "Zombie"
  <2>1. ClientBecomes(c, Quiescent(c, ep))
    BY <1>7, <1>8, <1>11
  <2>2. EventsOK(events[c], tested)
    BY <1>3, <1>6 DEF EventsOK, Ended
  <2>3. EventsOK(events[c] \o ep.events, ep)
    BY <1>9, <2>2, EventsAdded
  <2>4. Through(events[c] \o ep.events)
    <3>1. Ended(ep)
      BY <1>11 DEF Ended
    <3>2. PICK all : all = events[c] \o ep.events
      OBVIOUS
    <3>3. EventsOK(all, ep)
      BY <2>3, <3>2
    <3> QED BY <3>1, <3>2, <3>3 DEF Through
  <2>5. IsSeq(ep.frames) /\ \A i \in 1 .. Len(ep.frames) : FrameOK(ep.frames[i])
    BY <1>9 DEF Outcome
  <2>6. BecomesOK(c, Quiescent(c, ep), events[c], plan.clients, server.key, Since, asked)
    BY <1>3, <2>4, <2>5, NowQuiescent
  <2> QED BY <1>10, <2>1, <2>6, ClientBecomesInv
<1>12. CASE ep.state_id # "Zombie"
  <2>1. ClientBecomes(c, WithEndpoint(c, ep))
    BY <1>7, <1>8, <1>12
  <2> QED BY <1>1, <1>2, <1>6, <1>9, <1>10, <1>12, <2>1, ActiveCalled
<1> QED BY <1>11, <1>12

\* g holds the endpoints of the loop in Connected.
IsConnectLoop(g, n, buffer) ==
    g = [i \in 0 .. n |-> IF i = 0 THEN EndpointInit(EndpointNew)
                          ELSE EndpointEnqueue(g[i - 1], buffer[i], TRUE, 0)]

LEMMA ConnectLoopExists ==
    ASSUME NEW buffer, NEW n \in Nat
    PROVE  \E g : IsConnectLoop(g, n, buffer)
<1> DEFINE first == EndpointInit(EndpointNew)
           turn(e, i) == EndpointEnqueue(e, buffer[i], TRUE, 0)
           T == {m \in Nat : \E g : g = [i \in 0 .. m |-> IF i = 0 THEN first
                                                         ELSE turn(g[i - 1], i)]}
<1> HIDE DEF first, turn
<1>1. 0 \in T
  <2>1. PICK g : g = [i \in 0 .. 0 |-> first]
    OBVIOUS
  <2>2. g = [i \in 0 .. 0 |-> IF i = 0 THEN first ELSE turn(g[i - 1], i)]
    BY <2>1
  <2> QED BY <2>2
<1>2. ASSUME NEW m \in Nat, m \in T PROVE m + 1 \in T
  <2>1. PICK g : g = [i \in 0 .. m |-> IF i = 0 THEN first ELSE turn(g[i - 1], i)]
    BY <1>2
  <2>2. PICK h : h = [i \in 0 .. m + 1 |-> IF i <= m THEN g[i] ELSE turn(g[m], i)]
    OBVIOUS
  <2>3. ASSUME NEW i \in 0 .. m + 1
        PROVE  h[i] = IF i = 0 THEN first ELSE turn(h[i - 1], i)
    <3>1. CASE i <= m
      <4>1. i \in 0 .. m /\ (i # 0 => i - 1 \in 0 .. m + 1 /\ i - 1 <= m)
        BY <3>1
      <4>2. g[i] = IF i = 0 THEN first ELSE turn(g[i - 1], i)
        BY <2>1, <4>1
      <4>3. h[i] = g[i] /\ (i # 0 => h[i - 1] = g[i - 1])
        BY <2>2, <3>1, <4>1
      <4> QED BY <4>2, <4>3
    <3>2. CASE ~(i <= m)
      <4>1. i # 0 /\ i - 1 = m /\ m \in 0 .. m + 1 /\ m <= m
        BY <3>2
      <4> QED BY <2>2, <3>2, <4>1
    <3> QED BY <3>1, <3>2
  <2>4. h = [i \in 0 .. m + 1 |-> IF i = 0 THEN first ELSE turn(h[i - 1], i)]
    BY <2>2, <2>3
  <2> QED BY <2>4
<1> HIDE DEF T
<1>3. n \in T
  BY <1>1, <1>2, SetInduction
<1> QED BY <1>3 DEF T, first, turn, IsConnectLoop

\* The endpoint of a client that becomes active, whatever its application has sent so far.
LEMMA ConnectedSends ==
    ASSUME NEW buffer, IsSeq(buffer), NEW nonces
    PROVE  Sending(Connected(buffer, nonces), FALSE, <<[kind |-> "Connect"]>>)
<1>1. PICK n \in Nat : n = Len(buffer)
  BY IsSeqLen
<1>2. PICK k : k = CHOOSE g : IsConnectLoop(g, n, buffer)
  OBVIOUS
<1>3. IsConnectLoop(k, n, buffer)
  BY <1>2, ConnectLoopExists
<1>4. Connected(buffer, nonces) = EndpointFlush(k[n], nonces, 0)
  BY <1>1, <1>2 DEF Connected, IsConnectLoop
<1>5. PICK told : told = <<[kind |-> "Connect"]>>
  OBVIOUS
<1>6. PICK sure, off : sure = TRUE /\ off = FALSE
  OBVIOUS
<1> DEFINE T == {m \in Nat : m <= n => Sending(k[m], off, told)}
<1>7. 0 \in T
  <2>1. k[0] = EndpointInit(EndpointNew)
    BY <1>3 DEF IsConnectLoop
  <2>2. Sending(k[0], off, told)
    BY <1>5, <1>6, <2>1, InitSends
  <2> QED BY <2>2
<1>8. ASSUME NEW m \in Nat, m \in T PROVE m + 1 \in T
  <2>1. SUFFICES ASSUME m + 1 <= n PROVE Sending(k[m + 1], off, told)
    OBVIOUS
  <2>2. m + 1 \in 0 .. n /\ m + 1 # 0 /\ (m + 1) - 1 = m /\ m <= n
    BY <2>1
  <2>3. k[m + 1] = EndpointEnqueue(k[m], buffer[m + 1], sure, 0)
    BY <1>3, <1>6, <2>2 DEF IsConnectLoop
  <2>4. Sending(k[m], off, told)
    BY <1>8, <2>2
  <2>5. PICK e, new : e = k[m] /\ new = k[m + 1]
    OBVIOUS
  <2>6. DOMAIN e = EpFields /\ Sending(e, off, told)
    BY <2>4, <2>5 DEF Sending, PartsOK
  <2>7. Alike(new, e)
    BY <2>3, <2>5, <2>6, EnqueueAlike
  <2>8. Sending(new, off, told)
    BY <2>6, <2>7, SendingAlike
  <2> QED BY <2>5, <2>8
<1> HIDE DEF T
<1>9. n \in T
  BY <1>7, <1>8, SetInduction
<1>10. PICK e : e = k[n]
  OBVIOUS
<1>11. Sending(e, off, told)
  BY <1>9, <1>10 DEF T
<1>12. Sending(EndpointFlush(e, nonces, 0), off, told)
  <2>1. e.state_id = "Active"
    BY <1>11 DEF Sending
  <2>2. PICK flushed : flushed = EndpointFlush(e, nonces, 0)
    OBVIOUS
  <2>3. \E no : flushed = FlushStream(e, no, no, nonces, 0) /\ no = FALSE
    BY <2>1, <2>2 DEF EndpointFlush
  <2>4. Sending(flushed, off, told)
    BY <1>11, <2>3, FlushStreamSends
  <2> QED BY <2>2, <2>4
<1> QED BY <1>4, <1>5, <1>6, <1>10, <1>12

LEMMA TimerIdle ==
    ASSUME NEW ep, Idle(ep), NEW x
    PROVE  Idle([ep EXCEPT !.timer = x])
BY DEF Idle, EpFields

LEMMA SendFrameIdle ==
    ASSUME NEW ep, Idle(ep), NEW frame
    PROVE  LET new == SendFrame(ep, frame)
           IN  /\ DOMAIN new = EpFields /\ new.events = <<>>
               /\ IsSeq(new.frames) /\ \A i \in 1 .. Len(new.frames) : new.frames[i] = frame
<1>1. PICK new : new = SendFrame(ep, frame)
  OBVIOUS
<1>2. DOMAIN ep = EpFields /\ ep.frames = <<>> /\ ep.events = <<>>
  BY DEF Idle
<1>3. Append(ep.frames, frame) = <<frame>>
  BY <1>2
<1>4. new = [ep EXCEPT !.frames = <<frame>>]
  BY <1>1, <1>2, <1>3 DEF SendFrame, EpFields
<1>5. DOMAIN new = EpFields /\ new.events = <<>> /\ new.frames = <<frame>>
  BY <1>2, <1>4 DEF EpFields
<1>6. PICK sent : sent = <<frame>>
  OBVIOUS
<1>7. IsSeq(sent) /\ Len(sent) = 1 /\ sent[1] = frame
  BY <1>6, IsSeqShort
<1>8. \A i \in 1 .. Len(sent) : sent[i] = frame
  BY <1>7
<1> QED BY <1>1, <1>5, <1>6, <1>7, <1>8

LEMMA HandleAlphaAckInv ==
    ASSUME Inv, NEW c \in Client, NEW frame,
           Cookie(c, frame, server.key, Since, asked[c]), HandleAlphaAck(c, frame),
           UNCHANGED <<plan, serverVars>>, UsedKept
    PROVE  Inv'
<1>1. PICK core : core = client[c]
  OBVIOUS
<1>2. /\ DOMAIN core = CoreFields /\ core.state = "Handshake" /\ Idle(core.ep)
      /\ events[c] = <<>> /\ IsSeq(core.buffer)
  BY <1>1, ClientIs DEF HandleAlphaAck
<1>3. PICK beta : beta = BetaFrame(frame)
  OBVIOUS
<1>4. UpOK(c, beta, server.key, Since, asked[c])
  <2>1. /\ beta.type = "HandshakeBeta" /\ beta.client_nonce = frame.client_nonce
        /\ beta.server_nonce = frame.server_nonce
        /\ beta.server_timestamp = frame.server_timestamp
        /\ beta.server_mac = frame.server_mac
    BY <1>3 DEF BetaFrame
  <2>2. Cookie(c, beta, server.key, Since, asked[c])
    BY <2>1 DEF Cookie
  <2> QED BY <2>1, <2>2 DEF UpOK
<1>5. PICK set : set = TRUE
  OBVIOUS
<1>6. PICK e, f : f = [core.ep EXCEPT !.timer = set] /\ e = SendFrame(f, beta)
  OBVIOUS
<1>7. /\ DOMAIN e = EpFields /\ e.events = <<>>
      /\ IsSeq(e.frames) /\ \A i \in 1 .. Len(e.frames) : e.frames[i] = beta
  <2>1. Idle(f)
    BY <1>2, <1>6, TimerIdle
  <2> QED BY <1>6, <2>1, SendFrameIdle
<1>8. PICK new : new = [core EXCEPT !.phase = "Beta", !.waited = 0, !.frame = beta, !.ep = e]
  OBVIOUS
<1>9. /\ DOMAIN new = CoreFields /\ new.state = "Handshake" /\ new.buffer = core.buffer
      /\ new.frame = beta /\ new.ep = e
  BY <1>2, <1>8 DEF CoreFields
<1>10. ClientBecomes(c, new)
  <2>1. e = SendFrame([client[c].ep EXCEPT !.timer = TRUE], BetaFrame(frame))
    BY <1>1, <1>3, <1>5, <1>6
  <2> QED BY <1>1, <1>3, <1>8, <2>1 DEF HandleAlphaAck
<1>11. IsSeq(e.frames) /\ \A i \in 1 .. Len(e.frames) : UpOK(c, e.frames[i], server.key, Since, asked[c])
  BY <1>4, <1>7
<1>12. BecomesOK(c, new, events[c], plan.clients, server.key, Since, asked)
  BY <1>2, <1>4, <1>7, <1>9, <1>11, StillConnecting
<1> QED BY <1>10, <1>12, ClientBecomesInv

LEMMA FailedOK ==
    ASSUME NEW ep, Idle(ep), NEW kind \in Endings \ {"Disconnect"},
           NEW told, told = <<>>, NEW e, e = Raise(ep, [kind |-> kind])
    PROVE  /\ IsSeq(e.frames) /\ \A i \in 1 .. Len(e.frames) : FrameOK(e.frames[i])
           /\ Through(told \o e.events)
<1>1. DOMAIN ep = EpFields /\ ep.frames = <<>> /\ ep.events = <<>>
  BY DEF Idle
<1>2. PICK event : event = [kind |-> kind] /\ event.kind = kind
  OBVIOUS
<1>3. Append(ep.events, event) = <<event>>
  BY <1>1
<1>4. e = [ep EXCEPT !.events = <<event>>]
  BY <1>1, <1>2, <1>3 DEF Raise, EpFields
<1>5. e.frames = <<>> /\ e.events = <<event>>
  BY <1>1, <1>4 DEF EpFields
<1>6. PICK all : all = told \o e.events
  OBVIOUS
<1>7. all = <<event>>
  BY <1>5, <1>6
<1>8. IsSeq(all) /\ Len(all) = 1 /\ all[1].kind \in Endings \ {"Disconnect"}
  BY <1>2, <1>7, IsSeqShort
<1>9. 1 .. Len(<<>>) = {}
  OBVIOUS
<1> QED BY <1>5, <1>6, <1>8, <1>9, EmptyIsSeq DEF Through

LEMMA HandleBetaAckInv ==
    ASSUME Inv, NEW c \in Client, NEW frame,
           frame.error \in {None, Some("Capacity"), Some("Parameter")}, HandleBetaAck(c, frame),
           UNCHANGED <<plan, serverVars>>, UsedKept
    PROVE  Inv'
<1>1. PICK core : core = client[c]
  OBVIOUS
<1>2. /\ DOMAIN core = CoreFields /\ core.state = "Handshake" /\ Idle(core.ep)
      /\ events[c] = <<>> /\ IsSeq(core.buffer)
  BY <1>1, ClientIs DEF HandleBetaAck
<1>3. CASE frame.error = None
  <2>1. PICK nonces \in Nonces :
           ClientBecomes(c, [client[c] EXCEPT
              !.state = "Active", !.phase = "Alpha", !.waited = 0, !.buffer = <<>>,
              !.frame = <<>>, !.ep = Connected(client[c].buffer, nonces)])
    BY <1>3 DEF HandleBetaAck
  <2>2. PICK e, told : e = Connected(core.buffer, nonces) /\ told = <<[kind |-> "Connect"]>>
    OBVIOUS
  <2>3. PICK off : off = FALSE
    OBVIOUS
  <2>4. Sending(e, off, told)
    BY <1>2, <2>2, <2>3, ConnectedSends
  <2>5. PICK new : new = [core EXCEPT !.state = "Active", !.phase = "Alpha", !.waited = 0,
                                      !.buffer = <<>>, !.frame = <<>>, !.ep = e]
    OBVIOUS
  <2>6. ClientBecomes(c, new)
    BY <1>1, <2>1, <2>2, <2>5
  <2>7. DOMAIN new = CoreFields /\ new.state = "Active" /\ new.ep = e
    BY <1>2, <2>5 DEF CoreFields
  <2>8. PICK rest : rest = [e EXCEPT !.frames = <<>>, !.events = <<>>]
    OBVIOUS
  <2>9. Resting(rest, off) /\ rest.state_id = "Active"
    BY <2>4, <2>8, SendingRests
  <2>10. DOMAIN e = EpFields /\ e.events = told /\ StreamFrames(e.frames)
    BY <2>4 DEF Sending, PartsOK
  <2>11. PICK after : after = [new EXCEPT !.ep = Emptied(new.ep)]
    OBVIOUS
  <2>12. DOMAIN after = CoreFields /\ after.state = "Active" /\ after.ep = Emptied(e)
    BY <2>7, <2>10, <2>11, EmptiedIs
  <2>13. Emptied(e) = rest
    BY <2>8 DEF Emptied
  <2>14. EventsOK(told, rest)
    <3>1. ~Ended(rest)
      BY <2>9 DEF Ended
    <3> QED BY <2>2, <3>1, ConnectOK
  <2>15. events[c] \o new.ep.events = told
    BY <1>2, <2>2, <2>7, <2>10
  <2>16. ClientOK(c, after, told, plan.clients)
    <3>1. Resting(rest, FALSE)
      BY <2>3, <2>9
    <3> QED BY <2>9, <2>12, <2>13, <2>14, <3>1 DEF ClientOK
  <2>17. HeldOK(c, after, server.key, Since, asked)
    BY <2>12 DEF HeldOK
  <2>18. ASSUME NEW f \in SeqExt!ToSet(new.ep.frames)
         PROVE  UpOK(c, f, server.key, Since, asked[c])
    <3>1. IsSeq(e.frames) /\ \A i \in 1 .. Len(e.frames) : StreamFrameOK(e.frames[i])
      BY <2>10 DEF StreamFrames
    <3>2. StreamFrameOK(f)
      BY <2>7, <2>18, <3>1, ToSetIs DEF Among
    <3> QED BY <3>2 DEF UpOK, FrameOK
  <2>19. BecomesOK(c, new, events[c], plan.clients, server.key, Since, asked)
    BY <2>11, <2>15, <2>16, <2>17, <2>18 DEF BecomesOK
  <2> QED BY <2>6, <2>19, ClientBecomesInv
<1>4. CASE frame.error # None
  <2>1. PICK kind : kind = frame.error[1]
    OBVIOUS
  <2>2. kind \in Endings \ {"Disconnect"}
    BY <1>4, <2>1 DEF None, Some, Endings
  <2>3. PICK e : e = Raise(core.ep, [kind |-> kind])
    OBVIOUS
  <2>4. ClientBecomes(c, Quiescent(c, e))
    BY <1>1, <1>4, <2>1, <2>3 DEF HandleBetaAck, Failed
  <2>6. PICK old, told : old = core.ep /\ told = events[c]
    OBVIOUS
  <2>7. e = Raise(old, [kind |-> kind]) /\ told = <<>> /\ Idle(old)
    BY <1>2, <2>3, <2>6
  <2>8. /\ IsSeq(e.frames) /\ \A i \in 1 .. Len(e.frames) : FrameOK(e.frames[i])
        /\ Through(told \o e.events)
    BY <2>2, <2>7, FailedOK
  <2>9. BecomesOK(c, Quiescent(c, e), events[c], plan.clients, server.key, Since, asked)
    BY <1>1, <1>2, <2>6, <2>8, NowQuiescent
  <2> QED BY <2>4, <2>9, ClientBecomesInv
<1> QED BY <1>3, <1>4

LEMMA HandshakeTimerInv ==
    ASSUME Inv, NEW c \in Client, HandshakeTimer(c)
    PROVE  Inv'
<1>1. PICK core : core = client[c]
  OBVIOUS
<1>2. /\ DOMAIN core = CoreFields /\ core.state = "Handshake" /\ Idle(core.ep)
      /\ events[c] = <<>> /\ IsSeq(core.buffer)
      /\ UpOK(c, core.frame, server.key, Since, asked[c])
  BY <1>1, ClientIs DEF HandshakeTimer
<1>3. UNCHANGED <<plan, serverVars>> /\ UsedKept
  BY DEF HandshakeTimer, UsedKept
<1>4. PICK waited :
         IF waited >= HandshakeTries
         THEN ClientBecomes(c, Quiescent(c, Raise([client[c].ep EXCEPT !.timer = FALSE],
                                                  [kind |-> "Timeout"])))
         ELSE ClientBecomes(c, [client[c] EXCEPT
                 !.waited = waited, !.ep = SendFrame(@, client[c].frame)])
  BY DEF HandshakeTimer
<1>5. CASE waited >= HandshakeTries
  <2>1. PICK kind, off, told : kind = "Timeout" /\ off = FALSE /\ told = events[c]
    OBVIOUS
  <2>2. PICK e, f : f = [core.ep EXCEPT !.timer = off] /\ e = Raise(f, [kind |-> kind])
    OBVIOUS
  <2>3. kind \in Endings \ {"Disconnect"} /\ told = <<>> /\ Idle(f)
    <3>1. Idle(f)
      BY <1>2, <2>2, TimerIdle
    <3> QED BY <1>2, <2>1, <3>1 DEF Endings
  <2>4. /\ IsSeq(e.frames) /\ \A i \in 1 .. Len(e.frames) : FrameOK(e.frames[i])
        /\ Through(told \o e.events)
    BY <2>2, <2>3, FailedOK
  <2>5. BecomesOK(c, Quiescent(c, e), events[c], plan.clients, server.key, Since, asked)
    BY <1>1, <1>2, <2>1, <2>4, NowQuiescent
  <2>6. e = Raise([client[c].ep EXCEPT !.timer = FALSE], [kind |-> "Timeout"])
    BY <1>1, <2>1, <2>2
  <2>7. ClientBecomes(c, Quiescent(c, e))
    BY <1>4, <1>5, <2>6
  <2> QED BY <1>3, <2>5, <2>7, ClientBecomesInv
<1>6. CASE ~(waited >= HandshakeTries)
  <2>3. PICK old, frame : old = core.ep /\ frame = core.frame
    OBVIOUS
  <2>4. PICK e : e = SendFrame(old, frame)
    OBVIOUS
  <2>5. /\ DOMAIN e = EpFields /\ e.events = <<>>
        /\ IsSeq(e.frames) /\ \A i \in 1 .. Len(e.frames) : e.frames[i] = frame
    BY <1>2, <2>3, <2>4, SendFrameIdle
  <2>6. PICK new : new = [core EXCEPT !.waited = waited, !.ep = e]
    OBVIOUS
  <2>7. /\ DOMAIN new = CoreFields /\ new.state = "Handshake" /\ new.buffer = core.buffer
        /\ new.frame = core.frame /\ new.ep = e
    BY <1>2, <2>6 DEF CoreFields
  <2>8. ClientBecomes(c, new)
    <3>1. e = SendFrame(client[c].ep, client[c].frame)
      BY <1>1, <2>3, <2>4
    <3>2. ClientBecomes(c, [client[c] EXCEPT !.waited = waited,
                               !.ep = SendFrame(client[c].ep, client[c].frame)])
      BY <1>1, <1>2, <1>4, <1>6 DEF CoreFields
    <3> QED BY <1>1, <2>6, <3>1, <3>2
  <2>9. IsSeq(e.frames) /\ \A i \in 1 .. Len(e.frames) : UpOK(c, e.frames[i], server.key, Since, asked[c])
    BY <1>2, <2>3, <2>5
  <2>10. BecomesOK(c, new, events[c], plan.clients, server.key, Since, asked)
    BY <1>2, <2>5, <2>7, <2>9, StillConnecting
  <2> QED BY <1>3, <2>8, <2>10, ClientBecomesInv
<1> QED BY <1>5, <1>6

LEMMA ConcatEmpty ==
    ASSUME NEW s, IsSeq(s)
    PROVE  s \o <<>> = s
<1>1. PICK X : s \in Seq(X)
  BY DEF IsSeq
<1> QED BY <1>1

LEMMA QuiescentTimerInv ==
    ASSUME Inv, NEW c \in Client, QuiescentTimer(c)
    PROVE  Inv'
<1>1. PICK core, told : core = client[c] /\ told = events[c]
  OBVIOUS
<1>2. /\ DOMAIN core = CoreFields /\ core.state = "Quiescent" /\ Idle(core.ep)
      /\ Through(told) \/ (c \notin plan.clients /\ told = <<>>)
  BY <1>1, ClientIs DEF QuiescentTimer
<1>3. UNCHANGED <<plan, serverVars>> /\ UsedKept
  BY DEF QuiescentTimer, UsedKept
<1>4. PICK off : off = FALSE
  OBVIOUS
<1>5. PICK e : e = [core.ep EXCEPT !.timer = off]
  OBVIOUS
<1>6. Idle(e)
  BY <1>2, <1>5, TimerIdle
<1>7. PICK new : new = WithEndpoint(c, e)
  OBVIOUS
<1>8. DOMAIN new = CoreFields /\ new.state = "Quiescent" /\ new.ep = e
  BY <1>1, <1>2, <1>7, WithEndpointIs
<1>9. ClientBecomes(c, new)
  <2>1. e = [client[c].ep EXCEPT !.timer = FALSE]
    BY <1>1, <1>4, <1>5
  <2> QED BY <1>7, <2>1 DEF QuiescentTimer
<1>10. IsSeq(told)
  BY <1>2, EmptyIsSeq DEF Through, EventsOK
<1>11. told \o new.ep.events = told
  BY <1>6, <1>8, <1>10, ConcatEmpty DEF Idle
<1>12. PICK after : after = [new EXCEPT !.ep = Emptied(new.ep)]
  OBVIOUS
<1>13. DOMAIN after = CoreFields /\ after.state = "Quiescent" /\ Idle(after.ep)
  BY <1>6, <1>8, <1>12, EmptiedIs DEF Idle
<1>14. ClientOK(c, after, told, plan.clients) /\ HeldOK(c, after, server.key, Since, asked)
  BY <1>2, <1>13 DEF ClientOK, HeldOK
<1>15. ASSUME NEW f \in SeqExt!ToSet(new.ep.frames) PROVE FALSE
  <2>1. new.ep.frames = <<>>
    BY <1>6, <1>8 DEF Idle
  <2> QED BY <1>15, <2>1, ToSetIs, EmptyIsSeq, EmptyDistinct
<1>16. BecomesOK(c, new, events[c], plan.clients, server.key, Since, asked)
  BY <1>1, <1>11, <1>12, <1>14, <1>15 DEF BecomesOK
<1> QED BY <1>3, <1>9, <1>16, ClientBecomesInv

LEMMA EnqueueEarlyInv ==
    ASSUME Inv, NEW c \in Client, client[c].state = "Handshake", ClientEnqueue(c)
    PROVE  Inv'
<1>1. PICK core : core = client[c]
  OBVIOUS
<1>2. /\ DOMAIN core = CoreFields /\ core.state = "Handshake" /\ Idle(core.ep)
      /\ events[c] = <<>> /\ IsSeq(core.buffer)
      /\ UpOK(c, core.frame, server.key, Since, asked[c])
  BY <1>1, ClientIs
<1>3. UNCHANGED <<plan, serverVars>> /\ UsedKept
  BY SentKept DEF ClientEnqueue, Inv
<1>4. PICK packet : packet = plan.client_packets[c][used.sent[c] + 1]
  OBVIOUS
<1>5. PICK longer : longer = Append(core.buffer, packet)
  OBVIOUS
<1>6. PICK new : new = [core EXCEPT !.buffer = longer]
  OBVIOUS
<1>7. /\ DOMAIN new = CoreFields /\ new.state = "Handshake" /\ new.buffer = longer
      /\ new.frame = core.frame /\ new.ep = core.ep
  BY <1>2, <1>6 DEF CoreFields
<1>8. IsSeq(longer)
  BY <1>2, <1>5, IsSeqAppend
<1>9. ClientBecomes(c, new)
  <2>1. Enqueued(c) = new
    BY <1>1, <1>2, <1>4, <1>5, <1>6 DEF Enqueued, CoreFields
  <2> QED BY <2>1 DEF ClientEnqueue
<1>10. /\ DOMAIN new.ep = EpFields /\ new.ep.events = <<>> /\ IsSeq(new.ep.frames)
       /\ \A i \in 1 .. Len(new.ep.frames) : UpOK(c, new.ep.frames[i], server.key, Since, asked[c])
  <2>1. new.ep.frames = <<>> /\ 1 .. Len(<<>>) = {}
    BY <1>2, <1>7 DEF Idle
  <2> QED BY <1>2, <1>7, <2>1, EmptyIsSeq DEF Idle
<1>11. BecomesOK(c, new, events[c], plan.clients, server.key, Since, asked)
  BY <1>2, <1>7, <1>8, <1>10, StillConnecting
<1> QED BY <1>3, <1>9, <1>11, ClientBecomesInv

LEMMA DownIs ==
    ASSUME NEW addr, NEW frame, NEW key, NEW since, NEW at, DownOK(addr, frame, key, since, at)
    PROVE  /\ frame.type = "HandshakeAlphaAck" => Cookie(addr, frame, key, since, at)
           /\ frame.type = "HandshakeBetaAck" =>
                 frame.error \in {None, Some("Capacity"), Some("Parameter")}
           /\ frame.type \notin {"HandshakeAlphaAck", "HandshakeBetaAck"} => FrameOK(frame)
<1>1. FrameOK(frame) => frame.type \in {"Stream", "StreamSync", "Close", "CloseAck"}
  BY DEF FrameOK, StreamFrameOK
<1> QED BY <1>1 DEF DownOK

LEMMA ClientReceiveInv ==
    ASSUME Inv, NEW m \in down, m[1] \in Client, ClientReceive(m[1], m[2])
    PROVE  Inv'
<1>1. PICK c, frame : c \in Client /\ c = m[1] /\ frame = m[2]
  OBVIOUS
<1>2. DownOK(c, frame, server.key, Since, asked[c])
  BY <1>1 DEF Inv, FramesOK, NetOK
<1>3. UNCHANGED <<plan, serverVars>> /\ UsedKept
  BY DEF ClientReceive, UsedKept
<1>4. CASE frame.type = "HandshakeAlphaAck"
  <2>1. HandleAlphaAck(c, frame)
    BY <1>1, <1>4 DEF ClientReceive
  <2>2. Cookie(c, frame, server.key, Since, asked[c])
    BY <1>2, <1>4, DownIs
  <2> QED BY <1>1, <1>3, <2>1, <2>2, HandleAlphaAckInv
<1>5. CASE frame.type = "HandshakeBetaAck"
  <2>1. HandleBetaAck(c, frame)
    BY <1>1, <1>5 DEF ClientReceive
  <2>2. frame.error \in {None, Some("Capacity"), Some("Parameter")}
    BY <1>2, <1>5, DownIs
  <2> QED BY <1>1, <1>3, <2>1, <2>2, HandleBetaAckInv
<1>6. CASE frame.type \notin {"HandshakeAlphaAck", "HandshakeBetaAck"}
  <2>1. ClientHandleOther(c, frame)
    BY <1>1, <1>6 DEF ClientReceive
  <2>2. FrameOK(frame)
    BY <1>2, <1>6, DownIs
  <2> QED BY <1>1, <1>3, <2>1, <2>2, ClientHandleOtherInv
<1> QED BY <1>4, <1>5, <1>6

\* A step that only an application's event loop takes.
LEMMA AppInv ==
    ASSUME Inv, UNCHANGED <<plan, client, events, serverVars, up, down, used>>
    PROVE  Inv'
<1>1. UNCHANGED <<peers, table, queue, fired, server, asked>>
  BY DEF serverVars
<1>2. BoundsOK' /\ Since' = Since
  BY <1>1 DEF Inv, BoundsOK, Since
<1> QED BY <1>1, <1>2 DEF Inv, CountOK, Entries, ServerSound, FramesOK, ClientsOK

LEMMA NextInv ==
    ASSUME Inv, [Next]_connVars
    PROVE  Inv'
<1>1. ASSUME NEW c \in Client, ClientNext(c) PROVE Inv'
  <2>1. CASE \E m \in down : m[1] = c /\ ClientReceive(c, m[2])
    BY <2>1, ClientReceiveInv
  <2>2. CASE ClientTimer(c)
    BY <2>2, HandshakeTimerInv, ActiveTimerInv, QuiescentTimerInv DEF ClientTimer
  <2>3. CASE ClientEnqueue(c) \/ ClientSend(c) \/ ClientFlush(c) \/ ClientDisconnect(c)
    <3>1. client[c].state = "Active" \/ (client[c].state = "Handshake" /\ ClientEnqueue(c))
      BY <2>3, ClientIs DEF ClientEnqueue, ClientSend, ClientFlush, ClientDisconnect, HasNext
    <3> QED BY <2>3, <3>1, ClientCallsInv, EnqueueEarlyInv
  <2>4. CASE WaitEvent(c) \/ PollEvent(c) \/ ReturnEvent(c)
    <3>1. UNCHANGED <<plan, client, events, serverVars, up, down, used>>
      BY <2>4 DEF WaitEvent, PollEvent, ReturnEvent
    <3> QED BY <3>1, AppInv
  <2> QED BY <1>1, <2>1, <2>2, <2>3, <2>4 DEF ClientNext
<1>2. CASE ServerNext
  <2>1. CASE \E m \in up : ServerReceive(m[1], m[2])
    BY <2>1, ServerReceiveInv
  <2>2. CASE (\E expired \in SUBSET DOMAIN peers : TimerTest(expired)) \/ PeerTimer
    BY <2>2, TimersInv
  <2>3. CASE \E p \in DOMAIN peers : \/ PeerEnqueue(p) \/ PeerFlush(p) \/ PeerSend(p)
                                     \/ PeerDisconnect(p) \/ DropHandles(p)
    BY <2>3, HandlesInv
  <2>4. CASE Tick \/ Restart
    BY <2>4, TickInv, RestartInv
  <2> QED BY <1>2, <2>1, <2>2, <2>3, <2>4 DEF ServerNext
<1>3. CASE UNCHANGED connVars
  <2>1. UNCHANGED <<plan, client, events, serverVars, up, down, used>>
    BY <1>3 DEF connVars, serverVars
  <2> QED BY <2>1, AppInv
<1> QED BY <1>1, <1>2, <1>3 DEF Next

\* Before anything has happened.
LEMMA ClientNewOK ==
    ASSUME NEW c \in Client
    PROVE  /\ ClientOK(c, ClientNew(c), <<>>, plan.clients)
           /\ ClientNew(c).frame = AlphaFrame(c)
<1>1. PICK sure : sure = (c \in plan.clients)
  OBVIOUS
<1>2. PICK new : new = EndpointNew
  OBVIOUS
<1>3. Idle(new)
  <2>1. DOMAIN EndpointNew = EpFields
    BY DEF EndpointNew, EpFields
  <2>2. EndpointNew.frames = <<>> /\ EndpointNew.events = <<>>
    BY DEF EndpointNew
  <2> QED BY <1>2, <2>1, <2>2 DEF Idle
<1>4. PICK ep : ep = [new EXCEPT !.timer = sure]
  OBVIOUS
<1>5. Idle(ep)
  BY <1>3, <1>4, TimerIdle
<1>6. PICK core : core = ClientNew(c)
  OBVIOUS
<1>7. core.ep = ep
  BY <1>1, <1>2, <1>4, <1>6 DEF ClientNew
<1>8. /\ DOMAIN core = CoreFields /\ core.buffer = <<>> /\ core.frame = AlphaFrame(c)
      /\ core.state = IF c \in plan.clients THEN "Handshake" ELSE "Quiescent"
  BY <1>6 DEF ClientNew, CoreFields
<1>9. IsSeq(<<>>)
  BY EmptyIsSeq
<1>10. ClientOK(c, core, <<>>, plan.clients)
  <2>1. CASE c \in plan.clients
    BY <1>5, <1>7, <1>8, <1>9, <2>1 DEF ClientOK
  <2>2. CASE c \notin plan.clients
    BY <1>5, <1>7, <1>8, <2>2 DEF ClientOK
  <2> QED BY <2>1, <2>2
<1> QED BY <1>6, <1>8, <1>10

LEMMA InitInv ==
    ASSUME Init
    PROVE  Inv
<1>1. BoundsOK
  <2>1. HandshakeTimeout \in Nat /\ StartTime \in Nat
    BY ConnectionAssumption
  <2>2. plan \in Plans /\ plan \in Plan
    BY ConnectionAssumption DEF Init
  <2>3. plan.ticks \in Nat /\ plan.restarts \in Nat
    BY <2>2 DEF Plan
  <2>4. /\ DOMAIN used = {"ticks", "resends", "restarts", "sent"}
        /\ used.ticks = 0 /\ used.restarts = 0
        /\ DOMAIN server = {"key", "now_ms"} /\ server.key = 0 /\ server.now_ms = StartTime
        /\ DOMAIN asked = Client
    BY DEF Init
  <2>5. \A c \in Client : asked[c] = -HandshakeTimeout
    BY DEF Init
  <2>6. \A c \in Client : asked[c] \in Int /\ asked[c] <= server.now_ms
    BY <2>1, <2>4, <2>5
  <2> QED BY <2>1, <2>2, <2>3, <2>4, <2>6 DEF BoundsOK
<1>2. CountOK
  <2>1. Cardinality(Entries(table)) = 0
    BY NoEntries DEF Init
  <2> QED BY <1>1, <2>1, PlanIs DEF CountOK
<1>3. ServerSound
  BY NothingOK DEF Init, ServerSound
<1>4. ASSUME NEW c \in Client, NEW key, NEW since, NEW at
      PROVE  UpOK(c, AlphaFrame(c), key, since, at)
  BY DEF UpOK, AlphaFrame
<1>5. FramesOK
  <2>1. down = {} /\ up = {<<c, AlphaFrame(c)>> : c \in plan.clients}
    BY DEF Init
  <2>2. plan.clients \subseteq Client
    <3>1. plan \in Plan
      BY ConnectionAssumption DEF Init
    <3> QED BY <3>1 DEF Plan
  <2>3. ASSUME NEW m \in up
        PROVE  m[1] \in Client /\ UpOK(m[1], m[2], server.key, Since, asked[m[1]])
    <3>1. PICK c \in Client : m = <<c, AlphaFrame(c)>>
      BY <2>1, <2>2
    <3>2. m[1] = c /\ m[2] = AlphaFrame(c)
      BY <3>1
    <3> QED BY <1>4, <3>2
  <2> QED BY <2>1, <2>3 DEF FramesOK, NetOK
<1>6. ClientsOK
  <2>1. DOMAIN client = Client /\ DOMAIN events = Client
    BY DEF Init
  <2>2. ASSUME NEW c \in Client
        PROVE  /\ ClientOK(c, client[c], events[c], plan.clients)
               /\ HeldOK(c, client[c], server.key, Since, asked)
    <3>1. client[c] = ClientNew(c) /\ events[c] = <<>>
      BY DEF Init
    <3>2. ClientOK(c, client[c], events[c], plan.clients) /\ client[c].frame = AlphaFrame(c)
      BY <3>1, ClientNewOK
    <3> QED BY <1>4, <3>2 DEF HeldOK
  <2> QED BY <2>1, <2>2 DEF ClientsOK
<1> QED BY <1>1, <1>2, <1>3, <1>5, <1>6 DEF Inv

-----------------------------------------------------------------------------
(* What the invariant says of the table *)

\* A peer is once in a queue that it is in and that has no repetitions.
LEMMA AmongOnce ==
    ASSUME NEW s, Distinct(s), NEW x, Among(x, s)
    PROVE  Cardinality({i \in DOMAIN s : s[i] = x}) = 1
<1>1. PICK j \in 1 .. Len(s) : s[j] = x
  BY DEF Among
<1>2. DOMAIN s = 1 .. Len(s)
  BY IsSeqLen DEF Distinct
<1>3. {i \in DOMAIN s : s[i] = x} = {j}
  BY <1>1, <1>2 DEF Distinct
<1> QED BY <1>3, FS_Singleton

LEMMA PeerPlaced ==
    ASSUME ServerSound, NEW p \in DOMAIN peers
    PROVE  /\ table[peers[p].addr] = p <=> peers[p].ep.state_id \notin {"PreInit", "Zombie"}
           /\ Live(p) => Cardinality({i \in DOMAIN queue : queue[i] = p}) = 1
<1>1. /\ PeersOK(peers, table, fired) /\ QueuesOK(peers, table, queue, fired)
      /\ GoneOK(peers, table, fired)
  BY DEF ServerSound, ServerOK, SoundOK
<1>2. IsSeq(fired) /\ Distinct(queue)
  BY <1>1 DEF QueuesOK, Distinct
<1>3. CASE Live(p)
  <2>1. LiveIn(peers, table, fired, p)
    BY <1>3 DEF Live
  <2>2. /\ Resting(peers[p].ep, Among(p, fired))
        /\ table[peers[p].addr] = p <=> peers[p].ep.state_id # "Zombie"
    BY <1>1, <2>1 DEF PeersOK
  <2>3. peers[p].ep.state_id # "PreInit"
    BY <2>2, StateOneOf DEF Resting
  <2>4. Among(p, queue)
    BY <1>1, <2>1 DEF QueuesOK
  <2>5. Cardinality({i \in DOMAIN queue : queue[i] = p}) = 1
    BY <1>2, <2>4, AmongOnce
  <2> QED BY <2>2, <2>3, <2>5
<1>4. CASE ~Live(p)
  <2>1. ~LiveIn(peers, table, fired, p)
    BY <1>4 DEF Live
  <2>2. table[peers[p].addr] # p
    BY <2>1 DEF LiveIn
  <2>3. peers[p].ep = EndpointNew
    <3>1. PICK addr : addr = peers[p].addr
      OBVIOUS
    <3>2. peers[p] = PeerNew(addr)
      BY <1>1, <2>1, <3>1 DEF GoneOK
    <3> QED BY <3>2, PeerNewIs
  <2>4. EndpointNew.state_id = "PreInit"
    BY DEF EndpointNew
  <2> QED BY <1>4, <2>2, <2>3, <2>4
<1> QED BY <1>3, <1>4

-----------------------------------------------------------------------------
(* What the invariant says of the events *)

LEMMA EventsAreLifecycle ==
    ASSUME NEW told, NEW e, EventsOK(told, e)
    PROVE  Lifecycle(told) /\ (Ended(e) => told # <<>> /\ SeqExt!Last(told).kind \in Endings)
<1>1. /\ IsSeq(told) /\ Len(told) >= 1 /\ DOMAIN told = 1 .. Len(told)
  BY IsSeqLen DEF EventsOK
<1>2. ASSUME NEW i \in DOMAIN told
      PROVE  /\ i = 1 <=> told[i].kind = "Connect"
             /\ told[i].kind \in Endings => i = Len(told)
  <2>1. /\ told[i].kind \in {"Connect", "Receive"} \cup EndKinds
        /\ i = 1 <=> told[i].kind = "Connect"
        /\ told[i].kind \in EndKinds => i = Len(told)
    BY <1>1, <1>2 DEF EventsOK
  <2>2. told[i].kind \in Endings => told[i].kind \in EndKinds
    BY <2>1 DEF Endings, EndKinds
  <2> QED BY <2>1, <2>2
<1>3. Ended(e) => told[Len(told)].kind \in Endings
  BY DEF EventsOK, EndKinds, Endings
<1>4. told # <<>>
  BY <1>1
<1> QED BY <1>2, <1>3, <1>4 DEF Lifecycle, SeqExt!Last

LEMMA ThroughIs ==
    ASSUME NEW told, Through(told)
    PROVE  /\ \/ Lifecycle(told)
              \/ Len(told) = 1 /\ told[1].kind \in Endings \ {"Disconnect"}
           /\ told # <<>> /\ SeqExt!Last(told).kind \in Endings
<1>1. CASE IsSeq(told) /\ Len(told) = 1 /\ told[1].kind \in Endings \ {"Disconnect"}
  <2>1. Len(<<>>) = 0 /\ Len(told) = 1
    BY <1>1, EmptyIsSeq
  <2>2. told # <<>>
    BY <2>1
  <2> QED BY <1>1, <2>2 DEF SeqExt!Last
<1>2. CASE \E e : Ended(e) /\ EventsOK(told, e)
  BY <1>2, EventsAreLifecycle
<1> QED BY <1>1, <1>2 DEF Through

LEMMA NothingTold == Lifecycle(<<>>)
<1>1. DOMAIN <<>> = {}
  OBVIOUS
<1> QED BY <1>1 DEF Lifecycle

LEMMA PeerTold ==
    ASSUME ServerSound, NEW p \in DOMAIN peers
    PROVE  Lifecycle(peers[p].events)
<1>1. PeersOK(peers, table, fired) /\ GoneOK(peers, table, fired)
  BY DEF ServerSound, ServerOK, SoundOK
<1>2. CASE LiveIn(peers, table, fired, p)
  BY <1>1, <1>2, EventsAreLifecycle DEF PeersOK
<1>3. CASE ~LiveIn(peers, table, fired, p)
  <2>1. peers[p].events = <<>>
    <3>1. PICK addr : addr = peers[p].addr
      OBVIOUS
    <3>2. peers[p] = PeerNew(addr)
      BY <1>1, <1>3, <3>1 DEF GoneOK
    <3> QED BY <3>2, PeerNewIs
  <2> QED BY <2>1, NothingTold
<1> QED BY <1>2, <1>3

LEMMA ClientTold ==
    ASSUME Inv, NEW c \in Client
    PROVE  /\ \/ Lifecycle(events[c])
              \/ Len(events[c]) = 1 /\ events[c][1].kind \in Endings \ {"Disconnect"}
           /\ client[c].state = "Handshake" => events[c] = <<>>
           /\ client[c].state = "Quiescent" /\ c \in plan.clients
                 => events[c] # <<>> /\ SeqExt!Last(events[c]).kind \in Endings
<1>1. PICK told, state : told = events[c] /\ state = client[c].state
  OBVIOUS
<1>2. /\ state \in {"Handshake", "Active", "Quiescent"}
      /\ state = "Handshake" => told = <<>>
      /\ state = "Active" => \E e : EventsOK(told, e)
      /\ state = "Quiescent" => Through(told) \/ (c \notin plan.clients /\ told = <<>>)
  BY <1>1, ClientIs
<1>3. /\ \/ Lifecycle(told)
         \/ Len(told) = 1 /\ told[1].kind \in Endings \ {"Disconnect"}
      /\ state = "Quiescent" /\ c \in plan.clients
            => told # <<>> /\ SeqExt!Last(told).kind \in Endings
  <2>1. CASE told = <<>> /\ ~Through(told)
    BY <1>2, <2>1, NothingTold
  <2>2. CASE Through(told)
    BY <2>2, ThroughIs
  <2>3. CASE state = "Active"
    BY <1>2, <2>3, EventsAreLifecycle
  <2> QED BY <1>2, <2>1, <2>2, <2>3
<1> QED BY <1>1, <1>2, <1>3

-----------------------------------------------------------------------------
(* Who is given a peer *)

\* A request that is accepted was answered with a cookie less than the timeout ago.
LEMMA CookieIsYoung ==
    ASSUME Inv, NEW addr \in Client, NEW frame,
           Cookie(addr, frame, server.key, Since, asked[addr]),
           MacValid(addr, frame), TimestampValid(frame.server_timestamp)
    PROVE  server.now_ms - asked[addr] < HandshakeTimeout
<1>1. BoundsOK
  BY DEF Inv
<1>2. PICK now \in Nat : now = server.now_ms
  BY <1>1 DEF BoundsOK
<1>3. PICK at \in Int : at = asked[addr] /\ at <= now
  BY <1>1, <1>2 DEF BoundsOK
<1>4. PICK stamp, nonce, key : /\ stamp = frame.server_timestamp
                               /\ nonce = frame.client_nonce /\ key = server.key
  OBVIOUS
<1>5. PICK k \in 0 .. key :
         /\ frame.server_mac = Mac(k, addr, nonce, 0, stamp)
         /\ k = key => \E t \in Nat : stamp = t % TimestampMod /\ Since <= t /\ t <= at
  BY <1>3, <1>4 DEF Cookie
<1>6. nonce \in Client /\ stamp \in 0 .. TimestampMod - 1 /\ frame.server_nonce = 0
  BY <1>4 DEF Cookie
<1>7. Mac(k, addr, nonce, 0, stamp) = Mac(key, addr, nonce, 0, stamp)
  BY <1>4, <1>5, <1>6 DEF MacValid
<1>8. plan \in Plans /\ key \in 0 .. plan.restarts /\ k \in 0 .. plan.restarts
  <2>1. plan \in Plans /\ key \in 0 .. plan.restarts /\ plan.restarts \in Nat
    BY <1>1, <1>4, PlanIs DEF BoundsOK
  <2> QED BY <2>1
<1>9. k = key
  BY <1>6, <1>7, <1>8, MacAssumption
<1>10. PICK t \in Nat : stamp = t % TimestampMod /\ Since <= t /\ t <= at
  BY <1>5, <1>9
<1>11. PICK ticks \in Nat : ticks = used.ticks /\ ticks <= plan.ticks
  BY <1>1, PlanIs DEF BoundsOK
<1>12. now - ticks <= t
  BY <1>2, <1>10, <1>11 DEF Since
<1>13. /\ TimestampMod \in Nat /\ TimestampMod > 0 /\ HandshakeTimeout \in Nat
       /\ plan.ticks \in Nat /\ plan.ticks < TimestampMod
  BY <1>1, PlanIs
<1>14. t <= now /\ now - t < TimestampMod
  BY <1>3, <1>10, <1>11, <1>12, <1>13
<1>15. ((now % TimestampMod) - (t % TimestampMod)) % TimestampMod = now - t
  BY <1>13, <1>14, TimestampsApart
<1>16. now - t < HandshakeTimeout
  BY <1>2, <1>4, <1>10, <1>15 DEF TimestampValid, Timestamp
<1>17. now - at < HandshakeTimeout
  BY <1>3, <1>10, <1>13, <1>16
<1> QED BY <1>2, <1>3, <1>17

LEMMA CreatedInTime ==
    ASSUME Inv, NEW addr \in Client, NEW frame,
           Cookie(addr, frame, server.key, Since, asked[addr]), HandleBeta(addr, frame),
           NEW p \in DOMAIN peers' \ DOMAIN peers
    PROVE  server.now_ms - asked[peers'[p].addr] < HandshakeTimeout
<1>1. CreatePeer(addr)
  <2>1. peers' # peers
    OBVIOUS
  <2> QED BY <2>1 DEF HandleBeta
<1>2. PICK s : s = Settled(PeerNew(addr), EndpointInit(EndpointNew))
  OBVIOUS
<1>3. s.addr = addr
  BY <1>2, NewPeerOK
<1>4. peers' = Append(peers, s) /\ IsSeq(peers)
  BY <1>1, <1>2 DEF CreatePeer, Inv, ServerSound, ServerOK, SoundOK
<1>5. PICK n \in Nat : n = Len(peers) /\ DOMAIN peers = 1 .. n
  BY <1>4, IsSeqLen
<1>6. DOMAIN peers' = 1 .. (n + 1) /\ peers'[n + 1] = s
  BY <1>4, <1>5, IsSeqAppend, IsSeqLen
<1>7. p = n + 1
  BY <1>5, <1>6
<1>8. peers'[p].addr = addr
  BY <1>3, <1>6, <1>7
<1>9. server.now_ms - asked[addr] < HandshakeTimeout
  BY CookieIsYoung DEF HandleBeta
<1> QED BY <1>8, <1>9

\* No other step creates peers.
LEMMA ClientsCreateNone ==
    ASSUME NEW c, ClientNext(c)
    PROVE  peers' = peers
<1>1. CASE ClientTimer(c) \/ \E m \in down : ClientReceive(c, m[2])
  BY <1>1 DEF ClientTimer, HandshakeTimer, ActiveTimer, QuiescentTimer, ClientReceive, serverVars
<1>2. CASE ClientEnqueue(c) \/ ClientSend(c) \/ ClientFlush(c) \/ ClientDisconnect(c)
  BY <1>2 DEF ClientEnqueue, ClientSend, ClientFlush, ClientDisconnect, serverVars
<1>3. CASE WaitEvent(c) \/ PollEvent(c) \/ ReturnEvent(c)
  BY <1>3 DEF WaitEvent, PollEvent, ReturnEvent, serverVars
<1> QED BY <1>1, <1>2, <1>3 DEF ClientNext

LEMMA HandlesCreateNone ==
    ASSUME NEW p, PeerEnqueue(p) \/ PeerFlush(p) \/ PeerSend(p) \/ PeerDisconnect(p)
                  \/ DropHandles(p)
    PROVE  DOMAIN peers' = DOMAIN peers
<1>1. CASE PeerEnqueue(p)
  BY <1>1 DEF PeerEnqueue
<1>2. CASE PeerFlush(p) \/ PeerDisconnect(p)
  BY <1>2 DEF PeerFlush, PeerDisconnect, PeerBecomes
<1>3. CASE PeerSend(p)
  BY <1>3 DEF PeerSend
<1>4. CASE DropHandles(p)
  BY <1>4 DEF DropHandles, Dropped
<1> QED BY <1>1, <1>2, <1>3, <1>4

LEMMA TimersCreateNone ==
    ASSUME (\E expired \in SUBSET DOMAIN peers : TimerTest(expired)) \/ PeerTimer
    PROVE  DOMAIN peers' = DOMAIN peers
<1>1. CASE \E expired \in SUBSET DOMAIN peers : TimerTest(expired)
  BY <1>1 DEF TimerTest
<1>2. CASE PeerTimer
  BY <1>2 DEF PeerTimer, Dropped
<1> QED BY <1>1, <1>2

LEMMA ReceiveCreates ==
    ASSUME Inv, NEW m \in up, ServerReceive(m[1], m[2]), NEW p \in DOMAIN peers' \ DOMAIN peers
    PROVE  server.now_ms - asked[peers'[p].addr] < HandshakeTimeout
<1>1. PICK addr, frame : addr \in Client /\ addr = m[1] /\ frame = m[2]
  BY DEF Inv, FramesOK, NetOK
<1>2. UpOK(addr, frame, server.key, Since, asked[addr])
  BY <1>1 DEF Inv, FramesOK, NetOK
<1>3. CASE frame.type = "HandshakeBeta"
  <2>1. HandleBeta(addr, frame)
    BY <1>1, <1>3 DEF ServerReceive
  <2>2. Cookie(addr, frame, server.key, Since, asked[addr])
    BY <1>2, <1>3, UpIs
  <2> QED BY <1>1, <2>1, <2>2, CreatedInTime
<1>4. CASE frame.type = "HandshakeAlpha"
  <2>1. HandleAlpha(addr, frame)
    BY <1>1, <1>4 DEF ServerReceive
  <2> QED BY <2>1 DEF HandleAlpha
<1>5. CASE frame.type \notin {"HandshakeAlpha", "HandshakeBeta"}
  <2>1. ServerHandleOther(addr, frame)
    BY <1>1, <1>5 DEF ServerReceive
  <2>2. DOMAIN peers' = DOMAIN peers
    BY <2>1 DEF ServerHandleOther, PeerBecomes
  <2> QED BY <2>2
<1> QED BY <1>3, <1>4, <1>5

-----------------------------------------------------------------------------
(* Theorems *)

\* The invariant holds in every state, whatever the network, the timers, the applications
\* and restarts of the server do.
THEOREM Invariance == Spec => []Inv
<1>1. Inv /\ [Next]_connVars => Inv'
  BY NextInv
<1> QED BY <1>1, InitInv, PTL DEF Spec

\* The table never holds more than peer_count_max peers, each under its own address and none
\* that has finished, and every peer that something refers to is in the timer queue once
\* (TableOK).
THEOREM TableAlwaysOK == Spec => []TableOK
<1>1. Inv => TableOK
  <2> SUFFICES ASSUME Inv PROVE TableOK
    OBVIOUS
  <2>1. ServerSound /\ CountOK
    BY DEF Inv
  <2>2. PeerCount <= plan.peer_count_max
    BY <2>1 DEF PeerCount, CountOK, Entries
  <2>3. \A c \in Client : table[c] # 0 => IsPeer(table[c]) /\ peers[table[c]].addr = c
    BY <2>1 DEF ServerSound, ServerOK, SoundOK, EntriesOK, IsPeer
  <2>4. ASSUME NEW p \in DOMAIN peers
        PROVE  /\ table[peers[p].addr] = p <=> peers[p].ep.state_id \notin {"PreInit", "Zombie"}
               /\ Live(p) => Cardinality({i \in DOMAIN queue : queue[i] = p}) = 1
    BY <2>1, PeerPlaced
  <2> QED BY <2>2, <2>3, <2>4 DEF TableOK
<1> QED BY <1>1, Invariance, PTL

\* Every application is told of one connection or of one failure, of nothing after its end,
\* and a client that is through has been told so (LifecycleOK).
THEOREM LifecycleAlwaysOK == Spec => []LifecycleOK
<1>1. Inv => LifecycleOK
  <2> SUFFICES ASSUME Inv PROVE LifecycleOK
    OBVIOUS
  <2>1. ServerSound
    BY DEF Inv
  <2>2. \A p \in DOMAIN peers : Lifecycle(peers[p].events)
    BY <2>1, PeerTold
  <2> QED BY <2>2, ClientTold DEF LifecycleOK
<1> QED BY <1>1, Invariance, PTL

\* A peer is created only for an address that this very server gave a cookie to less than
\* HANDSHAKE_TIMEOUT_MS ago (CookiesExpire).
THEOREM CookiesAlwaysExpire == Spec => CookiesExpire
<1>1. Inv /\ [Next]_connVars
        => [\A p \in DOMAIN peers' \ DOMAIN peers :
              server.now_ms - asked[peers'[p].addr] < HandshakeTimeout]_connVars
  <2> SUFFICES ASSUME Inv, Next, NEW p \in DOMAIN peers' \ DOMAIN peers
               PROVE  server.now_ms - asked[peers'[p].addr] < HandshakeTimeout
    OBVIOUS
  <2>1. DOMAIN peers' # DOMAIN peers /\ ~(DOMAIN peers' = {})
    OBVIOUS
  <2>2. ServerNext
    BY <2>1, ClientsCreateNone DEF Next
  <2>3. ~Restart /\ ~Tick
    <3>1. DOMAIN <<>> = {}
      OBVIOUS
    <3> QED BY <2>1, <3>1 DEF Restart, Tick
  <2>4. PICK m \in up : ServerReceive(m[1], m[2])
    BY <2>1, <2>2, <2>3, HandlesCreateNone, TimersCreateNone DEF ServerNext
  <2> QED BY <2>4, ReceiveCreates
<1> QED BY <1>1, Invariance, PTL DEF Spec, CookiesExpire


=============================================================================
