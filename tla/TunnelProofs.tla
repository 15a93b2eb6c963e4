---------------------------- MODULE TunnelProofs ----------------------------
(***************************************************************************)
(* The tunnel (crates/tunnel) and the frames of the relay protocol: the    *)
(* nonces of the sessions (Session), the choice of a relay (RelayPool),    *)
(* the path manager (Path) and the frames (Frame), which share no state    *)
(* and are proved about one after the other.                               *)
(***************************************************************************)
EXTENDS Session, RelayPool, Path, Frame, SequenceTheorems, NaturalInduction, TLAPS

-----------------------------------------------------------------------------
(***************************************************************************)
(* Sessions. The nonces of a session are unique for every width and offset *)
(* of the counters, as long as no end encrypts more than Offset packets.   *)
(*                                                                         *)
(* The argument: a counter is its starting point plus the number of        *)
(* encryptions, so a packet's nonce tells its end (below Offset, or not)   *)
(* and, for that end, which of its encryptions it was.                     *)
(***************************************************************************)
\* The counter follows the number of encryptions, until it may wrap.
CountersFollow ==
  \A e \in End : used[e] < MaxPackets => counter[e] = Start(e) + used[e]

\* A packet's nonce is that of one of the encryptions already done.
PacketsFollow ==
  \A p \in sent : /\ p.num < used[p.from]
                  /\ p.nonce = Start(p.from) + p.num
                  /\ p.to # p.from

\* An encryption makes one packet at most.
OnePacket ==
  \A p, q \in sent : p.from = q.from /\ p.num = q.num => p = q

SessionInv ==
  /\ TypeOK
  /\ CountersFollow
  /\ PacketsFollow
  /\ OnePacket
  /\ FromTheOtherEnd

\* The number of an encryption and its end follow from the nonce.
LEMMA StartsApart ==
  ASSUME NEW e \in End, NEW d \in End, NEW m \in 0 .. (MaxPackets - 1),
         NEW n \in 0 .. (MaxPackets - 1), e.secret = d.secret,
         Start(e) + m = Start(d) + n
  PROVE  e = d /\ m = n
<1>1. e.role = d.role
  BY SessionAssumption DEF End, Start
<1>2. e = d
  BY <1>1 DEF End
<1>3. Start(e) \in Nat
  BY SessionAssumption DEF Start
<1> QED
  BY <1>2, <1>3

\* The invariant implies that no nonce is used twice.
LEMMA Unique ==
  ASSUME SessionInv
  PROVE  NoncesUnique
<1> SUFFICES ASSUME NEW p \in sent, NEW q \in sent,
                    p.from.secret = q.from.secret, p.nonce = q.nonce
             PROVE  p = q
  BY DEF NoncesUnique
<1>1. /\ p.from \in End /\ q.from \in End
      /\ p.num \in Nat /\ q.num \in Nat
      /\ used[p.from] \in 0 .. MaxPackets /\ used[q.from] \in 0 .. MaxPackets
  BY DEF SessionInv, TypeOK, Packet
<1>2. p.num \in 0 .. (MaxPackets - 1) /\ q.num \in 0 .. (MaxPackets - 1)
  BY <1>1, SessionAssumption DEF SessionInv, PacketsFollow
<1>3. Start(p.from) + p.num = Start(q.from) + q.num
  BY DEF SessionInv, PacketsFollow
<1>4. p.from = q.from /\ p.num = q.num
  BY <1>1, <1>2, <1>3, StartsApart
<1> QED
  BY <1>4 DEF SessionInv, OnePacket

-----------------------------------------------------------------------------
\* No packet yet, and every counter at its start.
LEMMA SessionInitInv == Init => SessionInv
<1> SUFFICES ASSUME Init PROVE SessionInv
  OBVIOUS
<1>1. \A e \in End : Start(e) \in Counter
  BY SessionAssumption DEF Start, Counter
<1>2. TypeOK
  BY <1>1, SessionAssumption DEF Init, TypeOK
<1>3. CountersFollow
  BY <1>1 DEF Init, CountersFollow, Counter
<1> QED
  BY <1>2, <1>3 DEF Init, SessionInv, PacketsFollow, OnePacket, FromTheOtherEnd

\* An encryption moves the counter of its end on by one.
LEMMA EncryptStep ==
  ASSUME SessionInv, NEW e \in End, Encrypt(e)
  PROVE  /\ counter' \in [End -> Counter]
         /\ used' \in [End -> 0 .. MaxPackets]
         /\ CountersFollow'
         /\ \A d \in End : used[d] <= used'[d]
         /\ used[e] < used'[e]
         /\ counter[e] = Start(e) + used[e]
         /\ counter[e] \in Counter /\ used[e] \in Nat
<1>1. /\ counter \in [End -> Counter] /\ used \in [End -> 0 .. MaxPackets]
      /\ used[e] < MaxPackets
      /\ used' = [used EXCEPT ![e] = used[e] + 1]
      /\ counter' = [counter EXCEPT ![e] = Next1(counter[e])]
  BY DEF SessionInv, TypeOK, Encrypt
<1>2. counter[e] = Start(e) + used[e] /\ counter[e] \in Counter /\ used[e] \in Nat
  BY <1>1 DEF SessionInv, CountersFollow
<1>3. Next1(counter[e]) \in Counter
  BY <1>2, SessionAssumption DEF Next1, Counter
<1>4. counter' \in [End -> Counter] /\ used' \in [End -> 0 .. MaxPackets]
  BY <1>1, <1>2, <1>3, SessionAssumption
<1>5. Start(e) \in 0 .. Offset
  BY SessionAssumption DEF Start
<1>6. used[e] + 1 < MaxPackets => Next1(counter[e]) = Start(e) + (used[e] + 1)
  BY <1>2, <1>5, SessionAssumption DEF Next1
<1>7. CountersFollow'
  <2> SUFFICES ASSUME NEW d \in End, used'[d] < MaxPackets
               PROVE  counter'[d] = Start(d) + used'[d]
    BY DEF CountersFollow, Start
  <2>1. CASE d = e
    BY <1>1, <1>6, <2>1
  <2>2. CASE d # e
    BY <1>1, <2>2 DEF SessionInv, CountersFollow
  <2> QED
    BY <2>1, <2>2
<1>8. \A d \in End : used[d] <= used'[d]
  BY <1>1, <1>2
<1> QED
  BY <1>1, <1>2, <1>4, <1>7, <1>8

\* Tunnel::send_to.
LEMMA SendStep ==
  ASSUME SessionInv, NEW e \in End, NEW d \in End, NEW t \in Texts, SendTo(e, d, t)
  PROVE  SessionInv'
<1> DEFINE p == [from |-> e, to |-> d, nonce |-> counter[e], text |-> t,
                 num |-> used[e]]
<1>1. /\ Encrypt(e) /\ d # e
      /\ sent' = sent \cup {p} /\ got' = got
  BY DEF SendTo
<1>2. /\ counter[e] = Start(e) + used[e]
      /\ counter[e] \in Counter /\ used[e] \in Nat /\ used[e] < used'[e]
      /\ \A f \in End : used[f] <= used'[f]
      /\ used' \in [End -> 0 .. MaxPackets]
      /\ used \in [End -> 0 .. MaxPackets]
  BY <1>1, EncryptStep DEF SessionInv, TypeOK
<1>3. TypeOK'
  BY <1>1, <1>2, EncryptStep DEF SessionInv, TypeOK, Packet
<1>4. \A q \in sent : q.num < used'[q.from] /\ q.num \in Nat /\ q.from \in End
  <2> SUFFICES ASSUME NEW q \in sent
               PROVE  q.num < used'[q.from] /\ q.num \in Nat /\ q.from \in End
    OBVIOUS
  <2>1. q.num < used[q.from] /\ q.num \in Nat /\ q.from \in End
    BY DEF SessionInv, PacketsFollow, TypeOK, Packet
  <2>2. used[q.from] \in Int /\ used'[q.from] \in Int
    BY <1>2, <2>1
  <2>3. used[q.from] <= used'[q.from]
    BY <1>2, <2>1
  <2> QED
    BY <2>1, <2>2, <2>3
<1>5. PacketsFollow'
  BY <1>1, <1>2, <1>4 DEF SessionInv, PacketsFollow, Start
<1>6. \A q \in sent : q.from = e => q.num # used[e]
  BY <1>2 DEF SessionInv, PacketsFollow, TypeOK, Packet
<1>7. OnePacket'
  BY <1>1, <1>6 DEF SessionInv, OnePacket
<1>8. FromTheOtherEnd'
  BY <1>1 DEF SessionInv, FromTheOtherEnd
<1> QED
  BY <1>1, <1>3, <1>5, <1>7, <1>8, EncryptStep DEF SessionInv

\* Tunnel::send_to, when the socket fails.
LEMMA SendFailsStep ==
  ASSUME SessionInv, NEW e \in End, SendToFails(e)
  PROVE  SessionInv'
<1>1. Encrypt(e) /\ sent' = sent /\ got' = got
  BY DEF SendToFails
<1>2. /\ \A f \in End : used[f] <= used'[f]
      /\ used' \in [End -> 0 .. MaxPackets]
      /\ used \in [End -> 0 .. MaxPackets]
  BY <1>1, EncryptStep DEF SessionInv, TypeOK
<1>3. PacketsFollow'
  <2> SUFFICES ASSUME NEW q \in sent
               PROVE  q.num < used'[q.from]
    BY <1>1 DEF SessionInv, PacketsFollow, Start
  <2>1. q.num < used[q.from] /\ q.num \in Nat /\ q.from \in End
    BY DEF SessionInv, PacketsFollow, TypeOK, Packet
  <2>2. /\ used[q.from] \in Int /\ used'[q.from] \in Int
        /\ used[q.from] <= used'[q.from]
    BY <1>2, <2>1
  <2> QED
    BY <2>1, <2>2
<1> QED
  BY <1>1, <1>3, EncryptStep DEF SessionInv, TypeOK, OnePacket, FromTheOtherEnd

\* Tunnel::recv_from.
LEMMA RecvStep ==
  ASSUME SessionInv, NEW e \in End, NEW p \in sent, RecvFrom(e, p)
  PROVE  SessionInv'
<1>1. /\ p.to = e /\ p.from.secret = e.secret
      /\ got' = got \cup {[by |-> e, text |-> p.text]}
      /\ UNCHANGED <<counter, used, sent>>
  BY DEF RecvFrom, Opens
<1>2. p.text \in Texts /\ p.from # e
  BY <1>1 DEF SessionInv, TypeOK, Packet, PacketsFollow
<1>3. TypeOK'
  BY <1>1, <1>2 DEF SessionInv, TypeOK
<1>4. FromTheOtherEnd'
  BY <1>1, <1>2 DEF SessionInv, FromTheOtherEnd
<1> QED
  BY <1>1, <1>3, <1>4 DEF SessionInv, CountersFollow, PacketsFollow, OnePacket, Start

(***************************************************************************)
(* The invariant: counters follow the encryptions, packets follow the      *)
(* counters, and what was received came from the other end.                *)
(***************************************************************************)
THEOREM SessionInvariance == Spec => []SessionInv
<1>1. SessionInv /\ [Next]_vars => SessionInv'
  <2> SUFFICES ASSUME SessionInv, [Next]_vars PROVE SessionInv'
    OBVIOUS
  <2>1. CASE UNCHANGED vars
    BY <2>1 DEF vars, SessionInv, TypeOK, CountersFollow, PacketsFollow, OnePacket,
                FromTheOtherEnd, Start
  <2> QED
    BY <2>1, SendStep, SendFailsStep, RecvStep DEF Next
<1> QED
  BY <1>1, SessionInitInv, PTL DEF Spec

\* The counters, packets and receipts of the sessions have their types.
THEOREM TypeCorrect == Spec => []TypeOK
BY SessionInvariance, PTL DEF SessionInv

\* Below Offset packets for each end, no nonce is used twice under one secret.
THEOREM NoncesUniqueHolds == Spec => []NoncesUnique
BY SessionInvariance, Unique, PTL

\* What recv_from returns was sent by the other end of the session.
THEOREM FromTheOtherEndHolds == Spec => []FromTheOtherEnd
BY SessionInvariance, PTL DEF SessionInv

-----------------------------------------------------------------------------
(***************************************************************************)
(* The relay pool. What the loop of select_best has found (Found) is an    *)
(* invariant of the loop, by induction over the servers; its last value is *)
(* BestOf. That the active relay is the first of the best ones             *)
(* (ActiveIsFirst) is what keeps the pool from leaving an unmeasured relay *)
(* for another one.                                                        *)
(***************************************************************************)
\* What select_best has found among the first i servers.
Found(b, list, i) ==
  /\ b.index \in 0 .. i /\ b.latency \in 1 .. Infinity
  /\ b.index = 0 => b.latency = Infinity
  /\ b.index # 0 => /\ list[b.index].healthy
                    /\ b.latency = Infinity => list[b.index].latency = Unmeasured
                    /\ b.latency # Infinity => list[b.index].latency = b.latency
  /\ \A j \in 1 .. i : list[j].healthy =>
       /\ b.index # 0
       /\ list[j].latency # Unmeasured => b.latency <= list[j].latency
       /\ list[j].latency = list[b.index].latency => b.index <= j

\* The loop of select_best, once more: what it has found is still what it has
\* found, of one server more.
LEMMA ImprovedFinds ==
  ASSUME NEW list \in [Index -> Server], NEW i \in Index, NEW b,
         b = [index |-> b.index, latency |-> b.latency],
         Found(b, list, i - 1)
  PROVE  Found(Improved(b, list, i), list, i)
<1> DEFINE s == list[i]
<1>1. /\ s \in Server /\ i \in Nat \ {0}
      /\ Infinity \in Nat /\ MaxLatency \in Nat /\ MaxLatency < Infinity
  BY RelayPoolAssumption DEF Index, Infinity
<1>2. s.latency \in 0 .. MaxLatency /\ s.healthy \in BOOLEAN
  BY <1>1 DEF Server
<1>3. \A j \in 1 .. i : j \in 1 .. (i - 1) \/ j = i
  BY <1>1
<1>4. b.index \in 0 .. (i - 1) /\ b.latency \in 1 .. Infinity
  BY DEF Found
<1>5. \A j \in 1 .. i : list[j].latency \in 0 .. MaxLatency /\ j \in Nat
  <2>1. \A j \in 1 .. i : j \in Index /\ j \in Nat
    BY <1>1, RelayPoolAssumption DEF Index
  <2> QED
    BY <2>1 DEF Server
<1>6. CASE ~Better(s, b)
  <2>1. Improved(b, list, i) = b
    BY <1>6 DEF Improved
  <2>2. s.healthy => /\ b.index # 0
                     /\ s.latency # Unmeasured => b.latency <= s.latency
    <3>1. b.index = 0 => b.latency = Infinity
      BY DEF Found
    <3>2. /\ s.healthy /\ s.latency # Unmeasured => ~(s.latency < b.latency)
          /\ s.healthy /\ s.latency = Unmeasured => b.index # 0
      BY <1>6 DEF Better
    <3>3. s.latency \in Int /\ b.latency \in Int /\ s.latency < Infinity
      BY <1>1, <1>2, <1>4
    <3> QED
      BY <3>1, <3>2, <3>3
  <2>3. b.index \in 0 .. i /\ b.index <= i
    BY <1>1, <1>4
  <2> QED
    BY <2>1, <2>2, <2>3, <1>3, <1>4 DEF Found
<1>7. CASE Better(s, b) /\ s.latency = Unmeasured
  <2>1. Improved(b, list, i) = [index |-> i, latency |-> b.latency]
    BY <1>7 DEF Improved
  <2> QED
    BY <2>1, <1>1, <1>2, <1>3, <1>4, <1>5, <1>7 DEF Found, Better, Unmeasured
<1>8. CASE Better(s, b) /\ s.latency # Unmeasured
  <2>1. Improved(b, list, i) = [index |-> i, latency |-> s.latency]
    BY <1>8 DEF Improved
  <2> QED
    BY <2>1, <1>1, <1>2, <1>3, <1>4, <1>5, <1>8 DEF Found, Better, Unmeasured
<1> QED
  BY <1>6, <1>7, <1>8

\* The loop of select_best over the first n servers is a function.
Scan(f, list, n) ==
  f = [i \in 0 .. n |-> IF i = 0 THEN NoneYet ELSE Improved(f[i - 1], list, i)]

\* The function that BestOf is defined by exists, for any list and bound.
LEMMA ScanExists ==
  ASSUME NEW list
  PROVE  \A n \in Nat : \E f : Scan(f, list, n)
<1> DEFINE S == {n \in Nat : \E f : Scan(f, list, n)}
<1>1. 0 \in S
  <2>1. Scan([i \in 0 .. 0 |-> NoneYet], list, 0)
    BY DEF Scan
  <2> QED
    BY <2>1
<1>2. ASSUME NEW n \in Nat, n \in S PROVE n + 1 \in S
  <2>1. PICK f : Scan(f, list, n)
    BY <1>2
  <2> DEFINE g == [i \in 0 .. (n + 1) |->
                     IF i = n + 1 THEN Improved(f[n], list, n + 1) ELSE f[i]]
  <2>2. \A i \in 0 .. n : i \in 0 .. (n + 1) /\ i # n + 1 /\ g[i] = f[i]
    OBVIOUS
  <2>3. \A i \in 0 .. n : f[i] = IF i = 0 THEN NoneYet ELSE Improved(f[i - 1], list, i)
    BY <2>1 DEF Scan
  <2>4. \A i \in 0 .. (n + 1) :
          g[i] = IF i = 0 THEN NoneYet ELSE Improved(g[i - 1], list, i)
    <3> SUFFICES ASSUME NEW i \in 0 .. (n + 1)
                 PROVE  g[i] = IF i = 0 THEN NoneYet ELSE Improved(g[i - 1], list, i)
      OBVIOUS
    <3>1. CASE i = n + 1
      <4>1. g[i] = Improved(f[n], list, i) /\ i # 0 /\ i - 1 = n
        BY <3>1
      <4> QED
        BY <4>1, <2>2
    <3>2. CASE i # n + 1
      <4>1. i \in 0 .. n /\ (i # 0 => i - 1 \in 0 .. n)
        BY <3>2
      <4> QED
        BY <4>1, <2>2, <2>3
    <3> QED
      BY <3>1, <3>2
  <2> HIDE DEF g
  <2>5. g = [i \in 0 .. (n + 1) |-> g[i]]
    BY DEF g
  <2>6. Scan(g, list, n + 1)
    BY <2>4, <2>5, Zenon DEF Scan
  <2> QED
    BY <2>6
<1>3. \A n \in Nat : n \in S
  <2> HIDE DEF S
  <2> QED
    BY <1>1, <1>2, Induction
<1> QED
  BY <1>3

\* The last value of the loop is the first of the best servers.
LEMMA BestOfFinds ==
  ASSUME NEW list \in [Index -> Server]
  PROVE  \E b : /\ b = [index |-> b.index, latency |-> b.latency]
               /\ Found(b, list, N)
               /\ BestOf(list) = b.index
<1> DEFINE best[i \in 0 .. N] ==
             IF i = 0 THEN NoneYet ELSE Improved(best[i - 1], list, i)
<1>1. N \in Nat /\ Infinity \in Nat \ {0}
  BY RelayPoolAssumption DEF Infinity
<1>2. Scan(best, list, N)
  <2>1. \E f : Scan(f, list, N)
    BY <1>1, ScanExists
  <2> QED
    BY <2>1 DEF Scan
<1>3. BestOf(list) = best[N].index
  BY DEF BestOf
<1> HIDE DEF best
<1>4. \A i \in 0 .. N :
        best[i] = IF i = 0 THEN NoneYet ELSE Improved(best[i - 1], list, i)
  BY <1>2 DEF Scan
<1> DEFINE P(i) == /\ best[i] = [index |-> best[i].index, latency |-> best[i].latency]
                   /\ Found(best[i], list, i)
           S == {n \in Nat : n \in 0 .. N => P(n)}
<1>5. 0 \in S
  <2>1. best[0] = [index |-> 0, latency |-> Infinity]
    BY <1>1, <1>4 DEF NoneYet
  <2> QED
    BY <2>1, <1>1 DEF Found
<1>6. ASSUME NEW n \in Nat, n \in S PROVE n + 1 \in S
  <2> SUFFICES ASSUME n + 1 \in 0 .. N PROVE P(n + 1)
    OBVIOUS
  <2>1. n \in 0 .. N /\ n + 1 \in Index /\ (n + 1) - 1 = n
    BY <1>1 DEF Index
  <2>2. P(n)
    BY <1>6, <2>1
  <2>3. best[n + 1] = Improved(best[n], list, n + 1)
    BY <1>4, <2>1
  <2>4. Found(best[n + 1], list, n + 1)
    BY <2>1, <2>2, <2>3, ImprovedFinds
  <2>5. \E i, l : best[n + 1] = [index |-> i, latency |-> l]
    BY <2>2, <2>3 DEF Improved
  <2> QED
    BY <2>4, <2>5
<1>7. P(N)
  <2>1. \A n \in Nat : n \in S
    BY <1>5, <1>6, Induction
  <2> QED
    BY <2>1, <1>1
<1> QED
  BY <1>3, <1>7

-----------------------------------------------------------------------------
PoolTypeOK ==
  /\ servers \in [Index -> Server]
  /\ active \in Index
  /\ health \in [Index -> Health]

\* Of relays that are as good as the active one, it is the first.
ActiveIsFirst ==
  \A i \in Index :
    /\ servers[i].healthy /\ servers[active].healthy
    /\ servers[i].latency = servers[active].latency
    => active <= i

PoolInv ==
  /\ PoolTypeOK
  /\ ActiveIsBest
  /\ ActiveIsFirst

\* A new pool takes every relay for healthy and has the first one active.
LEMMA PoolInitInv == PoolInit => PoolInv
<1> SUFFICES ASSUME PoolInit PROVE PoolInv
  OBVIOUS
<1>1. 1 \in Index /\ 0 \in 0 .. MaxLatency /\ 0 \in 0 .. MaxFailures
      /\ \A i \in Index : 1 <= i
  BY RelayPoolAssumption DEF Index
<1> QED
  BY <1>1 DEF PoolInit, PoolInv, PoolTypeOK, ActiveIsBest, ActiveIsFirst,
              Server, Unmeasured, Health

\* The servers of a list that is scanned: the best one and all others.
LEMMA Selected ==
  ASSUME PoolTypeOK, servers' \in [Index -> Server],
         active' = SelectBest(servers', active)
  PROVE  /\ active' \in Index
         /\ ActiveIsBest'
         /\ ActiveIsFirst'
         /\ active' # active => servers'[active'].healthy
<1> DEFINE list == servers'
<1>1. PICK b : Found(b, list, N) /\ BestOf(list) = b.index
  BY BestOfFinds
<1>2. \A i \in Index : list[i].latency \in 0 .. MaxLatency
  BY DEF Server
<1>3. MaxLatency \in Nat /\ N \in Nat /\ Infinity = MaxLatency + 1
  BY RelayPoolAssumption DEF Infinity
<1>4. b.index \in 0 .. N /\ b.latency \in 1 .. Infinity
  BY <1>1 DEF Found
<1>5. CASE b.index = 0
  <2>1. \A i \in Index : ~list[i].healthy
    BY <1>1, <1>5 DEF Found, Index
  <2>2. active' = active
    BY <1>1, <1>5 DEF SelectBest
  <2> QED
    BY <2>1, <2>2 DEF PoolTypeOK, ActiveIsBest, ActiveIsFirst
<1>6. CASE b.index # 0
  <2>1. active' = b.index /\ b.index \in Index
    BY <1>1, <1>3, <1>4, <1>6 DEF SelectBest, Index
  <2>2. /\ list[active'].healthy
        /\ b.latency = Infinity => list[active'].latency = Unmeasured
        /\ b.latency # Infinity => list[active'].latency = b.latency
    BY <1>1, <1>6, <2>1 DEF Found
  <2>3. ASSUME NEW i \in Index, list[i].healthy
        PROVE  /\ list[i].latency # Unmeasured =>
                    /\ list[active'].latency # Unmeasured
                    /\ list[active'].latency <= list[i].latency
               /\ list[i].latency = list[active'].latency => active' <= i
    <3>1. /\ list[i].latency # Unmeasured => b.latency <= list[i].latency
          /\ list[i].latency = list[b.index].latency => b.index <= i
      BY <1>1, <2>3 DEF Found, Index
    <3>2. list[i].latency \in Int /\ list[i].latency < Infinity /\ b.latency \in Int /\ b.latency # 0
      BY <1>2, <1>3, <1>4
    <3>3. list[i].latency # Unmeasured => b.latency # Infinity
      BY <1>3, <3>1, <3>2
    <3> QED
      BY <2>1, <2>2, <3>1, <3>2, <3>3 DEF Unmeasured
  <2>4. ActiveIsBest'
    BY <2>2, <2>3 DEF ActiveIsBest
  <2>5. ActiveIsFirst'
    BY <2>3 DEF ActiveIsFirst
  <2> QED
    BY <2>1, <2>2, <2>4, <2>5
<1> QED
  BY <1>5, <1>6

\* What a probe or a failover makes of a server: one that it takes for healthy
\* without having measured it was so before.
Kept(s, t) ==
  /\ t \in Server
  /\ t.healthy /\ t.latency = Unmeasured => s.healthy /\ s.latency = Unmeasured

\* One failure more does not make a server healthy, and measures nothing.
LEMMA CountedKept ==
  ASSUME NEW s \in Server
  PROVE  Kept(s, Counted(s))
<1>1. s.failures \in 0 .. MaxFailures /\ MaxFailures \in Nat
  BY RelayPoolAssumption DEF Server
<1>2. OneMore(s.failures) \in 0 .. MaxFailures
  BY <1>1 DEF OneMore
<1> QED
  BY <1>1, <1>2 DEF Kept, Counted, Server

\* Nor does a probe, unless its answer measures the server.
LEMMA ProbedKept ==
  ASSUME NEW s \in Server, NEW o \in Answers \cup {Silence, NoSocket}
  PROVE  Kept(s, Probed(s, o))
<1>1. /\ s.failures \in 0 .. MaxFailures /\ MaxFailures \in Nat
      /\ MaxLatency \in Nat
  BY RelayPoolAssumption DEF Server
<1>2. OneMore(s.failures) \in 0 .. MaxFailures
  BY <1>1 DEF OneMore
<1>3. CASE o \in Answers
  <2>1. PICK l \in 1 .. MaxLatency : o = [kind |-> "answer", latency |-> l]
    BY <1>3 DEF Answers
  <2>2. Probed(s, o) = [latency |-> l, healthy |-> TRUE, failures |-> 0]
    BY <2>1 DEF Probed
  <2> QED
    BY <2>2, <1>1 DEF Kept, Server, Unmeasured
<1>4. CASE o = Silence
  <2>1. Probed(s, o) = Counted(s)
    BY <1>4 DEF Probed, Silence
  <2> QED
    BY <2>1, CountedKept
<1>5. CASE o = NoSocket
  <2>1. Probed(s, o) = [s EXCEPT !.failures = OneMore(s.failures), !.healthy = FALSE]
    BY <1>5 DEF Probed, NoSocket
  <2> QED
    BY <2>1, <1>2 DEF Kept, Server
<1> QED
  BY <1>3, <1>4, <1>5

\* A step that keeps the servers in this way and selects the best of them.
Chooses ==
  /\ \A i \in Index : Kept(servers[i], servers'[i])
  /\ servers' \in [Index -> Server]
  /\ active' = SelectBest(servers', active)
  /\ health' = health

\* probe_all.
LEMMA ProbeChooses ==
  ASSUME PoolTypeOK, NEW o \in [Index -> Answers \cup {Silence, NoSocket}],
         ProbeAllWith(o)
  PROVE  Chooses
<1>1. \A i \in Index : Kept(servers[i], Probed(servers[i], o[i]))
  BY ProbedKept DEF PoolTypeOK
<1>2. \A i \in Index : Probed(servers[i], o[i]) \in Server
  BY <1>1 DEF Kept
<1> QED
  BY <1>1, <1>2 DEF ProbeAllWith, Chooses

\* failover.
LEMMA FailoverChooses ==
  ASSUME PoolTypeOK, Failover
  PROVE  Chooses
<1>1. \A i \in Index : servers'[i] = IF i = active THEN Counted(servers[i]) ELSE servers[i]
  BY DEF Failover, PoolTypeOK
<1>2. \A i \in Index : Kept(servers[i], servers'[i])
  BY <1>1, CountedKept DEF PoolTypeOK, Kept
<1>3. servers' = [i \in Index |-> servers'[i]]
  BY DEF Failover, PoolTypeOK
<1>4. servers' \in [Index -> Server]
  BY <1>2, <1>3 DEF Kept
<1> QED
  BY <1>2, <1>4 DEF Failover, Chooses

\* What a step of the pool is: a choice, or the weather.
LEMMA PoolSteps ==
  ASSUME PoolTypeOK, PoolNext
  PROVE  Chooses \/ (health' \in [Index -> Health] /\ UNCHANGED <<servers, active>>)
<1>1. ASSUME ProbeAll \/ ProbeAllShort PROVE Chooses
  <2>1. PICK o \in [Index -> Answers \cup {Silence, NoSocket}] : ProbeAllWith(o)
    BY <1>1 DEF ProbeAll, ProbeAllShort, Outcomes
  <2> QED
    BY <2>1, ProbeChooses
<1>2. CASE Weather
  BY <1>2 DEF Weather, PoolTypeOK
<1> QED
  BY <1>1, <1>2, FailoverChooses DEF PoolNext

\* The active relay is the first of the best ones after every step.
LEMMA PoolInvariance == PoolSpec => []PoolInv
<1>1. PoolInv /\ [PoolNext]_pool => PoolInv'
  <2> SUFFICES ASSUME PoolInv, [PoolNext]_pool PROVE PoolInv'
    OBVIOUS
  <2>1. CASE Chooses
    <3>1. PoolTypeOK /\ servers' \in [Index -> Server]
          /\ active' = SelectBest(servers', active)
      BY <2>1 DEF Chooses, PoolInv
    <3>2. active' \in Index /\ ActiveIsBest' /\ ActiveIsFirst'
      BY <3>1, Selected
    <3> QED
      BY <2>1, <3>1, <3>2 DEF PoolInv, PoolTypeOK, Chooses
  <2>2. CASE health' \in [Index -> Health] /\ UNCHANGED <<servers, active>>
    BY <2>2 DEF PoolInv, PoolTypeOK, ActiveIsBest, ActiveIsFirst
  <2>3. CASE UNCHANGED pool
    BY <2>3 DEF pool, PoolInv, PoolTypeOK, ActiveIsBest, ActiveIsFirst
  <2> QED
    BY <2>1, <2>2, <2>3, PoolSteps DEF PoolInv
<1> QED
  BY <1>1, PoolInitInv, PTL DEF PoolSpec

\* After every probe and failover the active relay is the best of those that are
\* known (select_best), for any number of relays.
THEOREM ActiveIsBestHolds == PoolSpec => []ActiveIsBest
BY PoolInvariance, PTL DEF PoolInv

\* A choice that leaves the active relay takes a better one.
LEMMA LeavesStep ==
  ASSUME PoolInv, Chooses, active' # active
  PROVE  /\ servers'[active'].healthy
         /\ servers'[active].healthy =>
              /\ servers'[active'].latency # Unmeasured
              /\ \/ servers'[active].latency = Unmeasured
                 \/ servers'[active'].latency < servers'[active].latency
                 \/ /\ servers'[active'].latency = servers'[active].latency
                    /\ active' < active
<1>1. /\ active \in Index /\ active' \in Index
      /\ servers' \in [Index -> Server] /\ servers \in [Index -> Server]
      /\ servers'[active'].healthy
      /\ ActiveIsBest' /\ ActiveIsFirst' /\ ActiveIsFirst
  BY Selected DEF PoolInv, PoolTypeOK, Chooses
<1>2. SUFFICES ASSUME servers'[active].healthy
               PROVE  /\ servers'[active'].latency # Unmeasured
                      /\ \/ servers'[active].latency = Unmeasured
                         \/ servers'[active'].latency < servers'[active].latency
                         \/ /\ servers'[active'].latency = servers'[active].latency
                            /\ active' < active
  BY <1>1
<1>3. /\ active \in Nat /\ active' \in Nat
      /\ servers'[active].latency \in Nat /\ servers'[active'].latency \in Nat
  BY <1>1, RelayPoolAssumption DEF Index, Server
<1>4. /\ servers'[active].latency # Unmeasured =>
           /\ servers'[active'].latency # Unmeasured
           /\ servers'[active'].latency <= servers'[active].latency
      /\ servers'[active].latency = servers'[active'].latency => active' <= active
  BY <1>1, <1>2 DEF ActiveIsBest, ActiveIsFirst
<1>5. servers'[active'].latency # Unmeasured
  <2> SUFFICES ASSUME servers'[active'].latency = Unmeasured PROVE FALSE
    OBVIOUS
  <2>1. servers'[active].latency = Unmeasured /\ active' <= active
    BY <1>4
  <2>2. /\ servers[active].healthy /\ servers[active].latency = Unmeasured
        /\ servers[active'].healthy /\ servers[active'].latency = Unmeasured
    BY <1>1, <1>2, <2>1 DEF Chooses, Kept
  <2>3. active <= active'
    BY <1>1, <2>2 DEF ActiveIsFirst
  <2> QED
    BY <1>3, <2>1, <2>3
<1> QED
  BY <1>3, <1>4, <1>5

\* The pool leaves a relay that it takes for healthy only for a better one, and
\* never for one that is not (select_best after probe_all and failover).
THEOREM LeavesForBetterHolds == PoolSpec => LeavesForBetter
<1>1. PoolInv /\ [PoolNext]_pool =>
        [active' # active =>
           /\ servers'[active'].healthy
           /\ servers'[active].healthy =>
                /\ servers'[active'].latency # Unmeasured
                /\ \/ servers'[active].latency = Unmeasured
                   \/ servers'[active'].latency < servers'[active].latency
                   \/ /\ servers'[active'].latency = servers'[active].latency
                      /\ active' < active]_pool
  BY LeavesStep, PoolSteps DEF PoolInv, pool
<1> QED
  BY <1>1, PoolInvariance, PTL DEF PoolSpec, LeavesForBetter

-----------------------------------------------------------------------------
(***************************************************************************)
(* The path manager.  Its delay is compared with Doubled, which is defined *)
(* by recursion up to the bound of the failures in a row.                  *)
(***************************************************************************)
\* The recursion of Doubled, up to n.
Doubles(f, n) ==
  f = [i \in 0 .. n |-> IF i = 0 THEN InitialRetry ELSE 2 * f[i - 1]]

\* The function that Doubled is defined by exists, for any bound.
LEMMA DoublesExists == \A n \in Nat : \E f : Doubles(f, n)
<1> DEFINE S == {n \in Nat : \E f : Doubles(f, n)}
<1>1. 0 \in S
  <2>1. Doubles([i \in 0 .. 0 |-> InitialRetry], 0)
    BY DEF Doubles
  <2> QED
    BY <2>1
<1>2. ASSUME NEW n \in Nat, n \in S PROVE n + 1 \in S
  <2>1. PICK f : Doubles(f, n)
    BY <1>2
  <2> DEFINE g == [i \in 0 .. (n + 1) |-> IF i = n + 1 THEN 2 * f[n] ELSE f[i]]
  <2>2. \A i \in 0 .. n : i \in 0 .. (n + 1) /\ i # n + 1 /\ g[i] = f[i]
    OBVIOUS
  <2>3. \A i \in 0 .. n : f[i] = IF i = 0 THEN InitialRetry ELSE 2 * f[i - 1]
    BY <2>1 DEF Doubles
  <2>4. \A i \in 0 .. (n + 1) : g[i] = IF i = 0 THEN InitialRetry ELSE 2 * g[i - 1]
    <3> SUFFICES ASSUME NEW i \in 0 .. (n + 1)
                 PROVE  g[i] = IF i = 0 THEN InitialRetry ELSE 2 * g[i - 1]
      OBVIOUS
    <3>1. CASE i = n + 1
      <4>1. g[i] = 2 * f[n] /\ i # 0 /\ i - 1 = n
        BY <3>1
      <4> QED
        BY <4>1, <2>2
    <3>2. CASE i # n + 1
      <4>1. i \in 0 .. n /\ (i # 0 => i - 1 \in 0 .. n)
        BY <3>2
      <4> QED
        BY <4>1, <2>2, <2>3
    <3> QED
      BY <3>1, <3>2
  <2> HIDE DEF g
  <2>5. g = [i \in 0 .. (n + 1) |-> g[i]]
    BY DEF g
  <2>6. Doubles(g, n + 1)
    BY <2>4, <2>5, Zenon DEF Doubles
  <2> QED
    BY <2>6
<1>3. \A n \in Nat : n \in S
  <2> HIDE DEF S
  <2> QED
    BY <1>1, <1>2, Induction
<1> QED
  BY <1>3

\* Doubled is what its definition says.
LEMMA DoubledDef ==
  /\ Doubled[0] = InitialRetry
  /\ \A n \in 0 .. MaxFails : n + 1 \in 0 .. MaxFails => Doubled[n + 1] = 2 * Doubled[n]
  /\ \A n \in 0 .. MaxFails : Doubled[n] \in Nat
<1>1. MaxFails \in Nat /\ InitialRetry \in Nat
  BY PathAssumption
<1>2. \E f : Doubles(f, MaxFails)
  BY <1>1, DoublesExists
<1>3. Doubles(Doubled, MaxFails)
  BY <1>2 DEF Doubles, Doubled
<1>4. \A n \in 0 .. MaxFails :
        Doubled[n] = IF n = 0 THEN InitialRetry ELSE 2 * Doubled[n - 1]
  BY <1>3 DEF Doubles
<1>5. /\ Doubled[0] = InitialRetry
      /\ \A n \in 0 .. MaxFails : n + 1 \in 0 .. MaxFails => Doubled[n + 1] = 2 * Doubled[n]
  BY <1>1, <1>4
<1> DEFINE S == {n \in Nat : n \in 0 .. MaxFails => Doubled[n] \in Nat}
<1>6. \A n \in Nat : n \in S
  <2>1. 0 \in S
    BY <1>1, <1>5
  <2>2. ASSUME NEW n \in Nat, n \in S PROVE n + 1 \in S
    BY <2>2, <1>1, <1>5
  <2> HIDE DEF S
  <2> QED
    BY <2>1, <2>2, Induction
<1> QED
  BY <1>5, <1>6

PathTypeOK ==
  /\ status \in {"relay", "direct"} /\ value \in {"relay", "direct"}
  /\ backoff \in Nat /\ fails \in 0 .. MaxFails
  /\ receivers \subseteq Receivers /\ told \subseteq receivers

PathInv ==
  /\ PathTypeOK
  /\ StatusTold
  /\ DelayDoubles

\* An attempt that fails doubles the delay, up to the limit.
LEMMA FailsStep ==
  ASSUME PathInv, ProbeFails
  PROVE  PathInv'
<1>1. /\ fails \in 0 .. MaxFails /\ fails < MaxFails /\ MaxFails \in Nat
      /\ fails' = fails + 1 /\ backoff' = Longer(backoff) /\ backoff \in Nat
      /\ UNCHANGED <<status, value, receivers, told>>
      /\ MaxRetry \in Nat \ {0}
  BY PathAssumption DEF PathInv, PathTypeOK, ProbeFails
<1>2. fails' \in 0 .. MaxFails /\ fails + 1 \in 0 .. MaxFails
  BY <1>1
<1>3. /\ Doubled[fails] \in Nat /\ Doubled[fails'] = 2 * Doubled[fails]
      /\ backoff = IF Doubled[fails] <= MaxRetry THEN Doubled[fails] ELSE MaxRetry
  BY <1>1, <1>2, DoubledDef DEF PathInv, DelayDoubles
<1>4. backoff' = IF Doubled[fails'] <= MaxRetry THEN Doubled[fails'] ELSE MaxRetry
  BY <1>1, <1>3 DEF Longer
<1>5. backoff' \in Nat
  BY <1>1 DEF Longer
<1> QED
  BY <1>1, <1>2, <1>4, <1>5 DEF PathInv, PathTypeOK, StatusTold, DelayDoubles

\* The status, the watched value and the delay agree after every step.
LEMMA PathInvariance == PathSpec => []PathInv
<1>1. /\ Doubled[0] = InitialRetry /\ InitialRetry \in Nat /\ InitialRetry <= MaxRetry
      /\ 0 \in 0 .. MaxFails
  BY DoubledDef, PathAssumption
<1>2. PathInit => PathInv
  BY <1>1 DEF PathInit, PathInv, PathTypeOK, StatusTold, DelayDoubles
<1>3. PathInv /\ [PathNext]_path => PathInv'
  <2> SUFFICES ASSUME PathInv, [PathNext]_path PROVE PathInv'
    OBVIOUS
  <2>1. ASSUME NEW r \in Receivers, StatusRx(r) \/ DropRx(r) PROVE PathInv'
    BY <2>1 DEF StatusRx, DropRx, PathInv, PathTypeOK, StatusTold, DelayDoubles
  <2>2. CASE ProbeSent
    BY <2>2, <1>1 DEF ProbeSent, PathInv, PathTypeOK, StatusTold, DelayDoubles
  <2>3. CASE UNCHANGED path
    BY <2>3 DEF path, PathInv, PathTypeOK, StatusTold, DelayDoubles
  <2> QED
    BY <2>1, <2>2, <2>3, FailsStep DEF PathNext
<1> QED
  BY <1>2, <1>3, PTL DEF PathSpec

\* Who was there at a success reads the current status (try_direct, status_rx),
\* however many receivers come and go.
THEOREM StatusToldHolds == PathSpec => []StatusTold
BY PathInvariance, PTL DEF PathInv

\* The delay of try_direct is the first one doubled with each failure in a row, up
\* to the limit, for any first delay and limit.
THEOREM DelayDoublesHolds == PathSpec => []DelayDoubles
BY PathInvariance, PTL DEF PathInv

-----------------------------------------------------------------------------
(***************************************************************************)
(* Frames, for ids, payloads, bytes and buffers of any size that           *)
(* FrameAssumption allows: a frame that encode accepts is read back as it  *)
(* was, and arrives. First the layout of the bytes.                        *)
(***************************************************************************)
LEMMA Pair ==
  ASSUME NEW S, NEW x \in S, NEW y \in S
  PROVE  /\ <<x, y>> \in Seq(S) /\ Len(<<x, y>>) = 2
         /\ <<x, y>>[1] = x /\ <<x, y>>[2] = y
  OBVIOUS

Joined(h, a, s, t, w, S) ==
  /\ h \in Seq(S)
  /\ Len(h) = Len(a) + Len(s) + Len(t) + Len(w)
  /\ \A i \in 1 .. Len(a) : h[i] = a[i]
  /\ \A i \in 1 .. Len(s) : h[Len(a) + i] = s[i]
  /\ \A i \in 1 .. Len(t) : h[Len(a) + Len(s) + i] = t[i]
  /\ \A i \in 1 .. Len(w) : h[Len(a) + Len(s) + Len(t) + i] = w[i]

LEMMA FourParts ==
  ASSUME NEW S, NEW a \in Seq(S), NEW s \in Seq(S), NEW t \in Seq(S), NEW w \in Seq(S)
  PROVE  Joined(a \o s \o t \o w, a, s, t, w, S)
  BY DEF Joined

\* Two bytes hold any length up to MAX_PAYLOAD.
LEMMA TwoDigits ==
  ASSUME NEW b \in Nat, NEW n \in Nat, b > 0, n < b * b
  PROVE  /\ n \div b \in Nat /\ n \div b < b
         /\ (n \div b) * b + (n % b) = n
         /\ n % b \in 0 .. b - 1
         /\ (n \div b) % b = n \div b
<1>1. n % b \in 0 .. b - 1 /\ n = b * (n \div b) + (n % b) /\ n \div b \in Nat
  BY Z3
<1>2. n \div b < b
  <2>1. SUFFICES ASSUME n \div b >= b PROVE FALSE
    BY <1>1
  <2>2. b * (n \div b) >= b * b
    BY <1>1, <2>1, Z3
  <2> QED
    BY <1>1, <2>2, Z3
<1> DEFINE m == n \div b
<1> HIDE DEF m
<1>3. ASSUME m \in Nat, m < b PROVE m % b = m
  BY <1>3, Z3
<1> QED
  BY <1>1, <1>2, <1>3, Z3 DEF m

LEMMA HeaderShape ==
  ASSUME NEW f \in Frame, Fits(f)
  PROVE  LET h == Header(f)
         IN /\ h \in Seq(Byte)
            /\ Len(h) = HeaderLen
            /\ h[1] = Version /\ h[2] = f.kind
            /\ \A i \in 1 .. IdLen : h[2 + i] = f.sender[i]
            /\ \A i \in 1 .. IdLen : h[2 + IdLen + i] = f.target[i]
            /\ h[HeaderLen - 1] * Base + h[HeaderLen] = Len(f.payload)
<1>1. /\ Base \in Nat /\ Base > 3 /\ IdLen \in Nat /\ MaxPayload \in Nat
      /\ MaxPayload < Base * Base
  BY FrameAssumption
<1>2. /\ f.kind \in {1, 2, 3} /\ f.payload \in Seq(Byte)
      /\ f.sender \in Seq(Byte) /\ Len(f.sender) = IdLen
      /\ f.target \in Seq(Byte) /\ Len(f.target) = IdLen
  BY DEF Frame, Id, Kinds, Hello, Data, Keepalive
<1> DEFINE size == Len(f.payload)
           high == (size \div Base) % Base
           low == size % Base
<1>3. size \in Nat /\ size <= MaxPayload
  BY <1>2, LenProperties DEF Fits
<1>4. /\ size \div Base \in Nat /\ size \div Base < Base
      /\ (size \div Base) * Base + (size % Base) = size
      /\ size % Base \in 0 .. Base - 1
      /\ high = size \div Base
  <2> HIDE DEF size
  <2>1. size < Base * Base
    BY <1>1, <1>3, Z3
  <2> QED
    BY <1>1, <1>3, <2>1, TwoDigits
<1> HIDE DEF size, high
<1>5. high \in Byte /\ low \in Byte
  BY <1>1, <1>4 DEF Byte
<1>6. high * Base + low = size
  BY <1>4
<1>7. Version \in Byte /\ f.kind \in Byte
  BY <1>1, <1>2 DEF Byte, Version
<1> HIDE DEF low
<1> DEFINE tag == <<Version, f.kind>>
           width == <<high, low>>
           h == tag \o f.sender \o f.target \o width
<1>8. tag \in Seq(Byte) /\ Len(tag) = 2 /\ tag[1] = Version /\ tag[2] = f.kind
  BY <1>7, Pair
<1>9. width \in Seq(Byte) /\ Len(width) = 2 /\ width[1] = high /\ width[2] = low
  BY <1>5, Pair
<1>10. Header(f) = h
  BY DEF Header, high, low, size
<1> HIDE DEF tag, width
<1>11. /\ h \in Seq(Byte)
       /\ Len(h) = Len(tag) + Len(f.sender) + Len(f.target) + Len(width)
       /\ \A i \in 1 .. Len(tag) : h[i] = tag[i]
       /\ \A i \in 1 .. Len(f.sender) : h[Len(tag) + i] = f.sender[i]
       /\ \A i \in 1 .. Len(f.target) :
            h[Len(tag) + Len(f.sender) + i] = f.target[i]
       /\ \A i \in 1 .. Len(width) :
            h[Len(tag) + Len(f.sender) + Len(f.target) + i] = width[i]
  <2>1. /\ tag \in Seq(Byte) /\ f.sender \in Seq(Byte)
        /\ f.target \in Seq(Byte) /\ width \in Seq(Byte)
    BY <1>2, <1>8, <1>9
  <2>2. Joined(h, tag, f.sender, f.target, width, Byte)
    BY <2>1, FourParts, Zenon
  <2> HIDE DEF h
  <2> QED
    BY <2>2 DEF Joined
<1> HIDE DEF h
<1>12. /\ HeaderLen = 2 + IdLen + IdLen + 2
       /\ HeaderLen - 1 = 2 + IdLen + IdLen + 1
  BY <1>1 DEF HeaderLen
<1>13. /\ h[1] = tag[1] /\ h[2] = tag[2]
       /\ \A i \in 1 .. IdLen : h[2 + i] = f.sender[i]
       /\ \A i \in 1 .. IdLen : h[2 + IdLen + i] = f.target[i]
       /\ h[2 + IdLen + IdLen + 1] = width[1]
       /\ h[2 + IdLen + IdLen + 2] = width[2]
  BY <1>1, <1>2, <1>8, <1>9, <1>11
<1>14. h[HeaderLen - 1] * Base + h[HeaderLen] = Len(f.payload)
  BY <1>6, <1>9, <1>12, <1>13 DEF size
<1>15. Len(h) = HeaderLen
  BY <1>1, <1>2, <1>8, <1>9, <1>11, <1>12
<1> QED
  BY <1>8, <1>10, <1>11, <1>13, <1>14, <1>15

LEMMA EncodeShape ==
  ASSUME NEW f \in Frame, Fits(f)
  PROVE  LET d == Encode(f)
         IN /\ d \in Seq(Byte)
            /\ HeaderLen \in Nat /\ HeaderLen >= 4
            /\ Len(f.payload) \in Nat
            /\ Len(d) = HeaderLen + Len(f.payload)
            /\ Len(d) <= BufferSize
            /\ \A i \in 1 .. HeaderLen : d[i] = Header(f)[i]
            /\ \A i \in 1 .. Len(f.payload) : d[HeaderLen + i] = f.payload[i]
<1>1. /\ IdLen \in Nat /\ MaxPayload \in Nat /\ BufferSize \in Nat
      /\ HeaderLen + MaxPayload <= BufferSize
  BY FrameAssumption
<1>2. f.payload \in Seq(Byte) /\ Len(f.payload) \in Nat
  BY LenProperties DEF Frame
<1>3. HeaderLen \in Nat /\ HeaderLen >= 4
  BY <1>1 DEF HeaderLen
<1>4. Header(f) \in Seq(Byte) /\ Len(Header(f)) = HeaderLen
  BY HeaderShape
<1> DEFINE d == Header(f) \o f.payload
<1>5. /\ d \in Seq(Byte)
      /\ Len(d) = HeaderLen + Len(f.payload)
      /\ \A i \in 1 .. HeaderLen + Len(f.payload) :
           d[i] = IF i <= HeaderLen THEN Header(f)[i] ELSE f.payload[i - HeaderLen]
  BY <1>2, <1>4, ConcatProperties
<1> HIDE DEF d
<1>6. \A i \in 1 .. HeaderLen : d[i] = Header(f)[i]
  BY <1>2, <1>3, <1>5
<1>7. \A i \in 1 .. Len(f.payload) : d[HeaderLen + i] = f.payload[i]
  BY <1>2, <1>3, <1>5
<1>8. Len(d) <= BufferSize
  BY <1>1, <1>2, <1>3, <1>5 DEF Fits
<1>9. Encode(f) = d
  BY DEF Encode, d
<1> QED
  BY <1>2, <1>3, <1>5, <1>6, <1>7, <1>8, <1>9

(***************************************************************************)
(* RelayFrame::decode after RelayFrame::encode, with a recv_from between   *)
(* them: nothing is cut off, nothing is refused, and the frame is the one  *)
(* that was encoded.                                                       *)
(***************************************************************************)
THEOREM RoundTrip ==
  ASSUME NEW f \in Frame, Fits(f)
  PROVE  /\ Buffered(Encode(f)) = Encode(f)
         /\ Decodes(Encode(f))
         /\ Decode(Encode(f)) = f
<1> DEFINE d == Encode(f)
           n == Len(f.payload)
<1>1. /\ d \in Seq(Byte)
      /\ HeaderLen \in Nat /\ HeaderLen >= 4
      /\ n \in Nat
      /\ Len(d) = HeaderLen + n
      /\ Len(d) <= BufferSize
      /\ \A i \in 1 .. HeaderLen : d[i] = Header(f)[i]
      /\ \A i \in 1 .. n : d[HeaderLen + i] = f.payload[i]
  BY EncodeShape
<1>2. /\ Header(f)[1] = Version /\ Header(f)[2] = f.kind
      /\ \A i \in 1 .. IdLen : Header(f)[2 + i] = f.sender[i]
      /\ \A i \in 1 .. IdLen : Header(f)[2 + IdLen + i] = f.target[i]
      /\ Header(f)[HeaderLen - 1] * Base + Header(f)[HeaderLen] = n
  BY HeaderShape
<1>3. IdLen \in Nat /\ HeaderLen = 2 + IdLen + IdLen + 2
  BY FrameAssumption DEF HeaderLen
<1>4. /\ f.kind \in Kinds /\ f.payload \in Seq(Byte)
      /\ f.sender \in Seq(Byte) /\ Len(f.sender) = IdLen
      /\ f.target \in Seq(Byte) /\ Len(f.target) = IdLen
      /\ f = [kind |-> f.kind, sender |-> f.sender, target |-> f.target,
              payload |-> f.payload]
  BY DEF Frame, Id
<1> HIDE DEF d, n
<1>5. Buffered(d) = d
  <2>1. SubSeq(d, 1, Len(d)) = d
    BY <1>1, SubSeqFull
  <2> QED
    BY <1>1, <2>1 DEF Buffered
<1>6. d[1] = Version /\ d[2] = f.kind /\ PayloadLen(d) = n
  BY <1>1, <1>2 DEF PayloadLen
<1>7. Decodes(d)
  BY <1>1, <1>4, <1>6 DEF Decodes
<1>8. SubSeq(d, 3, 2 + IdLen) = f.sender
  <2>1. \A i \in 3 .. 2 + IdLen : d[i] \in Byte
    BY <1>1, <1>3, ElementOfSeq
  <2>2. /\ SubSeq(d, 3, 2 + IdLen) \in Seq(Byte)
        /\ Len(SubSeq(d, 3, 2 + IdLen)) = IdLen
        /\ \A i \in 1 .. IdLen : SubSeq(d, 3, 2 + IdLen)[i] = d[3 + i - 1]
    BY <1>3, <2>1, SubSeqProperties
  <2>3. \A i \in 1 .. IdLen : d[3 + i - 1] = f.sender[i]
    BY <1>1, <1>2, <1>3
  <2>4. f.sender \in Seq(Byte) /\ Len(f.sender) = IdLen
    BY <1>4
  <2>5. \A i \in 1 .. IdLen : SubSeq(d, 3, 2 + IdLen)[i] = f.sender[i]
    BY <2>2, <2>3
  <2> QED
    BY <2>2, <2>4, <2>5, SeqEqual, Zenon
<1>9. SubSeq(d, 3 + IdLen, 2 + 2 * IdLen) = f.target
  <2>1. \A i \in 3 + IdLen .. 2 + 2 * IdLen : d[i] \in Byte
    BY <1>1, <1>3, ElementOfSeq
  <2> DEFINE s == SubSeq(d, 3 + IdLen, 2 + 2 * IdLen)
  <2>2. /\ s \in Seq(Byte)
        /\ Len(s) = IdLen
        /\ \A i \in 1 .. IdLen : s[i] = d[3 + IdLen + i - 1]
    BY <1>3, <2>1, SubSeqProperties
  <2>3. \A i \in 1 .. IdLen : d[3 + IdLen + i - 1] = f.target[i]
    <3> TAKE i \in 1 .. IdLen
    <3>1. /\ 2 + IdLen + i \in 1 .. HeaderLen
          /\ 3 + IdLen + i - 1 = 2 + IdLen + i
      BY <1>3
    <3> QED
      BY <1>1, <1>2, <3>1, Zenon
  <2>4. f.target \in Seq(Byte) /\ Len(f.target) = IdLen
    BY <1>4
  <2>5. \A i \in 1 .. IdLen : s[i] = f.target[i]
    BY <2>2, <2>3
  <2> HIDE DEF s
  <2> QED
    BY <2>2, <2>4, <2>5, SeqEqual, Zenon DEF s
<1>10. SubSeq(d, HeaderLen + 1, HeaderLen + n) = f.payload
  <2>1. \A i \in HeaderLen + 1 .. HeaderLen + n : d[i] \in Byte
    BY <1>1, ElementOfSeq
  <2> DEFINE s == SubSeq(d, HeaderLen + 1, HeaderLen + n)
  <2>2. /\ s \in Seq(Byte)
        /\ Len(s) = n
        /\ \A i \in 1 .. n : s[i] = d[HeaderLen + 1 + i - 1]
    BY <1>1, <2>1, SubSeqProperties
  <2>3. \A i \in 1 .. n : d[HeaderLen + 1 + i - 1] = f.payload[i]
    BY <1>1
  <2>4. f.payload \in Seq(Byte) /\ Len(f.payload) = n
    BY <1>4 DEF n
  <2>5. \A i \in 1 .. n : s[i] = f.payload[i]
    BY <2>2, <2>3
  <2> HIDE DEF s
  <2> QED
    BY <2>2, <2>4, <2>5, SeqEqual, Zenon DEF s
<1>11. Decode(d) = f
  BY <1>4, <1>6, <1>8, <1>9, <1>10 DEF Decode
<1> QED
  BY <1>5, <1>7, <1>11 DEF d

-----------------------------------------------------------------------------
(***************************************************************************)
(* What is on its way is what encode has made of the frame.                *)
(***************************************************************************)
Underway ==
  /\ frame \in Frame
  /\ Fits(frame)
  /\ datagram = Encode(frame)

IInv ==
  /\ FrameArrives
  /\ place = "to relay" =>
       \/ frame = NoFrame /\ datagram = << 0 >>
       \/ Underway
  /\ place = "to client" => Underway /\ frame.kind = Data
  /\ frame \in Loads \cup Greetings \cup {NoFrame}

LEMMA DataIsFrame ==
  ASSUME NEW a \in PeerIds, NEW b \in PeerIds, NEW payload \in Payloads
  PROVE  DataFrame(a, b, payload) \in Frame
  BY FrameAssumption DEF DataFrame, Frame, Kinds, Id

LEMMA GreetingIsFrame ==
  ASSUME NEW kind \in {Hello, Keepalive}, NEW a \in PeerIds
  PROVE  Greeting(kind, a) \in Frame /\ Fits(Greeting(kind, a))
<1>1. Base \in Nat /\ Base > 3 /\ IdLen \in Nat /\ MaxPayload \in Nat
  BY FrameAssumption
<1>2. Nil \in Id
  <2>1. Nil \in [1 .. IdLen -> Byte]
    BY <1>1 DEF Nil, Byte
  <2> QED
    BY <1>1, <2>1 DEF Id, Nil
<1>3. <<>> \in Seq(Byte) /\ Len(<<>>) = 0
  OBVIOUS
<1>4. a \in Id
  BY FrameAssumption DEF Id
<1> QED
  BY <1>1, <1>2, <1>3, <1>4 DEF Greeting, Frame, Kinds, Fits

\* The relay and the client read the datagram of a frame as the frame.
LEMMA ReadBack ==
  ASSUME Underway
  PROVE  /\ Decodes(Buffered(datagram))
         /\ Decode(Buffered(datagram)) = frame
         /\ DataFrame(frame.sender, frame.target, frame.payload).payload
              = frame.payload
         /\ frame.kind = Data =>
              DataFrame(frame.sender, frame.target, frame.payload) = frame
<1>1. Buffered(Encode(frame)) = Encode(frame) /\ Decodes(Encode(frame))
      /\ Decode(Encode(frame)) = frame
  BY RoundTrip DEF Underway
<1> QED
  BY <1>1 DEF Underway, DataFrame, Frame

\* A probe is too short to be a frame.
LEMMA ProbeIsNone ==
  ASSUME datagram = << 0 >>
  PROVE  ~Decodes(Buffered(datagram))
<1>1. HeaderLen \in Nat /\ HeaderLen > 1 /\ BufferSize \in Nat /\ BufferSize > 1
  BY FrameAssumption DEF HeaderLen
<1>2. Len(datagram) = 1 /\ SubSeq(datagram, 1, 1) = datagram
  <2>1. datagram \in Seq({0}) /\ Len(datagram) = 1
    OBVIOUS
  <2> QED
    BY <2>1, SubSeqFull
<1>3. Len(Buffered(datagram)) = 1
  BY <1>1, <1>2 DEF Buffered
<1> QED
  BY <1>1, <1>3 DEF Decodes

LEMMA IInvStep ==
  ASSUME IInv, [FrameNext]_framing
  PROVE  IInv'
<1>1. ASSUME NEW f, f \in Frame, f \in Loads \cup Greetings, Submit(f)
      PROVE  IInv'
  <2>1. CASE Fits(f)
    <3>1. frame' = f /\ place' = "to relay" /\ datagram' = Encode(f)
      BY <1>1, <2>1 DEF Submit
    <3>2. Underway'
      BY <1>1, <2>1, <3>1 DEF Underway, Fits
    <3> QED
      BY <1>1, <3>1, <3>2 DEF IInv, FrameArrives
  <2>2. CASE ~Fits(f)
    <3>1. Len(f.payload) \in Nat /\ MaxPayload \in Nat
      BY <1>1, LenProperties, FrameAssumption DEF Frame
    <3>2. frame' = f /\ place' = "refused"
      BY <1>1, <2>2 DEF Submit
    <3>3. Len(frame'.payload) > MaxPayload
      BY <2>2, <3>1, <3>2 DEF Fits
    <3> QED
      BY <1>1, <3>2, <3>3 DEF IInv, FrameArrives
  <2> QED
    BY <2>1, <2>2
<1>2. CASE Send
  BY <1>1, <1>2, DataIsFrame DEF Send, Loads
<1>3. CASE Greet
  BY <1>1, <1>3, GreetingIsFrame DEF Greet, Greetings
<1>4. CASE Probe
  BY <1>4 DEF Probe, IInv, FrameArrives
<1>5. CASE RelayReceive
  <2>1. CASE Underway
    <3>1. /\ Decodes(Buffered(datagram))
          /\ Decode(Buffered(datagram)) = frame
          /\ DataFrame(frame.sender, frame.target, frame.payload).payload
               = frame.payload
          /\ frame.kind = Data =>
               DataFrame(frame.sender, frame.target, frame.payload) = frame
      BY <2>1, ReadBack
    <3>2. CASE frame.kind # Data
      <4>1. frame.kind \in {Hello, Keepalive}
        BY <2>1, <3>2 DEF Underway, Frame, Kinds
      <4> QED
        BY <1>5, <3>1, <3>2, <4>1 DEF RelayReceive, IInv, FrameArrives
    <3>3. CASE frame.kind = Data
      <4>1. place' = "to client" /\ datagram' = Encode(frame) /\ frame' = frame
        BY <1>5, <2>1, <3>1, <3>3 DEF RelayReceive, Underway, Fits
      <4> QED
        BY <2>1, <3>3, <4>1 DEF IInv, FrameArrives, Underway
    <3> QED
      BY <3>2, <3>3
  <2>2. CASE frame = NoFrame /\ datagram = << 0 >>
    <3>1. ~Decodes(Buffered(datagram))
      BY <2>2, ProbeIsNone
    <3> QED
      BY <1>5, <2>2, <3>1 DEF RelayReceive, IInv, FrameArrives
  <2> QED
    BY <1>5, <2>1, <2>2 DEF RelayReceive, IInv
<1>6. CASE ClientReceive
  <2>1. Underway /\ frame.kind = Data
    BY <1>6 DEF ClientReceive, IInv
  <2>2. Decodes(Buffered(datagram)) /\ Decode(Buffered(datagram)) = frame
        /\ DataFrame(frame.sender, frame.target, frame.payload) = frame
    BY <2>1, ReadBack
  <2>3. /\ place' = "received" /\ frame' = frame
        /\ returned' = [from |-> frame.sender, payload |-> frame.payload]
    BY <1>6, <2>1, <2>2 DEF ClientReceive
  <2> QED
    BY <2>2, <2>3 DEF IInv, FrameArrives
<1>7. CASE UNCHANGED framing
  BY <1>7 DEF framing, IInv, FrameArrives, Underway
<1> QED
  BY <1>2, <1>3, <1>4, <1>5, <1>6, <1>7 DEF FrameNext

LEMMA FrameInvariance == FrameSpec => []IInv
<1>1. FrameInit => IInv
  BY DEF FrameInit, IInv, FrameArrives
<1>2. IInv /\ [FrameNext]_framing => IInv'
  BY IInvStep
<1> QED
  BY <1>1, <1>2, PTL DEF FrameSpec

(***************************************************************************)
(* Every frame that encode accepts arrives, whatever the sizes are: the    *)
(* relay neither ends over a frame nor leaves one aside, no buffer cuts    *)
(* one off, and the other client receives what was sent.                   *)
(***************************************************************************)
THEOREM FrameArrivesHolds == FrameSpec => []FrameArrives
<1>1. IInv => FrameArrives
  BY DEF IInv
<1> QED
  BY <1>1, FrameInvariance, PTL

\* The kind tells the two sorts of frames, and a probe, from each other.
LEMMA Sorts ==
  /\ \A f \in Loads : f.kind = Data
  /\ \A f \in Greetings : f.kind # Data /\ f.kind # 0
  /\ NoFrame.kind = 0
  BY DEF Loads, Greetings, DataFrame, Greeting, NoFrame, Hello, Keepalive, Data

LEMMA WireStep ==
  ASSUME IInv, [FrameNext]_framing
  PROVE  [W!Next]_(W!wire)
<1> USE DEF W!HandOver, W!wire
<1>1. ASSUME NEW f, f \in Frame, f \in Loads \cup Greetings, Submit(f)
      PROVE  W!Next
  <2>1. Len(f.payload) \in Nat /\ MaxPayload \in Nat
    BY <1>1, LenProperties, FrameAssumption DEF Frame
  <2>2. CASE Len(f.payload) <= MaxPayload
    BY <1>1, <2>2 DEF Submit, InFlight, Fits, W!Submit, W!Next
  <2>3. CASE Len(f.payload) > MaxPayload
    BY <1>1, <2>1, <2>3 DEF Submit, InFlight, Fits, W!Submit, W!Next
  <2> QED
    BY <2>1, <2>2, <2>3
<1>2. CASE Send
  BY <1>1, <1>2, DataIsFrame DEF Send, Loads
<1>3. CASE Greet
  BY <1>1, <1>3, GreetingIsFrame DEF Greet, Greetings
<1>4. CASE Probe
  BY <1>4 DEF Probe, InFlight, W!Probe, W!Next
<1>5. CASE RelayReceive
  <2>1. CASE Underway
    <3>1. /\ Decodes(Buffered(datagram))
          /\ Decode(Buffered(datagram)) = frame
      BY <2>1, ReadBack
    <3>2. frame # NoFrame
      BY <2>1, Sorts DEF Underway, Frame, Kinds, Hello, Data, Keepalive
    <3>3. frame \in Loads <=> frame.kind = Data
      BY <3>2, Sorts DEF IInv
    <3>4. CASE frame \in Loads
      <4>1. place' = "to client"
        BY <1>5, <2>1, <3>1, <3>3, <3>4, ReadBack
           DEF RelayReceive, Underway, Fits
      <4> QED
        BY <1>5, <3>4, <4>1 DEF RelayReceive, W!Relayed, W!Next
    <3>5. CASE frame \notin Loads
      <4>1. frame \in Greetings
        BY <3>2, <3>5 DEF IInv
      <4> QED
        BY <1>5, <3>1, <3>3, <3>5, <4>1 DEF RelayReceive, W!Relayed, W!Next
    <3> QED
      BY <3>4, <3>5
  <2>2. CASE frame = NoFrame /\ datagram = << 0 >>
    <3>1. ~Decodes(Buffered(datagram))
      BY <2>2, ProbeIsNone
    <3> QED
      BY <1>5, <2>2, <3>1 DEF RelayReceive, W!Relayed, W!Next
  <2> QED
    BY <1>5, <2>1, <2>2 DEF RelayReceive, IInv
<1>6. CASE ClientReceive
  <2>1. Underway /\ frame.kind = Data
    BY <1>6 DEF ClientReceive, IInv
  <2>2. Decodes(Buffered(datagram)) /\ Decode(Buffered(datagram)) = frame
    BY <2>1, ReadBack
  <2> QED
    BY <1>6, <2>1, <2>2 DEF ClientReceive, W!Received, W!Next
<1>7. CASE UNCHANGED framing
  BY <1>7 DEF framing
<1> QED
  BY <1>2, <1>3, <1>4, <1>5, <1>6, <1>7 DEF FrameNext

(***************************************************************************)
(* The bytes implement Wire, for every size of a byte, an id, a payload    *)
(* and a buffer that FrameAssumption allows: this is what entitles Relay   *)
(* to take a frame as a record that a datagram carries whole.              *)
(***************************************************************************)
THEOREM FrameRefinement == FrameSpec => WireSpec
<1>1. FrameInit => W!Init
  BY DEF FrameInit, W!Init
<1>2. IInv /\ [FrameNext]_framing => [W!Next]_(W!wire)
  BY WireStep
<1> QED
  BY <1>1, <1>2, FrameInvariance, PTL DEF FrameSpec, WireSpec, W!Spec
=============================================================================
