---------------------------- MODULE MobileProofs ----------------------------
(***************************************************************************)
(* The engine of the phones (Mobile): a packet that was answered Ok is in  *)
(* one place, and packets leave in the order in which they were sent.      *)
(* Then the threads at its entry points (Entry): they find an engine, one  *)
(* at a time, and no datagram is out of reach of their polls.              *)
(*                                                                         *)
(* The argument about the packets: they are numbered as they are sent, and *)
(* the numbers rise from the packets forwarded to those in the queue to    *)
(* the next one.  A packet that goes out at once does so behind an empty   *)
(* queue, because only an engine that is reconnecting has one; and a flush *)
(* hands over some of the queue, in its order, and drops the rest.         *)
(***************************************************************************)
EXTENDS Mobile, Entry, FiniteSetTheorems, SequenceTheorems, TLAPS

-----------------------------------------------------------------------------
\* The numbers of the packets of s grow.
Rising(s) == \A i, j \in DOMAIN s : i < j => s[i].num < s[j].num

\* Those of s come before those of t.
Precedes(s, t) == \A i \in DOMAIN s, j \in DOMAIN t : s[i].num < t[j].num

\* Those of s have been given.
Given(s) == \A i \in DOMAIN s : s[i].num < next

\* The types of the variables that the properties are about.
MobileTypeOK ==
  /\ leases \subseteq G!Lease
  /\ \A p \in peers : p.id \in DeviceIds
  /\ state \in {"connected", "reconnecting"}
  /\ queue \in Seq(Outbound)
  /\ next \in 1 .. (MaxOutgoing + 1)
  /\ accepted \subseteq 1 .. MaxOutgoing
  /\ forwarded \in Seq(Hop)
  /\ lost \subseteq 1 .. MaxOutgoing

\* The numbers rise from what is forwarded to what is queued, up to next.
Ordered ==
  /\ Rising(forwarded) /\ Rising(queue)
  /\ Precedes(forwarded, queue)
  /\ Given(forwarded) /\ Given(queue)
  /\ \A n \in lost : n < next

\* What was answered Ok is forwarded, queued or lost, and only one of these.
InOnePlace ==
  /\ accepted = Nums(forwarded) \cup Nums(queue) \cup lost
  /\ Nums(forwarded) \cap lost = {}
  /\ Nums(queue) \cap lost = {}
  /\ Len(queue) <= MaxQueued

\* Only an engine that is reconnecting has packets in its queue.
QuietWhenConnected == state = "connected" => queue = <<>>

MobileInv ==
  /\ MobileTypeOK
  /\ Ordered
  /\ InOnePlace
  /\ QuietWhenConnected

-----------------------------------------------------------------------------
\* Packets are numbered, on their way and once they are handed over.
LEMMA NumTypes ==
  /\ \A p \in Outbound : p.num \in Nat
  /\ \A p \in Hop : p.num \in Nat
BY DEF Outbound, Hop

\* Two sequences with rising numbers, one before the other.
LEMMA Joined ==
  ASSUME NEW S, NEW s \in Seq(S), NEW t \in Seq(S), \A e \in S : e.num \in Nat,
         Rising(s), Rising(t), Precedes(s, t)
  PROVE  /\ s \o t \in Seq(S)
         /\ Rising(s \o t)
         /\ Nums(s \o t) = Nums(s) \cup Nums(t)
<1> DEFINE st == s \o t
<1>1. /\ st \in Seq(S)
      /\ Len(st) = Len(s) + Len(t)
      /\ \A i \in 1 .. Len(s) + Len(t) : st[i] = IF i <= Len(s) THEN s[i] ELSE t[i - Len(s)]
  BY ConcatProperties
<1>2. /\ Len(s) \in Nat /\ Len(t) \in Nat
      /\ DOMAIN s = 1 .. Len(s) /\ DOMAIN t = 1 .. Len(t) /\ DOMAIN st = 1 .. Len(s) + Len(t)
  BY <1>1, LenProperties
<1>3. \A i \in DOMAIN s : s[i].num \in Nat
  BY <1>2, ElementOfSeq
<1>4. \A i \in DOMAIN t : t[i].num \in Nat
  BY <1>2, ElementOfSeq
<1> HIDE DEF st
<1>5. /\ \A i \in DOMAIN s : i \in DOMAIN st /\ st[i] = s[i]
      /\ \A i \in DOMAIN t : i + Len(s) \in DOMAIN st /\ st[i + Len(s)] = t[i]
  BY <1>1, <1>2
<1>6. \A i \in DOMAIN st : \/ i \in DOMAIN s /\ st[i] = s[i]
                           \/ /\ i > Len(s)
                              /\ i - Len(s) \in DOMAIN t /\ st[i] = t[i - Len(s)]
  BY <1>1, <1>2
<1>7. Rising(st)
  <2> SUFFICES ASSUME NEW i \in DOMAIN st, NEW j \in DOMAIN st, i < j
               PROVE  st[i].num < st[j].num
    BY DEF Rising
  <2>1. CASE i \in DOMAIN s /\ st[i] = s[i] /\ j \in DOMAIN s /\ st[j] = s[j]
    BY <2>1 DEF Rising
  <2>2. CASE /\ i \in DOMAIN s /\ st[i] = s[i]
             /\ j - Len(s) \in DOMAIN t /\ st[j] = t[j - Len(s)]
    BY <2>2 DEF Precedes
  <2>3. CASE /\ i > Len(s)
             /\ i - Len(s) \in DOMAIN t /\ st[i] = t[i - Len(s)]
    <3>1. j \in Nat /\ i \in Nat /\ j > Len(s)
      BY <2>3, <1>2
    <3>2. j - Len(s) \in DOMAIN t /\ st[j] = t[j - Len(s)]
      BY <3>1, <1>2, <1>6
    <3>3. i - Len(s) < j - Len(s)
      BY <3>1, <1>2
    <3> QED
      BY <2>3, <3>2, <3>3 DEF Rising
  <2> QED
    BY <1>6, <2>1, <2>2, <2>3
<1>8. Nums(st) = Nums(s) \cup Nums(t)
  <2>1. \A n \in Nums(st) : n \in Nums(s) \cup Nums(t)
    BY <1>6 DEF Nums
  <2>2. \A n \in Nums(s) \cup Nums(t) : n \in Nums(st)
    BY <1>5 DEF Nums
  <2> QED
    BY <2>1, <2>2
<1> QED
  BY <1>1, <1>7, <1>8 DEF st

\* A packet at the end.
LEMMA Appended ==
  ASSUME NEW S, NEW s \in Seq(S), NEW e \in S, \A x \in S : x.num \in Nat,
         Rising(s), \A i \in DOMAIN s : s[i].num < e.num
  PROVE  /\ Append(s, e) \in Seq(S)
         /\ Rising(Append(s, e))
         /\ Nums(Append(s, e)) = Nums(s) \cup {e.num}
         /\ Len(Append(s, e)) = Len(s) + 1
<1> DEFINE t == <<e>>
<1>1. t \in Seq(S) /\ DOMAIN t = {1} /\ t[1] = e
  OBVIOUS
<1>2. Rising(t) /\ Nums(t) = {e.num}
  BY <1>1 DEF Rising, Nums
<1>3. Precedes(s, t)
  BY <1>1 DEF Precedes
<1>4. Append(s, e) = s \o t
  BY AppendIsConcat
<1> HIDE DEF t
<1> QED
  BY <1>1, <1>2, <1>3, <1>4, Joined, AppendProperties

\* All those numbers are different.
LEMMA RisingCounts ==
  ASSUME NEW S, NEW s \in Seq(S), \A e \in S : e.num \in Nat, Rising(s)
  PROVE  Len(s) = Cardinality(Nums(s))
<1> DEFINE f == [i \in 1 .. Len(s) |-> s[i].num]
<1>1. Len(s) \in Nat /\ DOMAIN s = 1 .. Len(s)
  BY LenProperties
<1>2. \A i \in 1 .. Len(s) : s[i].num \in Nat
  BY ElementOfSeq
<1>3. f \in Surjection(1 .. Len(s), Nums(s))
  BY <1>1 DEF Surjection, Nums
<1>4. f \in Injection(1 .. Len(s), Nums(s))
  <2>1. ASSUME NEW i \in 1 .. Len(s), NEW j \in 1 .. Len(s), f[i] = f[j]
        PROVE  i = j
    <3>1. ~(i < j) /\ ~(j < i)
      BY <2>1, <1>1, <1>2 DEF Rising
    <3> QED
      BY <3>1
  <2>2. f \in [1 .. Len(s) -> Nums(s)]
    BY <1>1 DEF Nums
  <2> HIDE DEF f
  <2> QED
    BY <2>1, <2>2 DEF Injection, IsInjective
<1>5. IsFiniteSet(1 .. Len(s)) /\ Cardinality(1 .. Len(s)) = Len(s)
  BY <1>1, FS_Interval
<1> QED
  BY <1>3, <1>4, <1>5, FS_Surjection

-----------------------------------------------------------------------------
\* The invariant implies what the runs check.
LEMMA Implied ==
  ASSUME MobileInv
  PROVE  Accounted /\ InOrder
<1>1. /\ queue \in Seq(Outbound \cup Hop) /\ forwarded \in Seq(Outbound \cup Hop)
      /\ \A e \in Outbound \cup Hop : e.num \in Nat
  BY SeqMonotonic, NumTypes DEF MobileInv, MobileTypeOK
<1>2. Rising(forwarded \o queue)
  BY <1>1, Joined DEF MobileInv, Ordered
<1>3. Len(forwarded) = Cardinality(Nums(forwarded))
  BY <1>1, RisingCounts DEF MobileInv, Ordered
<1>4. Nums(forwarded) \cap Nums(queue) = {}
  <2>1. \A i \in DOMAIN forwarded, j \in DOMAIN queue : forwarded[i].num # queue[j].num
    <3>1. \A i \in DOMAIN forwarded : forwarded[i].num \in Nat
      BY <1>1, LenProperties, ElementOfSeq
    <3> QED
      BY <3>1 DEF MobileInv, Ordered, Precedes
  <2> QED
    BY <2>1 DEF Nums
<1> QED
  BY <1>2, <1>3, <1>4 DEF MobileInv, InOnePlace, Accounted, InOrder, Rising

\* What holds of an empty queue.
LEMMA EmptyQueue ==
  /\ <<>> \in Seq(Outbound) /\ DOMAIN <<>> = {} /\ Len(<<>>) = 0
  /\ Rising(<<>>) /\ Given(<<>>) /\ Nums(<<>>) = {}
  /\ \A s : Precedes(s, <<>>)
<1>1. <<>> \in Seq(Outbound) /\ DOMAIN <<>> = {} /\ Len(<<>>) = 0
  OBVIOUS
<1> QED
  BY <1>1 DEF Rising, Given, Nums, Precedes

\* A phone begins with nothing sent.
LEMMA MobileInitInv == MobileInit => MobileInv
<1> SUFFICES ASSUME MobileInit PROVE MobileInv
  OBVIOUS
<1>1. /\ queue = <<>> /\ forwarded = <<>> /\ <<>> \in Seq(Hop)
      /\ MaxQueued \in Nat /\ MaxOutgoing \in Nat
  BY MobileAssumption DEF MobileInit
<1> QED
  BY <1>1, EmptyQueue DEF MobileInit, G!Init, MobileInv, MobileTypeOK, Ordered,
       InOnePlace, QuietWhenConnected

\* The numbers in the queue have been given.
LEMMA Numbers ==
  ASSUME MobileInv
  PROVE  /\ next \in Nat /\ MaxOutgoing \in Nat
         /\ \A i \in DOMAIN queue : queue[i] \in Outbound
         /\ \A i \in DOMAIN queue : queue[i].num \in 1 .. MaxOutgoing /\ queue[i].num < next
         /\ \A i \in DOMAIN forwarded : forwarded[i].num \in 1 .. MaxOutgoing /\ forwarded[i].num < next
         /\ \A n \in Nums(queue) : n \in 1 .. MaxOutgoing /\ n < next
<1>1. next \in Nat /\ MaxOutgoing \in Nat
  BY MobileAssumption DEF MobileInv, MobileTypeOK
<1>2. \A i \in DOMAIN queue : queue[i] \in Outbound
  BY ElementOfSeq, LenProperties DEF MobileInv, MobileTypeOK
<1>3. \A i \in DOMAIN forwarded : forwarded[i] \in Hop
  BY ElementOfSeq, LenProperties DEF MobileInv, MobileTypeOK
<1>4. \A i \in DOMAIN queue : queue[i].num \in 1 .. MaxOutgoing /\ queue[i].num < next
  BY <1>2 DEF MobileInv, Ordered, Given, Outbound
<1>5. \A i \in DOMAIN forwarded : forwarded[i].num \in 1 .. MaxOutgoing /\ forwarded[i].num < next
  BY <1>3 DEF MobileInv, Ordered, Given, Hop
<1> QED
  BY <1>1, <1>2, <1>4, <1>5 DEF Nums

\* engine_init.
LEMMA EngineInitStep ==
  ASSUME MobileInv, NEW l \in leases, EngineInit(l)
  PROVE  MobileInv'
<1>1. \A m \in leases : m.id \in DeviceIds
  BY DEF MobileInv, MobileTypeOK, G!Lease, DeviceIds
<1>2. \A p \in peers' : p.id \in DeviceIds
  BY <1>1 DEF EngineInit
<1>3. /\ queue' = <<>> /\ lost' = lost \cup Nums(queue) /\ state' = "connected"
      /\ UNCHANGED <<leases, next, accepted, forwarded>>
  BY DEF EngineInit
<1>4. Nums(queue) \subseteq 1 .. MaxOutgoing /\ \A n \in Nums(queue) : n < next
  BY Numbers
<1>5. MobileTypeOK'
  BY <1>2, <1>3, <1>4, EmptyQueue DEF MobileInv, MobileTypeOK
<1>6. Ordered'
  BY <1>3, <1>4, EmptyQueue DEF MobileInv, Ordered, Rising, Given, Precedes
<1>7. Nums(forwarded) \cap Nums(queue) = {}
  BY Implied DEF Accounted
<1>8. InOnePlace'
  BY <1>3, <1>7, EmptyQueue, MobileAssumption DEF MobileInv, InOnePlace, Nums
<1> QED
  BY <1>3, <1>5, <1>6, <1>8 DEF MobileInv, QuietWhenConnected

\* The packets that a reconnection sends are some of the queue, in its order.
LEMMA FlushedRise ==
  ASSUME MobileInv, NEW pick \in Picks(Len(queue)),
         NEW to \in [DOMAIN pick -> DeviceIds]
  PROVE  /\ Flushed(pick, to) \in Seq(Hop)
         /\ Rising(Flushed(pick, to))
         /\ Precedes(forwarded, Flushed(pick, to))
         /\ Given(Flushed(pick, to))
         /\ Nums(Flushed(pick, to)) = {queue[pick[j]].num : j \in DOMAIN pick}
         /\ \A j \in DOMAIN pick : pick[j] \in DOMAIN queue
<1> DEFINE F == Flushed(pick, to)
<1>1. PICK m \in 0 .. Len(queue) :
        /\ pick \in [1 .. m -> 1 .. Len(queue)]
        /\ \A i, j \in 1 .. m : i < j => pick[i] < pick[j]
  BY DEF Picks
<1>2. /\ Len(queue) \in Nat /\ DOMAIN queue = 1 .. Len(queue)
      /\ m \in Nat /\ DOMAIN pick = 1 .. m
  BY <1>1, LenProperties DEF MobileInv, MobileTypeOK
<1>3. \A j \in 1 .. m : pick[j] \in DOMAIN queue
  BY <1>1, <1>2
<1>4. /\ DOMAIN F = 1 .. m
      /\ \A j \in 1 .. m : /\ F[j] = HopOf(queue[pick[j]], to[j])
                            /\ F[j].num = queue[pick[j]].num
  BY <1>2 DEF Flushed, HopOf
<1>5. \A j \in 1 .. m : F[j] \in Hop
  <2> SUFFICES ASSUME NEW j \in 1 .. m PROVE F[j] \in Hop
    OBVIOUS
  <2>1. queue[pick[j]] \in Outbound /\ to[j] \in DeviceIds
    BY <1>2, <1>3, Numbers
  <2> QED
    BY <2>1, <1>4 DEF HopOf, Outbound, Hop
<1>6. F \in Seq(Hop)
  <2>1. F \in [1 .. m -> Hop]
    BY <1>2, <1>5 DEF Flushed
  <2>2. F \in UNION {[1 .. k -> Hop] : k \in Nat}
    BY <1>2, <2>1
  <2> QED
    BY <2>2, SeqDef
<1> HIDE DEF F
<1>7. Rising(F)
  <2> SUFFICES ASSUME NEW i \in 1 .. m, NEW j \in 1 .. m, i < j
               PROVE  F[i].num < F[j].num
    BY <1>4 DEF Rising
  <2>1. pick[i] < pick[j] /\ pick[i] \in DOMAIN queue /\ pick[j] \in DOMAIN queue
    BY <1>1, <1>3
  <2> QED
    BY <2>1, <1>4 DEF MobileInv, Ordered, Rising
<1>8. Precedes(forwarded, F)
  BY <1>3, <1>4 DEF MobileInv, Ordered, Precedes
<1>9. Given(F)
  BY <1>3, <1>4 DEF MobileInv, Ordered, Given
<1>10. Nums(F) = {queue[pick[j]].num : j \in DOMAIN pick}
  BY <1>2, <1>4 DEF Nums
<1> QED
  BY <1>2, <1>3, <1>6, <1>7, <1>8, <1>9, <1>10 DEF F

\* reconnect.
LEMMA ReconnectStep ==
  ASSUME MobileInv, Reconnect
  PROVE  MobileInv'
<1>1. PICK renewed \in SUBSET Listed, pick \in Picks(Len(queue)) :
      \E to \in [DOMAIN pick -> DeviceIds] :
        /\ peers' = Overlay(renewed)
        /\ forwarded' = forwarded \o Flushed(pick, to)
        /\ lost' = lost \cup {queue[i].num :
                                i \in DOMAIN queue \ {pick[j] : j \in DOMAIN pick}}
  BY DEF Reconnect
<1>2. PICK to \in [DOMAIN pick -> DeviceIds] :
        /\ peers' = Overlay(renewed)
        /\ forwarded' = forwarded \o Flushed(pick, to)
        /\ lost' = lost \cup {queue[i].num :
                                i \in DOMAIN queue \ {pick[j] : j \in DOMAIN pick}}
  BY <1>1
<1>3. state' = "connected" /\ queue' = <<>> /\ UNCHANGED <<leases, next, accepted>>
  BY DEF Reconnect
<1> DEFINE F == Flushed(pick, to)
           dropped == {queue[i].num : i \in DOMAIN queue \ {pick[j] : j \in DOMAIN pick}}
<1>4. /\ F \in Seq(Hop) /\ Rising(F) /\ Precedes(forwarded, F) /\ Given(F)
      /\ Nums(F) = {queue[pick[j]].num : j \in DOMAIN pick}
      /\ \A j \in DOMAIN pick : pick[j] \in DOMAIN queue
  BY FlushedRise
<1> HIDE DEF F
<1>5. /\ forwarded' \in Seq(Hop) /\ Rising(forwarded')
      /\ Nums(forwarded') = Nums(forwarded) \cup Nums(F)
  BY <1>2, <1>4, Joined, NumTypes DEF F, MobileInv, MobileTypeOK, Ordered
<1>6. Nums(queue) = Nums(F) \cup dropped
  BY <1>4 DEF Nums
<1>7. Nums(F) \cap dropped = {}
  <2> SUFFICES ASSUME NEW j \in DOMAIN pick,
                      NEW i \in DOMAIN queue \ {pick[k] : k \in DOMAIN pick},
                      queue[pick[j]].num = queue[i].num
               PROVE  FALSE
    BY <1>4
  <2>1. i # pick[j] /\ i \in DOMAIN queue /\ pick[j] \in DOMAIN queue
    BY <1>4
  <2>2. i \in Nat /\ pick[j] \in Nat
    BY <2>1, LenProperties DEF MobileInv, MobileTypeOK
  <2>3. queue[i].num \in Nat /\ queue[pick[j]].num \in Nat
    BY <2>1, Numbers
  <2>4. i < pick[j] \/ pick[j] < i
    BY <2>1, <2>2
  <2> QED
    BY <2>1, <2>3, <2>4 DEF MobileInv, Ordered, Rising
<1>8. \A n \in Nums(queue) : n \in 1 .. MaxOutgoing /\ n < next
  BY Numbers
<1> HIDE DEF dropped
<1>9. lost' = lost \cup dropped
  BY <1>2 DEF dropped
<1>10. \A p \in peers' : p.id \in DeviceIds
  <2>1. \A l \in leases : l.id \in DeviceIds
    BY DEF MobileInv, MobileTypeOK, G!Lease, DeviceIds
  <2>2. \A p \in Listed : p.id \in DeviceIds
    BY <2>1 DEF Listed
  <2> QED
    BY <2>2, <1>2 DEF Overlay, MobileInv, MobileTypeOK
<1>11. MobileTypeOK'
  BY <1>3, <1>5, <1>6, <1>8, <1>9, <1>10, EmptyQueue DEF MobileInv, MobileTypeOK
<1>12. Given(forwarded)'
  <2>1. \A n \in Nums(forwarded') : n < next
    BY <1>4, <1>5, <1>6, <1>8 DEF MobileInv, Ordered, Given, Nums
  <2> QED
    BY <2>1, <1>3 DEF Given, Nums
<1>13. Ordered'
  <2>1. Rising(queue)' /\ Precedes(forwarded, queue)' /\ Given(queue)'
    BY <1>3, EmptyQueue DEF Rising, Precedes, Given
  <2>2. \A n \in lost' : n < next'
    BY <1>3, <1>6, <1>8, <1>9 DEF MobileInv, Ordered
  <2> QED
    BY <1>5, <1>12, <2>1, <2>2 DEF Ordered
<1>14. Nums(forwarded) \cap Nums(queue) = {}
  BY Implied DEF Accounted
<1>15. InOnePlace'
  BY <1>3, <1>5, <1>6, <1>7, <1>9, <1>14, EmptyQueue, MobileAssumption
     DEF MobileInv, InOnePlace
<1> QED
  BY <1>3, <1>11, <1>13, <1>15 DEF MobileInv, QuietWhenConnected

\* A packet that is sent, queued or dropped has the next number.
LEMMA NextNumber ==
  ASSUME MobileInv, NEW p \in Outbound, Outgoing(p)
  PROVE  /\ p.num = next /\ next' = next + 1
         /\ next \in 1 .. MaxOutgoing /\ next' \in 1 .. (MaxOutgoing + 1)
         /\ \A i \in DOMAIN queue : queue[i].num < p.num
         /\ \A i \in DOMAIN forwarded : forwarded[i].num < p.num
         /\ next \notin lost /\ next \notin Nums(queue) /\ next \notin Nums(forwarded)
         /\ \A n \in Nat : n < next => n < next'
         /\ next < next'
<1>1. /\ p.num = next /\ next <= MaxOutgoing /\ next' = next + 1
      /\ next \in 1 .. (MaxOutgoing + 1) /\ MaxOutgoing \in Nat
  BY MobileAssumption DEF Outgoing, MobileInv, MobileTypeOK
<1>2. /\ \A i \in DOMAIN queue : queue[i].num < next
      /\ \A i \in DOMAIN forwarded : forwarded[i].num < next
      /\ \A n \in lost : n < next
  BY DEF MobileInv, Ordered, Given
<1>3. next \notin Nums(queue) /\ next \notin Nums(forwarded) /\ next \notin lost
  BY <1>1, <1>2 DEF Nums
<1> QED
  BY <1>1, <1>2, <1>3

\* engine_send_packet, connected.
LEMMA SendNowStep ==
  ASSUME MobileInv, NEW p \in Outbound, SendNow(p)
  PROVE  MobileInv'
<1>1. /\ Outgoing(p) /\ state = "connected" /\ queue = <<>>
      /\ UNCHANGED <<leases, peers, state, queue, lost>>
  BY DEF SendNow, MobileInv, QuietWhenConnected
<1>2. /\ p.num = next /\ next' = next + 1
      /\ next \in 1 .. MaxOutgoing /\ next' \in 1 .. (MaxOutgoing + 1)
      /\ \A i \in DOMAIN forwarded : forwarded[i].num < p.num
      /\ next \notin lost /\ next < next'
  BY <1>1, NextNumber
<1>3. /\ \A i \in DOMAIN forwarded : forwarded[i].num \in Nat /\ forwarded[i].num < next'
      /\ \A n \in lost : n < next'
  BY <1>2, Numbers DEF MobileInv, MobileTypeOK, Ordered
<1>4. CASE UNCHANGED <<forwarded, accepted>>
  <2>1. MobileTypeOK'
    BY <1>1, <1>2, <1>4 DEF MobileInv, MobileTypeOK
  <2>2. Ordered'
    BY <1>1, <1>3, <1>4, EmptyQueue DEF MobileInv, Ordered, Given, Rising, Precedes
  <2> QED
    BY <1>1, <1>4, <2>1, <2>2 DEF MobileInv, InOnePlace, QuietWhenConnected, Nums
<1>5. ASSUME NEW to \in Routes(peers, p.dst), to # 0,
             forwarded' = Append(forwarded, HopOf(p, to)),
             accepted' = accepted \cup {p.num}
      PROVE  MobileInv'
  <2>1. to \in DeviceIds
    BY <1>5 DEF Routes, MobileInv, MobileTypeOK
  <2>2. HopOf(p, to) \in Hop /\ HopOf(p, to).num = p.num
    BY <2>1 DEF HopOf, Hop, Outbound
  <2>3. /\ forwarded' \in Seq(Hop) /\ Rising(forwarded')
        /\ Nums(forwarded') = Nums(forwarded) \cup {p.num}
    BY <2>2, <1>2, <1>5, Appended, NumTypes DEF MobileInv, MobileTypeOK, Ordered
  <2>4. MobileTypeOK'
    BY <2>3, <1>1, <1>2, <1>5 DEF MobileInv, MobileTypeOK
  <2>5. \A n \in Nums(forwarded') : n < next'
    BY <2>3, <1>2, <1>3 DEF Nums
  <2>6. Given(forwarded)'
    BY <2>5 DEF Given, Nums
  <2>7. Ordered'
    <3>1. Rising(queue)' /\ Precedes(forwarded, queue)' /\ Given(queue)'
      BY <1>1, EmptyQueue DEF Rising, Precedes, Given
    <3>2. \A n \in lost' : n < next'
      BY <1>1, <1>3
    <3> QED
      BY <2>3, <2>6, <3>1, <3>2 DEF Ordered
  <2>8. InOnePlace'
    <3>1. Nums(queue) = {} /\ Nums(queue)' = {} /\ next \notin Nums(forwarded)
      BY <1>1, <1>2 DEF Nums
    <3> QED
      BY <1>1, <1>2, <1>5, <2>3, <3>1 DEF MobileInv, InOnePlace
  <2> QED
    BY <1>1, <2>4, <2>7, <2>8 DEF MobileInv, QuietWhenConnected
<1> QED
  BY <1>4, <1>5 DEF SendNow

\* engine_send_packet, reconnecting.
LEMMA SendLaterStep ==
  ASSUME MobileInv, NEW p \in Outbound, SendLater(p)
  PROVE  MobileInv'
<1>1. /\ Outgoing(p) /\ state = "reconnecting" /\ accepted' = accepted \cup {p.num}
      /\ UNCHANGED <<leases, peers, state, forwarded>>
  BY DEF SendLater
<1>2. /\ p.num = next /\ next' = next + 1
      /\ next \in 1 .. MaxOutgoing /\ next' \in 1 .. (MaxOutgoing + 1)
      /\ \A i \in DOMAIN queue : queue[i].num < p.num
      /\ \A i \in DOMAIN forwarded : forwarded[i].num < p.num
      /\ next \notin lost /\ next \notin Nums(queue) /\ next \notin Nums(forwarded)
      /\ next < next'
  BY <1>1, NextNumber
<1>3. /\ \A i \in DOMAIN forwarded : forwarded[i].num \in Nat /\ forwarded[i].num < next'
      /\ \A i \in DOMAIN queue : queue[i].num \in Nat /\ queue[i].num < next'
      /\ \A n \in lost : n < next'
  BY <1>2, Numbers DEF MobileInv, MobileTypeOK, Ordered
<1>4. CASE Len(queue) < MaxQueued /\ queue' = Append(queue, p) /\ UNCHANGED lost
  <2>1. /\ queue' \in Seq(Outbound) /\ Rising(queue')
        /\ Nums(queue') = Nums(queue) \cup {p.num} /\ Len(queue') = Len(queue) + 1
    BY <1>2, <1>4, Appended, NumTypes DEF MobileInv, MobileTypeOK, Ordered
  <2>2. MobileTypeOK'
    BY <2>1, <1>1, <1>2, <1>4 DEF MobileInv, MobileTypeOK
  <2>3. \A n \in Nums(queue') : n < next' /\ \A i \in DOMAIN forwarded : forwarded[i].num < n
    BY <2>1, <1>2, <1>3 DEF Nums, MobileInv, Ordered, Precedes
  <2>4. Given(queue)' /\ Precedes(forwarded, queue)'
    BY <1>1, <2>3 DEF Given, Precedes, Nums
  <2>5. Given(forwarded)'
    BY <1>1, <1>3 DEF Given
  <2>6. Ordered'
    BY <1>1, <1>3, <1>4, <2>1, <2>4, <2>5 DEF MobileInv, Ordered, Rising
  <2>7. Len(queue) \in Nat /\ MaxQueued \in Nat
    BY MobileAssumption, LenProperties DEF MobileInv, MobileTypeOK
  <2>8. InOnePlace'
    BY <1>1, <1>2, <1>4, <2>1, <2>7 DEF MobileInv, InOnePlace, Nums
  <2> QED
    BY <1>1, <2>2, <2>6, <2>8 DEF MobileInv, QuietWhenConnected
<1>5. CASE lost' = lost \cup {p.num} /\ UNCHANGED queue
  <2>1. MobileTypeOK'
    BY <1>1, <1>2, <1>5 DEF MobileInv, MobileTypeOK
  <2>2. Ordered'
    BY <1>1, <1>2, <1>3, <1>5 DEF MobileInv, Ordered, Given, Rising, Precedes
  <2>3. InOnePlace'
    BY <1>1, <1>2, <1>5 DEF MobileInv, InOnePlace, Nums
  <2> QED
    BY <1>1, <2>1, <2>2, <2>3 DEF MobileInv, QuietWhenConnected
<1> QED
  BY <1>4, <1>5 DEF SendLater

\* The leases keep their type whatever the control service does.
LEMMA ControlStep ==
  ASSUME MobileInv, Control
  PROVE  MobileInv'
<1>1. leases' \subseteq G!Lease
  BY DEF Control, MobileInv, MobileTypeOK, G!Lease, G!Join, G!Approve, G!Revoke, G!Leave, G!NoAddr
<1> QED
  BY <1>1 DEF Control, phone, MobileInv, MobileTypeOK, Ordered, InOnePlace,
     QuietWhenConnected, Given, Rising, Precedes, Nums

\* The invariant is inductive.
LEMMA MobileInvariance == MobileSpec => []MobileInv
<1>1. MobileInv /\ [MobileNext]_driving => MobileInv'
  <2> SUFFICES ASSUME MobileInv, [MobileNext]_driving PROVE MobileInv'
    OBVIOUS
  <2>1. CASE ReconnectFails
    BY <2>1 DEF ReconnectFails, MobileInv, MobileTypeOK, Ordered, InOnePlace,
       QuietWhenConnected, Given, Rising, Precedes, Nums
  <2>2. CASE UNCHANGED driving
    BY <2>2 DEF driving, phone, MobileInv, MobileTypeOK, Ordered, InOnePlace,
       QuietWhenConnected, Given, Rising, Precedes, Nums
  <2> QED
    BY <2>1, <2>2, EngineInitStep, ReconnectStep, SendNowStep, SendLaterStep,
       ControlStep DEF MobileNext
<1> QED
  BY <1>1, MobileInitInv, PTL DEF MobileSpec

\* A packet that was answered Ok is in one place, and the queue has its limit.
THEOREM AccountedHolds == MobileSpec => []Accounted
BY MobileInvariance, Implied, PTL

\* The packets leave in the order in which they were sent.
THEOREM InOrderHolds == MobileSpec => []InOrder
BY MobileInvariance, Implied, PTL

-----------------------------------------------------------------------------
(***************************************************************************)
(* The entry points.  EngineInPlace is inductive but for one fact: only    *)
(* the thread of the app comes to ENGINE to put an engine there, so that   *)
(* whoever waits for it otherwise is behind active, behind monitored or    *)
(* behind SwapEngine.                                                      *)
(***************************************************************************)
OnlyTheAppSwaps ==
  \A t \in Threads : place[t] \in {"init", "swap", "swapping"} => t = "app"

EntryInv ==
  /\ place \in [Threads -> Places]
  /\ lock \in Threads \cup {NoOne}
  /\ EngineInPlace
  /\ OnlyTheAppSwaps

LEMMA EntryInitInv == Init => EntryInv
  BY DEF Init, EntryInv, EngineInPlace, OnlyTheAppSwaps, Threads, Places, NoOne

\* A thread that leaves the host, or waits once more, does so with an engine.
LEMMA EntryStarts ==
  ASSUME EntryInv,
         StartTunnel \/ InitAnswered \/ AppMessage \/ SendStarts
           \/ ReconnectStarts \/ PollStarts
  PROVE  EntryInv'
<1> USE DEF Go, EntryInv, EngineInPlace, OnlyTheAppSwaps, Threads, Places, NoOne
<1>1. CASE StartTunnel
  BY <1>1 DEF StartTunnel
<1>2. CASE InitAnswered
  BY <1>2 DEF InitAnswered
<1>3. CASE AppMessage
  BY <1>3 DEF AppMessage
<1>4. CASE SendStarts
  BY <1>4 DEF SendStarts
<1>5. CASE ReconnectStarts
  BY <1>5 DEF ReconnectStarts
<1>6. CASE PollStarts
  BY <1>6 DEF PollStarts
<1> QED
  BY <1>1, <1>2, <1>3, <1>4, <1>5, <1>6

LEMMA EntryAcquires ==
  ASSUME EntryInv, NEW t \in Threads, Acquire(t)
  PROVE  EntryInv'
<1>1. place[t] \in {"swap", "wait"}
  BY DEF Acquire, Held
<1>2. Held[place[t]] = IF place[t] = "swap" THEN "swapping" ELSE "hold"
  BY <1>1 DEF Held
<1> QED
  BY <1>1, <1>2 DEF Acquire, Go, EntryInv, EngineInPlace, OnlyTheAppSwaps,
     Threads, Places, NoOne

LEMMA EntryReturns ==
  ASSUME EntryInv,
         SwapEngine \/ GetVirtualIp \/ SendReturns \/ ReconnectReturns
           \/ ReadPeer \/ PollReturns
  PROVE  EntryInv'
<1> USE DEF Holds, Return, Go, EntryInv, EngineInPlace, OnlyTheAppSwaps, Threads,
            Places, NoOne
<1>1. CASE SwapEngine
  BY <1>1 DEF SwapEngine
<1>2. CASE GetVirtualIp
  BY <1>2 DEF GetVirtualIp
<1>3. CASE SendReturns
  BY <1>3 DEF SendReturns
<1>4. CASE ReconnectReturns
  BY <1>4 DEF ReconnectReturns
<1>5. CASE ReadPeer
  BY <1>5 DEF ReadPeer, Polling
<1>6. CASE PollReturns
  BY <1>6 DEF PollReturns, Polling
<1> QED
  BY <1>1, <1>2, <1>3, <1>4, <1>5, <1>6

LEMMA EntryInvariance == Spec => []EntryInv
<1>1. EntryInv /\ [Next]_vars => EntryInv'
  <2> SUFFICES ASSUME EntryInv, [Next]_vars PROVE EntryInv'
    OBVIOUS
  <2>1. CASE StopTunnel \/ PollBlocked \/ NextPeer \/ \E p \in Peers : Arrive(p)
    BY <2>1 DEF StopTunnel, PollBlocked, NextPeer, Arrive, EntryInv,
       EngineInPlace, OnlyTheAppSwaps
  <2>2. CASE UNCHANGED vars
    BY <2>2 DEF vars, EntryInv, EngineInPlace, OnlyTheAppSwaps
  <2> QED
    BY <2>1, <2>2, EntryAcquires, EntryStarts, EntryReturns DEF Next
<1> QED
  BY <1>1, EntryInitInv, PTL DEF Spec

(***************************************************************************)
(* The calls meet the engine one at a time, and none before it is there,   *)
(* whatever the host's threads do to each other.                           *)
(***************************************************************************)
THEOREM EngineInPlaceHolds == Spec => []EngineInPlace
<1>1. EntryInv => EngineInPlace
  BY DEF EntryInv
<1> QED
  BY <1>1, EntryInvariance, PTL

\* An order of peers that HashMap yields has each of them once.
LEMMA OrdersHaveEachOnce ==
  ASSUME NEW S, NEW o \in Orders(S)
  PROVE  /\ S \subseteq ToSet(o)
         /\ \A i, j \in DOMAIN o : i # j => o[i] # o[j]
  BY DEF Orders, SetToSeqs

LEMMA ReadyStep == ReadyArePolled /\ [Next]_vars => ReadyArePolled'
<1> SUFFICES ASSUME ReadyArePolled, [Next]_vars PROVE ReadyArePolled'
  OBVIOUS
<1>1. CASE SwapEngine
  BY <1>1, OrdersHaveEachOnce DEF SwapEngine, ReadyArePolled
<1>2. CASE ReconnectReturns
  <2>1. PICK renewed \in SUBSET Peers :
          /\ ready' = ready \ renewed
          /\ IF renewed \subseteq ToSet(order) THEN order' = order
             ELSE order' \in {o \in Orders(ToSet(order)) :
                                ToSet(o) = ToSet(order) \cup renewed}
    BY <1>2 DEF ReconnectReturns
  <2>2. CASE order' = order
    BY <2>1, <2>2 DEF ReadyArePolled
  <2>3. CASE order' \in Orders(ToSet(order))
    BY <2>1, <2>3, OrdersHaveEachOnce DEF ReadyArePolled
  <2> QED
    BY <2>1, <2>2, <2>3
<1>3. CASE ReadPeer \/ \E p \in Peers : Arrive(p)
  BY <1>3 DEF ReadPeer, Arrive, ReadyArePolled
<1>4. CASE UNCHANGED <<order, ready>>
  BY <1>4 DEF ReadyArePolled
<1> QED
  BY <1>1, <1>2, <1>3, <1>4 DEF Next, Acquire, StartTunnel, InitAnswered,
     GetVirtualIp, AppMessage, StopTunnel, SendStarts, SendReturns,
     ReconnectStarts, PollStarts, PollBlocked, NextPeer, PollReturns, vars

(***************************************************************************)
(* Every datagram that has arrived waits at a socket that the next polls   *)
(* come to, each of them once: what a reconnection does to the map keeps   *)
(* the old peers in it.                                                    *)
(***************************************************************************)
THEOREM ReadyArePolledHolds == Spec => []ReadyArePolled
<1>1. Init => ReadyArePolled
  BY DEF Init, ReadyArePolled
<1> QED
  BY <1>1, ReadyStep, PTL DEF Spec
=============================================================================
