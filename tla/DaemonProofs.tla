---------------------------- MODULE DaemonProofs ----------------------------
(***************************************************************************)
(* The mutex of SharedState belongs to one task at a time, for any number  *)
(* of requests and peers, through cancellations, swaps and crashes; and a  *)
(* packet keeps its link.                                                  *)
(*                                                                         *)
(* The argument: a task enters the queue of the mutex in the step in which *)
(* it begins to wait, and leaves it in the step in which it is done.  No   *)
(* task is in the queue twice, so who is at the head stays there until it  *)
(* leaves, and nobody else uses the state.                                 *)
(***************************************************************************)
EXTENDS Daemon, SequenceTheorems, TLAPS

\* The start makes the first maps before there is a task to forward packets.
QuietBeforeUp == ~Up => tun = "read"

IInv ==
  /\ TypeOK
  /\ StateIsExclusive
  /\ NoLinkIsLost
  /\ QuietBeforeUp

-----------------------------------------------------------------------------
(***************************************************************************)
(* Queues without repetitions.                                             *)
(***************************************************************************)
In(q, t) == \E i \in DOMAIN q : q[i] = t

Once(q) == \A i, j \in DOMAIN q : q[i] = q[j] => i = j

LEMMA AppendOnce ==
  ASSUME NEW T, NEW q \in Seq(T), NEW t \in T, Once(q), ~In(q, t)
  PROVE  /\ Append(q, t) \in Seq(T)
         /\ Once(Append(q, t))
         /\ \A u : In(Append(q, t), u) <=> In(q, u) \/ u = t
         /\ Append(q, t) # <<>>
         /\ q # <<>> => Head(Append(q, t)) = Head(q)
<1>1. /\ Append(q, t) \in Seq(T)
      /\ DOMAIN Append(q, t) = 1 .. (Len(q) + 1)
      /\ DOMAIN q = 1 .. Len(q)
      /\ Append(q, t)[Len(q) + 1] = t
      /\ \A i \in 1 .. Len(q) : Append(q, t)[i] = q[i]
  OBVIOUS
<1>2. Once(Append(q, t))
  BY <1>1 DEF Once, In
<1>3. \A u : In(Append(q, t), u) <=> In(q, u) \/ u = t
  BY <1>1 DEF In
<1> QED
  BY <1>1, <1>2, <1>3

LEMMA TailOnce ==
  ASSUME NEW T, NEW q \in Seq(T), q # <<>>, Once(q)
  PROVE  /\ Tail(q) \in Seq(T)
         /\ Once(Tail(q))
         /\ \A u : In(Tail(q), u) <=> In(q, u) /\ u # Head(q)
<1>1. /\ Tail(q) \in Seq(T)
      /\ DOMAIN Tail(q) = 1 .. (Len(q) - 1)
      /\ DOMAIN q = 1 .. Len(q) /\ 1 \in DOMAIN q
      /\ Head(q) = q[1]
      /\ \A i \in 1 .. (Len(q) - 1) : Tail(q)[i] = q[i + 1]
  OBVIOUS
<1>2. Once(Tail(q))
  BY <1>1 DEF Once
<1>3. ASSUME NEW u, In(Tail(q), u)
      PROVE  In(q, u) /\ u # Head(q)
  BY <1>1, <1>3 DEF In, Once
<1>4. ASSUME NEW u, In(q, u), u # Head(q)
      PROVE  In(Tail(q), u)
  <2>1. PICK i \in 1 .. Len(q) : q[i] = u /\ i # 1
    BY <1>1, <1>4 DEF In
  <2>2. i - 1 \in 1 .. (Len(q) - 1) /\ (i - 1) + 1 = i
    BY <2>1
  <2> QED
    BY <1>1, <2>1, <2>2 DEF In
<1> QED
  BY <1>1, <1>2, <1>3, <1>4

LEMMA RemoveAt ==
  ASSUME NEW T, NEW q \in Seq(T), NEW n \in 1 .. Len(q)
  PROVE  LET r == SubSeq(q, 1, n - 1) \o SubSeq(q, n + 1, Len(q))
         IN  /\ r \in Seq(T) /\ Len(r) = Len(q) - 1
             /\ \A i \in 1 .. (Len(q) - 1) : i < n => r[i] = q[i]
             /\ \A i \in 1 .. (Len(q) - 1) : ~(i < n) => r[i] = q[i + 1]
<1> DEFINE a == SubSeq(q, 1, n - 1)
           b == SubSeq(q, n + 1, Len(q))
<1> HIDE DEF a, b
<1>1. /\ Len(q) \in Nat /\ DOMAIN q = 1 .. Len(q)
      /\ n \in Nat /\ 1 <= n /\ n <= Len(q)
      /\ \A i \in 1 .. Len(q) : q[i] \in T
  OBVIOUS
<1>2. /\ a \in Seq(T) /\ Len(a) = n - 1
      /\ \A i \in 1 .. (n - 1) : a[i] = q[i]
  BY <1>1 DEF a
<1>3. /\ b \in Seq(T) /\ Len(b) = Len(q) - n
      /\ \A i \in 1 .. (Len(q) - n) : b[i] = q[i + n]
  <2>1. /\ b \in Seq(T)
        /\ Len(b) = IF n + 1 <= Len(q) THEN Len(q) - (n + 1) + 1 ELSE 0
        /\ \A i \in 1 .. Len(q) - (n + 1) + 1 : b[i] = q[(n + 1) + i - 1]
    BY <1>1, SubSeqProperties DEF b
  <2>2. \A i \in 1 .. (Len(q) - n) : (n + 1) + i - 1 = i + n
    BY <1>1
  <2>3. Len(b) = Len(q) - n
    <3>1. CASE n + 1 <= Len(q)
      BY <1>1, <2>1, <3>1
    <3>2. CASE n = Len(q)
      BY <1>1, <2>1, <3>2
    <3>3. n + 1 <= Len(q) \/ n = Len(q)
      <4>1. \A k, l \in Nat : k <= l => k + 1 <= l \/ k = l
        OBVIOUS
      <4> QED
        BY <1>1, <4>1
    <3> QED
      BY <3>1, <3>2, <3>3
  <2>4. ASSUME NEW i \in 1 .. (Len(q) - n)
        PROVE  b[i] = q[i + n]
    <3>1. i \in 1 .. Len(q) - (n + 1) + 1
      BY <1>1
    <3> QED
      BY <2>1, <2>2, <3>1
  <2> QED
    BY <2>1, <2>3, <2>4
<1>4. /\ a \o b \in Seq(T) /\ Len(a \o b) = Len(a) + Len(b)
      /\ \A i \in 1 .. Len(a) + Len(b) :
           (a \o b)[i] = IF i <= Len(a) THEN a[i] ELSE b[i - Len(a)]
  BY <1>2, <1>3, ConcatProperties
<1>5. Len(a) + Len(b) = Len(q) - 1
  BY <1>1, <1>2, <1>3
<1>6. ASSUME NEW i \in 1 .. (Len(q) - 1), i < n
      PROVE  (a \o b)[i] = q[i]
  BY <1>1, <1>2, <1>4, <1>5, <1>6
<1>7. ASSUME NEW i \in 1 .. (Len(q) - 1), ~(i < n)
      PROVE  (a \o b)[i] = q[i + 1]
  <2>1. i - (n - 1) \in 1 .. (Len(q) - n) /\ (i - (n - 1)) + n = i + 1
    BY <1>1, <1>7
  <2>2. ~(i <= n - 1)
    BY <1>1, <1>7
  <2>3. (a \o b)[i] = b[i - (n - 1)]
    BY <1>2, <1>4, <1>5, <2>2
  <2> QED
    BY <1>3, <2>1, <2>3
<1>8. /\ a \o b \in Seq(T) /\ Len(a \o b) = Len(q) - 1
      /\ \A i \in 1 .. (Len(q) - 1) : i < n => (a \o b)[i] = q[i]
      /\ \A i \in 1 .. (Len(q) - 1) : ~(i < n) => (a \o b)[i] = q[i + 1]
  BY <1>4, <1>5, <1>6, <1>7
<1> QED
  BY <1>8 DEF a, b

LEMMA RemoveOnce ==
  ASSUME NEW T, NEW q \in Seq(T), Once(q), NEW n \in 1 .. Len(q), NEW r \in Seq(T),
         Len(r) = Len(q) - 1,
         \A i \in 1 .. (Len(q) - 1) : i < n => r[i] = q[i],
         \A i \in 1 .. (Len(q) - 1) : ~(i < n) => r[i] = q[i + 1]
  PROVE  /\ Once(r)
         /\ \A u : In(r, u) <=> In(q, u) /\ u # q[n]
         /\ q[n] # Head(q) => r # <<>> /\ Head(r) = Head(q)
<1> DEFINE at(i) == IF i < n THEN i ELSE i + 1
<1>1. /\ Len(q) \in Nat /\ DOMAIN q = 1 .. Len(q) /\ DOMAIN r = 1 .. (Len(q) - 1)
  OBVIOUS
<1>2. \A i \in DOMAIN r : at(i) \in DOMAIN q /\ at(i) # n
  BY <1>1
<1>3. \A i \in DOMAIN r : r[i] = q[at(i)]
  BY <1>1
<1>4. \A i, j \in DOMAIN r : at(i) = at(j) => i = j
  BY <1>1
<1>5. ASSUME NEW i \in DOMAIN q, i # n
      PROVE  \E j \in DOMAIN r : at(j) = i
  <2>1. CASE i < n
    <3>1. i \in DOMAIN r /\ at(i) = i
      BY <1>1, <2>1
    <3> QED
      BY <3>1
  <2>2. CASE i > n
    <3>1. i - 1 \in DOMAIN r /\ at(i - 1) = i
      BY <1>1, <2>2
    <3> QED
      BY <3>1
  <2> QED
    BY <1>1, <1>5, <2>1, <2>2
<1>6. n \in DOMAIN q
  BY <1>1
<1> HIDE DEF at
<1>7. Once(r)
  BY <1>2, <1>3, <1>4 DEF Once
<1>8. ASSUME NEW u, In(r, u)
      PROVE  In(q, u) /\ u # q[n]
  <2>1. PICK i \in DOMAIN r : r[i] = u
    BY <1>8 DEF In
  <2> QED
    BY <1>2, <1>3, <1>6, <2>1 DEF In, Once
<1>9. ASSUME NEW u, In(q, u), u # q[n]
      PROVE  In(r, u)
  <2>1. PICK i \in DOMAIN q : q[i] = u /\ i # n
    BY <1>9 DEF In
  <2>2. PICK j \in DOMAIN r : at(j) = i
    BY <1>5, <2>1
  <2> QED
    BY <1>3, <2>1, <2>2 DEF In
<1>10. ASSUME q[n] # Head(q)
       PROVE  r # <<>> /\ Head(r) = Head(q)
  <2>1. n > 1 /\ q # <<>> /\ Head(q) = q[1]
    BY <1>1, <1>10
  <2>2. r[1] = q[1] /\ Len(r) > 0
    BY <1>1, <2>1
  <2> QED
    BY <2>1, <2>2
<1> QED
  BY <1>7, <1>8, <1>9, <1>10

-----------------------------------------------------------------------------
(***************************************************************************)
(* What a step does to the queue, and what it must do to the tasks so that *)
(* the mutex stays exclusive.                                              *)
(***************************************************************************)
LEMMA Kept ==
  ASSUME StateIsExclusive, lock' = lock,
         \A t \in Tasks : Queues(t)' <=> Queues(t),
         \A t \in Tasks : Uses(t)' => Uses(t) \/ Holds(t)
  PROVE  StateIsExclusive'
<1>1. \A t \in Tasks : Holds(t)' <=> Holds(t)
  BY DEF Holds
<1>2. \A t \in Tasks : Uses(t)' => Holds(t)'
  BY <1>1 DEF StateIsExclusive
<1> QED
  BY <1>2 DEF StateIsExclusive

LEMMA Entered ==
  ASSUME StateIsExclusive, lock \in Seq(Tasks), NEW t0 \in Tasks, Enter(t0),
         ~Queues(t0),
         \A t \in Tasks : Queues(t)' <=> Queues(t) \/ t = t0,
         \A t \in Tasks : Uses(t)' => Uses(t)
  PROVE  lock' \in Seq(Tasks) /\ StateIsExclusive'
<1>1. Once(lock) /\ ~In(lock, t0)
  BY DEF StateIsExclusive, Once, In
<1>2. /\ lock' \in Seq(Tasks)
      /\ Once(lock')
      /\ \A u : In(lock', u) <=> In(lock, u) \/ u = t0
      /\ lock' # <<>>
      /\ lock # <<>> => Head(lock') = Head(lock)
  BY <1>1, AppendOnce DEF Enter
<1>3. \A t \in Tasks : Queues(t)' <=> In(lock', t)
  BY <1>2 DEF StateIsExclusive, In
<1>4. \A t \in Tasks : Uses(t)' => Holds(t)'
  BY <1>2 DEF StateIsExclusive, Holds
<1> QED
  BY <1>2, <1>3, <1>4 DEF StateIsExclusive, Once, In

LEMMA Left ==
  ASSUME StateIsExclusive, lock \in Seq(Tasks), NEW t0 \in Tasks, Leave(t0),
         \A t \in Tasks : Queues(t)' <=> Queues(t) /\ t # t0,
         \A t \in Tasks : Uses(t)' => Uses(t) /\ t # t0
  PROVE  lock' \in Seq(Tasks) /\ StateIsExclusive'
<1>1. Once(lock) /\ lock # <<>> /\ Head(lock) = t0 /\ lock' = Tail(lock)
  BY DEF StateIsExclusive, Once, Leave, Holds
<1>2. /\ lock' \in Seq(Tasks)
      /\ Once(lock')
      /\ \A u : In(lock', u) <=> In(lock, u) /\ u # t0
  BY <1>1, TailOnce
<1>3. \A t \in Tasks : Queues(t)' <=> In(lock', t)
  BY <1>2 DEF StateIsExclusive, In
<1>4. \A t \in Tasks : ~Uses(t)'
  BY <1>1 DEF StateIsExclusive, Holds
<1> QED
  BY <1>2, <1>3, <1>4 DEF StateIsExclusive, Once, In

LEMMA Withdrawn ==
  ASSUME StateIsExclusive, lock \in Seq(Tasks), NEW t0 \in Tasks, Withdraw(t0),
         \A t \in Tasks : Queues(t)' <=> Queues(t) /\ t # t0,
         \A t \in Tasks : Uses(t)' => Uses(t) /\ t # t0
  PROVE  lock' \in Seq(Tasks) /\ StateIsExclusive'
<1>1. PICK n \in 1 .. Len(lock) :
        /\ lock[n] = t0
        /\ lock' = SubSeq(lock, 1, n - 1) \o SubSeq(lock, n + 1, Len(lock))
  <2>1. DOMAIN lock = 1 .. Len(lock)
    OBVIOUS
  <2> QED
    BY <2>1 DEF Withdraw
<1>2. Once(lock)
  BY DEF StateIsExclusive, Once
<1>3. /\ lock' \in Seq(Tasks) /\ Len(lock') = Len(lock) - 1
      /\ \A i \in 1 .. (Len(lock) - 1) : i < n => lock'[i] = lock[i]
      /\ \A i \in 1 .. (Len(lock) - 1) : ~(i < n) => lock'[i] = lock[i + 1]
  BY <1>1, RemoveAt
<1>4. /\ Once(lock')
      /\ \A u : In(lock', u) <=> In(lock, u) /\ u # t0
      /\ t0 # Head(lock) => lock' # <<>> /\ Head(lock') = Head(lock)
  <2>1. /\ Once(lock')
        /\ \A u : In(lock', u) <=> In(lock, u) /\ u # lock[n]
        /\ lock[n] # Head(lock) => lock' # <<>> /\ Head(lock') = Head(lock)
    BY <1>2, <1>3, RemoveOnce
  <2> QED
    BY <1>1, <2>1
<1>5. \A t \in Tasks : Queues(t)' <=> In(lock', t)
  BY <1>4 DEF StateIsExclusive, In
<1>6. \A t \in Tasks : Uses(t)' => Holds(t)'
  BY <1>4 DEF StateIsExclusive, Holds
<1> QED
  BY <1>3, <1>4, <1>5, <1>6 DEF StateIsExclusive, Once, In

-----------------------------------------------------------------------------
(***************************************************************************)
(* The steps.                                                              *)
(***************************************************************************)
LEMMA TasksAreDistinct ==
  /\ "tun" \in Tasks /\ "periodic" \in Tasks /\ Requests \subseteq Tasks
  /\ \A r \in Requests : r # "tun" /\ r # "periodic"
BY DaemonAssumption DEF Tasks

\* What a task's place is: the cases of Queues and Uses, before and after.
LEMMA QueuesAre ==
  /\ Queues("tun") <=> tun # "read"
  /\ Queues("periodic") <=> periodic = "lock"
  /\ \A r \in Requests : Queues(r) <=> req[r].pc # "idle"
BY TasksAreDistinct DEF Queues

LEMMA UsesAre ==
  /\ Uses("tun") <=> tun \in {"link", "send"}
  /\ ~Uses("periodic")
  /\ \A r \in Requests : Uses(r) <=> req[r].pc \notin {"idle", "lock"}
BY TasksAreDistinct DEF Uses

\* The steps that leave the mutex and the tasks that use it alone.
LEMMA Aside ==
  ASSUME IInv, UNCHANGED <<lock, tun, req>>, (periodic = "lock") <=> (periodic' = "lock")
  PROVE  StateIsExclusive'
<1>1. \A t \in Tasks : Queues(t)' <=> Queues(t)
  BY TasksAreDistinct DEF Queues, Tasks
<1>2. \A t \in Tasks : Uses(t)' <=> Uses(t)
  BY TasksAreDistinct DEF Uses, Tasks
<1> QED
  BY <1>1, <1>2, Kept DEF IInv

LEMMA StartStep ==
  ASSUME IInv, Main
  PROVE  IInv'
<1> USE DEF IInv, world, shared
<1>1. TypeOK'
  BY DaemonAssumption DEF TypeOK, Main, MainRegister, MainDiscover, MainConnect, MainUp,
                          Ok, Fails
<1>2. UNCHANGED <<lock, tun, req, periodic>> /\ ~Up
  BY DEF Main, MainRegister, MainDiscover, MainConnect, MainUp, Up
<1>3. StateIsExclusive'
  BY <1>2, Aside
<1>4. tun' = "read"
  BY <1>2 DEF QuietBeforeUp
<1> QED
  BY <1>1, <1>3, <1>4 DEF NoLinkIsLost, QuietBeforeUp

LEMMA ApprovedStep ==
  ASSUME IInv, NEW list \in SUBSET Peers, Approved(list)
  PROVE  IInv'
<1> USE DEF IInv, world, shared, Approved
<1>1. TypeOK'
  BY DaemonAssumption DEF TypeOK
<1>2. StateIsExclusive'
  BY Aside
<1> QED
  BY <1>1, <1>2 DEF NoLinkIsLost, QuietBeforeUp, Up

LEMMA CrashStep ==
  ASSUME IInv, Crash
  PROVE  IInv'
<1> USE DEF IInv, world, shared, Crash
<1>1. TypeOK'
  BY DaemonAssumption DEF TypeOK, Fails, Request, NoRequest
<1>2. /\ \A t \in Tasks : ~Queues(t)'
      /\ \A t \in Tasks : ~Uses(t)'
  BY TasksAreDistinct DEF Queues, Uses, Tasks, NoRequest
<1>3. lock' = <<>> /\ DOMAIN lock' = {}
  OBVIOUS
<1>4. StateIsExclusive'
  BY <1>2, <1>3 DEF StateIsExclusive
<1> QED
  BY <1>1, <1>4 DEF NoLinkIsLost, QuietBeforeUp

-----------------------------------------------------------------------------
LEMMA PeriodicStep ==
  ASSUME IInv, Periodic
  PROVE  IInv'
<1> USE DEF IInv, world, shared
<1>1. CASE Heartbeat \/ Discover \/ ConnectPeers
  <2> USE <1>1 DEF Heartbeat, Discover, ConnectPeers
  <2>1. TypeOK'
    BY DaemonAssumption DEF TypeOK, Ok, Fails
  <2>2. StateIsExclusive'
    BY Aside
  <2> QED
    BY <2>1, <2>2 DEF NoLinkIsLost, QuietBeforeUp, Up
<1>2. CASE AttemptP2p
  <2> USE <1>2 DEF AttemptP2p
  <2>1. ~Queues("periodic")
    BY QueuesAre
  <2>2. \A t \in Tasks : Queues(t)' <=> Queues(t) \/ t = "periodic"
    BY TasksAreDistinct DEF Queues, Tasks
  <2>3. \A t \in Tasks : Uses(t)' => Uses(t)
    BY TasksAreDistinct DEF Uses, Tasks
  <2>4. lock' \in Seq(Tasks) /\ StateIsExclusive'
    BY <2>1, <2>2, <2>3, TasksAreDistinct, Entered DEF TypeOK
  <2>5. TypeOK'
    BY <2>4 DEF TypeOK
  <2> QED
    BY <2>4, <2>5 DEF NoLinkIsLost, QuietBeforeUp, Up
<1>3. CASE Swap
  <2> USE <1>3 DEF Swap
  <2>1. \A t \in Tasks : Queues(t)' <=> Queues(t) /\ t # "periodic"
    BY TasksAreDistinct DEF Queues, Tasks
  <2>2. \A t \in Tasks : Uses(t)' => Uses(t) /\ t # "periodic"
    BY TasksAreDistinct DEF Uses, Tasks
  <2>3. lock' \in Seq(Tasks) /\ StateIsExclusive'
    BY <2>1, <2>2, TasksAreDistinct, Left DEF TypeOK
  <2>4. TypeOK'
    BY <2>3 DEF TypeOK
  \* The periodic task holds the state, so the forwarding task does not use it.
  <2>5. ~Uses("tun")
    BY TasksAreDistinct DEF StateIsExclusive, Leave, Holds
  <2>6. tun' \notin {"link", "send"}
    BY <2>5, UsesAre
  <2> QED
    BY <2>3, <2>4, <2>6 DEF NoLinkIsLost, QuietBeforeUp, Up
<1> QED
  BY <1>1, <1>2, <1>3 DEF Periodic

LEMMA TunReadStep ==
  ASSUME IInv, NEW p \in Peers, TunRead(p)
  PROVE  IInv'
<1> USE DEF IInv, world, shared, TunRead
<1>1. ~Queues("tun")
  BY QueuesAre
<1>2. \A t \in Tasks : Queues(t)' <=> Queues(t) \/ t = "tun"
  BY TasksAreDistinct DEF Queues, Tasks
<1>3. \A t \in Tasks : Uses(t)' => Uses(t)
  BY TasksAreDistinct DEF Uses, Tasks
<1>4. lock' \in Seq(Tasks) /\ StateIsExclusive'
  BY <1>1, <1>2, <1>3, TasksAreDistinct, Entered DEF TypeOK
<1>5. TypeOK'
  BY <1>4 DEF TypeOK
<1> QED
  BY <1>4, <1>5 DEF NoLinkIsLost, QuietBeforeUp, Up

LEMMA ForwardStep ==
  ASSUME IInv, Forward
  PROVE  IInv'
<1> USE DEF IInv, world, shared
<1>1. CASE TunSend \/ (TunRoute /\ Leave("tun") /\ tun' = "read")
  <2>1. /\ Leave("tun") /\ tun' = "read"
        /\ UNCHANGED <<world, main, periodic, fresh, shared, dst, req, polled>>
    BY <1>1 DEF TunSend, TunRoute
  <2>2. \A t \in Tasks : Queues(t)' <=> Queues(t) /\ t # "tun"
    BY <2>1, TasksAreDistinct DEF Queues, Tasks
  <2>3. \A t \in Tasks : Uses(t)' => Uses(t) /\ t # "tun"
    BY <2>1, TasksAreDistinct DEF Uses, Tasks
  <2>4. lock' \in Seq(Tasks) /\ StateIsExclusive'
    BY <2>1, <2>2, <2>3, TasksAreDistinct, Left DEF TypeOK
  <2>5. TypeOK'
    BY <2>1, <2>4 DEF TypeOK
  <2> QED
    BY <2>1, <2>4, <2>5 DEF NoLinkIsLost, QuietBeforeUp
<1>2. CASE TunLink \/ (TunRoute /\ ~(Leave("tun") /\ tun' = "read"))
  <2>1. /\ Up /\ UNCHANGED <<world, main, periodic, fresh, shared, lock, dst, req, polled>>
        /\ tun # "read" /\ tun' \in {"link", "send"}
        /\ dst \in routes \cap links
    BY <1>2 DEF TunLink, TunRoute, NoLinkIsLost
  <2>2. Uses("tun") \/ Holds("tun")
    BY <1>2, UsesAre DEF TunLink, TunRoute
  <2>3. \A t \in Tasks : Queues(t)' <=> Queues(t)
    BY <2>1, TasksAreDistinct DEF Queues, Tasks
  <2>4. \A t \in Tasks : Uses(t)' => Uses(t) \/ Holds(t)
    BY <2>1, <2>2, TasksAreDistinct DEF Uses, Tasks
  <2>5. StateIsExclusive'
    BY <2>1, <2>3, <2>4, Kept
  <2>6. TypeOK'
    BY <2>1 DEF TypeOK
  <2> QED
    BY <2>1, <2>5, <2>6 DEF NoLinkIsLost, QuietBeforeUp, Up
<1> QED
  BY <1>1, <1>2 DEF Forward

LEMMA PollStep ==
  ASSUME IInv, NEW p \in Peers, Poll(p)
  PROVE  IInv'
<1> USE DEF IInv, world, shared, Poll
<1>1. TypeOK'
  BY DEF TypeOK
<1>2. StateIsExclusive'
  BY Aside
<1> QED
  BY <1>1, <1>2 DEF NoLinkIsLost, QuietBeforeUp, Up

-----------------------------------------------------------------------------
\* A request that moves: the others are where they were.
LEMMA OneMoves ==
  ASSUME IInv, NEW r \in Requests, NEW new \in Request,
         req' = [req EXCEPT ![r] = new], UNCHANGED <<tun, periodic>>
  PROVE  /\ req' \in [Requests -> Request]
         /\ \A t \in Tasks \ {r} : (Queues(t)' <=> Queues(t)) /\ (Uses(t)' <=> Uses(t))
         /\ Queues(r)' <=> new.pc # "idle"
         /\ Uses(r)' <=> new.pc \notin {"idle", "lock"}
<1>1. /\ req' \in [Requests -> Request] /\ req'[r] = new
      /\ \A s \in Requests \ {r} : req'[s] = req[s]
  BY DEF IInv, TypeOK
<1>2. \A t \in Tasks \ {r} : (Queues(t)' <=> Queues(t)) /\ (Uses(t)' <=> Uses(t))
  BY <1>1, TasksAreDistinct DEF Queues, Uses, Tasks
<1>3. Queues(r)' <=> new.pc # "idle"
  BY <1>1, TasksAreDistinct DEF Queues
<1>4. Uses(r)' <=> new.pc \notin {"idle", "lock"}
  BY <1>1, TasksAreDistinct DEF Uses
<1> QED
  BY <1>1, <1>2, <1>3, <1>4

LEMMA AskStep ==
  ASSUME IInv, NEW r \in Requests, NEW k \in Kinds, Ask(r, k)
  PROVE  IInv'
<1> USE DEF IInv, world, shared
<1> DEFINE new == [req[r] EXCEPT !.pc = "lock", !.kind = k]
<1>1. new \in Request /\ new.pc = "lock"
  BY DEF TypeOK, Request
<1>2. req' = [req EXCEPT ![r] = new]
  BY DEF Ask, TypeOK, Request
<1> HIDE DEF new
<1>3. ~Queues(r)
  BY QueuesAre DEF Ask
<1>4. /\ req' \in [Requests -> Request]
      /\ \A t \in Tasks : Queues(t)' <=> Queues(t) \/ t = r
      /\ \A t \in Tasks : Uses(t)' => Uses(t)
  <2>1. UNCHANGED <<tun, periodic>>
    BY DEF Ask
  <2>2. /\ req' \in [Requests -> Request]
        /\ \A t \in Tasks \ {r} : (Queues(t)' <=> Queues(t)) /\ (Uses(t)' <=> Uses(t))
        /\ Queues(r)' <=> new.pc # "idle"
        /\ Uses(r)' <=> new.pc \notin {"idle", "lock"}
    <3> HIDE DEF IInv, world, shared
    <3> QED
      BY <1>1, <1>2, <2>1, OneMoves
  <2>3. Queues(r)' /\ ~Uses(r)'
    BY <1>1, <2>2
  <2> QED
    BY <2>2, <2>3, Zenon
<1>5. lock' \in Seq(Tasks) /\ StateIsExclusive'
  BY <1>3, <1>4, TasksAreDistinct, Entered DEF TypeOK, Ask
<1>6. TypeOK'
  BY <1>4, <1>5 DEF TypeOK, Ask
<1> QED
  BY <1>5, <1>6 DEF NoLinkIsLost, QuietBeforeUp, Up, Ask

\* A request that goes on holds the state.
LEMMA GoesOn ==
  ASSUME IInv, NEW r \in Requests, NEW new \in Request,
         req' = [req EXCEPT ![r] = new], new.pc # "idle", req[r].pc # "idle",
         Holds(r) \/ req[r].pc # "lock",
         UNCHANGED <<world, main, periodic, fresh, shared, lock, tun, dst, polled>>
  PROVE  IInv'
<1> USE DEF IInv, world, shared
<1>1. /\ req' \in [Requests -> Request]
      /\ \A t \in Tasks \ {r} : (Queues(t)' <=> Queues(t)) /\ (Uses(t)' <=> Uses(t))
      /\ Queues(r)' <=> new.pc # "idle"
  BY OneMoves
<1>2. Queues(r)' /\ Queues(r)
  BY <1>1, QueuesAre
<1>3. Holds(r) \/ Uses(r)
  BY UsesAre
<1>4. \A t \in Tasks : Queues(t)' <=> Queues(t)
  BY <1>1, <1>2
<1>5. \A t \in Tasks : Uses(t)' => Uses(t) \/ Holds(t)
  BY <1>1, <1>3
<1>6. StateIsExclusive'
  BY <1>4, <1>5, Kept
<1>7. TypeOK'
  BY <1>1 DEF TypeOK
<1> QED
  BY <1>6, <1>7 DEF NoLinkIsLost, QuietBeforeUp, Up

LEMMA HandleStep ==
  ASSUME IInv, NEW r \in Requests, Handle(r)
  PROVE  IInv'
<1> USE DEF IInv, world, shared
<1>1. CASE Begin(r) \/ Check(r)
  <2>1. PICK pc \in {"http", "stun", "relay", "silent", "links"} :
          \/ req' = [req EXCEPT ![r].pc = pc]
          \/ req' = [req EXCEPT ![r].pc = pc, ![r].todo = links]
    BY <1>1 DEF Begin, Check, Goes
  <2>2. PICK todo \in SUBSET Peers :
          req' = [req EXCEPT ![r] = [req[r] EXCEPT !.pc = pc, !.todo = todo]]
    <3>1. CASE req' = [req EXCEPT ![r].pc = pc]
      <4>1. [req[r] EXCEPT !.pc = pc] = [req[r] EXCEPT !.pc = pc, !.todo = req[r].todo]
        BY DEF TypeOK, Request
      <4> QED
        BY <3>1, <4>1 DEF TypeOK, Request
    <3>2. CASE req' = [req EXCEPT ![r].pc = pc, ![r].todo = links]
      BY <3>2 DEF TypeOK, Request
    <3> QED
      BY <2>1, <3>1, <3>2
  <2> DEFINE new == [req[r] EXCEPT !.pc = pc, !.todo = todo]
  <2>3. new \in Request /\ new.pc # "idle"
    BY DEF TypeOK, Request
  <2> HIDE DEF new
  <2> QED
    BY <1>1, <2>2, <2>3, GoesOn DEF new, Begin, Check
<1>2. ASSUME NEW p \in Peers, Visit(r, p)
      PROVE  IInv'
  <2> DEFINE new == [req[r] EXCEPT !.todo = @ \ {p}]
  <2>1. new \in Request /\ new.pc = "links"
    BY <1>2 DEF TypeOK, Request, Visit
  <2>2. req' = [req EXCEPT ![r] = new]
    BY <1>2 DEF TypeOK, Request, Visit
  <2> HIDE DEF new
  <2> QED
    BY <1>2, <2>1, <2>2, GoesOn DEF Visit
<1>3. CASE Answer(r)
  <2> USE <1>3 DEF Answer
  <2>1. NoRequest \in Request /\ NoRequest.pc = "idle"
    BY DEF NoRequest, Request
  <2>2. /\ req' \in [Requests -> Request]
        /\ \A t \in Tasks : Queues(t)' <=> Queues(t) /\ t # r
        /\ \A t \in Tasks : Uses(t)' => Uses(t) /\ t # r
    BY <2>1, OneMoves
  <2>3. lock' \in Seq(Tasks) /\ StateIsExclusive'
    BY <2>2, TasksAreDistinct, Left DEF TypeOK
  <2>4. TypeOK'
    BY <2>2, <2>3 DEF TypeOK
  <2> QED
    BY <2>3, <2>4 DEF NoLinkIsLost, QuietBeforeUp, Up
<1> QED
  BY <1>1, <1>2, <1>3 DEF Handle

LEMMA CancelStep ==
  ASSUME IInv, NEW r \in Requests, Cancel(r)
  PROVE  IInv'
<1> USE DEF IInv, world, shared, Cancel
<1>1. NoRequest \in Request /\ NoRequest.pc = "idle"
  BY DEF NoRequest, Request
<1>2. /\ req' \in [Requests -> Request]
      /\ \A t \in Tasks : Queues(t)' <=> Queues(t) /\ t # r
      /\ \A t \in Tasks : Uses(t)' => Uses(t) /\ t # r
  BY <1>1, OneMoves
<1>3. lock' \in Seq(Tasks) /\ StateIsExclusive'
  BY <1>2, TasksAreDistinct, Withdrawn DEF TypeOK
<1>4. TypeOK'
  BY <1>2, <1>3 DEF TypeOK
<1> QED
  BY <1>3, <1>4 DEF NoLinkIsLost, QuietBeforeUp, Up

-----------------------------------------------------------------------------
LEMMA Initially == Init => IInv
<1> SUFFICES ASSUME Init PROVE IInv
  OBVIOUS
<1> USE DEF Init
<1>1. TypeOK
  BY DaemonAssumption DEF TypeOK, Request, NoRequest
<1>2. \A t \in Tasks : ~Queues(t) /\ ~Uses(t)
  BY TasksAreDistinct DEF Queues, Uses, Tasks, NoRequest
<1>3. DOMAIN lock = {}
  OBVIOUS
<1> QED
  BY <1>1, <1>2, <1>3 DEF IInv, StateIsExclusive, NoLinkIsLost, QuietBeforeUp

LEMMA Inductive == IInv /\ [Next]_vars => IInv'
<1> SUFFICES ASSUME IInv, [Next]_vars PROVE IInv'
  OBVIOUS
<1>1. CASE UNCHANGED vars
  BY <1>1 DEF vars, world, shared, IInv, TypeOK, StateIsExclusive, NoLinkIsLost, QuietBeforeUp,
              Queues, Uses, Holds, Up
<1> QED
  BY <1>1, StartStep, PeriodicStep, ForwardStep, TunReadStep, PollStep, AskStep,
     HandleStep, CancelStep, ApprovedStep, CrashStep DEF Next

LEMMA Invariance == Spec => []IInv
BY Initially, Inductive, PTL DEF Spec

(***************************************************************************)
(* The state of the daemon keeps its types (SharedState and the tasks of   *)
(* apps/daemon), in particular the queue of the mutex holds tasks only.    *)
(***************************************************************************)
THEOREM TypeCorrect == Spec => []TypeOK
<1>1. IInv => TypeOK
  BY DEF IInv
<1> QED
  BY <1>1, Invariance, PTL

(***************************************************************************)
(* The mutex of SharedState, for any number of requests and peers, through *)
(* cancelled handlers, swaps and crashes: whoever waits for the state or   *)
(* uses it is in the queue once, and only the head of the queue uses it.   *)
(***************************************************************************)
THEOREM StateIsExclusiveHolds == Spec => []StateIsExclusive
<1>1. IInv => StateIsExclusive
  BY DEF IInv
<1> QED
  BY <1>1, Invariance, PTL

(***************************************************************************)
(* The forwarding task never sends to a link that the periodic task has    *)
(* replaced or dropped in the meantime.                                    *)
(***************************************************************************)
THEOREM NoLinkIsLostHolds == Spec => []NoLinkIsLost
<1>1. IInv => NoLinkIsLost
  BY DEF IInv
<1> QED
  BY <1>1, Invariance, PTL
=============================================================================
