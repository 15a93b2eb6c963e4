-------------------------- MODULE RendezvousProofs --------------------------
(***************************************************************************)
(* The way to a direct path, for any number of devices, addresses and      *)
(* datagrams: a discovery returns the address that its own request came    *)
(* from, a fetch answers the last publication first, and no two peers hear *)
(* each other through a NAT that needs a relay.                            *)
(***************************************************************************)
EXTENDS Stun, Candidates, Punch, FiniteSetTheorems, SequenceTheorems,
        NaturalInduction, TLAPS

-----------------------------------------------------------------------------
(***************************************************************************)
(* Punching.  A datagram gets into the inbox of a peer only through a NAT  *)
(* that lets it in, and no symmetric one does.                             *)
(***************************************************************************)
PunchTypeOK ==
  /\ nat \in [Peers -> Nats] /\ same \in BOOLEAN
  /\ pc \in [Peers -> {"idle", "send", "listen", "heard", "none"}]
  /\ inbox \in [Peers -> BOOLEAN]

LetIn == \A p \in Peers : Heard(p) \/ inbox[p] => same /\ nat[p] # "symmetric"

PunchInv == PunchTypeOK /\ LetIn

LEMMA PunchInitially == PunchInit => PunchInv
BY DEF PunchInit, PunchInv, PunchTypeOK, LetIn, Heard, Peers

LEMMA NoSymmetricLetsIn ==
  ASSUME NEW p \in Peers, LetsIn(p), PunchTypeOK
  PROVE  same /\ nat[p] # "symmetric"
BY DEF LetsIn

LEMMA PunchInductive == PunchInv /\ [PunchNext]_punching => PunchInv'
<1> SUFFICES ASSUME PunchInv, [PunchNext]_punching PROVE PunchInv'
  OBVIOUS
<1> USE DEF PunchInv, PunchTypeOK
<1>1. ASSUME NEW p \in Peers, Begin(p) \/ SendRound(p) \/ TimeOut(p)
      PROVE  PunchInv'
  <2>1. /\ pc' \in [Peers -> {"idle", "send", "listen", "heard", "none"}]
        /\ \A q \in Peers : pc'[q] = "heard" => pc[q] = "heard"
    BY <1>1 DEF Begin, SendRound, TimeOut
  <2>2. UNCHANGED <<nat, same, inbox>>
    BY <1>1 DEF Begin, SendRound, TimeOut
  <2> QED
    BY <2>1, <2>2 DEF LetIn, Heard
<1>2. ASSUME NEW p \in Peers, Hear(p)
      PROVE  PunchInv'
  BY <1>2 DEF Hear, LetIn, Heard
<1>3. ASSUME NEW p \in Peers, Arrive(p)
      PROVE  PunchInv'
  <2>1. inbox'[p] => inbox[p] \/ (same /\ nat[p] # "symmetric")
    BY <1>3, NoSymmetricLetsIn DEF Arrive
  <2> QED
    BY <1>3, <2>1 DEF Arrive, LetIn, Heard
<1>4. ASSUME NEW p \in Peers, Lose(p)
      PROVE  PunchInv'
  BY <1>4 DEF Lose, LetIn, Heard
<1>5. CASE UNCHANGED punching
  BY <1>5 DEF punching, LetIn, Heard
<1> QED
  BY <1>1, <1>2, <1>3, <1>4, <1>5 DEF PunchNext, Punch

(***************************************************************************)
(* If one of the NATs needs a relay (supports_p2p is false), or the peers  *)
(* punch from other sockets than the published ones, they never both hear  *)
(* each other: for any number of rounds and of datagrams lost.             *)
(***************************************************************************)
THEOREM RelayNeededHolds == PunchSpec => []RelayNeeded
<1>1. PunchInv => RelayNeeded
  BY PunchAssumption DEF PunchInv, PunchTypeOK, LetIn, RelayNeeded, SupportsP2p, Kinds, Peers
<1> QED
  BY <1>1, PunchInitially, PunchInductive, PTL DEF PunchSpec

-----------------------------------------------------------------------------
(***************************************************************************)
(* The exchange.  What a publication has stored so far is younger than     *)
(* whatever else there is of the device, because the next one begins later *)
(* than the one before it ended.                                           *)
(***************************************************************************)
Todo(d) == {todo[d][i] : i \in DOMAIN todo[d]}
Kept(d) == latest[d] \ Todo(d)

Row == [dev : Devices, addr : Addrs, at : Int]

CandidatesTypeOK ==
  /\ rows \subseteq Row /\ IsFiniteSet(rows)
  /\ todo \in [Devices -> Seq(Addrs)]
  /\ answered \in [Devices -> BOOLEAN]
  /\ latest \in [Devices -> SUBSET Addrs]
  /\ ended \in [Devices -> Int]
  /\ fetched \in [Devices -> Seq(Addrs)]
  /\ now \in Nat /\ faults \in Nat

\* Each address of a publication is still to be stored, once, or is kept.
TodoIsLatest ==
  \A d \in Devices :
    /\ Todo(d) \subseteq latest[d]
    /\ \A i, j \in DOMAIN todo[d] : todo[d][i] = todo[d][j] => i = j
    /\ Waiting(d) => ~answered[d]

RowsAreOfThePast ==
  \A d \in Devices : ended[d] <= now /\ \A r \in Of(d) : r.at <= ended[d]

\* A publication that goes on or was answered has its rows, and they are the
\* youngest; and what it stores next is younger than what it has not stored.
KeptIsYoungest ==
  \A d \in Devices : Waiting(d) \/ answered[d] =>
    /\ \A a \in Kept(d) : \E r \in Of(d) : r.addr = a
    /\ \A r, s \in Of(d) : r.addr \notin Kept(d) /\ s.addr \in Kept(d) => r.at < s.at
    /\ Waiting(d) => \A r \in Of(d) : r.addr \notin Kept(d) => r.at < now

CandidatesInv ==
  CandidatesTypeOK /\ TodoIsLatest /\ RowsAreOfThePast /\ KeptIsYoungest

LEMMA CandidatesInitially == CandidatesInit => CandidatesInv
<1> SUFFICES ASSUME CandidatesInit PROVE CandidatesInv
  OBVIOUS
<1> USE DEF CandidatesInit
<1>1. CandidatesTypeOK
  BY FS_EmptySet, CandidatesAssumption DEF CandidatesTypeOK
<1>2. \A d \in Devices : Todo(d) = {} /\ DOMAIN todo[d] = {} /\ ~Waiting(d)
  BY DEF Todo, Waiting
<1>3. \A d \in Devices : Of(d) = {} /\ Kept(d) = {}
  BY DEF Of, Kept
<1>4. \A d \in Devices : ended[d] <= now
  BY CandidatesAssumption
<1> QED
  BY <1>1, <1>2, <1>3, <1>4
     DEF CandidatesInv, TodoIsLatest, RowsAreOfThePast, KeptIsYoungest

LEMMA PublishStep ==
  ASSUME CandidatesInv, NEW d \in Devices, NEW found \in Found, Publish(d, found)
  PROVE  CandidatesInv'
<1> USE DEF CandidatesInv
<1>1. /\ found \in Seq(Addrs)
      /\ \A i, j \in DOMAIN found : found[i] = found[j] => i = j
  <2>1. CASE found \in {<<local>> : local \in Addrs}
    <3>1. PICK local \in Addrs : found = <<local>>
      BY <2>1
    <3>2. found \in Seq(Addrs) /\ DOMAIN found = 1 .. 1
      BY <3>1
    <3> QED
      BY <3>2
  <2>2. CASE found \in {s \in [1 .. 2 -> Addrs] : s[1] # s[2]}
    <3>1. found \in [1 .. 2 -> Addrs] /\ found[1] # found[2]
      BY <2>2
    <3>2. \A i, j \in 1 .. 2 : found[i] = found[j] => i = j
      BY <3>1
    <3>3. found \in Seq(Addrs) /\ DOMAIN found = 1 .. 2
      <4>1. found \in UNION {[1 .. n -> Addrs] : n \in Nat}
        BY <3>1
      <4> QED
        BY <3>1, <4>1, SeqDef
    <3> QED
      BY <3>2, <3>3
  <2> QED
    BY <2>1, <2>2 DEF Found
<1>2. /\ todo'[d] = found /\ latest'[d] = {found[i] : i \in DOMAIN found}
      /\ answered'[d] = FALSE
      /\ \A e \in Devices \ {d} : /\ todo'[e] = todo[e] /\ latest'[e] = latest[e]
                                   /\ answered'[e] = answered[e]
      /\ UNCHANGED <<rows, ended, now, faults>>
  BY DEF Publish, CandidatesTypeOK
<1>3. CandidatesTypeOK'
  <2>1. {found[i] : i \in DOMAIN found} \in SUBSET Addrs
    BY <1>1
  <2> QED
    BY <1>1, <2>1 DEF CandidatesTypeOK, Publish
<1>4. Kept(d)' = {}
  BY <1>2 DEF Kept, Todo
<1>5. TodoIsLatest'
  BY <1>1, <1>2 DEF TodoIsLatest, Todo, Waiting
<1>6. RowsAreOfThePast'
  BY <1>2 DEF RowsAreOfThePast, Of
<1>7. \A r \in Of(d)' : r.at < now'
  <2>1. now >= ended[d] + Gap /\ Gap >= 1 /\ Gap \in Nat
    BY CandidatesAssumption DEF Publish
  <2>2. \A r \in Of(d) : r.at <= ended[d] /\ r.at \in Int
    BY DEF RowsAreOfThePast, Of, CandidatesTypeOK, Row
  <2>3. ended[d] \in Int /\ now \in Int
    BY DEF CandidatesTypeOK
  <2>4. \A r \in Of(d) : r.at < now
    BY <2>1, <2>2, <2>3
  <2> QED
    BY <1>2, <2>4 DEF Of
<1>8. \A e \in Devices \ {d} : /\ Kept(e)' = Kept(e) /\ Of(e)' = Of(e)
                               /\ Waiting(e)' <=> Waiting(e)
  BY <1>2 DEF Kept, Todo, Of, Waiting
<1>9. KeptIsYoungest'
  BY <1>2, <1>4, <1>7, <1>8 DEF KeptIsYoungest
<1> QED
  BY <1>3, <1>5, <1>6, <1>9

\* One address of a list that has no address twice.
LEMMA HeadAndTail ==
  ASSUME NEW S, NEW q \in Seq(S), q # <<>>,
         \A i, j \in DOMAIN q : q[i] = q[j] => i = j
  PROVE  /\ Head(q) \in S /\ Tail(q) \in Seq(S)
         /\ Head(q) \in {q[i] : i \in DOMAIN q}
         /\ \A i, j \in DOMAIN Tail(q) : Tail(q)[i] = Tail(q)[j] => i = j
         /\ {Tail(q)[i] : i \in DOMAIN Tail(q)} = {q[i] : i \in DOMAIN q} \ {Head(q)}
<1>1. /\ Head(q) \in S /\ Tail(q) \in Seq(S) /\ Head(q) = q[1] /\ 1 \in DOMAIN q
      /\ DOMAIN q = 1 .. Len(q) /\ DOMAIN Tail(q) = 1 .. (Len(q) - 1) /\ Len(q) \in Nat
      /\ \A i \in DOMAIN Tail(q) : Tail(q)[i] = q[i + 1]
  OBVIOUS
<1>2. \A i \in DOMAIN Tail(q) : i + 1 \in DOMAIN q /\ i + 1 # 1 /\ i \in Nat
  BY <1>1
<1>3. \A i, j \in DOMAIN Tail(q) : Tail(q)[i] = Tail(q)[j] => i = j
  <2> SUFFICES ASSUME NEW i \in DOMAIN Tail(q), NEW j \in DOMAIN Tail(q),
                      Tail(q)[i] = Tail(q)[j]
               PROVE  i = j
    OBVIOUS
  <2>1. i + 1 = j + 1
    BY <1>1, <1>2
  <2> QED
    BY <1>2, <2>1
<1>4. ASSUME NEW i \in DOMAIN q, q[i] # Head(q)
      PROVE  \E j \in DOMAIN Tail(q) : Tail(q)[j] = q[i]
  <2>1. i - 1 \in DOMAIN Tail(q) /\ (i - 1) + 1 = i
    BY <1>1, <1>4
  <2> QED
    BY <1>1, <2>1
<1>5. \A i \in DOMAIN Tail(q) : \E j \in DOMAIN q : q[j] = Tail(q)[i] /\ q[j] # Head(q)
  BY <1>1, <1>2
<1>6. {Tail(q)[i] : i \in DOMAIN Tail(q)} = {q[i] : i \in DOMAIN q} \ {Head(q)}
  <2>1. \A x \in {Tail(q)[i] : i \in DOMAIN Tail(q)} :
          x \in {q[i] : i \in DOMAIN q} \ {Head(q)}
    BY <1>5
  <2>2. \A x \in {q[i] : i \in DOMAIN q} \ {Head(q)} :
          x \in {Tail(q)[i] : i \in DOMAIN Tail(q)}
    BY <1>4
  <2> QED
    BY <2>1, <2>2
<1>7. Head(q) \in {q[i] : i \in DOMAIN q}
  BY <1>1
<1> QED
  BY <1>1, <1>3, <1>6, <1>7

LEMMA StoreStep ==
  ASSUME CandidatesInv, NEW d \in Devices, Store(d), UNCHANGED faults
  PROVE  CandidatesInv'
<1> USE DEF CandidatesInv
<1> DEFINE a == Head(todo[d])
           new == [dev |-> d, addr |-> a, at |-> now]
<1>0. /\ todo[d] \in Seq(Addrs) /\ todo[d] # <<>>
      /\ now \in Nat /\ faults \in Nat
  BY DEF Store, Waiting, CandidatesTypeOK
<1>1. /\ a \in Addrs /\ Tail(todo[d]) \in Seq(Addrs) /\ a \in Todo(d)
      /\ \A i, j \in DOMAIN Tail(todo[d]) : Tail(todo[d])[i] = Tail(todo[d])[j] => i = j
      /\ {Tail(todo[d])[i] : i \in DOMAIN Tail(todo[d])} = Todo(d) \ {a}
  BY <1>0, HeadAndTail DEF TodoIsLatest, Todo
<1>2. /\ rows' = Stored(d, a)
      /\ todo' = [todo EXCEPT ![d] = Tail(todo[d])]
      /\ answered' = [answered EXCEPT ![d] = Tail(todo[d]) = <<>>]
      /\ ended' = [ended EXCEPT ![d] = now]
      /\ UNCHANGED <<latest, fetched, now, faults>>
  BY <1>0 DEF Store, Ok, Fails
<1> HIDE DEF a
<1>3. new \in Row /\ new.dev = d /\ new.addr = a /\ new.at = now
  BY <1>0, <1>1 DEF Row
<1>4. rows' = {r \in rows : r.dev # d \/ r.addr # a} \cup {new}
  BY <1>2 DEF Stored
<1> HIDE DEF new
<1>5. CandidatesTypeOK'
  <2>1. IsFiniteSet({r \in rows : r.dev # d \/ r.addr # a})
    BY FS_Subset DEF CandidatesTypeOK
  <2>2. rows' \subseteq Row /\ IsFiniteSet(rows')
    BY <1>3, <1>4, <2>1, FS_AddElement DEF CandidatesTypeOK
  <2> QED
    BY <1>1, <1>2, <2>2 DEF CandidatesTypeOK
<1>6. /\ todo'[d] = Tail(todo[d]) /\ ended'[d] = now
      /\ answered'[d] <=> Tail(todo[d]) = <<>>
      /\ \A e \in Devices \ {d} : /\ todo'[e] = todo[e] /\ ended'[e] = ended[e]
                                   /\ answered'[e] = answered[e]
  BY <1>2 DEF CandidatesTypeOK
<1>7. Todo(d)' = Todo(d) \ {a} /\ Kept(d)' = Kept(d) \cup {a}
  <2>1. Todo(d)' = Todo(d) \ {a}
    BY <1>1, <1>6 DEF Todo
  <2>2. a \in latest[d]
    BY <1>1 DEF TodoIsLatest
  <2> QED
    BY <1>2, <2>1, <2>2 DEF Kept
<1>8. \A e \in Devices \ {d} : /\ Todo(e)' = Todo(e) /\ Kept(e)' = Kept(e)
                               /\ Waiting(e)' <=> Waiting(e)
                               /\ Of(e)' = Of(e)
  <2>1. \A e \in Devices \ {d} : Of(e)' = Of(e)
    BY <1>3, <1>4 DEF Of
  <2> QED
    BY <1>2, <1>6, <2>1 DEF Kept, Todo, Waiting
<1>9. Of(d)' = {r \in Of(d) : r.addr # a} \cup {new}
  BY <1>3, <1>4 DEF Of
<1>10. TodoIsLatest'
  <2>1. Todo(d)' \subseteq latest'[d]
    BY <1>2, <1>7 DEF TodoIsLatest
  <2>2. Waiting(d)' => ~answered'[d]
    BY <1>6 DEF Waiting
  <2>3. \A i, j \in DOMAIN todo'[d] : todo'[d][i] = todo'[d][j] => i = j
    BY <1>1, <1>6
  <2>4. ASSUME NEW e \in Devices \ {d}
        PROVE  /\ Todo(e)' \subseteq latest'[e]
               /\ \A i, j \in DOMAIN todo'[e] : todo'[e][i] = todo'[e][j] => i = j
               /\ Waiting(e)' => ~answered'[e]
    BY <1>2, <1>6, <1>8 DEF TodoIsLatest
  <2> QED
    BY <2>1, <2>2, <2>3, <2>4 DEF TodoIsLatest
<1>11. \A e \in Devices : ended[e] \in Int /\ \A r \in Of(e) : r.at \in Int
  BY DEF CandidatesTypeOK, Of, Row
<1>12. RowsAreOfThePast'
  <2>1. \A r \in Of(d) : r.at <= now
    BY <1>0, <1>11 DEF RowsAreOfThePast
  <2>2. ended'[d] <= now' /\ \A r \in Of(d)' : r.at <= ended'[d]
    BY <1>0, <1>2, <1>3, <1>6, <1>9, <2>1
  <2>3. \A e \in Devices \ {d} : ended'[e] <= now' /\ \A r \in Of(e)' : r.at <= ended'[e]
    BY <1>2, <1>6, <1>8 DEF RowsAreOfThePast
  <2> QED
    BY <2>2, <2>3 DEF RowsAreOfThePast
<1>13. /\ \A b \in Kept(d) : \E r \in Of(d) : r.addr = b
       /\ \A r, s \in Of(d) : r.addr \notin Kept(d) /\ s.addr \in Kept(d) => r.at < s.at
       /\ \A r \in Of(d) : r.addr \notin Kept(d) => r.at < now
  BY DEF KeptIsYoungest, Store
<1>14. \A b \in Kept(d)' : \E r \in Of(d)' : r.addr = b
  BY <1>3, <1>7, <1>9, <1>13
<1>15. \A r, s \in Of(d)' : r.addr \notin Kept(d)' /\ s.addr \in Kept(d)' => r.at < s.at
  <2> SUFFICES ASSUME NEW r \in Of(d)', NEW s \in Of(d)',
                      r.addr \notin Kept(d)', s.addr \in Kept(d)'
               PROVE  r.at < s.at
    OBVIOUS
  <2>1. r \in Of(d) /\ r.addr \notin Kept(d)
    BY <1>3, <1>7, <1>9
  <2>2. CASE s = new
    BY <1>3, <1>13, <2>1, <2>2
  <2>3. CASE s # new
    <3>1. s \in Of(d) /\ s.addr \in Kept(d)
      BY <1>7, <1>9, <2>3
    <3> QED
      BY <1>13, <2>1, <3>1
  <2> QED
    BY <2>2, <2>3
<1>16. \A r \in Of(d)' : r.addr \notin Kept(d)' => r.at < now'
  BY <1>2, <1>3, <1>7, <1>9, <1>13
<1>17. KeptIsYoungest'
  <2>1. ASSUME NEW e \in Devices \ {d}, Waiting(e)' \/ answered'[e]
        PROVE  /\ \A b \in Kept(e)' : \E r \in Of(e)' : r.addr = b
               /\ \A r, s \in Of(e)' :
                    r.addr \notin Kept(e)' /\ s.addr \in Kept(e)' => r.at < s.at
               /\ Waiting(e)' => \A r \in Of(e)' : r.addr \notin Kept(e)' => r.at < now'
    BY <1>2, <1>6, <1>8, <2>1 DEF KeptIsYoungest
  <2> QED
    BY <1>14, <1>15, <1>16, <2>1 DEF KeptIsYoungest
<1> QED
  BY <1>5, <1>10, <1>12, <1>17

\* A publication that ends before all is stored.
LEMMA BrokenOffStep ==
  ASSUME CandidatesInv, NEW d \in Devices, Waiting(d),
         todo' = [todo EXCEPT ![d] = <<>>], ended' = [ended EXCEPT ![d] = now],
         faults' \in Nat, UNCHANGED <<rows, answered, latest, fetched, now>>
  PROVE  CandidatesInv'
<1> USE DEF CandidatesInv
<1>1. CandidatesTypeOK'
  BY DEF CandidatesTypeOK
<1>2. /\ todo'[d] = <<>> /\ ended'[d] = now /\ ~answered'[d]
      /\ \A e \in Devices \ {d} : todo'[e] = todo[e] /\ ended'[e] = ended[e]
  BY DEF CandidatesTypeOK, TodoIsLatest
<1>3. Todo(d)' = {} /\ DOMAIN todo'[d] = {} /\ ~Waiting(d)'
  BY <1>2 DEF Todo, Waiting
<1>4. \A e \in Devices \ {d} : /\ Todo(e)' = Todo(e) /\ Kept(e)' = Kept(e)
                               /\ Waiting(e)' <=> Waiting(e)
  BY <1>2 DEF Todo, Kept, Waiting
<1>5. \A e \in Devices : Of(e)' = Of(e)
  BY DEF Of
<1>6. TodoIsLatest'
  BY <1>2, <1>3, <1>4 DEF TodoIsLatest
<1>7. RowsAreOfThePast'
  <2>1. /\ ended[d] \in Int /\ now \in Int /\ ended[d] <= now
        /\ \A r \in Of(d) : r.at \in Int /\ r.at <= ended[d]
    BY DEF RowsAreOfThePast, CandidatesTypeOK, Of, Row
  <2>2. ended'[d] <= now' /\ \A r \in Of(d)' : r.at <= ended'[d]
    BY <1>2, <1>5, <2>1
  <2> QED
    BY <1>2, <1>5, <2>2 DEF RowsAreOfThePast
<1>8. KeptIsYoungest'
  BY <1>2, <1>3, <1>4, <1>5 DEF KeptIsYoungest
<1> QED
  BY <1>1, <1>6, <1>7, <1>8

LEMMA CandidatesInductive == CandidatesInv /\ [CandidatesNext]_exchange => CandidatesInv'
<1> SUFFICES ASSUME CandidatesInv, [CandidatesNext]_exchange PROVE CandidatesInv'
  OBVIOUS
<1> USE DEF CandidatesInv
<1>1. ASSUME NEW d \in Devices, Store(d)
      PROVE  CandidatesInv'
  <2>1. CASE UNCHANGED faults
    BY <1>1, <2>1, StoreStep
  <2>2. CASE ~UNCHANGED faults
    <3>1. faults' \in Nat
      BY <1>1, <2>2 DEF Store, Ok, Fails, CandidatesTypeOK
    <3>2. /\ todo' = [todo EXCEPT ![d] = <<>>] /\ ended' = [ended EXCEPT ![d] = now]
          /\ UNCHANGED <<rows, answered, latest, fetched, now>>
      BY <1>1, <2>2 DEF Store, Ok
    <3> QED
      BY <1>1, <3>1, <3>2, BrokenOffStep DEF Store
  <2> QED
    BY <2>1, <2>2
<1>2. ASSUME NEW d \in Devices, Abort(d)
      PROVE  CandidatesInv'
  <2>1. faults' \in Nat
    BY <1>2 DEF Abort, CandidatesTypeOK
  <2> QED
    BY <1>2, <2>1, BrokenOffStep DEF Abort
<1>3. CASE /\ now' \in {now, now + 1} /\ faults' \in Nat
           /\ fetched' \in [Devices -> Seq(Addrs)]
           /\ UNCHANGED <<rows, todo, answered, latest, ended>>
  <2>1. now \in Nat /\ now' \in Nat /\ now <= now'
    BY <1>3 DEF CandidatesTypeOK
  <2>3. CandidatesTypeOK'
    BY <1>3, <2>1 DEF CandidatesTypeOK
  <2>4. TodoIsLatest'
    BY <1>3 DEF TodoIsLatest, Todo, Waiting
  <2>5. \A d \in Devices : ended[d] \in Int /\ \A r \in Of(d) : r.at \in Int
    BY DEF CandidatesTypeOK, Of, Row
  <2>6. RowsAreOfThePast'
    <3>1. \A d \in Devices : ended[d] <= now' /\ \A r \in Of(d) : r.at <= ended[d]
      BY <1>3, <2>1, <2>5 DEF RowsAreOfThePast
    <3> QED
      BY <1>3, <3>1 DEF RowsAreOfThePast, Of
  <2>7. KeptIsYoungest'
    <3>1. ASSUME NEW d \in Devices, Waiting(d),
                 \A r \in Of(d) : r.addr \notin Kept(d) => r.at < now
          PROVE  \A r \in Of(d) : r.addr \notin Kept(d) => r.at < now'
      BY <2>1, <2>5, <3>1
    <3>2. \A d \in Devices : Waiting(d) \/ answered[d] =>
            /\ \A a \in Kept(d) : \E r \in Of(d) : r.addr = a
            /\ \A r, s \in Of(d) : r.addr \notin Kept(d) /\ s.addr \in Kept(d) => r.at < s.at
            /\ Waiting(d) => \A r \in Of(d) : r.addr \notin Kept(d) => r.at < now'
      BY <3>1 DEF KeptIsYoungest
    <3> QED
      BY <1>3, <3>2 DEF KeptIsYoungest, Kept, Todo, Of, Waiting
  <2> QED
    BY <2>3, <2>4, <2>6, <2>7
<1>4. ASSUME NEW d \in Devices, Fetch(d)
      PROVE  CandidatesInv'
  <2>1. ASSUME NEW l \in Listings(d)
        PROVE  l \in Seq(Addrs)
    <3>1. PICK o \in [1 .. Cardinality(Of(d)) -> Of(d)] : l = [i \in DOMAIN o |-> o[i].addr]
      BY DEF Listings
    <3>2. Of(d) \in SUBSET rows /\ IsFiniteSet(rows) /\ \A r \in Of(d) : r.addr \in Addrs
      BY DEF Of, CandidatesTypeOK, Row
    <3>3. Cardinality(Of(d)) \in Nat
      BY <3>2, FS_Subset, FS_CardinalityType
    <3>4. l \in [1 .. Cardinality(Of(d)) -> Addrs]
      BY <3>1, <3>2
    <3> QED
      BY <3>3, <3>4, SeqDef
  <2>2. fetched' \in [Devices -> Seq(Addrs)] /\ faults' \in Nat
    <3>1. PICK l \in Seq(Addrs) : fetched' = [fetched EXCEPT ![d] = l]
      <4>1. CASE fetched' = [fetched EXCEPT ![d] = <<>>]
        <5>1. <<>> \in Seq(Addrs)
          OBVIOUS
        <5> QED
          BY <4>1, <5>1
      <4>2. CASE \E l \in Listings(d) : fetched' = [fetched EXCEPT ![d] = l]
        BY <2>1, <4>2
      <4> QED
        BY <1>4, <4>1, <4>2 DEF Fetch
    <3>2. fetched' \in [Devices -> Seq(Addrs)]
      BY <3>1 DEF CandidatesTypeOK
    <3> QED
      BY <1>4, <3>2 DEF Fetch, Ok, Fails, CandidatesTypeOK
  <2> QED
    BY <1>3, <1>4, <2>2 DEF Fetch
<1>5. CASE Tick
  BY <1>3, <1>5 DEF Tick, CandidatesTypeOK
<1>6. CASE UNCHANGED exchange
  BY <1>3, <1>6 DEF exchange, CandidatesTypeOK
<1> QED
  BY <1>1, <1>2, <1>4, <1>5, <1>6, PublishStep DEF CandidatesNext

\* A listing of a finite set without repetitions leaves nothing out.
LEMMA ListsAll ==
  ASSUME NEW S, IsFiniteSet(S), S # {}, NEW o \in [1 .. Cardinality(S) -> S],
         \A i, j \in DOMAIN o : o[i] = o[j] => i = j
  PROVE  1 \in DOMAIN o /\ \A x \in S : \E i \in DOMAIN o : o[i] = x
<1>1. Cardinality(S) \in Nat \ {0}
  BY FS_CardinalityType, FS_EmptySet
<1>2. IsFiniteSet(1 .. Cardinality(S)) /\ Cardinality(1 .. Cardinality(S)) = Cardinality(S)
  BY <1>1, FS_Interval
<1>3. o \in Injection(1 .. Cardinality(S), S)
  BY DEF Injection, IsInjective
<1>4. o \in Surjection(1 .. Cardinality(S), S)
  BY <1>2, <1>3, FS_Injection
<1> QED
  BY <1>1, <1>4 DEF Surjection

(***************************************************************************)
(* get_peer_candidates after a publication that was answered 200: all of   *)
(* its addresses, and one of them first, for any number of addresses that  *)
(* older publications, complete or broken off, have left in the table.     *)
(***************************************************************************)
THEOREM LatestFirstHolds == CandidatesSpec => LatestFirst
<1>1. ASSUME CandidatesInv, NEW d \in Devices, Fetch(d), faults' = faults,
             answered[d], latest[d] # {}
      PROVE  /\ latest[d] \subseteq {fetched'[d][i] : i \in DOMAIN fetched'[d]}
             /\ fetched'[d][1] \in latest[d]
  <2> USE DEF CandidatesInv
  <2>1. PICK l \in Listings(d) : fetched' = [fetched EXCEPT ![d] = l]
    BY <1>1 DEF Fetch, Fails, CandidatesTypeOK
  <2>2. fetched'[d] = l
    BY <1>1, <2>1 DEF CandidatesTypeOK
  <2>3. PICK o \in [1 .. Cardinality(Of(d)) -> Of(d)] :
          /\ l = [i \in DOMAIN o |-> o[i].addr]
          /\ \A i, j \in DOMAIN o : i < j => o[i].at >= o[j].at
          /\ \A i, j \in DOMAIN o : o[i] = o[j] => i = j
    BY <2>1 DEF Listings
  <2>4. Kept(d) = latest[d]
    BY <1>1 DEF Kept, Todo, TodoIsLatest, Waiting
  <2>5. /\ \A a \in latest[d] : \E r \in Of(d) : r.addr = a
        /\ \A r, s \in Of(d) : r.addr \notin latest[d] /\ s.addr \in latest[d] => r.at < s.at
    BY <1>1, <2>4 DEF KeptIsYoungest
  <2>6. IsFiniteSet(Of(d)) /\ Of(d) # {} /\ \A r \in Of(d) : r.at \in Int
    <3>1. IsFiniteSet(Of(d))
      <4>1. Of(d) \in SUBSET rows /\ IsFiniteSet(rows)
        BY <1>1 DEF Of, CandidatesTypeOK
      <4> QED
        BY <4>1, FS_Subset
    <3> QED
      BY <1>1, <2>5, <3>1 DEF Of, CandidatesTypeOK, Row
  <2>7. 1 \in DOMAIN o /\ \A x \in Of(d) : \E i \in DOMAIN o : o[i] = x
    BY <2>3, <2>6, ListsAll
  <2>8. \A a \in latest[d] : \E i \in DOMAIN l : l[i] = a
    BY <2>3, <2>5, <2>7
  <2>9. o[1].addr \in latest[d]
    <3> SUFFICES ASSUME o[1].addr \notin latest[d] PROVE FALSE
      OBVIOUS
    <3>1. PICK s \in Of(d) : s.addr \in latest[d]
      BY <1>1, <2>5
    <3>2. PICK k \in DOMAIN o : o[k] = s
      BY <2>7
    <3>3. o[1] \in Of(d) /\ o[1].at < s.at
      BY <2>5, <2>7, <3>1
    <3>4. k > 1
      <4>1. DOMAIN o = 1 .. Cardinality(Of(d)) /\ Cardinality(Of(d)) \in Nat
        BY <2>6, FS_CardinalityType
      <4>2. k # 1
        BY <3>1, <3>2
      <4> QED
        BY <4>1, <4>2
    <3>5. o[1].at >= s.at
      BY <2>3, <2>7, <3>2, <3>4
    <3> QED
      BY <2>6, <3>1, <3>3, <3>5
  <2> QED
    BY <2>2, <2>3, <2>7, <2>8, <2>9
<1>2. CandidatesInv /\ [CandidatesNext]_exchange =>
        [\A d \in Devices :
           Fetch(d) /\ faults' = faults /\ answered[d] /\ latest[d] # {} =>
             LET l == fetched'[d]
             IN /\ latest[d] \subseteq {l[i] : i \in DOMAIN l}
                /\ l[1] \in latest[d]]_exchange
  BY <1>1
<1> QED
  BY <1>2, CandidatesInitially, CandidatesInductive, PTL DEF CandidatesSpec, LatestFirst

-----------------------------------------------------------------------------
(***************************************************************************)
(* The discovery.  A transaction is drawn once, so one request carries it, *)
(* from one public address; the server sees that address, and every answer *)
(* of the transaction is sent to it and says so.                           *)
(***************************************************************************)
Request == [src : Publics, tx : Tx]

StunTypeOK ==
  /\ sock \in [Clients -> [port : Ports \cup {0}, tx : Tx \cup {0}]]
  /\ map \in [Clients -> [Ports -> Publics]]
  /\ nextTx \in Nat \ {0}
  /\ up \subseteq Request
  /\ seen \in [Tx -> Publics \cup {Error}]
  /\ result \in [Clients -> [tx : Tx \cup {0}, addr : Publics \cup {Error}]]

\* A transaction that is still to be drawn is unknown, and the request of one
\* that was drawn is the only one.
OneRequest ==
  /\ \A t \in Tx : t >= nextTx => seen[t] = Error
  /\ \A f \in up : f.tx < nextTx /\ seen[f.tx] \in {Error, f.src}
  /\ \A f, g \in up : f.tx = g.tx => f = g

\* The last attribute, and no other one, is the masked address.
Says(attrs, public) ==
  /\ Len(attrs) \in Nat \ {0} /\ DOMAIN attrs = 1 .. Len(attrs)
  /\ \A i \in DOMAIN attrs : /\ attrs[i].len \in Nat
                             /\ attrs[i].type = "xor mapped" <=> i = Len(attrs)
  /\ attrs[Len(attrs)] = Mapped(public)

AnswersSay ==
  \A r \in down : /\ r.tx \in Tx /\ r.dst \in Publics
                  /\ seen[r.tx] = r.dst
                  /\ Says(r.attrs, r.dst)

ResultWasSeen ==
  \A c \in Clients : result[c].addr # Error =>
    result[c].tx \in Tx /\ result[c].addr = seen[result[c].tx]

StunInv == StunTypeOK /\ OneRequest /\ AnswersSay /\ ResultWasSeen

LEMMA NoError == Error \notin Publics /\ Error \in Int
BY StunAssumption DEF Error

LEMMA StunInitially == StunInit => StunInv
<1> SUFFICES ASSUME StunInit PROVE StunInv
  OBVIOUS
<1> QED
  BY DEF StunInit, StunInv, StunTypeOK, OneRequest, AnswersSay, ResultWasSeen, NoSock

\* A function that adds up the lengths.
Adds(f, lengths, n) ==
  f = [i \in {0} \cup 1 .. n |-> IF i = 0 THEN 0 ELSE f[i - 1] + lengths[i]]

\* The function that Ends is defined by exists, for any number of parts.
LEMMA AddsExists ==
  ASSUME NEW lengths
  PROVE  \A n \in Nat : \E f : Adds(f, lengths, n)
<1> DEFINE S == {n \in Nat : \E f : Adds(f, lengths, n)}
<1>1. 0 \in S
  <2>1. Adds([i \in {0} \cup 1 .. 0 |-> 0], lengths, 0)
    BY DEF Adds
  <2> QED
    BY <2>1
<1>2. ASSUME NEW n \in Nat, n \in S PROVE n + 1 \in S
  <2>1. PICK f : Adds(f, lengths, n)
    BY <1>2
  <2> DEFINE g == [i \in {0} \cup 1 .. (n + 1) |->
                     IF i = n + 1 THEN f[n] + lengths[n + 1] ELSE f[i]]
  <2>2. \A i \in {0} \cup 1 .. n : i \in {0} \cup 1 .. (n + 1) /\ i # n + 1 /\ g[i] = f[i]
    OBVIOUS
  <2>3. \A i \in {0} \cup 1 .. n : f[i] = IF i = 0 THEN 0 ELSE f[i - 1] + lengths[i]
    BY <2>1 DEF Adds
  <2>4. \A i \in {0} \cup 1 .. (n + 1) :
          g[i] = IF i = 0 THEN 0 ELSE g[i - 1] + lengths[i]
    <3> SUFFICES ASSUME NEW i \in {0} \cup 1 .. (n + 1)
                 PROVE  g[i] = IF i = 0 THEN 0 ELSE g[i - 1] + lengths[i]
      OBVIOUS
    <3>1. CASE i = n + 1
      <4>1. g[i] = f[n] + lengths[i] /\ i # 0 /\ i - 1 = n /\ n \in {0} \cup 1 .. n
        BY <3>1
      <4> QED
        BY <4>1, <2>2
    <3>2. CASE i # n + 1
      <4>1. i \in {0} \cup 1 .. n /\ (i # 0 => i - 1 \in {0} \cup 1 .. n)
        BY <3>2
      <4> QED
        BY <4>1, <2>2, <2>3
    <3> QED
      BY <3>1, <3>2
  <2> HIDE DEF g
  <2>5. g = [i \in {0} \cup 1 .. (n + 1) |-> g[i]]
    BY DEF g
  <2>6. Adds(g, lengths, n + 1)
    BY <2>4, <2>5, Zenon DEF Adds
  <2> QED
    BY <2>6
<1>3. \A n \in Nat : n \in S
  <2> HIDE DEF S
  <2> QED
    BY <1>1, <1>2, Induction
<1> QED
  BY <1>3

\* A part ends where the one before it ended, and as much later as it is long.
LEMMA EndsAddUp ==
  ASSUME NEW n \in Nat \ {0}, NEW lengths \in [1 .. n -> Nat]
  PROVE  /\ Ends(lengths)[n] = Ends(lengths)[n - 1] + lengths[n]
         /\ Ends(lengths)[n - 1] \in Nat
<1> DEFINE end[i \in {0} \cup DOMAIN lengths] ==
             IF i = 0 THEN 0 ELSE end[i - 1] + lengths[i]
<1>1. Adds(end, lengths, n)
  <2>1. DOMAIN lengths = 1 .. n
    OBVIOUS
  <2>2. \E f : Adds(f, lengths, n)
    BY AddsExists
  <2>3. \E f : f = [i \in {0} \cup DOMAIN lengths |->
                      IF i = 0 THEN 0 ELSE f[i - 1] + lengths[i]]
    BY <2>1, <2>2, Zenon DEF Adds
  <2>4. end = [i \in {0} \cup DOMAIN lengths |->
                 IF i = 0 THEN 0 ELSE end[i - 1] + lengths[i]]
    BY <2>3
  <2> HIDE DEF end
  <2> QED
    BY <2>1, <2>4, Zenon DEF Adds
<1>2. Ends(lengths) = end
  BY DEF Ends
<1> HIDE DEF end
<1>3. \A i \in {0} \cup 1 .. n : end[i] = IF i = 0 THEN 0 ELSE end[i - 1] + lengths[i]
  BY <1>1 DEF Adds
<1> DEFINE S == {m \in Nat : m <= n => end[m] \in Nat}
<1>4. \A m \in Nat : m \in S
  <2>1. 0 \in S
    BY <1>3
  <2>2. ASSUME NEW m \in Nat, m \in S PROVE m + 1 \in S
    <3> SUFFICES ASSUME m + 1 <= n PROVE end[m + 1] \in Nat
      OBVIOUS
    <3>1. m + 1 \in 1 .. n /\ m + 1 # 0 /\ (m + 1) - 1 = m /\ end[m] \in Nat
      BY <2>2
    <3>2. end[m + 1] = end[m] + lengths[m + 1]
      BY <1>3, <3>1
    <3> QED
      BY <3>1, <3>2
  <2> HIDE DEF S
  <2> QED
    BY <2>1, <2>2, Induction
<1>5. end[n - 1] \in Nat
  <2>1. n - 1 \in Nat /\ n - 1 <= n
    OBVIOUS
  <2> QED
    BY <1>4, <2>1
<1>6. end[n] = end[n - 1] + lengths[n]
  BY <1>3
<1> QED
  BY <1>2, <1>5, <1>6

\* What a server adds to an attribute is what the parser skips after it.
LEMMA SkipsThePadding ==
  ASSUME NEW attr, attr.len \in Nat
  PROVE  /\ Bytes(attr) = 4 + attr.len + Padding(attr.len)
         /\ Bytes(attr) \in Nat /\ Padding(attr.len) \in Nat
<1>1. \A k \in Nat : /\ (4 - (k % 4)) % 4 \in Nat
                     /\ 4 * ((k + 3) \div 4) = k + ((4 - (k % 4)) % 4)
  <2> SUFFICES ASSUME NEW k \in Nat
               PROVE  /\ (4 - (k % 4)) % 4 \in Nat
                      /\ 4 * ((k + 3) \div 4) = k + ((4 - (k % 4)) % 4)
    OBVIOUS
  <2> DEFINE q == k \div 4
             r == k % 4
  <2>1. q \in Nat /\ r \in 0 .. 3 /\ k = 4 * q + r
    OBVIOUS
  <2> HIDE DEF q, r
  <2>2. (4 - r) % 4 = IF r = 0 THEN 0 ELSE 4 - r
    BY <2>1
  <2>3. (4 * q + r + 3) \div 4 = IF r = 0 THEN q ELSE q + 1
    BY <2>1
  <2> QED
    BY <2>1, <2>2, <2>3 DEF r
<1> DEFINE k == attr.len
<1>2. k \in Nat /\ Bytes(attr) = 4 + 4 * ((k + 3) \div 4) /\ Padding(k) = (4 - (k % 4)) % 4
  BY DEF Bytes, Padding
<1> HIDE DEF k
<1>3. Bytes(attr) = 4 + k + Padding(k) /\ Padding(k) \in Nat
  BY <1>1, <1>2
<1> QED
  BY <1>2, <1>3 DEF k

\* parse_xor_mapped_address finds what the server has put in, or nothing; and it
\* finds it when all has come and the address is an IPv4 one.
LEMMA ParsedIsSaid ==
  ASSUME NEW attrs, NEW public \in Publics, Says(attrs, public)
  PROVE  /\ \A size : ParseXorMapped(attrs, size) \in {Error, public}
         /\ public \notin IPv6 => ParseXorMapped(attrs, Size(attrs)) = public
<1> DEFINE n == Len(attrs)
           lengths == [i \in DOMAIN attrs |-> 4 + attrs[i].len + Padding(attrs[i].len)]
           begin == Ends(lengths)
           Fitting(size) == {i \in DOMAIN attrs : /\ attrs[i].type = "xor mapped"
                                                  /\ attrs[i].len >= 8
                                                  /\ begin[i - 1] + 4 + attrs[i].len <= size}
           Value(first) == IF first.family = 1 THEN Mask(first.value) ELSE Error
           First(F) == CHOOSE i \in F : \A j \in F : i <= j
<1>0. n \in Nat \ {0} /\ DOMAIN attrs = 1 .. n
  BY Zenon DEF Says
<1>1. /\ attrs[n] = Mapped(public)
      /\ \A i \in DOMAIN attrs : attrs[i].len \in Nat
      /\ \A i \in DOMAIN attrs : attrs[i].type = "xor mapped" => i = n
  BY Zenon DEF Says
<1>2. n \in DOMAIN attrs
  <2> HIDE DEF n
  <2> QED
    BY <1>0
<1>3. \A size : Fitting(size) \in {{}, {n}}
  BY <1>1
<1>4. \A size : ParseXorMapped(attrs, size) =
                IF Fitting(size) = {} THEN Error ELSE Value(attrs[First(Fitting(size))])
  BY DEF ParseXorMapped
<1>5. First({n}) = n
  <2> HIDE DEF n
  <2>1. n <= n
    BY <1>0
  <2> QED
    BY <2>1
<1>6. Value(Mapped(public)) = IF public \in IPv6 THEN Error ELSE public
  <2>1. /\ Mapped(public).family = IF public \in IPv6 THEN 2 ELSE 1
        /\ Mapped(public).value = Mask(public)
    BY DEF Mapped
  <2>2. Mask(Mask(public)) = public
    BY StunAssumption
  <2> QED
    BY <2>1, <2>2
<1> HIDE DEF First, Value
<1>7. \A size : ParseXorMapped(attrs, size) =
                IF n \notin Fitting(size) \/ public \in IPv6 THEN Error ELSE public
  <2> HIDE DEF Fitting
  <2> QED
    BY <1>1, <1>3, <1>4, <1>5, <1>6
<1>8. ASSUME public \notin IPv6 PROVE n \in Fitting(Size(attrs))
  <2>1. /\ \A i \in DOMAIN attrs : /\ Bytes(attrs[i]) \in Nat
                                   /\ Bytes(attrs[i]) = 4 + attrs[i].len + Padding(attrs[i].len)
        /\ Padding(attrs[n].len) \in Nat
    BY <1>1, <1>2, SkipsThePadding, Zenon
  <2>2. lengths \in [1 .. n -> Nat] /\ lengths = [i \in DOMAIN attrs |-> Bytes(attrs[i])]
    <3> HIDE DEF n
    <3> QED
      BY <1>0, <1>1, <2>1
  <2>3. Size(attrs) = begin[n]
    BY <2>2 DEF Size
  <2>4. Mapped(public).type = "xor mapped" /\ Mapped(public).len = 8
    BY <1>8 DEF Mapped
  <2>5. lengths[n] = 4 + 8 + Padding(8) /\ Padding(8) \in Nat
    BY <1>1, <1>2, <2>1, <2>4
  <2> HIDE DEF lengths
  <2>6. begin[n] = begin[n - 1] + lengths[n] /\ begin[n - 1] \in Nat
    BY <1>0, <2>2, EndsAddUp
  <2> HIDE DEF n
  <2>7. begin[n - 1] + 4 + 8 <= begin[n]
    BY <2>5, <2>6
  <2>8. attrs[n].type = "xor mapped" /\ attrs[n].len = 8 /\ attrs[n].len >= 8
    <3>1. 8 >= 8
      OBVIOUS
    <3> QED
      BY <1>1, <2>4, <3>1, Zenon
  <2>9. begin[n - 1] + 4 + attrs[n].len <= Size(attrs)
    BY <2>3, <2>7, <2>8
  <2> QED
    BY <1>2, <2>8, <2>9, Zenon
<1> QED
  BY <1>7, <1>8, Zenon

\* What BindingSuccess and OtherServer put into an answer.
LEMMA AnswersSayTheSource ==
  ASSUME NEW public \in Publics
  PROVE  /\ Says(<<Mapped(public)>>, public)
         /\ \A lens \in Extras :
              Says([i \in DOMAIN lens |-> OtherAttribute(lens[i])] \o <<Mapped(public)>>, public)
<1> DEFINE m == Mapped(public)
<1>1. m.type = "xor mapped" /\ m.len \in Nat
  BY DEF Mapped
<1> HIDE DEF m
<1>2. Says(<<m>>, public)
  <2> DEFINE q == <<m>>
  <2>1. Len(q) = 1 /\ DOMAIN q = 1 .. 1 /\ q[1] = m
    OBVIOUS
  <2> HIDE DEF q
  <2>2. DOMAIN q = 1 .. Len(q) /\ Len(q) \in Nat \ {0} /\ \A i \in DOMAIN q : i = Len(q)
    BY <2>1
  <2>3. Says(q, public)
    BY <1>1, <2>1, <2>2 DEF Says, m
  <2> QED
    BY <2>3 DEF q
<1>3. ASSUME NEW lens \in Extras
      PROVE  Says([i \in DOMAIN lens |-> OtherAttribute(lens[i])] \o <<m>>, public)
  <2> DEFINE a == [i \in DOMAIN lens |-> OtherAttribute(lens[i])]
             S == {OtherAttribute(n) : n \in Nat} \cup {m}
             n == Len(lens)
  <2>1. lens \in Seq(Nat) /\ n \in Nat /\ DOMAIN lens = 1 .. n
    BY StunAssumption
  <2>2. a \in [1 .. n -> S]
    BY <2>1
  <2>3. a \in Seq(S) /\ Len(a) = n
    <3>1. a \in UNION {[1 .. k -> S] : k \in Nat}
      BY <2>1, <2>2
    <3>2. a \in Seq(S) /\ DOMAIN a = 1 .. n
      BY <2>2, <3>1, SeqDef
    <3> QED
      BY <2>1, <3>2, LenProperties
  <2>4. \A i \in 1 .. n : a[i].type = "other" /\ a[i].len \in Nat
    BY <2>1 DEF OtherAttribute
  <2>5. <<m>> \in Seq(S) /\ Len(<<m>>) = 1 /\ <<m>>[1] = m
    OBVIOUS
  <2> HIDE DEF a, S, n
  <2> DEFINE all == a \o <<m>>
  <2>6. /\ all \in Seq(S) /\ Len(all) = n + 1
        /\ \A i \in 1 .. (n + 1) : all[i] = IF i <= n THEN a[i] ELSE <<m>>[i - n]
    BY <2>3, <2>5, ConcatProperties
  <2>7. DOMAIN all = 1 .. (n + 1)
    BY <2>6
  <2>8. all[n + 1] = m
    BY <2>1, <2>5, <2>6
  <2>9. ASSUME NEW i \in 1 .. (n + 1)
        PROVE  /\ all[i].len \in Nat
               /\ all[i].type = "xor mapped" <=> i = n + 1
    <3>1. CASE i = n + 1
      BY <1>1, <2>8, <3>1
    <3>2. CASE i # n + 1
      <4>1. i \in 1 .. n
        BY <2>1, <3>2
      <4>2. all[i] = a[i] /\ a[i].type = "other" /\ a[i].len \in Nat
        BY <2>4, <2>6, <4>1
      <4> QED
        BY <3>2, <4>2
    <3> QED
      BY <3>1, <3>2
  <2>10. n + 1 \in Nat \ {0}
    BY <2>1
  <2> HIDE DEF all
  <2>11. Says(all, public)
    BY <2>6, <2>7, <2>8, <2>9, <2>10 DEF Says, m
  <2> QED
    BY <2>11 DEF all, a
<1> QED
  BY <1>2, <1>3 DEF m

LEMMA DiscoverStep ==
  ASSUME StunInv, NEW c \in Clients, NEW p \in Ports, Discover(c, p)
  PROVE  StunInv'
<1> USE DEF StunInv, Discover
<1> DEFINE f == [src |-> map[c][p], tx |-> nextTx]
<1>1. /\ nextTx \in Tx /\ nextTx \in Nat /\ f \in Request /\ f.tx = nextTx
      /\ up' = up \cup {f}
  BY StunAssumption DEF StunTypeOK, Tx, Request
<1> HIDE DEF f
<1>2. StunTypeOK'
  BY <1>1 DEF StunTypeOK
<1>3. \A g \in up : g.tx \in Nat /\ g.tx < nextTx /\ g.tx # nextTx
  BY <1>1 DEF StunTypeOK, Request, Tx, OneRequest
<1>4. \A t \in Tx : t >= nextTx' => seen[t] = Error
  BY <1>1 DEF OneRequest, Tx
<1>5. seen[nextTx] = Error
  BY <1>1 DEF OneRequest
<1>6. \A g \in up' : g.tx < nextTx' /\ seen'[g.tx] \in {Error, g.src}
  BY <1>1, <1>3, <1>5 DEF OneRequest
<1>7. \A g, h \in up' : g.tx = h.tx => g = h
  BY <1>1, <1>3 DEF OneRequest
<1> QED
  BY <1>2, <1>4, <1>6, <1>7 DEF OneRequest, AnswersSay, ResultWasSeen

LEMMA ServeStep ==
  ASSUME StunInv, NEW f, NEW attrs, NEW size, Serve(f, attrs, size), Says(attrs, f.src)
  PROVE  StunInv'
<1> USE DEF StunInv, Serve
<1>1. f \in up /\ f \in Request /\ f.tx \in Tx /\ f.src \in Publics /\ f.src # Error
  BY NoError DEF StunTypeOK, Request
<1>2. /\ seen'[f.tx] = f.src
      /\ \A t \in Tx \ {f.tx} : seen'[t] = seen[t]
      /\ seen[f.tx] \in {Error, f.src}
  BY <1>1 DEF StunTypeOK, OneRequest
<1>3. \A t \in Tx : seen[t] # Error => seen'[t] = seen[t]
  BY <1>2
<1>4. up' \subseteq up
  BY DEF Rest
<1>5. StunTypeOK'
  BY <1>1, <1>4 DEF StunTypeOK
<1>6. OneRequest'
  <2>1. \A t \in Tx : t >= nextTx => seen'[t] = Error
    <3>1. f.tx < nextTx /\ f.tx \in Nat /\ nextTx \in Nat
      BY <1>1 DEF OneRequest, Tx, StunTypeOK
    <3> QED
      BY <1>2, <3>1 DEF OneRequest
  <2>2. \A g \in up : g.tx < nextTx /\ seen'[g.tx] \in {Error, g.src}
    <3> SUFFICES ASSUME NEW g \in up PROVE seen'[g.tx] \in {Error, g.src}
      BY DEF OneRequest
    <3>1. CASE g.tx = f.tx
      BY <1>1, <1>2, <3>1 DEF OneRequest
    <3>2. CASE g.tx # f.tx
      BY <1>2, <3>2 DEF OneRequest, StunTypeOK, Request
    <3> QED
      BY <3>1, <3>2
  <2> QED
    BY <1>4, <2>1, <2>2 DEF OneRequest
<1>7. AnswersSay'
  <2> DEFINE new == [dst |-> f.src, tx |-> f.tx, attrs |-> attrs, size |-> size]
  <2>1. new.dst = f.src /\ new.tx = f.tx /\ new.attrs = attrs /\ down' = down \cup {new}
    OBVIOUS
  <2> HIDE DEF new
  <2>2. ASSUME NEW r \in down
        PROVE  r.tx \in Tx /\ r.dst \in Publics /\ seen'[r.tx] = r.dst /\ Says(r.attrs, r.dst)
    BY <1>3, NoError DEF AnswersSay
  <2>3. new.tx \in Tx /\ new.dst \in Publics /\ seen'[new.tx] = new.dst /\ Says(new.attrs, new.dst)
    BY <1>1, <1>2, <2>1
  <2> QED
    BY <2>1, <2>2, <2>3 DEF AnswersSay, Says
<1>8. ResultWasSeen'
  BY <1>3 DEF ResultWasSeen
<1> QED
  BY <1>5, <1>6, <1>7, <1>8

LEMMA ReceiveStep ==
  ASSUME StunInv, NEW c \in Clients, NEW r \in down, Receive(c, r)
  PROVE  StunInv'
<1> USE DEF StunInv, Receive
<1>1. /\ r.tx \in Tx /\ r.dst \in Publics /\ seen[r.tx] = r.dst
      /\ ParseXorMapped(r.attrs, r.size) \in {Error, r.dst}
  BY ParsedIsSaid DEF AnswersSay
<1>2. sock[c].tx \in Tx
  BY DEF Asking, StunTypeOK
<1> DEFINE new == [tx |-> sock[c].tx, addr |-> Read(r, sock[c].tx)]
<1>3. /\ new.tx = sock[c].tx
      /\ new.addr = Error \/ (new.addr = r.dst /\ r.tx = sock[c].tx)
      /\ result' = [result EXCEPT ![c] = new]
      /\ new \in [tx : Tx \cup {0}, addr : Publics \cup {Error}]
  BY <1>1, <1>2 DEF Read
<1> HIDE DEF new
<1>4. NoSock \in [port : Ports \cup {0}, tx : Tx \cup {0}]
  BY DEF NoSock
<1>5. StunTypeOK'
  BY <1>3, <1>4 DEF StunTypeOK
<1>6. down' \subseteq down
  BY DEF Rest
<1>7. AnswersSay'
  BY <1>6 DEF AnswersSay, Says
<1>8. result'[c] = new /\ \A e \in Clients \ {c} : result'[e] = result[e]
  BY <1>3 DEF StunTypeOK
<1>9. ResultWasSeen'
  BY <1>1, <1>2, <1>3, <1>8 DEF ResultWasSeen
<1> QED
  BY <1>5, <1>7, <1>9 DEF OneRequest

LEMMA StunInductive == StunInv /\ [StunNext]_discovery => StunInv'
<1> SUFFICES ASSUME StunInv, [StunNext]_discovery PROVE StunInv'
  OBVIOUS
<1> USE DEF StunInv
<1>1. ASSUME NEW c \in Clients, GiveUp(c)
      PROVE  StunInv'
  BY <1>1 DEF GiveUp, NoSock, StunTypeOK, OneRequest, AnswersSay, Says, ResultWasSeen
<1>2. ASSUME NEW c \in Clients, ReceiveStray(c)
      PROVE  StunInv'
  <2>1. sock[c].tx \in Tx
    BY <1>2 DEF ReceiveStray, Asking, StunTypeOK
  <2>2. StunTypeOK'
    BY <1>2, <2>1 DEF ReceiveStray, NoSock, StunTypeOK
  <2>3. result'[c].addr = Error /\ \A e \in Clients \ {c} : result'[e] = result[e]
    BY <1>2 DEF ReceiveStray, StunTypeOK
  <2> QED
    BY <1>2, <2>2, <2>3 DEF ReceiveStray, OneRequest, AnswersSay, Says, ResultWasSeen
<1>3. ASSUME NEW f \in up, BindingSuccess(f) \/ OtherServer(f)
      PROVE  StunInv'
  <2>1. f.src \in Publics
    BY DEF StunTypeOK, Request
  <2>2. CASE BindingSuccess(f)
    BY <2>1, <2>2, AnswersSayTheSource, ServeStep DEF BindingSuccess
  <2>3. CASE OtherServer(f)
    <3>1. PICK lens \in Extras, cut \in {0, 4} :
            LET attrs == [i \in DOMAIN lens |-> OtherAttribute(lens[i])] \o <<Mapped(f.src)>>
            IN  Serve(f, attrs, Size(attrs) - cut)
      BY <2>3 DEF OtherServer
    <3> DEFINE attrs == [i \in DOMAIN lens |-> OtherAttribute(lens[i])] \o <<Mapped(f.src)>>
    <3>2. Serve(f, attrs, Size(attrs) - cut) /\ Says(attrs, f.src)
      BY <2>1, <3>1, AnswersSayTheSource
    <3> HIDE DEF attrs
    <3> QED
      BY <3>2, ServeStep
  <2> QED
    BY <1>3, <2>2, <2>3
<1>4. ASSUME NEW f, Vanish(f)
      PROVE  StunInv'
  <2>1. up' \subseteq up /\ down' \subseteq down
    BY <1>4 DEF Vanish
  <2> QED
    BY <1>4, <2>1 DEF Vanish, StunTypeOK, OneRequest, AnswersSay, Says, ResultWasSeen
<1>5. ASSUME NEW c \in Clients, NEW p \in Ports, NEW public \in Publics, Rebind(c, p, public)
      PROVE  StunInv'
  <2>1. map' \in [Clients -> [Ports -> Publics]]
    BY <1>5 DEF Rebind, StunTypeOK
  <2> QED
    BY <1>5, <2>1 DEF Rebind, StunTypeOK, OneRequest, AnswersSay, Says, ResultWasSeen
<1>6. CASE UNCHANGED discovery
  BY <1>6 DEF discovery, StunTypeOK, OneRequest, AnswersSay, Says, ResultWasSeen
<1> QED
  BY <1>1, <1>2, <1>3, <1>4, <1>5, <1>6, DiscoverStep, ReceiveStep DEF StunNext

(***************************************************************************)
(* discover returns the address that the server saw its own request come   *)
(* from, for any number of clients, of discoveries and of datagrams that   *)
(* are repeated, delayed, lost, or meant for an older socket.              *)
(***************************************************************************)
THEOREM OwnAddressHolds == StunSpec => []OwnAddress
<1>1. StunInv => OwnAddress
  BY DEF StunInv, ResultWasSeen, OwnAddress
<1> QED
  BY <1>1, StunInitially, StunInductive, PTL DEF StunSpec

(***************************************************************************)
(* A complete answer for an IPv4 address gives that address, however many  *)
(* attributes of whatever lengths another server puts before it: the steps *)
(* of the parser end where the attributes do.                              *)
(***************************************************************************)
THEOREM CompleteIsReadHolds == StunSpec => CompleteIsRead
<1> DEFINE Complete ==
      \A c \in Clients, r \in down :
        /\ Receive(c, r)
        /\ r.tx = sock[c].tx
        /\ r.size = Size(r.attrs)
        /\ r.dst \notin IPv6
        => result'[c].addr = r.dst
<1>1. StunInv => Complete
  <2> SUFFICES ASSUME StunInv, NEW c \in Clients, NEW r \in down, Receive(c, r),
                      r.tx = sock[c].tx, r.size = Size(r.attrs), r.dst \notin IPv6
               PROVE  result'[c].addr = r.dst
    OBVIOUS
  <2>1. ParseXorMapped(r.attrs, r.size) = r.dst
    BY ParsedIsSaid DEF StunInv, AnswersSay
  <2>2. result'[c].addr = Read(r, sock[c].tx)
    BY DEF Receive, StunInv, StunTypeOK
  <2> QED
    BY <2>1, <2>2 DEF Read
<1> QED
  BY <1>1, StunInitially, StunInductive, PTL DEF StunSpec, CompleteIsRead
=============================================================================
