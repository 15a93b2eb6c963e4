---------------------------- MODULE ControlProofs ----------------------------
(***************************************************************************)
(* Proofs about Control, for every value of its constants.                 *)
(*                                                                         *)
(* The address plan is not inductive by itself: a registration in flight   *)
(* carries an identity into the table, and Restore brings the rows of the  *)
(* backup back.  IInv adds that the identities of registrations in flight  *)
(* are new to the table, the backup and the clients, that the backup is as *)
(* well formed as the table, and that a row of one and a row of the other  *)
(* with the same identity are the same device at different times.          *)
(***************************************************************************)
EXTENDS Control, FiniteSetTheorems, TLAPS

Plan(T) ==
  /\ \A d, e \in T : d.id = e.id \/ d.key = e.key \/ d.addr = e.addr => d = e
  /\ \A d \in T : d.addr = NoAddr <=> d.status = "revoked"

SameDevice(d, e) ==
  d.id = e.id =>
    /\ d.key = e.key
    /\ d.status # "revoked" /\ e.status # "revoked" => d.addr = e.addr

ToldOf(k, d) ==
  d.id = told[k].id =>
    /\ d.key = k
    /\ d.status # "revoked" /\ told[k].status # "revoked"
         => d.addr = told[k].addr

Known == devices \cup backup.devices

Registering(h) == req[h].pc \in {"count", "pool", "first", "insert"}

\* What a registration in flight may rely on.
NewIdentity(h) ==
  /\ req[h].key \in Keys
  /\ req[h].id \in Ids
  /\ \A d \in Known : d.id # req[h].id
  /\ \A k \in Keys : told[k].id # req[h].id
  /\ \A g \in Handlers \ {h} : Registering(g) => req[g].id # req[h].id

HasOffset(h) == req[h].pc \in {"pool", "first", "insert"} => req[h].num \in Addr

IInv ==
  /\ TypeOK
  /\ Plan(devices) /\ Plan(backup.devices)
  /\ \A d \in devices, e \in backup.devices : SameDevice(d, e)
  /\ \A k \in Keys, d \in Known : ToldOf(k, d)
  /\ \A d \in Known : d.id < nextId
  /\ \A k \in Keys : told[k].id < nextId
  /\ \A h \in Handlers : req[h].id < nextId
  /\ \A h \in Handlers : Registering(h) => NewIdentity(h)
  /\ \A h \in Handlers : HasOffset(h)
-----------------------------------------------------------------------------
(***************************************************************************)
(* The number of rows of the pool is a natural number, and a count that    *)
(* does not exceed max_offset is an offset.                                *)
(***************************************************************************)
LEMMA PoolCount ==
  ASSUME TypeOK
  PROVE  /\ Cardinality(pool) \in Nat
         /\ Cardinality(pool) <= MaxOffset => Cardinality(pool) \in Addr
<1>1. IsFiniteSet(Addr)
  BY FS_Interval, ControlAssumption DEF Addr
<1>2. IsFiniteSet(pool)
  BY <1>1, FS_Subset DEF TypeOK
<1>3. Cardinality(pool) \in Nat
  BY <1>2, FS_CardinalityType
<1> QED
  BY <1>3, ControlAssumption DEF Addr

(***************************************************************************)
(* Most statements register nothing: every row is a row of the table       *)
(* before, perhaps later in its life, and every request is as it was, or   *)
(* registers nothing, or goes on registering the same device.              *)
(***************************************************************************)
Later(d, e) ==
  /\ e.id = d.id
  /\ e.key = d.key
  /\ \/ e.status = "revoked"
     \/ d.status # "revoked" /\ e.addr = d.addr

QuietRequests ==
  \A h \in Handlers :
    \/ req'[h] = req[h]
    \/ /\ req'[h].pc \notin {"count", "pool", "first", "insert"}
       /\ req'[h].id < nextId
    \/ /\ Registering(h)
       /\ req'[h].key = req[h].key
       /\ req'[h].id = req[h].id
       /\ HasOffset(h)'

NothingNew ==
  /\ UNCHANGED <<backup, told, nextId>>
  /\ \A e \in devices' : \E d \in devices : Later(d, e)
  /\ Plan(devices')
  /\ QuietRequests

LEMMA NothingNewStep ==
  ASSUME IInv, TypeOK', NothingNew
  PROVE  IInv'
<1>1. \A h \in Handlers : req'[h].id < nextId /\ HasOffset(h)'
  BY DEF IInv, NothingNew, QuietRequests, HasOffset
<1>2. \A h \in Handlers : Registering(h)' =>
        Registering(h) /\ req'[h].key = req[h].key /\ req'[h].id = req[h].id
  BY DEF NothingNew, QuietRequests, Registering
<1>3. \A e \in Known' : \E d \in Known : e.id = d.id
  BY DEF NothingNew, Later, Known
<1>4. ASSUME NEW h \in Handlers, Registering(h)' PROVE NewIdentity(h)'
  <2>1. NewIdentity(h)
    BY <1>2, <1>4 DEF IInv
  <2>2. \A g \in Handlers \ {h} : Registering(g)' => req'[g].id # req'[h].id
    BY <1>2, <1>4, <2>1 DEF NewIdentity
  <2> QED
    BY <1>2, <1>3, <1>4, <2>1, <2>2 DEF NewIdentity, NothingNew
<1>5. \A e \in devices', b \in backup'.devices : SameDevice(e, b)
  BY DEF IInv, NothingNew, Later, SameDevice
<1>6. \A k \in Keys, e \in Known' : ToldOf(k, e)'
  <2>1. ASSUME NEW k \in Keys, NEW d \in Known, NEW e, Later(d, e)
        PROVE  ToldOf(k, e)
    BY <2>1 DEF IInv, ToldOf, Later
  <2>2. ASSUME NEW k \in Keys, NEW e \in Known' PROVE ToldOf(k, e)
    BY <2>1, <2>2 DEF IInv, NothingNew, Known
  <2> QED
    BY <2>2 DEF NothingNew, ToldOf
<1>7. \A e \in Known' : e.id < nextId'
  BY <1>3 DEF IInv, NothingNew
<1> QED
  BY <1>1, <1>4, <1>5, <1>6, <1>7 DEF IInv, NothingNew, Plan

(***************************************************************************)
(* Types.                                                                  *)
(***************************************************************************)
LEMMA TypeInit == Init => TypeOK
BY ControlAssumption
DEF Init, TypeOK, Idle, Request, PurgerIdle, NoAnswer, Ids, Addr, NoAddr, Status

LEMMA TypeRegister ==
  ASSUME TypeOK, NEW h \in Handlers, Register(h),
         Registering(h) => req[h].key \in Keys /\ req[h].id \in Ids,
         HasOffset(h)
  PROVE  TypeOK'
<1>1. ASSUME NEW k \in Keys, RegisterFind(h, k) PROVE TypeOK'
  <2>1. told' \in [Keys -> [id : Ids \cup {0}, addr : Addr \cup {NoAddr},
                            status : Status \cup {"none"}]]
    BY <1>1 DEF TypeOK, RegisterFind, Answer, Row
  <2>2. nextId' \in 1 .. (MaxIds + 1) /\ (nextId' # nextId => nextId \in Ids)
    BY <1>1, ControlAssumption DEF TypeOK, RegisterFind, Ids
  <2>3. nextId <= MaxIds =>
          [Idle EXCEPT !.pc = "count", !.key = k, !.id = nextId, !.seen = now]
            \in Request
    <3>1. nextId <= MaxIds => nextId \in Ids
      BY ControlAssumption DEF TypeOK, Ids
    <3> QED
      BY <3>1 DEF TypeOK, Idle, Request
  <2>4. req' \in [Handlers -> Request]
    BY <1>1, <2>3 DEF TypeOK, RegisterFind
  <2>5. faults' \in Nat
    BY <1>1 DEF TypeOK, RegisterFind, Ok, Fails
  <2> QED
    BY <1>1, <2>1, <2>2, <2>4, <2>5 DEF TypeOK, RegisterFind
<1>2. CASE RegisterCount(h)
  <2>1. req' \in [Handlers -> Request]
    BY <1>2, PoolCount DEF TypeOK, RegisterCount, Done, Idle, Request
  <2> QED
    BY <1>2, <2>1 DEF TypeOK, RegisterCount, Ok, Fails
<1>3. CASE RegisterPool(h)
  BY <1>3 DEF TypeOK, RegisterPool, Ok, Fails, Request, HasOffset
<1>4. CASE RegisterFirst(h)
  BY <1>4 DEF TypeOK, RegisterFirst, Ok, Fails, Request
<1>5. CASE RegisterInsert(h)
  <2>1. NewRow(req[h]) \in Row
    BY <1>5 DEF RegisterInsert, NewRow, Row, TypeOK, Request, Registering,
                HasOffset, Status
  <2>2. Answer(NewRow(req[h])) \in [id : Ids \cup {0}, addr : Addr \cup {NoAddr},
                                    status : Status \cup {"none"}]
    BY <2>1 DEF Answer, Row
  <2> QED
    BY <1>5, <2>1, <2>2
    DEF TypeOK, RegisterInsert, Ok, Fails, Done, Idle, Request
<1> QED
  BY <1>1, <1>2, <1>3, <1>4, <1>5 DEF Register

LEMMA TypeRequest ==
  ASSUME TypeOK, NEW h \in Handlers,
         Revoke(h) \/ Unregister(h) \/ Abort(h)
  PROVE  TypeOK'
<1>1. ASSUME NEW i \in Drawn, RevokeRelease(h, i) PROVE TypeOK'
  <2>1. [Idle EXCEPT !.pc = "revoke", !.id = i] \in Request
    <3>1. i \in Ids
      BY ControlAssumption DEF TypeOK, Drawn, Ids
    <3> QED
      BY <3>1 DEF Idle, Request
  <2>2. req' \in [Handlers -> Request]
    BY <1>1, <2>1 DEF TypeOK, RevokeRelease
  <2> QED
    BY <1>1, <2>2 DEF TypeOK, RevokeRelease, Ok, Fails
<1>2. CASE RevokeUpdate(h)
  <2>1. \A d \in Row : RevokedRow(d) \in Row
    BY DEF RevokedRow, Row, Status
  <2>2. devices' \subseteq Row
    BY <1>2, <2>1 DEF TypeOK, RevokeUpdate
  <2> QED
    BY <1>2, <2>2 DEF TypeOK, RevokeUpdate, Ok, Fails, Done, Idle, Request
<1>3. ASSUME NEW i \in Drawn, UnregisterRelease(h, i) PROVE TypeOK'
  <2>1. [Idle EXCEPT !.pc = "unregister", !.id = i] \in Request
    <3>1. i \in Ids
      BY ControlAssumption DEF TypeOK, Drawn, Ids
    <3> QED
      BY <3>1 DEF Idle, Request
  <2>2. req' \in [Handlers -> Request]
    BY <1>3, <2>1 DEF TypeOK, UnregisterRelease
  <2> QED
    BY <1>3, <2>2 DEF TypeOK, UnregisterRelease, Ok, Fails
<1>4. CASE UnregisterDelete(h)
  BY <1>4 DEF TypeOK, UnregisterDelete, Ok, Fails, Done, Idle, Request
<1>5. CASE Abort(h)
  BY <1>5 DEF TypeOK, Abort, Done, Idle, Request
<1> QED
  BY <1>1, <1>2, <1>3, <1>4, <1>5 DEF Revoke, Unregister

LEMMA TypeOther ==
  ASSUME TypeOK,
         Touch \/ Purge \/ Backup \/ Restore \/ Crash \/ Tick
  PROVE  TypeOK'
<1>1. ASSUME NEW i \in Drawn, Approve(i) PROVE TypeOK'
  BY <1>1 DEF TypeOK, Approve, Row, Status
<1>2. ASSUME NEW i \in Drawn, Heartbeat(i) PROVE TypeOK'
  BY <1>2 DEF TypeOK, Heartbeat, Row
<1>3. CASE PurgeRelease
  BY <1>3, ControlAssumption DEF TypeOK, PurgeRelease, Ok, Fails
<1>4. CASE PurgeDelete
  BY <1>4 DEF TypeOK, PurgeDelete, PurgerIdle, Ok, Fails
<1>5. CASE Backup
  BY <1>5 DEF TypeOK, Backup
<1>6. CASE Restore
  BY <1>6 DEF TypeOK, Restore
<1>7. CASE Crash
  BY <1>7 DEF TypeOK, Crash, PurgerIdle, Idle, Request
<1>8. CASE Tick
  BY <1>8 DEF TypeOK, Tick
<1> QED
  BY <1>1, <1>2, <1>3, <1>4, <1>5, <1>6, <1>7, <1>8 DEF Touch, Purge
(***************************************************************************)
(* The inductive invariant.                                                *)
(***************************************************************************)
LEMMA IInvInit == Init => IInv
<1> SUFFICES ASSUME Init PROVE IInv
  OBVIOUS
<1>1. TypeOK
  BY TypeInit
<1>2. Known = {} /\ \A h \in Handlers : ~Registering(h) /\ HasOffset(h)
  BY DEF Init, Known, Registering, HasOffset, Idle
<1>3. \A k \in Keys : told[k].id < nextId
  BY DEF Init, NoAnswer
<1>4. \A h \in Handlers : req[h].id < nextId
  BY DEF Init, Idle
<1> QED
  BY <1>1, <1>2, <1>3, <1>4 DEF IInv, Init, Plan

\* A row is no later than itself.
LEMMA SameTable ==
  ASSUME IInv, devices' = devices
  PROVE  (\A e \in devices' : \E d \in devices : Later(d, e)) /\ Plan(devices')
BY DEF IInv, Later, Plan

LEMMA NothingNewRequest ==
  ASSUME IInv, NEW h \in Handlers,
         \/ RegisterCount(h) \/ RegisterPool(h) \/ RegisterFirst(h)
         \/ Revoke(h) \/ Unregister(h) \/ Abort(h)
  PROVE  NothingNew
<1> USE DEF IInv
<1>a. ASSUME \A g \in Handlers \ {h} : req'[g] = req[g],
             req'[h].pc \notin {"count", "pool", "first", "insert"},
             req'[h].id < nextId
      PROVE  QuietRequests
  BY <1>a DEF QuietRequests
<1>b. req' = req => QuietRequests
  BY DEF QuietRequests
<1>c. 0 < nextId /\ \A i \in Drawn : i < nextId
  BY ControlAssumption DEF TypeOK, Drawn
<1>0. Done(h) => QuietRequests
  <2>1. Done(h) => req'[h] = Idle /\ \A g \in Handlers \ {h} : req'[g] = req[g]
    BY DEF Done, TypeOK
  <2>2. Idle.pc = "idle" /\ Idle.id = 0
    BY DEF Idle
  <2> QED
    BY <1>a, <1>c, <2>1, <2>2
<1>1. CASE RegisterCount(h)
  <2>1. CASE Done(h)
    BY <1>0, <2>1, <1>1, SameTable DEF RegisterCount, NothingNew
  <2>2. CASE ~Done(h)
    <3>1. PICK n \in Addr :
            req' = [req EXCEPT ![h].pc = "pool", ![h].num = n]
      BY <1>1, <2>2, PoolCount, ControlAssumption DEF RegisterCount, Addr
    <3>2. QuietRequests
      BY <1>1, <3>1
      DEF RegisterCount, QuietRequests, Registering, HasOffset, TypeOK, Request
    <3> QED
      BY <1>1, <3>2, SameTable DEF RegisterCount, NothingNew
  <2> QED
    BY <2>1, <2>2
<1>2. CASE RegisterPool(h)
  <2>1. QuietRequests
    BY <1>2 DEF RegisterPool, QuietRequests, Registering, HasOffset, TypeOK,
                Request
  <2> QED
    BY <1>2, <2>1, SameTable DEF RegisterPool, NothingNew
<1>3. CASE RegisterFirst(h)
  <2>1. QuietRequests
    BY <1>3 DEF RegisterFirst, QuietRequests, Registering, HasOffset, TypeOK,
                Request
  <2> QED
    BY <1>3, <2>1, SameTable DEF RegisterFirst, NothingNew
<1>4. ASSUME NEW i \in Drawn, RevokeRelease(h, i) PROVE NothingNew
  <2>1. QuietRequests
    <3>1. CASE req' = [req EXCEPT ![h] = [Idle EXCEPT !.pc = "revoke", !.id = i]]
      <4>1. /\ req'[h].pc = "revoke" /\ req'[h].id = i
            /\ \A g \in Handlers \ {h} : req'[g] = req[g]
        BY <3>1 DEF Idle, TypeOK
      <4> QED
        BY <1>a, <1>c, <4>1
    <3> QED
      BY <1>b, <1>4, <3>1 DEF RevokeRelease
  <2> QED
    BY <1>4, <2>1, SameTable DEF RevokeRelease, NothingNew
<1>5. CASE RevokeUpdate(h)
  <2>1. CASE devices' = devices
    BY <1>0, <1>5, <2>1, SameTable DEF RevokeUpdate, NothingNew
  <2>2. CASE devices' # devices
    <3>1. PICK d \in devices :
            /\ d.id = req[h].id
            /\ d.status = "approved"
            /\ \A e \in devices : e.addr # NoAddr
            /\ devices' = (devices \ {d}) \cup {RevokedRow(d)}
      BY <1>5, <2>2 DEF RevokeUpdate
    <3>2. /\ RevokedRow(d).id = d.id /\ RevokedRow(d).key = d.key
          /\ RevokedRow(d).addr = NoAddr /\ RevokedRow(d).status = "revoked"
      BY DEF RevokedRow, TypeOK, Row
    <3>3. \A e \in devices' : \E f \in devices : Later(f, e)
      BY <3>1, <3>2 DEF Later
    <3>4. Plan(devices')
      BY <3>1, <3>2 DEF Plan
    <3> QED
      BY <1>0, <1>5, <3>3, <3>4 DEF RevokeUpdate, NothingNew
  <2> QED
    BY <2>1, <2>2
<1>6. ASSUME NEW i \in Drawn, UnregisterRelease(h, i) PROVE NothingNew
  <2>1. QuietRequests
    <3>1. CASE req' = [req EXCEPT ![h] = [Idle EXCEPT !.pc = "unregister", !.id = i]]
      <4>1. /\ req'[h].pc = "unregister" /\ req'[h].id = i
            /\ \A g \in Handlers \ {h} : req'[g] = req[g]
        BY <3>1 DEF Idle, TypeOK
      <4> QED
        BY <1>a, <1>c, <4>1
    <3> QED
      BY <1>b, <1>6, <3>1 DEF UnregisterRelease
  <2> QED
    BY <1>6, <2>1, SameTable DEF UnregisterRelease, NothingNew
<1>7. CASE UnregisterDelete(h)
  BY <1>0, <1>7 DEF UnregisterDelete, NothingNew, Later, Plan
<1>8. CASE Abort(h)
  BY <1>0, <1>8, SameTable DEF Abort, NothingNew
<1> QED
  BY <1>1, <1>2, <1>3, <1>4, <1>5, <1>6, <1>7, <1>8 DEF Revoke, Unregister

LEMMA NothingNewOther ==
  ASSUME IInv, Touch \/ Purge \/ Crash \/ Tick
  PROVE  NothingNew
<1> USE DEF IInv
<1>0. req' = req => QuietRequests
  BY DEF QuietRequests
<1>1. ASSUME NEW i \in Drawn, Approve(i) PROVE NothingNew
  <2>1. PICK d \in devices :
          /\ d.status = "pending"
          /\ devices' = (devices \ {d})
                          \cup {[d EXCEPT !.status = "approved"]}
    BY <1>1 DEF Approve
  <2>2. (\A e \in devices' : \E f \in devices : Later(f, e)) /\ Plan(devices')
    BY <2>1 DEF Later, Plan, TypeOK, Row
  <2> QED
    BY <1>0, <1>1, <2>2 DEF Approve, NothingNew
<1>2. ASSUME NEW i \in Drawn, Heartbeat(i) PROVE NothingNew
  <2>1. PICK d \in devices :
          devices' = (devices \ {d}) \cup {[d EXCEPT !.seen = now]}
    BY <1>2 DEF Heartbeat
  <2>2. (\A e \in devices' : \E f \in devices : Later(f, e)) /\ Plan(devices')
    BY <2>1 DEF Later, Plan, TypeOK, Row
  <2> QED
    BY <1>0, <1>2, <2>2 DEF Heartbeat, NothingNew
<1>3. CASE PurgeRelease
  BY <1>0, <1>3, SameTable DEF PurgeRelease, NothingNew
<1>4. CASE PurgeDelete
  BY <1>0, <1>4 DEF PurgeDelete, NothingNew, Later, Plan
<1>5. CASE Crash
  <2>1. QuietRequests
    BY <1>5 DEF Crash, QuietRequests, Idle, TypeOK
  <2> QED
    BY <1>5, <2>1, SameTable DEF Crash, NothingNew
<1>6. CASE Tick
  BY <1>0, <1>6, SameTable DEF Tick, NothingNew
<1> QED
  BY <1>1, <1>2, <1>3, <1>4, <1>5, <1>6 DEF Touch, Purge
(***************************************************************************)
(* A registration begins: the answer is read off the table, or a new       *)
(* identity is drawn.                                                      *)
(***************************************************************************)
LEMMA FindStep ==
  ASSUME IInv, TypeOK', NEW h \in Handlers, NEW k \in Keys, RegisterFind(h, k)
  PROVE  IInv'
<1> USE DEF IInv
<1>0. UNCHANGED <<devices, backup>> /\ Known' = Known
  BY DEF RegisterFind, Known
<1>1. CASE UNCHANGED <<req, nextId>>
  <2>1. CASE told' = told
    <3>1. NothingNew
      BY <1>0, <1>1, <2>1, SameTable DEF NothingNew, QuietRequests
    <3> QED
      BY <3>1, NothingNewStep
  <2>2. PICK d \in devices : d.key = k /\ told' = [told EXCEPT ![k] = Answer(d)]
    BY <1>1, ControlAssumption DEF RegisterFind, TypeOK
  <2>3. /\ told'[k] = Answer(d)
        /\ Answer(d).id = d.id /\ Answer(d).addr = d.addr
        /\ Answer(d).status = d.status
        /\ \A j \in Keys \ {k} : told'[j] = told[j]
    BY <2>2 DEF TypeOK, Answer
  <2>4. \A e \in Known : e.id = d.id => SameDevice(d, e) \/ e = d
    BY <2>2 DEF Known, Plan
  <2>5. \A j \in Keys, e \in Known : ToldOf(j, e)'
    <3>1. ASSUME NEW e \in Known PROVE ToldOf(k, e)'
      BY <2>2, <2>3, <2>4, <3>1 DEF ToldOf, SameDevice
    <3>2. ASSUME NEW j \in Keys \ {k}, NEW e \in Known PROVE ToldOf(j, e)'
      BY <2>3, <3>2 DEF ToldOf
    <3> QED
      BY <3>1, <3>2
  <2>6. \A j \in Keys : told'[j].id < nextId
    BY <2>2, <2>3 DEF Known
  <2>7. ASSUME NEW g \in Handlers, Registering(g)' PROVE NewIdentity(g)'
    <3>1. Registering(g) /\ NewIdentity(g)
      BY <1>1, <2>7 DEF Registering
    <3>2. \A j \in Keys : told'[j].id # req[g].id
      BY <2>2, <2>3, <3>1 DEF NewIdentity, Known
    <3> QED
      BY <1>0, <1>1, <3>1, <3>2 DEF NewIdentity, Registering
  <2> QED
    BY <1>0, <1>1, <2>5, <2>6, <2>7 DEF HasOffset
<1>2. CASE ~UNCHANGED <<req, nextId>>
  <2>1. /\ nextId \in Ids /\ nextId' = nextId + 1 /\ told' = told
        /\ req' = [req EXCEPT ![h] = [Idle EXCEPT !.pc = "count", !.key = k,
                                                  !.id = nextId, !.seen = now]]
    BY <1>2, ControlAssumption DEF RegisterFind, TypeOK, Ids
  <2>2. /\ req'[h].pc = "count" /\ req'[h].key = k /\ req'[h].id = nextId
        /\ \A g \in Handlers \ {h} : req'[g] = req[g]
    BY <2>1 DEF TypeOK, Idle
  <2>3. /\ \A d \in Known' : d.id < nextId
        /\ \A j \in Keys : told'[j].id < nextId
        /\ \A g \in Handlers \ {h} : req'[g].id < nextId
    BY <1>0, <2>1, <2>2
  <2>4. /\ \A d \in Known' : d.id \in Nat
        /\ \A j \in Keys : told'[j].id \in Nat
        /\ \A g \in Handlers : req'[g].id \in Nat
    BY <1>0, <2>1 DEF TypeOK, Known, Row, Request, Ids
  <2>5. NewIdentity(h)'
    BY <1>0, <2>1, <2>2, <2>3, <2>4 DEF NewIdentity, Ids
  <2>6. ASSUME NEW g \in Handlers \ {h}, Registering(g)' PROVE NewIdentity(g)'
    <3>1. Registering(g) /\ NewIdentity(g)
      BY <2>2, <2>6 DEF Registering
    <3> QED
      BY <1>0, <2>1, <2>2, <2>3, <2>4, <2>6, <3>1 DEF NewIdentity, Registering
  <2>7. /\ \A d \in Known' : d.id < nextId'
        /\ \A j \in Keys : told'[j].id < nextId'
        /\ \A g \in Handlers : req'[g].id < nextId'
    BY <2>1, <2>2, <2>3, <2>4 DEF Ids
  <2>8. \A j \in Keys, d \in Known' : ToldOf(j, d)'
    BY <1>0, <2>1 DEF ToldOf
  <2>9. \A g \in Handlers : HasOffset(g)'
    BY <2>2 DEF HasOffset
  <2> QED
    BY <1>0, <2>5, <2>6, <2>7, <2>8, <2>9
<1> QED
  BY <1>1, <1>2
(***************************************************************************)
(* A registration ends: its row enters the table, or nothing does.         *)
(***************************************************************************)
LEMMA InsertStep ==
  ASSUME IInv, TypeOK', NEW h \in Handlers, RegisterInsert(h)
  PROVE  IInv'
<1> USE DEF IInv
<1> DEFINE n == NewRow(req[h])
<1>0. /\ UNCHANGED <<backup, nextId>>
      /\ req'[h] = Idle /\ \A g \in Handlers \ {h} : req'[g] = req[g]
  BY DEF RegisterInsert, Done, TypeOK
<1>1. Idle.pc = "idle" /\ Idle.id = 0
  BY DEF Idle
<1>2. QuietRequests
  BY <1>0, <1>1, ControlAssumption DEF QuietRequests, TypeOK
<1>3. CASE UNCHANGED <<devices, told>>
  <2>1. NothingNew
    BY <1>0, <1>2, <1>3, SameTable DEF NothingNew
  <2> QED
    BY <2>1, NothingNewStep
<1>4. CASE ~UNCHANGED <<devices, told>>
  <2>1. /\ ~Conflicts(n)
        /\ devices' = devices \cup {n}
        /\ told' = [told EXCEPT ![n.key] = Answer(n)] \/ told' = told
    BY <1>4 DEF RegisterInsert
  <2>2. Registering(h) /\ NewIdentity(h) /\ HasOffset(h)
    BY DEF RegisterInsert, Registering
  <2>3. /\ n.id = req[h].id /\ n.key = req[h].key /\ n.addr = req[h].num
        /\ n.status = req[h].status
    BY DEF NewRow
  <2>4. n.addr \in Addr /\ n.addr # NoAddr /\ n.status # "revoked" /\ n.key \in Keys
    BY <2>2, <2>3, ControlAssumption
    DEF RegisterInsert, HasOffset, NewIdentity, TypeOK, Request, Addr, NoAddr
  <2>5. Plan(devices')
    BY <2>1, <2>4 DEF Plan, Conflicts
  <2>6. Known' = Known \cup {n}
    BY <1>0, <2>1 DEF Known
  <2>7. \A d \in Known : d.id # n.id
    BY <2>2, <2>3 DEF NewIdentity
  <2>8. \A d \in devices', e \in backup'.devices : SameDevice(d, e)
    BY <1>0, <2>1, <2>7 DEF SameDevice, Known
  <2>9. \A k \in Keys : \/ told'[k] = told[k]
                        \/ k = n.key /\ told'[k] = Answer(n)
    BY <2>1, <2>4 DEF TypeOK
  <2>10. Answer(n).id = n.id /\ Answer(n).addr = n.addr
    BY DEF Answer
  <2>11. \A k \in Keys : told[k].id # n.id
    BY <2>2, <2>3 DEF NewIdentity
  <2>12. \A k \in Keys, d \in Known' : ToldOf(k, d)'
    BY <2>6, <2>7, <2>9, <2>10, <2>11 DEF ToldOf
  <2>13. /\ \A d \in Known' : d.id < nextId'
         /\ \A k \in Keys : told'[k].id < nextId'
    BY <1>0, <2>3, <2>6, <2>9, <2>10
  <2>14. \A g \in Handlers : req'[g].id < nextId' /\ HasOffset(g)'
    BY <1>0, <1>1, ControlAssumption DEF HasOffset, TypeOK
  <2>15. ASSUME NEW g \in Handlers, Registering(g)' PROVE NewIdentity(g)'
    <3>1. g # h /\ Registering(g) /\ req'[g] = req[g] /\ NewIdentity(g)
      BY <1>0, <1>1, <2>15 DEF Registering
    <3>2. req[g].id # n.id
      BY <2>2, <2>3, <3>1 DEF NewIdentity
    <3>3. /\ \A d \in Known' : d.id # req[g].id
          /\ \A k \in Keys : told'[k].id # req[g].id
      BY <2>6, <2>9, <2>10, <3>1, <3>2 DEF NewIdentity
    <3>4. \A f \in Handlers \ {g} : Registering(f)' => req'[f].id # req'[g].id
      BY <1>0, <1>1, <3>1 DEF NewIdentity, Registering
    <3> QED
      BY <3>1, <3>3, <3>4 DEF NewIdentity
  <2> HIDE DEF n
  <2> QED
    BY <1>0, <2>5, <2>8, <2>12, <2>13, <2>14, <2>15 DEF Plan
<1> QED
  BY <1>3, <1>4

(***************************************************************************)
(* The file is copied, one way or the other.                               *)
(***************************************************************************)
LEMMA CopyStep ==
  ASSUME IInv, TypeOK', Backup \/ Restore
  PROVE  IInv'
<1> USE DEF IInv
<1>1. /\ UNCHANGED <<told, nextId, req>>
      /\ devices' \in {devices, backup.devices}
      /\ backup'.devices \in {devices, backup.devices}
      /\ devices' = backup'.devices
  BY DEF Backup, Restore
<1>2. Known' \subseteq Known
  BY <1>1 DEF Known
<1>3. \A d \in devices', e \in backup'.devices : SameDevice(d, e)
  BY <1>1 DEF Plan, SameDevice
<1>4. ASSUME NEW h \in Handlers, Registering(h)' PROVE NewIdentity(h)'
  BY <1>1, <1>2, <1>4 DEF Registering, NewIdentity
<1> QED
  BY <1>1, <1>2, <1>3, <1>4 DEF Plan, ToldOf, HasOffset

LEMMA IInvStep == IInv /\ [Next]_vars => IInv'
<1> SUFFICES ASSUME IInv, [Next]_vars PROVE IInv'
  OBVIOUS
<1>0. TypeOK /\ \A h \in Handlers : HasOffset(h)
  BY DEF IInv
<1>1. ASSUME NEW h \in Handlers, Register(h) PROVE IInv'
  <2>1. TypeOK'
    BY <1>0, <1>1, TypeRegister DEF IInv, NewIdentity
  <2>2. ASSUME NEW k \in Keys, RegisterFind(h, k) PROVE IInv'
    BY <2>1, <2>2, FindStep
  <2>3. CASE RegisterCount(h) \/ RegisterPool(h) \/ RegisterFirst(h)
    BY <2>1, <2>3, NothingNewRequest, NothingNewStep
  <2>4. CASE RegisterInsert(h)
    BY <2>1, <2>4, InsertStep
  <2> QED
    BY <1>1, <2>2, <2>3, <2>4 DEF Register
<1>2. ASSUME NEW h \in Handlers,
             Revoke(h) \/ Unregister(h) \/ Abort(h)
      PROVE  IInv'
  BY <1>0, <1>2, TypeRequest, NothingNewRequest, NothingNewStep
<1>3. CASE Touch \/ Purge \/ Crash \/ Tick
  BY <1>0, <1>3, TypeOther, NothingNewOther, NothingNewStep
<1>4. CASE Backup \/ Restore
  BY <1>0, <1>4, TypeOther, CopyStep
<1>5. CASE UNCHANGED vars
  <2>1. TypeOK'
    BY <1>0, <1>5 DEF TypeOK, vars
  <2>2. NothingNew
    BY <1>5, SameTable DEF NothingNew, QuietRequests, vars
  <2> QED
    BY <2>1, <2>2, NothingNewStep
<1> QED
  BY <1>1, <1>2, <1>3, <1>4, <1>5 DEF Next

THEOREM Invariance == Spec => []IInv
BY IInvInit, IInvStep, PTL DEF Spec

(***************************************************************************)
(* Every reachable state has its type.                                     *)
(***************************************************************************)
THEOREM TypeCorrect == Spec => []TypeOK
<1>1. IInv => TypeOK
  BY DEF IInv
<1> QED
  BY <1>1, Invariance, PTL

(***************************************************************************)
(* The address plan is consistent whatever requests race, fail, are        *)
(* dropped half way or find the table replaced by the backup: the UNIQUE   *)
(* columns and the guards of the UPDATE statements are enough, although no *)
(* handler opens a transaction.                                            *)
(***************************************************************************)
THEOREM AddressPlanHolds == Spec => []AddressPlan
<1>1. IInv => AddressPlan
  BY DEF IInv, AddressPlan, Plan
<1> QED
  BY <1>1, Invariance, PTL

(***************************************************************************)
(* The address a client was told at registration is its address until it   *)
(* is revoked or its row is gone.                                          *)
(***************************************************************************)
THEOREM ToldStandsHolds == Spec => []ToldStands
<1>1. IInv => ToldStands
  BY DEF IInv, ToldStands, ToldOf, Known
<1> QED
  BY <1>1, Invariance, PTL

(***************************************************************************)
(* Of two daemons that have configured one address, one has lost its row   *)
(* or has been revoked: the purge, a restored file and an administrator    *)
(* can bring that about, no race of two registrations can.                 *)
(***************************************************************************)
THEOREM ConfiguredApartHolds == Spec => []ConfiguredApart
<1>1. ASSUME AddressPlan, ToldStands PROVE ConfiguredApart
  <2> SUFFICES ASSUME NEW j \in Keys, NEW k \in Keys, j # k,
                      InForce(j), InForce(k), told[j].addr = told[k].addr
               PROVE  FALSE
    BY DEF ConfiguredApart
  <2>1. PICK d \in devices : d.id = told[j].id /\ d.status # "revoked"
    BY DEF InForce
  <2>2. PICK e \in devices : e.id = told[k].id /\ e.status # "revoked"
    BY DEF InForce
  <2>3. d.key = j /\ d.addr = told[j].addr
    BY <1>1, <2>1 DEF ToldStands, InForce
  <2>4. e.key = k /\ e.addr = told[k].addr
    BY <1>1, <2>2 DEF ToldStands, InForce
  <2>5. d = e
    BY <1>1, <2>3, <2>4 DEF AddressPlan
  <2> QED
    BY <2>3, <2>4, <2>5
<1> QED
  BY <1>1, AddressPlanHolds, ToldStandsHolds, PTL

-----------------------------------------------------------------------------
(***************************************************************************)
(* Action properties.                                                      *)
(***************************************************************************)

\* What a step may do to the rows it finds.
LEMMA RowSteps ==
  ASSUME IInv, [Next]_vars, ~Restore,
         NEW d \in devices, NEW e \in devices', d.id = e.id
  PROVE  \/ e.status = d.status
         \/ d.status = "pending" /\ e.status = "approved"
         \/ d.status = "approved" /\ e.status = "revoked"
<1> USE DEF IInv
<1>0. e \in devices => e = d
  BY DEF Plan
<1>1. ASSUME NEW h \in Handlers, RegisterInsert(h), e \notin devices PROVE FALSE
  <2>1. e = NewRow(req[h])
    BY <1>1 DEF RegisterInsert
  <2>2. e.id = req[h].id /\ Registering(h)
    BY <1>1, <2>1 DEF NewRow, RegisterInsert, Registering
  <2> QED
    BY <2>2 DEF NewIdentity, Known
<1>2. ASSUME NEW h \in Handlers, RevokeUpdate(h), e \notin devices
      PROVE  d.status = "approved" /\ e.status = "revoked"
  <2>1. PICK f \in devices : f.status = "approved" /\ e = RevokedRow(f)
    BY <1>2 DEF RevokeUpdate
  <2>2. e.id = f.id /\ e.status = "revoked"
    BY <2>1 DEF RevokedRow, TypeOK, Row
  <2> QED
    BY <2>1, <2>2 DEF Plan
<1>3. ASSUME NEW i \in Drawn, Approve(i), e \notin devices
      PROVE  d.status = "pending" /\ e.status = "approved"
  <2>1. PICK f \in devices :
          f.status = "pending" /\ e = [f EXCEPT !.status = "approved"]
    BY <1>3 DEF Approve
  <2>2. e.id = f.id /\ e.status = "approved"
    BY <2>1 DEF TypeOK, Row
  <2> QED
    BY <2>1, <2>2 DEF Plan
<1>4. ASSUME NEW i \in Drawn, Heartbeat(i), e \notin devices
      PROVE  e.status = d.status
  <2>1. PICK f \in devices : e = [f EXCEPT !.seen = now]
    BY <1>4 DEF Heartbeat
  <2>2. e.id = f.id /\ e.status = f.status
    BY <2>1 DEF TypeOK, Row
  <2> QED
    BY <2>2 DEF Plan
<1>5. CASE e \notin devices
  BY <1>1, <1>2, <1>3, <1>4, <1>5
  DEF Next, Register, RegisterFind, RegisterCount, RegisterPool, RegisterFirst,
      Revoke, RevokeRelease, Unregister, UnregisterRelease, UnregisterDelete,
      Abort, Touch, Purge,
      PurgeRelease, PurgeDelete, Backup, Crash, Tick, vars
<1> QED
  BY <1>0, <1>5

(***************************************************************************)
(* No step but a Restore turns a status back, whichever statements of      *)
(* concurrent approvals, revocations and purges it falls between.          *)
(***************************************************************************)
THEOREM StatusOnlyAdvancesHolds == Spec => StatusOnlyAdvances
<1>1. IInv /\ [Next]_vars =>
        [~Restore => \A d \in devices, e \in devices' :
           d.id = e.id => Rank(d.status) <= Rank(e.status)]_vars
  <2> SUFFICES ASSUME IInv, [Next]_vars, ~Restore,
                      NEW d \in devices, NEW e \in devices', d.id = e.id
               PROVE  Rank(d.status) <= Rank(e.status)
    OBVIOUS
  <2>1. d.status \in Status
    BY DEF IInv, TypeOK, Row
  <2>2. Rank("pending") = 0 /\ Rank("approved") = 1 /\ Rank("revoked") = 2
    BY DEF Rank
  <2>3. CASE e.status = d.status
    BY <2>1, <2>2, <2>3 DEF Status
  <2> QED
    BY <2>2, <2>3, RowSteps
<1> QED
  BY <1>1, Invariance, PTL DEF Spec, StatusOnlyAdvances

(***************************************************************************)
(* A purge never deletes an approved device: not even one that is approved *)
(* between the statement that reads the stale rows and the one that        *)
(* deletes them, because the second looks at the status again.             *)
(***************************************************************************)
THEOREM ApprovedKeptHolds == Spec => ApprovedKept
<1>1. IInv /\ [Next]_vars =>
        [\A d \in devices :
           /\ d.status = "approved"
           /\ \A e \in devices' : e.id # d.id
           => \/ Restore
              \/ \E h \in Handlers :
                   UnregisterDelete(h) /\ req[h].id = d.id]_vars
  <2> SUFFICES ASSUME IInv, [Next]_vars, ~Restore,
                      NEW d \in devices, d.status = "approved",
                      \A e \in devices' : e.id # d.id
               PROVE  \E h \in Handlers : UnregisterDelete(h) /\ req[h].id = d.id
    OBVIOUS
  <2>1. d \notin devices'
    OBVIOUS
  <2>2. ASSUME NEW h \in Handlers, RevokeUpdate(h) PROVE FALSE
    <3>1. PICK f \in devices : devices' = (devices \ {f}) \cup {RevokedRow(f)}
      BY <2>1, <2>2 DEF RevokeUpdate
    <3>2. f = d /\ RevokedRow(f).id = f.id
      BY <2>1, <3>1 DEF RevokedRow, IInv, TypeOK, Row
    <3> QED
      BY <3>1, <3>2
  <2>3. ASSUME NEW i \in Drawn, Approve(i) PROVE FALSE
    BY <2>1, <2>3 DEF Approve
  <2>4. ASSUME NEW i \in Drawn, Heartbeat(i) PROVE FALSE
    <3>1. PICK f \in devices :
            devices' = (devices \ {f}) \cup {[f EXCEPT !.seen = now]}
      BY <2>4 DEF Heartbeat
    <3>2. f = d /\ [f EXCEPT !.seen = now].id = f.id
      BY <2>1, <3>1 DEF IInv, TypeOK, Row
    <3> QED
      BY <3>1, <3>2
  <2>5. ASSUME PurgeDelete PROVE FALSE
    BY <2>1, <2>5 DEF PurgeDelete
  <2>6. ASSUME NEW h \in Handlers, RegisterInsert(h) PROVE FALSE
    BY <2>1, <2>6 DEF RegisterInsert
  <2>7. ASSUME NEW h \in Handlers, UnregisterDelete(h) PROVE req[h].id = d.id
    BY <2>1, <2>7 DEF UnregisterDelete
  <2> QED
    BY <2>1, <2>2, <2>3, <2>4, <2>5, <2>6, <2>7
    DEF Next, Register, RegisterFind, RegisterCount, RegisterPool,
        RegisterFirst, Revoke, RevokeRelease, Unregister, UnregisterRelease,
        Abort, Touch, Purge,
        PurgeRelease, Backup, Crash, Tick, vars
<1> QED
  BY <1>1, Invariance, PTL DEF Spec, ApprovedKept

(***************************************************************************)
(* A purge reads its cutoff before its first statement and uses it for     *)
(* both; the clock may go on between the two, and does not go back.        *)
(***************************************************************************)
CutoffIsPast == purger.pc = "delete" => purger.cutoff <= now - Timeout

LEMMA CutoffStep ==
  ASSUME TypeOK, CutoffIsPast, [Next]_vars
  PROVE  CutoffIsPast'
<1>1. now \in Nat /\ Timeout \in Nat /\ purger.cutoff \in Int
  BY ControlAssumption DEF TypeOK
<1>2. CASE PurgeRelease
  BY <1>1, <1>2 DEF PurgeRelease, CutoffIsPast
<1>3. CASE Tick
  BY <1>1, <1>3 DEF Tick, CutoffIsPast
<1>4. CASE PurgeDelete \/ Crash
  BY <1>4 DEF PurgeDelete, Crash, PurgerIdle, CutoffIsPast
<1>5. CASE UNCHANGED <<purger, now>>
  BY <1>5 DEF CutoffIsPast
<1> QED
  BY <1>2, <1>3, <1>4, <1>5
  DEF Next, Register, RegisterFind, RegisterCount, RegisterPool, RegisterFirst,
      RegisterInsert, Revoke, RevokeRelease, RevokeUpdate, Unregister,
      UnregisterRelease, UnregisterDelete, Abort, Touch, Approve, Heartbeat,
      Purge, Backup, Restore, vars

(***************************************************************************)
(* A purge spares a device that has been heard of within the timeout, also *)
(* when its heartbeat arrives between the two statements: the second looks *)
(* at last_seen again, against a cutoff that the clock has left behind.    *)
(***************************************************************************)
THEOREM FreshKeptHolds == Spec => FreshKept
<1>1. Init => CutoffIsPast
  BY DEF Init, PurgerIdle, CutoffIsPast
<1>2. TypeOK /\ CutoffIsPast =>
        [PurgeDelete => \A d \in devices :
           (\A e \in devices' : e.id # d.id) => d.seen < now - Timeout]_vars
  <2> SUFFICES ASSUME TypeOK, CutoffIsPast, PurgeDelete,
                      NEW d \in devices, \A e \in devices' : e.id # d.id
               PROVE  d.seen < now - Timeout
    OBVIOUS
  <2>1. d \notin devices'
    OBVIOUS
  <2>2. d \in Stale(purger.cutoff)
    BY <2>1 DEF PurgeDelete
  <2>3. d.seen \in Nat /\ purger.cutoff \in Int /\ now \in Nat /\ Timeout \in Nat
    BY ControlAssumption DEF TypeOK, Row
  <2>4. purger.cutoff <= now - Timeout
    BY DEF PurgeDelete, CutoffIsPast
  <2> QED
    BY <2>2, <2>3, <2>4 DEF Stale
<1> QED
  BY <1>1, <1>2, CutoffStep, TypeCorrect, PTL DEF Spec, FreshKept

(***************************************************************************)
(* A registration is answered only with what the table has by then: a      *)
(* request whose INSERT fails, or loses a race for the key or the address, *)
(* answers no address.                                                     *)
(***************************************************************************)
THEOREM AnswersAreStoredHolds == Spec => AnswersAreStored
<1>1. TypeOK /\ [Next]_vars =>
        [\A k \in Keys : told'[k] # told[k] =>
           \E d \in devices' : d.key = k /\ told'[k] = Answer(d)]_vars
  <2> SUFFICES ASSUME TypeOK, [Next]_vars,
                      NEW k \in Keys, told'[k] # told[k]
               PROVE  \E d \in devices' : d.key = k /\ told'[k] = Answer(d)
    OBVIOUS
  <2>1. told = [j \in Keys |-> told[j]]
    BY DEF TypeOK
  <2>2. ASSUME NEW h \in Handlers, NEW j \in Keys, RegisterFind(h, j)
        PROVE  \E d \in devices' : d.key = k /\ told'[k] = Answer(d)
    <3>1. PICK d \in devices :
            d.key = j /\ told' = [told EXCEPT ![j] = Answer(d)]
      BY <2>2 DEF RegisterFind
    <3>2. k = j /\ told'[k] = Answer(d)
      BY <2>1, <3>1
    <3>3. devices' = devices
      BY <2>2 DEF RegisterFind
    <3> QED
      BY <3>1, <3>2, <3>3
  <2>3. ASSUME NEW h \in Handlers, RegisterInsert(h)
        PROVE  \E d \in devices' : d.key = k /\ told'[k] = Answer(d)
    <3> DEFINE n == NewRow(req[h])
    <3>1. devices' = devices \cup {n} /\ told' = [told EXCEPT ![n.key] = Answer(n)]
      BY <2>3 DEF RegisterInsert
    <3> HIDE DEF n
    <3>2. n.key = k /\ told'[k] = Answer(n)
      BY <2>1, <3>1
    <3> QED
      BY <3>1, <3>2
  <2>4. ~UNCHANGED told
    OBVIOUS
  <2> QED
    BY <2>2, <2>3, <2>4
    DEF Next, Register, RegisterCount, RegisterPool, RegisterFirst, Revoke,
        RevokeRelease, RevokeUpdate, Unregister, UnregisterRelease,
        UnregisterDelete, Abort, Touch, Approve, Heartbeat, Purge, PurgeRelease,
        PurgeDelete, Backup, Restore, Crash, Tick, vars
<1> QED
  BY <1>1, TypeCorrect, PTL DEF Spec, AnswersAreStored

-----------------------------------------------------------------------------
(***************************************************************************)
(* A deployment in which nothing is given back and no statement fails.     *)
(* What keeps the pool a prefix of the offsets is that a count, once read, *)
(* never exceeds the pool: the offset it names is the next one, or one     *)
(* that another request has taken meanwhile.                               *)
(***************************************************************************)
GrowthInv ==
  /\ PoolIsPrefix
  /\ \A h \in Handlers :
       /\ req[h].pc = "pool" => req[h].num \in 0 .. Cardinality(pool)
       /\ req[h].pc \in {"first", "insert"} => req[h].num \in pool

LEMMA GrowthStep ==
  ASSUME MaxFaults = 0, IInv, GrowthInv, [GrowthNext]_vars
  PROVE  GrowthInv'
<1> USE DEF GrowthInv, PoolIsPrefix
<1>0. TypeOK /\ ~Fails /\ Cardinality(pool) \in Nat
  BY PoolCount DEF IInv, TypeOK, Fails
<1>1. CASE UNCHANGED <<pool, devices>> /\ \A h \in Handlers :
             req'[h] = req[h] \/ req'[h].pc \in {"idle", "count"}
  BY <1>1
<1>2. ASSUME NEW h \in Handlers, NEW k \in Keys, RegisterFind(h, k)
      PROVE  GrowthInv'
  <2>0. req \in [Handlers -> Request]
    BY <1>0 DEF TypeOK
  <2>1. req'[h] = req[h] \/ req'[h].pc = "count"
    <3>1. CASE req' = req
      BY <3>1
    <3>2. CASE req' = [req EXCEPT ![h] = [Idle EXCEPT !.pc = "count", !.key = k,
                                               !.id = nextId, !.seen = now]]
      <4>1. req'[h] = [Idle EXCEPT !.pc = "count", !.key = k,
                                   !.id = nextId, !.seen = now]
        BY <2>0, <3>2
      <4>2. req'[h].pc = "count"
        BY <4>1 DEF Idle
      <4> QED
        BY <4>2
    <3> QED
      BY <1>2, <3>1, <3>2 DEF RegisterFind
  <2>2. \A g \in Handlers \ {h} : req'[g] = req[g]
    BY <2>0, <1>2 DEF RegisterFind
  <2> QED
    BY <1>1, <1>2, <2>1, <2>2 DEF RegisterFind
<1>3. ASSUME NEW h \in Handlers, RegisterCount(h) PROVE GrowthInv'
  <2>1. \/ req'[h].pc = "idle"
        \/ req'[h].pc = "pool" /\ req'[h].num = Cardinality(pool)
    BY <1>0, <1>3 DEF RegisterCount, Done, Idle, TypeOK, Request
  <2>2. \A g \in Handlers \ {h} : req'[g] = req[g]
    BY <1>0, <1>3 DEF RegisterCount, Done, TypeOK
  <2> QED
    BY <1>0, <1>3, <2>1, <2>2 DEF RegisterCount
<1>4. ASSUME NEW h \in Handlers, RegisterPool(h) PROVE GrowthInv'
  <2>1. pool' = pool \cup {req[h].num} /\ devices' = devices
    BY <1>0, <1>4 DEF RegisterPool
  <2>2. req'[h].pc = "first" /\ req'[h].num = req[h].num
    BY <1>0, <1>4 DEF RegisterPool, TypeOK, Request
  <2>3. \A g \in Handlers \ {h} : req'[g] = req[g]
    BY <1>0, <1>4 DEF RegisterPool, TypeOK
  <2>4. CASE req[h].num \in pool
    <3>1. pool' = pool
      BY <2>1, <2>4
    <3> QED
      BY <2>1, <2>2, <2>3, <2>4, <3>1
  <2>5. CASE req[h].num \notin pool
    <3>1. req[h].num = Cardinality(pool)
      BY <1>0, <1>4, <2>5 DEF RegisterPool
    <3>2. IsFiniteSet(pool)
      <4>1. IsFiniteSet(Addr)
        BY FS_Interval, ControlAssumption DEF Addr
      <4> QED
        BY <1>0, <4>1, FS_Subset DEF TypeOK
    <3>3. Cardinality(pool') = Cardinality(pool) + 1
      BY <2>1, <2>5, <3>2, FS_AddElement
    <3>4. pool' = 0 .. (Cardinality(pool') - 1)
      BY <1>0, <2>1, <3>1, <3>3
    <3>5. \A g \in Handlers : req'[g].pc = "pool" =>
            req'[g].num \in 0 .. Cardinality(pool')
      BY <1>0, <2>2, <2>3, <3>3
    <3> QED
      BY <2>1, <2>2, <2>3, <3>4, <3>5
  <2> QED
    BY <2>4, <2>5
<1>5. ASSUME NEW h \in Handlers, RegisterFirst(h) PROVE GrowthInv'
  <2>1. req'[h].pc = "insert" /\ req'[h].num = req[h].num
    BY <1>0, <1>5 DEF RegisterFirst, TypeOK, Request
  <2>2. \A g \in Handlers \ {h} : req'[g] = req[g]
    BY <1>0, <1>5 DEF RegisterFirst, TypeOK
  <2> QED
    BY <1>5, <2>1, <2>2 DEF RegisterFirst
<1>6. ASSUME NEW h \in Handlers, RegisterInsert(h) PROVE GrowthInv'
  <2>1. devices' = devices \/ devices' = devices \cup {NewRow(req[h])}
    BY <1>6 DEF RegisterInsert
  <2>2. NewRow(req[h]).addr \in pool
    BY <1>6 DEF RegisterInsert, NewRow
  <2>3. req'[h].pc = "idle" /\ \A g \in Handlers \ {h} : req'[g] = req[g]
    BY <1>0, <1>6 DEF RegisterInsert, Done, Idle, TypeOK
  <2> QED
    BY <1>6, <2>1, <2>2, <2>3 DEF RegisterInsert
<1>7. ASSUME NEW h \in Handlers, Abort(h) PROVE GrowthInv'
  <2>1. req'[h].pc = "idle" /\ \A g \in Handlers \ {h} : req'[g] = req[g]
    BY <1>0, <1>7 DEF Abort, Done, Idle, TypeOK
  <2> QED
    BY <1>1, <1>7, <2>1 DEF Abort
<1>8. CASE Touch
  <2>1. \A e \in devices' : \E d \in devices : e.addr = d.addr
    BY <1>0, <1>8 DEF Touch, Approve, Heartbeat, TypeOK, Row
  <2>2. UNCHANGED <<pool, req>>
    BY <1>8 DEF Touch, Approve, Heartbeat
  <2> QED
    BY <2>1, <2>2
<1>9. CASE Crash
  <2>1. \A h \in Handlers : req'[h].pc = "idle"
    BY <1>9 DEF Crash, Idle
  <2> QED
    BY <1>1, <1>9, <2>1 DEF Crash
<1>10. CASE Tick \/ UNCHANGED vars
  BY <1>1, <1>10 DEF Tick, vars
<1> QED
  BY <1>2, <1>3, <1>4, <1>5, <1>6, <1>7, <1>8, <1>9, <1>10
  DEF GrowthNext, Register

(***************************************************************************)
(* While nothing is given back and no statement fails, the count names a   *)
(* new offset and every device's address is a row of the pool, whatever    *)
(* requests race.                                                          *)
(***************************************************************************)
THEOREM PoolIsPrefixHolds ==
  ASSUME MaxFaults = 0
  PROVE  GrowthSpec => []PoolIsPrefix
<1>1. Init => GrowthInv
  <2> SUFFICES ASSUME Init PROVE GrowthInv
    OBVIOUS
  <2>1. Cardinality(pool) = 0
    BY FS_EmptySet DEF Init
  <2>2. \A h \in Handlers : req[h].pc = "idle"
    BY DEF Init, Idle
  <2> QED
    BY <2>1, <2>2 DEF Init, GrowthInv, PoolIsPrefix
<1>2. [GrowthNext]_vars => [Next]_vars
  BY DEF GrowthNext, Next
<1>3. IInv /\ GrowthInv /\ [GrowthNext]_vars => GrowthInv'
  BY GrowthStep
<1>4. GrowthInv => PoolIsPrefix
  BY DEF GrowthInv
<1> QED
  BY <1>1, <1>2, <1>3, <1>4, IInvInit, IInvStep, PTL DEF GrowthSpec
-----------------------------------------------------------------------------
(***************************************************************************)
(* The first device.  A registration in flight that has counted the table  *)
(* is approved as long as the table is still empty, so whichever gets in   *)
(* first is; a COUNT that fails approves too, so no fault is excluded.     *)
(***************************************************************************)
FirstInv ==
  /\ FirstIsApproved
  /\ \A h \in Handlers :
       devices = {} /\ req[h].pc = "insert" => req[h].status = "approved"

LEMMA FirstStep ==
  ASSUME TypeOK, FirstInv, [GrowthNext]_vars
  PROVE  FirstInv'
<1> USE DEF FirstInv, FirstIsApproved
<1>0. req \in [Handlers -> Request] /\ devices \subseteq Row
  BY DEF TypeOK
<1>1. CASE devices' = devices /\ \A h \in Handlers :
             req'[h] = req[h] \/ req'[h].pc # "insert"
  BY <1>1
<1>2. ASSUME NEW h \in Handlers, NEW k \in Keys, RegisterFind(h, k)
      PROVE  FirstInv'
  <2>1. CASE req' = req
    BY <1>1, <1>2, <2>1 DEF RegisterFind
  <2>2. CASE req' = [req EXCEPT ![h] = [Idle EXCEPT !.pc = "count", !.key = k,
                                             !.id = nextId, !.seen = now]]
    <3>1. req'[h] = [Idle EXCEPT !.pc = "count", !.key = k,
                                 !.id = nextId, !.seen = now]
      BY <1>0, <2>2
    <3>2. req'[h].pc = "count"
      BY <3>1 DEF Idle
    <3>3. \A g \in Handlers \ {h} : req'[g] = req[g]
      BY <1>0, <2>2
    <3> QED
      BY <1>1, <1>2, <3>2, <3>3 DEF RegisterFind
  <2> QED
    BY <1>2, <2>1, <2>2 DEF RegisterFind
<1>3. ASSUME NEW h \in Handlers,
             RegisterCount(h) \/ RegisterPool(h) \/ Abort(h)
      PROVE  FirstInv'
  <2>1. req'[h].pc \in {"idle", "pool", "first"}
    BY <1>0, <1>3 DEF RegisterCount, RegisterPool, Abort, Done, Idle, Request
  <2>2. \A g \in Handlers \ {h} : req'[g] = req[g]
    BY <1>0, <1>3 DEF RegisterCount, RegisterPool, Abort, Done
  <2> QED
    BY <1>1, <1>3, <2>1, <2>2 DEF RegisterCount, RegisterPool, Abort
<1>4. ASSUME NEW h \in Handlers, RegisterFirst(h) PROVE FirstInv'
  <2>1. devices = {} => req'[h].status = "approved"
    BY <1>0, <1>4 DEF RegisterFirst, Request
  <2>2. devices' = devices /\ \A g \in Handlers \ {h} : req'[g] = req[g]
    BY <1>0, <1>4 DEF RegisterFirst
  <2> QED
    BY <2>1, <2>2
<1>5. ASSUME NEW h \in Handlers, RegisterInsert(h) PROVE FirstInv'
  <2>1. req[h].pc = "insert" /\ req'[h].pc = "idle"
    BY <1>0, <1>5 DEF RegisterInsert, Done, Idle
  <2>2. \A g \in Handlers \ {h} : req'[g] = req[g]
    BY <1>0, <1>5 DEF RegisterInsert, Done
  <2>3. CASE devices' = devices
    BY <1>1, <2>1, <2>2, <2>3
  <2>4. CASE devices' = devices \cup {NewRow(req[h])}
    <3>1. devices = {} => NewRow(req[h]).status = "approved"
      BY <2>1 DEF NewRow
    <3> QED
      BY <2>1, <2>2, <2>4, <3>1
  <2> QED
    BY <1>5, <2>3, <2>4 DEF RegisterInsert
<1>6. ASSUME NEW i \in Drawn, Approve(i) \/ Heartbeat(i) PROVE FirstInv'
  <2>1. req' = req
    BY <1>6 DEF Approve, Heartbeat
  <2>2. PICK d \in devices :
          \/ devices' = (devices \ {d}) \cup {[d EXCEPT !.status = "approved"]}
          \/ devices' = (devices \ {d}) \cup {[d EXCEPT !.seen = now]}
    BY <1>6 DEF Approve, Heartbeat
  <2>3. CASE devices' = (devices \ {d}) \cup {[d EXCEPT !.status = "approved"]}
    <3>1. [d EXCEPT !.status = "approved"].status = "approved"
      BY <1>0 DEF Row
    <3> QED
      BY <2>1, <2>3, <3>1
  <2>4. CASE devices' = (devices \ {d}) \cup {[d EXCEPT !.seen = now]}
    <3>1. [d EXCEPT !.seen = now].status = d.status
      BY <1>0 DEF Row
    <3>2. PICK f \in devices : f.status = "approved"
      BY DEF FirstIsApproved
    <3> QED
      BY <2>1, <2>4, <3>1, <3>2
  <2> QED
    BY <2>2, <2>3, <2>4
<1>7. CASE Crash
  <2>1. \A h \in Handlers : req'[h].pc = "idle"
    BY <1>7 DEF Crash, Idle
  <2> QED
    BY <1>1, <1>7, <2>1 DEF Crash
<1>8. CASE Tick \/ UNCHANGED vars
  BY <1>1, <1>8 DEF Tick, vars
<1> QED
  BY <1>2, <1>3, <1>4, <1>5, <1>6, <1>7, <1>8 DEF GrowthNext, Register, Touch

(***************************************************************************)
(* While nothing is given back, a network that has devices has an approved *)
(* one, although is_first_device counts and insert_device inserts apart.   *)
(***************************************************************************)
THEOREM FirstIsApprovedHolds == GrowthSpec => []FirstIsApproved
<1>1. Init => FirstInv
  BY DEF Init, FirstInv, FirstIsApproved, Idle
<1>2. [GrowthNext]_vars => [Next]_vars
  BY DEF GrowthNext, Next
<1>3. TypeOK /\ FirstInv /\ [GrowthNext]_vars => FirstInv'
  BY FirstStep
<1>4. FirstInv => FirstIsApproved
  BY DEF FirstInv
<1>5. IInv => TypeOK
  BY DEF IInv
<1> QED
  BY <1>1, <1>2, <1>3, <1>4, <1>5, IInvInit, IInvStep, PTL DEF GrowthSpec

-----------------------------------------------------------------------------
(***************************************************************************)
(* Control implements Registry: every statement is one step of the         *)
(* registry or changes no lease.  The proof rests on the invariant of      *)
(* Control, IInv: identities are unique in the table, so that the table    *)
(* and its leases correspond one to one, and an identity on its way into   *)
(* the table is new.                                                       *)
(***************************************************************************)
\* Rows with different identities have different leases.
LEMMA LeaseFields ==
  ASSUME NEW d
  PROVE  /\ LeaseOf(d).id = d.id
         /\ LeaseOf(d).key = d.key
         /\ LeaseOf(d).addr = d.addr
         /\ LeaseOf(d).status = d.status
BY DEF LeaseOf

LEMMA LeaseInjective ==
  ASSUME NEW T, Plan(T), NEW d \in T, NEW e \in T, LeaseOf(d) = LeaseOf(e)
  PROVE  d = e
BY LeaseFields DEF Plan

\* Taking rows out of a table takes their leases out.
LEMMA RemoveRows ==
  ASSUME NEW T, Plan(T), NEW S \in SUBSET T
  PROVE  LeasesOf(T \ S) = LeasesOf(T) \ LeasesOf(S)
BY LeaseInjective DEF LeasesOf

\* Rewriting a row rewrites its lease.
LEMMA RewriteRow ==
  ASSUME NEW T, Plan(T), NEW d \in T, NEW x
  PROVE  LeasesOf((T \ {d}) \cup {x})
           = (LeasesOf(T) \ {LeaseOf(d)}) \cup {LeaseOf(x)}
<1>1. LeasesOf(T \ {d}) = LeasesOf(T) \ LeasesOf({d})
  BY RemoveRows
<1>2. LeasesOf({d}) = {LeaseOf(d)}
  BY DEF LeasesOf
<1>3. LeasesOf((T \ {d}) \cup {x}) = LeasesOf(T \ {d}) \cup {LeaseOf(x)}
  BY DEF LeasesOf
<1> QED
  BY <1>1, <1>2, <1>3

LEMMA SameLeases ==
  ASSUME UNCHANGED <<devices, backup>>
  PROVE  UNCHANGED R!rvars
BY DEF R!rvars, LeasesOf

LEMMA InitRefines == Init => R!Init
BY DEF Init, R!Init, LeasesOf

LEMMA InsertRefines ==
  ASSUME IInv, NEW h \in Handlers, RegisterInsert(h)
  PROVE  [R!Next]_(R!rvars)
<1> DEFINE n == NewRow(req[h])
<1>1. CASE devices' = devices
  BY <1>1, SameLeases DEF RegisterInsert
<1>2. CASE devices' # devices
  <2>1. ~Conflicts(n) /\ devices' = devices \cup {n} /\ backup' = backup
    BY <1>2 DEF RegisterInsert
  <2>2. n.key \in Keys /\ n.id \in Ids /\ n.addr \in Addr
    BY DEF RegisterInsert, IInv, Registering, NewIdentity, HasOffset, NewRow
  <2>3. n.status \in {"pending", "approved"} /\ n.addr # NoAddr
    BY <2>2, ControlAssumption
    DEF IInv, TypeOK, Request, NewRow, Addr, NoAddr
  <2>4. LeaseOf(n) \in R!Lease
    BY <2>2, <2>3 DEF LeaseOf, R!Lease, Ids, Addr
  <2>5. LeasesOf(devices)' = LeasesOf(devices) \cup {LeaseOf(n)}
    BY <2>1 DEF LeasesOf
  <2>6. \A m \in LeasesOf(devices) :
          m.id # n.id /\ m.key # n.key /\ m.addr # n.addr
    BY <2>1, LeaseFields DEF LeasesOf, Conflicts
  <2> HIDE DEF n
  <2>7. R!Join(LeaseOf(n))
    BY <2>1, <2>3, <2>5, <2>6, LeaseFields DEF R!Join, LeasesOf, R!NoAddr, NoAddr
  <2> QED
    BY <2>4, <2>7 DEF R!Next
<1> QED
  BY <1>1, <1>2

LEMMA RevokeRefines ==
  ASSUME IInv, NEW h \in Handlers, RevokeUpdate(h)
  PROVE  [R!Next]_(R!rvars)
<1>1. CASE devices' = devices
  BY <1>1, SameLeases DEF RevokeUpdate
<1>2. CASE devices' # devices
  <2>1. PICK d \in devices :
          /\ d.status = "approved"
          /\ devices' = (devices \ {d}) \cup {RevokedRow(d)}
    BY <1>2 DEF RevokeUpdate
  <2> DEFINE revoked == [id |-> LeaseOf(d).id, key |-> LeaseOf(d).key,
                         addr |-> R!NoAddr, status |-> "revoked"]
  <2>2. LeaseOf(RevokedRow(d)) = revoked
    <3>1. d \in Row /\ R!NoAddr = NoAddr
      BY DEF IInv, TypeOK, R!NoAddr, NoAddr
    <3>2. /\ RevokedRow(d).id = d.id /\ RevokedRow(d).key = d.key
          /\ RevokedRow(d).addr = NoAddr /\ RevokedRow(d).status = "revoked"
      BY <3>1 DEF RevokedRow, Row
    <3> QED
      BY <3>1, <3>2 DEF LeaseOf
  <2>a. LeasesOf((devices \ {d}) \cup {RevokedRow(d)})
          = (LeasesOf(devices) \ {LeaseOf(d)}) \cup {LeaseOf(RevokedRow(d))}
    BY RewriteRow DEF IInv
  <2>3. LeasesOf(devices)' = (LeasesOf(devices) \ {LeaseOf(d)})
          \cup {revoked}
    BY <2>1, <2>2, <2>a DEF LeasesOf
  <2>4. R!Revoke(LeaseOf(d))
    BY <2>1, <2>3, LeaseFields DEF R!Revoke, RevokeUpdate, LeasesOf
  <2>5. LeaseOf(d) \in LeasesOf(devices)
    BY DEF LeasesOf
  <2> QED
    BY <2>4, <2>5 DEF R!Next
<1> QED
  BY <1>1, <1>2

LEMMA ApproveRefines ==
  ASSUME IInv, NEW i, Approve(i)
  PROVE  [R!Next]_(R!rvars)
<1>1. PICK d \in devices :
        /\ d.status = "pending"
        /\ devices' = (devices \ {d}) \cup {[d EXCEPT !.status = "approved"]}
  BY DEF Approve
<1>2. LeaseOf([d EXCEPT !.status = "approved"])
        = [LeaseOf(d) EXCEPT !.status = "approved"]
  BY DEF LeaseOf, IInv, TypeOK, Row
<1>a. LeasesOf((devices \ {d}) \cup {[d EXCEPT !.status = "approved"]})
        = (LeasesOf(devices) \ {LeaseOf(d)})
            \cup {LeaseOf([d EXCEPT !.status = "approved"])}
  BY RewriteRow DEF IInv
<1>3. LeasesOf(devices)' = (LeasesOf(devices) \ {LeaseOf(d)})
        \cup {[LeaseOf(d) EXCEPT !.status = "approved"]}
  BY <1>1, <1>2, <1>a DEF LeasesOf
<1>4. R!Approve(LeaseOf(d))
  BY <1>1, <1>3, LeaseFields DEF R!Approve, Approve, LeasesOf
<1>5. LeaseOf(d) \in LeasesOf(devices)
  BY DEF LeasesOf
<1> QED
  BY <1>4, <1>5 DEF R!Next

LEMMA HeartbeatRefines ==
  ASSUME IInv, NEW i, Heartbeat(i)
  PROVE  [R!Next]_(R!rvars)
<1>1. PICK d \in devices :
        devices' = (devices \ {d}) \cup {[d EXCEPT !.seen = now]}
  BY DEF Heartbeat
<1>2. LeaseOf([d EXCEPT !.seen = now]) = LeaseOf(d)
  BY DEF LeaseOf, IInv, TypeOK, Row
<1>3. LeasesOf(devices)' = (LeasesOf(devices) \ {LeaseOf(d)}) \cup {LeaseOf(d)}
  BY <1>1, <1>2, RewriteRow DEF IInv, LeasesOf
<1>4. LeasesOf(devices)' = LeasesOf(devices)
  BY <1>3 DEF LeasesOf
<1> QED
  BY <1>4 DEF R!rvars, Heartbeat, LeasesOf

\* Rows of which none is approved, or one row, go.
LEMMA DeleteRefines ==
  ASSUME IInv, backup' = backup, NEW S \in SUBSET devices,
         devices' = devices \ S,
         \/ \A d \in S : d.status # "approved"
         \/ \A d, e \in S : d = e
  PROVE  [R!Next]_(R!rvars)
<1>1. LeasesOf(devices)' = LeasesOf(devices) \ LeasesOf(S)
  BY RemoveRows DEF IInv, LeasesOf
<1>2. CASE \A d \in S : d.status # "approved"
  <2>1. LeasesOf(S) \in SUBSET LeasesOf(devices)
    BY DEF LeasesOf
  <2>2. R!Expire(LeasesOf(S))
    BY <1>1, <1>2, LeaseFields DEF R!Expire, LeasesOf
  <2> QED
    BY <2>1, <2>2 DEF R!Next
<1>3. CASE S = {}
  BY <1>3, SameLeases
<1>4. CASE S # {} /\ \A d, e \in S : d = e
  <2>1. PICK d \in S : S = {d}
    BY <1>4
  <2>2. LeasesOf(S) = {LeaseOf(d)} /\ LeaseOf(d) \in LeasesOf(devices)
    BY <2>1 DEF LeasesOf
  <2>3. R!Leave(LeaseOf(d))
    BY <1>1, <2>2 DEF R!Leave, LeasesOf
  <2> QED
    BY <2>2, <2>3 DEF R!Next
<1> QED
  BY <1>2, <1>3, <1>4

LEMMA UnregisterRefines ==
  ASSUME IInv, NEW h \in Handlers, UnregisterDelete(h)
  PROVE  [R!Next]_(R!rvars)
<1>1. CASE devices' = devices
  BY <1>1, SameLeases DEF UnregisterDelete
<1>2. CASE devices' # devices
  <2> DEFINE S == {d \in devices : d.id = req[h].id}
  <2>1. devices' = devices \ S /\ backup' = backup
    BY <1>2 DEF UnregisterDelete
  <2>2. \A d, e \in S : d = e
    BY DEF IInv, Plan
  <2> QED
    BY <2>1, <2>2, DeleteRefines
<1> QED
  BY <1>1, <1>2

LEMMA PurgeRefines ==
  ASSUME IInv, PurgeDelete
  PROVE  [R!Next]_(R!rvars)
<1>1. CASE devices' = devices
  BY <1>1, SameLeases DEF PurgeDelete
<1>2. CASE devices' # devices
  <2> DEFINE S == {d \in devices : d \in Stale(purger.cutoff)
                                     /\ d.status # "approved"}
  <2>1. devices' = devices \ S /\ backup' = backup
    BY <1>2 DEF PurgeDelete
  <2> QED
    BY <2>1, DeleteRefines
<1> QED
  BY <1>1, <1>2

LEMMA CopyRefines ==
  ASSUME IInv, Backup \/ Restore
  PROVE  [R!Next]_(R!rvars)
<1>1. CASE Backup
  <2>1. R!Save
    BY <1>1 DEF Backup, R!Save, LeasesOf
  <2> QED
    BY <2>1 DEF R!Next
<1>2. CASE Restore
  <2>1. R!Recover
    BY <1>2 DEF Restore, R!Recover, LeasesOf
  <2> QED
    BY <2>1 DEF R!Next
<1> QED
  BY <1>1, <1>2

LEMMA StepRefines == IInv /\ [Next]_vars => [R!Next]_(R!rvars)
<1> SUFFICES ASSUME IInv, [Next]_vars PROVE [R!Next]_(R!rvars)
  OBVIOUS
<1>1. ASSUME NEW h \in Handlers, Register(h) PROVE [R!Next]_(R!rvars)
  <2>1. CASE RegisterInsert(h)
    BY <2>1, InsertRefines
  <2>2. CASE ~RegisterInsert(h)
    BY <1>1, <2>2, SameLeases
    DEF Register, RegisterFind, RegisterCount, RegisterPool, RegisterFirst
  <2> QED
    BY <2>1, <2>2
<1>2. ASSUME NEW h \in Handlers, Revoke(h) \/ Unregister(h)
      PROVE  [R!Next]_(R!rvars)
  <2>1. CASE RevokeUpdate(h) \/ UnregisterDelete(h)
    BY <2>1, RevokeRefines, UnregisterRefines
  <2>2. CASE ~(RevokeUpdate(h) \/ UnregisterDelete(h))
    BY <1>2, <2>2, SameLeases
    DEF Revoke, Unregister, RevokeRelease, UnregisterRelease
  <2> QED
    BY <2>1, <2>2
<1>3. ASSUME NEW h \in Handlers, Abort(h)
      PROVE  [R!Next]_(R!rvars)
  BY <1>3, SameLeases DEF Abort
<1>4. CASE Touch
  BY <1>4, ApproveRefines, HeartbeatRefines DEF Touch
<1>5. CASE Purge
  <2>1. CASE PurgeDelete
    BY <2>1, PurgeRefines
  <2>2. CASE PurgeRelease
    BY <2>2, SameLeases DEF PurgeRelease
  <2> QED
    BY <1>5, <2>1, <2>2 DEF Purge
<1>6. CASE Backup \/ Restore
  BY <1>6, CopyRefines
<1>7. CASE Crash \/ Tick \/ UNCHANGED vars
  BY <1>7, SameLeases DEF Crash, Tick, vars
<1> QED
  BY <1>1, <1>2, <1>3, <1>4, <1>5, <1>6, <1>7 DEF Next

(***************************************************************************)
(* The table of devices, without its heartbeat times, behaves as the       *)
(* registry of leases, in which a request is a single step.                *)
(***************************************************************************)
THEOREM Refinement == Spec => RegistrySpec
BY InitRefines, StepRefines, Invariance, PTL DEF Spec, RegistrySpec, R!Spec
=============================================================================
