------------------------------- MODULE Control -------------------------------
(***************************************************************************)
(* The control service (services/control): the device and ip_pool tables   *)
(* in SQLite, the HTTP handlers that change them and the task that purges  *)
(* stale devices.                                                          *)
(*                                                                         *)
(* Every SQL statement commits by itself: no handler opens a transaction,  *)
(* and the connection pool lets several handlers run at once.  An action   *)
(* is therefore one statement with the code around it up to the next       *)
(* await, and the statements of the requests in flight, of the purger and  *)
(* of the operator interleave.  A statement may fail (a locked database,   *)
(* an I/O error); the code turns each failure into an outcome of its own,  *)
(* which the second disjunct of an action states.                          *)
(***************************************************************************)
EXTENDS Integers, FiniteSets

CONSTANTS
  Keys,        \* the public keys of the devices
  Handlers,    \* the requests that may be in flight at once
  MaxOffset,   \* ip_max_offset: the addresses are the offsets 0 .. MaxOffset
  Timeout,     \* stale_timeout
  MaxIds,      \* bound: device ids drawn in a behaviour
  MaxTime,     \* bound: the clock
  MaxFaults    \* bound: statements that fail

ASSUME ControlAssumption ==
  /\ MaxOffset \in Nat
  /\ Timeout \in Nat
  /\ MaxIds \in Nat
  /\ MaxTime \in Nat
  /\ MaxFaults \in Nat

VARIABLES
  devices,     \* the table of devices, a set of rows
  pool,        \* the table ip_pool: every row it ever has is allocated
  req,         \* the request each handler is working on
  purger,      \* the purge task, between its two statements or not
  now,         \* unix_now
  nextId,      \* the device ids below it have been drawn (Uuid::new_v4)
  faults,      \* the statements that have failed so far
  told,        \* what the last successful registration of a key answered
  backup       \* the backup file

vars == <<devices, pool, req, purger, now, nextId, faults, told, backup>>

-----------------------------------------------------------------------------
NoAddr == -1                     \* the '' that a revocation writes to ipv4
Addr == 0 .. MaxOffset
Status == {"pending", "approved", "revoked"}

Ids == 1 .. MaxIds

Row == [id : Ids, key : Keys, addr : Addr \cup {NoAddr},
        status : Status, seen : Nat]

NoKey == "no key"
NoAnswer == [id |-> 0, addr |-> NoAddr, status |-> "none"]

\* num is the count that the handler read, then the offset it works with.
Idle == [pc |-> "idle", key |-> NoKey, id |-> 0, num |-> 0,
         status |-> "pending", seen |-> 0]

Request == [pc : {"idle", "count", "pool", "first", "insert",
                  "revoke", "unregister"},
            key : Keys \cup {NoKey}, id : Ids \cup {0}, num : Nat,
            status : {"pending", "approved"}, seen : Nat]

PurgerIdle == [pc |-> "idle", cutoff |-> 0]

\* SELECT ipv4 ... WHERE device_id = ?
AddrOf(i) == {d.addr : d \in {e \in devices : e.id = i}}

\* Mutant of Stale: a device heard of exactly at the cutoff is stale too.
StaleFromCutoff(cutoff) == {d \in devices : d.seen <= cutoff}

\* The rows the purge selects, last_seen < cutoff.
Stale(cutoff) == {d \in devices : d.seen < cutoff}

\* The status a row is answered with, next to its id and address.
Answer(d) == [id |-> d.id, addr |-> d.addr, status |-> d.status]

\* A statement that succeeds, and one that fails.
Ok == UNCHANGED faults
Fails == faults < MaxFaults /\ faults' = faults + 1

Done(h) == req' = [req EXCEPT ![h] = Idle]

Init ==
  /\ devices = {}
  /\ pool = {}
  /\ req = [h \in Handlers |-> Idle]
  /\ purger = PurgerIdle
  /\ now = 0
  /\ nextId = 1
  /\ faults = 0
  /\ told = [k \in Keys |-> NoAnswer]
  /\ backup = [taken |-> FALSE, devices |-> {}, pool |-> {}]

-----------------------------------------------------------------------------
(***************************************************************************)
(* POST /register.  find_by_public_key answers a key it knows; a failing   *)
(* SELECT reads as "not found".  A new request draws its id and its time.  *)
(***************************************************************************)
RegisterFind(h, k) ==
  /\ req[h].pc = "idle"
  /\ \/ /\ \E d \in devices :
             d.key = k /\ told' = [told EXCEPT ![k] = Answer(d)]
        /\ Ok
        /\ UNCHANGED <<req, nextId>>
     \/ /\ nextId <= MaxIds
        /\ \/ (\A d \in devices : d.key # k) /\ Ok
           \/ Fails
        /\ req' = [req EXCEPT ![h] = [Idle EXCEPT !.pc = "count", !.key = k,
                                                  !.id = nextId, !.seen = now]]
        /\ nextId' = nextId + 1
        /\ UNCHANGED told
  /\ UNCHANGED <<devices, pool, purger, now, backup>>

\* Mutant: the offsets are counted from 1, the limit is not moved.
RegisterCountFromOne(h) ==
  /\ req[h].pc = "count"
  /\ Cardinality(pool) <= MaxOffset
  /\ req' = [req EXCEPT ![h].pc = "pool", ![h].num = Cardinality(pool) + 1]
  /\ UNCHANGED <<devices, pool, purger, now, nextId, faults, told, backup>>

\* allocate_ip, SELECT COUNT: the next offset is the number of pool rows; a full
\* pool answers 409, a failing COUNT reads as 0.  The SELECT of a row with
\* allocated = 0 before it finds none: no statement of the service writes 0.
RegisterCount(h) ==
  /\ req[h].pc = "count"
  /\ \/ /\ Cardinality(pool) <= MaxOffset
        /\ req' = [req EXCEPT ![h].pc = "pool", ![h].num = Cardinality(pool)]
        /\ Ok
     \/ /\ Cardinality(pool) > MaxOffset
        /\ Done(h)
        /\ Ok
     \/ /\ Fails
        /\ req' = [req EXCEPT ![h].pc = "pool", ![h].num = 0]
  /\ UNCHANGED <<devices, pool, purger, now, nextId, told, backup>>

\* Mutant: the offset is handed out and never recorded.
RegisterPoolUnrecorded(h) ==
  /\ req[h].pc = "pool"
  /\ req' = [req EXCEPT ![h].pc = "first"]
  /\ UNCHANGED <<devices, pool, purger, now, nextId, faults, told, backup>>

\* allocate_ip, INSERT INTO ip_pool: an offset that is there already, or a
\* statement that fails, is ignored (.ok()), and the offset is used anyway.
RegisterPool(h) ==
  /\ req[h].pc = "pool"
  /\ \/ pool' = pool \cup {req[h].num} /\ Ok
     \/ UNCHANGED pool /\ Fails
  /\ req' = [req EXCEPT ![h].pc = "first"]
  /\ UNCHANGED <<devices, purger, now, nextId, told, backup>>

\* Mutant: the first device is the one that finds an empty pool.
RegisterFirstByPool(h) ==
  /\ req[h].pc = "first"
  /\ req' = [req EXCEPT ![h].pc = "insert",
                 ![h].status = IF pool \subseteq {req[h].num} THEN "approved"
                                                              ELSE "pending"]
  /\ UNCHANGED <<devices, pool, purger, now, nextId, faults, told, backup>>

\* is_first_device: an empty table approves the device; a failing COUNT reads
\* as 0 and approves it too.
RegisterFirst(h) ==
  /\ req[h].pc = "first"
  /\ \/ /\ req' = [req EXCEPT ![h].pc = "insert",
                     ![h].status = IF devices = {} THEN "approved"
                                                   ELSE "pending"]
        /\ Ok
     \/ /\ req' = [req EXCEPT ![h].pc = "insert", ![h].status = "approved"]
        /\ Fails
  /\ UNCHANGED <<devices, pool, purger, now, nextId, told, backup>>

NewRow(r) == [id |-> r.id, key |-> r.key, addr |-> r.num,
              status |-> r.status, seen |-> r.seen]

\* Mutant: ipv4 is not UNIQUE.
ConflictsKeyOnly(d) == \E e \in devices : e.id = d.id \/ e.key = d.key

\* The UNIQUE and PRIMARY KEY constraints of the devices table.
Conflicts(d) ==
  \E e \in devices : e.id = d.id \/ e.key = d.key \/ e.addr = d.addr

\* Mutant: the client is answered before the INSERT is known to have worked.
RegisterInsertEager(h) ==
  /\ req[h].pc = "insert"
  /\ LET d == NewRow(req[h])
     IN /\ told' = [told EXCEPT ![d.key] = Answer(d)]
        /\ IF Conflicts(d) THEN UNCHANGED devices
                           ELSE devices' = devices \cup {d}
  /\ Done(h)
  /\ UNCHANGED <<pool, purger, now, nextId, faults, backup>>

\* insert_device: a duplicate key or address, or a failure, answers 500 and
\* leaves the pool row behind.  The client may be gone before the answer.
RegisterInsert(h) ==
  /\ req[h].pc = "insert"
  /\ LET d == NewRow(req[h])
     IN \/ /\ ~Conflicts(d)
           /\ devices' = devices \cup {d}
           /\ told' = [told EXCEPT ![d.key] = Answer(d)] \/ UNCHANGED told
           /\ Ok
        \/ /\ Conflicts(d)
           /\ UNCHANGED <<devices, told>>
           /\ Ok
        \/ /\ Fails
           /\ UNCHANGED <<devices, told>>
  /\ Done(h)
  /\ UNCHANGED <<pool, purger, now, nextId, backup>>

-----------------------------------------------------------------------------
(***************************************************************************)
(* PUT /register/{id}/revoke: the pool row first, whatever the status of   *)
(* the device, then the device, if it is approved.  ipv4 is UNIQUE and ''  *)
(* is a value like any other, so the UPDATE fails while another row has '' *)
(* and the handler answers revoked = false.                                *)
(***************************************************************************)
RevokeRelease(h, i) ==
  /\ req[h].pc = "idle"
  /\ \/ /\ pool' = pool \ AddrOf(i)
        /\ req' = [req EXCEPT ![h] = [Idle EXCEPT !.pc = "revoke", !.id = i]]
        /\ Ok
     \/ Fails /\ UNCHANGED <<pool, req>>
  /\ UNCHANGED <<devices, purger, now, nextId, told, backup>>

\* Mutant: the address is taken away, the status stays.
RevokedRowAddressOnly(d) == [d EXCEPT !.addr = NoAddr]

RevokedRow(d) == [d EXCEPT !.status = "revoked", !.addr = NoAddr]

\* Mutant: a device is revoked whatever its status.
RevokeUpdateAnyStatus(h) ==
  /\ req[h].pc = "revoke"
  /\ \E d \in devices :
       /\ d.id = req[h].id
       /\ devices' = (devices \ {d}) \cup {RevokedRow(d)}
  /\ Done(h)
  /\ UNCHANGED <<pool, purger, now, nextId, faults, told, backup>>

RevokeUpdate(h) ==
  /\ req[h].pc = "revoke"
  /\ \/ /\ \E d \in devices :
             /\ d.id = req[h].id
             /\ d.status = "approved"
             /\ \A e \in devices : e.addr # NoAddr
             /\ devices' = (devices \ {d}) \cup {RevokedRow(d)}
        /\ Ok
     \/ /\ \/ \E e \in devices : e.addr = NoAddr
           \/ \A d \in devices : d.id = req[h].id => d.status # "approved"
        /\ UNCHANGED devices
        /\ Ok
     \/ Fails /\ UNCHANGED devices
  /\ Done(h)
  /\ UNCHANGED <<pool, purger, now, nextId, told, backup>>

(***************************************************************************)
(* DELETE /register/{id}: the pool row, then the device.                   *)
(***************************************************************************)
UnregisterRelease(h, i) ==
  /\ req[h].pc = "idle"
  /\ \/ /\ pool' = pool \ AddrOf(i)
        /\ req' = [req EXCEPT ![h] = [Idle EXCEPT !.pc = "unregister",
                                                  !.id = i]]
        /\ Ok
     \/ Fails /\ UNCHANGED <<pool, req>>
  /\ UNCHANGED <<devices, purger, now, nextId, told, backup>>

UnregisterDelete(h) ==
  /\ req[h].pc = "unregister"
  /\ \/ devices' = {d \in devices : d.id # req[h].id} /\ Ok
     \/ Fails /\ UNCHANGED devices
  /\ Done(h)
  /\ UNCHANGED <<pool, purger, now, nextId, told, backup>>

\* Mutant: a device is approved whatever its status.
ApproveAnyStatus(i) ==
  /\ \E d \in devices :
       /\ d.id = i
       /\ devices' = (devices \ {d}) \cup {[d EXCEPT !.status = "approved"]}
  /\ UNCHANGED <<pool, req, purger, now, nextId, faults, told, backup>>

\* PUT /register/{id}/approve and POST /heartbeat are one UPDATE each; one
\* that fails changes nothing.
Approve(i) ==
  /\ \E d \in devices :
       /\ d.id = i
       /\ d.status = "pending"
       /\ devices' = (devices \ {d}) \cup {[d EXCEPT !.status = "approved"]}
  /\ UNCHANGED <<pool, req, purger, now, nextId, faults, told, backup>>

Heartbeat(i) ==
  /\ \E d \in devices :
       /\ d.id = i
       /\ devices' = (devices \ {d}) \cup {[d EXCEPT !.seen = now]}
  /\ UNCHANGED <<pool, req, purger, now, nextId, faults, told, backup>>

-----------------------------------------------------------------------------
(***************************************************************************)
(* The purge task, every 60 seconds.  One cutoff serves both statements:   *)
(* the first takes the addresses of all stale devices out of the pool, the *)
(* second deletes those that are not approved.                             *)
(***************************************************************************)
PurgeRelease ==
  /\ purger.pc = "idle"
  /\ LET cutoff == now - Timeout
     IN \/ /\ pool' = pool \ {d.addr : d \in Stale(cutoff)}
           /\ purger' = [pc |-> "delete", cutoff |-> cutoff]
           /\ Ok
        \/ Fails /\ UNCHANGED <<pool, purger>>
  /\ UNCHANGED <<devices, req, now, nextId, told, backup>>

\* Mutant: the status is not looked at again.
PurgeDeleteAll ==
  /\ purger.pc = "delete"
  /\ devices' = devices \ Stale(purger.cutoff)
  /\ purger' = PurgerIdle
  /\ UNCHANGED <<pool, req, now, nextId, faults, told, backup>>

\* Mutant: the revoked devices are kept with the approved ones.
PurgeDeletePending ==
  /\ purger.pc = "delete"
  /\ devices' = {d \in devices : ~(/\ d \in Stale(purger.cutoff)
                                   /\ d.status = "pending")}
  /\ purger' = PurgerIdle
  /\ UNCHANGED <<pool, req, now, nextId, faults, told, backup>>

PurgeDelete ==
  /\ purger.pc = "delete"
  /\ \/ /\ devices' = {d \in devices : ~(/\ d \in Stale(purger.cutoff)
                                         /\ d.status # "approved")}
        /\ Ok
     \/ Fails /\ UNCHANGED devices
  /\ purger' = PurgerIdle
  /\ UNCHANGED <<pool, req, now, nextId, told, backup>>

\* POST /backup and POST /restore copy the database file.  A copy is one step
\* here: no statement commits while the file is being copied.
Backup ==
  /\ backup' = [taken |-> TRUE, devices |-> devices, pool |-> pool]
  /\ UNCHANGED <<devices, pool, req, purger, now, nextId, faults, told>>

Restore ==
  /\ backup.taken
  /\ devices' = backup.devices
  /\ pool' = backup.pool
  /\ UNCHANGED <<req, purger, now, nextId, faults, told, backup>>

\* A client that goes away drops its handler at the next await; a crash drops
\* them all and the purge with them.  The tables and the backup are on disk.
Abort(h) ==
  /\ req[h].pc # "idle"
  /\ Done(h)
  /\ UNCHANGED <<devices, pool, purger, now, nextId, faults, told, backup>>

Crash ==
  /\ req' = [h \in Handlers |-> Idle]
  /\ purger' = PurgerIdle
  /\ UNCHANGED <<devices, pool, now, nextId, faults, told, backup>>

Tick ==
  /\ now < MaxTime
  /\ now' = now + 1
  /\ UNCHANGED <<devices, pool, req, purger, nextId, faults, told, backup>>

-----------------------------------------------------------------------------
Drawn == 1 .. (nextId - 1)

Register(h) ==
  \/ \E k \in Keys : RegisterFind(h, k)
  \/ RegisterCount(h)
  \/ RegisterPool(h)
  \/ RegisterFirst(h)
  \/ RegisterInsert(h)

Revoke(h) == (\E i \in Drawn : RevokeRelease(h, i)) \/ RevokeUpdate(h)
Unregister(h) == (\E i \in Drawn : UnregisterRelease(h, i)) \/ UnregisterDelete(h)
Purge == PurgeRelease \/ PurgeDelete
Touch == \E i \in Drawn : Approve(i) \/ Heartbeat(i)

Next ==
  \/ \E h \in Handlers : Register(h) \/ Revoke(h) \/ Unregister(h) \/ Abort(h)
  \/ Touch
  \/ Purge
  \/ Backup \/ Restore
  \/ Crash
  \/ Tick

Spec == Init /\ [][Next]_vars

(***************************************************************************)
(* Restricted deployments, to state what holds only there.  In the first   *)
(* nothing gives an address back.                                          *)
(***************************************************************************)
GrowthNext ==
  \/ \E h \in Handlers : Register(h) \/ Abort(h)
  \/ Touch
  \/ Crash
  \/ Tick

GrowthSpec == Init /\ [][GrowthNext]_vars

(***************************************************************************)
(* In the second, moreover, every request in flight is served (tokio polls *)
(* every handler that is ready) and a client without a registration starts *)
(* another one: systemd restarts the daemon, which registers before        *)
(* anything else.                                                          *)
(***************************************************************************)
ServingNext ==
  \/ \E h \in Handlers : Register(h)
  \/ Touch

Unregistered(k) == \A d \in devices : d.key # k

Retry(k) == Unregistered(k) /\ \E h \in Handlers : RegisterFind(h, k)

Serve(h) ==
  RegisterCount(h) \/ RegisterPool(h) \/ RegisterFirst(h) \/ RegisterInsert(h)

ServingSpec ==
  /\ Init
  /\ [][ServingNext]_vars
  /\ \A h \in Handlers : WF_vars(Serve(h))
  /\ \A k \in Keys : SF_vars(Retry(k))

\* Requests, one at a time if there is one handler, and no purge.
OneByOneNext ==
  \/ \E h \in Handlers : Register(h) \/ Revoke(h) \/ Unregister(h)
  \/ Touch

OneByOneSpec == Init /\ [][OneByOneNext]_vars

\* The last has a purge task whose timer fires again and again, a clock
\* that runs, and clients and operators that do as they like.
PurgingNext ==
  \/ \E h \in Handlers : Register(h) \/ Revoke(h)
  \/ Touch
  \/ Purge
  \/ Tick

PurgingSpec ==
  /\ Init
  /\ [][PurgingNext]_vars
  /\ WF_vars(PurgeRelease)
  /\ WF_vars(PurgeDelete)
  /\ WF_vars(Tick)

-----------------------------------------------------------------------------
TypeOK ==
  /\ devices \subseteq Row
  /\ pool \subseteq Addr
  /\ req \in [Handlers -> Request]
  /\ purger \in [pc : {"idle", "delete"}, cutoff : Int]
  /\ now \in Nat
  /\ nextId \in 1 .. (MaxIds + 1)
  /\ faults \in Nat
  /\ told \in [Keys -> [id : Ids \cup {0}, addr : Addr \cup {NoAddr},
                        status : Status \cup {"none"}]]
  /\ backup \in [taken : BOOLEAN, devices : SUBSET Row, pool : SUBSET Addr]

(***************************************************************************)
(* No two devices share a key, an identity or an address, and a device     *)
(* that may use the network has an address to use: whatever requests race, *)
(* fail half way or restore an old file, the UNIQUE columns and the guards *)
(* of revoke_device and insert_device keep the address plan consistent.    *)
(***************************************************************************)
AddressPlan ==
  /\ \A d, e \in devices :
       d.id = e.id \/ d.key = e.key \/ d.addr = e.addr => d = e
  /\ \A d \in devices : d.addr = NoAddr <=> d.status = "revoked"

(***************************************************************************)
(* An address that a registration answered stays the device's address for  *)
(* as long as its row is there and not revoked: the daemon configures its  *)
(* interface once, from that answer, and never asks again.                 *)
(***************************************************************************)
ToldStands ==
  \A k \in Keys, d \in devices :
    d.id = told[k].id =>
      /\ d.key = k
      /\ d.status # "revoked" /\ told[k].status # "revoked"
           => d.addr = told[k].addr

(***************************************************************************)
(* Two daemons have configured one address only if the row of one of them  *)
(* has been deleted, lost with a restored file or revoked since it was     *)
(* answered.  A daemon in that position does not find out: it ignores what *)
(* its heartbeats are answered (daemon main.rs:562).                       *)
(***************************************************************************)
InForce(k) ==
  /\ told[k].status # "revoked"
  /\ \E d \in devices : d.id = told[k].id /\ d.status # "revoked"

ConfiguredApart ==
  \A j, k \in Keys :
    j # k /\ InForce(j) /\ InForce(k) => told[j].addr # told[k].addr

(***************************************************************************)
(* A registration is answered only with what is in the table: a request    *)
(* whose INSERT failed or lost a race is not told that it has an address.  *)
(***************************************************************************)
AnswersAreStored ==
  [][\A k \in Keys : told'[k] # told[k] =>
       \E d \in devices' : d.key = k /\ told'[k] = Answer(d)]_vars

(***************************************************************************)
(* A device never goes back: an approval that races a revocation does not  *)
(* undo it, and nothing but a restored file turns a status back.           *)
(***************************************************************************)
Rank(s) == CASE s = "pending" -> 0 [] s = "approved" -> 1 [] s = "revoked" -> 2

StatusOnlyAdvances ==
  [][~Restore => \A d \in devices, e \in devices' :
       d.id = e.id => Rank(d.status) <= Rank(e.status)]_vars

(***************************************************************************)
(* purge_stale keeps approved devices (db.rs:336), also one that is        *)
(* approved between its two statements: an approved device goes away only  *)
(* when someone unregisters it or restores a file.                         *)
(***************************************************************************)
ApprovedKept ==
  [][\A d \in devices :
       /\ d.status = "approved"
       /\ \A e \in devices' : e.id # d.id
       => \/ Restore
          \/ \E h \in Handlers : UnregisterDelete(h) /\ req[h].id = d.id]_vars

(***************************************************************************)
(* A device that has been heard of within the timeout survives a purge,    *)
(* even when its heartbeat arrives after the purge has begun.              *)
(***************************************************************************)
FreshKept ==
  [][PurgeDelete => \A d \in devices :
       (\A e \in devices' : e.id # d.id) => d.seen < now - Timeout]_vars

(***************************************************************************)
(* While nothing is given back, the COUNT of allocate_ip is a new offset:   *)
(* the pool is the first so many offsets, whatever requests race, and      *)
(* every device's address is in it.                                        *)
(***************************************************************************)
PoolIsPrefix ==
  /\ pool = 0 .. (Cardinality(pool) - 1)
  /\ \A d \in devices : d.addr \in pool

(***************************************************************************)
(* While nothing is given back, a network that has devices has an approved *)
(* one.  The COUNT of is_first_device and the INSERT are apart: of several *)
(* registrations that find the table empty more than one may be approved,  *)
(* but whoever gets in first is.                                           *)
(***************************************************************************)
FirstIsApproved ==
  devices # {} => \E d \in devices : d.status = "approved"

(***************************************************************************)
(* While nothing is given back, every client that keeps trying ends up     *)
(* registered: two that were given the same offset do not block each       *)
(* other, because the one that loses counts again.                         *)
(***************************************************************************)
EveryClientRegisters == \A k \in Keys : <>(~Unregistered(k))

(***************************************************************************)
(* A device that is not approved and falls silent is purged: its row does  *)
(* not keep a last_seen that the clock has left behind.                    *)
(***************************************************************************)
SilentArePurged ==
  \A i \in 1 .. MaxIds, t \in 0 .. (MaxTime - Timeout - 1) :
    (\E d \in devices : d.id = i /\ d.seen = t /\ d.status # "approved")
      ~> ~(\E d \in devices : d.id = i /\ d.seen = t /\ d.status # "approved")

(***************************************************************************)
(* What a comment of the service says, and the code does not always do     *)
(* (the README names the schedule that shows it).                          *)
(***************************************************************************)

\* db.rs:363: allocate_ip returns an address that is available, or None.
AllocatesAvailable ==
  \A h \in Handlers, d \in devices :
    req[h].pc = "first" => d.addr # req[h].num

(***************************************************************************)
(* The table refines the registry of leases: a row without its last_seen.  *)
(***************************************************************************)
LeaseOf(d) == [id |-> d.id, key |-> d.key, addr |-> d.addr,
               status |-> d.status]
LeasesOf(table) == {LeaseOf(d) : d \in table}

R == INSTANCE Registry WITH leases <- LeasesOf(devices),
                            saved <- LeasesOf(backup.devices)

RegistrySpec == R!Spec
=============================================================================
