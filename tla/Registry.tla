------------------------------ MODULE Registry ------------------------------
(***************************************************************************)
(* What the control service promises of its device table, whatever the     *)
(* number of requests in flight: every lease binds one key to one address  *)
(* and one identity, it moves through its statuses forward only, and it    *)
(* disappears in one step.  Control implements this specification; here a  *)
(* request is one step and neither the address pool, nor the heartbeat     *)
(* times, nor the statements of a handler can be seen.                     *)
(***************************************************************************)
EXTENDS Integers

CONSTANTS
  Keys,        \* the public keys of the devices
  MaxIds,      \* the identities are 1 .. MaxIds
  MaxOffset    \* the addresses are the offsets 0 .. MaxOffset from the base

VARIABLES
  leases,      \* the leases in force
  saved        \* the leases of the last backup, {} before the first one

rvars == <<leases, saved>>

NoAddr == -1   \* the empty ipv4 column of a revoked device

Lease == [id : 1 .. MaxIds, key : Keys,
          addr : (0 .. MaxOffset) \cup {NoAddr},
          status : {"pending", "approved", "revoked"}]

(***************************************************************************)
(* A device joins with an identity, a key and an address nobody holds.     *)
(***************************************************************************)
Join(l) ==
  /\ l.status \in {"pending", "approved"}
  /\ l.addr # NoAddr
  /\ \A m \in leases : m.id # l.id /\ m.key # l.key /\ m.addr # l.addr
  /\ leases' = leases \cup {l}
  /\ UNCHANGED saved

Approve(l) ==
  /\ l.status = "pending"
  /\ leases' = (leases \ {l}) \cup {[l EXCEPT !.status = "approved"]}
  /\ UNCHANGED saved

\* A revoked lease is kept but gives its address up.
Revoke(l) ==
  /\ l.status = "approved"
  /\ leases' = (leases \ {l})
                 \cup {[id |-> l.id, key |-> l.key, addr |-> NoAddr,
                        status |-> "revoked"]}
  /\ UNCHANGED saved

Leave(l) ==
  /\ leases' = leases \ {l}
  /\ UNCHANGED saved

\* Leases that are not approved may expire, several of them together.
Expire(S) ==
  /\ \A l \in S : l.status # "approved"
  /\ leases' = leases \ S
  /\ UNCHANGED saved

Save == saved' = leases /\ UNCHANGED leases

Recover == leases' = saved /\ UNCHANGED saved

Init == leases = {} /\ saved = {}

Next ==
  \/ \E l \in Lease : Join(l)
  \/ \E l \in leases : Approve(l) \/ Revoke(l) \/ Leave(l)
  \/ \E S \in SUBSET leases : Expire(S)
  \/ Save
  \/ Recover

Spec == Init /\ [][Next]_rvars
=============================================================================
