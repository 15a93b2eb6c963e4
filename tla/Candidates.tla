------------------------------ MODULE Candidates ------------------------------
(***************************************************************************)
(* The exchange of candidates: a daemon publishes the addresses that its   *)
(* last STUN discovery found (publish_candidates), the control service     *)
(* keeps them in its candidates table, one statement for each address, and *)
(* another daemon fetches them before it punches (get_peer_candidates).    *)
(*                                                                         *)
(* A daemon has one publication in flight at most: it waits for the answer *)
(* before it goes on, and probes the relays before the next one, which     *)
(* takes two seconds for each that does not echo.  A discovery binds a new *)
(* socket, so its addresses have a new port, or one that an earlier one    *)
(* had.                                                                    *)
(***************************************************************************)
EXTENDS Integers, Sequences, FiniteSets

CONSTANTS
  Devices,      \* the device ids that publish
  Addrs,        \* the addresses a discovery may find
  Gap,          \* the time from a publication to the next, at least 2 s
  MaxTime,      \* bound: the clock
  MaxFaults     \* bound: statements that fail

ASSUME CandidatesAssumption ==
  /\ Gap \in Nat \ {0}
  /\ MaxTime \in Nat /\ MaxFaults \in Nat

VARIABLES
  rows,         \* the table candidates
  todo,         \* the addresses a publication has still to store
  answered,     \* the publication was answered 200, or was not
  latest,       \* the addresses of the last publication
  ended,        \* when it was over
  fetched,      \* what the last fetch of the candidates of a device answered
  now, faults

exchange == <<rows, todo, answered, latest, ended, fetched, now, faults>>

-----------------------------------------------------------------------------
Ok == UNCHANGED faults
Fails == faults < MaxFaults /\ faults' = faults + 1

\* discover_candidates: the public address if STUN finds it, and the local one.
Found == {<<local>> : local \in Addrs}
           \cup {s \in [1 .. 2 -> Addrs] : s[1] # s[2]}

Of(d) == {r \in rows : r.dev = d}

\* Mutant: an address that is there keeps its time.
StoredOnce(d, a) ==
  IF \E r \in Of(d) : r.addr = a THEN rows
  ELSE rows \cup {[dev |-> d, addr |-> a, at |-> now]}

\* upsert_candidate: one row for a device and an address.
Stored(d, a) ==
  {r \in rows : r.dev # d \/ r.addr # a}
    \cup {[dev |-> d, addr |-> a, at |-> now]}

\* The orders in which ORDER BY updated_at DESC may give the rows of d.
Listings(d) ==
  {[i \in DOMAIN s |-> s[i].addr] :
     s \in {o \in [1 .. Cardinality(Of(d)) -> Of(d)] :
              /\ \A i, j \in DOMAIN o : i < j => o[i].at >= o[j].at
              /\ \A i, j \in DOMAIN o : o[i] = o[j] => i = j}}

CandidatesInit ==
  /\ rows = {}
  /\ todo = [d \in Devices |-> <<>>]
  /\ answered = [d \in Devices |-> TRUE]
  /\ latest = [d \in Devices |-> {}]
  /\ ended = [d \in Devices |-> -Gap]
  /\ fetched = [d \in Devices |-> <<>>]
  /\ now = 0
  /\ faults = 0

-----------------------------------------------------------------------------
Waiting(d) == todo[d] # <<>>

Publish(d, found) ==
  /\ ~Waiting(d)
  /\ now >= ended[d] + Gap
  /\ todo' = [todo EXCEPT ![d] = found]
  /\ answered' = [answered EXCEPT ![d] = FALSE]
  /\ latest' = [latest EXCEPT ![d] = {found[i] : i \in DOMAIN found}]
  /\ UNCHANGED <<rows, ended, fetched, now, faults>>

\* One turn of the loop of handle_publish_candidates: the first address that
\* cannot be stored ends it with a 500, and those before it stay.
Store(d) ==
  /\ Waiting(d)
  /\ \/ /\ rows' = Stored(d, Head(todo[d]))
        /\ todo' = [todo EXCEPT ![d] = Tail(@)]
        /\ answered' = [answered EXCEPT ![d] = Tail(todo[d]) = <<>>]
        /\ Ok
     \/ /\ todo' = [todo EXCEPT ![d] = <<>>]
        /\ UNCHANGED <<rows, answered>>
        /\ Fails
  /\ ended' = [ended EXCEPT ![d] = now]
  /\ UNCHANGED <<latest, fetched, now>>

\* The daemon or the connection goes away, and with it the handler.
Abort(d) ==
  /\ Waiting(d)
  /\ todo' = [todo EXCEPT ![d] = <<>>]
  /\ ended' = [ended EXCEPT ![d] = now]
  /\ UNCHANGED <<rows, answered, latest, fetched, now, faults>>

\* handle_get_candidates; the daemon goes on without candidates if it fails.
Fetch(d) ==
  /\ \/ (\E l \in Listings(d) : fetched' = [fetched EXCEPT ![d] = l]) /\ Ok
     \/ fetched' = [fetched EXCEPT ![d] = <<>>] /\ Fails
  /\ UNCHANGED <<rows, todo, answered, latest, ended, now>>

Tick ==
  /\ now < MaxTime
  /\ now' = now + 1
  /\ UNCHANGED <<rows, todo, answered, latest, ended, fetched, faults>>

CandidatesNext ==
  \/ \E d \in Devices : \/ \E found \in Found : Publish(d, found)
                        \/ Store(d) \/ Abort(d) \/ Fetch(d)
  \/ Tick

CandidatesSpec == CandidatesInit /\ [][CandidatesNext]_exchange

-----------------------------------------------------------------------------
(***************************************************************************)
(* After a publication that was answered 200, and until the next one, a    *)
(* peer that fetches the candidates gets all of its addresses, and gets    *)
(* one of them first: the rows of older publications come behind, also if  *)
(* some of those failed half way or named the same addresses.              *)
(***************************************************************************)
LatestFirst ==
  [][\A d \in Devices :
       Fetch(d) /\ faults' = faults /\ answered[d] /\ latest[d] # {} =>
         LET l == fetched'[d]
         IN /\ latest[d] \subseteq {l[i] : i \in DOMAIN l}
            /\ l[1] \in latest[d]]_exchange
=============================================================================
