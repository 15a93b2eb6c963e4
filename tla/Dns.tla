-------------------------------- MODULE Dns --------------------------------
(***************************************************************************)
(* The names of the devices: the list that the control service answers     *)
(* (list_dns_records) and the resolver that a daemon may run over it       *)
(* (apps/daemon/dns.rs).  No code of the repository starts the resolver;   *)
(* whoever does fetches the list, updates the records, and serves: a query *)
(* changes nothing.  serve takes the resolver, so that no update follows.  *)
(*                                                                         *)
(* A name is its sequence of labels.                                       *)
(***************************************************************************)
EXTENDS Integers, Sequences, FiniteSets

CONSTANTS
  Named,       \* the devices
  Hostnames,   \* the names they register with; <<>> is the empty one
  Vips,        \* the virtual addresses
  Names,       \* the names that are asked for
  Lower        \* to_lowercase: from labels to labels

Suffix == "connectalso"
NotText == "not text"      \* bytes that are not UTF-8

NoAddr == 0                \* no answer

\* Hostnames are text, and text stays text when it is lowered.
ASSUME DnsAssumption ==
  /\ Hostnames \cup Names \subseteq Seq(DOMAIN Lower)
  /\ \A label \in DOMAIN Lower :
       /\ Lower[label] \in DOMAIN Lower /\ Lower[Lower[label]] = Lower[label]
       /\ Lower[label] = NotText <=> label = NotText
  /\ \A host \in Hostnames : \A i \in DOMAIN host : host[i] # NotText
  /\ NoAddr \notin Vips

VARIABLES
  devices,     \* hostname, address and approval of the registered devices
  listed,      \* what update_records was given last
  records      \* the records of the resolver

naming == <<devices, listed, records>>

-----------------------------------------------------------------------------
Lowered(name) == [i \in DOMAIN name |-> Lower[name[i]]]

\* A query after its header.  Its name ends in an empty label, in a pointer, or
\* in a label that is longer than what is left; tail bytes follow.
Query == [questions : {0, 1}, labels : Names, stop : {"end", "pointer", "cut"},
          tail : {0, 4}]

\* list_dns_records: no order is asked for.
DnsRecords ==
  {[host |-> devices[i].host, addr |-> devices[i].addr] :
     i \in {j \in DOMAIN devices : devices[j].approved /\ devices[j].host # <<>>}}

DnsInit ==
  /\ devices = <<>>
  /\ listed = {}
  /\ records = <<>>

(***************************************************************************)
(* The devices, as Control has them: no two with one address.              *)
(***************************************************************************)
Register(i, host, addr) ==
  /\ i \notin DOMAIN devices
  /\ \A j \in DOMAIN devices : devices[j].addr # addr
  /\ devices' = [j \in DOMAIN devices \cup {i} |->
                   IF j = i THEN [host |-> host, addr |-> addr, approved |-> FALSE]
                   ELSE devices[j]]

Approve(i) == devices' = [devices EXCEPT ![i].approved = TRUE]

Leave(i) == devices' = [j \in DOMAIN devices \ {i} |-> devices[j]]

Devices ==
  /\ \/ \E i \in Named, host \in Hostnames, addr \in Vips : Register(i, host, addr)
     \/ \E i \in DOMAIN devices : Approve(i) \/ Leave(i)
  /\ UNCHANGED <<listed, records>>

\* What records may be after the insertions: of equal names the last one wins.
Inserted(old, list) ==
  LET names == {Lowered(l.host) : l \in list}
  IN {[n \in DOMAIN old \cup names |-> IF n \in names THEN new[n] ELSE old[n]] :
        new \in {f \in [names -> {l.addr : l \in list}] :
                   \A n \in names :
                     \E l \in list : Lowered(l.host) = n /\ f[n] = l.addr}}

\* Mutant: the old records are not cleared.
UpdateRecordsMore ==
  /\ listed' = DnsRecords
  /\ records' \in Inserted(records, DnsRecords)
  /\ UNCHANGED devices

\* update_records, with what handle_dns_records has answered.
UpdateRecords ==
  /\ listed' = DnsRecords
  /\ records' \in Inserted(<<>>, DnsRecords)
  /\ UNCHANGED devices

DnsNext == Devices \/ UpdateRecords

DnsSpec == DnsInit /\ [][DnsNext]_naming

-----------------------------------------------------------------------------
\* strip_suffix(".connectalso"), once.
Stripped(name) ==
  IF Len(name) > 1 /\ name[Len(name)] = Suffix
  THEN SubSeq(name, 1, Len(name) - 1) ELSE name

\* handle_query: the address that it answers, if any.
HandleQuery(q) ==
  LET name == Stripped(Lowered(q.labels))
  IN IF /\ q.questions > 0
        /\ \A i \in DOMAIN q.labels : q.labels[i] # NotText
        /\ q.tail >= 4
        /\ name \in DOMAIN records
     THEN records[name] ELSE NoAddr

-----------------------------------------------------------------------------
\* q asks for the device l: by its name alone, or within .connectalso, and in
\* whichever case.
Asks(q, l) ==
  Lowered(q.labels) \in {Lowered(l.host), Lowered(l.host) \o <<Suffix>>}

(***************************************************************************)
(* A query that ends as it should is answered with the address of a device *)
(* of the last list that it asks for, never with one of an older list; and *)
(* it is answered if it asks for one, unless the name of that device       *)
(* already ends in .connectalso.                                           *)
(***************************************************************************)
AnswersItsName ==
  \A q \in {query \in Query : query.stop = "end"} :
    /\ HandleQuery(q) # NoAddr =>
         \E l \in listed : Asks(q, l) /\ l.addr = HandleQuery(q)
    /\ q.questions > 0 /\ q.tail >= 4 =>
         \A l \in listed :
           Asks(q, l) /\ Stripped(Lowered(l.host)) = Lowered(l.host)
             => HandleQuery(q) # NoAddr
=============================================================================
