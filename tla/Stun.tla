-------------------------------- MODULE Stun --------------------------------
(***************************************************************************)
(* STUN: the server (services/stun) and the clients of the daemons         *)
(* (crates/nat/stun.rs, discover).  A client asks which public address its *)
(* socket has, and reads the answer from the first datagram that comes.    *)
(*                                                                         *)
(* The network loses, repeats and delays datagrams.  A client binds a new  *)
(* socket for every discovery (discover_candidates, NatDetector::detect,   *)
(* check_stun); ports come back, and with them datagrams that were sent to *)
(* the socket that had the port before.  A NAT maps a socket to a public   *)
(* address, until it forgets the mapping and makes another.                *)
(***************************************************************************)
EXTENDS Integers, Sequences, FiniteSets

CONSTANTS
  Clients,      \* the devices
  Ports,        \* the local ports of a device
  Publics,      \* the public addresses the NATs hand out, as numbers
  IPv6,         \* those of them that are IPv6 addresses
  Mask(_),      \* an address, XORed with the bits of the magic cookie
  Extras,       \* what other STUN servers put before the address: the lengths
                \* of attributes, each a sequence
  MaxTx,        \* bound: discoveries
  MaxFlight     \* bound: datagrams in flight

ASSUME StunAssumption ==
  /\ Publics \subseteq Nat /\ IPv6 \subseteq Publics
  /\ \A public \in Publics : Mask(Mask(public)) = public
  /\ Extras \subseteq Seq(Nat)
  /\ MaxTx \in Nat /\ MaxFlight \in Nat

VARIABLES
  sock,         \* the discovery of each client, or its absence
  map,          \* the public address of each port of a client
  nextTx,       \* the transaction ids below it have been drawn
  up, down,     \* the datagrams to the server and to the clients
  seen,         \* the public address that the server saw in each transaction
  result        \* what the last discover of each client returned

discovery == <<sock, map, nextTx, up, down, seen, result>>

-----------------------------------------------------------------------------
Tx == 1 .. MaxTx
NoSock == [port |-> 0, tx |-> 0]
Error == -1

Asking(c) == sock[c].tx # 0

(***************************************************************************)
(* The messages.  An attribute has a type, a length in bytes, a family and *)
(* a masked value; the server's answer has one, a longer one for IPv6.     *)
(***************************************************************************)
\* build_xor_mapped_v4 and _v6.
Mapped(public) ==
  [type |-> "xor mapped", len |-> IF public \in IPv6 THEN 20 ELSE 8,
   family |-> IF public \in IPv6 THEN 2 ELSE 1, value |-> Mask(public)]

OtherAttribute(len) == [type |-> "other", len |-> len, family |-> 0, value |-> 0]

\* Where each of a row of parts ends, and the row begins, by the parts' lengths.
Ends(lengths) ==
  LET end[i \in {0} \cup DOMAIN lengths] ==
        IF i = 0 THEN 0 ELSE end[i - 1] + lengths[i]
  IN end

\* The bytes an attribute takes, a multiple of 4, and those of a sequence.
Bytes(attr) == 4 + 4 * ((attr.len + 3) \div 4)
Size(attrs) == Ends([i \in DOMAIN attrs |-> Bytes(attrs[i])])[Len(attrs)]

\* Mutant: an attribute is never followed by the next one at once.
PaddingAlways(len) == 4 - (len % 4)

\* How far the parser moves on beyond an attribute.
Padding(len) == (4 - (len % 4)) % 4

\* parse_xor_mapped_address, on attributes of which size bytes have come: the
\* first of its type that is long enough and complete; of another family, it
\* ends the search.
ParseXorMapped(attrs, size) ==
  LET begin == Ends([i \in DOMAIN attrs |-> 4 + attrs[i].len + Padding(attrs[i].len)])
      fitting == {i \in DOMAIN attrs : /\ attrs[i].type = "xor mapped"
                                       /\ attrs[i].len >= 8
                                       /\ begin[i - 1] + 4 + attrs[i].len <= size}
  IN IF fitting = {} THEN Error
     ELSE LET first == attrs[CHOOSE i \in fitting : \A j \in fitting : i <= j]
          IN IF first.family = 1 THEN Mask(first.value) ELSE Error

\* Mutant: the transaction of an answer is not looked at.
ReadAnyTx(r, tx) == ParseXorMapped(r.attrs, r.size)

\* discover, from the datagram to its result.
Read(r, tx) == IF r.tx = tx THEN ParseXorMapped(r.attrs, r.size) ELSE Error

Rest(frames, f) == {frames, frames \ {f}}
Room == Cardinality(up) + Cardinality(down) < MaxFlight

\* No two sockets share a public address.
Distinct(m) ==
  \A c, d \in Clients, p, q \in Ports :
    m[c][p] = m[d][q] => c = d /\ p = q

StunInit ==
  /\ sock = [c \in Clients |-> NoSock]
  /\ map \in [Clients -> [Ports -> Publics]]
  /\ Distinct(map)
  /\ nextTx = 1
  /\ up = {} /\ down = {}
  /\ seen = [t \in Tx |-> Error]
  /\ result = [c \in Clients |-> [tx |-> 0, addr |-> Error]]

-----------------------------------------------------------------------------
\* bind and discover: one datagram, which is not sent again.
Discover(c, p) ==
  /\ ~Asking(c)
  /\ nextTx <= MaxTx
  /\ Room
  /\ sock' = [sock EXCEPT ![c] = [port |-> p, tx |-> nextTx]]
  /\ up' = up \cup {[src |-> map[c][p], tx |-> nextTx]}
  /\ nextTx' = nextTx + 1
  /\ UNCHANGED <<map, down, seen, result>>

\* The process ends, or the diagnostics request is cancelled.
GiveUp(c) ==
  /\ Asking(c)
  /\ sock' = [sock EXCEPT ![c] = NoSock]
  /\ UNCHANGED <<map, nextTx, up, down, seen, result>>

\* handle_binding_request, and the answer of another server, which may say more
\* before the address and may be cut off at the end.
Serve(f, attrs, size) ==
  /\ f \in up
  /\ up' \in Rest(up, f)
  /\ down' = down \cup {[dst |-> f.src, tx |-> f.tx, attrs |-> attrs,
                         size |-> size]}
  /\ seen' = [seen EXCEPT ![f.tx] = f.src]
  /\ UNCHANGED <<sock, map, nextTx, result>>

BindingSuccess(f) == Serve(f, <<Mapped(f.src)>>, Size(<<Mapped(f.src)>>))

OtherServer(f) ==
  \E lens \in Extras, cut \in {0, 4} :
    LET attrs == [i \in DOMAIN lens |-> OtherAttribute(lens[i])] \o <<Mapped(f.src)>>
    IN Serve(f, attrs, Size(attrs) - cut)

\* A datagram comes to the socket whose public address it is for.
Receive(c, r) ==
  /\ r \in down
  /\ Asking(c)
  /\ map[c][sock[c].port] = r.dst
  /\ result' = [result EXCEPT ![c] = [tx |-> sock[c].tx,
                                      addr |-> Read(r, sock[c].tx)]]
  /\ sock' = [sock EXCEPT ![c] = NoSock]
  /\ down' \in Rest(down, r)
  /\ UNCHANGED <<map, nextTx, up, seen>>

\* Somebody else's datagram ends the discovery too: it is not a STUN answer.
ReceiveStray(c) ==
  /\ Asking(c)
  /\ result' = [result EXCEPT ![c] = [tx |-> sock[c].tx, addr |-> Error]]
  /\ sock' = [sock EXCEPT ![c] = NoSock]
  /\ UNCHANGED <<map, nextTx, up, down, seen>>

Vanish(f) ==
  /\ \/ f \in up /\ up' = up \ {f} /\ UNCHANGED down
     \/ f \in down /\ down' = down \ {f} /\ UNCHANGED up
  /\ UNCHANGED <<sock, map, nextTx, seen, result>>

\* A NAT forgets a mapping and makes another one.
Rebind(c, p, public) ==
  /\ \A d \in Clients, q \in Ports : map[d][q] # public
  /\ map' = [map EXCEPT ![c][p] = public]
  /\ UNCHANGED <<sock, nextTx, up, down, seen, result>>

StunNext ==
  \/ \E c \in Clients : \/ \E p \in Ports : Discover(c, p)
                        \/ GiveUp(c) \/ ReceiveStray(c)
                        \/ \E r \in down : Receive(c, r)
  \/ \E f \in up : BindingSuccess(f) \/ OtherServer(f)
  \/ \E f \in up \cup down : Vanish(f)
  \/ \E c \in Clients, p \in Ports, public \in Publics : Rebind(c, p, public)

StunSpec == StunInit /\ [][StunNext]_discovery

-----------------------------------------------------------------------------
(***************************************************************************)
(* An address that discover returns is the one that the server saw its own *)
(* request come from: not that of an older discovery from the same port,   *)
(* nor of a client that had the public address before, however datagrams   *)
(* are repeated and delayed.                                               *)
(***************************************************************************)
OwnAddress ==
  \A c \in Clients :
    result[c].addr # Error => result[c].addr = seen[result[c].tx]

(***************************************************************************)
(* A complete answer for an IPv4 address is read, whatever other           *)
(* attributes it has before the address.                                   *)
(***************************************************************************)
CompleteIsRead ==
  [][\A c \in Clients, r \in down :
       /\ Receive(c, r)
       /\ r.tx = sock[c].tx
       /\ r.size = Size(r.attrs)
       /\ r.dst \notin IPv6
       => result'[c].addr = r.dst]_discovery
=============================================================================
