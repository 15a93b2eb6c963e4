-------------------------------- MODULE Relay --------------------------------
(***************************************************************************)
(* The relay (services/relay), the relay clients of the devices            *)
(* (crates/tunnel/relay.rs, with the frames of crates/relay-proto) and the *)
(* loop of the daemon that makes a new client for every peer in each of    *)
(* its rounds (connect_peers and the swap in apps/daemon).                 *)
(*                                                                         *)
(* Frames travel over UDP: they may be lost, repeated and reordered.  The  *)
(* relay keeps one address for each device id, in memory only.  A client   *)
(* owns one socket and talks to one peer through one relay; all the        *)
(* clients of a device say HELLO under the same id.  There may be several  *)
(* relays: the pool of the daemon or a load balancer picks one of them for *)
(* a client, and the relays do not talk to each other.                     *)
(***************************************************************************)
EXTENDS Integers, FiniteSets

CONSTANTS
  Devices,     \* the device ids, PeerId
  Ports,       \* the UDP ports of a device, reused when a socket is closed
  Relays,      \* the relay processes
  Reliable,    \* TRUE: nothing is lost and nothing is repeated
  MaxSends,    \* bound: payloads from one device to another
  MaxFlight    \* bound: frames in flight

ASSUME RelayAssumption ==
  /\ Reliable \in BOOLEAN
  /\ MaxSends \in Nat
  /\ MaxFlight \in Nat

VARIABLES
  table,       \* the peers maps of the relays: a set of entries
  socks,       \* the open sockets of the devices
  round,       \* round[a]: the round of device a, or its absence
  up,          \* the frames on their way to the relay
  down,        \* the frames on their way from the relay
  sent,        \* the payloads handed to RelayClient::send
  got          \* what RelayClient::recv has returned

vars == <<table, socks, round, up, down, sent, got>>

-----------------------------------------------------------------------------
Address == [dev : Devices, port : Ports]
Entry == [relay : Relays, id : Devices, addr : Address]

\* A RelayClient, made in the present round or in use.
Socket == [addr : Address, peer : Devices, relay : Relays,
           use : {"fresh", "link"}]

\* todo: the peers that connect_peers has still to register.
Round == [on : BOOLEAN, todo : SUBSET Devices]
NoRound == [on |-> FALSE, todo |-> {}]

\* A payload is opaque to the relay and to recv: they look at the header only.
Load == [from : Devices, to : Devices, num : 1 .. MaxSends]

\* HELLO and KEEPALIVE carry no payload and a target that nobody reads.
Greeting == [kind : {"hello", "keepalive"}, relay : Relays, src : Address,
             sender : Devices]
Data == [kind : {"data"}, relay : Relays, src : Address, sender : Devices,
         target : Devices, load : Load]
Forwarded == [dst : Address, sender : Devices, target : Devices, load : Load]

InUse(a) == {s \in socks : s.addr.dev = a /\ s.use = "link"}
Fresh(a) == {s \in socks : s.addr.dev = a /\ s.use = "fresh"}

\* Mutants of Insert: an entry is added, not replaced; the first one stays.
InsertMore(r, id, addr) ==
  table \cup {[relay |-> r, id |-> id, addr |-> addr]}

InsertOnce(r, id, addr) ==
  IF \E e \in table : e.relay = r /\ e.id = id
  THEN table ELSE InsertMore(r, id, addr)

\* HashMap::insert in relay r.
Insert(r, id, addr) ==
  {e \in table : e.relay # r \/ e.id # id}
    \cup {[relay |-> r, id |-> id, addr |-> addr]}

\* What may be left of the frames in flight when f is delivered.
Rest(frames, f) ==
  IF Reliable THEN {frames \ {f}} ELSE {frames, frames \ {f}}

Room == Cardinality(up) + Cardinality(down) < MaxFlight

Init ==
  /\ table = {}
  /\ socks = {}
  /\ round = [a \in Devices |-> NoRound]
  /\ up = {}
  /\ down = {}
  /\ sent = {}
  /\ got = {}

-----------------------------------------------------------------------------
(***************************************************************************)
(* A round of device a: the control service lists the peers, a client is   *)
(* made for each of them, and when all are there they replace the clients  *)
(* in use, whose sockets are closed.  An error on the way (a socket, an    *)
(* address that does not parse) drops the clients made so far; the old     *)
(* ones stay in use, but the relay has heard the HELLOs of the new ones.   *)
(***************************************************************************)
StartRound(a) ==
  /\ ~round[a].on
  /\ round' = [round EXCEPT ![a] = [on |-> TRUE, todo |-> Devices \ {a}]]
  /\ UNCHANGED <<table, socks, up, down, sent, got>>

\* RelayClient::register: a new socket, and one HELLO from it.
RegisterClient(a, b, r, p) ==
  /\ b \in round[a].todo
  /\ \A s \in socks : s.addr # [dev |-> a, port |-> p]
  /\ Room
  /\ LET addr == [dev |-> a, port |-> p]
     IN /\ socks' = socks \cup {[addr |-> addr, peer |-> b, relay |-> r,
                                 use |-> "fresh"]}
        /\ up' = up \cup {[kind |-> "hello", relay |-> r, src |-> addr,
                           sender |-> a]}
  /\ round' = [round EXCEPT ![a].todo = @ \ {b}]
  /\ UNCHANGED <<table, down, sent, got>>

RoundFails(a) ==
  /\ round[a].todo # {}
  /\ socks' = socks \ Fresh(a)
  /\ round' = [round EXCEPT ![a] = NoRound]
  /\ UNCHANGED <<table, up, down, sent, got>>

Swap(a) ==
  /\ round[a].on
  /\ round[a].todo = {}
  /\ socks' = (socks \ (InUse(a) \cup Fresh(a)))
                \cup {[s EXCEPT !.use = "link"] : s \in Fresh(a)}
  /\ round' = [round EXCEPT ![a] = NoRound]
  /\ UNCHANGED <<table, up, down, sent, got>>

\* RelayClient::send, on the client in use for the peer.
Send(a, b) ==
  /\ Room
  /\ \E s \in InUse(a), m \in Load \ sent :
       /\ s.peer = b
       /\ m.from = a /\ m.to = b
       /\ up' = up \cup {[kind |-> "data", relay |-> s.relay, src |-> s.addr,
                          sender |-> a, target |-> b, load |-> m]}
       /\ sent' = sent \cup {m}
  /\ UNCHANGED <<table, socks, round, down, got>>

\* RelayClient::keepalive.
Keepalive(a) ==
  /\ Room
  /\ \E s \in InUse(a) :
       up' = up \cup {[kind |-> "keepalive", relay |-> s.relay,
                       src |-> s.addr, sender |-> a]}
  /\ UNCHANGED <<table, socks, round, down, sent, got>>

-----------------------------------------------------------------------------
(***************************************************************************)
(* The loop of the relay.  A HELLO or a KEEPALIVE records where it came    *)
(* from, in place of the address its id had; DATA goes to the address of   *)
(* its target, or nowhere.                                                 *)
(***************************************************************************)
RelayGreeting(f) ==
  /\ f \in up
  /\ f.kind \in {"hello", "keepalive"}
  /\ table' = Insert(f.relay, f.sender, f.src)
  /\ up' \in Rest(up, f)
  /\ UNCHANGED <<socks, round, down, sent, got>>

\* The frame goes to the address that the relay has for the target, if any.
RelayData(f) ==
  /\ f \in up
  /\ f.kind = "data"
  /\ \/ \E e \in table :
          /\ e.relay = f.relay
          /\ e.id = f.target
          /\ down' = down \cup {[dst |-> e.addr, sender |-> f.sender,
                                 target |-> f.target, load |-> f.load]}
     \/ /\ \A e \in table : e.relay = f.relay => e.id # f.target
        /\ UNCHANGED down
  /\ up' \in Rest(up, f)
  /\ UNCHANGED <<table, socks, round, sent, got>>

\* The table is gone after a restart; an error of send_to ends the process too.
RelayRestart(r) ==
  /\ table' = {e \in table : e.relay # r}
  /\ UNCHANGED <<socks, round, up, down, sent, got>>

\* Mutant: recv takes whatever arrives for a frame of its peer.
ReceiveAny(f) ==
  /\ f \in down
  /\ \E s \in socks :
       /\ s.addr = f.dst
       /\ got' = got \cup {[at |-> s.addr.dev, peer |-> s.peer,
                            load |-> f.load]}
  /\ down' \in Rest(down, f)
  /\ UNCHANGED <<table, socks, round, up, sent>>

\* RelayClient::recv looks at the sender, not at the target.  A frame of
\* somebody else, and one whose socket is closed, is dropped.
Receive(f) ==
  /\ f \in down
  /\ \/ \E s \in socks :
          /\ s.addr = f.dst
          /\ s.peer = f.sender
          /\ got' = got \cup {[at |-> s.addr.dev, peer |-> s.peer,
                               load |-> f.load]}
     \/ /\ \A s \in socks : s.addr = f.dst => s.peer # f.sender
        /\ UNCHANGED got
  /\ down' \in Rest(down, f)
  /\ UNCHANGED <<table, socks, round, up, sent>>

Lose(f) ==
  /\ ~Reliable
  /\ \/ f \in up /\ up' = up \ {f} /\ UNCHANGED down
     \/ f \in down /\ down' = down \ {f} /\ UNCHANGED up
  /\ UNCHANGED <<table, socks, round, sent, got>>

-----------------------------------------------------------------------------
Register(a) ==
  \E b \in Devices, r \in Relays, p \in Ports : RegisterClient(a, b, r, p)

Device(a) ==
  \/ StartRound(a) \/ Register(a) \/ RoundFails(a) \/ Swap(a)
  \/ \E b \in Devices : Send(a, b)
  \/ Keepalive(a)

Network ==
  \/ \E f \in up : RelayGreeting(f) \/ RelayData(f) \/ Lose(f)
  \/ \E f \in down : Receive(f) \/ Lose(f)

Restart == \E r \in Relays : RelayRestart(r)

Next == (\E a \in Devices : Device(a)) \/ Network \/ Restart

Spec == Init /\ [][Next]_vars

(***************************************************************************)
(* As the tests of crates/tunnel set it up: each device makes a client for *)
(* every other one, once, and the payloads are sent when the relay has     *)
(* heard every HELLO.                                                      *)
(***************************************************************************)
AllHeard ==
  /\ up \cap Greeting = {}
  /\ \A a \in Devices : InUse(a) # {}

OnceNext ==
  \/ \E a \in Devices : \/ InUse(a) = {} /\ StartRound(a)
                        \/ Register(a)
                        \/ Swap(a)
                        \/ AllHeard /\ \E b \in Devices : Send(a, b)
  \/ Network

OnceSpec == Init /\ [][OnceNext]_vars

\* All of Next, with one payload in all: what becomes of one does not depend on
\* the others, and the instances with three devices stay small.
OnePayloadNext ==
  \/ \E a \in Devices : \/ StartRound(a) \/ Register(a) \/ RoundFails(a) \/ Swap(a)
                        \/ sent = {} /\ \E b \in Devices : Send(a, b)
                        \/ Keepalive(a)
  \/ Network
  \/ Restart

OnePayloadSpec == Init /\ [][OnePayloadNext]_vars

(***************************************************************************)
(* Devices that go on with their rounds, 30 seconds apart: by then the     *)
(* frames of the last round are not in flight any more.  Frames may be     *)
(* lost and sockets may fail, but not every time.                          *)
(***************************************************************************)
Settled(a) == \A f \in up : f.src.dev # a

HearHello(addr) ==
  \E f \in up : f.kind = "hello" /\ f.src = addr /\ RelayGreeting(f)

RoundsNext ==
  \/ \E a \in Devices : \/ Settled(a) /\ StartRound(a)
                        \/ Register(a) \/ RoundFails(a) \/ Swap(a)
  \/ Network
  \/ Restart

RoundsSpec ==
  /\ Init
  /\ [][RoundsNext]_vars
  /\ \A a \in Devices : /\ WF_vars(Settled(a) /\ StartRound(a))
                        /\ SF_vars(Register(a))
                        /\ WF_vars(Swap(a))
  /\ \A addr \in Address : SF_vars(HearHello(addr))

-----------------------------------------------------------------------------
TypeOK ==
  /\ table \subseteq Entry
  /\ socks \subseteq Socket
  /\ round \in [Devices -> Round]
  /\ up \subseteq Greeting \cup Data
  /\ down \subseteq Forwarded
  /\ sent \subseteq Load
  /\ got \subseteq [at : Devices, peer : Devices, load : Load]

(***************************************************************************)
(* recv returns only what the peer of the client sent to the device of the *)
(* client, although it does not look at the target of a frame: ports are   *)
(* reused for other peers, the relay's table is stale, frames of an older  *)
(* round arrive late, and still no payload ends up with the wrong device   *)
(* or under the wrong name.                                                *)
(***************************************************************************)
Attributed ==
  \A g \in got : g.load \in sent /\ g.load.to = g.at /\ g.load.from = g.peer

(***************************************************************************)
(* A relay keeps one address for an id, and it is one of the device's     *)
(* own: a repeated or late HELLO can make the entry stale, never foreign.  *)
(***************************************************************************)
OneOwnAddress ==
  /\ \A e \in table : e.addr.dev = e.id
  /\ \A d, e \in table : d.relay = e.relay /\ d.id = e.id => d = e

(***************************************************************************)
(* Whatever has been lost, and however often the relay has restarted, when *)
(* it stays up a device becomes reachable again: the address that the      *)
(* relay has for it is, again and again, the socket of a client in use.    *)
(* The rounds are all that heals a lost HELLO or an empty table; nothing   *)
(* acknowledges a HELLO.                                                   *)
(***************************************************************************)
Reachable(a) ==
  \E e \in table, s \in InUse(a) :
    e.relay = s.relay /\ e.id = a /\ e.addr = s.addr

ReachableAgain ==
  <>[][~Restart]_vars => \A a \in Devices : []<>Reachable(a)

(***************************************************************************)
(* The devices reach each other (tests/e2e_interop.rs:113, with three       *)
(* devices, and docs/ops/operations.md:256, with several relays).  When     *)
(* nothing is in flight any more, every payload has been received.         *)
(***************************************************************************)
Interop ==
  up = {} /\ down = {} =>
    \A m \in sent : [at |-> m.to, peer |-> m.from, load |-> m] \in got

C == INSTANCE Channel

ChannelSpec == C!Spec
=============================================================================
