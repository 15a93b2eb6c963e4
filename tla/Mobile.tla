------------------------------- MODULE Mobile -------------------------------
(***************************************************************************)
(* The tunnel engine of the phones (apps/mobile/engine.rs) next to the     *)
(* control service, which is the Registry that Control implements: the     *)
(* engine learns its peers from the approved leases, routes packets by     *)
(* their virtual address and queues them after a reconnection that failed. *)
(*                                                                         *)
(* Every entry point takes the lock of the global ENGINE and holds it to   *)
(* its end, across its awaits: a call is one step, and a packet never      *)
(* meets a reconnection that is under way, only one that has failed.       *)
(***************************************************************************)
EXTENDS Integers, Sequences, FiniteSets

CONSTANTS
  Keys, MaxIds, MaxOffset,   \* the parameters of the Registry
  MaxQueued,                 \* MAX_QUEUED_PACKETS: 256
  MaxOutgoing                \* bound: packets that the phone sends

ASSUME MobileAssumption ==
  /\ MaxIds \in Nat /\ MaxOffset \in Nat
  /\ MaxQueued \in Nat /\ MaxOutgoing \in Nat

VARIABLES
  leases,      \* the leases of the control service
  saved,       \* the leases of its backup
  running,     \* ENGINE holds an engine
  self,        \* our_id and our_ip
  peers,       \* the map from device ids to virtual addresses
  state,       \* ConnState
  queue,       \* outbound_queue
  next,        \* the number of the next packet
  accepted,    \* the packets whose send answered Ok
  forwarded,   \* the packets handed to a relay client, in order
  lost         \* the packets dropped after an Ok

phone == <<running, self, peers, state, queue, next, accepted, forwarded, lost>>
driving == <<leases, saved, phone>>

G == INSTANCE Registry

-----------------------------------------------------------------------------
DeviceIds == 1 .. MaxIds
Addr == 0 .. MaxOffset
Peer == [id : DeviceIds, vip : Addr]
NoPeer == [id |-> 0, vip |-> G!NoAddr]
Outbound == [num : 1 .. MaxOutgoing, dst : Addr]
Hop == [num : 1 .. MaxOutgoing, dst : Addr, to : DeviceIds \cup {0}]

Nums(packets) == {packets[i].num : i \in DOMAIN packets}

\* GET /peers, without the engine's own entry.
Listed == {[id |-> l.id, vip |-> l.addr] :
             l \in {m \in leases : m.status = "approved" /\ m.id # self.id}}

\* The peers a packet may go to: the engine takes the first that its HashMap
\* yields.  0 stands for none: there is no route, or the relay client fails.
Routes(known, dst) == {p.id : p \in {q \in known : q.vip = dst}} \cup {0}

HopOf(p, to) == [num |-> p.num, dst |-> p.dst, to |-> to]

\* The ways to pick some of n packets without changing their order.
Picks(n) ==
  UNION {{s \in [1 .. m -> 1 .. n] : \A i, j \in 1 .. m : i < j => s[i] < s[j]} :
           m \in 0 .. n}

\* The picked packets of the queue, each with the peer it goes to.
Flushed(pick, to) ==
  [i \in DOMAIN pick |-> HopOf(queue[pick[i]], to[i])]

MobileInit ==
  /\ G!Init
  /\ running = FALSE
  /\ self = NoPeer
  /\ peers = {}
  /\ state = "connected"
  /\ queue = <<>>
  /\ next = 1
  /\ accepted = {}
  /\ forwarded = <<>>
  /\ lost = {}

-----------------------------------------------------------------------------
(***************************************************************************)
(* engine_init: new, then sync_peers, then the engine replaces the one in  *)
(* ENGINE, with its queue.  The registration has answered lease l; a peer  *)
(* whose relay client cannot be made is left out.  An init that fails      *)
(* changes nothing.                                                        *)
(***************************************************************************)
EngineInit(l) ==
  /\ l.addr # G!NoAddr
  /\ running' = TRUE
  /\ self' = [id |-> l.id, vip |-> l.addr]
  /\ peers' \in SUBSET {[id |-> m.id, vip |-> m.addr] :
                          m \in {n \in leases : /\ n.status = "approved"
                                                /\ n.id # l.id}}
  /\ state' = "connected"
  /\ queue' = <<>>
  /\ lost' = lost \cup Nums(queue)
  /\ UNCHANGED <<leases, saved, next, accepted, forwarded>>

\* HashMap::insert of the peers whose relay client could be made.
Overlay(renewed) ==
  {p \in peers : \A q \in renewed : q.id # p.id} \cup renewed

\* Mutant: the queue is flushed and not drained.
ReconnectKeepsQueue ==
  /\ running
  /\ \E renewed \in SUBSET Listed :
     \E pick \in Picks(Len(queue)) : \E to \in [DOMAIN pick -> DeviceIds] :
       /\ \A i \in DOMAIN pick :
            to[i] \in Routes(Overlay(renewed), queue[pick[i]].dst)
       /\ peers' = Overlay(renewed)
       /\ forwarded' = forwarded \o Flushed(pick, to)
  /\ state' = "connected"
  /\ UNCHANGED <<leases, saved, running, self, queue, next, accepted, lost>>

\* reconnect: the peers are fetched and renewed, none is removed; then the
\* queue is drained, and a packet that cannot be sent is dropped.
Reconnect ==
  /\ running
  /\ \E renewed \in SUBSET Listed :
     \E pick \in Picks(Len(queue)) : \E to \in [DOMAIN pick -> DeviceIds] :
       /\ \A i \in DOMAIN pick :
            to[i] \in Routes(Overlay(renewed), queue[pick[i]].dst)
       /\ peers' = Overlay(renewed)
       /\ forwarded' = forwarded \o Flushed(pick, to)
       /\ lost' = lost \cup {queue[i].num :
                              i \in DOMAIN queue \ {pick[j] : j \in DOMAIN pick}}
  /\ state' = "connected"
  /\ queue' = <<>>
  /\ UNCHANGED <<leases, saved, running, self, next, accepted>>

\* reconnect, when the peers cannot be fetched: the state stays Reconnecting.
ReconnectFails ==
  /\ running
  /\ state' = "reconnecting"
  /\ UNCHANGED <<leases, saved, running, self, peers, queue, next, accepted,
                 forwarded, lost>>

-----------------------------------------------------------------------------
\* engine_send_packet, to another address than the phone's own.
Outgoing(p) ==
  /\ running
  /\ next <= MaxOutgoing
  /\ p.num = next
  /\ p.dst # self.vip
  /\ next' = next + 1

\* Connected: to a peer that has the address, or an error for the caller.
SendNow(p) ==
  /\ Outgoing(p)
  /\ state = "connected"
  /\ \E to \in Routes(peers, p.dst) :
       \/ /\ to # 0
          /\ forwarded' = Append(forwarded, HopOf(p, to))
          /\ accepted' = accepted \cup {p.num}
       \/ /\ to = 0
          /\ UNCHANGED <<forwarded, accepted>>
  /\ UNCHANGED <<leases, saved, running, self, peers, state, queue, lost>>

\* Mutant: the newest packet goes first.
SendLaterFront(p) ==
  /\ Outgoing(p)
  /\ state = "reconnecting"
  /\ Len(queue) < MaxQueued
  /\ queue' = <<p>> \o queue
  /\ accepted' = accepted \cup {p.num}
  /\ UNCHANGED <<leases, saved, running, self, peers, state, forwarded, lost>>

\* Reconnecting: queued while there is room, then dropped; Ok either way.
SendLater(p) ==
  /\ Outgoing(p)
  /\ state = "reconnecting"
  /\ \/ /\ Len(queue) < MaxQueued
        /\ queue' = Append(queue, p)
        /\ UNCHANGED lost
     \/ /\ Len(queue) >= MaxQueued
        /\ lost' = lost \cup {p.num}
        /\ UNCHANGED queue
  /\ accepted' = accepted \cup {p.num}
  /\ UNCHANGED <<leases, saved, running, self, peers, state, forwarded>>

\* The control service at work; the phone does not look.
Control ==
  /\ \/ \E l \in G!Lease : G!Join(l)
     \/ \E l \in leases : G!Approve(l) \/ G!Revoke(l) \/ G!Leave(l)
  /\ UNCHANGED phone

MobileNext ==
  \/ \E l \in leases : EngineInit(l)
  \/ Reconnect
  \/ ReconnectFails
  \/ \E p \in Outbound : SendNow(p) \/ SendLater(p)
  \/ Control

MobileSpec == MobileInit /\ [][MobileNext]_driving

-----------------------------------------------------------------------------
(***************************************************************************)
(* A packet that was answered Ok is in one place: with the relay, in the   *)
(* queue, or lost; nothing is sent twice, queued after it was sent, or     *)
(* forgotten, however reconnections fail and engines are replaced; and the *)
(* queue does not grow beyond its limit.                                   *)
(***************************************************************************)
Accounted ==
  /\ accepted = Nums(forwarded) \cup Nums(queue) \cup lost
  /\ Nums(forwarded) \cap (Nums(queue) \cup lost) = {}
  /\ Nums(queue) \cap lost = {}
  /\ Len(forwarded) = Cardinality(Nums(forwarded))
  /\ Len(queue) <= MaxQueued

(***************************************************************************)
(* The packets leave in the order in which the phone sent them: what was   *)
(* queued goes before what is sent after the reconnection.                 *)
(***************************************************************************)
InOrder ==
  LET all == forwarded \o queue
  IN \A i, j \in DOMAIN all : i < j => all[i].num < all[j].num

(***************************************************************************)
(* engine.rs:386, "automatically routing to the correct peer": a packet    *)
(* that is flushed after a reconnection goes to no other peer than the one *)
(* that has its destination in the list just fetched, if the phone has a   *)
(* relay client for that one.                                              *)
(***************************************************************************)
ToTheHolder ==
  [][\A i \in DOMAIN forwarded' \ DOMAIN forwarded :
       state = "reconnecting" =>
         \A p \in Listed \cap peers' :
           p.vip = forwarded'[i].dst => p.id = forwarded'[i].to]_driving
=============================================================================
