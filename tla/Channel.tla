------------------------------- MODULE Channel -------------------------------
(***************************************************************************)
(* What relayed traffic promises, whatever the network and the relay do:   *)
(* payloads may be lost, repeated and reordered, but a client whose peer   *)
(* is b receives only what b sent to the device the client belongs to.     *)
(***************************************************************************)
EXTENDS Integers

CONSTANTS Devices, MaxSends

VARIABLES
  sent,        \* the payloads handed to RelayClient::send
  got          \* what RelayClient::recv has returned, and to whom

\* A payload: the num-th that one device sends to another.
Load == [from : Devices, to : Devices, num : 1 .. MaxSends]

Receipt(m) == [at |-> m.to, peer |-> m.from, load |-> m]

Init == sent = {} /\ got = {}

Send(m) ==
  /\ m \in Load \ sent
  /\ sent' = sent \cup {m}
  /\ UNCHANGED got

Receive(m) ==
  /\ m \in sent
  /\ got' = got \cup {Receipt(m)}
  /\ UNCHANGED sent

Next == \E m \in Load : Send(m) \/ Receive(m)

Spec == Init /\ [][Next]_<<sent, got>>
=============================================================================
