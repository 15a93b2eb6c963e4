------------------------------- MODULE MCRelay -------------------------------
(***************************************************************************)
(* Instances of Relay for TLC: no device, port or relay is named.          *)
(***************************************************************************)
EXTENDS Relay, TLC

Symmetric == Permutations(Devices) \cup Permutations(Ports)
               \cup Permutations(Relays)
=============================================================================
