-------------------------------- MODULE Punch --------------------------------
(***************************************************************************)
(* UDP hole punching between two peers (crates/nat): each has learned its  *)
(* public address from the STUN server, has published it, and now runs     *)
(* Puncher::punch towards the other's.  Between them are their NATs, of    *)
(* the types that NatType names, and a network that may lose datagrams.    *)
(*                                                                         *)
(* An action is a step of the loop of punch up to its next await.          *)
(***************************************************************************)
EXTENDS Naturals

CONSTANTS
  Nats,         \* the types of NAT in the network
  Retries,      \* PUNCH_RETRIES: 10
  Skew,         \* how many rounds the peers may be apart
  Slow,         \* a datagram may be longer on its way than a round takes
  MaxLost       \* bound: datagrams that are not sent or get lost

Kinds == {"open", "fullCone", "restricted", "portRestricted", "symmetric"}

ASSUME PunchAssumption ==
  /\ Nats \subseteq Kinds
  /\ Slow \in BOOLEAN
  /\ Retries \in Nat /\ Skew \in Nat /\ MaxLost \in Nat

VARIABLES
  nat,          \* the NAT of each peer
  same,         \* the peers punch from the socket whose address they published
  pc, round,    \* where its punch is, and in which round
  wrote,        \* it has sent a datagram to the other: its NAT has a mapping
  flight,       \* the datagrams on their way to it
  inbox,        \* its socket holds a datagram
  lost

punching == <<nat, same, pc, round, wrote, flight, inbox, lost>>

-----------------------------------------------------------------------------
Peers == {"alice", "bob"}
Other(p) == CHOOSE q \in Peers : q # p

Punching(p) == pc[p] \in {"send", "listen"}
Heard(p) == pc[p] = "heard"
Done(p) == pc[p] \in {"heard", "none"}

\* Mutant: a NAT that filters by address needs a relay.
SupportsOpenOnly(n) == n \in {"open", "fullCone"}

\* NatType::supports_p2p; needs_relay is its opposite.
SupportsP2p(n) == n \in {"open", "fullCone", "restricted", "portRestricted"}

(***************************************************************************)
(* Does a datagram that q's peer sends to q's published address reach q's  *)
(* socket?  A symmetric NAT has another mapping for every destination: the *)
(* published one lets nobody in but the STUN server, and what its host     *)
(* sends comes from an address that nobody has written to.                 *)
(***************************************************************************)
LetsIn(q) ==
  /\ same
  /\ CASE nat[q] \in {"open", "fullCone"} -> TRUE
       [] nat[q] = "restricted" -> wrote[q]
       [] nat[q] = "portRestricted" -> wrote[q] /\ nat[Other(q)] # "symmetric"
       [] nat[q] = "symmetric" -> FALSE

Misses == lost < MaxLost /\ lost' = lost + 1

PunchInit ==
  /\ nat \in [Peers -> Nats]
  /\ same \in BOOLEAN
  /\ pc = [p \in Peers |-> "idle"]
  /\ round = [p \in Peers |-> 0]
  /\ wrote = [p \in Peers |-> FALSE]
  /\ flight = [p \in Peers |-> 0]
  /\ inbox = [p \in Peers |-> FALSE]
  /\ lost = 0

-----------------------------------------------------------------------------
Begin(p) ==
  /\ pc[p] = "idle"
  /\ pc' = [pc EXCEPT ![p] = "send"]
  /\ round' = [round EXCEPT ![p] = 1]
  /\ UNCHANGED <<nat, same, wrote, flight, inbox, lost>>

\* Mutant: only the first round sends.
SendOnce(p) ==
  /\ pc[p] = "send"
  /\ pc' = [pc EXCEPT ![p] = "listen"]
  /\ IF round[p] = 1
     THEN /\ flight' = [flight EXCEPT ![Other(p)] = @ + 1]
          /\ wrote' = [wrote EXCEPT ![p] = TRUE]
     ELSE UNCHANGED <<flight, wrote>>
  /\ UNCHANGED <<nat, same, round, inbox, lost>>

\* The datagram to the candidate, whose error is ignored.
SendRound(p) ==
  /\ pc[p] = "send"
  /\ pc' = [pc EXCEPT ![p] = "listen"]
  /\ \/ /\ flight' = [flight EXCEPT ![Other(p)] = @ + 1]
        /\ wrote' = [wrote EXCEPT ![p] = TRUE]
        /\ UNCHANGED lost
     \/ Misses /\ UNCHANGED <<flight, wrote>>
  /\ UNCHANGED <<nat, same, round, inbox>>

\* recv_from: the first datagram, whatever it holds, ends the punch.
Hear(p) ==
  /\ pc[p] = "listen" /\ inbox[p]
  /\ pc' = [pc EXCEPT ![p] = "heard"]
  /\ inbox' = [inbox EXCEPT ![p] = FALSE]
  /\ UNCHANGED <<nat, same, round, wrote, flight, lost>>

(***************************************************************************)
(* The 50 ms of the round are over, or recv_from fails.  The rounds of the *)
(* two peers are as long as each other, and they start at most Skew rounds *)
(* apart; a datagram comes within the round, or, in a slow network, before *)
(* the last one ends.                                                      *)
(***************************************************************************)
InStep(p) ==
  /\ pc[Other(p)] # "send"
  /\ Done(Other(p)) \/ round[p] < round[Other(p)] + Skew
  /\ flight[p] = 0 \/ (Slow /\ round[p] < Retries)

TimeOut(p) ==
  /\ pc[p] = "listen" /\ ~inbox[p] /\ InStep(p)
  /\ IF round[p] < Retries
     THEN /\ pc' = [pc EXCEPT ![p] = "send"]
          /\ round' = [round EXCEPT ![p] = @ + 1]
     ELSE /\ pc' = [pc EXCEPT ![p] = "none"]
          /\ UNCHANGED round
  /\ UNCHANGED <<nat, same, wrote, flight, inbox, lost>>

\* The datagram comes to the NAT, which drops it or passes it on.
Arrive(p) ==
  /\ flight[p] > 0
  /\ flight' = [flight EXCEPT ![p] = @ - 1]
  /\ inbox' = [inbox EXCEPT ![p] = @ \/ LetsIn(p)]
  /\ UNCHANGED <<nat, same, pc, round, wrote, lost>>

Lose(p) ==
  /\ flight[p] > 0 /\ Misses
  /\ flight' = [flight EXCEPT ![p] = @ - 1]
  /\ UNCHANGED <<nat, same, pc, round, wrote, inbox>>

Punch(p) == SendRound(p) \/ Hear(p) \/ TimeOut(p)

PunchNext == \E p \in Peers : Begin(p) \/ Punch(p) \/ Arrive(p) \/ Lose(p)

\* The peers are told to punch, their tasks run and datagrams get somewhere.
PunchSpec ==
  /\ PunchInit /\ [][PunchNext]_punching
  /\ \A p \in Peers : WF_punching(Begin(p)) /\ WF_punching(Punch(p)) /\ WF_punching(Arrive(p))

-----------------------------------------------------------------------------
(***************************************************************************)
(* With NATs that support P2P, a datagram lost and a start some rounds     *)
(* apart, one of the two peers at least hears the other, if they punch     *)
(* from the sockets whose addresses they have published.                   *)
(***************************************************************************)
OneHears ==
  same /\ (\A p \in Peers : SupportsP2p(nat[p])) => <>(\E p \in Peers : Heard(p))

(***************************************************************************)
(* If one of the NATs needs a relay, the peers never both hear each other; *)
(* nor do they when they punch from other sockets than the published ones, *)
(* as the daemon does.                                                     *)
(***************************************************************************)
RelayNeeded ==
  (\A p \in Peers : Heard(p)) => same /\ \A p \in Peers : SupportsP2p(nat[p])
=============================================================================
