---------------------------- MODULE MCRendezvous ----------------------------
(***************************************************************************)
(* The way to a direct path for TLC, in its three stages: the discovery of *)
(* the public addresses (Stun), their exchange as candidates (Candidates)  *)
(* and the punching (Punch).  What one stage hands to the next is a list   *)
(* of addresses, and no stage waits for another or shares its state, so a  *)
(* behaviour is one of a single stage: the other two stay as they began.   *)
(***************************************************************************)
EXTENDS Stun, Candidates, Punch, Bitwise

CONSTANT Cookie     \* the bits of the magic cookie that mask an address

VARIABLE stage

\* Two attributes before the address, one whose length is not a multiple of 4.
MCExtras == {<<8, 3>>}

MCMask(public) == public ^^ Cookie

vars == <<stage, discovery, exchange, punching>>

\* The stages that do not run begin in one way only, and whoever does not punch
\* has no socket to punch from.
Init ==
  /\ stage \in {"discover", "exchange", "punch"}
  /\ StunInit /\ CandidatesInit /\ PunchInit
  /\ stage # "discover" =>
       map = CHOOSE m \in [Clients -> [Ports -> Publics]] : Distinct(m)
  /\ stage # "punch" => ~same /\ nat = [p \in Peers |-> "open"]

Next ==
  \/ stage = "discover" /\ StunNext /\ UNCHANGED <<stage, exchange, punching>>
  \/ stage = "exchange" /\ CandidatesNext /\ UNCHANGED <<stage, discovery, punching>>
  \/ stage = "punch" /\ PunchNext /\ UNCHANGED <<stage, discovery, exchange>>

Alone(A) == stage = "punch" /\ A /\ UNCHANGED <<stage, discovery, exchange>>

\* The fairness of Punch, for the behaviours that punch.
Spec ==
  /\ Init /\ [][Next]_vars
  /\ \A p \in Peers : /\ WF_vars(Alone(Begin(p)))
                      /\ WF_vars(Alone(Punch(p)))
                      /\ WF_vars(Alone(Arrive(p)))
=============================================================================
