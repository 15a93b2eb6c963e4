------------------------------- MODULE Session -------------------------------
(***************************************************************************)
(* The encrypted tunnel (crates/tunnel/lib.rs over the SessionCipher of    *)
(* crates/crypto/key_exchange.rs).  The two ends of a session share one    *)
(* secret and encrypt with it in both directions; what keeps them from     *)
(* using a nonce twice is that their counters start Offset apart.          *)
(*                                                                         *)
(* A packet that has been sent may arrive any number of times, in any      *)
(* order, or never.  The AEAD is external: a packet opens under the secret *)
(* it was sealed with and under no other.                                  *)
(***************************************************************************)
EXTENDS Integers

CONSTANTS
  Secrets,      \* the shared secrets, one for each session
  Texts,        \* the plaintexts
  Modulus,      \* the nonce counter is a u64: 2^64
  Offset,       \* RESPONDER_TX_OFFSET: 2^32
  MaxPackets    \* bound: packets that an end encrypts

\* The counters are kept apart as long as no end encrypts more than Offset
\* packets (and the responder's does not come round to 0): the bound of what
\* the two starting points can promise.
ASSUME SessionAssumption ==
  /\ Modulus \in Nat /\ Offset \in Nat /\ MaxPackets \in Nat
  /\ MaxPackets <= Offset /\ Offset < Modulus
  /\ Offset + MaxPackets <= Modulus

VARIABLES
  counter,      \* tx_cipher.counter of each end
  used,         \* how often each end has encrypted
  sent,         \* the packets that have left a socket
  got           \* what recv_from has returned, and to whom

vars == <<counter, used, sent, got>>

-----------------------------------------------------------------------------
Counter == 0 .. (Modulus - 1)
End == [secret : Secrets, role : {"initiator", "responder"}]

\* num tells apart two packets of an end; no field of the packet holds it.
Packet == [from : End, to : End, nonce : Counter, text : Texts, num : Nat]

\* Mutant: both ends start at 0.
StartAtZero(e) == 0

\* bind_initiator, bind_responder.
Start(e) == IF e.role = "initiator" THEN 0 ELSE Offset

\* Mutant: the counter is wider than the nonce.
Next1Unwrapped(c) == c + 1

\* wrapping_add(1).
Next1(c) == IF c + 1 = Modulus THEN 0 ELSE c + 1

\* SessionCipher::decrypt of packet p at end e: rx_cipher has the secret of e and
\* takes the nonce from the packet.
Opens(e, p) == p.from.secret = e.secret

Init ==
  /\ counter = [e \in End |-> Start(e)]
  /\ used = [e \in End |-> 0]
  /\ sent = {}
  /\ got = {}

\* SessionCipher::encrypt: the nonce is used up whatever comes of the packet.
Encrypt(e) ==
  /\ used[e] < MaxPackets
  /\ used' = [used EXCEPT ![e] = @ + 1]
  /\ counter' = [counter EXCEPT ![e] = Next1(@)]

\* Tunnel::send_to, to whichever address the caller has for its peer.
SendTo(e, d, t) ==
  /\ Encrypt(e)
  /\ d # e
  /\ sent' = sent \cup {[from |-> e, to |-> d, nonce |-> counter[e],
                         text |-> t, num |-> used[e]]}
  /\ UNCHANGED got

\* send_to of the socket fails after the encryption.
SendToFails(e) ==
  /\ Encrypt(e)
  /\ UNCHANGED <<sent, got>>

\* Tunnel::recv_from.  A packet that does not open is an error for the caller and
\* changes nothing.
RecvFrom(e, p) ==
  /\ p \in sent
  /\ p.to = e
  /\ Opens(e, p)
  /\ got' = got \cup {[by |-> e, text |-> p.text]}
  /\ UNCHANGED <<counter, used, sent>>

Next ==
  \E e \in End :
    \/ \E d \in End, t \in Texts : SendTo(e, d, t)
    \/ SendToFails(e)
    \/ \E p \in sent : RecvFrom(e, p)

Spec == Init /\ [][Next]_vars

-----------------------------------------------------------------------------
TypeOK ==
  /\ counter \in [End -> Counter]
  /\ used \in [End -> 0 .. MaxPackets]
  /\ sent \subseteq Packet
  /\ got \subseteq [by : End, text : Texts]

(***************************************************************************)
(* Each direction has a nonce space of its own (lib.rs:17-20, 51-52): no   *)
(* two packets under one secret have the same nonce, whichever ends they   *)
(* come from and whichever of the sends failed.                            *)
(***************************************************************************)
NoncesUnique ==
  \A p, q \in sent :
    p.from.secret = q.from.secret /\ p.nonce = q.nonce => p = q

(***************************************************************************)
(* What recv_from returns was sent by the other end of the session: a      *)
(* packet of another session that arrives at the socket is an error.       *)
(***************************************************************************)
FromTheOtherEnd ==
  \A g \in got :
    \E p \in sent : /\ p.text = g.text
                    /\ p.from.secret = g.by.secret
                    /\ p.from # g.by
=============================================================================
