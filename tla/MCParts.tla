------------------------------ MODULE MCParts ------------------------------
(***************************************************************************)
(* The parts that run by themselves, for TLC: no two of them share state   *)
(* or call each other.  A behaviour is one of a single part, and the       *)
(* others stay as they began:                                              *)
(*                                                                         *)
(*   session, pool, path    crates/tunnel                                  *)
(*   frame, rules           crates/relay-proto, crates/core                *)
(*   names                  the resolver of the daemon                     *)
(*   engine                 the engine of the phones                       *)
(***************************************************************************)
EXTENDS Session, Frame, RelayPool, Path, Acl, Dns, Mobile

VARIABLE part

allVars == <<part, vars, pool, path, framing, table, naming, driving>>

\* The pool begins with every health only in its own behaviours.
PartsInit ==
  /\ part \in {"session", "pool", "path", "frame", "rules", "names", "engine"}
  /\ Init /\ PoolInit /\ PathInit /\ FrameInit /\ AclInit /\ DnsInit /\ MobileInit
  /\ part # "pool" => health = [i \in 1 .. N |-> "echoing"]

PartsNext ==
  \/ /\ part = "session" /\ Next
     /\ UNCHANGED <<part, pool, path, framing, table, naming, driving>>
  \/ /\ part = "pool" /\ PoolNext
     /\ UNCHANGED <<part, vars, path, framing, table, naming, driving>>
  \/ /\ part = "path" /\ PathNext
     /\ UNCHANGED <<part, vars, pool, framing, table, naming, driving>>
  \/ /\ part = "frame" /\ FrameNext
     /\ UNCHANGED <<part, vars, pool, path, table, naming, driving>>
  \/ /\ part = "rules" /\ AclNext
     /\ UNCHANGED <<part, vars, pool, path, framing, naming, driving>>
  \/ /\ part = "names" /\ DnsNext
     /\ UNCHANGED <<part, vars, pool, path, framing, table, driving>>
  \/ /\ part = "engine" /\ MobileNext
     /\ UNCHANGED <<part, vars, pool, path, framing, table, naming>>

Probing ==
  /\ part = "pool" /\ ProbeAll
  /\ UNCHANGED <<part, vars, path, framing, table, naming, driving>>

\* The fairness is that of RelayPool: nothing else has to happen.
PartsSpec == PartsInit /\ [][PartsNext]_allVars /\ WF_allVars(Probing)

-----------------------------------------------------------------------------
(***************************************************************************)
(* The instances.                                                          *)
(***************************************************************************)
MCPeerIds == {<<0, 2>>, <<3, 1>>}
MCPayloads == UNION {{[i \in 1 .. n |-> 1], [i \in 1 .. n |-> i % Base]} :
                       n \in 0 .. (MaxPayload + 1)}

\* Two priorities, both kinds of verdict, rules for a host, for a port and for
\* a text that is not an address (Anything and Unreadable of Acl).
Plain == [priority |-> 10, action |-> "allow", src |-> "any",
          dst |-> "any", protocol |-> "any", sport |-> 0, dport |-> 0]

MCRules == {
  Plain,
  [Plain EXCEPT !.action = "deny"],
  [Plain EXCEPT !.priority = 20, !.action = "deny", !.protocol = "tcp",
                !.dport = 22],
  [Plain EXCEPT !.priority = 5, !.src = "alice", !.action = "other"],
  [Plain EXCEPT !.priority = 5, !.dst = "bob", !.action = "deny",
                !.sport = 7],
  [Plain EXCEPT !.priority = 20, !.src = "unreadable", !.action = "deny"],
  [Plain EXCEPT !.priority = 5, !.protocol = "other", !.action = "deny"]}

\* Packets of the three protocols, one too short for its ports, one of IPv6.
Ssh == [version |-> 4, len |-> 40, ihl |-> 20, number |-> 6, src |-> "alice",
        dst |-> "bob", sport |-> 7, dport |-> 22]

MCPackets == {
  Ssh,
  [Ssh EXCEPT !.src = "bob", !.dst = "alice"],
  [Ssh EXCEPT !.number = 1],
  [Ssh EXCEPT !.number = 17, !.dst = "carol"],
  [Ssh EXCEPT !.src = "carol", !.len = 22],
  [Ssh EXCEPT !.ihl = 40],
  [Ssh EXCEPT !.version = 6]}

\* Hosts with the empty name, with one name in two cases, and with a name that
\* ends in .connectalso (Suffix and NotText of Dns).
MCHostnames == {<<>>, <<"nas">>, <<"NAS">>, <<"tv", "connectalso">>}
MCNames == {<<>>, <<"nas">>, <<"Nas", "connectalso">>, <<"tv">>,
            <<"tv", "connectalso">>, <<"connectalso">>, <<"not text">>}
MCLower == [label \in {"nas", "NAS", "Nas", "tv", "connectalso", "not text"} |->
              IF label \in {"NAS", "Nas"} THEN "nas" ELSE label]

-----------------------------------------------------------------------------
\* SilentIsLeft of RelayPool, in the behaviours of the pool: the active relay is
\* left for good when it stays silent and another one answers.
PoolLeavesSilent == part = "pool" => SilentIsLeft
=============================================================================
