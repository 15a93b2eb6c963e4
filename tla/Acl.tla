--------------------------------- MODULE Acl ---------------------------------
(***************************************************************************)
(* The access rules: the table acl_rules with its three handlers in the    *)
(* control service, and the evaluation of a list of rules against a packet *)
(* in crates/core.  The evaluation is the public interface of the crate;   *)
(* no binary of the repository calls it yet.                               *)
(*                                                                         *)
(* A handler is one SQL statement, so a request is one step.               *)
(***************************************************************************)
EXTENDS Integers, Sequences, FiniteSets

CONSTANTS
  Rules,       \* the rules an operator may store
  Packets,     \* the packets that are looked at
  MaxId        \* bound: the ids of the rules are 1 .. MaxId

Anything == "any"            \* the empty string of src_ip, dst_ip and protocol
Unreadable == "unreadable"   \* a text that is not an IPv4 address

ProtocolOf(number) ==
  CASE number = 6 -> "tcp" [] number = 17 -> "udp" [] number = 1 -> "icmp"
    [] OTHER -> "none"

\* What the code looks at of a rule; 0 is any port.  It compares the action with
\* "deny" and takes every other text for "allow".
Rule == [priority : Int, action : {"allow", "deny", "other"},
         src : STRING, dst : STRING,
         protocol : {Anything, "tcp", "udp", "icmp", "other"},
         sport : Nat, dport : Nat]

\* len and ihl count bytes; the ports are the four bytes that follow ihl.
RawPacket == [version : Nat, len : Nat, ihl : Nat, number : Nat,
              src : STRING, dst : STRING, sport : Nat, dport : Nat]

ASSUME AclAssumption ==
  /\ \A r \in Rules : r \in Rule
  /\ \A p \in Packets : p \in RawPacket
  /\ MaxId \in Nat

VARIABLE
  table        \* acl_rules: the rule of each id that has one

-----------------------------------------------------------------------------
(***************************************************************************)
(* PacketInfo::parse and AclRule::matches.                                 *)
(***************************************************************************)
Readable(p) == p.len >= 20 /\ p.version = 4

HasPorts(p) == p.len >= 24 /\ p.number \in {6, 17} /\ p.len >= p.ihl + 4

Port(p, port) == IF HasPorts(p) THEN port ELSE 0

\* A text that does not parse is not compared with anything.
HostMatches(text, host) == text \in {Anything, Unreadable, host}

PortMatches(wanted, port) == wanted \in {0, port}

Matches(r, p) ==
  /\ HostMatches(r.src, p.src)
  /\ HostMatches(r.dst, p.dst)
  /\ r.protocol = Anything \/ r.protocol = ProtocolOf(p.number)
  /\ PortMatches(r.sport, Port(p, p.sport))
  /\ PortMatches(r.dport, Port(p, p.dport))

Hits(list, p) == {i \in DOMAIN list : Matches(list[i], p)}

\* i is looked at before j: sort_by_key is a stable sort by priority.
Before(list, i, j) ==
  \/ list[i].priority < list[j].priority
  \/ list[i].priority = list[j].priority /\ i <= j

\* Mutant: the rules are taken in the order of the list.
EvaluateUnsorted(list, p) ==
  IF ~Readable(p) \/ Hits(list, p) = {} THEN "allow"
  ELSE LET first == CHOOSE i \in Hits(list, p) : \A j \in Hits(list, p) : i <= j
       IN IF list[first].action = "deny" THEN "deny" ELSE "allow"

\* evaluate_acls.
Evaluate(list, p) ==
  IF ~Readable(p) \/ Hits(list, p) = {} THEN "allow"
  ELSE LET first == CHOOSE i \in Hits(list, p) :
                      \A j \in Hits(list, p) : Before(list, i, j)
       IN IF list[first].action = "deny" THEN "deny" ELSE "allow"

-----------------------------------------------------------------------------
RuleIds == 1 .. MaxId

\* Every order of a set of ids.
Orders(S) == {s \in [1 .. Cardinality(S) -> S] :
                \A m, n \in DOMAIN s : s[m] = s[n] => m = n}

\* What GET /acl may answer: nothing orders the rows of one priority.
Listings ==
  {[n \in DOMAIN s |-> table[s[n]]] :
     s \in {o \in Orders(DOMAIN table) :
              \A m, n \in DOMAIN o :
                m < n => table[o[m]].priority <= table[o[n]].priority}}

AclInit == table = <<>>

\* POST /acl: INSERT, or UPDATE every column of the rule with this id.
Upsert(i, r) ==
  table' = [j \in DOMAIN table \cup {i} |-> IF j = i THEN r ELSE table[j]]

\* Mutant: the rules of the same priority go with it.
DeletePriority(i) ==
  table' = [j \in {k \in DOMAIN table :
                     \/ i \notin DOMAIN table
                     \/ table[k].priority # table[i].priority} |-> table[j]]

\* DELETE /acl/{id}: an id that has no rule is answered the same way.
Delete(i) ==
  table' = [j \in DOMAIN table \ {i} |-> table[j]]

AclNext == \E i \in RuleIds : (\E r \in Rules : Upsert(i, r)) \/ Delete(i)

AclSpec == AclInit /\ [][AclNext]_table

-----------------------------------------------------------------------------
(***************************************************************************)
(* The rules of least priority among those that match decide, whatever the *)
(* order of the slice: a packet is denied if all of them deny it, allowed  *)
(* if none does, and allowed if nothing matches.                           *)
(***************************************************************************)
Deciding(S, p) ==
  {r \in S : Matches(r, p) /\ \A s \in S : Matches(s, p) => r.priority <= s.priority}

LeastPriorityDecides ==
  LET S == {table[i] : i \in DOMAIN table}
  IN \A o \in Orders(DOMAIN table), p \in Packets :
       LET verdict == Evaluate([n \in DOMAIN o |-> table[o[n]]], p)
       IN Readable(p) =>
            /\ (\A r \in Deciding(S, p) : r.action # "deny") => verdict = "allow"
            /\ Deciding(S, p) # {} /\ (\A r \in Deciding(S, p) : r.action = "deny")
                 => verdict = "deny"

(***************************************************************************)
(* A request changes the verdicts of the packets that the rule it stores   *)
(* or removes matches, and of no others.                                   *)
(***************************************************************************)
Verdicts(p) == {Evaluate(l, p) : l \in Listings}

OnlyItsPackets ==
  [][\A i \in RuleIds, p \in Packets :
       /\ table' # table
       /\ Delete(i) \/ \E r \in Rules : Upsert(i, r) /\ ~Matches(r, p)
       /\ i \in DOMAIN table => ~Matches(table[i], p)
       => Verdicts(p)' = Verdicts(p)]_table
=============================================================================
