---------------------------- MODULE AclDnsProofs ----------------------------
(***************************************************************************)
(* The access rules (Acl) and the names of the devices (Dns), the two      *)
(* lists that the control service hands out without an order of its own.   *)
(* They share no state and are proved about one after the other.           *)
(***************************************************************************)
EXTENDS Acl, Dns, FiniteSetTheorems, SequenceTheorems, NaturalInduction, TLAPS

-----------------------------------------------------------------------------
(***************************************************************************)
(* Access rules. What evaluate_acls makes of a list is decided by the      *)
(* first rule of the stable sort by priority (OneIsFirst, by induction     *)
(* over the list), and every list that the service may answer has all      *)
(* rules of the table (OrderIsOnto).                                       *)
(*                                                                         *)
(* Which verdicts a packet may get depends on the rules that match it and  *)
(* on nothing else (VerdictsArePossible): each of the matching rules of    *)
(* least priority comes first in some list that is sorted by priority      *)
(* (MayComeFirst, by SortedOrder, an induction over the rules).            *)
(***************************************************************************)
\* Among the rules of a list that are looked at, one comes first.
LEMMA OneIsFirst ==
  ASSUME NEW n \in Nat, NEW list, \A i \in 1 .. n : list[i].priority \in Int,
         NEW H \in SUBSET (1 .. n), H # {}
  PROVE  \E i \in H : \A j \in H : Before(list, i, j)
<1> DEFINE First(T) == \E i \in T : \A j \in T : Before(list, i, j)
           done == {m \in Nat : \A T \in SUBSET (1 .. m) :
                                  T \subseteq 1 .. n /\ T # {} => First(T)}
<1>1. 0 \in done
  <2>1. 1 .. 0 = {}
    OBVIOUS
  <2>2. \A T \in SUBSET (1 .. 0) : T = {}
    BY <2>1
  <2> QED
    BY <2>2
<1>2. ASSUME NEW m \in Nat, m \in done PROVE m + 1 \in done
  <2> SUFFICES ASSUME NEW T \in SUBSET (1 .. m + 1), T \subseteq 1 .. n, T # {}
               PROVE  First(T)
    OBVIOUS
  <2> DEFINE rest == T \ {m + 1}
  <2>1. rest \in SUBSET (1 .. m) /\ rest \subseteq 1 .. n
    OBVIOUS
  <2>2. CASE rest = {}
    <3>1. T = {m + 1}
      BY <2>2
    <3>2. Before(list, m + 1, m + 1)
      BY <3>1 DEF Before
    <3> QED
      BY <3>1, <3>2
  <2>3. CASE rest # {}
    <3>1. First(rest)
      BY <1>2, <2>1, <2>3
    <3>2. PICK i \in rest : \A j \in rest : Before(list, i, j)
      BY <3>1
    <3>3. CASE m + 1 \notin T
      <4>1. rest = T
        BY <3>3
      <4> QED
        BY <3>1, <4>1
    <3>4. CASE m + 1 \in T
      <4>1. i \in 1 .. m /\ list[i].priority \in Int /\ list[m + 1].priority \in Int
        BY <2>1, <3>2, <3>4
      <4>2. CASE list[m + 1].priority < list[i].priority
        <5>1. \A j \in rest : list[j].priority \in Int
          BY <2>1
        <5>2. \A j \in rest : Before(list, m + 1, j)
          BY <3>2, <4>1, <4>2, <5>1 DEF Before
        <5>3. Before(list, m + 1, m + 1)
          BY DEF Before
        <5>4. \A j \in T : Before(list, m + 1, j)
          BY <5>2, <5>3
        <5> QED
          BY <3>4, <5>4
      <4>3. CASE list[i].priority <= list[m + 1].priority
        <5>1. Before(list, i, m + 1)
          BY <4>1, <4>3 DEF Before
        <5>2. \A j \in T : Before(list, i, j)
          BY <3>2, <5>1
        <5> QED
          BY <3>2, <5>2
      <4> QED
        BY <4>1, <4>2, <4>3
    <3> QED
      BY <3>3, <3>4
  <2> QED
    BY <2>2, <2>3
<1> HIDE DEF done
<1>3. n \in done
  BY <1>1, <1>2, Induction
<1> QED
  BY <1>3 DEF done

\* The rules of the table are rules, and finitely many.
TableOK ==
  /\ DOMAIN table \subseteq RuleIds
  /\ \A i \in DOMAIN table : table[i] \in Rules

\* Whatever is stored and deleted, the table has rules under ids.
LEMMA TableInvariance == AclSpec => []TableOK
<1>1. AclInit => TableOK
  BY DEF AclInit, TableOK
<1>2. TableOK /\ [AclNext]_table => TableOK'
  BY DEF TableOK, AclNext, Upsert, Delete
<1> QED
  BY <1>1, <1>2, PTL DEF AclSpec

\* An order of the ids leaves none out.
LEMMA OrderIsOnto ==
  ASSUME NEW S, IsFiniteSet(S), NEW o \in Orders(S)
  PROVE  /\ Cardinality(S) \in Nat
         /\ DOMAIN o = 1 .. Cardinality(S)
         /\ \A n \in DOMAIN o : o[n] \in S
         /\ \A i \in S : \E n \in DOMAIN o : o[n] = i
<1>1. Cardinality(S) \in Nat
  BY FS_CardinalityType
<1>2. o \in [1 .. Cardinality(S) -> S] /\ DOMAIN o = 1 .. Cardinality(S)
  BY DEF Orders
<1>3. o \in Injection(1 .. Cardinality(S), S)
  BY <1>2 DEF Orders, Injection, IsInjective
<1>4. Cardinality(1 .. Cardinality(S)) = Cardinality(S)
  BY <1>1, FS_Interval
<1>5. o \in Surjection(1 .. Cardinality(S), S)
  BY <1>3, <1>4, FS_Injection
<1> QED
  BY <1>1, <1>2, <1>5 DEF Surjection

\* In whatever order the rules are listed, the one that is applied is of the
\* least priority among those that match.
LEMMA FirstDecides ==
  ASSUME TableOK, NEW o \in Orders(DOMAIN table), NEW p, Readable(p)
  PROVE  LET list == [n \in DOMAIN o |-> table[o[n]]]
             S == {table[i] : i \in DOMAIN table}
         IN \/ /\ \A r \in S : ~Matches(r, p)
               /\ Evaluate(list, p) = "allow"
            \/ \E r \in Deciding(S, p) :
                 Evaluate(list, p) = IF r.action = "deny" THEN "deny" ELSE "allow"
<1> DEFINE list == [n \in DOMAIN o |-> table[o[n]]]
           S == {table[i] : i \in DOMAIN table}
           N == Cardinality(DOMAIN table)
           H == Hits(list, p)
           first == CHOOSE i \in H : \A j \in H : Before(list, i, j)
<1>1. IsFiniteSet(DOMAIN table)
  <2>1. IsFiniteSet(RuleIds)
    BY FS_Interval, AclAssumption DEF RuleIds
  <2> QED
    BY <2>1, FS_Subset DEF TableOK
<1>2. /\ N \in Nat
      /\ DOMAIN o = 1 .. N
      /\ \A n \in DOMAIN o : o[n] \in DOMAIN table
      /\ \A i \in DOMAIN table : \E n \in DOMAIN o : o[n] = i
  BY <1>1, OrderIsOnto
<1>3. \A r \in S : r.priority \in Int
  BY AclAssumption DEF TableOK, Rule
<1> HIDE DEF N
<1>4. /\ DOMAIN list = 1 .. N
      /\ \A n \in 1 .. N : list[n] \in S
      /\ \A r \in S : \E n \in 1 .. N : list[n] = r
  BY <1>2
<1> HIDE DEF list, S
<1>5. /\ H \subseteq 1 .. N
      /\ \A n \in H : Matches(list[n], p)
      /\ \A r \in S : Matches(r, p) => \E n \in H : list[n] = r
  BY <1>4 DEF Hits
<1>6. Evaluate(list, p) = IF H = {} THEN "allow"
                          ELSE IF list[first].action = "deny" THEN "deny" ELSE "allow"
  BY DEF Evaluate
<1> HIDE DEF H
<1>7. CASE H = {}
  BY <1>5, <1>6, <1>7 DEF list, S
<1>8. CASE H # {}
  <2>1. \E i \in H : \A j \in H : Before(list, i, j)
    BY <1>2, <1>3, <1>4, <1>5, <1>8, OneIsFirst
  <2>2. first \in H /\ \A j \in H : Before(list, first, j)
    BY <2>1
  <2> HIDE DEF first
  <2>3. list[first] \in S /\ Matches(list[first], p)
    BY <1>4, <1>5, <2>2
  <2>4. ASSUME NEW r \in S, Matches(r, p) PROVE list[first].priority <= r.priority
    <3>1. PICK n \in H : list[n] = r
      BY <1>5, <2>4
    <3> QED
      BY <1>3, <2>2, <2>3, <2>4, <3>1 DEF Before
  <2>5. list[first] \in Deciding(S, p)
    BY <2>3, <2>4 DEF Deciding
  <2> QED
    BY <1>6, <1>8, <2>5 DEF list, S
<1> QED
  BY <1>7, <1>8

\* So the rules of the least priority decide, for any order of the list.
LEMMA TableDecides == TableOK => LeastPriorityDecides
<1> SUFFICES ASSUME TableOK, NEW o \in Orders(DOMAIN table), NEW p \in Packets,
                    Readable(p)
             PROVE  LET S == {table[i] : i \in DOMAIN table}
                        verdict == Evaluate([n \in DOMAIN o |-> table[o[n]]], p)
                    IN /\ (\A r \in Deciding(S, p) : r.action # "deny")
                            => verdict = "allow"
                       /\ Deciding(S, p) # {} /\ (\A r \in Deciding(S, p) : r.action = "deny")
                            => verdict = "deny"
  BY DEF LeastPriorityDecides
<1> DEFINE S == {table[i] : i \in DOMAIN table}
           verdict == Evaluate([n \in DOMAIN o |-> table[o[n]]], p)
<1>1. \/ /\ \A r \in S : ~Matches(r, p)
         /\ verdict = "allow"
      \/ \E r \in Deciding(S, p) :
           verdict = IF r.action = "deny" THEN "deny" ELSE "allow"
  BY FirstDecides
<1>2. \A r \in Deciding(S, p) : r \in S /\ Matches(r, p)
  BY DEF Deciding
<1> HIDE DEF S, verdict
<1>3. /\ (\A r \in Deciding(S, p) : r.action # "deny") => verdict = "allow"
      /\ Deciding(S, p) # {} /\ (\A r \in Deciding(S, p) : r.action = "deny")
           => verdict = "deny"
  BY <1>1, <1>2
<1> QED
  BY <1>3 DEF S, verdict

(***************************************************************************)
(* The rules of least priority among those that match decide, in whatever  *)
(* order a list has the rules of the table: sort_by_key puts them first,   *)
(* and none of them is left out.                                           *)
(***************************************************************************)
THEOREM LeastPriorityDecidesHolds == AclSpec => []LeastPriorityDecides
BY TableInvariance, TableDecides, PTL

-----------------------------------------------------------------------------
\* Ids can be listed by any key.
LEMMA SortedOrder ==
  ASSUME NEW key \in [RuleIds -> Int], NEW S \in SUBSET RuleIds
  PROVE  \E o \in Orders(S) :
           \A m, n \in DOMAIN o : m < n => key[o[m]] <= key[o[n]]
<1> DEFINE Sorted(T) == \E o \in Orders(T) :
                          \A m, n \in DOMAIN o : m < n => key[o[m]] <= key[o[n]]
           done == {k \in Nat : \A T \in SUBSET RuleIds :
                                  Cardinality(T) = k => Sorted(T)}
<1>1. ASSUME NEW T \in SUBSET RuleIds
      PROVE  IsFiniteSet(T) /\ Cardinality(T) \in Nat
  <2>1. IsFiniteSet(RuleIds)
    BY FS_Interval, AclAssumption DEF RuleIds
  <2> QED
    BY <2>1, FS_Subset, FS_CardinalityType
<1>2. 0 \in done
  <2> SUFFICES ASSUME NEW T \in SUBSET RuleIds, Cardinality(T) = 0
               PROVE  Sorted(T)
    OBVIOUS
  <2>1. T = {} /\ 1 .. 0 = {}
    BY <1>1, FS_EmptySet
  <2> DEFINE o == [n \in 1 .. 0 |-> 0]
  <2>2. o \in Orders(T) /\ DOMAIN o = {}
    BY <2>1 DEF Orders
  <2> HIDE DEF o
  <2> QED
    BY <2>2
<1>3. ASSUME NEW k \in Nat, k \in done PROVE k + 1 \in done
  <2> SUFFICES ASSUME NEW T \in SUBSET RuleIds, Cardinality(T) = k + 1
               PROVE  Sorted(T)
    OBVIOUS
  <2>1. T # {}
    BY <1>1, FS_EmptySet
  <2> DEFINE list == [i \in RuleIds |-> [priority |-> key[i]]]
  <2>2. PICK x \in T : \A j \in T : Before(list, x, j)
    <3>1. \A i \in 1 .. MaxId : list[i].priority \in Int
      BY DEF RuleIds
    <3> HIDE DEF list
    <3> QED
      BY <2>1, <3>1, OneIsFirst, AclAssumption DEF RuleIds
  <2>3. \A j \in T : key[x] <= key[j]
    <3>1. \A j \in T : list[j].priority = key[j] /\ key[j] \in Int
      OBVIOUS
    <3> HIDE DEF list
    <3> QED
      BY <2>2, <3>1 DEF Before
  <2>4. Cardinality(T \ {x}) = k
    BY <1>1, FS_RemoveElement
  <2>5. PICK rest \in Orders(T \ {x}) :
          \A m, n \in DOMAIN rest : m < n => key[rest[m]] <= key[rest[n]]
    BY <1>3, <2>4
  <2>6. /\ rest \in [1 .. k -> T \ {x}] /\ DOMAIN rest = 1 .. k
        /\ \A m, n \in 1 .. k : rest[m] = rest[n] => m = n
    BY <2>4, <2>5 DEF Orders
  <2> DEFINE o == [n \in 1 .. k + 1 |-> IF n = 1 THEN x ELSE rest[n - 1]]
  <2>7. /\ o[1] = x
        /\ \A n \in 2 .. k + 1 : /\ o[n] = rest[n - 1] /\ n - 1 \in 1 .. k
                                 /\ rest[n - 1] \in T \ {x}
    BY <2>6
  <2>8. \A n \in 1 .. k + 1 : n = 1 \/ n \in 2 .. k + 1
    OBVIOUS
  <2>9. o \in [1 .. k + 1 -> T] /\ DOMAIN o = 1 .. k + 1
    <3>1. \A n \in 1 .. k + 1 : (IF n = 1 THEN x ELSE rest[n - 1]) \in T
      BY <2>7, <2>8
    <3> QED
      BY <3>1
  <2> HIDE DEF o
  <2>10. \A m, n \in 1 .. k + 1 : o[m] = o[n] => m = n
    <3> SUFFICES ASSUME NEW m \in 1 .. k + 1, NEW n \in 1 .. k + 1, o[m] = o[n]
                 PROVE  m = n
      OBVIOUS
    <3>1. CASE m = 1 \/ n = 1
      BY <2>7, <2>8, <3>1
    <3>2. CASE m \in 2 .. k + 1 /\ n \in 2 .. k + 1
      <4>1. m - 1 = n - 1
        BY <2>6, <2>7, <3>2
      <4> QED
        BY <4>1
    <3> QED
      BY <2>8, <3>1, <3>2
  <2>11. o \in Orders(T)
    BY <2>9, <2>10 DEF Orders
  <2>12. ASSUME NEW m \in 1 .. k + 1, NEW n \in 1 .. k + 1, m < n
         PROVE  key[o[m]] <= key[o[n]]
    <3>1. n \in 2 .. k + 1
      BY <2>12
    <3>2. CASE m = 1
      BY <2>3, <2>7, <3>1, <3>2
    <3>3. CASE m \in 2 .. k + 1
      <4>1. m - 1 < n - 1
        BY <2>12
      <4> QED
        BY <2>5, <2>6, <2>7, <3>1, <3>3, <4>1
    <3> QED
      BY <2>8, <3>2, <3>3
  <2> QED
    BY <2>9, <2>11, <2>12
<1> HIDE DEF done
<1>4. Cardinality(S) \in done
  BY <1>1, <1>2, <1>3, Induction
<1> QED
  BY <1>4 DEF done

-----------------------------------------------------------------------------
\* The rules that have a row.
Stored == {table[i] : i \in DOMAIN table}

\* What evaluate_acls answers when r is the first that matches.
Said(r) == IF r.action = "deny" THEN "deny" ELSE "allow"

\* What the rules of least priority that match may answer.
Possible(p) ==
  IF Readable(p) /\ Deciding(Stored, p) # {}
  THEN {Said(r) : r \in Deciding(Stored, p)} ELSE {"allow"}

\* The first hit of a list is the only one.
LEMMA FirstIsUnique ==
  ASSUME NEW list, NEW p, Readable(p), DOMAIN list \subseteq Nat,
         \A i \in DOMAIN list : list[i].priority \in Int,
         NEW n \in Hits(list, p), \A j \in Hits(list, p) : Before(list, n, j)
  PROVE  Evaluate(list, p) = Said(list[n])
<1> DEFINE H == Hits(list, p)
           first == CHOOSE i \in H : \A j \in H : Before(list, i, j)
<1>1. Evaluate(list, p) = Said(list[first])
  BY DEF Evaluate, Said
<1>2. H \subseteq DOMAIN list
  BY DEF Hits
<1> HIDE DEF H
<1>3. n \in H /\ \A j \in H : Before(list, n, j)
  BY DEF H
<1>4. first \in H /\ \A j \in H : Before(list, first, j)
  BY <1>3
<1> HIDE DEF first
<1>5. Before(list, n, first) /\ Before(list, first, n)
  BY <1>3, <1>4
<1>6. n \in Nat /\ first \in Nat /\ list[n].priority \in Int /\ list[first].priority \in Int
  BY <1>2, <1>3, <1>4
<1>7. n = first
  BY <1>5, <1>6 DEF Before
<1> QED
  BY <1>1, <1>7

\* A rule that decides may come first in what the service answers.
LEMMA MayComeFirst ==
  ASSUME TableOK, NEW p, Readable(p), NEW r \in Deciding(Stored, p)
  PROVE  \E l \in Listings : Evaluate(l, p) = Said(r)
<1>1. PICK i \in DOMAIN table : r = table[i]
  BY DEF Deciding, Stored
<1>2. /\ Matches(table[i], p)
      /\ \A j \in DOMAIN table :
           Matches(table[j], p) => table[i].priority <= table[j].priority
  BY <1>1 DEF Deciding, Stored
<1>3. \A j \in DOMAIN table : j \in RuleIds /\ table[j].priority \in Int
  BY AclAssumption DEF TableOK, Rule
<1> DEFINE key == [j \in RuleIds |->
                     IF j \notin DOMAIN table THEN 0
                     ELSE 2 * table[j].priority + (IF j = i THEN 0 ELSE 1)]
<1>4. key \in [RuleIds -> Int]
  BY <1>3
<1>5. /\ key[i] = 2 * table[i].priority
      /\ \A j \in DOMAIN table : j # i => key[j] = 2 * table[j].priority + 1
  BY <1>3
<1> HIDE DEF key
<1>6. DOMAIN table \in SUBSET RuleIds
  BY DEF TableOK
<1>7. PICK o \in Orders(DOMAIN table) :
        \A m, n \in DOMAIN o : m < n => key[o[m]] <= key[o[n]]
  BY <1>4, <1>6, SortedOrder
<1>8. IsFiniteSet(DOMAIN table)
  BY FS_Interval, FS_Subset, AclAssumption, <1>6 DEF RuleIds
<1> DEFINE N == Cardinality(DOMAIN table)
           l == [n \in DOMAIN o |-> table[o[n]]]
<1>9. /\ N \in Nat
      /\ DOMAIN o = 1 .. N
      /\ \A n \in 1 .. N : o[n] \in DOMAIN table
      /\ \E n \in 1 .. N : o[n] = i
  BY <1>8, OrderIsOnto
<1>10. \A m, n \in 1 .. N : o[m] = o[n] => m = n
  BY <1>9 DEF Orders
<1> HIDE DEF N
<1>11. DOMAIN l = 1 .. N /\ \A n \in 1 .. N : l[n] = table[o[n]]
  BY <1>9
<1>12. l \in Listings
  <2>1. ASSUME NEW m \in 1 .. N, NEW n \in 1 .. N, m < n
        PROVE  table[o[m]].priority <= table[o[n]].priority
    <3>1. key[o[m]] <= key[o[n]] /\ o[m] \in DOMAIN table /\ o[n] \in DOMAIN table
      BY <1>7, <1>9, <2>1
    <3>2. /\ key[o[m]] \in {2 * table[o[m]].priority, 2 * table[o[m]].priority + 1}
          /\ key[o[n]] \in {2 * table[o[n]].priority, 2 * table[o[n]].priority + 1}
      BY <1>5, <3>1
    <3>3. table[o[m]].priority \in Int /\ table[o[n]].priority \in Int
      BY <1>3, <3>1
    <3> QED
      BY <3>1, <3>2, <3>3
  <2> QED
    BY <1>9, <2>1 DEF Listings
<1>13. PICK n0 \in 1 .. N : o[n0] = i
  BY <1>9
<1> HIDE DEF l
<1>14. n0 \in Hits(l, p) /\ l[n0] = r
  BY <1>1, <1>2, <1>11, <1>13 DEF Hits
<1>15. ASSUME NEW j \in Hits(l, p) PROVE Before(l, n0, j)
  <2>1. j \in 1 .. N /\ Matches(table[o[j]], p) /\ o[j] \in DOMAIN table
    BY <1>9, <1>11, <1>15 DEF Hits
  <2>2. l[n0].priority <= l[j].priority
    BY <1>2, <1>11, <1>13, <2>1
  <2>3. CASE j < n0
    <3>1. key[o[j]] <= key[i] /\ o[j] # i
      BY <1>7, <1>9, <1>10, <1>13, <2>1, <2>3
    <3>2. table[o[j]].priority \in Int /\ table[i].priority \in Int
      BY <1>3, <2>1
    <3>3. FALSE
      BY <1>2, <1>5, <2>1, <3>1, <3>2
    <3> QED
      BY <3>3
  <2>4. CASE n0 <= j
    <3>1. l[n0].priority \in Int /\ l[j].priority \in Int
      BY <1>3, <1>11, <1>13, <2>1
    <3> QED
      BY <2>2, <2>4, <3>1 DEF Before
  <2> QED
    BY <1>9, <2>1, <2>3, <2>4
<1>16. \A n \in DOMAIN l : n \in Nat /\ l[n].priority \in Int
  BY <1>3, <1>9, <1>11
<1>17. Evaluate(l, p) = Said(r)
  BY <1>14, <1>15, <1>16, FirstIsUnique
<1> QED
  BY <1>12, <1>17

\* The service answers some list.
LEMMA SomeListing ==
  ASSUME TableOK
  PROVE  Listings # {}
<1> DEFINE key == [j \in RuleIds |-> IF j \in DOMAIN table THEN table[j].priority ELSE 0]
<1>1. \A j \in DOMAIN table : j \in RuleIds /\ table[j].priority \in Int
  BY AclAssumption DEF TableOK, Rule
<1>2. key \in [RuleIds -> Int] /\ DOMAIN table \in SUBSET RuleIds
  BY <1>1
<1>3. \A j \in DOMAIN table : key[j] = table[j].priority
  BY <1>1
<1> HIDE DEF key
<1>4. PICK o \in Orders(DOMAIN table) :
        \A m, n \in DOMAIN o : m < n => key[o[m]] <= key[o[n]]
  BY <1>2, SortedOrder
<1>5. \A n \in DOMAIN o : o[n] \in DOMAIN table
  BY DEF Orders
<1>6. \A m, n \in DOMAIN o : m < n => table[o[m]].priority <= table[o[n]].priority
  BY <1>3, <1>4, <1>5
<1> QED
  BY <1>6 DEF Listings

\* The verdicts on a packet are what its rules of least priority say.
LEMMA VerdictsArePossible ==
  TableOK => \A p \in Packets : Verdicts(p) = Possible(p)
<1> SUFFICES ASSUME TableOK, NEW p \in Packets PROVE Verdicts(p) = Possible(p)
  OBVIOUS
<1>1. ASSUME NEW l \in Listings PROVE Evaluate(l, p) \in Possible(p)
  <2>1. CASE ~Readable(p)
    BY <2>1 DEF Evaluate, Possible
  <2>2. CASE Readable(p)
    <3>1. PICK o \in Orders(DOMAIN table) : l = [n \in DOMAIN o |-> table[o[n]]]
      BY DEF Listings
    <3>2. \/ (\A r \in Stored : ~Matches(r, p)) /\ Evaluate(l, p) = "allow"
          \/ \E r \in Deciding(Stored, p) : Evaluate(l, p) = Said(r)
      BY <2>2, <3>1, FirstDecides DEF Stored, Said
    <3> QED
      BY <2>2, <3>2 DEF Possible, Deciding
  <2> QED
    BY <2>1, <2>2
<1>2. ASSUME NEW v \in Possible(p) PROVE \E l \in Listings : Evaluate(l, p) = v
  <2>1. CASE Readable(p) /\ Deciding(Stored, p) # {}
    <3>1. PICK r \in Deciding(Stored, p) : v = Said(r)
      BY <1>2, <2>1 DEF Possible
    <3> QED
      BY <2>1, <3>1, MayComeFirst
  <2>2. CASE ~(Readable(p) /\ Deciding(Stored, p) # {})
    <3>1. v = "allow" /\ Possible(p) = {"allow"}
      BY <1>2, <2>2 DEF Possible
    <3> QED
      BY <1>1, <3>1, SomeListing
  <2> QED
    BY <2>1, <2>2
<1> QED
  BY <1>1, <1>2 DEF Verdicts

\* The rules that match are the same after a change to one that does not.
LEMMA OthersDecide ==
  ASSUME TableOK, NEW p, NEW i \in RuleIds,
         Delete(i) \/ \E r \in Rules : Upsert(i, r) /\ ~Matches(r, p),
         i \in DOMAIN table => ~Matches(table[i], p)
  PROVE  Possible(p)' = Possible(p)
<1>1. /\ \A j \in DOMAIN table : j # i => j \in DOMAIN table' /\ table'[j] = table[j]
      /\ \A j \in DOMAIN table' : j # i => j \in DOMAIN table /\ table'[j] = table[j]
      /\ i \in DOMAIN table' => ~Matches(table'[i], p)
  BY DEF Delete, Upsert
<1>2. {r \in Stored' : Matches(r, p)} = {r \in Stored : Matches(r, p)}
  BY <1>1 DEF Stored
<1>3. Deciding(Stored', p) = Deciding(Stored, p)
  BY <1>2 DEF Deciding
<1> QED
  BY <1>3 DEF Possible

(***************************************************************************)
(* Storing or deleting a rule changes no verdict on a packet that neither  *)
(* the rule nor the one it replaces matches.                               *)
(***************************************************************************)
THEOREM OnlyItsPacketsHolds == AclSpec => OnlyItsPackets
<1> DEFINE Characterised == \A p \in Packets : Verdicts(p) = Possible(p)
<1>1. TableOK /\ Characterised /\ Characterised' /\ [AclNext]_table =>
        [\A i \in RuleIds, p \in Packets :
           /\ table' # table
           /\ Delete(i) \/ \E r \in Rules : Upsert(i, r) /\ ~Matches(r, p)
           /\ i \in DOMAIN table => ~Matches(table[i], p)
           => Verdicts(p)' = Verdicts(p)]_table
  <2> SUFFICES ASSUME TableOK, Characterised, Characterised',
                      NEW i \in RuleIds, NEW p \in Packets,
                      Delete(i) \/ \E r \in Rules : Upsert(i, r) /\ ~Matches(r, p),
                      i \in DOMAIN table => ~Matches(table[i], p)
               PROVE  Verdicts(p)' = Verdicts(p)
    OBVIOUS
  <2>1. Possible(p)' = Possible(p)
    BY OthersDecide
  <2> QED
    BY <2>1
<1>2. TableOK => Characterised
  BY VerdictsArePossible
<1> QED
  BY <1>1, <1>2, TableInvariance, PTL DEF AclSpec, OnlyItsPackets

-----------------------------------------------------------------------------
(***************************************************************************)
(* Names. The resolver has the records of the last list and no others,     *)
(* because update_records clears them first; a query finds the record of   *)
(* its name, lowered and stripped of the suffix.                           *)
(***************************************************************************)
\* The devices have names and addresses.
DevicesNamed ==
  \A i \in DOMAIN devices :
    /\ devices[i].host \in Hostnames
    /\ devices[i].addr \in Vips

\* The records are those of the last list.
RecordsListed ==
  /\ listed \subseteq [host : Hostnames \ {<<>>}, addr : Vips]
  /\ DOMAIN records = {Lowered(l.host) : l \in listed}
  /\ \A n \in DOMAIN records :
       \E l \in listed : Lowered(l.host) = n /\ records[n] = l.addr

\* So does the list that the service answers.
LEMMA ListIsNamed ==
  ASSUME DevicesNamed
  PROVE  DnsRecords \subseteq [host : Hostnames \ {<<>>}, addr : Vips]
BY DEF DevicesNamed, DnsRecords

\* update_records clears the records, so each of them is in the new list.
LEMMA InsertedFromNothing ==
  ASSUME NEW list, NEW new \in Inserted(<<>>, list)
  PROVE  /\ DOMAIN new = {Lowered(l.host) : l \in list}
         /\ \A n \in DOMAIN new :
              \E l \in list : Lowered(l.host) = n /\ new[n] = l.addr
<1> DEFINE names == {Lowered(l.host) : l \in list}
<1>1. DOMAIN <<>> = {}
  OBVIOUS
<1>2. PICK f \in [names -> {l.addr : l \in list}] :
        /\ \A n \in names : \E l \in list : Lowered(l.host) = n /\ f[n] = l.addr
        /\ new = [n \in DOMAIN <<>> \cup names |-> IF n \in names THEN f[n] ELSE <<>>[n]]
  BY DEF Inserted
<1> HIDE DEF names
<1>3. DOMAIN new = names /\ \A n \in names : new[n] = f[n]
  BY <1>1, <1>2
<1>4. \A n \in names : \E l \in list : Lowered(l.host) = n /\ new[n] = l.addr
  BY <1>2, <1>3
<1> QED
  BY <1>3, <1>4 DEF names

\* Both are invariants: between two updates the resolver keeps what it has.
LEMMA RecordsInvariance == DnsSpec => [](DevicesNamed /\ RecordsListed)
<1>1. DnsInit => DevicesNamed /\ RecordsListed
  <2> SUFFICES ASSUME DnsInit PROVE DevicesNamed /\ RecordsListed
    OBVIOUS
  <2>1. DOMAIN devices = {} /\ DOMAIN records = {} /\ listed = {}
    BY DEF DnsInit
  <2> QED
    BY <2>1 DEF DevicesNamed, RecordsListed
<1>2. DevicesNamed /\ RecordsListed /\ [DnsNext]_naming
        => (DevicesNamed /\ RecordsListed)'
  <2> SUFFICES ASSUME DevicesNamed, RecordsListed, [DnsNext]_naming
               PROVE  (DevicesNamed /\ RecordsListed)'
    OBVIOUS
  <2>1. CASE Devices
    <3>1. DevicesNamed'
      <4>1. ASSUME NEW i \in Named, NEW host \in Hostnames, NEW addr \in Vips,
                   Register(i, host, addr)
            PROVE  DevicesNamed'
        BY <4>1 DEF DevicesNamed, Register
      <4>2. ASSUME NEW i \in DOMAIN devices, Approve(i)
            PROVE  DevicesNamed'
        <5>1. /\ DOMAIN devices' = DOMAIN devices
              /\ \A j \in DOMAIN devices : /\ devices'[j].host = devices[j].host
                                            /\ devices'[j].addr = devices[j].addr
          BY <4>2 DEF Approve
        <5> QED
          BY <5>1 DEF DevicesNamed
      <4>3. ASSUME NEW i \in DOMAIN devices, Leave(i)
            PROVE  DevicesNamed'
        BY <4>3 DEF DevicesNamed, Leave
      <4> QED
        BY <2>1, <4>1, <4>2, <4>3 DEF Devices
    <3>2. RecordsListed'
      BY <2>1 DEF Devices, RecordsListed, Lowered
    <3> QED
      BY <3>1, <3>2
  <2>2. CASE UpdateRecords
    <3>1. DevicesNamed'
      BY <2>2 DEF UpdateRecords, DevicesNamed
    <3>2. listed' = DnsRecords /\ records' \in Inserted(<<>>, DnsRecords)
      BY <2>2 DEF UpdateRecords
    <3>3. /\ DOMAIN records' = {Lowered(l.host) : l \in DnsRecords}
          /\ \A n \in DOMAIN records' :
               \E l \in DnsRecords : Lowered(l.host) = n /\ records'[n] = l.addr
      BY <3>2, InsertedFromNothing
    <3>4. RecordsListed'
      BY <3>2, <3>3, ListIsNamed DEF RecordsListed
    <3> QED
      BY <3>1, <3>4
  <2>3. CASE UNCHANGED naming
    BY <2>3 DEF naming, DevicesNamed, RecordsListed, Lowered
  <2> QED
    BY <2>1, <2>2, <2>3 DEF DnsNext
<1> QED
  BY <1>1, <1>2, PTL DEF DnsSpec

-----------------------------------------------------------------------------
\* Names are lowered label by label.
LEMMA LoweredName ==
  ASSUME NEW name \in Hostnames \cup Names
  PROVE  /\ Lowered(name) \in Seq(DOMAIN Lower)
         /\ Len(Lowered(name)) = Len(name)
         /\ Len(name) \in Nat /\ DOMAIN name = 1 .. Len(name)
         /\ \A i \in 1 .. Len(name) :
              /\ name[i] \in DOMAIN Lower
              /\ Lowered(name)[i] = Lower[name[i]]
<1>1. name \in Seq(DOMAIN Lower)
  BY DnsAssumption
<1>2. Len(name) \in Nat /\ DOMAIN name = 1 .. Len(name)
  BY <1>1, LenProperties
<1>3. \A i \in 1 .. Len(name) : name[i] \in DOMAIN Lower
  BY <1>1, ElementOfSeq
<1>4. Lowered(name) \in [1 .. Len(name) -> DOMAIN Lower]
  BY <1>2, <1>3, DnsAssumption DEF Lowered
<1>5. Lowered(name) \in UNION {[1 .. n -> DOMAIN Lower] : n \in Nat}
  BY <1>2, <1>4
<1>6. Lowered(name) \in Seq(DOMAIN Lower)
  BY <1>5, SeqDef
<1>7. Len(Lowered(name)) = Len(name)
  BY <1>2, <1>4, <1>6, LenProperties
<1>8. \A i \in 1 .. Len(name) : Lowered(name)[i] = Lower[name[i]]
  BY <1>2 DEF Lowered
<1> QED
  BY <1>2, <1>3, <1>6, <1>7, <1>8

\* The suffix is stripped once.
LEMMA StrippedOnce ==
  ASSUME NEW S, NEW name \in Seq(S)
  PROVE  name = Stripped(name) \/ name = Stripped(name) \o <<Suffix>>
<1> DEFINE front == SubSeq(name, 1, Len(name) - 1)
<1> SUFFICES ASSUME Len(name) > 1, name[Len(name)] = Suffix
             PROVE  name = front \o <<Suffix>>
  BY DEF Stripped
<1>1. Len(name) \in Nat /\ DOMAIN name = 1 .. Len(name)
  BY LenProperties
<1>2. front \in Seq(S) /\ Len(front) = Len(name) - 1
      /\ \A i \in 1 .. Len(name) - 1 : front[i] = name[i]
  BY <1>1, SubSeqProperties
<1>3. name = Append(front, name[Len(name)])
  BY <1>1
<1> HIDE DEF front
<1> QED
  BY <1>2, <1>3, AppendIsConcat

\* A name that was not empty is what is left of it and the suffix.
LEMMA StripsSuffix ==
  ASSUME NEW S, NEW name \in Seq(S), Len(name) > 0
  PROVE  Stripped(name \o <<Suffix>>) = name
<1> DEFINE long == Append(name, Suffix)
<1>1. Len(name) \in Nat
  BY LenProperties
<1>2. name \in Seq(S \cup {Suffix}) /\ name \o <<Suffix>> = long
  BY SeqMonotonic, AppendIsConcat
<1>3. /\ long \in Seq(S \cup {Suffix}) /\ Len(long) = Len(name) + 1
      /\ long[Len(name) + 1] = Suffix
  BY <1>1, <1>2, AppendProperties
<1>4. SubSeq(long, 1, Len(name)) = name
  BY <1>1, <1>2
<1> HIDE DEF long
<1>5. Len(long) > 1 /\ long[Len(long)] = Suffix /\ Len(long) - 1 = Len(name)
  BY <1>1, <1>3
<1>6. Stripped(long) = name
  BY <1>4, <1>5 DEF Stripped
<1> QED
  BY <1>2, <1>6

\* What is answered is in the last list.
LEMMA AnswerIsListed ==
  ASSUME RecordsListed, NEW q \in Query, HandleQuery(q) # NoAddr
  PROVE  \E l \in listed : Asks(q, l) /\ l.addr = HandleQuery(q)
<1> DEFINE asked == Lowered(q.labels)
<1>1. Stripped(asked) \in DOMAIN records /\ HandleQuery(q) = records[Stripped(asked)]
  BY DEF HandleQuery
<1>2. PICK l \in listed : Lowered(l.host) = Stripped(asked) /\ HandleQuery(q) = l.addr
  BY <1>1 DEF RecordsListed
<1>3. asked \in Seq(DOMAIN Lower)
  BY LoweredName DEF Query
<1>4. asked = Stripped(asked) \/ asked = Stripped(asked) \o <<Suffix>>
  BY <1>3, StrippedOnce
<1> QED
  BY <1>2, <1>4 DEF Asks

\* What is asked for and listed is answered.
LEMMA ListedIsAnswered ==
  ASSUME RecordsListed, NEW q \in Query, q.questions > 0, q.tail >= 4,
         NEW l \in listed, Asks(q, l),
         Stripped(Lowered(l.host)) = Lowered(l.host)
  PROVE  HandleQuery(q) # NoAddr
<1> DEFINE asked == Lowered(q.labels)
           name == Lowered(l.host)
<1>1. q.labels \in Names /\ l.host \in Hostnames /\ l.host # <<>>
  BY DEF Query, RecordsListed
<1>2. /\ name \in Seq(DOMAIN Lower) /\ Len(name) = Len(l.host)
      /\ Len(l.host) \in Nat /\ DOMAIN l.host = 1 .. Len(l.host)
      /\ \A i \in 1 .. Len(name) : name[i] = Lower[l.host[i]]
                                   /\ l.host[i] \in DOMAIN Lower
  BY <1>1, LoweredName
<1>3. /\ asked \in Seq(DOMAIN Lower) /\ Len(asked) = Len(q.labels)
      /\ Len(q.labels) \in Nat /\ DOMAIN q.labels = 1 .. Len(q.labels)
      /\ \A i \in 1 .. Len(asked) : asked[i] = Lower[q.labels[i]]
                                    /\ q.labels[i] \in DOMAIN Lower
  BY <1>1, LoweredName
<1>4. asked = name \/ asked = name \o <<Suffix>>
  BY DEF Asks
<1>5. name \in DOMAIN records
  BY DEF RecordsListed
<1>6. Stripped(name) = name
  OBVIOUS
<1>7. Len(name) > 0
  <2>1. l.host \in Seq(DOMAIN Lower)
    BY <1>1, DnsAssumption
  <2> QED
    BY <1>1, <1>2, <2>1, EmptySeq
<1> HIDE DEF asked, name
<1>8. Stripped(asked) = name
  BY <1>2, <1>4, <1>6, <1>7, StripsSuffix
<1>9. \A i \in 1 .. Len(name) : name[i] # NotText
  BY <1>1, <1>2, DnsAssumption
<1>10. \A i \in 1 .. Len(asked) : asked[i] # NotText
  <2>1. CASE asked = name
    BY <1>9, <2>1
  <2>2. CASE asked = name \o <<Suffix>>
    <3>1. /\ <<Suffix>> \in Seq({Suffix}) /\ Len(<<Suffix>>) = 1 /\ <<Suffix>>[1] = Suffix
          /\ Len(name) \in Nat
      BY <1>2
    <3>2. /\ Len(asked) = Len(name) + 1
          /\ \A i \in 1 .. Len(name) + 1 :
               asked[i] = IF i <= Len(name) THEN name[i] ELSE <<Suffix>>[i - Len(name)]
      BY <1>2, <2>2, <3>1, SeqMonotonic, ConcatProperties
    <3>3. Suffix # NotText
      BY DEF Suffix, NotText
    <3> QED
      BY <1>9, <3>1, <3>2, <3>3
  <2> QED
    BY <1>4, <2>1, <2>2
<1>11. \A i \in DOMAIN q.labels : q.labels[i] # NotText
  BY <1>3, <1>10, DnsAssumption
<1>12. HandleQuery(q) = records[name]
  BY <1>5, <1>8, <1>11 DEF HandleQuery, asked
<1>13. records[name] \in Vips
  BY <1>5 DEF RecordsListed
<1> QED
  BY <1>12, <1>13, DnsAssumption

(***************************************************************************)
(* A query is answered with the address of a device of the last list that  *)
(* it asks for, and it is answered if there is one, for any hostnames,     *)
(* queries and changes of the devices.                                     *)
(***************************************************************************)
THEOREM AnswersItsNameHolds == DnsSpec => []AnswersItsName
<1>1. DevicesNamed /\ RecordsListed => AnswersItsName
  BY AnswerIsListed, ListedIsAnswered DEF AnswersItsName
<1> QED
  BY <1>1, RecordsInvariance, PTL
=============================================================================
