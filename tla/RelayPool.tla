------------------------------ MODULE RelayPool ------------------------------
(***************************************************************************)
(* The relay pool of the daemon (crates/tunnel/relay_pool.rs): which of    *)
(* the configured relays a round of the daemon uses.                       *)
(*                                                                         *)
(* probe_all and failover run to their end under a mutable borrow, so each *)
(* is one step.  The environment is the relays: one that is echoing        *)
(* answers a probe, one that is silent does not.  Silent is a relay that   *)
(* is down, and also the relay of this repository, which drops the         *)
(* one-byte probe as a bad frame; a flaky relay goes from one to the other.*)
(***************************************************************************)
EXTENDS Integers

CONSTANTS
  N,            \* the number of relays, in the order of the command line
  MaxLatency,   \* bound: the latencies are 1 .. MaxLatency
  MaxFailures   \* bound: the count of failures stops there

\* new() panics when there is no relay; 3 is what the code compares with.
ASSUME RelayPoolAssumption ==
  /\ N \in Nat \ {0}
  /\ MaxLatency \in Nat \ {0}
  /\ MaxFailures \in Nat /\ MaxFailures >= 3

VARIABLES
  servers,      \* the RelayServers
  active,       \* the index of the active one
  health        \* the relays themselves

pool == <<servers, active, health>>

-----------------------------------------------------------------------------
Index == 1 .. N
Unmeasured == 0                      \* None
Infinity == MaxLatency + 1           \* Duration::MAX

Server == [latency : 0 .. MaxLatency, healthy : BOOLEAN,
           failures : 0 .. MaxFailures]
Health == {"echoing", "silent"}

\* What a probe of one server may come to: an answer after some time, none in
\* two seconds, or no socket to send it from.
Answers == {[kind |-> "answer", latency |-> l] : l \in 1 .. MaxLatency}
Silence == [kind |-> "silence", latency |-> Unmeasured]
NoSocket == [kind |-> "no socket", latency |-> Unmeasured]

OutcomesOf(i) ==
  CASE health[i] = "silent" -> {Silence}
    [] health[i] = "echoing" -> Answers

OneMore(n) == IF n < MaxFailures THEN n + 1 ELSE n

\* Mutant: a timeout counts, and is never held against the server.
CountedForgiving(s) == [s EXCEPT !.failures = OneMore(@)]

\* One more failure, the third of which is held against the server.
Counted(s) == [s EXCEPT !.failures = OneMore(@),
                        !.healthy = @ /\ s.failures + 1 < 3]

Probed(s, outcome) ==
  CASE outcome.kind = "answer" ->
         [latency |-> outcome.latency, healthy |-> TRUE, failures |-> 0]
    [] outcome.kind = "silence" -> Counted(s)
    [] outcome.kind = "no socket" ->
         [s EXCEPT !.failures = OneMore(@), !.healthy = FALSE]

\* Mutants of Better: an unmeasured relay wins over the measured ones before
\* it; a relay as fast as the best so far replaces it.
BetterUnmeasured(s, best) ==
  /\ s.healthy
  /\ s.latency # Unmeasured => s.latency < best.latency

BetterOrAsFast(s, best) ==
  /\ s.healthy
  /\ \/ s.latency # Unmeasured /\ s.latency <= best.latency
     \/ s.latency = Unmeasured /\ best.index = 0

\* select_best, one server of its loop: whether s replaces the best so far.
Better(s, best) ==
  /\ s.healthy
  /\ \/ s.latency # Unmeasured /\ s.latency < best.latency
     \/ s.latency = Unmeasured /\ best.index = 0

\* The best so far, once server i of the list has been looked at.  An unmeasured
\* server leaves the best latency where it is.
NoneYet == [index |-> 0, latency |-> Infinity]

Improved(best, list, i) ==
  IF ~Better(list[i], best) THEN best
  ELSE [index |-> i, latency |-> IF list[i].latency = Unmeasured
                                 THEN best.latency ELSE list[i].latency]

\* select_best: the loop over the servers, 0 if none is healthy.
BestOf(list) ==
  LET best[i \in 0 .. N] ==
        IF i = 0 THEN NoneYet ELSE Improved(best[i - 1], list, i)
  IN best[N].index

\* select_best, its end: if no server is healthy the active one stays.
SelectBest(list, old) ==
  LET best == BestOf(list) IN IF best = 0 THEN old ELSE best

PoolInit ==
  /\ servers = [i \in Index |-> [latency |-> Unmeasured, healthy |-> TRUE,
                                 failures |-> 0]]
  /\ active = 1
  /\ health \in [Index -> Health]

-----------------------------------------------------------------------------
(***************************************************************************)
(* probe_all: every server in turn, then select_best.  Sockets may run out *)
(* for some of the probes: ProbeAllShort.                                  *)
(***************************************************************************)
ProbeAllWith(outcome) ==
  /\ servers' = [i \in Index |-> Probed(servers[i], outcome[i])]
  /\ active' = SelectBest(servers', active)
  /\ UNCHANGED health

Outcomes == {o \in [Index -> Answers \cup {Silence}] :
               \A i \in Index : o[i] \in OutcomesOf(i)}

ProbeAll == \E o \in Outcomes : ProbeAllWith(o)

ProbeAllShort ==
  \E o \in [Index -> Answers \cup {Silence, NoSocket}] :
    /\ \A i \in Index : o[i] = NoSocket \/ o[i] \in OutcomesOf(i)
    /\ \E i \in Index : o[i] = NoSocket
    /\ ProbeAllWith(o)

\* failover: the active server has failed once more.
Failover ==
  /\ servers' = [servers EXCEPT ![active] = Counted(@)]
  /\ active' = SelectBest(servers', active)
  /\ UNCHANGED health

\* A relay comes or goes.
Weather ==
  /\ \E i \in Index, h \in Health : health' = [health EXCEPT ![i] = h]
  /\ UNCHANGED <<servers, active>>

PoolNext == ProbeAll \/ ProbeAllShort \/ Failover \/ Weather

(***************************************************************************)
(* The daemon probes every 30 seconds, and not every probe lacks a socket. *)
(***************************************************************************)
PoolSpec == PoolInit /\ [][PoolNext]_pool /\ WF_pool(ProbeAll)

-----------------------------------------------------------------------------
(***************************************************************************)
(* After every probe and failover the active relay is the best one: it is  *)
(* healthy if any is, and of the healthy ones that have been measured none *)
(* is faster.  The loop of select_best meets unmeasured and equally fast   *)
(* servers in any order.                                                   *)
(***************************************************************************)
ActiveIsBest ==
  \A i \in Index : servers[i].healthy =>
    /\ servers[active].healthy
    /\ servers[i].latency # Unmeasured =>
         /\ servers[active].latency # Unmeasured
         /\ servers[active].latency <= servers[i].latency

(***************************************************************************)
(* The pool does not flap: it leaves a relay it takes for healthy only for *)
(* one that has been measured and is faster (or as fast and earlier in the *)
(* list), and it never leaves one for a relay that is not healthy.         *)
(***************************************************************************)
LeavesForBetter ==
  [][active' # active =>
       /\ servers'[active'].healthy
       /\ servers'[active].healthy =>
            /\ servers'[active'].latency # Unmeasured
            /\ \/ servers'[active].latency = Unmeasured
               \/ servers'[active'].latency < servers'[active].latency
               \/ /\ servers'[active'].latency = servers'[active].latency
                  /\ active' < active]_pool

(***************************************************************************)
(* A relay that stays silent is left for good when another one stays up    *)
(* and answers, whatever failovers and probes without a socket come in     *)
(* between: two lost probes are forgiven, the third is not.                *)
(***************************************************************************)
SilentIsLeft ==
  \A i, j \in Index :
    <>[](health[i] = "silent" /\ health[j] = "echoing") => <>[](active # i)
=============================================================================
