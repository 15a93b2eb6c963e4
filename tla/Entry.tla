-------------------------------- MODULE Entry --------------------------------
(***************************************************************************)
(* The entry points of the phone engine (apps/mobile/ffi.rs) and the       *)
(* threads of the host that call them (deploy/ios).  The host has a thread *)
(* that sends, one that polls, the queue of the network monitor, which     *)
(* reconnects, and one that starts the tunnel and answers the app.         *)
(*                                                                         *)
(* A call runs on its host thread, in block_on.  It blocks that thread at  *)
(* the standard mutex of ENGINE and keeps the mutex across its awaits, so  *)
(* its own timer is not looked at before it has the mutex.  The mutexes    *)
(* behind ENGINE are only taken by its holder, who never waits for them.   *)
(* Time is counted in units of 10 ms, what recv_from_any gives each peer.  *)
(***************************************************************************)
EXTENDS Integers, Sequences, FiniteSets, SequencesExt

CONSTANTS
  Peers,       \* the peers the control service may list
  Limits,      \* the time-outs of a poll: 1, 10 and 50 units
  Patience     \* the empty polls after which the next one applies: 50 and 300

Threads == {"outbound", "inbound", "monitor", "app"}
Levels == DOMAIN Limits

ASSUME EntryAssumption ==
  /\ Limits \in Seq(Nat \ {0}) /\ Limits # <<>>
  /\ Patience \in Seq(Nat) /\ Len(Patience) = Len(Limits) - 1
  /\ \A i, j \in Levels : i < j => Limits[i] < Limits[j]
  /\ \A i, j \in DOMAIN Patience : i < j => Patience[i] < Patience[j]
  \* The longest time-out reaches every peer: there are no more than 50.
  /\ Cardinality(Peers) <= Limits[Len(Limits)]

VARIABLES
  lock,        \* the thread that has the mutex of ENGINE
  place,       \* where the call of each thread is
  engine,      \* ENGINE holds an engine
  order,       \* its peers, in the order in which its HashMap yields them
  ready,       \* the peers whose socket holds a datagram (bound: one each)
  at, elapsed, \* the poll: the peer it is at, and how long it has taken
  idle,        \* idleCount of the host: the polls that came back empty
  active,      \* readLoopActive
  monitored    \* the network monitor has been started

poll == <<at, elapsed, idle>>
vars == <<lock, place, engine, order, ready, poll, active, monitored>>

-----------------------------------------------------------------------------
NoOne == "no one"

\* "init" is the HTTP of engine_init, which then waits for the mutex to put
\* its engine there; every other call waits for the mutex at once.
Places == {"host", "init", "swap", "swapping", "wait", "hold"}
Held == [swap |-> "swapping", wait |-> "hold"]

MaxIdle == IF Patience = <<>> THEN 0 ELSE Patience[Len(Patience)]

\* The host's choice of a time-out.
Limit == Limits[1 + Cardinality({i \in DOMAIN Patience : idle >= Patience[i]})]

Go(t, where) == place' = [place EXCEPT ![t] = where]

Return(t) == lock' = NoOne /\ Go(t, "host")

Holds(t, where) == lock = t /\ place[t] = where

\* Every order of every set of peers that includes S.
Orders(S) == {o \in UNION {SetToSeqs(T) : T \in SUBSET Peers} : S \subseteq ToSet(o)}

Init ==
  /\ lock = NoOne
  /\ place = [t \in Threads |-> "host"]
  /\ engine = FALSE
  /\ order = <<>>
  /\ ready = {}
  /\ at = 1 /\ elapsed = 0 /\ idle = 0
  /\ active = FALSE
  /\ monitored = FALSE

-----------------------------------------------------------------------------
(***************************************************************************)
(* ENGINE.lock().unwrap(): any of the waiting threads may get the mutex.   *)
(***************************************************************************)
Acquire(t) ==
  /\ place[t] \in DOMAIN Held
  /\ lock = NoOne
  /\ lock' = t
  /\ Go(t, Held[place[t]])
  /\ UNCHANGED <<engine, order, ready, poll, active, monitored>>

(***************************************************************************)
(* startTunnel: connectalso_init, the address, then the monitor and the    *)
(* loops.  A start that fails may be tried again.  stopTunnel ends the     *)
(* loops and not the monitor; connectalso_shutdown does nothing.  The      *)
(* other calls come after the first engine: none of them finds ENGINE      *)
(* empty, and none goes on before there is one.                            *)
(***************************************************************************)
StartTunnel ==
  /\ ~monitored
  /\ place["app"] = "host"
  /\ Go("app", "init")
  /\ UNCHANGED <<lock, engine, order, ready, poll, active, monitored>>

\* The control service has answered, or has not.
InitAnswered ==
  /\ place["app"] = "init"
  /\ Go("app", "swap") \/ Go("app", "host")
  /\ UNCHANGED <<lock, engine, order, ready, poll, active, monitored>>

\* The new engine has its own map and its own sockets.
SwapEngine ==
  /\ Holds("app", "swapping")
  /\ engine' = TRUE
  /\ order' \in Orders({})
  /\ ready' = {}
  /\ lock' = NoOne
  /\ Go("app", "wait")
  /\ UNCHANGED <<poll, active, monitored>>

AppMessage ==
  /\ monitored
  /\ place["app"] = "host"
  /\ Go("app", "wait")
  /\ UNCHANGED <<lock, engine, order, ready, poll, active, monitored>>

\* Mutant: asks for the state of the engine on the way, which takes ENGINE.
GetVirtualIpAndState ==
  /\ Holds("app", "hold") /\ engine
  /\ Go("app", "wait")
  /\ UNCHANGED <<lock, engine, order, ready, poll, active, monitored>>

\* getVirtualIP answers the app or, if the settings are accepted, ends the
\* start of the tunnel.
GetVirtualIp ==
  /\ Holds("app", "hold") /\ engine
  /\ Return("app")
  /\ \/ ~monitored /\ active' = TRUE /\ monitored' = TRUE
     \/ UNCHANGED <<active, monitored>>
  /\ UNCHANGED <<engine, order, ready, poll>>

StopTunnel ==
  /\ active
  /\ place["app"] = "host"
  /\ active' = FALSE
  /\ UNCHANGED <<lock, place, engine, order, ready, poll, monitored>>

-----------------------------------------------------------------------------
(***************************************************************************)
(* connectalso_send_packet: a datagram leaves without waiting.             *)
(***************************************************************************)
SendStarts ==
  /\ active
  /\ place["outbound"] = "host"
  /\ Go("outbound", "wait")
  /\ UNCHANGED <<lock, engine, order, ready, poll, active, monitored>>

SendReturns ==
  /\ Holds("outbound", "hold") /\ engine
  /\ Return("outbound")
  /\ UNCHANGED <<engine, order, ready, poll, active, monitored>>

(***************************************************************************)
(* connectalso_reconnect, when the network has changed: two requests to    *)
(* the control service, then a new socket for each peer in the answer.     *)
(* What the old sockets held is lost, and a map that grows may be          *)
(* rearranged.                                                             *)
(***************************************************************************)
ReconnectStarts ==
  /\ monitored
  /\ place["monitor"] = "host"
  /\ Go("monitor", "wait")
  /\ UNCHANGED <<lock, engine, order, ready, poll, active, monitored>>

ReconnectReturns ==
  /\ Holds("monitor", "hold") /\ engine
  /\ Return("monitor")
  /\ \E renewed \in SUBSET Peers :
       /\ ready' = ready \ renewed
       /\ IF renewed \subseteq ToSet(order) THEN order' = order
          ELSE order' \in {o \in Orders(ToSet(order)) :
                             ToSet(o) = ToSet(order) \cup renewed}
  /\ UNCHANGED <<engine, poll, active, monitored>>

-----------------------------------------------------------------------------
(***************************************************************************)
(* connectalso_recv_packet_timeout around recv_from_any: the peers in      *)
(* turn, a unit of time for each.                                          *)
(***************************************************************************)
PollStarts ==
  /\ active
  /\ place["inbound"] = "host"
  /\ Go("inbound", "wait")
  /\ at' = 1 /\ elapsed' = 0
  /\ UNCHANGED <<lock, engine, order, ready, idle, active, monitored>>

\* The thread is blocked at the mutex while a reconnection, which talks to the
\* control service, has it; the other calls are over within a unit of time.
PollBlocked ==
  /\ place["inbound"] = "wait"
  /\ lock = "monitor"
  /\ elapsed <= Limit
  /\ elapsed' = elapsed + 1
  /\ UNCHANGED <<lock, place, engine, order, ready, at, idle, active, monitored>>

Polling == Holds("inbound", "hold") /\ engine

ReadPeer ==
  /\ Polling
  /\ at \in DOMAIN order /\ order[at] \in ready
  /\ ready' = ready \ {order[at]}
  /\ idle' = 0
  /\ Return("inbound")
  /\ UNCHANGED <<engine, order, at, elapsed, active, monitored>>

\* Mutant: a peer that has nothing ends the poll.
NextPeerGivesUp ==
  /\ Polling
  /\ at \in DOMAIN order /\ order[at] \notin ready
  /\ elapsed < Limit
  /\ at' = Len(order) + 1
  /\ elapsed' = elapsed + 1
  /\ UNCHANGED <<lock, place, engine, order, ready, idle, active, monitored>>

NextPeer ==
  /\ Polling
  /\ at \in DOMAIN order /\ order[at] \notin ready
  /\ elapsed < Limit
  /\ at' = at + 1
  /\ elapsed' = elapsed + 1
  /\ UNCHANGED <<lock, place, engine, order, ready, idle, active, monitored>>

\* No data, or the time is over: what comes first is looked at once all the
\* same, what comes later only if its turn is not after the end.
PollReturns ==
  /\ Polling
  /\ \/ at \notin DOMAIN order
     \/ /\ at \in DOMAIN order
        /\ elapsed >= Limit
        /\ at > 1 \/ order[at] \notin ready
  /\ idle' = IF idle < MaxIdle THEN idle + 1 ELSE idle
  /\ Return("inbound")
  /\ UNCHANGED <<engine, order, ready, at, elapsed, active, monitored>>

\* A datagram of a peer arrives at its socket.
Arrive(p) ==
  /\ p \in ToSet(order)
  /\ ready' = ready \cup {p}
  /\ UNCHANGED <<lock, place, engine, order, poll, active, monitored>>

Next ==
  \/ \E t \in Threads : Acquire(t)
  \/ StartTunnel \/ InitAnswered \/ SwapEngine \/ GetVirtualIp
  \/ AppMessage \/ StopTunnel
  \/ SendStarts \/ SendReturns
  \/ ReconnectStarts \/ ReconnectReturns
  \/ PollStarts \/ PollBlocked \/ ReadPeer \/ NextPeer \/ PollReturns
  \/ \E p \in Peers : Arrive(p)

-----------------------------------------------------------------------------
\* What the thread does that has the mutex.
HolderGoesOn ==
  \/ SwapEngine \/ GetVirtualIp \/ SendReturns \/ ReconnectReturns
  \/ ReadPeer \/ NextPeer \/ PollReturns

(***************************************************************************)
(* The thread that has the mutex goes on: the control service answers a    *)
(* request or fails it, and no other mutex is waited for.  The host polls  *)
(* again and again.  That a thread which waits at the mutex gets it, if it *)
(* is released again and again, is assumed of the operating system.        *)
(***************************************************************************)
Fairness ==
  /\ WF_vars(InitAnswered)
  /\ WF_vars(HolderGoesOn)
  /\ WF_vars(PollStarts)
  /\ \A t \in Threads : SF_vars(Acquire(t))

Spec == Init /\ [][Next]_vars /\ Fairness

-----------------------------------------------------------------------------
(***************************************************************************)
(* One thread at a time is between lock and unlock of ENGINE, and no call  *)
(* gets there before connectalso_init has put an engine in: none of them   *)
(* answers "engine not initialized", although nothing but the order of the *)
(* host's own starts sees to that.                                         *)
(***************************************************************************)
EngineInPlace ==
  /\ \A t \in Threads : place[t] \in {"swapping", "hold"} <=> lock = t
  /\ \A t \in Threads : place[t] \in {"wait", "hold"} => engine
  /\ active \/ monitored => engine

(***************************************************************************)
(* No datagram waits at a socket that no poll looks at, and no poll looks  *)
(* at a peer twice, although reconnections renew sockets, add peers and    *)
(* rearrange the map between two polls.                                    *)
(***************************************************************************)
ReadyArePolled ==
  /\ ready \subseteq ToSet(order)
  /\ \A i, j \in DOMAIN order : i # j => order[i] # order[j]

\* The peers that are polled before p.
Ahead(p) == {order[i] : i \in {j \in DOMAIN order :
                                 \E k \in DOMAIN order : j < k /\ order[k] = p}}

(***************************************************************************)
(* No call of the host is stuck: every one of them returns, whatever the   *)
(* others do with the engine, if the control service answers or fails.     *)
(***************************************************************************)
CallsReturn == \A t \in Threads : place[t] # "host" ~> place[t] = "host"

(***************************************************************************)
(* recv_from_any always begins with the same peer, and a short time-out    *)
(* ends it there.  Still a datagram is not left in its socket for ever     *)
(* while the host polls, unless the peers ahead of it keep talking.        *)
(***************************************************************************)
PeersHeard ==
  \A p \in Peers :
    <>[](active /\ place["monitor"] = "host" /\ Ahead(p) \cap ready = {})
      => []<>(p \notin ready)
=============================================================================
