-------------------------------- MODULE Daemon --------------------------------
(***************************************************************************)
(* The tasks of one daemon (apps/daemon): the start, the task that         *)
(* forwards packets from the TUN device, the periodic task, the pollers of *)
(* the links and the handlers of the local API.  They share the state      *)
(* behind one tokio mutex, and every link of it behind another.            *)
(*                                                                         *)
(* An action is the code of one task between two awaits that can wait for  *)
(* another task or for the network.  The network: an HTTP request ends     *)
(* with an answer or an error, the relay probes have timeouts, but a STUN  *)
(* discovery waits for its datagram as long as it takes.                   *)
(***************************************************************************)
EXTENDS Naturals, Sequences

CONSTANTS
  Peers,        \* the devices the control service may list
  Requests,     \* the requests of the local API in flight at once
  Kinds,        \* what is asked: a subset of {"status", "diagnostics"}
  MaxChanges,   \* bound: changes to the list of approved peers
  MaxFaults     \* bound: HTTP requests and registrations that fail

ASSUME DaemonAssumption ==
  /\ Requests \cap {"tun", "periodic"} = {}
  /\ Kinds \subseteq {"status", "diagnostics"}
  /\ MaxChanges \in Nat /\ MaxFaults \in Nat

VARIABLES
  approved,     \* what GET /peers answers, without this device
  changes, faults,
  main,         \* where the start is
  periodic,     \* where the periodic task is
  fresh,        \* the links that connect_peers has made and not yet shared
  routes, links,  \* ip_route and peer_links of SharedState
  first,        \* the shared links are those of the start, which have pollers
  lock,         \* the queue of the mutex of SharedState; the head holds it
  tun, dst,     \* where the forwarding task is, and the packet's destination
  req,          \* where each request is
  polled        \* the links whose mutex is held by a poller

world == <<approved, changes, faults>>
shared == <<routes, links, first>>
vars == <<world, main, periodic, fresh, shared, lock, tun, dst, req, polled>>

-----------------------------------------------------------------------------
NoRequest == [pc |-> "idle", kind |-> "status", todo |-> {}]

Tasks == {"tun", "periodic"} \cup Requests

Request == [pc : {"idle", "lock", "http", "stun", "relay", "links", "silent"},
            kind : Kinds \cup {"status"}, todo : SUBSET Peers]

Enter(task) == lock' = Append(lock, task)
Holds(task) == lock # <<>> /\ Head(lock) = task
Leave(task) == Holds(task) /\ lock' = Tail(lock)

\* A task that is dropped gives up its place in the queue, or the mutex.
Withdraw(task) ==
  \E i \in DOMAIN lock :
    /\ lock[i] = task
    /\ lock' = SubSeq(lock, 1, i - 1) \o SubSeq(lock, i + 1, Len(lock))

Ok == UNCHANGED world
Fails == /\ faults < MaxFaults
         /\ faults' = faults + 1
         /\ UNCHANGED <<approved, changes>>

Up == main = "up"

\* A network as it is when the daemon starts; MaxChanges changes are to come.
Init ==
  /\ approved \in {{}, Peers} /\ changes = 0 /\ faults = 0
  /\ main = "register"
  /\ periodic = "tick"
  /\ fresh = {}
  /\ routes = {} /\ links = {} /\ first = TRUE
  /\ lock = <<>>
  /\ tun = "read" /\ dst \in Peers
  /\ req = [r \in Requests |-> NoRequest]
  /\ polled = {}

-----------------------------------------------------------------------------
(***************************************************************************)
(* The start.  A ? that fails ends the process, and systemd starts it      *)
(* again (Restart=on-failure).                                             *)
(***************************************************************************)

\* POST /register; the answer is kept for good.
MainRegister ==
  /\ main = "register"
  /\ \/ Ok /\ main' = "discover"
     \/ Fails /\ UNCHANGED main
  /\ UNCHANGED <<periodic, fresh, shared, lock, tun, dst, req, polled>>

\* discover_candidates and publish_candidates: errors are ignored, silence is
\* waited out.
MainDiscover ==
  /\ main = "discover"
  /\ \/ main' = "connect"
     \/ main' = "silent"
  /\ UNCHANGED <<world, periodic, fresh, shared, lock, tun, dst, req, polled>>

\* connect_peers: its error is the end.
MainConnect ==
  /\ main = "connect"
  /\ \/ Ok /\ fresh' = approved /\ main' = "punch"
     \/ Fails /\ main' = "register" /\ UNCHANGED fresh
  /\ UNCHANGED <<periodic, shared, lock, tun, dst, req, polled>>

\* The TUN device, the P2P attempts, and the tasks are spawned.
MainUp ==
  /\ main = "punch"
  /\ fresh' = {}
  /\ \/ /\ Ok
        /\ main' = "up"
        /\ routes' = fresh /\ links' = fresh
     \/ /\ Fails
        /\ main' = "register"
        /\ UNCHANGED <<routes, links>>
  /\ UNCHANGED <<periodic, first, lock, tun, dst, req, polled>>

-----------------------------------------------------------------------------
(***************************************************************************)
(* The periodic task, every 30 seconds.                                    *)
(***************************************************************************)

\* Mutant: the state is locked for the whole of the tick.
HeartbeatLocked ==
  /\ Up /\ periodic = "tick"
  /\ periodic' = "discover"
  /\ Enter("periodic")
  /\ UNCHANGED <<world, main, fresh, shared, tun, dst, req, polled>>

\* The heartbeat, whose answer is not looked at, and the probes of the relays.
Heartbeat ==
  /\ Up /\ periodic = "tick"
  /\ periodic' = "discover"
  /\ UNCHANGED <<world, main, fresh, shared, lock, tun, dst, req, polled>>

\* discover_candidates and publish_candidates.
Discover ==
  /\ Up /\ periodic = "discover"
  /\ \/ periodic' = "peers"
     \/ periodic' = "silent"
  /\ UNCHANGED <<world, main, fresh, shared, lock, tun, dst, req, polled>>

\* connect_peers: one relay client per approved peer, or an error for them all
\* and the old links stay.
ConnectPeers ==
  /\ Up /\ periodic = "peers"
  /\ \/ Ok /\ fresh' = approved /\ periodic' = "punch"
     \/ Fails /\ periodic' = "tick" /\ UNCHANGED fresh
  /\ UNCHANGED <<main, shared, lock, tun, dst, req, polled>>

\* attempt_p2p_for_all locks the fresh links, which nobody else knows, asks for
\* candidates and punches; then the task queues for the state.
AttemptP2p ==
  /\ Up /\ periodic = "punch"
  /\ periodic' = "lock"
  /\ Enter("periodic")
  /\ UNCHANGED <<world, main, fresh, shared, tun, dst, req, polled>>

\* Mutant: peers that are known keep their routes and links.
SwapAddsOnly ==
  /\ Up /\ periodic = "lock" /\ Leave("periodic")
  /\ routes' = routes \cup fresh
  /\ links' = links \cup fresh
  /\ first' = FALSE
  /\ fresh' = {}
  /\ polled' = {}
  /\ periodic' = "tick"
  /\ UNCHANGED <<world, main, tun, dst, req>>

\* Mutant: the maps are replaced without the lock.
SwapUnlocked ==
  /\ Up /\ periodic = "lock"
  /\ routes' = fresh /\ links' = fresh
  /\ first' = FALSE
  /\ fresh' = {}
  /\ polled' = {}
  /\ Withdraw("periodic")
  /\ periodic' = "tick"
  /\ UNCHANGED <<world, main, tun, dst, req>>

\* Both maps are replaced under the lock.  The pollers keep the links of the
\* start, which nobody shares from here on.
Swap ==
  /\ Up /\ periodic = "lock" /\ Leave("periodic")
  /\ routes' = fresh /\ links' = fresh
  /\ first' = FALSE
  /\ fresh' = {}
  /\ polled' = {}
  /\ periodic' = "tick"
  /\ UNCHANGED <<world, main, tun, dst, req>>

-----------------------------------------------------------------------------
(***************************************************************************)
(* The forwarding task: it holds the state while it waits for the link,    *)
(* and both while it sends.                                                *)
(***************************************************************************)
TunRead(p) ==
  /\ Up /\ tun = "read"
  /\ tun' = "lock" /\ dst' = p
  /\ Enter("tun")
  /\ UNCHANGED <<world, main, periodic, fresh, shared, req, polled>>

TunRoute ==
  /\ Up /\ tun = "lock" /\ Holds("tun")
  /\ \/ /\ dst \in routes \cap links
        /\ tun' = "link"
        /\ UNCHANGED lock
     \/ /\ dst \notin routes \cap links
        /\ tun' = "read"
        /\ Leave("tun")
  /\ UNCHANGED <<world, main, periodic, fresh, shared, dst, req, polled>>

\* A request never holds the mutex of a link without the state, so the poller
\* is the only rival.
TunLink ==
  /\ Up /\ tun = "link" /\ dst \notin polled
  /\ tun' = "send"
  /\ UNCHANGED <<world, main, periodic, fresh, shared, lock, dst, req, polled>>

\* path.send, whose error is ignored; both mutexes are released.
TunSend ==
  /\ Up /\ tun = "send"
  /\ tun' = "read"
  /\ Leave("tun")
  /\ UNCHANGED <<world, main, periodic, fresh, shared, dst, req, polled>>

\* The pollers of the first links lock and unlock them every 100 ms.  The mutex
\* is fair: while a task waits for a link, its poller does not get it.
Awaits(p) == \/ tun \in {"link", "send"} /\ dst = p
             \/ \E r \in Requests : req[r].pc = "links" /\ p \in req[r].todo

Poll(p) ==
  /\ Up /\ first /\ p \in links
  /\ \/ p \in polled /\ polled' = polled \ {p}
     \/ p \notin polled /\ ~Awaits(p) /\ polled' = polled \cup {p}
  /\ UNCHANGED <<world, main, periodic, fresh, shared, lock, tun, dst, req>>

-----------------------------------------------------------------------------
(***************************************************************************)
(* GET /status and GET /diagnostics: the state is held to the end, over    *)
(* the checks of the control service, of STUN and of the relay.            *)
(***************************************************************************)
Goes(r, pc) == req' = [req EXCEPT ![r].pc = pc]

Ask(r, kind) ==
  /\ Up /\ req[r].pc = "idle"
  /\ req' = [req EXCEPT ![r].pc = "lock", ![r].kind = kind]
  /\ Enter(r)
  /\ UNCHANGED <<world, main, periodic, fresh, shared, tun, dst, polled>>

Begin(r) ==
  /\ Up /\ req[r].pc = "lock" /\ Holds(r)
  /\ \/ /\ req[r].kind = "status"
        /\ req' = [req EXCEPT ![r].pc = "links", ![r].todo = links]
     \/ /\ req[r].kind = "diagnostics"
        /\ Goes(r, "http")
  /\ UNCHANGED <<world, main, periodic, fresh, shared, lock, tun, dst, polled>>

\* check_http, then check_stun, then check_udp with its two seconds.
Check(r) ==
  /\ Up
  /\ \/ req[r].pc = "http" /\ Goes(r, "stun")
     \/ req[r].pc = "stun" /\ Goes(r, "relay")
     \/ req[r].pc = "stun" /\ Goes(r, "silent")
     \/ /\ req[r].pc = "relay"
        /\ req' = [req EXCEPT ![r].pc = "links", ![r].todo = links]
  /\ UNCHANGED <<world, main, periodic, fresh, shared, lock, tun, dst, polled>>

\* Each link is locked for its status and unlocked.
Visit(r, p) ==
  /\ Up /\ req[r].pc = "links" /\ p \in req[r].todo
  /\ p \notin polled
  /\ req' = [req EXCEPT ![r].todo = @ \ {p}]
  /\ UNCHANGED <<world, main, periodic, fresh, shared, lock, tun, dst, polled>>

Answer(r) ==
  /\ Up /\ req[r].pc = "links" /\ req[r].todo = {}
  /\ req' = [req EXCEPT ![r] = NoRequest]
  /\ Leave(r)
  /\ UNCHANGED <<world, main, periodic, fresh, shared, tun, dst, polled>>

\* Mutant: the handler's place in the queue of the mutex outlives it.
CancelKeepsPlace(r) ==
  /\ Up /\ req[r].pc # "idle"
  /\ req' = [req EXCEPT ![r] = NoRequest]
  /\ UNCHANGED <<world, main, periodic, fresh, shared, lock, tun, dst, polled>>

\* A client that goes away drops its handler, and what it holds.
Cancel(r) ==
  /\ Up /\ req[r].pc # "idle"
  /\ req' = [req EXCEPT ![r] = NoRequest]
  /\ Withdraw(r)
  /\ UNCHANGED <<world, main, periodic, fresh, shared, tun, dst, polled>>

-----------------------------------------------------------------------------
\* The operator approves and revokes.
Approved(list) ==
  /\ changes < MaxChanges
  /\ list # approved
  /\ approved' = list
  /\ changes' = changes + 1
  /\ UNCHANGED <<faults, main, periodic, fresh, shared, lock, tun, dst, req, polled>>

\* The process dies and systemd starts it again.
Crash ==
  /\ Fails
  /\ main' = "register" /\ periodic' = "tick" /\ fresh' = {}
  /\ routes' = {} /\ links' = {} /\ first' = TRUE
  /\ lock' = <<>> /\ tun' = "read" /\ UNCHANGED dst
  /\ req' = [r \in Requests |-> NoRequest]
  /\ polled' = {}

Main == MainRegister \/ MainDiscover \/ MainConnect \/ MainUp
Periodic == Heartbeat \/ Discover \/ ConnectPeers \/ AttemptP2p \/ Swap
Forward == TunRoute \/ TunLink \/ TunSend
Handle(r) == Begin(r) \/ Check(r) \/ (\E p \in Peers : Visit(r, p)) \/ Answer(r)

Next ==
  \/ Main \/ Periodic \/ Forward
  \/ \E p \in Peers : TunRead(p) \/ Poll(p)
  \/ \E r \in Requests : (\E k \in Kinds : Ask(r, k)) \/ Handle(r) \/ Cancel(r)
  \/ \E list \in SUBSET Peers : Approved(list)
  \/ Crash

(***************************************************************************)
(* Every task that can go on does: the runtime schedules it, its timers    *)
(* fire and its HTTP requests end.  Nobody has to ask, send or cancel.     *)
(***************************************************************************)
Fairness ==
  /\ WF_vars(Main)
  /\ WF_vars(Periodic)
  /\ WF_vars(Forward)
  /\ \A p \in Peers : WF_vars(Poll(p))
  /\ \A r \in Requests : WF_vars(Handle(r))

Spec == Init /\ [][Next]_vars /\ Fairness

-----------------------------------------------------------------------------
TypeOK ==
  /\ approved \subseteq Peers
  /\ changes \in 0 .. MaxChanges /\ faults \in 0 .. MaxFaults
  /\ main \in {"register", "discover", "connect", "punch", "up", "silent"}
  /\ periodic \in {"tick", "discover", "peers", "punch", "lock", "silent"}
  /\ fresh \subseteq Peers /\ routes \subseteq Peers /\ links \subseteq Peers
  /\ first \in BOOLEAN
  /\ lock \in Seq(Tasks)
  /\ tun \in {"read", "lock", "link", "send"} /\ dst \in Peers
  /\ req \in [Requests -> Request]
  /\ polled \subseteq Peers

(***************************************************************************)
(* The mutex of SharedState through cancellations, swaps and crashes: a    *)
(* task is in its queue once, as long as it waits for the state or uses    *)
(* it, and only the task at the head uses it.                              *)
(***************************************************************************)
Queues(task) == CASE task = "tun" -> tun # "read"
                  [] task = "periodic" -> periodic = "lock"
                  [] OTHER -> req[task].pc # "idle"

Uses(task) == CASE task = "tun" -> tun \in {"link", "send"}
                [] task = "periodic" -> FALSE
                [] OTHER -> req[task].pc \notin {"idle", "lock"}

StateIsExclusive ==
  /\ \A i, j \in DOMAIN lock : lock[i] = lock[j] => i = j
  /\ \A t \in Tasks : Queues(t) <=> \E i \in DOMAIN lock : lock[i] = t
  /\ \A t \in Tasks : Uses(t) => Holds(t)

(***************************************************************************)
(* The link that a packet goes to stays shared until it is sent: the       *)
(* periodic task does not replace the maps under a packet.                 *)
(***************************************************************************)
NoLinkIsLost == tun \in {"link", "send"} => dst \in routes \cap links

(***************************************************************************)
(* A STUN datagram that is lost is waited for without end: nothing but a   *)
(* crash, or for a request its client, ends the silence.                   *)
(***************************************************************************)
ApiHears == []<>(\A r \in Requests : req[r].pc # "silent")
TasksHear == []<>(main # "silent" /\ periodic # "silent")

(***************************************************************************)
(* A packet that was read is sent or dropped, and the next one is read,    *)
(* unless a diagnostics request waits for STUN forever: neither the other  *)
(* requests nor a periodic task that waits forever keep it.                *)
(***************************************************************************)
TunServes == ApiHears => (tun # "read" ~> tun = "read")

(***************************************************************************)
(* A request of the local API is answered, unless one (it or another)      *)
(* waits for STUN forever, whatever the other tasks wait for.              *)
(***************************************************************************)
Answered ==
  ApiHears => \A r \in Requests : req[r].pc # "idle" ~> req[r].pc = "idle"

(***************************************************************************)
(* When the operator has stopped changing the list, the daemon routes to   *)
(* the approved peers, to all of them and to no other, as long as STUN     *)
(* answers.                                                                *)
(***************************************************************************)
RoutesCatchUp ==
  ApiHears /\ TasksHear => <>[](routes = approved /\ links = approved)
=============================================================================
