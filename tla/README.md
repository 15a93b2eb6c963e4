# ConnectAlso in TLA+

This directory is a verification development of ConnectAlso, a mesh VPN in Rust:
TLA+ modules that model its control service, relay, tunnel, NAT traversal, daemon
and phone engine, configurations for TLC, and theorems checked by TLAPS.

Contents: 1 the system, 2 what is hard about it, 3 the modules, 4 the runs,
5 bounds, 6 fairness, 7 proofs, 8 divergences, 9 what is not modelled,
10 what is left.

## 1. The system

| Component | State it keeps | Operations | Talks to |
|---|---|---|---|
| Control service (`services/control`) | SQLite tables `devices`, `ip_pool`, `candidates`, `acl_rules`, DNS records; a backup file | register, approve, revoke, unregister, heartbeat, list peers, publish and fetch candidates, ACL and DNS CRUD, backup, restore; a periodic purge | everybody, over HTTP |
| Relay (`services/relay`) | one in-memory map from device id to UDP address | HELLO, KEEPALIVE, DATA | relay clients, over UDP |
| Relay client (`crates/tunnel/relay.rs`) | a socket, its own id, the id of one peer | register, send, recv, keepalive | the relay |
| Relay pool (`crates/tunnel/relay_pool.rs`) | for each relay its latency, health and failures; the active index | probe_all, select_best, failover | the relays; the daemon's rounds read the active one |
| Tunnel (`crates/tunnel/lib.rs`, `crates/crypto/key_exchange.rs`) | a cipher for each direction with a nonce counter | send_to, recv_from | the peer's tunnel |
| STUN server and client (`services/stun`, `crates/nat/stun.rs`) | a socket and a transaction id per discovery | binding request, answer, discover | daemon, NATs |
| Hole punching (`crates/nat/punch.rs`, `nat_type.rs`) | the loop of `punch` | send, wait, hear | the peer's puncher through both NATs |
| Daemon (`apps/daemon`) | `SharedState` behind a mutex: routes, links; every link behind another | start, TUN forwarding, pollers, the 30 s task, local API | control, STUN, relay, TUN |
| Relay frames (`crates/relay-proto`) | none: a layout of bytes | encode, decode | relay and relay clients, through buffers of 4096 bytes |
| Path manager (`crates/tunnel/path.rs`) | the status of a path, a watch channel with it, the delay of the next attempt | status_rx, try_direct, send, recv | who subscribes; the relay client |
| Phone engine (`apps/mobile/engine.rs`) | peers, connection state, outbound queue | init, send, reconnect, poll | control, relay |
| Entry points of the phone (`apps/mobile/ffi.rs`, `deploy/ios`) | the global `ENGINE` behind a standard mutex; the loops and the idle count of the host | connectalso_init, send, poll with a time-out, reconnect, address | the engine, from four threads of the host |
| DNS (`control/db.rs`, `apps/daemon/dns.rs`) | the resolver's map from names to addresses | list, update_records, handle_query | control, over HTTP; clients, over UDP |
| Access rules (`crates/core`, table `acl_rules`) | a rule per id | upsert, delete, list, evaluate_acls | the operator |
| CLI, desktop, TUN device, NAT detector | nothing that outlives a call, or the operating system's | | |

How they interact. A daemon registers with the control service, which gives it an
address from the pool and (unless it is the first) waits for an operator's
approval. Every 30 seconds the daemon sends a heartbeat, probes the relays,
discovers its public address over STUN, publishes it as a candidate, fetches the
approved peers, makes a new relay client for each, tries to punch, and replaces
its routes and links. Packets from the TUN device go to the link of their
destination and through the relay to the peer.

What makes each correct, in a line:

- control: addresses, keys and identities stay unique, what a device was told
  stands, statuses go forward only, a purge removes the silent and nobody else;
- relay: what is received was sent by that peer to that device, and a device that
  keeps trying becomes reachable again;
- relay pool: the active relay is the best one known, and a dead one is left;
- tunnel: no nonce is used twice under a key, nothing foreign is accepted;
- STUN, candidates, punching: an address that is learnt is one's own, the latest
  comes first, a side hears whenever the NATs allow it;
- daemon: the state's mutex is used by one task at a time and every task goes on;
- frames: what encode accepts arrives as it was sent, whatever buffers it passes;
- path manager: a watcher reads the status that the manager has;
- phone engine: a packet that was accepted is in one place, and order is kept;
- entry points: every call returns, and no peer is left unheard;
- DNS: a query gets the address of a device of the last list that it asks for;
- access rules: the least priority decides, and a change touches only its packets.

## 2. What is hard

No handler of the control service opens a transaction, so the statements of
concurrent requests, of the purger and of a restore interleave, and each can fail
alone. The relay's map is keyed by device only, while a device has a socket for
each peer and closes them all every round. UDP loses, repeats and reorders. NATs
forget mappings and filter. Several waits have no time-out. In the daemon, a task
holds one mutex while it waits for another. `PROJECT.json` lists each hazard at
its line, with the properties that would catch it going wrong.

## 3. The modules

### Control, Registry, MCControl

`Control` has the tables `devices` and `pool` as sets, the request of each handler
as a record with a program counter, and one action per SQL statement with the code
up to the next await: `RegisterFind`, `RegisterCount`, `RegisterPool`,
`RegisterFirst`, `RegisterInsert` for `handle_register` and `allocate_ip`;
`RevokeRelease`, `RevokeUpdate`; `UnregisterRelease`, `UnregisterDelete`;
`PurgeRelease`, `PurgeDelete`; `Approve`, `Heartbeat`, `Backup`, `Restore` with one
statement each; `Abort` (axum drops a handler whose client has gone), `Crash` and
`Tick`. A statement may fail while `faults < MaxFaults`; each failure has the
outcome the code gives it (`?` answers 500, an `if let` goes on, a `let _ =` is
ignored). Addresses are offsets from the base of the network.

`Registry` is the abstract specification: leases that are joined, approved,
revoked, left, expired, saved and recovered in one step each. `Control` implements
it with `leases` the rows without `last_seen` and `saved` those of the backup;
statements that touch only the pool are stuttering steps.

Restricted next-state relations name the deployments in which a property holds:
`GrowthSpec` (nothing is given back), `ServingSpec` (that, with clients that try
again), `PurgingSpec`, `OneByOneSpec`.

### Relay, Channel, MCRelay

`Relay` has the maps of the relays, the open sockets of the devices, the round that
each device is in, and the frames in flight in either direction. A round
(`StartRound`, `RegisterClient`, `RoundFails`, `Swap`) is `connect_peers` with the
swap after it: new sockets on ports that are free, a HELLO from each, and the old
sockets closed at the end. `RelayGreeting` and `RelayData` are the relay's loop.
`Receive` is `RelayClient::recv`, which checks the sender of a frame and nothing
else. `Lose`, `Rest` and the sets of frames are the network.

`Channel` is the abstract specification: a payload that was sent may be received
by the device it was sent to, from the peer that sent it, any number of times.

### Frame, Wire

`Frame` has the bytes: `Encode` and `Decodes`/`Decode` are `RelayFrame::encode` and
`decode`, `Buffered` is a `recv_from` into 4096 bytes, which cuts off what is longer.
A behaviour takes one frame after the other from a client (`Send`, `Greet`, or the
pool's one-byte `Probe`) over the relay, which decodes and encodes it again
(`RelayReceive`), to the other client (`ClientReceive`). `Relay` takes a frame as a
record and never loses one to its layout. `FrameArrives` says why it may, and `Wire` says
it as a specification: a frame without bytes that is refused, stored, passed on or
received, and nothing else. `Frame` implements `Wire` with the variables of the same
names; `datagram` is what `Wire` does not have.

### Session, RelayPool, Path

`Session` has the nonce counter of each end of each session, wrapping at
`Modulus`, the packets that have left, and what `recv_from` returned. `Start` is
the offset that keeps the two directions apart. The AEAD is external and ideal.

`RelayPool` has the list of `RelayServer`s, the active index, and the relays
themselves as environment. `probe_all` and `failover` run under `&mut`, so each is
one step; `BestOf` is the loop of `select_best` as a recursive function, one step of
which is `Improved`.

`Path` has the status of a `PathManager`, its delay, and tokio's watch channel: one
value, and a send without a receiver leaves it as it is. `ProbeSent` and `ProbeFails`
are the two outcomes of `try_direct`, `StatusRx` and `DropRx` the receivers. What the
delay should be is stated apart from the code, as a table of doubles (`Doubled`).

### Stun, Candidates, Punch, MCRendezvous

`Stun` models a discovery from `bind` to the result, the server, other STUN servers
whose answers have more attributes or are cut off, NATs that map and forget, and
the parser with its padding; `Ends` is the position after each attribute, once by the
bytes that a server writes and once by the steps of the parser. The exclusive or with
the cookie is the constant `Mask`, of which `StunAssumption` says that it undoes
itself; for TLC addresses and the `Cookie` of `MCRendezvous` are small numbers and
`Mask` is the real exclusive or, so a missing mask is seen.

`Candidates` models the table of candidates: a publication stores its addresses
one statement after the other and may be abandoned between two of them; a fetch
answers in any order that `ORDER BY updated_at DESC` allows (the times are in
seconds, so rows may tie).

`Punch` models both peers in `Puncher::punch` and the filtering of their NATs, for
the five kinds that `NatType` names. `same` says whether the peers punch from the
socket whose address they published (the tests do, the daemon does not).

`MCRendezvous` checks the three stages in one run, with a variable `stage` as
above: what one hands to the next is a list of addresses, nothing is shared.

### Daemon

One variable for the place of each task: `main` (the start), `periodic` (the 30 s
task), `tun` (the forwarding task), `req` (requests of the local API), `polled`
(links held by a poller). `lock` is the FIFO queue of the tokio mutex of
`SharedState`; its head holds it. Actions are the code between two awaits that can
wait for another task or for the network. STUN waits have no time-out in the code,
so `Discover`, `MainDiscover` and `Check` may go to `silent`, which only a crash or
a client that goes away ends. HTTP requests end with an answer or an error.

### Mobile

The engine next to the `Registry`, whose actions are the control service at work.
Every entry point holds the `ENGINE` lock to its end, so a call is one step.
Packets are numbered; `accepted`, `forwarded` and `lost` record what became of them.
A reconnection hands over the packets of the queue that can be sent, in their order:
`Picks` are the ways to pick them, and `Flushed` what the peers are handed.

### Entry, MCEntry

Why a call is one step in `Mobile`, and what that costs. `Entry` has the threads of
the iOS extension: one sends, one polls, the queue of the network monitor reconnects,
one starts the tunnel and answers the app. A call runs in `block_on` on its host
thread, waits for the standard mutex of `ENGINE` (`Acquire`: any waiting thread may
get it) and keeps it across its awaits. Inside a poll, `recv_from_any` looks at the
peers one after the other in the order of a `HashMap`, 10 ms each (`NextPeer`), until
one has a datagram (`ReadPeer`) or the host's time-out is over (`PollReturns`); the
host polls longer after empty polls (`Limit`). Time counts only inside a poll. The host
makes no call before `connectalso_init` has put an engine there, so the answer "engine
not initialized" has no action.

### Acl

The table `acl_rules` with its three handlers, `PacketInfo::parse`,
`AclRule::matches` and `evaluate_acls`.

### Dns

The devices with their names as the control service has them, the list it answers
(approved devices with a name, in no order), `update_records`, which clears the map
and inserts that list in lower case, and `handle_query`. A name is its sequence of
labels; a query may end in a pointer or in a label that is cut off, hold bytes that
are not UTF-8, or ask no question. Nothing of the repository starts the resolver: the
model is that of somebody who fetches the list and updates the records.

### MCParts

Checks `Session`, `RelayPool`, `Path`, `Frame`, `Acl`, `Dns` and `Mobile` in one run.
Each has its own specification (`Spec`, `PoolSpec`, `PathSpec`, ...), which is what the
proofs are about; `MCParts` EXTENDS them all. None of them shares state with another or calls it, so a behaviour is one of a single
part: the variable `part` says which, and the others stay as they began. The module
gives the instances: bytes, rules, packets and names that exercise each branch (two
priorities, both verdicts, a text that is no address, a packet too short for its
ports, one of IPv6; payloads of every length up to one beyond the limit; an empty
name, one name in two cases, one that ends in `.connectalso`).

### The proofs

The theorems of section 7 are in modules of their own, each of which EXTENDS the
modules it is about:

| Module | About |
|---|---|
| `ControlProofs` | `Control`, and that it implements `Registry` |
| `RelayProofs` | `Relay`, and that it implements `Channel` |
| `TunnelProofs` | `Session`, `RelayPool`, `Path`, `Frame`, and that it implements `Wire` |
| `RendezvousProofs` | `Stun`, `Candidates`, `Punch` |
| `DaemonProofs` | `Daemon` |
| `MobileProofs` | `Mobile`, and the safety half of `Entry` |
| `AclDnsProofs` | `Acl`, `Dns` |
| `NaturalInduction` | induction over the natural numbers, used by three of them |

## 4. The runs

| Run | Asks | Shows |
|---|---|---|
| `Control_all` | Every action of `Control`, one handler, one fault, one tick | types; `ToldStands`: the address a daemon was told, and configures once, stays its own; `ConfiguredApart`: two daemons have configured one address only if one of them has lost its row or was revoked; `AnswersAreStored`: no request is told of an address that lost its race; `StatusOnlyAdvances`; `RegistrySpec`: the table implements `Registry` |
| `Control_serving` | Two handlers race, two keys, nothing given back | `PoolIsPrefix`: the COUNT is a new offset; `FirstIsApproved`: a network with devices has an approved one although the first-device check is not atomic; `EveryClientRegisters` |
| `Control_purging` | Two handlers, operators and the purger | `AddressPlan`; `ApprovedKept`, `FreshKept`: a purge spares devices approved or heard of between its statements; `SilentArePurged` |
| `Control_allocate` (violation) | `AllocatesAvailable`, db.rs:363 | after two devices joined and the first left, COUNT is an offset in use |
| `Relay_three` | Three devices, two ports each, one payload, all faults, restarts | `OneOwnAddress`; `ChannelSpec`: `Relay` implements `Channel` although ports are reused, the map is stale and `recv` ignores the target |
| `Relay_again` | Two devices, three ports, loss, restarts, rounds | `ReachableAgain`: rounds alone heal a lost HELLO and an empty map |
| `Relay_mesh` (violation) | `Interop`, e2e_interop.rs:113, no loss | with three devices a payload arrives at the socket of the wrong client and is dropped |
| `Rendezvous` | STUN, candidates, punching | `OwnAddress`, `CompleteIsRead`; `LatestFirst`; `RelayNeeded`, `OneHears` |
| `Daemon` | All tasks, two peers, two requests, a crash | `StateIsExclusive`, `NoLinkIsLost`; `TunServes`, `Answered`, `RoutesCatchUp` |
| `Parts` | Each part of `MCParts` by itself | session: `NoncesUnique`; relay pool: `ActiveIsBest`, `LeavesForBetter`, `PoolLeavesSilent`; path: `StatusTold`, `DelayDoubles`; frame: `WireSpec`: the bytes implement `Wire`; rules: `LeastPriorityDecides`, `OnlyItsPackets`; names: `AnswersItsName`; engine: `Accounted`, `InOrder` |
| `Entry` | Four threads of a phone, two peers, two time-outs | `CallsReturn`: every call returns although the mutex is held across awaits; `PeersHeard`: a datagram does not stay in its socket for ever, although a short poll ends at the first peer |
| `Mobile_stale` (violation) | `ToTheHolder`, engine.rs:386 and :394 | a packet queued during an outage is flushed to the device that held its address before |

Each property has a mutant: a changed definition, as a plausible bug would change
it, under which the run finds the property violated. The mutants are definitions
marked `Mutant` next to the ones they change, and are used by no specification.

The liveness properties of `Daemon` have premises. `ApiHears` says that no request
waits for STUN without end, `TasksHear` that neither the start nor the periodic task
does. What the run shows is then exact: a silent STUN server stops the periodic
task but not packets or the status page; a diagnosis that waits for STUN holds the
state and stops everything.

## 5. Bounds, and why they are enough

- `Control`: two keys (three in `Control_allocate`), offsets 0..1 or 0..3, ids up to
  5, time up to 2. Two devices are what a conflict of keys, ids or addresses takes;
  the pool is as small as the number of devices so that it runs out. One handler
  with the purger, the operator's touches and one fault in `Control_all`, where
  backup and restore multiply the states; two handlers elsewhere. The theorems of
  section 7 have no such bound.
- `Relay`: three devices are needed for a client to hear a third party; two ports
  force reuse; at most 2, 3 or 6 frames in flight. One payload in `Relay_three`,
  because what becomes of a payload does not depend on others (frames are opaque).
- `Session`: a counter of 6 values with the starts 3 apart, three packets for each of
  two ends: every counter reaches its limit and the responder's wraps. Foreign packets
  (a second secret) are left to the theorem.
- `RelayPool`: three relays, so that the scan meets better, worse, equal and
  unmeasured ones in every order; latencies 1 and 2; failures up to the 3 compared with.
- `Stun`: two clients, three public addresses of which one is IPv6, two discoveries:
  an old answer, a reused port and a mapping that went to another client. One list
  of foreign attributes with an aligned and an unaligned length.
- `Candidates`: one device (rows of devices are independent), three addresses, three
  publications' worth of time, one failing statement.
- `Punch`: three rounds instead of ten, up to two apart, one datagram lost, all 25
  pairs of NATs. More rounds repeat the same step.
- `Daemon`: two peers, two requests, one change of the list, one failure or crash.
- `Path`: two receivers, so that one may come after a success that another has read; a
  first delay of 2 and a limit of 15, which doubling does not hit; five failures in a
  row, two beyond the limit.
- `Frame`: four values of a byte, ids of two bytes, payloads up to 7 bytes where 6 is
  the limit, so that the length takes both of its bytes; a buffer of exactly the
  largest frame. The theorem of section 7 has no such bound.
- `Mobile`: queue of 2 instead of 256, three packets: full and one beyond, before or
  after a flush. `Mobile_stale` has three devices: the phone, the old holder of an
  address and the new one.
- `Acl`: three ids, so that a third rule decides between two of one priority.
- `Dns`: two devices and two addresses, so that names and addresses change hands.
- `Entry`: two peers, time-outs of one and of two peers' length, the longer one after
  two empty polls: the shorter one ends at the first peer, the longer one reaches all.
  A socket holds one datagram. Three peers and three time-outs give the same result.

## 6. Fairness, and why the code justifies it

- `ServingSpec`: weak fairness of each handler (tokio polls every ready task), and
  strong fairness of a client's next attempt: the daemon exits when it cannot
  register and its unit has `Restart=on-failure`.
- `PurgingSpec`: weak fairness of the purger (an interval timer) and of the clock.
- `RoundsSpec`: a round starts when the frames of the last are gone (they are 30 s
  apart); strong fairness of registering and of a HELLO that arrives: frames may be
  lost and sockets fail, but not every time. Payloads need no fairness.
- `RelayPool`: weak fairness of a probe with sockets; the timer fires every 30 s.
- `Punch`: both peers begin, their tasks run, datagrams arrive or are lost, at most
  `MaxLost` of them. `InStep` keeps rounds of 50 ms in step, at most `Skew` apart.
- `Entry`: the control service answers an initialisation or fails it; the thread that
  has the mutex goes on (its awaits are requests that end and receptions of 10 ms); the
  host polls again and again. Strong fairness of `Acquire`: a standard mutex promises
  no order, so that a waiting thread gets it in the end is assumed of the operating
  system. Nobody has to send, reconnect or ask, and no datagram has to arrive.
- `Daemon`: weak fairness of every task that can take a step. Nobody has to ask for
  anything, send a packet or go away. The tokio mutex is fair (a FIFO queue).

## 7. What is proved

All theorems hold for every value of the constants that satisfies the module's
ASSUME: any sets of keys, handlers, devices, ports, relays and secrets, any size of
the network and any number of faults.

- `ControlProofs`. `Invariance` proves `IInv`, the inductive invariant. The address
  plan alone is not inductive; `IInv` adds to it:
  - the backup satisfies the same `Plan` as the table, or `Restore` would break it;
  - rows of one identity in the table and in the backup are the same device, with the
    same address unless one is revoked (`SameDevice`), and what a key was told agrees
    with both (`ToldOf`), or `Restore` would break `ToldStands`;
  - identities in rows, answers and requests are below `nextId`, so a new one is new;
  - a registration in flight carries an identity that no row, answer or other
    registration has (`NewIdentity`), and an offset once it has counted (`HasOffset`).

  The steps are cut into those that add no row or answer (`NothingNewStep`),
  registrations that answer with a row found (`FindStep`), insertions (`InsertStep`)
  and copies (`CopyStep`). From it follow `TypeCorrect`, `AddressPlanHolds`,
  `ToldStandsHolds`, and from the last two `ConfiguredApartHolds`; `RowSteps` adds what a step does to each row, and gives
  `StatusOnlyAdvancesHolds` and `ApprovedKeptHolds`.

  Two theorems are about `GrowthSpec`, where nothing is given back.
  `PoolIsPrefixHolds`: a count, once read, never exceeds the size of the pool, so its
  offset is the next one or one that is there already, which the INSERT ignores. It
  assumes that no statement fails: a failing COUNT is read as 0 and a failing INSERT
  is ignored, and either breaks it. `FirstIsApprovedHolds`: a registration that is
  about to insert into an empty table is an approved one, so whichever gets in first
  is approved. It holds with faults, since a failing COUNT approves too.

  `FreshKeptHolds` needs `CutoffIsPast` besides: between the two statements of a purge
  the clock may go on, so the cutoff that was read is never later than the one that
  would be. `AnswersAreStoredHolds` says that no request is told of an address that
  lost a race. `Refinement`, the last section: `Control` implements `Registry`, step by
  step, with a lemma for each kind of statement.
- `RelayProofs`. `IInv`: types; the map has only a device's own address under its id
  (`OneOwnAddress`); a frame on its way to the relay carries the id of the device it
  comes from and a payload that device sent (`UpHonest`); a frame on its way from the
  relay was sent by the device it names, to the one whose port it goes to
  (`DownHonest`), so `recv` need not look at it; and what was received is attributed
  (`Attributed`). `OneOwnAddressHolds`, `AttributedHolds` and `Refinement` (to
  `Channel`) follow.
- `TunnelProofs`.
  - `Session`. `SessionInv`: an end's counter is its start plus the packets it has
    encrypted, until the last packet it may send (`CountersFollow`); each packet has
    the nonce of its number (`PacketsFollow`) and a number has one packet at most
    (`OnePacket`); what an end accepts comes from the other end (`FromTheOtherEnd`).
    `StartsApart` is the arithmetic; `NoncesUniqueHolds` needs `MaxPackets <= Offset`,
    which is what the starting points can promise and what the ASSUME states.
  - `RelayPool`. `BestOfFinds`: the loop of `select_best` ends at one of the healthy
    relays with the least latency, for a list of any length, by induction over the
    servers it has seen (`ImprovedFinds` is the step). `Selected` carries
    that over to the active relay: `ActiveIsBestHolds`. `LeavesForBetterHolds` needs
    besides that of equally good relays the first is active (`ActiveIsFirst`), or a
    scan that measures nothing new could move to another one of the same latency.
  - `Path`. `StatusToldHolds` and `DelayDoublesHolds` from one invariant (`PathInv`);
    `DoubledDef` unfolds the table of doubles.
  - `Frame`. `RoundTrip`: a frame that encode accepts passes a buffer unharmed, is not
    refused, and is decoded as it was. Its lemmas are the layout: `FourParts` says
    where the bytes of four sequences are once they are joined, `TwoDigits` that two
    bytes hold any length up to `MAX_PAYLOAD`. `FrameArrivesHolds` makes a behaviour of
    it: what is in flight is what encode has made of a frame that fits (`Underway`), or
    the probe. The same invariant, with the frames that devices hand over in it, gives
    `FrameRefinement`: each step of the bytes is one of `Wire` (`WireStep`), where the
    fate of a frame depends on its sort only (`Sorts`). All assume `FrameAssumption`: a byte holds the version and the kinds,
    two bytes hold `MAX_PAYLOAD`, the buffer holds the largest frame. The constants of
    the code (256, 16, 2048, 4096) satisfy it.
- `RendezvousProofs`.
  - `Stun`. `StunInv`: a transaction has one request at most, and an address once the
    server has seen it (`OneRequest`); an answer on its way says the address seen in
    its transaction, in its last attribute and in no other one (`AnswersSay`); and so
    does a result (`ResultWasSeen`). `ParsedIsSaid`: the parser finds that address or
    nothing, wherever the answer was cut off; and it does find an IPv4 address when all
    has come, because what a server adds to an attribute is what the parser skips after
    it (`SkipsThePadding`, `EndsAddUp`). `OwnAddressHolds` and `CompleteIsReadHolds`
    follow, for any number of attributes of any lengths before the address.
  - `Candidates`. `LatestFirstHolds`: what a publication has stored so far is younger
    than all else of the device (`KeptIsYoungest`), since the next publication begins
    a second after the end of the last at the earliest (`Gap`). Without that second
    the times tie and the property fails.
  - `Punch`. `RelayNeededHolds`: whoever hears, or will, is behind a NAT that is not
    symmetric and is punched at the published socket (`LetIn`).
- `DaemonProofs`. `IInv` is `TypeOK`, the two properties and `QuietBeforeUp` (nobody
  forwards before the start is over, so the start cannot take away a link that a packet
  waits for). Entering
  the queue of the mutex, leaving it at the head and being cancelled in the middle are
  a lemma each (`Entered`, `Left`, `Withdrawn`), resting on sequences without
  repetitions (`AppendOnce`, `TailOnce`, `RemoveOnce`). `StateIsExclusiveHolds` and
  `NoLinkIsLostHolds` are for any number of requests and peers.
- `MobileProofs`. `MobileInv`: the numbers of the packets rise from those forwarded to
  those in the queue to the next one (`Ordered`), each packet that was accepted is
  forwarded, queued or lost, and only one of them (`InOnePlace`), and the queue of a
  connected engine is empty (`QuietWhenConnected`), without which a packet sent now
  would overtake one that waits. `FlushedRise` is the order of a flush.

  Of `Entry`, `EngineInPlaceHolds`: the thread that has the mutex is the one that is
  between lock and unlock, and whoever waits for it, but to put an engine there, finds
  one. It needs that only the app's thread comes with an engine (`OnlyTheAppSwaps`):
  the host starts its monitor and its loops behind `connectalso_init`, so the error
  "engine not initialized" (engine.rs:359, :403, :432) is never answered to it.
  `ReadyArePolledHolds`: a reconnection may rearrange the map but keeps the peers in it.
- `AclDnsProofs`.
  - `Acl`. The verdict is that of the rule that is first when the matching ones are
    sorted by priority, the earlier of two equal ones; `OneIsFirst` finds it in a list
    of any length, by induction. `VerdictsArePossible`: the verdicts that a table
    allows are those of its matching rules of least priority, and each of these may
    come first in some list the service may answer (`MayComeFirst`). So a change of a
    rule that does not match a packet, before or after, changes nothing for it:
    `OnlyItsPacketsHolds`.
  - `Dns`. `RecordsListed`: the resolver has the names of the last list in lower case,
    each with the address of one of the devices that have it. `StrippedOnce` and
    `StripsSuffix` say what the removal of `.connectalso` leaves. `DnsAssumption` says
    that lower case is a map of labels which keeps apart what is no text, and that host
    names are texts.

  Recursive functions and lists of any length need induction, which is in
  `NaturalInduction`: a nonempty set of natural numbers has a least element, because
  the order is well-founded, so a set with 0 that is closed under successor has all.
  `ScanExists`, `DoublesExists` and `AddsExists` use it to show that the functions which
  `BestOf`, `Doubled` and `Ends` are defined by exist at all.

With that, each safety property that a passing run checks is a theorem. Only
model-checked: all liveness (`EveryClientRegisters`, `SilentArePurged`,
`ReachableAgain`, `OneHears`, `TunServes`, `Answered`, `RoutesCatchUp`,
`PoolLeavesSilent`, `CallsReturn`, `PeersHeard`), which needs ENABLED and so is out of
the prover's reach. Only proved, and checked by no run: the types of `Relay` and
`Session`, `FromTheOtherEnd`, `Attributed`, `FrameArrives` (which `WireSpec` has in it),
`EngineInPlace` and `ReadyArePolled`.

## 8. Divergences between the code and what is said of it

Three are shown by runs, `Control_allocate`, `Relay_mesh` and `Mobile_stale`. The others were read in
the code while it was modelled; the models take the code's side.

- control/db.rs:310: revocation sets `ipv4` to the empty string in a UNIQUE column,
  so with one revoked device every further revocation fails after its address has
  been released ("Revoke an approved device (keeps record, frees IP).", db.rs:299).
- control/main.rs:346: "auto-approve first device" counts and inserts apart; two
  first registrations may both be approved.
- control/main.rs:493: `free` of `/allocations` is always 0, since pool rows are only
  ever inserted allocated; operations.md:74 reads 0 as an exhausted pool.
- control/db.rs:347: the purge deletes the addresses of stale approved devices from
  the pool, although it keeps their rows (db.rs:336).
- control/db.rs:517: `purge_stale_candidates` has no caller; privacy.md:91 says
  candidates are kept for a configurable time.
- relay/main.rs:31: the map is in memory; operations.md:256 calls the relay stateless
  and scalable behind a UDP balancer.
- relay/main.rs:36: the relay drops the pool's one-byte probe as a bad frame, so
  every relay of this repository looks silent to `relay_pool.rs:129` ("wait for echo").
- tunnel/relay_pool.rs:165: `failover` says it switches to the next healthy relay;
  it stays on the active one until its third failure.
- relay/main.rs:57: the relay ends if it cannot encode a frame again. No client sends
  such a frame (`FrameArrives`): a DATA frame longer than `MAX_PAYLOAD` has to come from
  other code.
- tunnel/path.rs:157 says that `send` tries the direct tunnel first; it always takes the
  relay. A failed probe leaves the status `Direct`, nothing sets it back to `Relay`
  (path.rs:42), and a probe counts as success once the socket has taken it, although
  it may be lost. A receiver that subscribes after a success without receivers reads
  `Relay` while `current_status` is `Direct` (`StatusTold` has that premise).
- tunnel/path.rs:223: `ping_pong` expects a PONG, which no code sends; while it waits it
  takes data packets for wrong answers, and a late PONG for the next.
- mobile/engine.rs:254: peers are never removed, so packets may go to the previous
  holder of an address (`Mobile_stale`).
- mobile/ffi.rs:182: the time-out of a poll does not cover the wait for the mutex of
  `ENGINE`: a poll during a reconnection lasts as long as the control service takes.
- mobile/engine.rs:266: the longest poll of the host reaches 50 peers; those behind are
  polled only when none before them has data and never if there are more
  (`EntryAssumption` excludes it, `PeersHeard` would fail).
- mobile/ffi.rs:150: `connectalso_shutdown` releases nothing (ffi.rs:148), and
  `stopTunnel` does not stop the network monitor, which goes on reconnecting.
- mobile/android.rs:65 calls `block_on` on `engine::RUNTIME`, a `OnceLock` that nothing
  sets: the file does not compile for Android.
- nat/detector.rs:49: a socket bound to 0.0.0.0 is compared as 127.0.0.1, so `Open` is
  answered on the loopback only (detector.rs:33: "if the addresses match").
- daemon/dns.rs:45: `serve` takes the resolver, so its records cannot be refreshed while
  it serves; every type of query is answered with an A record (dns.rs:10 says A-record
  queries); a name that ends in a pointer or is cut off is answered for what was read of
  it; a device whose name ends in `.connectalso` is found under the doubled suffix only.
- mobile/engine.rs:245: a packet for a full queue is dropped and answered Ok
  (ffi.rs:89 says 0 means forwarded).
- mobile/engine.rs:373: `engine_state` answers Connected while a reconnection holds
  the engine.
- daemon/main.rs:580 and :837: a lost STUN datagram stops the heartbeats
  (privacy.md:63), and the diagnosis that should report a closed STUN port
  (deployment.md:396) does not return.
- nat/punch.rs:90: between port-restricted NATs one side may hear and return before
  the other side can (nat-test/README.md:102 expects both).
- daemon/main.rs:733: punching uses a fresh socket, not the one whose address was
  published, so nobody is heard: `RelayNeeded` has `same` in its conclusion.
- core/lib.rs:124: a host that is neither empty nor an address matches every packet;
  lib.rs:38 and :42 say only the empty string is any.

## 9. What is not modelled

The CLI and the desktop application (clients of the HTTP interfaces that print
answers), TUN devices and key generation (the operating system, cryptography),
`ping_pong` and the NAT detector (no callers, no state; a discovery is in `Stun`), the
read-only handlers of the control service, the JNI entry points (`android.rs` does not
compile), the battery levels of the engine (`poll_interval_ms` and `send_keepalives`
have no callers), and the numbers of `parse_cidr` (a start-up argument: a prefix of 0
overflows its shift, host bits of the base are kept). `candidates` only grows, since
`purge_stale_candidates` has no caller; a restarted daemon has a new key and so takes
another address. `PROJECT.json` gives the reason for each component.

## 10. What is left

`Fleet`: `Control` composed with daemons that restart under new keys, are purged and
keep an address given to others. `ConfiguredApart` says when two daemons may have one
address; the composition would say what becomes of the packets that are then routed to
either of them. The device rows, `told` and the links of `Daemon` are the parts it needs.
