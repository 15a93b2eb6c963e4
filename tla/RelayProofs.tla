----------------------------- MODULE RelayProofs -----------------------------
(***************************************************************************)
(* The relay and its clients implement the channel, for any devices and    *)
(* ports and however many frames are lost, repeated or late.               *)
(*                                                                         *)
(* A receipt is right because of a chain: a client in use or in the making *)
(* is bound to a peer; a frame names the device it comes from; the table   *)
(* holds a device's own address, so a forwarded frame goes to a socket of  *)
(* its target; and recv drops it unless the peer is its sender.            *)
(***************************************************************************)
EXTENDS Relay, TLAPS

\* What the frames on their way say is what their payloads say.
UpHonest ==
  \A f \in up :
    /\ f.src.dev = f.sender
    /\ f.kind = "data" => /\ f.load \in sent
                          /\ f.load.from = f.sender
                          /\ f.load.to = f.target

DownHonest ==
  \A f \in down : /\ f.load \in sent
                  /\ f.load.from = f.sender
                  /\ f.load.to = f.dst.dev

IInv ==
  /\ TypeOK
  /\ OneOwnAddress
  /\ UpHonest
  /\ DownHonest
  /\ Attributed

LEMMA FrameKinds ==
  ASSUME TypeOK, NEW f \in up
  PROVE  /\ f.kind \in {"hello", "keepalive"} => f \in Greeting
         /\ f.kind = "data" => f \in Data
BY DEF TypeOK, Greeting, Data

LEMMA RestShrinks ==
  ASSUME NEW F, NEW f, NEW G \in Rest(F, f)
  PROVE  G \subseteq F
BY DEF Rest

-----------------------------------------------------------------------------
(* The initial state and the steps of the devices.                         *)

LEMMA InitInv == Init => IInv
BY DEF Init, IInv, TypeOK, OneOwnAddress, UpHonest, DownHonest, Attributed,
       Round, NoRound

LEMMA StartRoundStep ==
  ASSUME IInv, NEW a \in Devices, StartRound(a)
  PROVE  IInv'
<1>1. round' \in [Devices -> Round]
  BY DEF StartRound, IInv, TypeOK, Round
<1> QED
  BY <1>1 DEF StartRound, IInv, TypeOK, OneOwnAddress, UpHonest, DownHonest,
              Attributed

LEMMA RegisterStep ==
  ASSUME IInv, NEW a \in Devices, NEW b \in Devices, NEW r \in Relays,
         NEW p \in Ports, RegisterClient(a, b, r, p)
  PROVE  IInv'
<1> DEFINE addr == [dev |-> a, port |-> p]
           hello == [kind |-> "hello", relay |-> r, src |-> addr, sender |-> a]
           s == [addr |-> addr, peer |-> b, relay |-> r, use |-> "fresh"]
<1>1. addr \in Address /\ hello \in Greeting /\ s \in Socket
  BY DEF Address, Greeting, Socket
<1>2. socks' = socks \cup {s} /\ up' = up \cup {hello}
  BY DEF RegisterClient
<1>3. round' \in [Devices -> Round]
  BY DEF RegisterClient, IInv, TypeOK, Round
<1>4. TypeOK'
  BY <1>1, <1>2, <1>3 DEF RegisterClient, IInv, TypeOK
<1>5. UpHonest'
  BY <1>2 DEF RegisterClient, IInv, UpHonest
<1> QED
  BY <1>4, <1>5 DEF RegisterClient, IInv, OneOwnAddress, DownHonest, Attributed

LEMMA RoundEndStep ==
  ASSUME IInv, NEW a \in Devices, RoundFails(a) \/ Swap(a)
  PROVE  IInv'
<1>1. round' \in [Devices -> Round]
  <2>1. NoRound \in Round
    BY DEF NoRound, Round
  <2>2. round' = [round EXCEPT ![a] = NoRound]
    BY DEF RoundFails, Swap
  <2> QED
    BY <2>1, <2>2 DEF IInv, TypeOK
<1>2. \A s \in Fresh(a) : [s EXCEPT !.use = "link"] \in Socket
  BY DEF IInv, TypeOK, Socket, Fresh
<1>3. socks' \subseteq Socket
  BY <1>2 DEF RoundFails, Swap, IInv, TypeOK
<1> QED
  BY <1>1, <1>3 DEF RoundFails, Swap, IInv, TypeOK, OneOwnAddress, UpHonest,
                    DownHonest, Attributed

LEMMA SendStep ==
  ASSUME IInv, NEW a \in Devices, NEW b \in Devices, Send(a, b)
  PROVE  IInv'
<1>1. PICK s \in InUse(a), m \in Load \ sent :
        /\ s.peer = b
        /\ m.from = a /\ m.to = b
        /\ up' = up \cup {[kind |-> "data", relay |-> s.relay, src |-> s.addr,
                           sender |-> a, target |-> b, load |-> m]}
        /\ sent' = sent \cup {m}
  BY DEF Send
<1>2. s.addr \in Address /\ s.addr.dev = a /\ s.relay \in Relays
  BY DEF InUse, IInv, TypeOK, Socket
<1>3. [kind |-> "data", relay |-> s.relay, src |-> s.addr, sender |-> a,
       target |-> b, load |-> m] \in Data
  BY <1>2 DEF Data
<1>4. TypeOK'
  BY <1>1, <1>3 DEF Send, IInv, TypeOK
<1>5. UpHonest'
  BY <1>1, <1>2 DEF IInv, UpHonest
<1> QED
  BY <1>1, <1>4, <1>5 DEF Send, IInv, OneOwnAddress, DownHonest, Attributed

LEMMA KeepaliveStep ==
  ASSUME IInv, NEW a \in Devices, Keepalive(a)
  PROVE  IInv'
<1>1. PICK s \in InUse(a) :
        up' = up \cup {[kind |-> "keepalive", relay |-> s.relay,
                        src |-> s.addr, sender |-> a]}
  BY DEF Keepalive
<1>2. s.addr \in Address /\ s.addr.dev = a /\ s.relay \in Relays
  BY DEF InUse, IInv, TypeOK, Socket
<1>3. [kind |-> "keepalive", relay |-> s.relay, src |-> s.addr,
       sender |-> a] \in Greeting
  BY <1>2 DEF Greeting
<1>4. TypeOK'
  BY <1>1, <1>3 DEF Keepalive, IInv, TypeOK
<1>5. UpHonest'
  BY <1>1, <1>2 DEF Keepalive, IInv, UpHonest
<1> QED
  BY <1>4, <1>5 DEF Keepalive, IInv, OneOwnAddress, DownHonest, Attributed

-----------------------------------------------------------------------------
(* The steps of the relay and of the network.                              *)

LEMMA GreetingStep ==
  ASSUME IInv, NEW f \in up, RelayGreeting(f)
  PROVE  IInv'
<1>1. f \in Greeting /\ up' \subseteq up
  BY FrameKinds, RestShrinks DEF RelayGreeting, IInv
<1>2. /\ f.src \in Address /\ f.src.dev = f.sender
      /\ f.sender \in Devices /\ f.relay \in Relays
  BY <1>1 DEF Greeting, IInv, UpHonest
<1>3. table' = {e \in table : e.relay # f.relay \/ e.id # f.sender}
                 \cup {[relay |-> f.relay, id |-> f.sender, addr |-> f.src]}
  BY DEF RelayGreeting, Insert
<1>4. TypeOK'
  BY <1>1, <1>2, <1>3 DEF RelayGreeting, IInv, TypeOK, Entry
<1>5. OneOwnAddress'
  BY <1>2, <1>3 DEF IInv, OneOwnAddress
<1> QED
  BY <1>1, <1>4, <1>5 DEF RelayGreeting, IInv, UpHonest, DownHonest, Attributed

LEMMA DataStep ==
  ASSUME IInv, NEW f \in up, RelayData(f)
  PROVE  IInv'
<1>1. f \in Data /\ up' \subseteq up
  BY FrameKinds, RestShrinks DEF RelayData, IInv
<1>2. CASE UNCHANGED down
  BY <1>1, <1>2 DEF RelayData, IInv, TypeOK, OneOwnAddress, UpHonest,
                    DownHonest, Attributed
<1>3. ASSUME NEW e \in table, e.id = f.target,
             down' = down \cup {[dst |-> e.addr, sender |-> f.sender,
                                 target |-> f.target, load |-> f.load]}
      PROVE  IInv'
  <2>1. e.addr \in Address /\ e.addr.dev = f.target
    BY <1>3 DEF IInv, TypeOK, Entry, OneOwnAddress
  <2>2. [dst |-> e.addr, sender |-> f.sender, target |-> f.target,
         load |-> f.load] \in Forwarded
    BY <1>1, <2>1 DEF Data, Forwarded
  <2>3. TypeOK'
    BY <1>1, <1>3, <2>2 DEF RelayData, IInv, TypeOK
  <2>4. f.load \in sent /\ f.load.from = f.sender /\ f.load.to = f.target
    BY DEF RelayData, IInv, UpHonest
  <2>5. DownHonest'
    BY <1>3, <2>1, <2>4 DEF RelayData, IInv, DownHonest
  <2> QED
    BY <1>1, <2>3, <2>5 DEF RelayData, IInv, OneOwnAddress, UpHonest, Attributed
<1> QED
  BY <1>2, <1>3 DEF RelayData

LEMMA RestartStep ==
  ASSUME IInv, NEW r \in Relays, RelayRestart(r)
  PROVE  IInv'
BY DEF RelayRestart, IInv, TypeOK, OneOwnAddress, UpHonest, DownHonest,
       Attributed

LEMMA ReceiveStep ==
  ASSUME IInv, NEW f \in down, Receive(f)
  PROVE  IInv' /\ (C!Receive(f.load) \/ UNCHANGED <<sent, got>>)
<1>1. f \in Forwarded /\ down' \subseteq down
  BY RestShrinks DEF Receive, IInv, TypeOK
<1>2. /\ f.load \in sent /\ f.load \in Load
      /\ f.load.from = f.sender /\ f.load.to = f.dst.dev
  BY <1>1 DEF IInv, DownHonest, Forwarded
<1>3. CASE UNCHANGED got
  BY <1>1, <1>3 DEF Receive, IInv, TypeOK, OneOwnAddress, UpHonest, DownHonest,
                    Attributed
<1>4. ASSUME NEW s \in socks, s.addr = f.dst, s.peer = f.sender,
             got' = got \cup {[at |-> s.addr.dev, peer |-> s.peer,
                               load |-> f.load]}
      PROVE  IInv' /\ C!Receive(f.load)
  <2>1. got' = got \cup {[at |-> f.load.to, peer |-> f.load.from,
                          load |-> f.load]}
    BY <1>2, <1>4
  <2>2. f.load.to \in Devices /\ f.load.from \in Devices
    BY <1>2 DEF Load
  <2>3. TypeOK'
    BY <1>1, <1>2, <2>1, <2>2 DEF Receive, IInv, TypeOK
  <2>4. Attributed'
    BY <1>2, <2>1 DEF Receive, IInv, Attributed
  <2>5. C!Receive(f.load)
    BY <1>2, <2>1 DEF Receive, C!Receive, C!Receipt
  <2> QED
    BY <1>1, <2>3, <2>4, <2>5
    DEF Receive, IInv, OneOwnAddress, UpHonest, DownHonest
<1> QED
  BY <1>3, <1>4 DEF Receive

LEMMA LoseStep ==
  ASSUME IInv, NEW f \in up \cup down, Lose(f)
  PROVE  IInv'
<1>1. up' \subseteq up /\ down' \subseteq down
  BY DEF Lose
<1> QED
  BY <1>1 DEF Lose, IInv, TypeOK, OneOwnAddress, UpHonest, DownHonest,
              Attributed

-----------------------------------------------------------------------------
(* One step, of whatever kind, keeps the invariant and is a step of the    *)
(* channel or leaves it alone.                                             *)

LEMMA Step ==
  ASSUME IInv, [Next]_vars
  PROVE  IInv' /\ [C!Next]_<<sent, got>>
<1>1. CASE UNCHANGED vars
  BY <1>1 DEF vars, IInv, TypeOK, OneOwnAddress, UpHonest, DownHonest,
              Attributed
<1>2. ASSUME NEW a \in Devices, StartRound(a)
      PROVE  IInv' /\ UNCHANGED <<sent, got>>
  BY <1>2, StartRoundStep DEF StartRound
<1>3. ASSUME NEW a \in Devices, Register(a)
      PROVE  IInv' /\ UNCHANGED <<sent, got>>
  BY <1>3, RegisterStep DEF Register, RegisterClient
<1>4. ASSUME NEW a \in Devices, RoundFails(a) \/ Swap(a)
      PROVE  IInv' /\ UNCHANGED <<sent, got>>
  BY <1>4, RoundEndStep DEF RoundFails, Swap
<1>5. ASSUME NEW a \in Devices, NEW b \in Devices, Send(a, b)
      PROVE  IInv' /\ C!Next
  <2>1. PICK m \in Load \ sent : sent' = sent \cup {m} /\ UNCHANGED got
    BY <1>5 DEF Send
  <2>2. C!Send(m) /\ m \in C!Load
    BY <2>1 DEF C!Send, C!Load, Load
  <2> QED
    BY <1>5, <2>2, SendStep DEF C!Next
<1>6. ASSUME NEW a \in Devices, Keepalive(a)
      PROVE  IInv' /\ UNCHANGED <<sent, got>>
  BY <1>6, KeepaliveStep DEF Keepalive
<1>7. ASSUME NEW f \in up, RelayGreeting(f)
      PROVE  IInv' /\ UNCHANGED <<sent, got>>
  BY <1>7, GreetingStep DEF RelayGreeting
<1>8. ASSUME NEW f \in up, RelayData(f)
      PROVE  IInv' /\ UNCHANGED <<sent, got>>
  BY <1>8, DataStep DEF RelayData
<1>9. ASSUME NEW f \in down, Receive(f)
      PROVE  IInv' /\ [C!Next]_<<sent, got>>
  <2>1. f.load \in C!Load
    BY DEF IInv, TypeOK, Forwarded, Load, C!Load
  <2> QED
    BY <1>9, <2>1, ReceiveStep DEF C!Next
<1>10. ASSUME NEW f \in up \cup down, Lose(f)
       PROVE  IInv' /\ UNCHANGED <<sent, got>>
  BY <1>10, LoseStep DEF Lose
<1>11. ASSUME NEW r \in Relays, RelayRestart(r)
       PROVE  IInv' /\ UNCHANGED <<sent, got>>
  BY <1>11, RestartStep DEF RelayRestart
<1> QED
  BY <1>1, <1>2, <1>3, <1>4, <1>5, <1>6, <1>7, <1>8, <1>9, <1>10, <1>11
  DEF Next, Device, Network, Restart, vars

(***************************************************************************)
(* Whatever the devices, the network and the relay do, the invariant       *)
(* holds: the frames in flight are honest and the table holds each id's    *)
(* own address.                                                            *)
(***************************************************************************)
THEOREM Invariance == Spec => []IInv
<1>1. IInv /\ [Next]_vars => IInv'
  BY Step
<1> QED
  BY <1>1, InitInv, PTL DEF Spec

\* The frames, sockets and tables of the relay and its clients have their types.
THEOREM TypeCorrect == Spec => []TypeOK
BY Invariance, PTL DEF IInv

\* The relay's entry for an id is one of the device's own addresses, one at most.
THEOREM OneOwnAddressHolds == Spec => []OneOwnAddress
BY Invariance, PTL DEF IInv

\* What recv returns, the peer of the client has sent to the client's device.
THEOREM AttributedHolds == Spec => []Attributed
BY Invariance, PTL DEF IInv

(***************************************************************************)
(* The relay and its clients are a channel that may lose, repeat and       *)
(* reorder payloads, and does nothing worse.                               *)
(***************************************************************************)
THEOREM Refinement == Spec => ChannelSpec
<1>1. Init => C!Init
  BY DEF Init, C!Init
<1>2. IInv /\ [Next]_vars => [C!Next]_<<sent, got>>
  BY Step
<1> QED
  BY <1>1, <1>2, Invariance, PTL DEF Spec, ChannelSpec, C!Spec
=============================================================================
