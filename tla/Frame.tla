------------------------------- MODULE Frame -------------------------------
(***************************************************************************)
(* The frames of the relay as bytes (crates/relay-proto), on their way     *)
(* from a client over the relay to another client.  Relay takes a frame as *)
(* a record; this module is the reason why it may: what the encoding, the  *)
(* two decodings, the second encoding and the two buffers on the way make  *)
(* of a frame.  A datagram that is lost is of no interest here.            *)
(***************************************************************************)
EXTENDS Integers, Sequences

CONSTANTS
  Base,         \* the values of a byte: 256
  IdLen,        \* the bytes of a PeerId: 16
  MaxPayload,   \* MAX_PAYLOAD: 2048
  BufferSize,   \* what the relay and a client read of a datagram: 4096
  PeerIds,      \* the ids of the devices
  Payloads      \* the payloads they try to send

HeaderLen == 1 + 1 + IdLen + IdLen + 2

Byte == 0 .. (Base - 1)

\* A byte holds the version and the kinds, its two length bytes hold any length
\* up to MAX_PAYLOAD, and a buffer holds the largest frame.
ASSUME FrameAssumption ==
  /\ Base \in Nat /\ Base > 3
  /\ IdLen \in Nat
  /\ MaxPayload \in Nat /\ MaxPayload < Base * Base
  /\ BufferSize \in Nat /\ HeaderLen + MaxPayload <= BufferSize
  /\ \A id \in PeerIds : id \in Seq(Byte) /\ Len(id) = IdLen
  /\ Payloads \subseteq Seq(Byte)

VARIABLES
  frame,        \* the frame that is under way
  place,        \* where it is, or what has become of it
  datagram,     \* the bytes that are in flight
  returned      \* what recv has returned of it

framing == <<frame, place, datagram, returned>>

-----------------------------------------------------------------------------
Version == 1
Hello == 1
Data == 2
Keepalive == 3
Kinds == {Hello, Data, Keepalive}

Id == {id \in Seq(Byte) : Len(id) = IdLen}
Frame == [kind : Kinds, sender : Id, target : Id, payload : Seq(Byte)]

Nil == [i \in 1 .. IdLen |-> 0]

DataFrame(a, b, payload) ==
  [kind |-> Data, sender |-> a, target |-> b, payload |-> payload]
Greeting(kind, a) ==
  [kind |-> kind, sender |-> a, target |-> Nil, payload |-> <<>>]

\* RelayFrame::encode, which refuses a frame that does not fit.
Fits(f) == Len(f.payload) <= MaxPayload

Header(f) ==
  <<Version, f.kind>> \o f.sender \o f.target
    \o <<(Len(f.payload) \div Base) % Base, Len(f.payload) % Base>>

Encode(f) == Header(f) \o f.payload

(***************************************************************************)
(* RelayFrame::decode.  What comes after the payload is not looked at.     *)
(***************************************************************************)
PayloadLen(d) == d[HeaderLen - 1] * Base + d[HeaderLen]

Decodes(d) ==
  /\ Len(d) >= HeaderLen
  /\ d[1] = Version
  /\ d[2] \in Kinds
  /\ Len(d) >= HeaderLen + PayloadLen(d)

Decode(d) ==
  [kind |-> d[2],
   sender |-> SubSeq(d, 3, 2 + IdLen),
   target |-> SubSeq(d, 3 + IdLen, 2 + 2 * IdLen),
   payload |-> SubSeq(d, HeaderLen + 1, HeaderLen + PayloadLen(d))]

\* Mutant: the buffer holds a payload, and not its header.
BufferedPayload(d) ==
  SubSeq(d, 1, IF Len(d) <= MaxPayload THEN Len(d) ELSE MaxPayload)

\* recv_from cuts off what does not fit into the buffer.
Buffered(d) ==
  SubSeq(d, 1, IF Len(d) <= BufferSize THEN Len(d) ELSE BufferSize)

-----------------------------------------------------------------------------
NoFrame == [kind |-> 0]
Nothing == [from |-> <<>>, payload |-> <<>>]

InFlight == place \in {"to relay", "to client"}

FrameInit ==
  /\ frame = NoFrame
  /\ place = "home"
  /\ datagram = <<>>
  /\ returned = Nothing

\* A client hands a frame to its socket.  RelayClient::send panics if the frame
\* does not fit.
Submit(f) ==
  /\ ~InFlight
  /\ place # "relay ended"
  /\ frame' = f
  /\ IF Fits(f) THEN place' = "to relay" /\ datagram' = Encode(f)
                ELSE place' = "refused" /\ datagram' = <<>>
  /\ returned' = Nothing

Send == \E a, b \in PeerIds, payload \in Payloads : Submit(DataFrame(a, b, payload))
Greet == \E kind \in {Hello, Keepalive}, a \in PeerIds : Submit(Greeting(kind, a))

\* The probe of the relay pool is one byte, which is no frame.
Probe ==
  /\ ~InFlight
  /\ place # "relay ended"
  /\ frame' = NoFrame
  /\ place' = "to relay"
  /\ datagram' = <<0>>
  /\ returned' = Nothing

\* The relay: a bad frame is left aside, a greeting is stored, data is encoded
\* again, and the relay ends if that fails.
RelayReceive ==
  LET d == Buffered(datagram)
  IN /\ place = "to relay"
     /\ \/ /\ ~Decodes(d)
           /\ place' = "bad" /\ datagram' = <<>>
        \/ /\ Decodes(d) /\ Decode(d).kind # Data
           /\ place' = "stored" /\ datagram' = <<>>
        \/ /\ Decodes(d) /\ Decode(d).kind = Data
           /\ LET fwd == DataFrame(Decode(d).sender, Decode(d).target,
                                   Decode(d).payload)
              IN IF Fits(fwd) THEN place' = "to client" /\ datagram' = Encode(fwd)
                              ELSE place' = "relay ended" /\ datagram' = <<>>
     /\ UNCHANGED <<frame, returned>>

\* RelayClient::recv: it goes on to the next datagram after one that is no data,
\* or not of its peer, the device that sent this one (Relay has the others).
ClientReceive ==
  LET d == Buffered(datagram)
  IN /\ place = "to client"
     /\ IF Decodes(d) /\ Decode(d).kind = Data /\ Decode(d).sender = frame.sender
        THEN /\ place' = "received"
             /\ returned' = [from |-> Decode(d).sender, payload |-> Decode(d).payload]
        ELSE /\ place' = "bad"
             /\ UNCHANGED returned
     /\ datagram' = <<>>
     /\ UNCHANGED frame

FrameNext == Send \/ Greet \/ Probe \/ RelayReceive \/ ClientReceive

FrameSpec == FrameInit /\ [][FrameNext]_framing

-----------------------------------------------------------------------------
(***************************************************************************)
(* A frame that encode accepts arrives as it was sent: neither of the two  *)
(* decodings nor the second encoding refuses it, no buffer cuts it off,    *)
(* and the relay does not end over it.  encode refuses it only if it is    *)
(* larger than MAX_PAYLOAD.                                                *)
(***************************************************************************)
FrameArrives ==
  /\ place # "relay ended"
  /\ place = "refused" => Len(frame.payload) > MaxPayload
  /\ place = "bad" => frame = NoFrame
  /\ place = "stored" => frame.kind \in {Hello, Keepalive}
  /\ place = "received" =>
       frame = DataFrame(returned.from, frame.target, returned.payload)

(***************************************************************************)
(* Every step of the bytes is a step of Wire, which has none: encode, the  *)
(* two decodings, the second encoding and the buffers do to a frame what   *)
(* Relay takes for granted, and it meets each fate only where Wire has it. *)
(***************************************************************************)
Loads == {DataFrame(a, b, payload) :
            a \in PeerIds, b \in PeerIds, payload \in Payloads}
Greetings == {Greeting(kind, a) : kind \in {Hello, Keepalive}, a \in PeerIds}

W == INSTANCE Wire

WireSpec == W!Spec
=============================================================================
