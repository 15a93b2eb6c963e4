-------------------------------- MODULE Wire --------------------------------
(***************************************************************************)
(* What the bytes of the relay protocol promise for one frame at a time    *)
(* that no datagram is lost of: a frame is refused where it is handed over *)
(* or it reaches the relay, which stores a greeting and passes data on,    *)
(* and the other client gets the payload and the sender that were handed   *)
(* over.  Only what is no frame is left aside, and the relay never ends.   *)
(* Frame implements this specification; here there are no bytes.           *)
(***************************************************************************)
EXTENDS Integers, Sequences

CONSTANTS
  Loads,        \* the DATA frames the devices hand over
  Greetings,    \* their HELLO and KEEPALIVE frames
  MaxPayload,   \* the longest payload of a frame that is not refused
  NoFrame,      \* what is no frame
  Nothing       \* what recv has returned before it returns

VARIABLES
  frame,        \* the frame that is under way
  place,        \* where it is, or what has become of it
  returned      \* what recv has returned of it

wire == <<frame, place, returned>>

Init ==
  /\ frame = NoFrame
  /\ place = "home"
  /\ returned = Nothing

\* A device hands over a frame, when nothing else is under way.
HandOver(to) ==
  /\ place \notin {"to relay", "to client"}
  /\ place' = to
  /\ returned' = Nothing

Submit ==
  \/ /\ HandOver("to relay")
     /\ frame' \in Loads \cup Greetings /\ Len(frame'.payload) <= MaxPayload
  \/ /\ HandOver("refused")
     /\ frame' \in Loads \cup Greetings /\ Len(frame'.payload) > MaxPayload

\* What the relay pool sends instead.
Probe == HandOver("to relay") /\ frame' = NoFrame

Relayed ==
  /\ place = "to relay"
  /\ \/ frame \in Loads /\ place' = "to client"
     \/ frame \in Greetings /\ place' = "stored"
     \/ frame = NoFrame /\ place' = "bad"
  /\ UNCHANGED <<frame, returned>>

Received ==
  /\ place = "to client"
  /\ place' = "received"
  /\ returned' = [from |-> frame.sender, payload |-> frame.payload]
  /\ UNCHANGED frame

Next == Submit \/ Probe \/ Relayed \/ Received

Spec == Init /\ [][Next]_wire
=============================================================================
