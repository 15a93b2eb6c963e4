-------------------------------- MODULE Path --------------------------------
(***************************************************************************)
(* The path manager (crates/tunnel/path.rs): which path to a peer is the   *)
(* active one, how long to wait before the next attempt at a direct one,   *)
(* and the watch channel that announces the first of the two.  Data always *)
(* goes by the relay: its links are in Relay and in Daemon.                *)
(*                                                                         *)
(* The watch channel is tokio's: it holds one value, which every receiver  *)
(* reads, and a send without a receiver leaves the value as it is.         *)
(***************************************************************************)
EXTENDS Integers

CONSTANTS
  Receivers,     \* what may subscribe to the status
  InitialRetry,  \* INITIAL_RETRY_MS: 200
  MaxRetry,      \* MAX_RETRY_MS: 30000
  MaxFails       \* bound: attempts that fail one after the other

ASSUME PathAssumption ==
  /\ InitialRetry \in Nat \ {0} /\ MaxRetry \in Nat /\ InitialRetry <= MaxRetry
  /\ MaxFails \in Nat

VARIABLES
  status,        \* PathStatus; no code sets "probing"
  backoff,       \* backoff_ms
  value,         \* the value in the watch channel
  receivers,     \* its receivers
  fails,         \* the attempts that have failed since the last success
  told           \* the receivers that were there when an attempt succeeded

path == <<status, backoff, value, receivers, fails, told>>

-----------------------------------------------------------------------------
\* Mutant: the limit is looked at before the doubling.
LongerUnlimited(ms) == IF ms >= MaxRetry THEN MaxRetry ELSE 2 * ms

Longer(ms) == IF 2 * ms <= MaxRetry THEN 2 * ms ELSE MaxRetry

PathInit ==
  /\ status = "relay"
  /\ backoff = InitialRetry
  /\ value = "relay"
  /\ receivers = {}
  /\ fails = 0
  /\ told = {}

\* status_rx, and the end of what it returned.
StatusRx(r) ==
  /\ r \notin receivers
  /\ receivers' = receivers \cup {r}
  /\ UNCHANGED <<status, backoff, value, fails, told>>

DropRx(r) ==
  /\ r \in receivers
  /\ receivers' = receivers \ {r}
  /\ told' = told \ {r}
  /\ UNCHANGED <<status, backoff, value, fails>>

\* Mutant: only a change of the status is announced.
ProbeSentOnce ==
  /\ status' = "direct"
  /\ backoff' = InitialRetry
  /\ value' = IF receivers = {} \/ status = "direct" THEN value ELSE "direct"
  /\ fails' = 0
  /\ told' = receivers
  /\ UNCHANGED receivers

\* try_direct: the probe has left the socket.
ProbeSent ==
  /\ status' = "direct"
  /\ backoff' = InitialRetry
  /\ value' = IF receivers = {} THEN value ELSE "direct"
  /\ fails' = 0
  /\ told' = receivers
  /\ UNCHANGED receivers

\* try_direct: the socket refuses the probe.  The status stays what it was.
ProbeFails ==
  /\ fails < MaxFails
  /\ backoff' = Longer(backoff)
  /\ fails' = fails + 1
  /\ UNCHANGED <<status, value, receivers, told>>

PathNext ==
  \/ \E r \in Receivers : StatusRx(r) \/ DropRx(r)
  \/ ProbeSent
  \/ ProbeFails

PathSpec == PathInit /\ [][PathNext]_path

-----------------------------------------------------------------------------
(***************************************************************************)
(* A receiver that was there at a success reads the status that            *)
(* current_status returns, whatever came and went before; and no receiver  *)
(* ever reads that a path is direct which is not.                          *)
(***************************************************************************)
StatusTold ==
  /\ told \cap receivers # {} => value = status
  /\ value = "direct" => status = "direct"

\* The first delay, doubled n times.
Doubled[n \in 0 .. MaxFails] == IF n = 0 THEN InitialRetry ELSE 2 * Doubled[n - 1]

(***************************************************************************)
(* The delay is the first one doubled with each failure in a row, and the  *)
(* limit once that is greater.                                             *)
(***************************************************************************)
DelayDoubles ==
  backoff = IF Doubled[fails] <= MaxRetry THEN Doubled[fails] ELSE MaxRetry
=============================================================================
