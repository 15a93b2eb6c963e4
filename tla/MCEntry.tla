------------------------------ MODULE MCEntry ------------------------------
(***************************************************************************)
(* Time-outs of the poll for TLC: 1 and 2 peers long, and the empty polls  *)
(* after which the longer one applies.                                     *)
(***************************************************************************)
EXTENDS Entry

MCLimits == <<1, 2>>
MCPatience == <<2>>
=============================================================================
