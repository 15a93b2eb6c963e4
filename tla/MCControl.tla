------------------------------ MODULE MCControl ------------------------------
(***************************************************************************)
(* Instances of Control for TLC.                                           *)
(***************************************************************************)
EXTENDS Control, TLC

\* Keys and handlers are interchangeable in a safety run: no formula names one.
Symmetric == Permutations(Keys) \cup Permutations(Handlers)
=============================================================================
