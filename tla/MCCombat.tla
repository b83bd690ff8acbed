------------------------------ MODULE MCCombat ------------------------------
(* Instances of Combat for TLC. *)
EXTENDS Combat, TLC
=============================================================================
