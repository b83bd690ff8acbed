---------------------------- MODULE MCGameStream ----------------------------
(* Instances of GameStream for TLC. *)
EXTENDS GameStream, TLC
=============================================================================
