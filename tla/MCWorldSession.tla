--------------------------- MODULE MCWorldSession ---------------------------
(* Instances of WorldSession for TLC. *)
EXTENDS WorldSession, TLC

WorldSessionSymmetry == Permutations(Conn)
=============================================================================
