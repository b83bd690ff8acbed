----------------------------- MODULE MCPrograms -----------------------------
(* The instance of Programs for TLC: one part per behaviour, small bounds. *)
EXTENDS Programs
=============================================================================
