------------------------------- MODULE Totals -------------------------------
(***************************************************************************)
(* What amounts add up to.  An amount is a number of coins, and a total is *)
(* how many coins there are, so that laws about totals follow from those   *)
(* about the cardinality of sets.                                          *)
(***************************************************************************)
EXTENDS Naturals, FiniteSets

\* The coins of f[x], for every x in S, one by one.
Coins(f, S) == UNION {{x} \X (1..f[x]) : x \in S}

Total(f, S) == Cardinality(Coins(f, S))
=============================================================================
