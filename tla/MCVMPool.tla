------------------------------ MODULE MCVMPool ------------------------------
(* Instances of VMPool for TLC. *)
EXTENDS VMPool, TLC

VMPoolSymmetry == Permutations(VM) \cup Permutations(Borrower) \cup Permutations(Reloader)

\* A new VM gets the least free number.  Which free member of VM stands for a
\* new Lua state makes no difference, and symmetry sets do not go with liveness.
FreshFirst == \A v \in live' \ live : \A u \in VM : u < v => u \in live

MCInit == Init /\ Elements(pool) = 1 .. Capacity

MCFairSpec == MCInit /\ [][Next]_vars /\ Fairness
=============================================================================
