------------------------------ MODULE MCWallet ------------------------------
(* Instances of Wallet for TLC. *)
EXTENDS Wallet, TLC

WalletSymmetry == Permutations(Session) \cup Permutations(Char) \cup Permutations(Rewarder)
=============================================================================
