----------------------------- MODULE MCAuction -----------------------------
(* Instances of Auction for TLC. *)
EXTENDS Auction, TLC

AuctionSymmetry == Permutations(Char) \cup Permutations(Worker) \cup Permutations(Listing)
=============================================================================
