-------------------------- MODULE AuctionContract --------------------------
(***************************************************************************)
(* What the auction house promises about one listing after another         *)
(* (scripts/lib/auction.lua, the aion_*auction* procedures): a listing     *)
(* opens, its bid rises, and it ends once, withdrawn without a bid or      *)
(* delivered and paid.  Nothing is said of sessions, locks, jobs or        *)
(* retries.                                                                *)
(***************************************************************************)
EXTENDS Naturals

CONSTANTS Listing, Char, NoOne, Price

VARIABLES
  phase,    \* of each listing: "none", "open", "withdrawn" or "delivered"
  seller,   \* who listed it
  high,     \* the highest bid, 0 before the first
  holder,   \* who made it
  goods,    \* who got the goods
  proceeds  \* what the seller got

vars == <<phase, seller, high, holder, goods, proceeds>>

Init ==
  /\ phase = [l \in Listing |-> "none"]
  /\ seller = [l \in Listing |-> NoOne]
  /\ high = [l \in Listing |-> 0]
  /\ holder = [l \in Listing |-> NoOne]
  /\ goods = [l \in Listing |-> NoOne]
  /\ proceeds = [l \in Listing |-> 0]

Open(l, c) ==
  /\ phase[l] = "none"
  /\ phase' = [phase EXCEPT ![l] = "open"]
  /\ seller' = [seller EXCEPT ![l] = c]
  /\ UNCHANGED <<high, holder, goods, proceeds>>

\* Somebody other than the seller bids more.
Raise(l, c, a) ==
  /\ phase[l] = "open" /\ c # seller[l] /\ a > high[l]
  /\ high' = [high EXCEPT ![l] = a]
  /\ holder' = [holder EXCEPT ![l] = c]
  /\ UNCHANGED <<phase, seller, goods, proceeds>>

Withdraw(l) ==
  /\ phase[l] = "open" /\ high[l] = 0
  /\ phase' = [phase EXCEPT ![l] = "withdrawn"]
  /\ UNCHANGED <<seller, high, holder, goods, proceeds>>

\* The holder gets the goods and the seller the bid; without a bid the goods
\* go back.
Deliver(l) ==
  /\ phase[l] = "open"
  /\ phase' = [phase EXCEPT ![l] = "delivered"]
  /\ goods' = [goods EXCEPT ![l] = IF high[l] = 0 THEN seller[l] ELSE holder[l]]
  /\ proceeds' = [proceeds EXCEPT ![l] = @ + high[l]]
  /\ UNCHANGED <<seller, high, holder>>

Next == \E l \in Listing :
  \/ \E c \in Char : Open(l, c)
  \/ \E c \in Char, a \in Price : Raise(l, c, a)
  \/ Withdraw(l)
  \/ Deliver(l)

Spec == Init /\ [][Next]_vars
=============================================================================
