------------------------------ MODULE Auction ------------------------------
(***************************************************************************)
(* The auction house: register, bid and cancel of scripts/lib/auction.lua, *)
(* the procedures of migrations 00269 - 00275 they call, and the expiry    *)
(* job that settles a listing (internal/jobq, on_auction_expire.lua).      *)
(*                                                                         *)
(* A packet handler reads the listing, takes the kinah and calls a         *)
(* procedure in separate transactions; each procedure locks the listing's  *)
(* row and checks again.  The expiry job does not wait for the lock: it    *)
(* takes a locked row for one that is already being settled.  The wallet   *)
(* is a balance here; Wallet models it.                                    *)
(***************************************************************************)
EXTENDS Integers, FiniteSets, Totals

CONSTANTS Char,       \* characters, one session each
          Listing,    \* ids of listings
          NoOne,      \* nobody
          Worker,     \* workers of the job queue
          Price,      \* amounts of bids, minimum and later ones
          Fee,        \* listing fee
          MaxActive,  \* MAX_ACTIVE_PER_USER
          Duration,   \* how long a listing runs
          Purse,      \* balance of every character at first
          MaxTime,    \* bound: the clock
          MaxCalls,   \* bound: register, bid and cancel calls
          MaxRetries, \* bound: jobs delivered again
          Faults      \* what may go wrong: "sp_fail", "reply_lost", "count_fail",
                      \* "enqueue_fail", "redelivery"

ASSUME AuctionAssumption ==
         /\ NoOne \notin Char \cup Worker \cup Listing
         /\ IsFiniteSet(Listing) /\ IsFiniteSet(Char)
         /\ Char \cap Worker = {}
         /\ Price \subseteq Nat \ {0}
         /\ Fee \in Nat \ {0} /\ MaxActive \in Nat /\ Duration \in Nat \ {0} /\ Purse \in Nat
         /\ MaxTime \in Nat /\ MaxCalls \in Nat /\ MaxRetries \in Nat
         /\ Faults \subseteq {"sp_fail", "reply_lost", "count_fail", "enqueue_fail", "redelivery"}

VARIABLES
  now,      \* the clock
  kinah,    \* balances
  row,      \* auction_listing
  lock,     \* who holds the lock of each row
  call,     \* what each session's handler does
  jobs,     \* due time of the expiry jobs that are queued
  worker,   \* the listing each worker settles
  goods,    \* mails with the goods of each listing: their receivers
  proceeds, \* money mailed to the seller of each listing
  escrow,   \* history: what each character has paid for a bid on each listing
  lost,     \* history: bids that stand and whose answers were lost
  uncounted, \* history: listings registered without counting the others
  calls,    \* register, bid and cancel calls so far
  retries   \* jobs delivered again so far

vars == <<now, kinah, row, lock, call, jobs, worker, goods, proceeds, escrow, lost,
          uncounted, calls, retries>>

NoRow  == [state |-> "none", seller |-> NoOne, min |-> 0, bid |-> 0, bidder |-> NoOne, expires |-> 0]
NoCall == [pc |-> "idle", op |-> "none", l |-> NoOne, amt |-> 0, time |-> 0]

NoWork == [l |-> NoOne, locked |-> FALSE]

Row == [state : {"none", "active", "cancelled", "settled"}, seller : Char \cup {NoOne},
        min : Price \cup {0}, bid : Price \cup {0}, bidder : Char \cup {NoOne}, expires : Nat]

Call == [pc : {"idle", "insert", "enqueue", "spend", "begin", "lock", "apply", "refund"},
         op : {"none", "register", "bid", "cancel"}, l : Listing \cup {NoOne},
         amt : Price \cup {0, Fee}, time : Nat]

TypeOK ==
  /\ now \in 0 .. MaxTime
  /\ kinah \in [Char -> Nat]
  /\ row \in [Listing -> Row]
  /\ lock \in [Listing -> Char \cup Worker \cup {NoOne}]
  /\ call \in [Char -> Call]
  /\ jobs \in [Listing -> [queued : BOOLEAN, due : Nat]]
  /\ worker \in [Worker -> [l : Listing \cup {NoOne}, locked : BOOLEAN]]
  /\ goods \in [Listing -> SUBSET Char]
  /\ proceeds \in [Listing -> Nat]
  /\ escrow \in [Listing -> [Char -> Nat]] /\ lost \in [Listing -> [Char -> Nat]]
  /\ uncounted \in SUBSET Listing
  /\ calls \in 0 .. MaxCalls /\ retries \in 0 .. MaxRetries

Init ==
  /\ now = 0
  /\ kinah = [c \in Char |-> Purse]
  /\ row = [l \in Listing |-> NoRow]
  /\ lock = [l \in Listing |-> NoOne]
  /\ call = [c \in Char |-> NoCall]
  /\ jobs = [l \in Listing |-> [queued |-> FALSE, due |-> 0]]
  /\ worker = [w \in Worker |-> NoWork]
  /\ goods = [l \in Listing |-> {}]
  /\ proceeds = [l \in Listing |-> 0]
  /\ escrow = [l \in Listing |-> [c \in Char |-> 0]] /\ lost = escrow
  /\ uncounted = {}
  /\ calls = 0 /\ retries = 0

market  == <<row, lock>>
payouts == <<goods, proceeds>>
queue   == <<jobs, worker, retries>>
slips   == <<lost, uncounted>>

Tick ==
  /\ now < MaxTime /\ now' = now + 1
  /\ UNCHANGED <<kinah, market, call, queue, payouts, escrow, calls, slips>>

Starts(c, r) ==
  /\ call[c] = NoCall /\ calls < MaxCalls
  /\ call' = [call EXCEPT ![c] = r]
  /\ calls' = calls + 1

Goes(c, pc) == call' = [call EXCEPT ![c].pc = pc]
Returns(c)  == call' = [call EXCEPT ![c] = NoCall]

-----------------------------------------------------------------------------
(* auction.register *)

\* aion_countactiveauctions.
ActiveOf(c) == {l \in Listing : row[l].seller = c /\ row[l].state = "active" /\ row[l].expires > now}

\* The listings are counted; when they cannot be, the limit is not enforced.
Counts(c, l, limit) ==
  \/ Cardinality(ActiveOf(c)) < limit /\ uncounted' = uncounted \ {l}
  \/ "count_fail" \in Faults /\ uncounted' = uncounted \cup {l}

ChargesFee(c, l, min) ==
  /\ row[l] = NoRow /\ \A d \in Char : call[d].l # l
  /\ kinah[c] >= Fee
  /\ Starts(c, [pc |-> "insert", op |-> "register", l |-> l, amt |-> min, time |-> now + Duration])
  /\ kinah' = [kinah EXCEPT ![c] = @ - Fee]
  /\ UNCHANGED <<now, market, queue, payouts, escrow, lost>>

\* The count and the fee; l is the id the insertion will draw.
Register(c, l, min) == Counts(c, l, MaxActive) /\ ChargesFee(c, l, min)

\* aion_insertauctionlisting.
Insert(c) ==
  /\ call[c].pc = "insert"
  /\ row' = [row EXCEPT ![call[c].l] = [state |-> "active", seller |-> c, min |-> call[c].amt,
                                        bid |-> 0, bidder |-> NoOne, expires |-> call[c].time]]
  /\ \/ Goes(c, "enqueue")
     \/ "reply_lost" \in Faults /\ Goes(c, "refund")
  /\ UNCHANGED <<now, kinah, lock, queue, payouts, escrow, calls, slips>>

InsertFails(c) ==
  /\ call[c].pc = "insert" /\ "sp_fail" \in Faults
  /\ Goes(c, "refund")
  /\ UNCHANGED <<now, kinah, market, queue, payouts, escrow, calls, slips>>

\* jobq.enqueue with the duration as delay.  Without a queue the listing stays
\* without a job.
Enqueue(c) ==
  /\ call[c].pc = "enqueue"
  /\ \/ jobs' = [jobs EXCEPT ![call[c].l] = [queued |-> TRUE, due |-> now + Duration]]
     \/ "enqueue_fail" \in Faults /\ UNCHANGED jobs
  /\ Returns(c)
  /\ UNCHANGED <<now, kinah, market, worker, retries, payouts, escrow, calls, slips>>

-----------------------------------------------------------------------------
(* auction.bid and auction.cancel *)

\* What a bid on the row must be at least, in Lua and in the procedure.
Required(r) == IF r.bid > 0 THEN r.bid + 1 ELSE r.min

\* Mutant of Bid: the bid is made before it is paid for.
BidUnpaid(c, l, a) ==
  /\ row[l] # NoRow /\ row[l].seller # c
  /\ now < row[l].expires
  /\ a >= Required(row[l])
  /\ Starts(c, [pc |-> "begin", op |-> "bid", l |-> l, amt |-> a, time |-> 0])
  /\ UNCHANGED <<now, kinah, market, queue, payouts, escrow, slips>>

\* aion_getauctionbyid and the checks on what it returned.  It returns
\* listings in any state.
Bid(c, l, a) ==
  /\ row[l] # NoRow /\ row[l].seller # c
  /\ now < row[l].expires
  /\ a >= Required(row[l])
  /\ Starts(c, [pc |-> "spend", op |-> "bid", l |-> l, amt |-> a, time |-> 0])
  /\ UNCHANGED <<now, kinah, market, queue, payouts, escrow, slips>>

Cancel(c, l) ==
  /\ row[l] # NoRow /\ row[l].seller = c /\ row[l].bid = 0
  /\ Starts(c, [pc |-> "begin", op |-> "cancel", l |-> l, amt |-> 0, time |-> 0])
  /\ UNCHANGED <<now, kinah, market, queue, payouts, escrow, slips>>

\* spend_kinah; without enough the bid is refused.
Spend(c) ==
  /\ call[c].pc = "spend"
  /\ LET l == call[c].l   a == call[c].amt IN
     IF kinah[c] >= a
     THEN /\ kinah' = [kinah EXCEPT ![c] = @ - a]
          /\ escrow' = [escrow EXCEPT ![l][c] = @ + a]
          /\ Goes(c, "begin")
     ELSE Returns(c) /\ UNCHANGED <<kinah, escrow>>
  /\ UNCHANGED <<now, market, queue, payouts, calls, slips>>

\* The procedure did not do it: a bid is refunded.
Fails(c) == IF call[c].op = "bid" THEN Goes(c, "refund") ELSE Returns(c)

\* The call reaches the database: its transaction's clock is the present.
Begin(c) ==
  /\ call[c].pc = "begin"
  /\ \/ call' = [call EXCEPT ![c].pc = "lock", ![c].time = now]
     \/ "sp_fail" \in Faults /\ Fails(c)
  /\ UNCHANGED <<now, kinah, market, queue, payouts, escrow, calls, slips>>

\* SELECT ... FOR UPDATE.
Lock(c) ==
  /\ call[c].pc = "lock" /\ lock[call[c].l] = NoOne
  /\ lock' = [lock EXCEPT ![call[c].l] = c]
  /\ Goes(c, "apply")
  /\ UNCHANGED <<now, kinah, row, queue, payouts, escrow, calls, slips>>

\* What the procedures check under the lock.
Accepts(c, r) ==
  /\ r.state = "active"
  /\ call[c].op = "bid" =>
       /\ r.expires > call[c].time
       /\ r.seller # c
       /\ call[c].amt >= Required(r)
  /\ call[c].op = "cancel" => r.seller = c /\ r.bid = 0

\* aion_insertauctionbid and aion_cancelauction, to their commit.
Apply(c) ==
  /\ call[c].pc = "apply"
  /\ LET l == call[c].l   r == row[l] IN
     /\ Accepts(c, r)
     /\ row' = [row EXCEPT ![l] = IF call[c].op = "bid"
                                  THEN [r EXCEPT !.bid = call[c].amt, !.bidder = c]
                                  ELSE [r EXCEPT !.state = "cancelled"]]
     /\ lock' = [lock EXCEPT ![l] = NoOne]
  /\ \/ Returns(c) /\ UNCHANGED lost
     \/ "reply_lost" \in Faults /\ Fails(c)
        /\ lost' = [lost EXCEPT ![call[c].l][c] = @ + call[c].amt]
  /\ UNCHANGED <<now, kinah, queue, payouts, escrow, calls, uncounted>>

\* RAISE EXCEPTION, or the transaction breaks.
Raises(c) ==
  /\ call[c].pc = "apply"
  /\ ~Accepts(c, row[call[c].l]) \/ "sp_fail" \in Faults
  /\ lock' = [lock EXCEPT ![call[c].l] = NoOne]
  /\ Fails(c)
  /\ UNCHANGED <<now, kinah, row, queue, payouts, escrow, calls, slips>>

\* Mutant of Refund: the fee of a registration is refunded as the bid is.
RefundAmount(c) ==
  /\ call[c].pc = "refund"
  /\ kinah' = [kinah EXCEPT ![c] = @ + call[c].amt]
  /\ UNCHANGED escrow
  /\ Returns(c)
  /\ UNCHANGED <<now, market, queue, payouts, calls, slips>>

\* add_kinah of what was taken.
Refund(c) ==
  /\ call[c].pc = "refund"
  /\ IF call[c].op = "register"
     THEN kinah' = [kinah EXCEPT ![c] = @ + Fee] /\ UNCHANGED escrow
     ELSE /\ kinah' = [kinah EXCEPT ![c] = @ + call[c].amt]
          /\ escrow' = [escrow EXCEPT ![call[c].l][c] = @ - call[c].amt]
  /\ Returns(c)
  /\ UNCHANGED <<now, market, queue, payouts, calls, slips>>

-----------------------------------------------------------------------------
(* The expiry job *)

Take(w, l) ==
  /\ worker[w] = NoWork
  /\ jobs[l].queued /\ now >= jobs[l].due
  /\ jobs' = [jobs EXCEPT ![l].queued = FALSE]
  /\ worker' = [worker EXCEPT ![w].l = l]
  /\ UNCHANGED <<now, kinah, market, call, payouts, escrow, calls, retries, slips>>

\* The queue delivers a job again while it runs: its lease ran out.
Redeliver(w) ==
  /\ "redelivery" \in Faults /\ retries < MaxRetries
  /\ worker[w] # NoWork
  /\ jobs' = [jobs EXCEPT ![worker[w].l].queued = TRUE]
  /\ retries' = retries + 1
  /\ UNCHANGED <<now, kinah, market, call, worker, payouts, escrow, calls, slips>>

Finishes(w) == worker' = [worker EXCEPT ![w] = NoWork]

\* FOR UPDATE SKIP LOCKED found the row locked: outcome 2, the job is done.
SettleSkips(w) ==
  /\ worker[w] # NoWork /\ ~worker[w].locked /\ lock[worker[w].l] # NoOne
  /\ Finishes(w)
  /\ UNCHANGED <<now, kinah, market, call, jobs, retries, payouts, escrow, calls, slips>>

SettleLocks(w) ==
  /\ worker[w] # NoWork /\ ~worker[w].locked /\ lock[worker[w].l] = NoOne
  /\ lock' = [lock EXCEPT ![worker[w].l] = w]
  /\ worker' = [worker EXCEPT ![w].locked = TRUE]
  /\ UNCHANGED <<now, kinah, row, call, jobs, retries, payouts, escrow, calls, slips>>

\* Mutant of Settled: only a settled listing is left alone.
SettledOnly(r) == r.state = "settled"

\* Listings a job leaves alone: outcome 2.
Settled(r) == r.state \in {"settled", "cancelled"}

\* The rest of aion_settleauction, to its commit.
Settle(w) ==
  /\ worker[w].locked
  /\ LET l == worker[w].l   r == row[l] IN
     /\ IF Settled(r)
        THEN UNCHANGED <<row, payouts>>
        ELSE /\ row' = [row EXCEPT ![l].state = "settled"]
             /\ goods' = [goods EXCEPT ![l] = @ \cup {IF r.bidder = NoOne THEN r.seller ELSE r.bidder}]
             /\ proceeds' = [proceeds EXCEPT ![l] = @ + r.bid]
     /\ lock' = [lock EXCEPT ![l] = NoOne]
  /\ Finishes(w)
  /\ UNCHANGED <<now, kinah, call, jobs, retries, escrow, calls, slips>>

\* The procedure fails before its commit: the Lua handler logs it and returns,
\* so the job counts as done.
SettleFails(w) ==
  /\ worker[w] # NoWork /\ "sp_fail" \in Faults
  /\ lock' = [lock EXCEPT ![worker[w].l] = IF worker[w].locked THEN NoOne ELSE @]
  /\ Finishes(w)
  /\ UNCHANGED <<now, kinah, row, call, jobs, retries, payouts, escrow, calls, slips>>

Next ==
  \/ Tick
  \/ \E c \in Char :
       \/ \E l \in Listing, min \in Price : Register(c, l, min)
       \/ \E l \in Listing, a \in Price : Bid(c, l, a)
       \/ \E l \in Listing : Cancel(c, l)
       \/ Insert(c) \/ InsertFails(c) \/ Enqueue(c)
       \/ Spend(c) \/ Begin(c) \/ Lock(c) \/ Apply(c) \/ Raises(c) \/ Refund(c)
  \/ \E w \in Worker :
       \/ \E l \in Listing : Take(w, l)
       \/ Redeliver(w) \/ SettleSkips(w) \/ SettleLocks(w) \/ Settle(w) \/ SettleFails(w)

Spec == Init /\ [][Next]_vars

-----------------------------------------------------------------------------
(* Properties *)

Phase == [none |-> "none", active |-> "open", cancelled |-> "withdrawn", settled |-> "delivered"]

\* The listings, whatever sessions, jobs and repeated deliveries do to them
\* together, go through the life the contract describes: in particular a
\* listing is delivered and paid once (00274: "Callable repeatedly ... without
\* double-pay" in the patch it replaces), and not withdrawn with a bid on it.
Contract == INSTANCE AuctionContract WITH
  phase    <- [l \in Listing |-> Phase[row[l].state]],
  seller   <- [l \in Listing |-> row[l].seller],
  high     <- [l \in Listing |-> row[l].bid],
  holder   <- [l \in Listing |-> row[l].bidder],
  goods    <- [l \in Listing |-> IF goods[l] = {} THEN NoOne ELSE CHOOSE c \in goods[l] : TRUE]

ImplementsContract == Contract!Spec

\* No character has more listings running than MAX_ACTIVE_PER_USER, those apart
\* that were registered while the database could not count them.
ActiveLimit == \A c \in Char : Cardinality(ActiveOf(c) \ uncounted) <= MaxActive

\* "Accept bids with atomic escrow (buyer's kinah held on the listing row)"
\* (auction.lua:8): the highest bidder has paid the bid and was not refunded,
\* unless the answer of the procedure was lost.
EscrowHeld ==
  \A l \in Listing :
    row[l].bid > 0 => escrow[l][row[l].bidder] + lost[l][row[l].bidder] >= row[l].bid

\* A running listing is within its owner's limit and its bid is covered.
ListingsCovered == TypeOK /\ ActiveLimit /\ EscrowHeld

\* Refunds and proceeds never pay out kinah that nobody paid in, lost answers
\* apart.
NoKinahMinted ==
  Total(kinah, Char) + Total(proceeds, Listing)
    <= Purse * Cardinality(Char)
         + Total([p \in Listing \X Char |-> lost[p[1]][p[2]]], Listing \X Char)

\* A job that ends without settling has found that a twin worker settles the
\* listing ("the row was already processed by a twin worker",
\* on_auction_expire.lua:24): a running listing that got a job still has one in
\* the queue or with a worker.
NotStranded ==
  \A l \in Listing :
    row[l].state = "active" /\ jobs[l].due > 0
      => jobs[l].queued \/ \E w \in Worker : worker[w].l = l
=============================================================================
