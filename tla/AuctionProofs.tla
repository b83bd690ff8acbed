---------------------------- MODULE AuctionProofs ----------------------------
(***************************************************************************)
(* Proofs about Auction, for finitely many characters and listings, any    *)
(* workers and any faults: the safety of its listings, that no kinah is    *)
(* made, and that it implements AuctionContract.                           *)
(*                                                                         *)
(* Settling twice and withdrawing under a bid are excluded by what the     *)
(* procedures check on the row (RowOK).  The kinah of a bid is followed    *)
(* from Spend to the row or back to the bidder (EscrowOK), and the limit   *)
(* of running listings from the count to the insertion (LimitOK).  That no *)
(* kinah is made adds the escrows up (Books).                              *)
(***************************************************************************)
EXTENDS Auction, FiniteSetTheorems, TLAPS

USE AuctionAssumption

\* What a handler knows at each point.
CallRow(r) ==
  /\ r.pc = "idle" => r = NoCall
  /\ r.pc # "idle" => r.l \in Listing
  /\ r.pc \in {"insert", "enqueue"} => r.op = "register"
  /\ r.pc \in {"begin", "lock", "apply"} => r.op \in {"bid", "cancel"}
  /\ r.pc = "spend" => r.op = "bid"
  /\ r.pc = "refund" => r.op \in {"register", "bid"}
  /\ r.op \in {"register", "bid"} => r.amt \in Price
  /\ r.op = "cancel" => r.amt = 0
  /\ r.pc = "insert" => row[r.l] = NoRow
  /\ r.pc = "enqueue" => row[r.l].state # "none"
CallOK == \A c \in Char : CallRow(call[c])

\* Two registrations draw different ids.
Inserts(r, l) == r.pc = "insert" /\ r.l = l
DrawOK == \A c, d \in Char, l \in Listing : Inserts(call[c], l) /\ Inserts(call[d], l) => c = d

\* A listing has goods to deliver until it is settled, and a bid has a bidder.
RowOK ==
  \A l \in Listing :
    /\ row[l].state = "none" => row[l] = NoRow
    /\ row[l].state # "none" => row[l].seller \in Char
    /\ row[l].bid = 0 <=> row[l].bidder = NoOne
    /\ row[l].state \in {"none", "active"} => goods[l] = {}

\* Jobs are about listings that exist.
WorkOK ==
  /\ \A l \in Listing : jobs[l].queued => row[l].state # "none"
  /\ \A w \in Worker : /\ worker[w].locked => worker[w].l \in Listing
                       /\ worker[w].l # NoOne => row[worker[w].l].state # "none"

\* The kinah a handler has taken for a bid and not yet handed on or back.
Pending(r, l) ==
  IF r.op = "bid" /\ r.pc \in {"begin", "lock", "apply", "refund"} /\ r.l = l THEN r.amt ELSE 0
Stands(r, c) == IF r.bidder = c THEN r.bid ELSE 0
EscrowOK ==
  \A l \in Listing, c \in Char :
    /\ escrow[l][c] >= Pending(call[c], l)
    /\ escrow[l][c] + lost[l][c] >= Pending(call[c], l) + Stands(row[l], c)

\* The listings of c that count towards its limit, the one it registers included.
Booked(c) == (ActiveOf(c) \ uncounted) \cup {l \in Listing \ uncounted : Inserts(call[c], l)}
LimitOK == \A c \in Char : Cardinality(Booked(c)) <= MaxActive

IInv == TypeOK /\ CallOK /\ DrawOK /\ RowOK /\ WorkOK /\ EscrowOK /\ LimitOK

-----------------------------------------------------------------------------
LEMMA BookedIsFinite ==
    ASSUME NEW c
    PROVE  IsFiniteSet(Booked(c)) /\ Cardinality(Booked(c)) \in Nat
<1>1. Booked(c) \subseteq Listing
  BY DEF Booked, ActiveOf
<1>2. QED
  BY <1>1, FS_Subset, FS_CardinalityType

LEMMA BookedKeeps ==
    ASSUME LimitOK, \A c \in Char : Booked(c)' \subseteq Booked(c)
    PROVE  LimitOK'
<1> SUFFICES ASSUME NEW c \in Char PROVE Cardinality(Booked(c)') <= MaxActive
  BY DEF LimitOK
<1>1. Cardinality(Booked(c)') <= Cardinality(Booked(c)) /\ Cardinality(Booked(c)') \in Nat
  BY BookedIsFinite, FS_Subset, FS_CardinalityType
<1>2. QED
  BY <1>1, BookedIsFinite DEF LimitOK

LEMMA InitIInv == Init => IInv
<1> SUFFICES ASSUME Init PROVE IInv
  OBVIOUS
<1>1. NoRow \in Row /\ NoCall \in Call /\ NoWork \in [l : Listing \cup {NoOne}, locked : BOOLEAN]
  BY DEF NoRow, Row, NoCall, Call, NoWork
<1>2. TypeOK
  BY <1>1 DEF Init, TypeOK
<1>3. CallOK /\ DrawOK
  BY DEF Init, CallOK, CallRow, DrawOK, Inserts, NoCall
<1>4. RowOK /\ WorkOK /\ EscrowOK
  BY DEF Init, RowOK, WorkOK, EscrowOK, Pending, Stands, NoRow, NoWork, NoCall
<1>5. LimitOK
  <2> SUFFICES ASSUME NEW c \in Char PROVE Cardinality(Booked(c)) <= MaxActive
    BY DEF LimitOK
  <2>1. Booked(c) = {}
    BY DEF Init, Booked, ActiveOf, Inserts, NoRow, NoCall
  <2>2. QED
    BY <2>1, FS_EmptySet
<1>6. QED
  BY <1>2, <1>3, <1>4, <1>5 DEF IInv

LEMMA TickStep == ASSUME IInv, Tick PROVE IInv'
<1> USE DEF Tick, market, queue, payouts, slips
<1>1. TypeOK'
  BY DEF IInv, TypeOK
<1>2. CallOK' /\ DrawOK' /\ RowOK' /\ WorkOK' /\ EscrowOK'
  BY DEF IInv, CallOK, CallRow, DrawOK, RowOK, WorkOK, EscrowOK
<1>3. now \in Nat /\ now' \in Nat /\ now' > now /\ \A l \in Listing : row[l].expires \in Nat
  BY DEF IInv, TypeOK, Row
<1>4. \A c \in Char : Booked(c)' \subseteq Booked(c)
  BY <1>3 DEF Booked, ActiveOf
<1>5. QED
  BY <1>1, <1>2, <1>4, BookedKeeps DEF IInv

-----------------------------------------------------------------------------
(* Steps of one handler *)

LEMMA CallIs == ASSUME IInv, NEW c \in Char PROVE call[c] \in Call /\ CallRow(call[c])
  BY DEF IInv, TypeOK, CallOK

\* A handler goes on with the same kinah in its hands, or none.
LEMMA MoveStep ==
    ASSUME IInv, NEW c \in Char, NEW r \in Call, call' = [call EXCEPT ![c] = r],
           CallRow(r), r.pc # "insert", \A l \in Listing : Pending(r, l) = Pending(call[c], l),
           kinah' \in [Char -> Nat], lock' \in [Listing -> Char \cup Worker \cup {NoOne}],
           calls' \in 0 .. MaxCalls, jobs' \in [Listing -> [queued : BOOLEAN, due : Nat]],
           \A l \in Listing : jobs'[l].queued => row[l].state # "none",
           UNCHANGED <<now, row, worker, retries, goods, proceeds, escrow, lost, uncounted>>
    PROVE  IInv'
<1>1. \A d \in Char : call'[d] = IF d = c THEN r ELSE call[d]
  BY DEF IInv, TypeOK
<1>2. TypeOK'
  BY DEF IInv, TypeOK
<1>3. CallOK'
  BY <1>1 DEF IInv, CallOK, CallRow
<1>4. \A d \in Char, l \in Listing : Inserts(call'[d], l) => Inserts(call[d], l)
  BY <1>1 DEF Inserts
<1>5. DrawOK'
  BY <1>4 DEF IInv, DrawOK
<1>6. RowOK' /\ WorkOK'
  BY DEF IInv, RowOK, WorkOK
<1>7. EscrowOK'
  BY <1>1 DEF IInv, EscrowOK
<1>8. \A d \in Char : Booked(d)' \subseteq Booked(d)
  BY <1>4 DEF Booked, ActiveOf
<1>9. LimitOK'
  BY <1>8, BookedKeeps DEF IInv
<1>10. QED
  BY <1>2, <1>3, <1>5, <1>6, <1>7, <1>9 DEF IInv

LEMMA ReturnStep ==
    ASSUME IInv, NEW c \in Char, Returns(c), \A l \in Listing : Pending(call[c], l) = 0,
           kinah' \in [Char -> Nat], lock' \in [Listing -> Char \cup Worker \cup {NoOne}],
           calls' \in 0 .. MaxCalls, jobs' \in [Listing -> [queued : BOOLEAN, due : Nat]],
           \A l \in Listing : jobs'[l].queued => row[l].state # "none",
           UNCHANGED <<now, row, worker, retries, goods, proceeds, escrow, lost, uncounted>>
    PROVE  IInv'
<1>1. NoCall \in Call /\ CallRow(NoCall) /\ NoCall.pc # "insert"
      /\ \A l \in Listing : Pending(NoCall, l) = 0
  BY DEF NoCall, Call, CallRow, Pending
<1>2. QED
  BY <1>1, MoveStep DEF Returns

\* A handler goes from one point to another.
LEMMA GoStep ==
    ASSUME IInv, NEW c \in Char, NEW pc, Goes(c, pc),
           \/ call[c].pc = "lock" /\ pc = "apply"
           \/ call[c].pc \in {"begin", "apply"} /\ call[c].op = "bid" /\ pc = "refund"
           \/ call[c].pc = "insert" /\ pc = "refund",
           lock' \in [Listing -> Char \cup Worker \cup {NoOne}],
           UNCHANGED <<now, kinah, row, queue, payouts, escrow, calls, slips>>
    PROVE  IInv'
<1> DEFINE r == [call[c] EXCEPT !.pc = pc]
<1>1. call[c] \in Call /\ CallRow(call[c])
  BY CallIs
<1>2. r \in Call
  BY <1>1 DEF Call
<1>3. r.pc = pc /\ r.op = call[c].op /\ r.l = call[c].l /\ r.amt = call[c].amt
  BY <1>1 DEF Call
<1>4. call' = [call EXCEPT ![c] = r]
  BY DEF Goes
<1> HIDE DEF r
<1>5. CallRow(r) /\ r.pc # "insert"
  BY <1>1, <1>3 DEF CallRow
<1>6. \A l \in Listing : Pending(r, l) = Pending(call[c], l)
  BY <1>1, <1>3 DEF Pending, CallRow
<1>7. kinah' \in [Char -> Nat] /\ calls' \in 0 .. MaxCalls
      /\ jobs' \in [Listing -> [queued : BOOLEAN, due : Nat]]
      /\ \A l \in Listing : jobs'[l].queued => row[l].state # "none"
  BY DEF queue, IInv, TypeOK, WorkOK
<1>8. QED
  BY <1>2, <1>4, <1>5, <1>6, <1>7, MoveStep DEF queue, payouts, slips

LEMMA FailStep ==
    ASSUME IInv, NEW c \in Char, Fails(c), call[c].pc \in {"begin", "apply"},
           lock' \in [Listing -> Char \cup Worker \cup {NoOne}],
           UNCHANGED <<now, kinah, row, queue, payouts, escrow, calls, slips>>
    PROVE  IInv'
<1>1. CASE call[c].op = "bid"
  BY <1>1, GoStep DEF Fails
<1>2. CASE call[c].op # "bid"
  <2>1. \A l \in Listing : Pending(call[c], l) = 0
    BY <1>2 DEF Pending
  <2>2. kinah' \in [Char -> Nat] /\ calls' \in 0 .. MaxCalls
        /\ jobs' \in [Listing -> [queued : BOOLEAN, due : Nat]]
        /\ \A l \in Listing : jobs'[l].queued => row[l].state # "none"
    BY DEF queue, IInv, TypeOK, WorkOK
  <2>3. QED
    BY <1>2, <2>1, <2>2, ReturnStep DEF Fails, queue, payouts, slips
<1>3. QED
  BY <1>1, <1>2

LEMMA LockFree == ASSUME IInv, NEW l, NEW c \in Char \cup Worker \cup {NoOne}, NEW k,
                         k = [lock EXCEPT ![l] = c]
                  PROVE  k \in [Listing -> Char \cup Worker \cup {NoOne}]
  BY DEF IInv, TypeOK

LEMMA StaysTyped == IInv => /\ kinah \in [Char -> Nat] /\ calls \in 0 .. MaxCalls
                            /\ lock \in [Listing -> Char \cup Worker \cup {NoOne}]
                            /\ jobs \in [Listing -> [queued : BOOLEAN, due : Nat]]
                            /\ \A l \in Listing : jobs[l].queued => row[l].state # "none"
  BY DEF IInv, TypeOK, WorkOK

LEMMA InsertFailsStep == ASSUME IInv, NEW c \in Char, InsertFails(c) PROVE IInv'
<1>1. lock' \in [Listing -> Char \cup Worker \cup {NoOne}]
  BY StaysTyped DEF InsertFails, market
<1>2. QED
  BY <1>1, GoStep DEF InsertFails, market

LEMMA LockStep == ASSUME IInv, NEW c \in Char, Lock(c) PROVE IInv'
<1>1. lock' \in [Listing -> Char \cup Worker \cup {NoOne}]
  BY LockFree DEF Lock
<1>2. QED
  BY <1>1, GoStep DEF Lock

LEMMA RaisesStep == ASSUME IInv, NEW c \in Char, Raises(c) PROVE IInv'
<1>1. lock' \in [Listing -> Char \cup Worker \cup {NoOne}]
  BY LockFree DEF Raises
<1>2. QED
  BY <1>1, FailStep DEF Raises

LEMMA BeginStep == ASSUME IInv, NEW c \in Char, Begin(c) PROVE IInv'
<1>1. lock' \in [Listing -> Char \cup Worker \cup {NoOne}]
  BY StaysTyped DEF Begin, market
<1>2. CASE Fails(c)
  BY <1>1, <1>2, FailStep DEF Begin, market
<1>3. CASE call' = [call EXCEPT ![c].pc = "lock", ![c].time = now]
  <2> DEFINE r == [call[c] EXCEPT !.pc = "lock", !.time = now]
  <2>1. call[c] \in Call /\ CallRow(call[c]) /\ call[c].pc = "begin" /\ now \in Nat
    BY CallIs DEF Begin, IInv, TypeOK
  <2>2. r \in Call
    BY <2>1 DEF Call
  <2>3. r.pc = "lock" /\ r.op = call[c].op /\ r.l = call[c].l /\ r.amt = call[c].amt
    BY <2>1 DEF Call
  <2>4. call' = [call EXCEPT ![c] = r]
    BY <1>3
  <2> HIDE DEF r
  <2>5. CallRow(r) /\ r.pc # "insert"
    BY <2>1, <2>3 DEF CallRow
  <2>6. \A l \in Listing : Pending(r, l) = Pending(call[c], l)
    BY <2>1, <2>3 DEF Pending
  <2>7. QED
    BY <2>2, <2>4, <2>5, <2>6, StaysTyped, MoveStep DEF Begin, market, queue, payouts, slips
<1>4. QED
  BY <1>2, <1>3 DEF Begin

\* auction.bid and auction.cancel start.
LEMMA StartsStep ==
    ASSUME IInv, NEW c \in Char, NEW r \in Call, Starts(c, r), r.pc \in {"spend", "begin"},
           r.op \in {"bid", "cancel"}, CallRow(r), \A l \in Listing : Pending(r, l) = 0,
           UNCHANGED <<now, kinah, market, queue, payouts, escrow, slips>>
    PROVE  IInv'
<1>1. call' = [call EXCEPT ![c] = r] /\ calls' = calls + 1 /\ calls < MaxCalls
  BY DEF Starts
<1>2. \A l \in Listing : Pending(r, l) = Pending(call[c], l)
  BY DEF Starts, Pending, NoCall
<1>3. calls \in Nat /\ MaxCalls \in Nat
  BY StaysTyped
<1>4. calls' \in 0 .. MaxCalls
  BY <1>1, <1>3
<1>5. QED
  BY <1>1, <1>2, <1>4, StaysTyped, MoveStep DEF market, queue, payouts, slips

LEMMA BidStep == ASSUME IInv, NEW c \in Char, NEW l \in Listing, NEW a \in Price, Bid(c, l, a)
                 PROVE IInv'
<1> DEFINE r == [pc |-> "spend", op |-> "bid", l |-> l, amt |-> a, time |-> 0]
<1>1. r \in Call /\ r.pc = "spend" /\ r.op = "bid"
  BY DEF Call
<1>2. CallRow(r) /\ \A m \in Listing : Pending(r, m) = 0
  BY DEF CallRow, Pending
<1>3. QED
  BY <1>1, <1>2, StartsStep DEF Bid

LEMMA CancelStep == ASSUME IInv, NEW c \in Char, NEW l \in Listing, Cancel(c, l) PROVE IInv'
<1> DEFINE r == [pc |-> "begin", op |-> "cancel", l |-> l, amt |-> 0, time |-> 0]
<1>1. r \in Call /\ r.pc = "begin" /\ r.op = "cancel"
  BY DEF Call
<1>2. CallRow(r) /\ \A m \in Listing : Pending(r, m) = 0
  BY DEF CallRow, Pending
<1>3. QED
  BY <1>1, <1>2, StartsStep DEF Cancel

LEMMA EnqueueStep == ASSUME IInv, NEW c \in Char, Enqueue(c) PROVE IInv'
<1> DEFINE l == call[c].l
<1>1. CallRow(call[c]) /\ call[c].pc = "enqueue"
  BY CallIs DEF Enqueue
<1>2. l \in Listing /\ row[l].state # "none" /\ \A m \in Listing : Pending(call[c], m) = 0
  BY <1>1 DEF CallRow, Pending
<1>3. now + Duration \in Nat
  BY DEF IInv, TypeOK
<1>4. /\ jobs' \in [Listing -> [queued : BOOLEAN, due : Nat]]
      /\ \A m \in Listing : jobs'[m].queued => row[m].state # "none"
  <2> DEFINE j == [queued |-> TRUE, due |-> now + Duration]
  <2>1. j \in [queued : BOOLEAN, due : Nat]
    BY <1>3
  <2>2. jobs' = jobs \/ jobs' = [jobs EXCEPT ![l] = j]
    BY DEF Enqueue
  <2> HIDE DEF j, l
  <2>3. QED
    BY <1>2, <2>1, <2>2, StaysTyped
<1>5. QED
  BY <1>2, <1>4, StaysTyped, ReturnStep DEF Enqueue, market, payouts, slips

-----------------------------------------------------------------------------
(* Steps that move kinah *)

LEMMA PriceIs == ASSUME IInv, NEW c \in Char, CallRow(call[c]), call[c].op \in {"register", "bid"}
                 PROVE call[c].amt \in Price /\ call[c].amt \in Nat /\ call[c].amt > 0
<1>1. call[c].amt \in Price
  BY DEF CallRow
<1>2. call[c].amt \in Nat /\ call[c].amt # 0
  BY <1>1
<1>3. QED
  BY <1>1, <1>2

LEMMA PricesAre == \A p \in Price \cup {0} : p \in Nat
<1>1. Price \subseteq Nat
  OBVIOUS
<1>2. QED
  BY <1>1

LEMMA BidIs == ASSUME IInv, NEW l \in Listing
               PROVE  /\ row[l] \in Row /\ row[l].bid \in Nat /\ \A c : Stands(row[l], c) \in Nat
<1>1. row[l] \in Row
  BY DEF IInv, TypeOK
<1>2. row[l].bid \in Price \cup {0}
  BY <1>1 DEF Row
<1>3. row[l].bid \in Nat
  BY <1>2, PricesAre
<1>4. QED
  BY <1>1, <1>3 DEF Stands

LEMMA KinahMoves ==
    ASSUME IInv, NEW c \in Char, NEW r \in Call, call' = [call EXCEPT ![c] = r], CallRow(r),
           r.pc # "insert", kinah' \in [Char -> Nat],
           escrow' \in [Listing -> [Char -> Nat]], EscrowOK',
           UNCHANGED <<now, market, queue, payouts, calls, slips>>
    PROVE  IInv'
<1> USE DEF market, queue, payouts, slips
<1>1. \A d \in Char : call'[d] = IF d = c THEN r ELSE call[d]
  BY DEF IInv, TypeOK
<1>2. TypeOK'
  BY DEF IInv, TypeOK
<1>3. CallOK'
  BY <1>1 DEF IInv, CallOK, CallRow
<1>4. \A d \in Char, l \in Listing : Inserts(call'[d], l) => Inserts(call[d], l)
  BY <1>1 DEF Inserts
<1>5. DrawOK'
  BY <1>4 DEF IInv, DrawOK
<1>6. RowOK' /\ WorkOK'
  BY DEF IInv, RowOK, WorkOK
<1>7. \A d \in Char : Booked(d)' \subseteq Booked(d)
  BY <1>4 DEF Booked, ActiveOf
<1>8. LimitOK'
  BY <1>7, BookedKeeps DEF IInv
<1>9. QED
  BY <1>2, <1>3, <1>5, <1>6, <1>8 DEF IInv

LEMMA SpendStep == ASSUME IInv, NEW c \in Char, Spend(c) PROVE IInv'
<1> DEFINE l == call[c].l
           a == call[c].amt
<1>1. call[c] \in Call /\ CallRow(call[c]) /\ call[c].pc = "spend"
  BY CallIs DEF Spend
<1>2. l \in Listing /\ call[c].op = "bid" /\ a \in Nat /\ \A m \in Listing : Pending(call[c], m) = 0
  BY <1>1, PriceIs DEF CallRow, Pending
<1>3. CASE ~(kinah[c] >= a)
  <2>1. Returns(c) /\ UNCHANGED <<kinah, escrow>>
    BY <1>3 DEF Spend
  <2>2. QED
    BY <1>2, <2>1, StaysTyped, ReturnStep DEF Spend, market, queue, payouts, slips
<1>4. CASE kinah[c] >= a
  <2> DEFINE r == [call[c] EXCEPT !.pc = "begin"]
  <2>1. /\ kinah' = [kinah EXCEPT ![c] = @ - a] /\ escrow' = [escrow EXCEPT ![l][c] = @ + a]
        /\ call' = [call EXCEPT ![c] = r]
    BY <1>4 DEF Spend, Goes
  <2>2. r \in Call
    BY <1>1 DEF Call
  <2>3. r.pc = "begin" /\ r.op = "bid" /\ r.l = l /\ r.amt = a
    BY <1>1, <1>2 DEF Call
  <2> HIDE DEF r, l, a
  <2>4. CallRow(r)
    BY <1>1, <1>2, <2>3 DEF CallRow, l, a
  <2>5. kinah' \in [Char -> Nat]
    <3>1. kinah \in [Char -> Nat] /\ kinah[c] \in Nat /\ kinah[c] - a \in Nat
      BY <1>2, <1>4, StaysTyped
    <3>2. QED
      BY <2>1, <3>1
  <2>6. escrow \in [Listing -> [Char -> Nat]] /\ lost \in [Listing -> [Char -> Nat]]
    BY DEF IInv, TypeOK
  <2>7. escrow' \in [Listing -> [Char -> Nat]]
    <3>1. escrow[l][c] + a \in Nat
      BY <1>2, <2>6
    <3>2. QED
      BY <1>2, <2>1, <2>6, <3>1
  <2>8. \A m \in Listing, d \in Char :
           escrow'[m][d] = IF m = l /\ d = c THEN escrow[m][d] + a ELSE escrow[m][d]
    BY <2>1, <2>6
  <2>9. \A d \in Char : call'[d] = IF d = c THEN r ELSE call[d]
    BY <2>1 DEF IInv, TypeOK
  <2>10. \A m \in Listing : Pending(r, m) = IF m = l THEN a ELSE 0
    BY <2>3 DEF Pending
  <2>11. EscrowOK'
    <3> SUFFICES ASSUME NEW m \in Listing, NEW d \in Char
                 PROVE  /\ escrow'[m][d] >= Pending(call'[d], m)
                        /\ escrow'[m][d] + lost'[m][d] >= Pending(call'[d], m) + Stands(row'[m], d)
      BY DEF EscrowOK
    <3>1. UNCHANGED <<row, lost>>
      BY DEF Spend, market, slips
    <3>2. /\ escrow[m][d] >= Pending(call[d], m)
          /\ escrow[m][d] + lost[m][d] >= Pending(call[d], m) + Stands(row[m], d)
      BY DEF IInv, EscrowOK
    <3>3. escrow[m][d] \in Nat /\ lost[m][d] \in Nat
      BY <2>6
    <3>4. Stands(row[m], d) \in Nat
      BY BidIs
    <3>5. CASE m = l /\ d = c
      <4>1. Pending(call'[d], m) = a /\ Pending(call[d], m) = 0 /\ escrow'[m][d] = escrow[m][d] + a
        BY <1>2, <2>8, <2>9, <2>10, <3>5
      <4>2. QED
        BY <1>2, <3>1, <3>2, <3>3, <3>4, <4>1
    <3>6. CASE ~(m = l /\ d = c)
      <4>1. Pending(call'[d], m) = Pending(call[d], m) /\ escrow'[m][d] = escrow[m][d]
        BY <1>2, <2>8, <2>9, <2>10, <3>6
      <4>2. QED
        BY <3>1, <3>2, <4>1
    <3>7. QED
      BY <3>5, <3>6
  <2>12. QED
    BY <2>1, <2>2, <2>3, <2>4, <2>5, <2>7, <2>11, KinahMoves DEF Spend
<1>5. QED
  BY <1>3, <1>4

LEMMA RefundStep == ASSUME IInv, NEW c \in Char, Refund(c) PROVE IInv'
<1> DEFINE l == call[c].l
           a == call[c].amt
<1>1. CallRow(call[c]) /\ call[c].pc = "refund" /\ l \in Listing /\ a \in Nat
      /\ call[c].op \in {"register", "bid"}
  BY CallIs, PriceIs DEF Refund, CallRow
<1>2. kinah \in [Char -> Nat] /\ kinah[c] + Fee \in Nat /\ kinah[c] + a \in Nat
  <2>1. kinah \in [Char -> Nat] /\ kinah[c] \in Nat
    BY StaysTyped
  <2>2. Fee \in Nat
    OBVIOUS
  <2>3. QED
    BY <1>1, <2>1, <2>2
<1>3. Returns(c)
  BY DEF Refund
<1>4. CASE call[c].op = "register"
  <2>1. kinah' = [kinah EXCEPT ![c] = @ + Fee] /\ UNCHANGED escrow
    BY <1>4 DEF Refund
  <2>2. kinah' \in [Char -> Nat]
    BY <1>2, <2>1
  <2>3. \A m \in Listing : Pending(call[c], m) = 0
    BY <1>4 DEF Pending
  <2>4. QED
    BY <1>3, <2>1, <2>2, <2>3, StaysTyped, ReturnStep DEF Refund, market, queue, payouts, slips
<1>5. CASE call[c].op = "bid"
  <2>1. kinah' = [kinah EXCEPT ![c] = @ + a] /\ escrow' = [escrow EXCEPT ![l][c] = @ - a]
    BY <1>5 DEF Refund
  <2>2. kinah' \in [Char -> Nat]
    BY <1>2, <2>1
  <2>3. escrow \in [Listing -> [Char -> Nat]] /\ lost \in [Listing -> [Char -> Nat]]
    BY DEF IInv, TypeOK
  <2>4. \A m \in Listing : Pending(call[c], m) = IF m = l THEN a ELSE 0
    BY <1>1, <1>5 DEF Pending
  <2> HIDE DEF a, l
  <2>5. escrow[l][c] - a \in Nat
    <3>1. escrow[l][c] \in Nat /\ escrow[l][c] >= a
      BY <1>1, <2>3, <2>4 DEF IInv, EscrowOK
    <3>2. QED
      BY <1>1, <3>1
  <2>6. escrow' \in [Listing -> [Char -> Nat]]
    <3>1. [escrow[l] EXCEPT ![c] = @ - a] \in [Char -> Nat]
      BY <1>1, <2>3, <2>5
    <3>2. QED
      BY <1>1, <2>1, <2>3, <3>1
  <2>7. \A m \in Listing, d \in Char :
           escrow'[m][d] = IF m = l /\ d = c THEN escrow[m][d] - a ELSE escrow[m][d]
    BY <2>1, <2>3
  <2>8. NoCall \in Call /\ CallRow(NoCall) /\ NoCall.pc # "insert"
        /\ \A m \in Listing : Pending(NoCall, m) = 0
    BY DEF NoCall, Call, CallRow, Pending
  <2>9. call' = [call EXCEPT ![c] = NoCall] /\ \A d \in Char : call'[d] = IF d = c THEN NoCall ELSE call[d]
    BY <1>3 DEF Returns, IInv, TypeOK
  <2>10. EscrowOK'
    <3> SUFFICES ASSUME NEW m \in Listing, NEW d \in Char
                 PROVE  /\ escrow'[m][d] >= Pending(call'[d], m)
                        /\ escrow'[m][d] + lost'[m][d] >= Pending(call'[d], m) + Stands(row'[m], d)
      BY DEF EscrowOK
    <3>1. UNCHANGED <<row, lost>>
      BY DEF Refund, market, slips
    <3>2. /\ escrow[m][d] >= Pending(call[d], m)
          /\ escrow[m][d] + lost[m][d] >= Pending(call[d], m) + Stands(row[m], d)
      BY DEF IInv, EscrowOK
    <3>3. escrow[m][d] \in Nat /\ lost[m][d] \in Nat
      BY <2>3
    <3>4. Stands(row[m], d) \in Nat
      BY BidIs
    <3>5. CASE m = l /\ d = c
      <4>1. Pending(call'[d], m) = 0 /\ Pending(call[d], m) = a /\ escrow'[m][d] = escrow[m][d] - a
        BY <2>4, <2>7, <2>8, <2>9, <3>5
      <4>2. QED
        BY <1>1, <3>1, <3>2, <3>3, <3>4, <4>1
    <3>6. CASE d = c /\ m # l
      <4>1. Pending(call'[d], m) = 0 /\ Pending(call[d], m) = 0 /\ escrow'[m][d] = escrow[m][d]
        BY <2>4, <2>7, <2>8, <2>9, <3>6
      <4>2. QED
        BY <3>1, <3>2, <4>1
    <3>7. CASE d # c
      <4>1. Pending(call'[d], m) = Pending(call[d], m) /\ escrow'[m][d] = escrow[m][d]
        BY <2>7, <2>9, <3>7
      <4>2. QED
        BY <3>1, <3>2, <4>1
    <3>8. QED
      BY <3>5, <3>6, <3>7
  <2>11. QED
    BY <2>2, <2>6, <2>8, <2>9, <2>10, KinahMoves DEF Refund
<1>6. QED
  BY <1>1, <1>4, <1>5

LEMMA RegisterStep ==
    ASSUME IInv, NEW c \in Char, NEW l \in Listing, NEW min \in Price, Register(c, l, min)
    PROVE  IInv'
<1> USE DEF market, queue, payouts
<1> DEFINE r == [pc |-> "insert", op |-> "register", l |-> l, amt |-> min, time |-> now + Duration]
<1>1. now \in Nat /\ now + Duration \in Nat /\ calls \in Nat /\ MaxCalls \in Nat
  BY DEF IInv, TypeOK
<1>2. r \in Call
  BY <1>1 DEF Call
<1>3. /\ row[l] = NoRow /\ \A d \in Char : call[d].l # l
      /\ call' = [call EXCEPT ![c] = r] /\ calls' = calls + 1 /\ calls < MaxCalls /\ call[c] = NoCall
      /\ kinah[c] >= Fee /\ kinah' = [kinah EXCEPT ![c] = @ - Fee]
      /\ UNCHANGED <<now, market, queue, payouts, escrow, lost>>
  BY DEF Register, ChargesFee, Starts
<1>4. r.pc = "insert" /\ r.op = "register" /\ r.l = l /\ r.amt = min
  OBVIOUS
<1> HIDE DEF r
<1>5. \A d \in Char : call'[d] = IF d = c THEN r ELSE call[d]
  BY <1>3 DEF IInv, TypeOK
<1>6. TypeOK'
  <2>1. kinah[c] - Fee \in Nat /\ kinah \in [Char -> Nat]
    <3>1. kinah \in [Char -> Nat] /\ kinah[c] \in Nat /\ Fee \in Nat
      BY StaysTyped
    <3>2. QED
      BY <1>3, <3>1
  <2>2. kinah' \in [Char -> Nat]
    BY <1>3, <2>1
  <2>3. calls' \in 0 .. MaxCalls
    BY <1>1, <1>3
  <2>4. uncounted' \in SUBSET Listing
    BY DEF Register, Counts, IInv, TypeOK
  <2>5. QED
    BY <1>2, <1>3, <2>2, <2>3, <2>4 DEF IInv, TypeOK
<1>7. CallRow(r)
  BY <1>3, <1>4 DEF CallRow
<1>8. CallOK'
  BY <1>3, <1>5, <1>7 DEF IInv, CallOK, CallRow
<1>9. DrawOK'
  BY <1>3, <1>4, <1>5 DEF IInv, DrawOK, Inserts
<1>10. RowOK' /\ WorkOK'
  BY <1>3 DEF IInv, RowOK, WorkOK
<1>11. \A m \in Listing : Pending(r, m) = 0 /\ Pending(call[c], m) = 0
  BY <1>3, <1>4 DEF Pending, NoCall
<1>12. EscrowOK'
  BY <1>3, <1>5, <1>11 DEF IInv, EscrowOK
<1>13. LimitOK'
  <2> SUFFICES ASSUME NEW d \in Char PROVE Cardinality(Booked(d)') <= MaxActive
    BY DEF LimitOK
  <2>1. l \notin ActiveOf(d) /\ ActiveOf(d)' = ActiveOf(d)
    BY <1>3 DEF ActiveOf, NoRow
  <2>2. uncounted' \ {l} = uncounted \ {l}
    BY DEF Register, Counts
  <2>3. CASE d # c \/ l \in uncounted'
    <3>1. Booked(d)' \subseteq Booked(d)
      <4> SUFFICES ASSUME NEW m \in Listing, m \in Booked(d)' PROVE m \in Booked(d)
        BY DEF Booked, ActiveOf
      <4>1. m \notin uncounted' /\ (m \in ActiveOf(d)' \/ Inserts(call'[d], m))
        BY DEF Booked
      <4>2. m # l
        BY <1>3, <1>5, <2>1, <2>3, <4>1 DEF Inserts
      <4>3. Inserts(call'[d], m) => Inserts(call[d], m)
        BY <1>4, <1>5, <4>2 DEF Inserts
      <4>4. QED
        BY <2>1, <2>2, <4>1, <4>2, <4>3 DEF Booked
    <3>2. Cardinality(Booked(d)) <= MaxActive
      BY DEF IInv, LimitOK
    <3>3. Cardinality(Booked(d)') <= Cardinality(Booked(d)) /\ Cardinality(Booked(d)') \in Nat
      BY <3>1, BookedIsFinite, FS_Subset, FS_CardinalityType
    <3>4. QED
      BY <3>2, <3>3, BookedIsFinite
  <2>4. CASE d = c /\ l \notin uncounted'
    <3>1. Cardinality(ActiveOf(c)) < MaxActive
      BY <2>4 DEF Register, Counts
    <3>2. Booked(d)' \subseteq ActiveOf(c) \cup {l}
      BY <1>4, <1>5, <2>1, <2>4 DEF Booked, Inserts
    <3>3. IsFiniteSet(ActiveOf(c)) /\ Cardinality(ActiveOf(c)) \in Nat
      BY FS_Subset, FS_CardinalityType DEF ActiveOf
    <3>4. /\ IsFiniteSet(ActiveOf(c) \cup {l})
          /\ Cardinality(ActiveOf(c) \cup {l}) = Cardinality(ActiveOf(c)) + 1
      BY <2>1, <2>4, <3>3, FS_AddElement
    <3>5. Cardinality(Booked(d)') <= Cardinality(ActiveOf(c)) + 1 /\ Cardinality(Booked(d)') \in Nat
      BY <3>2, <3>4, FS_Subset, FS_CardinalityType
    <3>6. QED
      BY <3>1, <3>3, <3>5
  <2>5. QED
    BY <2>3, <2>4
<1>14. QED
  BY <1>6, <1>8, <1>9, <1>10, <1>12, <1>13 DEF IInv

-----------------------------------------------------------------------------
(* Steps that change a listing *)

LEMMA InsertStep == ASSUME IInv, NEW c \in Char, Insert(c) PROVE IInv'
<1> DEFINE l == call[c].l
           v == [state |-> "active", seller |-> c, min |-> call[c].amt, bid |-> 0,
                 bidder |-> NoOne, expires |-> call[c].time]
           r == [call[c] EXCEPT !.pc = IF call' = [call EXCEPT ![c].pc = "enqueue"]
                                       THEN "enqueue" ELSE "refund"]
<1>1. /\ call[c] \in Call /\ CallRow(call[c]) /\ call[c].pc = "insert" /\ l \in Listing
      /\ call[c].op = "register" /\ call[c].amt \in Price /\ row[l] = NoRow
  BY CallIs DEF Insert, CallRow
<1>2. v \in Row
  BY <1>1 DEF Row, Call
<1>3. /\ v.state = "active" /\ v.seller = c /\ v.bid = 0 /\ v.bidder = NoOne /\ v # NoRow
      /\ \A d \in Char : Stands(v, d) = 0
  BY DEF NoRow, Stands
<1>4. row' = [row EXCEPT ![l] = v] /\ call' = [call EXCEPT ![c] = r]
      /\ UNCHANGED <<now, kinah, lock, queue, payouts, escrow, calls, slips>>
  BY DEF Insert, Goes
<1>5. r \in Call
  BY <1>1 DEF Call
<1>6. r.pc \in {"enqueue", "refund"} /\ r.op = "register" /\ r.l = l /\ r.amt = call[c].amt
  BY <1>1 DEF Call
<1> HIDE DEF l, v, r
<1>7. /\ \A m \in Listing : row'[m] = IF m = l THEN v ELSE row[m]
      /\ \A d \in Char : call'[d] = IF d = c THEN r ELSE call[d]
  BY <1>4 DEF IInv, TypeOK
<1>8. TypeOK'
  BY <1>2, <1>4, <1>5 DEF queue, payouts, slips, IInv, TypeOK
<1>9. \A d \in Char : d # c => ~Inserts(call[d], l)
  BY <1>1 DEF IInv, DrawOK, Inserts, l
<1>10. CallOK'
  <2> SUFFICES ASSUME NEW d \in Char PROVE CallRow(call[d])'
    BY DEF CallOK
  <2>1. CASE d = c
    BY <1>1, <1>3, <1>6, <1>7, <2>1 DEF CallRow
  <2>2. CASE d # c
    BY CallIs, <1>3, <1>7, <1>9, <2>2 DEF CallRow, Inserts
  <2>3. QED
    BY <2>1, <2>2
<1>11. \A d \in Char, m \in Listing : Inserts(call'[d], m) => Inserts(call[d], m) /\ m # l
  BY <1>6, <1>7, <1>9 DEF Inserts
<1>12. DrawOK'
  BY <1>11 DEF IInv, DrawOK
<1>13. RowOK'
  BY <1>1, <1>3, <1>4, <1>7 DEF payouts, IInv, RowOK, NoRow
<1>14. WorkOK'
  BY <1>3, <1>4, <1>7 DEF queue, IInv, TypeOK, WorkOK
<1>15. \A m \in Listing : Pending(r, m) = 0 /\ Pending(call[c], m) = 0
  BY <1>1, <1>6 DEF Pending
<1>16. EscrowOK'
  <2>1. \A d \in Char : Stands(row[l], d) = 0
    BY <1>1 DEF Stands, NoRow
  <2>2. \A m \in Listing, d \in Char : Pending(call'[d], m) = Pending(call[d], m)
                                     /\ Stands(row'[m], d) = Stands(row[m], d)
    BY <1>3, <1>7, <1>15, <2>1
  <2>3. QED
    BY <1>4, <2>2 DEF slips, IInv, EscrowOK
<1>17. \A d \in Char : Booked(d)' \subseteq Booked(d)
  <2> SUFFICES ASSUME NEW d \in Char, NEW m \in Listing, m \in Booked(d)' PROVE m \in Booked(d)
    BY DEF Booked, ActiveOf
  <2>1. CASE m = l
    BY <1>1, <1>3, <1>4, <1>7, <1>11, <2>1 DEF slips, Booked, ActiveOf, Inserts, l
  <2>2. CASE m # l
    BY <1>4, <1>7, <1>11, <2>2 DEF slips, Booked, ActiveOf
  <2>3. QED
    BY <2>1, <2>2
<1>18. QED
  BY <1>8, <1>10, <1>12, <1>13, <1>14, <1>16, <1>17, BookedKeeps DEF IInv

\* aion_insertauctionbid and aion_cancelauction.
LEMMA ApplyStep == ASSUME IInv, NEW c \in Char, Apply(c) PROVE IInv'
<1> DEFINE l == call[c].l
           a == call[c].amt
           v == IF call[c].op = "bid" THEN [row[l] EXCEPT !.bid = a, !.bidder = c]
                                      ELSE [row[l] EXCEPT !.state = "cancelled"]
           r == IF Returns(c) THEN NoCall ELSE [call[c] EXCEPT !.pc = "refund"]
<1>1. /\ call[c] \in Call /\ CallRow(call[c]) /\ call[c].pc = "apply" /\ l \in Listing
      /\ call[c].op \in {"bid", "cancel"} /\ Accepts(c, row[l])
  BY CallIs DEF Apply, CallRow
<1>2. /\ a \in Nat
      /\ call[c].op = "bid" => a \in Price /\ a # 0
      /\ call[c].op = "cancel" => a = 0
  BY <1>1, PriceIs DEF CallRow
<1>3. row[l] \in Row /\ row[l].state = "active" /\ row[l].seller \in Char
  BY <1>1, BidIs DEF Accepts, IInv, RowOK
<1>4. v \in Row
  BY <1>1, <1>2, <1>3 DEF Row
<1>5. /\ v.seller = row[l].seller /\ v.expires = row[l].expires
      /\ IF call[c].op = "bid" THEN v.state = "active" /\ v.bid = a /\ v.bidder = c
         ELSE v.state = "cancelled" /\ v.bid = row[l].bid /\ v.bidder = row[l].bidder
  BY <1>1, <1>3 DEF Row
<1>6. /\ row' = [row EXCEPT ![l] = v] /\ lock' = [lock EXCEPT ![l] = NoOne]
      /\ UNCHANGED <<now, kinah, queue, payouts, escrow, calls, uncounted>>
      /\ call' = [call EXCEPT ![c] = r]
      /\ \/ r = NoCall /\ UNCHANGED lost
         \/ /\ r.pc = "refund" \/ (call[c].op = "cancel" /\ r = NoCall)
            /\ lost' = [lost EXCEPT ![l][c] = @ + a]
  <2>1. /\ row' = [row EXCEPT ![l] = v] /\ lock' = [lock EXCEPT ![l] = NoOne]
        /\ UNCHANGED <<now, kinah, queue, payouts, escrow, calls, uncounted>>
    BY DEF Apply
  <2>2. CASE Returns(c)
    <3>1. r = NoCall /\ call' = [call EXCEPT ![c] = r] /\ call'[c] = NoCall
      BY <2>2 DEF Returns, IInv, TypeOK
    <3>2. CASE UNCHANGED lost
      BY <2>1, <3>1, <3>2
    <3>3. CASE Fails(c) /\ lost' = [lost EXCEPT ![l][c] = @ + a]
      <4>1. call[c].op # "bid"
        <5>1. Goes(c, "refund") => call'[c].pc = "refund"
          BY <1>1 DEF Goes, Call, IInv, TypeOK
        <5>2. QED
          BY <3>1, <3>3, <5>1 DEF Fails, NoCall
      <4>2. QED
        BY <1>1, <2>1, <3>1, <3>3, <4>1
    <3>4. QED
      BY <3>2, <3>3 DEF Apply
  <2>3. CASE ~Returns(c)
    <3>1. Goes(c, "refund") /\ lost' = [lost EXCEPT ![l][c] = @ + a]
      BY <2>3 DEF Apply, Fails
    <3>2. r = [call[c] EXCEPT !.pc = "refund"] /\ r.pc = "refund"
      BY <1>1, <2>3 DEF Call
    <3>3. QED
      BY <2>1, <3>1, <3>2 DEF Goes
  <2>4. QED
    BY <2>2, <2>3
<1>7. /\ r \in Call /\ CallRow(r) /\ r.pc # "insert"
      /\ r.pc = "refund" => call[c].op = "bid" /\ r.op = "bid" /\ r.l = l /\ r.amt = a
  <2>1. CASE Returns(c)
    BY <2>1 DEF NoCall, Call, CallRow
  <2>2. CASE ~Returns(c)
    <3>1. Goes(c, "refund") /\ call[c].op = "bid"
      BY <1>1, <2>2 DEF Apply, Fails
    <3>2. /\ r \in Call /\ r.pc = "refund" /\ r.op = call[c].op /\ r.l = l /\ r.amt = a
      BY <1>1, <2>2 DEF Call
    <3> HIDE DEF r
    <3>3. QED
      BY <1>1, <1>2, <3>1, <3>2 DEF CallRow
  <2>3. QED
    BY <2>1, <2>2
<1> HIDE DEF a, v, r
<1>8. /\ \A m \in Listing : row'[m] = IF m = l THEN v ELSE row[m]
      /\ \A d \in Char : call'[d] = IF d = c THEN r ELSE call[d]
  BY <1>6 DEF IInv, TypeOK
<1>9. lost \in [Listing -> [Char -> Nat]] /\ escrow \in [Listing -> [Char -> Nat]]
  BY DEF IInv, TypeOK
<1>10. /\ lost' \in [Listing -> [Char -> Nat]]
       /\ \/ r = NoCall /\ UNCHANGED lost
          \/ /\ r.pc = "refund" \/ (call[c].op = "cancel" /\ r = NoCall)
             /\ \A m \in Listing, d \in Char :
                  lost'[m][d] = IF m = l /\ d = c THEN lost[m][d] + a ELSE lost[m][d]
  <2>1. CASE UNCHANGED lost /\ r = NoCall
    BY <1>9, <2>1
  <2>2. CASE /\ r.pc = "refund" \/ (call[c].op = "cancel" /\ r = NoCall)
             /\ lost' = [lost EXCEPT ![l][c] = @ + a]
    <3> HIDE DEF l
    <3>1. lost[l][c] + a \in Nat
      BY <1>1, <1>2, <1>9
    <3>2. [lost[l] EXCEPT ![c] = @ + a] \in [Char -> Nat]
      BY <1>1, <1>9, <3>1
    <3>3. lost' \in [Listing -> [Char -> Nat]]
      BY <1>1, <1>9, <2>2, <3>2
    <3>4. \A m \in Listing, d \in Char :
             lost'[m][d] = IF m = l /\ d = c THEN lost[m][d] + a ELSE lost[m][d]
      BY <1>1, <1>9, <2>2
    <3>5. QED
      BY <2>2, <3>3, <3>4
  <2>3. QED
    BY <1>6, <2>1, <2>2
<1>11. TypeOK'
  BY <1>4, <1>6, <1>7, <1>10 DEF queue, payouts, IInv, TypeOK
<1>12. CallOK'
  <2> SUFFICES ASSUME NEW d \in Char PROVE CallRow(call[d])'
    BY DEF CallOK
  <2>1. v.state # "none" /\ row[l] # NoRow
    BY <1>3, <1>5 DEF NoRow
  <2> HIDE DEF l
  <2>2. CASE d = c
    BY <1>7, <1>8, <2>1, <2>2 DEF CallRow
  <2>3. CASE d # c
    BY CallIs, <1>8, <2>1, <2>3 DEF CallRow
  <2>4. QED
    BY <2>2, <2>3
<1>13. \A d \in Char, m \in Listing : Inserts(call'[d], m) => Inserts(call[d], m)
  BY <1>7, <1>8 DEF Inserts
<1>14. DrawOK'
  BY <1>13 DEF IInv, DrawOK
<1>15. RowOK'
  <2>1. row[l].bid = 0 <=> row[l].bidder = NoOne
    BY <1>1 DEF IInv, RowOK
  <2>2. v.state # "none" /\ v.seller \in Char /\ (v.bid = 0 <=> v.bidder = NoOne) /\ goods[l] = {}
    BY <1>1, <1>2, <1>3, <1>5, <2>1 DEF IInv, RowOK
  <2> HIDE DEF l
  <2>3. QED
    BY <1>6, <1>8, <2>2 DEF payouts, IInv, RowOK
<1>16. WorkOK'
  BY <1>3, <1>5, <1>6, <1>8 DEF queue, IInv, TypeOK, WorkOK
<1>17. EscrowOK'
  <2> SUFFICES ASSUME NEW m \in Listing, NEW d \in Char
               PROVE  /\ escrow'[m][d] >= Pending(call'[d], m)
                      /\ escrow'[m][d] + lost'[m][d] >= Pending(call'[d], m) + Stands(row'[m], d)
    BY DEF EscrowOK
  <2>1. UNCHANGED escrow
    BY <1>6
  <2>2. /\ escrow[m][d] >= Pending(call[d], m)
        /\ escrow[m][d] + lost[m][d] >= Pending(call[d], m) + Stands(row[m], d)
    BY DEF IInv, EscrowOK
  <2>3. escrow[m][d] \in Nat /\ lost[m][d] \in Nat
    BY <1>9
  <2>4. Stands(row[m], d) \in Nat
    BY BidIs
  <2>5. lost'[m][d] >= lost[m][d] /\ lost'[m][d] \in Nat
    BY <1>2, <1>10, <2>3
  <2>6. CASE d = c /\ m = l
    <3>1. CASE call[c].op = "bid"
      <4>1. Pending(call[d], m) = a /\ Stands(row'[m], d) = a
        BY <1>1, <1>5, <1>8, <2>6, <3>1 DEF Pending, Stands, a
      <4>2. CASE r = NoCall
        <5>1. Pending(call'[d], m) = 0
          BY <1>8, <2>6, <4>2 DEF Pending, NoCall
        <5>2. QED
          BY <1>2, <2>1, <2>2, <2>3, <2>4, <2>5, <4>1, <5>1
      <4>3. CASE r # NoCall
        <5>1. r.pc = "refund" /\ lost'[m][d] = lost[m][d] + a
          BY <1>10, <2>6, <4>3
        <5>2. Pending(call'[d], m) = a
          BY <1>7, <1>8, <2>6, <5>1 DEF Pending
        <5>3. QED
          BY <1>2, <2>1, <2>2, <2>3, <2>4, <4>1, <5>1, <5>2
      <4>4. QED
        BY <4>2, <4>3
    <3>2. CASE call[c].op # "bid"
      <4>1. Pending(call[d], m) = 0 /\ Pending(call'[d], m) = 0 /\ Stands(row'[m], d) = Stands(row[m], d)
        BY <1>5, <1>7, <1>8, <1>10, <2>6, <3>2 DEF Pending, NoCall, Stands
      <4>2. QED
        BY <2>1, <2>2, <2>3, <2>4, <2>5, <4>1
    <3>3. QED
      BY <3>1, <3>2
  <2>7. CASE d = c /\ m # l
    <3>1. Pending(call[d], m) = 0 /\ Pending(call'[d], m) = 0 /\ row'[m] = row[m]
      BY <1>7, <1>8, <1>10, <2>7 DEF Pending, NoCall
    <3>2. QED
      BY <2>1, <2>2, <2>3, <2>4, <2>5, <3>1
  <2>8. CASE d # c
    <3>1. Pending(call'[d], m) = Pending(call[d], m) /\ lost'[m][d] = lost[m][d]
      BY <1>8, <1>10, <2>8
    <3>2. Stands(row'[m], d) \in {0, Stands(row[m], d)}
      BY <1>5, <1>8, <2>8 DEF Stands
    <3>3. Pending(call[d], m) \in Nat
      BY CallIs, PriceIs DEF Pending
    <3>4. QED
      BY <2>1, <2>2, <2>3, <2>4, <3>1, <3>2, <3>3
  <2>9. QED
    BY <2>6, <2>7, <2>8
<1>18. \A d \in Char : Booked(d)' \subseteq Booked(d)
  <2> SUFFICES ASSUME NEW d \in Char, NEW m \in Listing, m \in Booked(d)' PROVE m \in Booked(d)
    BY DEF Booked, ActiveOf
  <2>1. m \in ActiveOf(d)' => m \in ActiveOf(d)
    BY <1>3, <1>5, <1>6, <1>8 DEF ActiveOf
  <2>2. QED
    BY <1>6, <1>13, <2>1 DEF Booked
<1>19. QED
  BY <1>11, <1>12, <1>14, <1>15, <1>16, <1>17, <1>18, BookedKeeps DEF IInv

-----------------------------------------------------------------------------
(* The expiry job *)

Work == [l : Listing \cup {NoOne}, locked : BOOLEAN]

\* A worker's step that leaves the listings alone.
LEMMA WorkerStep ==
    ASSUME IInv, NEW w \in Worker, NEW v \in Work, worker' = [worker EXCEPT ![w] = v],
           v.locked => v.l \in Listing, v.l # NoOne => row[v.l].state # "none",
           jobs' \in [Listing -> [queued : BOOLEAN, due : Nat]],
           \A l \in Listing : jobs'[l].queued => row[l].state # "none",
           lock' \in [Listing -> Char \cup Worker \cup {NoOne}], retries' \in 0 .. MaxRetries,
           UNCHANGED <<now, kinah, row, call, payouts, escrow, calls, slips>>
    PROVE  IInv'
<1> USE DEF payouts, slips
<1>1. TypeOK'
  BY DEF IInv, TypeOK, Work
<1>2. CallOK' /\ DrawOK' /\ RowOK' /\ EscrowOK'
  BY DEF IInv, CallOK, CallRow, DrawOK, RowOK, EscrowOK
<1>3. WorkOK'
  BY DEF IInv, TypeOK, WorkOK
<1>4. \A c \in Char : Booked(c)' \subseteq Booked(c)
  BY DEF Booked, ActiveOf
<1>5. QED
  BY <1>1, <1>2, <1>3, <1>4, BookedKeeps DEF IInv

LEMMA WorkIs ==
    ASSUME IInv, NEW w \in Worker
    PROVE  /\ worker[w] \in Work /\ worker = [worker EXCEPT ![w] = worker[w]]
           /\ worker[w].locked => worker[w].l \in Listing
           /\ worker[w].l # NoOne => row[worker[w].l].state # "none"
           /\ NoWork \in Work /\ ~NoWork.locked /\ NoWork.l = NoOne
           /\ retries \in 0 .. MaxRetries
  BY DEF IInv, TypeOK, WorkOK, Work, NoWork

LEMMA TakeStep == ASSUME IInv, NEW w \in Worker, NEW l \in Listing, Take(w, l) PROVE IInv'
<1> DEFINE v == [worker[w] EXCEPT !.l = l]
<1>1. worker[w] \in Work /\ worker[w] = NoWork /\ jobs[l].queued /\ row[l].state # "none"
  BY WorkIs, StaysTyped DEF Take
<1>2. v \in Work /\ v.l = l /\ ~v.locked
  BY <1>1, WorkIs DEF Work
<1>3. worker' = [worker EXCEPT ![w] = v]
  BY DEF Take
<1> HIDE DEF v
<1>4. /\ jobs' \in [Listing -> [queued : BOOLEAN, due : Nat]]
      /\ \A m \in Listing : jobs'[m].queued => row[m].state # "none"
  BY StaysTyped DEF Take
<1>5. QED
  BY <1>1, <1>2, <1>3, <1>4, StaysTyped, WorkIs, WorkerStep DEF Take, market

LEMMA RedeliverStep == ASSUME IInv, NEW w \in Worker, Redeliver(w) PROVE IInv'
<1>1. /\ jobs' \in [Listing -> [queued : BOOLEAN, due : Nat]]
      /\ \A m \in Listing : jobs'[m].queued => row[m].state # "none"
  <2>1. jobs' = [jobs EXCEPT ![worker[w].l].queued = TRUE]
    BY DEF Redeliver
  <2>2. worker[w].l # NoOne => row[worker[w].l].state # "none"
    BY WorkIs
  <2>3. worker[w].l \in Listing \/ worker[w].l = NoOne
    BY WorkIs DEF Work
  <2>4. NoOne \notin Listing
    OBVIOUS
  <2>5. QED
    BY <2>1, <2>2, <2>3, <2>4, StaysTyped
<1>2. retries \in 0 .. MaxRetries /\ retries' = retries + 1 /\ retries < MaxRetries /\ MaxRetries \in Nat
  BY WorkIs DEF Redeliver
<1>3. retries' \in 0 .. MaxRetries
  BY <1>2
<1>4. worker' = [worker EXCEPT ![w] = worker[w]]
  BY WorkIs DEF Redeliver
<1>5. QED
  BY <1>1, <1>3, <1>4, StaysTyped, WorkIs, WorkerStep DEF Redeliver, market

LEMMA FinishStep ==
    ASSUME IInv, NEW w \in Worker, Finishes(w), lock' \in [Listing -> Char \cup Worker \cup {NoOne}],
           UNCHANGED <<now, kinah, row, call, jobs, retries, payouts, escrow, calls, slips>>
    PROVE  IInv'
<1>1. worker' = [worker EXCEPT ![w] = NoWork]
  BY DEF Finishes
<1>2. QED
  BY <1>1, StaysTyped, WorkIs, WorkerStep

LEMMA SettleSkipsStep == ASSUME IInv, NEW w \in Worker, SettleSkips(w) PROVE IInv'
  BY StaysTyped, FinishStep DEF SettleSkips, market

LEMMA SettleFailsStep == ASSUME IInv, NEW w \in Worker, SettleFails(w) PROVE IInv'
<1>1. lock' \in [Listing -> Char \cup Worker \cup {NoOne}]
  BY StaysTyped DEF SettleFails
<1>2. QED
  BY <1>1, FinishStep DEF SettleFails

LEMMA SettleLocksStep == ASSUME IInv, NEW w \in Worker, SettleLocks(w) PROVE IInv'
<1> DEFINE v == [worker[w] EXCEPT !.locked = TRUE]
<1>1. worker[w] \in Work /\ worker[w] # NoWork /\ ~worker[w].locked
  BY WorkIs DEF SettleLocks
<1>2. worker[w].l \in Listing
  BY <1>1 DEF Work, NoWork
<1>3. v \in Work /\ v.l = worker[w].l
  BY <1>1 DEF Work
<1>4. worker' = [worker EXCEPT ![w] = v]
  BY DEF SettleLocks
<1>5. lock' \in [Listing -> Char \cup Worker \cup {NoOne}]
  BY LockFree DEF SettleLocks
<1>6. UNCHANGED <<now, kinah, row, call, jobs, retries, payouts, escrow, calls, slips>>
  BY DEF SettleLocks
<1>7. row[worker[w].l].state # "none" /\ retries \in 0 .. MaxRetries
  BY <1>2, WorkIs
<1> HIDE DEF v
<1>8. QED
  BY <1>2, <1>3, <1>4, <1>5, <1>6, <1>7, StaysTyped, WorkerStep

\* aion_settleauction.
LEMMA SettleStep == ASSUME IInv, NEW w \in Worker, Settle(w) PROVE IInv'
<1> DEFINE l == worker[w].l
           v == [row[l] EXCEPT !.state = "settled"]
           to == IF row[l].bidder = NoOne THEN row[l].seller ELSE row[l].bidder
<1>1. l \in Listing /\ row[l].state # "none"
  BY WorkIs DEF Settle
<1>2. row[l] \in Row /\ row[l].bid \in Nat /\ row[l].seller \in Char /\ row[l] # NoRow
  BY <1>1, BidIs DEF IInv, RowOK, NoRow
<1>3. /\ v \in Row /\ v.state = "settled" /\ v.seller = row[l].seller /\ v.bid = row[l].bid
      /\ v.bidder = row[l].bidder
  BY <1>2 DEF Row
<1>4. to \in Char
  BY <1>2 DEF Row
<1>5. lock' \in [Listing -> Char \cup Worker \cup {NoOne}]
  BY LockFree DEF Settle
<1>6. CASE Settled(row[l])
  BY <1>5, <1>6, FinishStep DEF Settle
<1>7. CASE ~Settled(row[l])
  <2>1. /\ row' = [row EXCEPT ![l] = v] /\ goods' = [goods EXCEPT ![l] = @ \cup {to}]
        /\ proceeds' = [proceeds EXCEPT ![l] = @ + row[l].bid]
        /\ worker' = [worker EXCEPT ![w] = NoWork]
        /\ UNCHANGED <<now, kinah, call, jobs, retries, escrow, calls, slips>>
    BY <1>7 DEF Settle, Finishes
  <2> HIDE DEF l, v, to
  <2>2. \A m \in Listing : row'[m] = IF m = l THEN v ELSE row[m]
    BY <2>1 DEF IInv, TypeOK
  <2>3. TypeOK'
    <3>1. proceeds[l] + row[l].bid \in Nat
      BY <1>1, <1>2 DEF IInv, TypeOK
    <3>2. proceeds' \in [Listing -> Nat]
      BY <1>1, <2>1, <3>1 DEF IInv, TypeOK
    <3>3. goods' \in [Listing -> SUBSET Char]
      BY <1>1, <1>4, <2>1 DEF IInv, TypeOK
    <3>4. worker' \in [Worker -> [l : Listing \cup {NoOne}, locked : BOOLEAN]]
      BY <2>1, WorkIs DEF IInv, TypeOK, Work
    <3>5. row' \in [Listing -> Row]
      BY <1>1, <1>3, <2>1 DEF IInv, TypeOK
    <3>6. QED
      BY <1>5, <2>1, <3>2, <3>3, <3>4, <3>5 DEF slips, IInv, TypeOK
  <2>4. CallOK'
    <3> SUFFICES ASSUME NEW c \in Char PROVE CallRow(call[c])'
      BY DEF CallOK
    <3>1. call[c].pc = "insert" => call[c].l # l
      BY CallIs, <1>2 DEF CallRow
    <3>2. QED
      BY CallIs, <1>3, <2>1, <2>2, <3>1 DEF CallRow
  <2>5. DrawOK'
    BY <2>1 DEF IInv, DrawOK
  <2>6. RowOK'
    <3> SUFFICES ASSUME NEW m \in Listing
                 PROVE  /\ row'[m].state = "none" => row'[m] = NoRow
                        /\ row'[m].state # "none" => row'[m].seller \in Char
                        /\ row'[m].bid = 0 <=> row'[m].bidder = NoOne
                        /\ row'[m].state \in {"none", "active"} => goods'[m] = {}
      BY DEF RowOK
    <3>1. CASE m = l
      BY <1>1, <1>2, <1>3, <2>2, <3>1 DEF IInv, RowOK
    <3>2. CASE m # l
      BY <2>1, <2>2, <3>2 DEF IInv, TypeOK, RowOK
    <3>3. QED
      BY <3>1, <3>2
  <2>7. WorkOK'
    BY <1>1, <1>3, <2>1, <2>2 DEF IInv, TypeOK, WorkOK, NoWork
  <2>8. EscrowOK'
    <3>1. \A m \in Listing, c \in Char : Stands(row'[m], c) = Stands(row[m], c)
      BY <1>3, <2>2 DEF Stands
    <3>2. QED
      BY <2>1, <3>1 DEF slips, IInv, EscrowOK
  <2>9. \A c \in Char : Booked(c)' \subseteq Booked(c)
    BY <1>3, <2>1, <2>2 DEF slips, Booked, ActiveOf
  <2>10. QED
    BY <2>3, <2>4, <2>5, <2>6, <2>7, <2>8, <2>9, BookedKeeps DEF IInv
<1>8. QED
  BY <1>6, <1>7

-----------------------------------------------------------------------------
LEMMA StepIInv == IInv /\ [Next]_vars => IInv'
<1> SUFFICES ASSUME IInv, [Next]_vars PROVE IInv'
  OBVIOUS
<1>1. CASE Tick
  BY <1>1, TickStep
<1>2. ASSUME NEW c \in Char,
             \/ \E l \in Listing, min \in Price : Register(c, l, min)
             \/ \E l \in Listing, a \in Price : Bid(c, l, a)
             \/ \E l \in Listing : Cancel(c, l)
             \/ Insert(c) \/ InsertFails(c) \/ Enqueue(c)
             \/ Spend(c) \/ Begin(c) \/ Lock(c) \/ Apply(c) \/ Raises(c) \/ Refund(c)
      PROVE  IInv'
  BY <1>2, RegisterStep, BidStep, CancelStep, InsertStep, InsertFailsStep, EnqueueStep, SpendStep,
     BeginStep, LockStep, ApplyStep, RaisesStep, RefundStep
<1>3. ASSUME NEW w \in Worker,
             \/ \E l \in Listing : Take(w, l)
             \/ Redeliver(w) \/ SettleSkips(w) \/ SettleLocks(w) \/ Settle(w) \/ SettleFails(w)
      PROVE  IInv'
  BY <1>3, TakeStep, RedeliverStep, SettleSkipsStep, SettleLocksStep, SettleStep, SettleFailsStep
<1>4. CASE UNCHANGED vars
  <2> USE <1>4 DEF vars, market, payouts, queue, slips
  <2>1. TypeOK' /\ CallOK' /\ DrawOK' /\ RowOK' /\ WorkOK' /\ EscrowOK'
    BY DEF IInv, TypeOK, CallOK, CallRow, DrawOK, RowOK, WorkOK, EscrowOK
  <2>2. \A c \in Char : Booked(c)' \subseteq Booked(c)
    BY DEF Booked, ActiveOf
  <2>3. QED
    BY <2>1, <2>2, BookedKeeps DEF IInv
<1>5. QED
  BY <1>1, <1>2, <1>3, <1>4 DEF Next

THEOREM IInvAlways == Spec => []IInv
<1>1. Init => IInv
  BY InitIInv
<1>2. IInv /\ [Next]_vars => IInv'
  BY StepIInv
<1>3. QED
  BY <1>1, <1>2, PTL DEF Spec

\* The highest bid of a listing is covered by kinah its bidder has paid and not
\* got back, and nobody has more listings than allowed (auction.lua's register
\* and bid, with every failure between their calls).
THEOREM AuctionListingsCovered == Spec => []ListingsCovered
<1>1. IInv => ListingsCovered
  <2> SUFFICES ASSUME IInv PROVE ListingsCovered
    OBVIOUS
  <2>1. TypeOK
    BY DEF IInv
  <2>2. ActiveLimit
    <3> SUFFICES ASSUME NEW c \in Char PROVE Cardinality(ActiveOf(c) \ uncounted) <= MaxActive
      BY DEF ActiveLimit
    <3>1. ActiveOf(c) \ uncounted \subseteq Booked(c)
      BY DEF Booked
    <3>2. Cardinality(ActiveOf(c) \ uncounted) <= Cardinality(Booked(c))
          /\ Cardinality(ActiveOf(c) \ uncounted) \in Nat
      BY <3>1, BookedIsFinite, FS_Subset, FS_CardinalityType
    <3>3. Cardinality(Booked(c)) <= MaxActive
      BY DEF IInv, LimitOK
    <3>4. QED
      BY <3>2, <3>3, BookedIsFinite
  <2>3. EscrowHeld
    <3> SUFFICES ASSUME NEW l \in Listing, row[l].bid > 0
                 PROVE  escrow[l][row[l].bidder] + lost[l][row[l].bidder] >= row[l].bid
      BY DEF EscrowHeld
    <3>1. row[l].bid \in Nat /\ row[l] \in Row
      BY BidIs
    <3>2. row[l].bidder \in Char
      BY <3>1 DEF IInv, RowOK, Row
    <3> DEFINE c == row[l].bidder
    <3>3. escrow[l][c] + lost[l][c] >= Pending(call[c], l) + row[l].bid
      BY <3>2 DEF IInv, EscrowOK, Stands
    <3>4. Pending(call[c], l) \in Nat
      BY <3>2, CallIs, PriceIs DEF Pending
    <3>5. escrow[l][c] \in Nat /\ lost[l][c] \in Nat
      BY <3>2 DEF IInv, TypeOK
    <3>6. QED
      BY <3>1, <3>3, <3>4, <3>5
  <2>4. QED
    BY <2>1, <2>2, <2>3 DEF ListingsCovered
<1>2. QED
  BY <1>1, IInvAlways, PTL

-----------------------------------------------------------------------------
(* Totals.                                                                 *)

LEMMA CoinsAre ==
  ASSUME NEW X, NEW f, \A x \in X : f[x] \in Nat
  PROVE  \A q : q \in Coins(f, X) <=> q \in X \X Nat /\ q[2] >= 1 /\ q[2] <= f[q[1]]
  BY DEF Coins

LEMMA PileCounts ==
  ASSUME NEW x, NEW n \in Nat
  PROVE  IsFiniteSet({x} \X (1..n)) /\ Cardinality({x} \X (1..n)) = n
<1>1. IsFiniteSet({x}) /\ Cardinality({x}) = 1
  BY FS_Singleton
<1>2. IsFiniteSet(1..n) /\ Cardinality(1..n) = n
  BY FS_Interval
<1>3. IsFiniteSet({x} \X (1..n)) /\ Cardinality({x} \X (1..n)) = Cardinality({x}) * Cardinality(1..n)
  BY <1>1, <1>2, FS_Product
<1>4. QED
  BY <1>1, <1>2, <1>3

LEMMA CoinsFinite ==
  ASSUME NEW X, IsFiniteSet(X), NEW f, \A x \in X : f[x] \in Nat
  PROVE  IsFiniteSet(Coins(f, X)) /\ Total(f, X) \in Nat
<1> DEFINE Pile(x) == {x} \X (1..f[x])
           Piles == {Pile(x) : x \in X}
<1>1. \A x \in X : IsFiniteSet(Pile(x))
  BY PileCounts
<1>2. IsFiniteSet(Piles)
  <2> DEFINE g == [x \in X |-> Pile(x)]
  <2>1. g \in Surjection(X, Piles)
    BY DEF Surjection
  <2>2. QED
    BY <2>1, FS_Surjection
<1>3. IsFiniteSet(UNION Piles)
  BY <1>1, <1>2, FS_UNION
<1>4. QED
  BY <1>3, FS_CardinalityType DEF Coins, Total

\* Where nothing changes the total does not.
LEMMA TotalSame ==
  ASSUME NEW X, NEW f, NEW g, \A x \in X : f[x] = g[x]
  PROVE  Total(f, X) = Total(g, X)
  BY DEF Total, Coins

\* A total is a part and the rest.
LEMMA TotalPart ==
  ASSUME NEW X, IsFiniteSet(X), NEW f, \A x \in X : f[x] \in Nat, NEW x \in X
  PROVE  /\ Total(f, X) = Total(f, X \ {x}) + f[x]
         /\ Total(f, X) \in Nat /\ Total(f, X \ {x}) \in Nat
<1> DEFINE Pile == {x} \X (1..f[x])
<1>1. IsFiniteSet(X \ {x}) /\ \A y \in X \ {x} : f[y] \in Nat
  BY FS_RemoveElement
<1>2. /\ IsFiniteSet(Coins(f, X)) /\ Total(f, X) \in Nat
      /\ IsFiniteSet(Coins(f, X \ {x})) /\ Total(f, X \ {x}) \in Nat
  BY <1>1, CoinsFinite
<1>3. IsFiniteSet(Pile) /\ Cardinality(Pile) = f[x]
  BY PileCounts
<1>4. Coins(f, X) = Coins(f, X \ {x}) \cup Pile
  BY DEF Coins
<1>5. Coins(f, X \ {x}) \cap Pile = {}
  BY DEF Coins
<1>6. Cardinality(Coins(f, X)) = Cardinality(Coins(f, X \ {x})) + f[x]
  <2>1. Cardinality(Coins(f, X)) = Cardinality(Coins(f, X \ {x})) + Cardinality(Pile)
                                   - Cardinality(Coins(f, X \ {x}) \cap Pile)
    BY <1>2, <1>3, <1>4, FS_Union
  <2>2. Cardinality(Coins(f, X \ {x}) \cap Pile) = 0
    BY <1>5, FS_EmptySet
  <2>3. QED
    BY <1>2, <1>3, <2>1, <2>2 DEF Total
<1>7. QED
  BY <1>2, <1>6 DEF Total

\* One amount changes and the total by as much.
LEMMA TotalChanges ==
  ASSUME NEW X, IsFiniteSet(X), NEW f, NEW g, NEW x \in X,
         \A y \in X : f[y] \in Nat /\ g[y] \in Nat, \A y \in X \ {x} : g[y] = f[y]
  PROVE  /\ Total(g, X) + f[x] = Total(f, X) + g[x]
         /\ Total(f, X) \in Nat /\ Total(g, X) \in Nat
<1>1. Total(g, X \ {x}) = Total(f, X \ {x})
  BY TotalSame
<1>2. /\ Total(f, X) = Total(f, X \ {x}) + f[x]
      /\ Total(f, X) \in Nat /\ Total(f, X \ {x}) \in Nat
  BY TotalPart
<1>3. Total(g, X) = Total(g, X \ {x}) + g[x] /\ Total(g, X) \in Nat
  BY TotalPart
<1>4. QED
  BY <1>1, <1>2, <1>3

LEMMA TotalGrows ==
  ASSUME NEW X, IsFiniteSet(X), NEW f, NEW g,
         \A x \in X : f[x] \in Nat /\ g[x] \in Nat /\ f[x] <= g[x]
  PROVE  Total(f, X) <= Total(g, X)
<1>1. Coins(f, X) \subseteq Coins(g, X)
  <2>1. \A x \in X : 1..f[x] \subseteq 1..g[x]
    OBVIOUS
  <2>2. QED
    BY <2>1 DEF Coins
<1>2. QED
  BY <1>1, CoinsFinite, FS_Subset DEF Total

LEMMA TotalOfSame ==
  ASSUME NEW X, IsFiniteSet(X), NEW f, NEW n \in Nat, \A x \in X : f[x] = n
  PROVE  Total(f, X) = n * Cardinality(X) /\ Total(f, X) \in Nat
<1>1. Coins(f, X) = X \X (1..n)
  BY DEF Coins
<1>2. Cardinality(1..n) = n /\ IsFiniteSet(1..n)
  BY FS_Interval
<1>3. Cardinality(X \X (1..n)) = Cardinality(X) * n /\ Cardinality(X) \in Nat
  BY <1>2, FS_Product, FS_CardinalityType
<1>4. QED
  BY <1>1, <1>3 DEF Total

\* The totals of two functions add up to that of their sum: the coins of g come
\* after those of f.
LEMMA TotalAdds ==
  ASSUME NEW X, IsFiniteSet(X), NEW f, NEW g, NEW h,
         \A x \in X : f[x] \in Nat /\ g[x] \in Nat /\ h[x] = f[x] + g[x]
  PROVE  Total(h, X) = Total(f, X) + Total(g, X)
<1> DEFINE shift == [q \in Coins(g, X) |-> <<q[1], f[q[1]] + q[2]>>]
           Rest == Coins(h, X) \ Coins(f, X)
<1>1. \A q : q \in Coins(f, X) <=> q \in X \X Nat /\ q[2] >= 1 /\ q[2] <= f[q[1]]
  BY CoinsAre
<1>2. \A q : q \in Coins(g, X) <=> q \in X \X Nat /\ q[2] >= 1 /\ q[2] <= g[q[1]]
  BY CoinsAre
<1>3. \A q : q \in Coins(h, X) <=> q \in X \X Nat /\ q[2] >= 1 /\ q[2] <= h[q[1]]
  BY CoinsAre
<1>4. Coins(f, X) \subseteq Coins(h, X)
  BY <1>1, <1>3
<1>5. \A q : q \in Rest <=> q \in X \X Nat /\ q[2] > f[q[1]] /\ q[2] <= f[q[1]] + g[q[1]]
  BY <1>1, <1>3
<1>6. shift \in Bijection(Coins(g, X), Rest)
  <2>1. \A q \in Coins(g, X) : shift[q] \in Rest
    BY <1>2, <1>5
  <2>2. \A q, r \in Coins(g, X) : shift[q] = shift[r] => q = r
    BY <1>2
  <2>3. \A r \in Rest : \E q \in Coins(g, X) : shift[q] = r
    <3> SUFFICES ASSUME NEW r \in Rest PROVE \E q \in Coins(g, X) : shift[q] = r
      OBVIOUS
    <3>1. r \in X \X Nat /\ r[2] > f[r[1]] /\ r[2] <= f[r[1]] + g[r[1]] /\ r = <<r[1], r[2]>>
      BY <1>5
    <3>2. <<r[1], r[2] - f[r[1]]>> \in Coins(g, X)
      BY <1>2, <3>1
    <3>3. shift[<<r[1], r[2] - f[r[1]]>>] = r
      BY <3>1, <3>2
    <3>4. QED
      BY <3>2, <3>3
  <2>4. QED
    BY <2>1, <2>2, <2>3 DEF Bijection, Injection, Surjection, IsInjective
<1>7. IsFiniteSet(Coins(f, X)) /\ IsFiniteSet(Coins(g, X)) /\ IsFiniteSet(Coins(h, X))
  BY CoinsFinite
<1>8. Cardinality(Rest) = Cardinality(Coins(g, X))
  BY <1>6, <1>7, FS_Bijection DEF ExistsBijection
<1>9. Cardinality(Rest) = Cardinality(Coins(h, X)) - Cardinality(Coins(f, X))
  <2>1. Coins(h, X) \cap Coins(f, X) = Coins(f, X)
    BY <1>4
  <2>2. Cardinality(Rest) = Cardinality(Coins(h, X)) - Cardinality(Coins(h, X) \cap Coins(f, X))
    BY <1>7, FS_Difference
  <2>3. QED
    BY <2>1, <2>2
<1>10. QED
  BY <1>7, <1>8, <1>9, FS_CardinalityType DEF Total
-----------------------------------------------------------------------------
(* Kinah.  Every handler has taken what it holds: kinah is in a purse, in  *)
(* escrow for a bid, or paid as the fee of a registration that may still   *)
(* fail.  Proceeds are paid once and out of an escrow.                     *)

Pairs == Listing \X Char
Escrows == [p \in Pairs |-> escrow[p[1]][p[2]]]
Losses == [p \in Pairs |-> lost[p[1]][p[2]]]

\* The fee of a registration that is not over.
FeeIn(r) == IF r.op = "register" THEN Fee ELSE 0
Fees == [c \in Char |-> FeeIn(call[c])]

Books == Total(kinah, Char) + Total(Escrows, Pairs) + Total(Fees, Char) <= Purse * Cardinality(Char)

ProceedsOK ==
  \A l \in Listing : proceeds[l] = IF row[l].state = "settled" THEN row[l].bid ELSE 0

PairLemma == \A p \in Pairs : p[1] \in Listing /\ p[2] \in Char /\ p = <<p[1], p[2]>>

LEMMA PairsFinite == IsFiniteSet(Pairs) /\ PairLemma
  BY FS_Product DEF Pairs, PairLemma

LEMMA AmountsAre ==
  ASSUME IInv
  PROVE  /\ \A c \in Char : kinah[c] \in Nat /\ Fees[c] \in Nat
         /\ \A p \in Pairs : Escrows[p] \in Nat /\ Losses[p] \in Nat
  BY PairsFinite DEF IInv, TypeOK, Escrows, Losses, Fees, FeeIn, PairLemma

LEMMA TotalsAre ==
  ASSUME IInv
  PROVE  Total(kinah, Char) \in Nat /\ Total(Fees, Char) \in Nat /\ Total(Escrows, Pairs) \in Nat
  BY PairsFinite, AmountsAre, CoinsFinite

LEMMA PurseIs == Purse * Cardinality(Char) \in Nat
  BY FS_CardinalityType

\* A step that moves no kinah, and whose registrations can only end.
LEMMA BooksStay ==
  ASSUME IInv, IInv', Books, UNCHANGED <<kinah, escrow>>,
         \A c \in Char : FeeIn(call'[c]) <= FeeIn(call[c])
  PROVE  Books'
<1>1. Escrows' = Escrows
  BY DEF Escrows
<1>2. \A c \in Char : Fees[c] \in Nat /\ Fees'[c] \in Nat /\ Fees'[c] <= Fees[c]
  BY DEF Fees, FeeIn
<1>3. Total(Fees', Char) <= Total(Fees, Char)
  BY <1>2, TotalGrows
<1>4. Total(Fees', Char) = Total(Fees, Char)'
  BY DEF Total, Coins
<1>5. /\ Total(Escrows, Pairs)' = Total(Escrows, Pairs)
      /\ Total(kinah, Char)' = Total(kinah, Char)
  BY <1>1 DEF Total, Coins
<1>6. Total(Fees', Char) \in Nat
  BY <1>2, CoinsFinite
<1>7. /\ Total(kinah, Char) \in Nat /\ Total(Fees, Char) \in Nat /\ Total(Escrows, Pairs) \in Nat
  BY TotalsAre
<1>8. QED
  BY <1>3, <1>4, <1>5, <1>6, <1>7, PurseIs DEF Books

LEMMA FeesMove ==
  ASSUME NEW c \in Char, \A d \in Char : Fees[d] \in Nat /\ Fees'[d] \in Nat,
         \A d \in Char \ {c} : Fees'[d] = Fees[d]
  PROVE  /\ Total(Fees', Char) + Fees[c] = Total(Fees, Char) + Fees'[c]
         /\ Total(Fees, Char) \in Nat /\ Total(Fees', Char) \in Nat
  BY TotalChanges

\* A step that moves kinah between one character's purse, its escrow for one
\* listing and its fee.
LEMMA BooksMove ==
  ASSUME IInv, IInv', Books, NEW c \in Char, NEW l \in Listing,
         \A d \in Char \ {c} : kinah'[d] = kinah[d] /\ FeeIn(call'[d]) = FeeIn(call[d]),
         \A p \in Pairs : p # <<l, c>> => escrow'[p[1]][p[2]] = escrow[p[1]][p[2]],
         kinah'[c] + escrow'[l][c] + FeeIn(call'[c]) = kinah[c] + escrow[l][c] + FeeIn(call[c])
  PROVE  Books'
<1>0. <<l, c>> \in Pairs
  BY DEF Pairs
<1>1. /\ \A d \in Char : kinah[d] \in Nat /\ kinah'[d] \in Nat /\ Fees[d] \in Nat /\ Fees'[d] \in Nat
      /\ \A p \in Pairs : Escrows[p] \in Nat /\ Escrows'[p] \in Nat
  <2>1. \A d \in Char : kinah'[d] \in Nat
    BY DEF IInv, TypeOK
  <2>2. \A d \in Char : Fees'[d] \in Nat
    BY DEF Fees, FeeIn
  <2>3. \A p \in Pairs : Escrows'[p] \in Nat
    BY PairsFinite DEF IInv, TypeOK, Escrows, PairLemma
  <2>4. QED
    BY <2>1, <2>2, <2>3, AmountsAre
<1>2. \A d \in Char \ {c} : kinah'[d] = kinah[d] /\ Fees'[d] = Fees[d]
  BY DEF Fees
<1>3. \A p \in Pairs \ {<<l, c>>} : Escrows'[p] = Escrows[p]
  BY DEF Escrows
<1>4. /\ Total(kinah', Char) + kinah[c] = Total(kinah, Char) + kinah'[c]
      /\ Total(kinah, Char) \in Nat /\ Total(kinah', Char) \in Nat
  BY <1>1, <1>2, TotalChanges
<1>5. /\ Total(Fees', Char) + Fees[c] = Total(Fees, Char) + Fees'[c]
      /\ Total(Fees, Char) \in Nat /\ Total(Fees', Char) \in Nat
  BY <1>1, <1>2, FeesMove
<1>6. /\ Total(Escrows', Pairs) + Escrows[<<l, c>>] = Total(Escrows, Pairs) + Escrows'[<<l, c>>]
      /\ Total(Escrows, Pairs) \in Nat /\ Total(Escrows', Pairs) \in Nat
  BY <1>0, <1>1, <1>3, PairsFinite, TotalChanges
<1>7. kinah'[c] + Escrows'[<<l, c>>] + Fees'[c] = kinah[c] + Escrows[<<l, c>>] + Fees[c]
  BY <1>0 DEF Escrows, Fees
<1>8. Total(kinah', Char) + Total(Escrows', Pairs) + Total(Fees', Char)
        = Total(kinah, Char) + Total(Escrows, Pairs) + Total(Fees, Char)
  BY <1>0, <1>1, <1>4, <1>5, <1>6, <1>7
<1>9. /\ Total(kinah', Char) = Total(kinah, Char)' /\ Total(Fees', Char) = Total(Fees, Char)'
      /\ Total(Escrows', Pairs) = Total(Escrows, Pairs)'
  BY DEF Total, Coins
<1>10. QED
  BY <1>8, <1>9 DEF Books

\* A handler that goes on keeps its operation, one that returns has none.
LEMMA FeesEnd ==
  ASSUME IInv, NEW c \in Char, (\E pc : Goes(c, pc)) \/ Returns(c) \/ Fails(c)
  PROVE  \A d \in Char : FeeIn(call'[d]) <= FeeIn(call[d])
<1>1. call \in [Char -> Call]
  BY DEF IInv, TypeOK
<1>2. CASE \E pc : Goes(c, pc)
  <2>1. \A d \in Char : call'[d].op = call[d].op
    BY <1>1, <1>2 DEF Goes, Call
  <2>2. QED
    BY <2>1 DEF FeeIn
<1>3. CASE Returns(c)
  <2>1. \A d \in Char : call'[d] = IF d = c THEN NoCall ELSE call[d]
    BY <1>1, <1>3 DEF Returns
  <2>2. FeeIn(NoCall) = 0
    BY DEF FeeIn, NoCall
  <2>3. \A d \in Char : FeeIn(call[d]) \in Nat
    BY DEF FeeIn
  <2>4. QED
    BY <2>1, <2>2, <2>3
<1>4. QED
  BY <1>2, <1>3 DEF Fails

\* A bid or a cancellation begins.
LEMMA NoFeeStarts ==
  ASSUME IInv, NEW c \in Char, NEW r, Starts(c, r), r.op # "register"
  PROVE  \A d \in Char : FeeIn(call'[d]) <= FeeIn(call[d])
  BY DEF IInv, TypeOK, Starts, FeeIn

LEMMA RegisterBooks ==
  ASSUME IInv, IInv', Books, NEW c \in Char, NEW l \in Listing, NEW min, Register(c, l, min)
  PROVE  Books'
<1> DEFINE r == [pc |-> "insert", op |-> "register", l |-> l, amt |-> min, time |-> now + Duration]
<1>1. /\ call[c] = NoCall /\ call' = [call EXCEPT ![c] = r] /\ kinah' = [kinah EXCEPT ![c] = @ - Fee]
      /\ escrow' = escrow
  BY DEF Register, ChargesFee, Starts
<1>2. call \in [Char -> Call] /\ kinah \in [Char -> Nat] /\ escrow \in [Listing -> [Char -> Nat]]
  BY DEF IInv, TypeOK
<1>3. FeeIn(call'[c]) = Fee /\ FeeIn(call[c]) = 0
  BY <1>1, <1>2 DEF FeeIn, NoCall
<1>4. \A d \in Char \ {c} : kinah'[d] = kinah[d] /\ FeeIn(call'[d]) = FeeIn(call[d])
  BY <1>1, <1>2
<1>5. kinah'[c] + escrow'[l][c] + FeeIn(call'[c]) = kinah[c] + escrow[l][c] + FeeIn(call[c])
  BY <1>1, <1>2, <1>3
<1>6. QED
  BY <1>1, <1>4, <1>5, BooksMove

LEMMA SpendBooks == ASSUME IInv, IInv', Books, NEW c \in Char, Spend(c) PROVE Books'
<1> DEFINE l == call[c].l
           a == call[c].amt
<1>1. CASE kinah[c] < a
  <2>1. kinah[c] \in Nat /\ a \in Nat
    BY CallIs, PriceIs DEF Spend, CallRow, IInv, TypeOK
  <2>2. Returns(c) /\ UNCHANGED <<kinah, escrow>>
    BY <1>1, <2>1 DEF Spend
  <2>3. QED
    BY <2>2, FeesEnd, BooksStay
<1>2. CASE kinah[c] >= a
  <2>1. /\ kinah' = [kinah EXCEPT ![c] = @ - a] /\ escrow' = [escrow EXCEPT ![l][c] = @ + a]
        /\ call' = [call EXCEPT ![c].pc = "begin"]
    BY <1>2 DEF Spend, Goes
  <2>2. /\ call \in [Char -> Call] /\ kinah \in [Char -> Nat] /\ escrow \in [Listing -> [Char -> Nat]]
        /\ l \in Listing /\ a \in Nat
    BY CallIs, PriceIs DEF Spend, CallRow, IInv, TypeOK
  <2> HIDE DEF l, a
  <2>3. \A d \in Char : FeeIn(call'[d]) = FeeIn(call[d])
    BY <2>1, <2>2 DEF FeeIn, Call
  <2>4. \A p \in Pairs : p # <<l, c>> => escrow'[p[1]][p[2]] = escrow[p[1]][p[2]]
    BY <2>1, <2>2, PairsFinite DEF PairLemma
  <2>5. /\ kinah'[c] = kinah[c] - a /\ escrow'[l][c] = escrow[l][c] + a
        /\ \A d \in Char \ {c} : kinah'[d] = kinah[d]
    BY <2>1, <2>2
  <2>6. kinah'[c] + escrow'[l][c] + FeeIn(call'[c]) = kinah[c] + escrow[l][c] + FeeIn(call[c])
    <3>1. kinah[c] \in Nat /\ escrow[l][c] \in Nat /\ FeeIn(call[c]) \in Nat
      BY <2>2 DEF FeeIn
    <3>2. QED
      BY <2>2, <2>3, <2>5, <3>1
  <2>7. QED
    BY <2>2, <2>3, <2>4, <2>5, <2>6, BooksMove
<1>3. kinah[c] \in Nat /\ a \in Nat
  BY CallIs, PriceIs DEF Spend, CallRow, IInv, TypeOK
<1>4. QED
  BY <1>1, <1>2, <1>3

LEMMA RefundBooks == ASSUME IInv, IInv', Books, NEW c \in Char, Refund(c) PROVE Books'
<1> DEFINE l == call[c].l
           a == call[c].amt
<1>1. /\ call \in [Char -> Call] /\ kinah \in [Char -> Nat] /\ escrow \in [Listing -> [Char -> Nat]]
      /\ l \in Listing /\ a \in Nat /\ call[c].op \in {"register", "bid"}
  BY CallIs, PriceIs DEF Refund, CallRow, IInv, TypeOK
<1>2. \A d \in Char : call'[d] = IF d = c THEN NoCall ELSE call[d]
  BY <1>1 DEF Refund, Returns
<1>3. FeeIn(call'[c]) = 0
  BY <1>2 DEF FeeIn, NoCall
<1>4. CASE call[c].op = "register"
  <2>1. kinah' = [kinah EXCEPT ![c] = @ + Fee] /\ escrow' = escrow
    BY <1>4 DEF Refund
  <2>2. FeeIn(call[c]) = Fee
    BY <1>4 DEF FeeIn
  <2>3. kinah'[c] + escrow'[l][c] + FeeIn(call'[c]) = kinah[c] + escrow[l][c] + FeeIn(call[c])
    <3>1. kinah'[c] = kinah[c] + Fee /\ kinah[c] \in Nat /\ escrow[l][c] \in Nat
      BY <1>1, <2>1
    <3>2. QED
      BY <1>3, <2>1, <2>2, <3>1
  <2>4. \A d \in Char \ {c} : kinah'[d] = kinah[d]
    BY <1>1, <2>1
  <2>5. QED
    BY <1>1, <1>2, <2>1, <2>3, <2>4, BooksMove
<1>5. CASE call[c].op = "bid"
  <2>1. kinah' = [kinah EXCEPT ![c] = @ + a] /\ escrow' = [escrow EXCEPT ![l][c] = @ - a]
    BY <1>5 DEF Refund
  <2> HIDE DEF l, a
  <2>2. FeeIn(call[c]) = 0
    BY <1>5 DEF FeeIn
  <2>3. kinah'[c] + escrow'[l][c] + FeeIn(call'[c]) = kinah[c] + escrow[l][c] + FeeIn(call[c])
    <3>1. /\ kinah'[c] = kinah[c] + a /\ escrow'[l][c] = escrow[l][c] - a
          /\ kinah[c] \in Nat /\ escrow[l][c] \in Nat
      BY <1>1, <2>1
    <3>2. QED
      BY <1>1, <1>3, <2>2, <3>1
  <2>4. \A d \in Char \ {c} : kinah'[d] = kinah[d]
    BY <1>1, <2>1
  <2>5. \A p \in Pairs : p # <<l, c>> => escrow'[p[1]][p[2]] = escrow[p[1]][p[2]]
    BY <1>1, <2>1, PairsFinite DEF PairLemma
  <2>6. QED
    BY <1>1, <1>2, <2>3, <2>4, <2>5, BooksMove
<1>6. QED
  BY <1>1, <1>4, <1>5

LEMMA StepBooks == ASSUME IInv, IInv', Books, [Next]_vars PROVE Books'
<1> DEFINE Still == UNCHANGED <<kinah, escrow>> /\ \A d \in Char : FeeIn(call'[d]) <= FeeIn(call[d])
<1>0. \A d \in Char : FeeIn(call[d]) <= FeeIn(call[d])
  BY DEF FeeIn
<1>1. ASSUME NEW c \in Char PROVE
        /\ Insert(c) => Still
        /\ InsertFails(c) => Still
        /\ Enqueue(c) => Still
        /\ Begin(c) => Still
        /\ Lock(c) => Still
        /\ Apply(c) => Still
        /\ Raises(c) => Still
  <2>1. Insert(c) \/ InsertFails(c) \/ Lock(c) => Still
    BY FeesEnd DEF Insert, InsertFails, Lock
  <2>2. Enqueue(c) => Still
    BY FeesEnd DEF Enqueue
  <2>3. Begin(c) => Still
    <3>1. ASSUME call' = [call EXCEPT ![c].pc = "lock", ![c].time = now]
          PROVE  \A d \in Char : FeeIn(call'[d]) <= FeeIn(call[d])
      <4>1. \A d \in Char : call'[d].op = call[d].op
        BY <3>1 DEF IInv, TypeOK, Call
      <4>2. QED
        BY <4>1 DEF FeeIn
    <3>2. QED
      BY <3>1, FeesEnd DEF Begin
  <2>4. Apply(c) \/ Raises(c) => Still
    BY FeesEnd DEF Apply, Raises
  <2>5. QED
    BY <2>1, <2>2, <2>3, <2>4
<1>2. ASSUME NEW c \in Char, NEW l \in Listing, NEW a \in Price PROVE Bid(c, l, a) => Still
  <2>1. [pc |-> "spend", op |-> "bid", l |-> l, amt |-> a, time |-> 0].op # "register"
    OBVIOUS
  <2>2. QED
    BY <2>1, NoFeeStarts DEF Bid
<1>3. ASSUME NEW c \in Char, NEW l \in Listing PROVE Cancel(c, l) => Still
  <2>1. [pc |-> "begin", op |-> "cancel", l |-> l, amt |-> 0, time |-> 0].op # "register"
    OBVIOUS
  <2>2. QED
    BY <2>1, NoFeeStarts DEF Cancel
<1>4. ASSUME NEW w \in Worker PROVE
        (\E l \in Listing : Take(w, l)) \/ Redeliver(w) \/ SettleSkips(w) \/ SettleLocks(w)
          \/ Settle(w) \/ SettleFails(w) => Still
  BY <1>0 DEF Take, Redeliver, SettleSkips, SettleLocks, Settle, SettleFails
<1>5. Tick \/ UNCHANGED vars => Still
  BY <1>0 DEF Tick, vars
<1> HIDE DEF Still
<1>6. Still => Books'
  BY BooksStay DEF Still
<1>7. QED
  BY <1>1, <1>2, <1>3, <1>4, <1>5, <1>6, RegisterBooks, SpendBooks, RefundBooks DEF Next

\* Only Settle pays, and it settles what was not settled: a bid stays as it is
\* once its listing is no longer active.
LEMMA StepProceeds == ASSUME IInv, ProceedsOK, [Next]_vars PROVE ProceedsOK'
<1>1. row \in [Listing -> Row] /\ proceeds \in [Listing -> Nat] /\ \A l \in Listing : row[l].bid \in Nat
  BY BidIs DEF IInv, TypeOK
<1>2. CASE UNCHANGED <<row, proceeds>>
  BY <1>2 DEF ProceedsOK
<1>3. ASSUME NEW c \in Char, Insert(c) PROVE ProceedsOK'
  <2> DEFINE l == call[c].l
  <2>1. l \in Listing /\ row[l] = NoRow
    BY CallIs, <1>3 DEF CallRow, Insert
  <2>2. /\ row'[l].state = "active" /\ \A m \in Listing \ {l} : row'[m] = row[m]
        /\ proceeds' = proceeds
    BY <1>1, <1>3, <2>1 DEF Insert, payouts
  <2>3. row[l].state = "none"
    BY <2>1 DEF NoRow
  <2> HIDE DEF l
  <2>4. QED
    BY <2>1, <2>2, <2>3 DEF ProceedsOK
<1>4. ASSUME NEW c \in Char, Apply(c) PROVE ProceedsOK'
  <2> DEFINE l == call[c].l
             b == [row[l] EXCEPT !.bid = call[c].amt, !.bidder = c]
             x == [row[l] EXCEPT !.state = "cancelled"]
  <2>1. l \in Listing /\ row[l].state = "active" /\ row[l] \in Row
    BY <1>1, CallIs, <1>4 DEF CallRow, Apply, Accepts
  <2>2. row' = [row EXCEPT ![l] = IF call[c].op = "bid" THEN b ELSE x] /\ proceeds' = proceeds
    BY <1>4 DEF Apply, payouts
  <2>3. b.state = "active" /\ x.state = "cancelled"
    BY <2>1 DEF Row
  <2> HIDE DEF l, b, x
  <2>4. row'[l].state \in {"active", "cancelled"} /\ \A m \in Listing \ {l} : row'[m] = row[m]
    BY <1>1, <2>1, <2>2, <2>3
  <2>5. QED
    BY <2>1, <2>2, <2>4 DEF ProceedsOK
<1>5. ASSUME NEW w \in Worker, Settle(w) PROVE ProceedsOK'
  <2> DEFINE l == worker[w].l
             v == [row[l] EXCEPT !.state = "settled"]
  <2>1. l \in Listing /\ row[l] \in Row
    BY <1>1, WorkIs, <1>5 DEF Settle
  <2>2. CASE Settled(row[l])
    BY <1>2, <1>5, <2>2 DEF Settle, payouts
  <2>3. CASE ~Settled(row[l])
    <3>1. row' = [row EXCEPT ![l] = v] /\ proceeds' = [proceeds EXCEPT ![l] = @ + row[l].bid]
      BY <1>5, <2>3 DEF Settle
    <3>2. v.state = "settled" /\ v.bid = row[l].bid
      BY <2>1 DEF Row
    <3>3. proceeds[l] = 0
      BY <2>1, <2>3 DEF ProceedsOK, Settled
    <3> HIDE DEF l, v
    <3>4. /\ row'[l] = v /\ proceeds'[l] = row[l].bid
          /\ \A m \in Listing \ {l} : row'[m] = row[m] /\ proceeds'[m] = proceeds[m]
      BY <1>1, <2>1, <3>1, <3>3
    <3>5. QED
      BY <2>1, <3>2, <3>4 DEF ProceedsOK
  <2>4. QED
    BY <2>2, <2>3
<1>6. ASSUME NEW c \in Char,
             \/ \E l \in Listing, min \in Price : Register(c, l, min)
             \/ \E l \in Listing, a \in Price : Bid(c, l, a)
             \/ \E l \in Listing : Cancel(c, l)
             \/ InsertFails(c) \/ Enqueue(c) \/ Spend(c) \/ Begin(c) \/ Lock(c) \/ Raises(c) \/ Refund(c)
      PROVE  UNCHANGED <<row, proceeds>>
  BY <1>6 DEF Register, ChargesFee, Bid, Cancel, InsertFails, Enqueue, Spend, Begin, Lock, Raises,
              Refund, market, payouts
<1>7. ASSUME NEW w \in Worker,
             \/ \E l \in Listing : Take(w, l)
             \/ Redeliver(w) \/ SettleSkips(w) \/ SettleLocks(w) \/ SettleFails(w)
      PROVE  UNCHANGED <<row, proceeds>>
  BY <1>7 DEF Take, Redeliver, SettleSkips, SettleLocks, SettleFails, market, payouts
<1>8. Tick \/ UNCHANGED vars => UNCHANGED <<row, proceeds>>
  BY DEF Tick, vars, market, payouts
<1>9. QED
  BY <1>2, <1>3, <1>4, <1>5, <1>6, <1>7, <1>8 DEF Next

LEMMA InitBooks == Init => Books /\ ProceedsOK
<1> SUFFICES ASSUME Init PROVE Books /\ ProceedsOK
  OBVIOUS
<1>1. \A c \in Char : kinah[c] = Purse /\ Fees[c] = 0
  BY DEF Init, Fees, FeeIn, NoCall
<1>2. \A p \in Pairs : Escrows[p] = 0
  BY PairsFinite DEF Init, Escrows, PairLemma
<1>3. Total(kinah, Char) = Purse * Cardinality(Char)
  BY <1>1, TotalOfSame
<1>4. Total(Fees, Char) = 0
  <2>1. 0 * Cardinality(Char) = 0
    BY FS_CardinalityType
  <2>2. QED
    BY <1>1, <2>1, TotalOfSame
<1>5. Total(Escrows, Pairs) = 0
  <2>1. 0 * Cardinality(Pairs) = 0
    BY PairsFinite, FS_CardinalityType
  <2>2. QED
    BY <1>2, <2>1, PairsFinite, TotalOfSame
<1>6. Books
  BY <1>3, <1>4, <1>5, PurseIs DEF Books
<1>7. ProceedsOK
  BY DEF Init, ProceedsOK, NoRow
<1>8. QED
  BY <1>6, <1>7

LEMMA BooksAlways == Spec => [](Books /\ ProceedsOK)
<1>1. IInv /\ IInv' /\ Books /\ ProceedsOK /\ [Next]_vars => Books' /\ ProceedsOK'
  BY StepBooks, StepProceeds
<1>2. QED
  BY <1>1, InitBooks, IInvAlways, PTL DEF Spec

\* What one of each pair is owed is no more than what all of its pairs have.
LEMMA TotalOfPairs ==
  ASSUME NEW X, IsFiniteSet(X), NEW Y, IsFiniteSet(Y), NEW f, NEW h, NEW b,
         \A x \in X : f[x] \in Nat, \A p \in X \X Y : h[p] \in Nat,
         \A x \in X : f[x] > 0 => b[x] \in Y /\ f[x] <= h[<<x, b[x]>>]
  PROVE  Total(f, X) <= Total(h, X \X Y)
<1> DEFINE to == [q \in Coins(f, X) |-> <<<<q[1], b[q[1]]>>, q[2]>>]
<1>1. \A q : q \in Coins(f, X) <=> q \in X \X Nat /\ q[2] >= 1 /\ q[2] <= f[q[1]]
  BY CoinsAre
<1>2. \A q : q \in Coins(h, X \X Y) <=> q \in (X \X Y) \X Nat /\ q[2] >= 1 /\ q[2] <= h[q[1]]
  BY CoinsAre
<1>3. \A q \in Coins(f, X) : to[q] \in Coins(h, X \X Y)
  <2> SUFFICES ASSUME NEW q \in Coins(f, X) PROVE <<<<q[1], b[q[1]]>>, q[2]>> \in Coins(h, X \X Y)
    OBVIOUS
  <2>1. q[1] \in X /\ q[2] \in Nat /\ q[2] >= 1 /\ q[2] <= f[q[1]]
    BY <1>1
  <2>2. f[q[1]] > 0 /\ b[q[1]] \in Y /\ f[q[1]] <= h[<<q[1], b[q[1]]>>]
    BY <2>1
  <2>3. q[2] <= h[<<q[1], b[q[1]]>>]
    BY <2>1, <2>2
  <2>4. QED
    BY <1>2, <2>1, <2>2, <2>3
<1>4. \A q, r \in Coins(f, X) : to[q] = to[r] => q = r
  BY <1>1
<1>5. to \in Injection(Coins(f, X), Coins(h, X \X Y))
  BY <1>3, <1>4 DEF Injection, IsInjective
<1>6. IsFiniteSet(Coins(h, X \X Y))
  BY FS_Product, CoinsFinite
<1>7. QED
  BY <1>5, <1>6, FS_Injection DEF Total

\* Whatever is refunded, settled twice or left without an answer: the kinah in
\* the purses and in the sellers' mails was there at first, but for what bids
\* that stand and were refunded add.
THEOREM AuctionNoKinahMinted == Spec => []NoKinahMinted
<1>1. IInv /\ Books /\ ProceedsOK => NoKinahMinted
  <2> SUFFICES ASSUME IInv, Books, ProceedsOK PROVE NoKinahMinted
    OBVIOUS
  <2> DEFINE Both == [p \in Pairs |-> Escrows[p] + Losses[p]]
             Bidder == [l \in Listing |-> row[l].bidder]
  <2>1. \A p \in Pairs : Escrows[p] \in Nat /\ Losses[p] \in Nat /\ Both[p] \in Nat
    BY AmountsAre
  <2>2. \A l \in Listing : proceeds[l] \in Nat
    BY DEF IInv, TypeOK
  <2>3. ASSUME NEW l \in Listing, proceeds[l] > 0
        PROVE  Bidder[l] \in Char /\ proceeds[l] <= Both[<<l, Bidder[l]>>]
    <3>1. proceeds[l] = row[l].bid /\ row[l].bid > 0 /\ row[l].bid \in Nat /\ row[l] \in Row
      BY <2>3, BidIs DEF ProceedsOK
    <3>2. row[l].bidder \in Char
      BY <3>1 DEF IInv, RowOK, Row
    <3> DEFINE c == row[l].bidder
    <3>3. escrow[l][c] + lost[l][c] >= Pending(call[c], l) + row[l].bid
      BY <3>2 DEF IInv, EscrowOK, Stands
    <3>4. Pending(call[c], l) \in Nat
      BY <3>2, CallIs, PriceIs DEF Pending
    <3>5. escrow[l][c] \in Nat /\ lost[l][c] \in Nat
      BY <3>2 DEF IInv, TypeOK
    <3>6. Both[<<l, c>>] = escrow[l][c] + lost[l][c]
      BY <3>2 DEF Pairs, Escrows, Losses
    <3> HIDE DEF Both
    <3>7. QED
      BY <3>1, <3>2, <3>3, <3>4, <3>5, <3>6
  <2> HIDE DEF Bidder
  <2>4. Total(proceeds, Listing) <= Total(Both, Pairs)
    <3> HIDE DEF Both
    <3>1. QED
      BY <2>1, <2>2, <2>3, TotalOfPairs DEF Pairs
  <2>5. Total(Both, Pairs) = Total(Escrows, Pairs) + Total(Losses, Pairs)
    BY <2>1, PairsFinite, TotalAdds
  <2>6. /\ Total(kinah, Char) \in Nat /\ Total(Fees, Char) \in Nat /\ Total(Escrows, Pairs) \in Nat
        /\ Total(Losses, Pairs) \in Nat /\ Total(proceeds, Listing) \in Nat
    BY <2>1, <2>2, TotalsAre, PairsFinite, CoinsFinite
  <2> HIDE DEF Both
  <2>7. Total(kinah, Char) + Total(proceeds, Listing) <= Purse * Cardinality(Char) + Total(Losses, Pairs)
    BY <2>4, <2>5, <2>6, PurseIs DEF Books
  <2>8. QED
    BY <2>7 DEF NoKinahMinted, Losses, Pairs
<1>2. QED
  BY <1>1, IInvAlways, BooksAlways, PTL

-----------------------------------------------------------------------------
(* The refinement                                                          *)

\* The abstract variables.
Phases  == [l \in Listing |-> Phase[row[l].state]]
Sellers == [l \in Listing |-> row[l].seller]
Highs   == [l \in Listing |-> row[l].bid]
Holders == [l \in Listing |-> row[l].bidder]
Goods   == [l \in Listing |-> IF goods[l] = {} THEN NoOne ELSE CHOOSE c \in goods[l] : TRUE]

LEMMA SameListings ==
    ASSUME UNCHANGED <<row, goods, proceeds>>
    PROVE  UNCHANGED Contract!vars
  BY DEF Contract!vars

LEMMA PhaseIs == /\ Phase["none"] = "none" /\ Phase["active"] = "open"
                 /\ Phase["cancelled"] = "withdrawn" /\ Phase["settled"] = "delivered"
  BY DEF Phase

LEMMA RaiseIsNext == ASSUME NEW l \in Listing, NEW c \in Char, NEW a \in Price, Contract!Raise(l, c, a)
                     PROVE  Contract!Next
  BY DEF Contract!Next

LEMMA WithdrawIsNext == ASSUME NEW l \in Listing, Contract!Withdraw(l) PROVE Contract!Next
  BY DEF Contract!Next

LEMMA DeliverIsNext == ASSUME NEW l \in Listing, Contract!Deliver(l) PROVE Contract!Next
  BY DEF Contract!Next

LEMMA InsertOpens == ASSUME IInv, NEW c \in Char, Insert(c) PROVE Contract!Next
<1> DEFINE l == call[c].l
<1>1. l \in Listing /\ row[l] = NoRow /\ row[l].state = "none" /\ row[l].bid = 0 /\ row[l].bidder = NoOne
  BY CallIs DEF Insert, CallRow, NoRow
<1>2. /\ row'[l].state = "active" /\ row'[l].seller = c /\ row'[l].bid = 0 /\ row'[l].bidder = NoOne
      /\ \A m \in Listing : m # l => row'[m] = row[m]
      /\ UNCHANGED <<goods, proceeds>>
  BY <1>1 DEF Insert, payouts, IInv, TypeOK
<1> HIDE DEF l
<1>3. Phases[l] = "none" /\ Phases' = [Phases EXCEPT ![l] = "open"]
  BY <1>1, <1>2, PhaseIs DEF Phases
<1>4. Sellers' = [Sellers EXCEPT ![l] = c]
  BY <1>1, <1>2 DEF Sellers
<1>5. Highs' = Highs /\ Holders' = Holders /\ Goods' = Goods /\ proceeds' = proceeds
  BY <1>1, <1>2 DEF Highs, Holders, Goods
<1>6. Contract!Open(l, c)
  BY <1>3, <1>4, <1>5 DEF Contract!Open, Phases, Sellers, Highs, Holders, Goods
<1>7. QED
  BY <1>1, <1>6 DEF Contract!Next

LEMMA ApplyRaisesOrWithdraws == ASSUME IInv, NEW c \in Char, Apply(c) PROVE Contract!Next
<1>a. CallRow(call[c])
  BY CallIs DEF Apply
<1> PICK l \in Listing : l = call[c].l
  BY <1>a DEF CallRow, Apply
<1> PICK a : a = call[c].amt
  OBVIOUS
<1>1. /\ CallRow(call[c]) /\ l \in Listing /\ call[c].op \in {"bid", "cancel"} /\ Accepts(c, row[l])
      /\ call[c].op = "bid" => a \in Price /\ a \in Nat /\ a > 0
  BY CallIs, PriceIs DEF Apply, CallRow
<1>2. row[l] \in Row /\ row[l].bid \in Nat /\ row[l].state = "active"
  BY <1>1, BidIs DEF Accepts
<1>3. row'[l] = IF call[c].op = "bid" THEN [row[l] EXCEPT !.bid = a, !.bidder = c]
                                      ELSE [row[l] EXCEPT !.state = "cancelled"]
  BY <1>1 DEF Apply, IInv, TypeOK
<1>4. \A m \in Listing : m # l => row'[m] = row[m]
  BY <1>1 DEF Apply, IInv, TypeOK
<1>5. l \in Listing /\ goods' = goods /\ proceeds' = proceeds
  BY <1>1 DEF Apply, payouts
<1>6. row[l].state = "active"
  BY <1>2
<1>7. CASE call[c].op = "bid"
  <2>1. /\ row'[l].state = "active" /\ row'[l].seller = row[l].seller /\ row'[l].bid = a
        /\ row'[l].bidder = c
    BY <1>2, <1>3, <1>7 DEF Row
  <2>2. c # row[l].seller /\ a > row[l].bid
    BY <1>1, <1>2, <1>7 DEF Accepts, Required
  <2>3. a \in Price
    BY <1>1, <1>7
  <2>4. Phases[l] = "open" /\ Phases' = Phases
    BY <1>4, <1>5, <1>6, <2>1, PhaseIs DEF Phases
  <2>5. Sellers' = Sellers /\ c # Sellers[l]
    BY <1>4, <1>5, <2>1, <2>2 DEF Sellers
  <2>6. a > Highs[l] /\ Highs' = [Highs EXCEPT ![l] = a]
    BY <1>4, <1>5, <2>1, <2>2 DEF Highs
  <2>7. Holders' = [Holders EXCEPT ![l] = c]
    BY <1>4, <1>5, <2>1 DEF Holders
  <2>8. Goods' = Goods
    BY <1>5 DEF Goods
  <2>9. Contract!Raise(l, c, a)
    BY <1>5, <2>4, <2>5, <2>6, <2>7, <2>8
       DEF Contract!Raise, Phases, Sellers, Highs, Holders, Goods
  <2>10. QED
    BY <2>3, <2>9, RaiseIsNext
<1>8. CASE call[c].op = "cancel"
  <2>1. /\ row'[l].state = "cancelled" /\ row'[l].seller = row[l].seller /\ row'[l].bid = row[l].bid
        /\ row'[l].bidder = row[l].bidder
    BY <1>2, <1>3, <1>8 DEF Row
  <2>2. row[l].bid = 0
    BY <1>1, <1>8 DEF Accepts
  <2>3. Phases[l] = "open" /\ Phases' = [Phases EXCEPT ![l] = "withdrawn"]
    BY <1>4, <1>5, <1>6, <2>1, PhaseIs DEF Phases
  <2>4. Highs[l] = 0 /\ Highs' = Highs
    BY <1>4, <1>5, <2>1, <2>2 DEF Highs
  <2>5. Sellers' = Sellers /\ Holders' = Holders
    BY <1>4, <1>5, <2>1 DEF Sellers, Holders
  <2>6. Goods' = Goods
    BY <1>5 DEF Goods
  <2>7. Contract!Withdraw(l)
    BY <1>5, <2>3, <2>4, <2>5, <2>6
       DEF Contract!Withdraw, Phases, Sellers, Highs, Holders, Goods
  <2>8. QED
    BY <2>7, WithdrawIsNext
<1>9. QED
  BY <1>1, <1>7, <1>8

LEMMA SettleDelivers == ASSUME IInv, NEW w \in Worker, Settle(w)
                        PROVE  Contract!Next \/ UNCHANGED Contract!vars
<1> PICK l \in Listing : l = worker[w].l
  BY WorkIs DEF Settle
<1> PICK to : to = IF row[l].bidder = NoOne THEN row[l].seller ELSE row[l].bidder
  OBVIOUS
<1>1. l \in Listing /\ row[l] \in Row /\ row[l].state # "none" /\ row[l].bid \in Nat
  BY WorkIs, BidIs DEF Settle
<1>2. CASE Settled(row[l])
  BY <1>2, SameListings DEF Settle, payouts
<1>3. CASE ~Settled(row[l])
  <2>1. row[l].state = "active"
    BY <1>1, <1>3 DEF Settled, Row
  <2>2. goods[l] = {} /\ (row[l].bid = 0 <=> row[l].bidder = NoOne)
    BY <1>1, <2>1 DEF IInv, RowOK
  <2>3. to = IF row[l].bid = 0 THEN row[l].seller ELSE row[l].bidder
    BY <2>2
  <2>4. row'[l] = [row[l] EXCEPT !.state = "settled"] /\ goods'[l] = {to}
    BY <1>1, <1>3, <2>2 DEF Settle, IInv, TypeOK
  <2>5. proceeds' = [proceeds EXCEPT ![l] = @ + row[l].bid]
    BY <1>3 DEF Settle
  <2>6. \A m \in Listing : m # l => row'[m] = row[m]
    BY <1>1, <1>3 DEF Settle, IInv, TypeOK
  <2>7. \A m \in Listing : m # l => goods'[m] = goods[m]
    BY <1>1, <1>3 DEF Settle, IInv, TypeOK
  <2>8. /\ row'[l].state = "settled" /\ row'[l].seller = row[l].seller /\ row'[l].bid = row[l].bid
        /\ row'[l].bidder = row[l].bidder
    BY <1>1, <2>4 DEF Row
  <2>9. l \in Listing
    BY <1>1
  <2>10. (IF goods'[l] = {} THEN NoOne ELSE CHOOSE c \in goods'[l] : TRUE) = to
    BY <2>4
  <2>11. Phases[l] = "open" /\ Phases' = [Phases EXCEPT ![l] = "delivered"]
    BY <2>1, <2>6, <2>8, <2>9, PhaseIs DEF Phases
  <2>12. Goods' = [Goods EXCEPT ![l] = to]
    <3> DEFINE Got(g) == IF g = {} THEN NoOne ELSE CHOOSE c \in g : TRUE
    <3>1. Goods = [m \in Listing |-> Got(goods[m])] /\ Goods' = [m \in Listing |-> Got(goods'[m])]
      BY DEF Goods
    <3>2. Got(goods'[l]) = to
      BY <2>10
    <3> HIDE DEF Got
    <3>3. QED
      BY <2>7, <2>9, <3>1, <3>2
  <2>13. to = IF Highs[l] = 0 THEN Sellers[l] ELSE Holders[l]
    BY <2>3, <2>9 DEF Highs, Sellers, Holders
  <2>14. proceeds' = [proceeds EXCEPT ![l] = @ + Highs[l]]
    BY <2>5, <2>9 DEF Highs
  <2>15. Sellers' = Sellers /\ Holders' = Holders
    BY <2>6, <2>8, <2>9 DEF Sellers, Holders
  <2>16. Highs' = Highs
    BY <2>6, <2>8, <2>9 DEF Highs
  <2>17. Contract!Deliver(l)
    BY <2>9, <2>11, <2>12, <2>13, <2>14, <2>15, <2>16
       DEF Contract!Deliver, Phases, Sellers, Highs, Holders, Goods
  <2>18. QED
    BY <2>9, <2>17, DeliverIsNext
<1>4. QED
  BY <1>2, <1>3

\* What sessions, jobs, failures and repeated deliveries do together to a
\* listing is what AuctionContract allows: it opens once, its bid rises, and it
\* is withdrawn without a bid or delivered and paid once.
THEOREM AuctionImplementsContract == Spec => ImplementsContract
<1>1. Init => Contract!Init
  BY DEF Init, Contract!Init, NoRow, Phase
<1>2. IInv /\ [Next]_vars => [Contract!Next]_Contract!vars
  <2> SUFFICES ASSUME IInv, [Next]_vars PROVE Contract!Next \/ UNCHANGED Contract!vars
    OBVIOUS
  <2>1. CASE UNCHANGED <<row, goods, proceeds>>
    BY <2>1, SameListings
  <2>2. CASE \E c \in Char : Insert(c)
    BY <2>2, InsertOpens
  <2>3. CASE \E c \in Char : Apply(c)
    BY <2>3, ApplyRaisesOrWithdraws
  <2>4. CASE \E w \in Worker : Settle(w)
    BY <2>4, SettleDelivers
  <2>5. QED
    BY <2>1, <2>2, <2>3, <2>4
       DEF Next, vars, market, payouts, Tick, Register, ChargesFee, Bid, Cancel, InsertFails, Enqueue,
           Spend, Begin, Lock, Raises, Refund, Take, Redeliver, SettleSkips, SettleLocks, SettleFails
<1>3. QED
  BY <1>1, <1>2, IInvAlways, PTL DEF Spec, ImplementsContract, Contract!Spec
=============================================================================
