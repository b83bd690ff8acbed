-------------------------------- MODULE Mail --------------------------------
(***************************************************************************)
(* Mail between players (scripts/lib/mail.lua): sending it with a fee, an  *)
(* item and kinah attached, claiming what is attached and deleting it.     *)
(* Every db.call is a transaction of its own: a failing one leaves what    *)
(* the earlier ones did, and a lost answer hides that it ran.  Handlers of *)
(* one session run one after the other; a character may have two sessions. *)
(* A purse is the balance in the database, its cache is in Wallet.  Reading*)
(* and listing only mark a mail as read.  Abyss points: no mail has any.   *)
(***************************************************************************)
EXTENDS Naturals, FiniteSets, Totals

CONSTANTS
    Sessions, Chars,
    CharOf,         \* the character of each session
    Items,          \* rows of user_item the characters own at first
    NoItem,
    Attached,       \* amounts of kinah that are attached
    SendFee,
    Purse,          \* kinah of every character at first
    MaxMails,       \* bound on the mails written
    MaxMailFaults   \* bound on failed calls and lost answers

VARIABLES
    purse,          \* per character
    item,           \* per item: its owner and its warehouse ("gone" once deleted)
    mails,          \* user_mail: [id, to, item, money]
    written,        \* the mails written so far
    inserted,       \* rows that player.add_item has put into user_item
    call,           \* what each session's handler is doing
    used,           \* ghost: kinah spent on fees or deleted with its mail
    twice,          \* ghost: a mail was written and its sender refunded
    overtaken,        \* ghost: one session moved an item another one had looked at
    mailFaults

vars == <<purse, item, mails, written, inserted, call, used, twice, overtaken, mailFaults>>

Idle == [pc |-> "idle", to |-> NoItem, item |-> NoItem, owed |-> 0, id |-> 0]
Goto(s, r) == call' = [call EXCEPT ![s] = r]
Step(s, pc) == Goto(s, [call[s] EXCEPT !.pc = pc])
MailFault == mailFaults < MaxMailFaults /\ mailFaults' = mailFaults + 1
Row(id) == {m \in mails : m.id = id}
Money(S) == Total([m \in S |-> m.money], S)

Init == /\ purse = [c \in Chars |-> Purse]
        /\ item \in [Items -> [owner : Chars, place : {"cube"}]]
        /\ mails = {} /\ written = 0 /\ inserted = 0
        /\ call = [s \in Sessions |-> Idle]
        /\ used = 0 /\ twice = FALSE /\ overtaken = FALSE /\ mailFaults = 0

-----------------------------------------------------------------------------
(* mail.send                                                               *)

\* What a client offers to attach: an item its inventory shows.
Sendable(s, i) == i # NoItem => item[i] = [owner |-> CharOf[s], place |-> "cube"]

\* The recipient exists; spend_kinah takes the fee and what is attached.  When
\* it fails after the debit the handler only sees a failure.
SendSpend(s, to, i, money) ==
    /\ call[s].pc = "idle" /\ written < MaxMails
    /\ Sendable(s, i)
    /\ LET cost == SendFee + money IN
       /\ purse[CharOf[s]] >= cost
       /\ purse' = [purse EXCEPT ![CharOf[s]] = @ - cost]
       /\ \/ /\ Goto(s, [pc |-> "write", to |-> to, item |-> i, owed |-> cost, id |-> 0])
             /\ UNCHANGED mailFaults
          \/ MailFault /\ UNCHANGED call
    /\ UNCHANGED <<item, mails, written, inserted, used, twice, overtaken>>

\* aion_mailwrite: the item follows its mail only if it is the sender's.
MailWrite(s) ==
    LET r == call[s]  owned == r.item # NoItem /\ item[r.item].owner = CharOf[s] IN
    /\ item' = IF owned THEN [item EXCEPT ![r.item] = [owner |-> r.to, place |-> "mail"]] ELSE item
    /\ mails' = mails \cup {[id |-> written + 1, to |-> r.to, item |-> r.item,
                             money |-> r.owed - SendFee]}
    /\ written' = written + 1
    /\ overtaken' = (overtaken \/ ~Sendable(s, r.item))

\* Mutant of SendWrite: the fee is refunded with a mail that was written.
SendWriteRefunds(s) ==
    /\ call[s].pc = "write" /\ written < MaxMails
    /\ MailWrite(s) /\ Step(s, "refund")
    /\ UNCHANGED <<purse, inserted, used, twice, mailFaults>>

SendWrite(s) ==
    /\ call[s].pc = "write" /\ written < MaxMails
    /\ \/ MailWrite(s) /\ used' = used + SendFee /\ Goto(s, Idle) /\ UNCHANGED <<twice, mailFaults>>
       \/ /\ MailFault /\ Step(s, "refund")
          /\ \/ UNCHANGED <<item, mails, written, used, twice, overtaken>>
             \/ MailWrite(s) /\ twice' = TRUE /\ UNCHANGED used
    /\ UNCHANGED <<purse, inserted>>

\* player.add_kinah; its result is not looked at.
AddKinah(s) == \/ purse' = [purse EXCEPT ![CharOf[s]] = @ + call[s].owed] /\ UNCHANGED mailFaults
               \/ MailFault /\ UNCHANGED purse

SendRefund(s) == /\ call[s].pc = "refund" /\ AddKinah(s) /\ Goto(s, Idle)
                 /\ UNCHANGED <<item, mails, written, inserted, used, twice, overtaken>>

-----------------------------------------------------------------------------
(* mail.claim: the item, then the kinah, a call for each                   *)

ClaimBegin(s, id) == /\ call[s].pc = "idle" /\ Goto(s, [Idle EXCEPT !.pc = "item", !.id = id])
                     /\ UNCHANGED <<purse, item, mails, written, inserted, used, twice, overtaken, mailFaults>>

Mine(s) == {m \in Row(call[s].id) : m.to = CharOf[s]}
With(m, n) == (mails \ {m}) \cup {n}

\* aion_mailgetitem for the item: it goes to the cube of whoever owns it.
TakeItem(m) == /\ item' = [item EXCEPT ![m.item].place = "cube"]
               /\ mails' = With(m, [m EXCEPT !.item = NoItem])
               /\ overtaken' = (overtaken \/ \E t \in Sessions :
                                call[t].pc = "delete" /\ call[t].item = m.item)

\* What the procedure answers: no such mail, no item, the item.
ClaimItem(s) ==
    /\ call[s].pc = "item"
    /\ \/ Mine(s) = {} /\ Goto(s, Idle) /\ UNCHANGED <<item, mails, overtaken, mailFaults>>
       \/ \E m \in Mine(s) :
            \/ m.item = NoItem /\ Step(s, "money") /\ UNCHANGED <<item, mails, overtaken, mailFaults>>
            \/ m.item # NoItem /\ TakeItem(m) /\ Step(s, "add") /\ UNCHANGED mailFaults
            \/ m.item # NoItem /\ TakeItem(m) /\ MailFault /\ Goto(s, Idle)
       \/ MailFault /\ Goto(s, Idle) /\ UNCHANGED <<item, mails, overtaken>>
    /\ UNCHANGED <<purse, written, inserted, used, twice>>

\* player.add_item calls aion_AddItemUser, which inserts a row (mail.lua:266
\* takes it for the cache only).
ClaimAdd(s) == /\ call[s].pc = "add" /\ Step(s, "money")
               /\ \/ inserted' = inserted + 1 /\ UNCHANGED mailFaults
                  \/ MailFault /\ UNCHANGED inserted
               /\ UNCHANGED <<purse, item, mails, written, used, twice, overtaken>>

\* Mutant of TakeMoney: the mail keeps its kinah.
TakeMoneyOnly(m) == mails' = mails
TakeMoney(m) == mails' = With(m, [m EXCEPT !.money = 0])

\* aion_mailgetitem for the kinah; no such mail and no kinah are alike here.
ClaimMoney(s) ==
    /\ call[s].pc = "money"
    /\ LET rich == {m \in Mine(s) : m.money > 0} IN
       \/ rich = {} /\ Goto(s, Idle) /\ UNCHANGED <<mails, mailFaults>>
       \/ \E m \in rich :
            /\ TakeMoney(m)
            /\ \/ Goto(s, [call[s] EXCEPT !.pc = "pay", !.owed = m.money]) /\ UNCHANGED mailFaults
               \/ MailFault /\ Goto(s, Idle)
       \/ MailFault /\ Goto(s, Idle) /\ UNCHANGED mails
    /\ UNCHANGED <<purse, item, written, inserted, used, twice, overtaken>>

ClaimPay(s) == /\ call[s].pc = "pay" /\ AddKinah(s) /\ Goto(s, Idle)
               /\ UNCHANGED <<item, mails, written, inserted, used, twice, overtaken>>

-----------------------------------------------------------------------------
(* mail.delete: aion_maildelete reads the item without a lock, then        *)
(* deletes the item and the mail.  An error rolls both back.               *)

DeleteLook(s, id) ==
    /\ call[s].pc = "idle"
    /\ \E m \in Row(id) : m.to = CharOf[s]
                          /\ Goto(s, [Idle EXCEPT !.pc = "delete", !.id = id, !.item = m.item])
    /\ UNCHANGED <<purse, item, mails, written, inserted, used, twice, overtaken, mailFaults>>

\* Mutant of Drops: the item stays in the mail's warehouse.
DropsNothing(i) == item
Drops(i) == IF i = NoItem THEN item ELSE [item EXCEPT ![i].place = "gone"]

DeleteRows(s) ==
    /\ call[s].pc = "delete" /\ Goto(s, Idle)
    /\ \/ /\ item' = Drops(call[s].item)
          /\ mails' = mails \ Mine(s)
          /\ used' = used + Money(Mine(s))
          /\ UNCHANGED mailFaults
       \/ MailFault /\ UNCHANGED <<item, mails, used>>
    /\ UNCHANGED <<purse, written, inserted, twice, overtaken>>

-----------------------------------------------------------------------------

Next == \E s \in Sessions :
            \/ \E to \in Chars, i \in Items \cup {NoItem}, k \in Attached : SendSpend(s, to, i, k)
            \/ SendWrite(s) \/ SendRefund(s)
            \/ \E id \in 1..written : ClaimBegin(s, id) \/ DeleteLook(s, id)
            \/ ClaimItem(s) \/ ClaimAdd(s) \/ ClaimMoney(s) \/ ClaimPay(s) \/ DeleteRows(s)

Spec == Init /\ [][Next]_vars

-----------------------------------------------------------------------------
InFlight(r) == IF r.pc \in {"write", "refund", "pay"} THEN r.owed ELSE 0
Kinah == used + Total(purse, Chars) + Money(mails)
              + Total([s \in Sessions |-> InFlight(call[s])], Sessions)

\* However sends, claims and deletions of two sessions of a character overlap,
\* kinah is neither made nor lost while every call succeeds; a failed call may
\* lose some, and only an unanswered aion_mailwrite can double it.
KinahAccounted == /\ mailFaults = 0 => Kinah = Purse * Cardinality(Chars)
                  /\ ~twice => Kinah <= Purse * Cardinality(Chars)

\* An item is in the mail warehouse exactly while one mail to its owner names
\* it, so a claim or deletion that fails half way can be repeated.  (Two sessions
\* of a character that send, or claim and delete, one item at once break it.)
AttachmentsHeld ==
    ~overtaken => \A i \in Items : LET in == {m \in mails : m.item = i} IN
                  IF item[i].place = "mail" THEN \E m \in in : in = {m} /\ m.to = item[i].owner
                                            ELSE in = {}
=============================================================================
