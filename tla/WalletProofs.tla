----------------------------- MODULE WalletProofs -----------------------------
(***************************************************************************)
(* Proofs about Wallet, for every set of sessions, characters, rewarders   *)
(* and amounts, every bound and every choice of environments.              *)
(*                                                                         *)
(* That the database is never overdrawn needs only the guard of the update *)
(* (Apply).  That no cached balance is negative is not inductive: a cache  *)
(* is overwritten with a value computed from an earlier read, so the proof *)
(* carries along what a running call has read (ReadSound).                 *)
(*                                                                         *)
(* What holds for abyss points needs more: that a session's own handler    *)
(* alone is in a call on its wallet, that its character is nobody else's,  *)
(* and where cache, dues and database stand at each step of a call         *)
(* (CalmInv).                                                              *)
(***************************************************************************)
EXTENDS Wallet, TLAPS

\* A call that will write the cache has read a balance, a spend one that
\* covers its amount.
ReadSound ==
  \A p \in Caller :
    /\ call[p].pc \in {"write", "sp", "undo", "setap", "setchar"} => call[p].read >= 0
    /\ call[p].pc = "write" /\ call[p].op = "spend" => call[p].read >= call[p].amt
    /\ call[p].pc = "write" => call[p].op \in {"add", "spend"} /\ call[p].amt >= 0
    /\ call[p].pc \in {"write", "sp", "undo"} => call[p].sess \in Session /\ call[p].k \in Currency

WInv == TypeOK /\ DBSolvent /\ CacheNotNegative /\ ReadSound

USE DEF Balance

\* Changing one balance of a function of balances.
LEMMA SetBalance ==
  ASSUME NEW S, NEW f \in [S -> Balance], NEW s \in S, NEW k \in Currency, NEW v \in Int
  PROVE  /\ [f EXCEPT ![s][k] = v] \in [S -> Balance]
         /\ \A t \in S, l \in Currency :
              [f EXCEPT ![s][k] = v][t][l] = IF t = s /\ l = k THEN v ELSE f[t][l]
  OBVIOUS

\* The steps of a call keep the type of its record.
LEMMA NextPC ==
  ASSUME call \in [Caller -> Call], NEW p \in Caller,
         NEW pc \in {"idle", "write", "sp", "undo", "done", "setchar", "setap"}
  PROVE  [call EXCEPT ![p].pc = pc] \in [Caller -> Call]
<1>1. [call[p] EXCEPT !.pc = pc] \in Call
  <2>1. call[p] \in Call
    OBVIOUS
  <2>2. QED
    BY <2>1 DEF Call
<1>2. [call EXCEPT ![p].pc = pc] = [call EXCEPT ![p] = [call[p] EXCEPT !.pc = pc]]
  OBVIOUS
<1>3. QED
  BY <1>1, <1>2

LEMMA NextOutcome ==
  ASSUME call \in [Caller -> Call], NEW p \in Caller, NEW pc \in {"undo", "done"},
         NEW ok \in BOOLEAN, NEW paid \in BOOLEAN
  PROVE  /\ [call EXCEPT ![p].pc = pc, ![p].ok = ok, ![p].paid = paid] \in [Caller -> Call]
         /\ [call EXCEPT ![p].pc = pc, ![p].paid = paid] \in [Caller -> Call]
<1>1. /\ [call[p] EXCEPT !.pc = pc, !.ok = ok, !.paid = paid] \in Call
      /\ [call[p] EXCEPT !.pc = pc, !.paid = paid] \in Call
  <2>1. call[p] \in Call
    OBVIOUS
  <2>2. QED
    BY <2>1 DEF Call
<1>2. /\ [call EXCEPT ![p].pc = pc, ![p].ok = ok, ![p].paid = paid]
           = [call EXCEPT ![p] = [call[p] EXCEPT !.pc = pc, !.ok = ok, !.paid = paid]]
      /\ [call EXCEPT ![p].pc = pc, ![p].paid = paid]
           = [call EXCEPT ![p] = [call[p] EXCEPT !.pc = pc, !.paid = paid]]
  OBVIOUS
<1>3. QED
  BY <1>1, <1>2


\* The records a call and a world entry start with.
LEMMA IdleCall == Idle \in Call
  BY DEF Idle, Call

LEMMA CallRecord ==
  ASSUME NEW r \in Call, NEW op \in {"add", "spend", "enter"}, NEW s \in Session \cup {None},
         NEW k \in Currency \cup {None}, NEW a \in Int, NEW v \in Int
  PROVE  [r EXCEPT !.pc = "write", !.op = op, !.sess = s, !.k = k, !.amt = a, !.read = v] \in Call
  BY DEF Call

LEMMA EntryRecord ==
  ASSUME NEW r \in Call, NEW s \in Session \cup {None}, NEW c \in Char \cup {None}, NEW v \in Int
  PROVE  [r EXCEPT !.pc = "setchar", !.sess = s, !.char = c, !.read = v] \in Call
  BY DEF Call

LEMMA InitInv == Init => WInv
  BY WalletAssumption DEF Init, Idle, Call, WInv, TypeOK, DBSolvent, CacheNotNegative, ReadSound, Zero

LEMMA EnterReadInv ==
  ASSUME WInv, NEW s \in Session, NEW c \in Char, EnterRead(s, c)
  PROVE  WInv'
<1> USE DEF WInv, TypeOK, DBSolvent, CacheNotNegative, ReadSound
<1>1. PICK points \in {db[c][k] : k \in Currency \cap {"ap"}}
                   \cup (IF "ap" \notin Currency \/ "entry_fail" \in env THEN {0} ELSE {}) :
        call' = [call EXCEPT ![s] = [Idle EXCEPT !.pc = "setchar", !.sess = s, !.char = c, !.read = points]]
  BY DEF EnterRead
<1>2. points \in Int /\ points >= 0
  OBVIOUS
<1>3. TypeOK'
  <2>1. [Idle EXCEPT !.pc = "setchar", !.sess = s, !.char = c, !.read = points] \in Call
    BY <1>2, IdleCall, EntryRecord, Zenon
  <2>2. call' \in [Caller -> Call]
    BY <1>1, <2>1
  <2>3. calls' \in 0 .. MaxCalls
    BY WalletAssumption DEF EnterRead, Free
  <2>4. QED
    BY <2>2, <2>3 DEF EnterRead
<1>4. DBSolvent' /\ CacheNotNegative'
  BY DEF EnterRead
<1>5. ReadSound'
  BY <1>1, <1>2 DEF EnterRead, Idle, Caller
<1>6. QED
  BY <1>3, <1>4, <1>5

LEMMA EnterSetCharInv ==
  ASSUME WInv, NEW s \in Session, EnterSetChar(s)
  PROVE  WInv'
<1> USE DEF WInv, TypeOK, DBSolvent, CacheNotNegative, ReadSound, EnterSetChar
<1>1. call' \in [Caller -> Call]
  BY NextPC DEF Caller
<1>2. call[s].char \in Char \cup {None}
  BY DEF Caller, Call
<1>3. char' \in [Session -> Char \cup {None}]
  BY <1>2
<1>4. TypeOK'
  BY <1>1, <1>3
<1>5. DBSolvent' /\ CacheNotNegative'
  OBVIOUS
<1>6. ReadSound'
  BY DEF Caller, Call
<1>7. QED
  BY <1>4, <1>5, <1>6

LEMMA EnterSetAPInv ==
  ASSUME WInv, NEW s \in Session, EnterSetAP(s)
  PROVE  WInv'
<1> USE DEF WInv, TypeOK, DBSolvent, CacheNotNegative, ReadSound, EnterSetAP
<1>1. call[s].read \in Int /\ call[s].read >= 0
  BY DEF Caller, Call
<1>2. TypeOK'
  BY <1>1 DEF Idle, Call, Caller
<1>3. DBSolvent'
  OBVIOUS
<1>4. CacheNotNegative'
  BY <1>1
<1>5. ReadSound'
  BY DEF Idle, Caller
<1>6. QED
  BY <1>2, <1>3, <1>4, <1>5

LEMMA BeginInv ==
  ASSUME WInv, NEW p \in Caller, NEW s \in Session, NEW k \in Currency,
         NEW op \in {"add", "spend"}, NEW a \in Amount, Begin(p, s, k, op, a)
  PROVE  WInv'
<1> USE DEF WInv, TypeOK, DBSolvent, CacheNotNegative, ReadSound, Begin
<1>1. a \in Nat /\ a >= 0
  BY WalletAssumption
<1>2. cache[s][k] \in Int /\ cache[s][k] >= 0
  OBVIOUS
<1>3. TypeOK'
  <2>1. [Idle EXCEPT !.pc = "write", !.op = op, !.sess = s, !.k = k, !.amt = a,
                     !.read = cache[s][k]] \in Call
    <3>1. op \in {"add", "spend", "enter"} /\ s \in Session \cup {None} /\ k \in Currency \cup {None}
      OBVIOUS
    <3>2. a \in Int /\ cache[s][k] \in Int
      BY <1>1, <1>2
    <3>3. QED
      BY <3>1, <3>2, IdleCall, CallRecord, Zenon
  <2>2. call' \in [Caller -> Call]
    BY <2>1
  <2>3. calls' \in 0 .. MaxCalls
    BY WalletAssumption DEF Free
  <2>4. QED
    BY <2>2, <2>3
<1>4. DBSolvent' /\ CacheNotNegative'
  OBVIOUS
<1>5. ReadSound'
  BY <1>1, <1>2 DEF Idle
<1>6. QED
  BY <1>3, <1>4, <1>5

LEMMA WriteCacheInv ==
  ASSUME WInv, NEW p \in Caller, WriteCache(p)
  PROVE  WInv'
<1> USE DEF WInv, TypeOK, DBSolvent, CacheNotNegative, ReadSound, WriteCache, Delta
<1>1. /\ call[p].read + Delta(call[p]) \in Int
      /\ call[p].sess \in Session
      /\ call[p].k \in Currency
  BY DEF Call
<1>2. call[p].read + Delta(call[p]) >= 0
  <2>1. CASE call[p].op = "add"
    BY <2>1 DEF Call
  <2>2. CASE call[p].op = "spend"
    BY <2>2 DEF Call
  <2>3. CASE call[p].op = "enter"
    BY <2>3
  <2>4. QED
    BY <2>1, <2>2, <2>3
<1>3. cache' \in [Session -> Balance]
  BY <1>1, SetBalance
<1>4. call' \in [Caller -> Call]
  BY NextPC
<1>5. TypeOK' /\ DBSolvent'
  BY <1>3, <1>4
<1>6. CacheNotNegative'
  BY <1>1, <1>2, SetBalance
<1>7. ReadSound'
  BY DEF Call
<1>8. QED
  BY <1>5, <1>6, <1>7

\* What the end of a call preserves, whatever it returns.
LEMMA ReturnInv ==
  ASSUME TypeOK, ReadSound, NEW p \in Caller, NEW ok \in BOOLEAN, NEW paid \in BOOLEAN,
         call[p].sess \in Session, call[p].k \in Currency, Return(p, ok, paid)
  PROVE  /\ call' \in [Caller -> Call]
         /\ due' \in [Session -> Balance]
         /\ ReadSound'
<1> USE DEF TypeOK, ReadSound, Return, Delta
<1>1. call' \in [Caller -> Call]
  BY NextOutcome
<1>2. due' \in [Session -> Balance]
  <2>1. CASE ok
    <3>1. due[call[p].sess][call[p].k] + Delta(call[p]) \in Int
      BY DEF Call
    <3>2. QED
      BY <2>1, <3>1, SetBalance
  <2>2. CASE ~ok
    BY <2>2
  <2>3. QED
    BY <2>1, <2>2
<1>3. ReadSound'
  BY DEF Call
<1>4. QED
  BY <1>1, <1>2, <1>3

\* The update of the database keeps every balance at zero or above.
LEMMA ApplyInv ==
  ASSUME db \in [Char -> Balance], DBSolvent, NEW c \in Char, NEW k \in Currency,
         NEW delta \in Int, NEW paid \in BOOLEAN, Apply(c, k, delta, paid)
  PROVE  db' \in [Char -> Balance] /\ DBSolvent'
<1>1. CASE db' = db
  BY <1>1 DEF DBSolvent
<1>2. CASE paid
  <2>1. db[c][k] + delta \in Int /\ db[c][k] + delta >= 0
    BY <1>2 DEF Apply
  <2>2. db' = [db EXCEPT ![c][k] = db[c][k] + delta]
    BY <1>2 DEF Apply
  <2>3. QED
    BY <2>1, <2>2, SetBalance DEF DBSolvent
<1>3. QED
  BY <1>1, <1>2 DEF Apply

LEMMA SkipSPInv ==
  ASSUME WInv, NEW p \in Caller, SkipSP(p)
  PROVE  WInv'
<1>1. call[p].sess \in Session /\ call[p].k \in Currency /\ Return(p, TRUE, FALSE)
  BY DEF SkipSP, WInv, TypeOK, ReadSound
<1>2. call' \in [Caller -> Call] /\ due' \in [Session -> Balance] /\ ReadSound'
  BY <1>1, ReturnInv DEF WInv
<1>3. QED
  BY <1>2 DEF SkipSP, WInv, TypeOK, DBSolvent, CacheNotNegative

LEMMA SPAnswersInv ==
  ASSUME WInv, NEW p \in Caller, SPAnswers(p)
  PROVE  WInv'
<1> DEFINE r == call[p]
<1>1. /\ r.sess \in Session
      /\ r.k \in Currency
      /\ char[r.sess] \in Char
      /\ Delta(r) \in Int
  BY DEF SPAnswers, WInv, TypeOK, ReadSound, Delta, Call
<1>2. PICK paid \in BOOLEAN : Apply(char[r.sess], r.k, Delta(r), paid) /\ Return(p, TRUE, paid)
  BY DEF SPAnswers
<1>3. db' \in [Char -> Balance] /\ DBSolvent'
  BY <1>1, <1>2, ApplyInv DEF WInv, TypeOK
<1>4. call' \in [Caller -> Call] /\ due' \in [Session -> Balance] /\ ReadSound'
  BY <1>1, <1>2, ReturnInv DEF WInv
<1>5. QED
  BY <1>3, <1>4 DEF SPAnswers, WInv, TypeOK, CacheNotNegative

LEMMA SPFailsInv ==
  ASSUME WInv, NEW p \in Caller, SPFails(p)
  PROVE  WInv'
<1> DEFINE r == call[p]
<1>1. /\ r.sess \in Session
      /\ r.k \in Currency
      /\ char[r.sess] \in Char
      /\ Delta(r) \in Int
  BY DEF SPFails, WInv, TypeOK, ReadSound, Delta, Call
<1>2. PICK paid \in BOOLEAN :
        /\ \/ "sp_fail" \in env /\ ~paid /\ UNCHANGED db
           \/ "reply_lost" \in env /\ Apply(char[r.sess], r.k, Delta(r), paid)
        /\ \/ ~Undoes(r) /\ Return(p, FALSE, paid)
           \/ /\ Undoes(r)
              /\ call' = [call EXCEPT ![p].pc = "undo", ![p].paid = paid]
              /\ UNCHANGED due
  BY DEF SPFails
<1>3. db' \in [Char -> Balance] /\ DBSolvent'
  <2>1. CASE UNCHANGED db
    BY <2>1 DEF WInv, TypeOK, DBSolvent
  <2>2. CASE Apply(char[r.sess], r.k, Delta(r), paid)
    BY <1>1, <2>2, ApplyInv DEF WInv, TypeOK
  <2>3. QED
    BY <1>2, <2>1, <2>2
<1>4. call' \in [Caller -> Call] /\ due' \in [Session -> Balance] /\ ReadSound'
  <2>1. CASE Return(p, FALSE, paid)
    BY <1>1, <2>1, ReturnInv DEF WInv
  <2>2. CASE /\ call' = [call EXCEPT ![p].pc = "undo", ![p].paid = paid]
             /\ UNCHANGED due
    <3>1. call' \in [Caller -> Call]
      BY <2>2, NextOutcome DEF WInv, TypeOK
    <3>2. due' \in [Session -> Balance]
      BY <2>2 DEF WInv, TypeOK
    <3>3. call[p].read >= 0
      BY DEF SPFails, WInv, ReadSound
    <3>4. ReadSound'
      BY <1>1, <2>2, <3>3 DEF WInv, TypeOK, ReadSound, Call
    <3>5. QED
      BY <3>1, <3>2, <3>4
  <2>3. QED
    BY <1>2, <2>1, <2>2
<1>5. QED
  BY <1>3, <1>4 DEF SPFails, WInv, TypeOK, CacheNotNegative

LEMMA UndoInv ==
  ASSUME WInv, NEW p \in Caller, Undo(p)
  PROVE  WInv'
<1>1. /\ call[p].sess \in Session
      /\ call[p].k \in Currency
      /\ call[p].read \in Int
      /\ call[p].read >= 0
      /\ call[p].paid \in BOOLEAN
  BY DEF Undo, WInv, TypeOK, ReadSound, Call
<1>2. call' \in [Caller -> Call] /\ due' \in [Session -> Balance] /\ ReadSound'
  BY <1>1, ReturnInv DEF Undo, WInv
<1>3. cache' \in [Session -> Balance] /\ CacheNotNegative'
  BY <1>1, SetBalance DEF Undo, WInv, TypeOK, CacheNotNegative
<1>4. QED
  BY <1>2, <1>3 DEF Undo, WInv, TypeOK, DBSolvent

LEMMA LogoutInv ==
  ASSUME WInv, NEW s \in Session, Logout(s)
  PROVE  WInv'
  BY DEF Logout, WInv, TypeOK, DBSolvent, CacheNotNegative, ReadSound, Zero

LEMMA NextInv == WInv /\ [Next]_vars => WInv'
<1> SUFFICES ASSUME WInv, [Next]_vars PROVE WInv'
  OBVIOUS
<1>1. CASE \E s \in Session, c \in Char : EnterRead(s, c)
  BY <1>1, EnterReadInv
<1>2. CASE \E s \in Session : EnterSetChar(s) \/ EnterSetAP(s) \/ Logout(s)
  BY <1>2, EnterSetCharInv, EnterSetAPInv, LogoutInv
<1>3. CASE \E p \in Caller : BridgeStep(p)
  <2>1. PICK p \in Caller : BridgeStep(p)
    BY <1>3
  <2>2. QED
    BY <2>1, BeginInv, WriteCacheInv, SkipSPInv, SPAnswersInv, SPFailsInv, UndoInv DEF BridgeStep
<1>4. CASE UNCHANGED vars
  BY <1>4 DEF vars, WInv, TypeOK, DBSolvent, CacheNotNegative, ReadSound
<1>5. QED
  BY <1>1, <1>2, <1>3, <1>4 DEF Next

THEOREM WalletInvariant == Spec => []WInv
  BY InitInv, NextInv, PTL DEF Spec

\* No balance in the database is ever negative, for the guard in aion_addkinahuser
\* holds against every stale cache, and no cached one, although updates get lost.
THEOREM WalletSolvent == Spec => []Solvent
<1>1. WInv => Solvent
  BY DEF WInv, Solvent
<1>2. QED
  BY <1>1, WalletInvariant, PTL
-----------------------------------------------------------------------------
(* Abyss points in a calm environment.                                     *)

\* Nobody but a session's own handler is in a call on its wallet.
CallsOwn == \A p \in Caller : call[p].pc # "idle" => p \in Session /\ call[p].sess = p

\* No character is played by two sessions, or entered by one and played by
\* another.
CharsApart ==
  \A s, t \in Session : s # t =>
    /\ char[s] # None => char[s] # char[t] /\ char[s] # call[t].char
    /\ call[s].char # None => call[s].char # call[t].char

\* The cached points are what the calls paid, and what the database holds.
Even(s) == /\ cache[s]["ap"] = due[s]["ap"]
           /\ char[s] # None => cache[s]["ap"] = db[char[s]]["ap"]

\* A call on the points has them as the database does, and has put its change
\* into the cache alone.
Halfway(s) == /\ due[s]["ap"] = call[s].read
              /\ db[char[s]]["ap"] = call[s].read
              /\ cache[s]["ap"] = call[s].read + Delta(call[s])

PointsSound(s) ==
  /\ call[s].pc \in {"idle", "done", "write"} \/ (call[s].pc \in {"sp", "undo"} /\ call[s].k # "ap")
       => Even(s)
  /\ call[s].pc \in {"write", "sp", "undo"} => char[s] # None
  /\ call[s].pc = "write" /\ call[s].k = "ap" => call[s].read = cache[s]["ap"]
  /\ call[s].pc \in {"sp", "undo"} /\ call[s].k = "ap" => Halfway(s)
  /\ call[s].pc \in {"setchar", "setap"} =>
       call[s].char # None /\ call[s].read = db[call[s].char]["ap"]
  /\ call[s].pc = "setap" => char[s] = call[s].char
  /\ call[s].pc = "done" /\ call[s].op = "spend" /\ call[s].ok /\ call[s].k = "ap" => call[s].paid
  /\ s \in fresh => char[s] # None

CalmInv == CallsOwn /\ CharsApart /\ \A s \in Session : PointsSound(s)

\* The rest of the points' proof is about an environment in which the procedure
\* may fail and nothing else goes wrong, and a currency "ap".
CalmState == WInv /\ Calm /\ "ap" \in Currency /\ CalmInv

\* A session that a step leaves alone, with its character's balance, stays sound.
LEMMA OtherSound ==
  ASSUME TypeOK, TypeOK', NEW t \in Session, PointsSound(t),
         call'[t] = call[t], cache'[t] = cache[t], due'[t] = due[t], char'[t] = char[t],
         t \in fresh' => t \in fresh,
         \A c \in Char : c = char[t] \/ c = call[t].char => db'[c]["ap"] = db[c]["ap"]
  PROVE  PointsSound(t)'
<1>1. call[t].char \in Char \cup {None} /\ char[t] \in Char \cup {None}
  BY DEF TypeOK, Caller, Call
<1>2. char[t] # None => db'[char[t]]["ap"] = db[char[t]]["ap"]
  BY <1>1
<1>3. call[t].char # None => db'[call[t].char]["ap"] = db[call[t].char]["ap"]
  BY <1>1
<1>4. Even(t) => Even(t)'
  BY <1>2 DEF Even
<1>5. char[t] # None /\ Halfway(t) => Halfway(t)'
  BY <1>2 DEF Halfway
<1>6. QED
  BY <1>3, <1>4, <1>5 DEF PointsSound

\* In a calm environment a goroutine that is in a call is its session's own.
LEMMA CallOwn ==
  ASSUME CalmState, NEW p \in Caller, call[p].pc # "idle"
  PROVE  p \in Session /\ call[p].sess = p
  BY DEF CalmState, CalmInv, CallsOwn

\* What a step of session s must show: its own call and character.
LEMMA OwnStep ==
  ASSUME CalmState, WInv', NEW s \in Session, UNCHANGED env,
         \A p \in Caller \ {s} : call'[p] = call[p],
         call'[s].pc # "idle" => call'[s].sess = s,
         \A t \in Session \ {s} : /\ cache'[t] = cache[t] /\ due'[t] = due[t] /\ char'[t] = char[t]
                                  /\ t \in fresh' => t \in fresh,
         char'[s] = char[s] \/ char'[s] = call[s].char,
         \/ call'[s].char = call[s].char \/ call'[s].char = None
         \/ \A t \in Session \ {s} : char[t] # call'[s].char /\ call[t].char # call'[s].char,
         \A c \in Char : c # char[s] => db'[c]["ap"] = db[c]["ap"],
         PointsSound(s)'
  PROVE  CalmInv'
<1>1. TypeOK /\ TypeOK' /\ CallsOwn /\ CharsApart /\ \A t \in Session : PointsSound(t)
  BY DEF CalmState, WInv, CalmInv
<1>2. CallsOwn'
  BY <1>1 DEF CallsOwn
<1>3. \A t \in Session \ {s} : call'[t] = call[t]
  BY DEF Caller
<1>4. CharsApart'
  <2>1. ASSUME NEW t \in Session \ {s}
        PROVE  /\ char'[s] # None => char'[s] # char[t] /\ char'[s] # call[t].char
               /\ char[t] # None => char[t] # char'[s] /\ char[t] # call'[s].char
               /\ call'[s].char # None => call'[s].char # call[t].char
               /\ call[t].char # None => call[t].char # call'[s].char
    BY <1>1 DEF CharsApart
  <2>2. QED
    BY <1>1, <1>3, <2>1 DEF CharsApart
<1>5. ASSUME NEW t \in Session \ {s} PROVE PointsSound(t)'
  <2>1. \A c \in Char : c = char[t] \/ c = call[t].char => c # char[s]
    BY <1>1, WalletAssumption DEF CharsApart
  <2>2. QED
    BY <1>1, <1>3, <2>1, OtherSound
<1>6. QED
  BY <1>2, <1>4, <1>5 DEF CalmInv

LEMMA EnterReadCalm ==
  ASSUME CalmState, WInv', NEW s \in Session, NEW c \in Char, EnterRead(s, c)
  PROVE  CalmInv'
<1> DEFINE r == [Idle EXCEPT !.pc = "setchar", !.sess = s, !.char = c, !.read = db[c]["ap"]]
<1>1. TypeOK /\ PointsSound(s) /\ "entry_fail" \notin env /\ "twin" \notin env /\ "ap" \in Currency
  BY DEF CalmState, WInv, CalmInv, Calm
<1>2. call' = [call EXCEPT ![s] = r]
  BY <1>1 DEF EnterRead
<1>3. call'[s] = r /\ \A p \in Caller \ {s} : call'[p] = call[p]
  BY <1>1, <1>2 DEF TypeOK, Caller
<1>4. r.pc = "setchar" /\ r.sess = s /\ r.char = c /\ r.read = db[c]["ap"]
  BY DEF Idle
<1>5. PointsSound(s)'
  BY <1>1, <1>3, <1>4, WalletAssumption DEF PointsSound, EnterRead
<1>6. \A t \in Session \ {s} : char[t] # c /\ call[t].char # c
  BY <1>1 DEF EnterRead
<1>7. QED
  BY <1>3, <1>4, <1>5, <1>6, OwnStep DEF EnterRead

LEMMA EnterSetCharCalm ==
  ASSUME CalmState, WInv', NEW s \in Session, EnterSetChar(s)
  PROVE  CalmInv'
<1>1. TypeOK /\ PointsSound(s) /\ s \in Caller
  BY DEF CalmState, WInv, CalmInv, Caller
<1>2. /\ call'[s].pc = "setap" /\ call'[s].read = call[s].read /\ call'[s].char = call[s].char
      /\ call'[s].sess = call[s].sess /\ \A p \in Caller \ {s} : call'[p] = call[p]
  BY <1>1 DEF EnterSetChar, TypeOK, Call
<1>3. call[s].sess = s
  BY <1>1, CallOwn DEF EnterSetChar
<1>4. char'[s] = call[s].char /\ \A t \in Session \ {s} : char'[t] = char[t]
  BY <1>1 DEF EnterSetChar, TypeOK
<1>5. PointsSound(s)'
  BY <1>1, <1>2, <1>4 DEF PointsSound, EnterSetChar
<1>6. QED
  BY <1>2, <1>3, <1>4, <1>5, OwnStep DEF EnterSetChar

LEMMA EnterSetAPCalm ==
  ASSUME CalmState, WInv', NEW s \in Session, EnterSetAP(s)
  PROVE  CalmInv'
<1>1. TypeOK /\ PointsSound(s) /\ s \in Caller /\ "ap" \in Currency
  BY DEF CalmState, WInv, CalmInv, Caller
<1>2. call'[s] = Idle /\ \A p \in Caller \ {s} : call'[p] = call[p]
  BY <1>1 DEF EnterSetAP, TypeOK
<1>3. /\ cache'[s]["ap"] = call[s].read /\ due'[s]["ap"] = call[s].read
      /\ \A t \in Session \ {s} : cache'[t] = cache[t] /\ due'[t] = due[t]
  BY <1>1 DEF EnterSetAP, TypeOK, Balance
<1>4. char[s] # None /\ call[s].read = db[char[s]]["ap"]
  BY <1>1 DEF PointsSound, EnterSetAP
<1>5. Idle.pc = "idle" /\ Idle.char = None
  BY DEF Idle
<1>6. PointsSound(s)'
  BY <1>2, <1>3, <1>4, <1>5 DEF PointsSound, EnterSetAP, Even
<1>7. QED
  BY <1>2, <1>3, <1>5, <1>6, OwnStep DEF EnterSetAP

LEMMA BeginCalm ==
  ASSUME CalmState, WInv', NEW p \in Caller, NEW s \in Session, NEW k \in Currency,
         NEW op \in {"add", "spend"}, NEW a \in Amount, Begin(p, s, k, op, a)
  PROVE  CalmInv'
<1> DEFINE r == [Idle EXCEPT !.pc = "write", !.op = op, !.sess = s, !.k = k, !.amt = a,
                              !.read = cache[s][k]]
<1>1. TypeOK /\ PointsSound(s) /\ "reward" \notin env
  BY DEF CalmState, WInv, CalmInv, Calm
<1>2. p = s /\ char[s] # None
  BY <1>1 DEF Begin, May
<1>3. call'[s] = r /\ \A q \in Caller \ {s} : call'[q] = call[q]
  BY <1>1, <1>2 DEF TypeOK, Begin
<1>4. r.pc = "write" /\ r.sess = s /\ r.char = None /\ r.k = k /\ r.read = cache[s][k]
  BY DEF Idle
<1>5. Even(s)
  BY <1>1, <1>2 DEF PointsSound, Begin, Free
<1>6. PointsSound(s)'
  <2> HIDE DEF r
  <2>1. UNCHANGED <<cache, due, db, char>> /\ s \notin fresh'
    BY DEF Begin
  <2>2. Even(s)'
    BY <1>5, <2>1 DEF Even
  <2>3. QED
    BY <1>2, <1>3, <1>4, <2>1, <2>2 DEF PointsSound
<1>7. QED
  BY <1>3, <1>4, <1>6, OwnStep DEF Begin

LEMMA WriteCacheCalm ==
  ASSUME CalmState, WInv', NEW p \in Caller, WriteCache(p)
  PROVE  CalmInv'
<1>1. p \in Session /\ call[p].sess = p
  BY CallOwn DEF WriteCache
<1>2. TypeOK /\ PointsSound(p) /\ call[p].k \in Currency /\ "ap" \in Currency /\ call[p].read + Delta(call[p]) \in Int
  BY <1>1 DEF CalmState, WInv, CalmInv, ReadSound, WriteCache, TypeOK, Call, Delta
<1>3. /\ call'[p].pc = "sp" /\ call'[p].k = call[p].k /\ call'[p].read = call[p].read
      /\ call'[p].op = call[p].op /\ call'[p].amt = call[p].amt
      /\ call'[p].char = call[p].char /\ call'[p].sess = p
      /\ \A q \in Caller \ {p} : call'[q] = call[q]
  BY <1>1, <1>2 DEF WriteCache, TypeOK, Call
<1>4. /\ \A t \in Session \ {p} : cache'[t] = cache[t]
      /\ call[p].k = "ap" => cache'[p]["ap"] = call[p].read + Delta(call[p])
      /\ call[p].k # "ap" => cache'[p]["ap"] = cache[p]["ap"]
  BY <1>1, <1>2 DEF WriteCache, TypeOK
<1>5. Delta(call'[p]) = Delta(call[p])
  BY <1>3 DEF Delta
<1>6. Even(p) /\ char[p] # None
  BY <1>2 DEF PointsSound, WriteCache
<1>7. PointsSound(p)'
  <2>1. CASE call[p].k = "ap"
    <3>1. Halfway(p)'
      BY <1>2, <1>3, <1>4, <1>5, <1>6, <2>1 DEF PointsSound, WriteCache, Even, Halfway
    <3>2. QED
      BY <1>2, <1>3, <1>6, <2>1, <3>1 DEF PointsSound, WriteCache
  <2>2. CASE call[p].k # "ap"
    <3>1. Even(p)'
      BY <1>4, <1>6, <2>2 DEF WriteCache, Even
    <3>2. QED
      BY <1>2, <1>3, <1>6, <2>2, <3>1 DEF PointsSound, WriteCache
  <2>3. QED
    BY <2>1, <2>2
<1>8. QED
  BY <1>1, <1>3, <1>4, <1>7, OwnStep DEF WriteCache

\* The end of a call: who else it leaves alone, and what it adds to the dues.
LEMMA ReturnCalm ==
  ASSUME CalmState, NEW p \in Session, NEW ok \in BOOLEAN, NEW paid \in BOOLEAN,
         call[p].sess = p, call[p].k \in Currency, Return(p, ok, paid)
  PROVE  /\ call'[p].pc = "done" /\ call'[p].k = call[p].k /\ call'[p].op = call[p].op
         /\ call'[p].char = call[p].char /\ call'[p].sess = p
         /\ call'[p].ok = ok /\ call'[p].paid = paid
         /\ \A q \in Caller \ {p} : call'[q] = call[q]
         /\ \A t \in Session \ {p} : due'[t] = due[t]
         /\ due'[p]["ap"] = IF ok /\ call[p].k = "ap" THEN due[p]["ap"] + Delta(call[p])
                            ELSE due[p]["ap"]
<1>1. TypeOK /\ "ap" \in Currency /\ Delta(call[p]) \in Int /\ p \in Caller
  BY DEF CalmState, WInv, TypeOK, Call, Delta, Caller
<1>2. /\ call'[p].pc = "done" /\ call'[p].k = call[p].k /\ call'[p].op = call[p].op
      /\ call'[p].char = call[p].char /\ call'[p].sess = p
      /\ call'[p].ok = ok /\ call'[p].paid = paid
      /\ \A q \in Caller \ {p} : call'[q] = call[q]
  BY <1>1 DEF TypeOK, Call, Return
<1>3. /\ \A t \in Session \ {p} : due'[t] = due[t]
      /\ due'[p]["ap"] = IF ok /\ call[p].k = "ap" THEN due[p]["ap"] + Delta(call[p])
                         ELSE due[p]["ap"]
  BY <1>1 DEF TypeOK, Return
<1>4. QED
  BY <1>2, <1>3

\* A call that ends with the points as the database has them.
LEMMA ReturnSound ==
  ASSUME CalmState, WInv', NEW p \in Session, NEW ok \in BOOLEAN, NEW paid \in BOOLEAN,
         call[p].sess = p, call[p].k \in Currency, Return(p, ok, paid),
         UNCHANGED <<env, char, fresh>>, char[p] # None, Even(p)',
         ok /\ call[p].op = "spend" /\ call[p].k = "ap" => paid,
         \A t \in Session \ {p} : cache'[t] = cache[t],
         \A c \in Char : c # char[p] => db'[c]["ap"] = db[c]["ap"]
  PROVE  CalmInv'
<1>1. /\ call'[p].pc = "done" /\ call'[p].k = call[p].k /\ call'[p].op = call[p].op
      /\ call'[p].char = call[p].char /\ call'[p].sess = p
      /\ call'[p].ok = ok /\ call'[p].paid = paid
      /\ \A q \in Caller \ {p} : call'[q] = call[q]
      /\ \A t \in Session \ {p} : due'[t] = due[t]
  BY ReturnCalm
<1>2. PointsSound(p)'
  BY <1>1 DEF PointsSound
<1>3. QED
  BY <1>1, <1>2, OwnStep

LEMMA SkipSPCalm ==
  ASSUME CalmState, WInv', NEW p \in Caller, SkipSP(p)
  PROVE  CalmInv'
<1>1. p \in Session /\ call[p].sess = p
  BY CallOwn DEF SkipSP
<1>2. char[p] # None
  BY <1>1 DEF CalmState, CalmInv, PointsSound, SkipSP
<1>3. QED
  BY <1>1, <1>2 DEF SkipSP

\* The procedure refuses nothing: the cache has what the database has, and the
\* amount was compared with that.
LEMMA SPAnswersCalm ==
  ASSUME CalmState, WInv', NEW p \in Caller, SPAnswers(p)
  PROVE  CalmInv'
<1>1. p \in Session /\ call[p].sess = p
  BY CallOwn DEF SPAnswers
<1>2. /\ TypeOK /\ PointsSound(p) /\ call[p].k \in Currency /\ "ap" \in Currency
      /\ char[p] \in Char /\ Delta(call[p]) \in Int /\ CacheNotNegative
  BY <1>1 DEF CalmState, WInv, CalmInv, ReadSound, SPAnswers, TypeOK, Call, Delta
<1>3. PICK paid \in BOOLEAN : Apply(char[p], call[p].k, Delta(call[p]), paid) /\ Return(p, TRUE, paid)
  BY <1>1 DEF SPAnswers
<1>4. \A c \in Char : c # char[p] => db'[c]["ap"] = db[c]["ap"]
  BY <1>2, <1>3 DEF Apply, TypeOK
<1>5. due'[p]["ap"] = IF call[p].k = "ap" THEN due[p]["ap"] + Delta(call[p]) ELSE due[p]["ap"]
  BY <1>1, <1>2, <1>3, ReturnCalm
<1>6. Even(p)' /\ (call[p].k = "ap" => paid)
  <2>1. CASE call[p].k = "ap"
    <3>1. Halfway(p) /\ cache[p]["ap"] >= 0
      BY <1>1, <1>2, <2>1 DEF PointsSound, SPAnswers, CacheNotNegative
    <3>2. db[char[p]]["ap"] + Delta(call[p]) = cache[p]["ap"]
      BY <3>1 DEF Halfway
    <3>3. paid
      BY <1>3, <2>1, <3>1, <3>2 DEF Apply
    <3>4. db'[char[p]]["ap"] = cache[p]["ap"]
      BY <1>2, <1>3, <2>1, <3>2, <3>3 DEF Apply, TypeOK
    <3>5. due'[p]["ap"] = cache[p]["ap"]
      BY <1>5, <2>1, <3>1 DEF Halfway
    <3>6. QED
      BY <3>3, <3>4, <3>5 DEF Even, SPAnswers
  <2>2. CASE call[p].k # "ap"
    <3>1. Even(p)
      BY <1>2, <2>2 DEF PointsSound, SPAnswers
    <3>2. db'[char[p]]["ap"] = db[char[p]]["ap"]
      BY <1>2, <1>3, <2>2 DEF Apply, TypeOK
    <3>3. QED
      BY <1>5, <2>2, <3>1, <3>2 DEF Even, SPAnswers
  <2>3. QED
    BY <2>1, <2>2
<1>7. char[p] # None
  BY <1>2, WalletAssumption
<1>8. QED
  BY <1>1, <1>2, <1>3, <1>4, <1>6, <1>7, ReturnSound DEF SPAnswers

LEMMA SPFailsCalm ==
  ASSUME CalmState, WInv', NEW p \in Caller, SPFails(p)
  PROVE  CalmInv'
<1>1. p \in Session /\ call[p].sess = p
  BY CallOwn DEF SPFails
<1>2. /\ TypeOK /\ PointsSound(p) /\ call[p].k \in Currency /\ "reply_lost" \notin env
      /\ char[p] # None
  BY <1>1 DEF CalmState, WInv, CalmInv, Calm, ReadSound, SPFails
<1>3. PICK paid \in BOOLEAN :
        /\ UNCHANGED db
        /\ \/ ~Undoes(call[p]) /\ Return(p, FALSE, paid)
           \/ /\ Undoes(call[p])
              /\ call' = [call EXCEPT ![p].pc = "undo", ![p].paid = paid]
              /\ UNCHANGED due
  BY <1>2 DEF SPFails
<1>4. CASE ~Undoes(call[p]) /\ Return(p, FALSE, paid)
  <2>1. Even(p)
    BY <1>2, <1>4 DEF PointsSound, SPFails, Undoes
  <2>2. due'[p]["ap"] = due[p]["ap"]
    BY <1>1, <1>2, <1>4, ReturnCalm
  <2>3. Even(p)'
    BY <1>3, <2>1, <2>2 DEF SPFails, Even
  <2>4. QED
    BY <1>1, <1>2, <1>3, <1>4, <2>3, ReturnSound DEF SPFails
<1>5. CASE /\ call' = [call EXCEPT ![p].pc = "undo", ![p].paid = paid]
           /\ UNCHANGED due
  <2>1. /\ call'[p].pc = "undo" /\ call'[p].k = call[p].k /\ call'[p].read = call[p].read
        /\ call'[p].op = call[p].op /\ call'[p].amt = call[p].amt
        /\ call'[p].char = call[p].char /\ call'[p].sess = p
        /\ \A q \in Caller \ {p} : call'[q] = call[q]
    BY <1>1, <1>2, <1>5 DEF TypeOK, Call
  <2>2. Delta(call'[p]) = Delta(call[p])
    BY <2>1 DEF Delta
  <2>3. UNCHANGED <<env, db, cache, char, due, fresh>>
    BY <1>3, <1>5 DEF SPFails
  <2>4. /\ Even(p) => Even(p)'
        /\ Halfway(p) => Halfway(p)'
    BY <2>1, <2>2, <2>3 DEF Even, Halfway
  <2>5. PointsSound(p)'
    BY <1>2, <2>1, <2>3, <2>4 DEF PointsSound, SPFails
  <2>6. QED
    BY <1>1, <2>1, <2>3, <2>5, OwnStep
<1>6. QED
  BY <1>3, <1>4, <1>5

LEMMA UndoCalm ==
  ASSUME CalmState, WInv', NEW p \in Caller, Undo(p)
  PROVE  CalmInv'
<1>1. p \in Session /\ call[p].sess = p
  BY CallOwn DEF Undo
<1>2. /\ TypeOK /\ PointsSound(p) /\ call[p].k \in Currency /\ char[p] # None
      /\ call[p].paid \in BOOLEAN /\ "ap" \in Currency
  BY <1>1 DEF CalmState, WInv, CalmInv, ReadSound, Undo, PointsSound, TypeOK, Call
<1>3. /\ \A t \in Session \ {p} : cache'[t] = cache[t]
      /\ cache'[p]["ap"] = IF call[p].k = "ap" THEN call[p].read ELSE cache[p]["ap"]
  BY <1>1, <1>2 DEF Undo, TypeOK
<1>4. due'[p]["ap"] = due[p]["ap"]
  BY <1>1, <1>2, ReturnCalm DEF Undo
<1>5. Even(p)'
  BY <1>2, <1>3, <1>4 DEF Even, Halfway, PointsSound, Undo
<1>6. QED
  BY <1>1, <1>2, <1>3, <1>5, ReturnSound DEF Undo

LEMMA CalmStep == CalmState /\ WInv' /\ [Next]_vars => CalmInv'
<1> SUFFICES ASSUME CalmState, WInv', [Next]_vars PROVE CalmInv'
  OBVIOUS
<1>1. CASE \E s \in Session, c \in Char : EnterRead(s, c)
  BY <1>1, EnterReadCalm
<1>2. CASE \E s \in Session : EnterSetChar(s) \/ EnterSetAP(s) \/ Logout(s)
  <2>1. ASSUME NEW s \in Session PROVE ~Logout(s)
    BY DEF CalmState, Calm, Logout
  <2>2. QED
    BY <1>2, <2>1, EnterSetCharCalm, EnterSetAPCalm
<1>3. CASE \E p \in Caller : BridgeStep(p)
  <2>1. PICK p \in Caller : BridgeStep(p)
    BY <1>3
  <2>2. QED
    BY <2>1, BeginCalm, WriteCacheCalm, SkipSPCalm, SPAnswersCalm, SPFailsCalm, UndoCalm DEF BridgeStep
<1>4. CASE UNCHANGED vars
  BY <1>4 DEF vars, CalmState, CalmInv, CallsOwn, CharsApart, PointsSound, Even, Halfway
<1>5. QED
  BY <1>1, <1>2, <1>3, <1>4 DEF Next

LEMMA CalmInvariant == Spec => [](Calm /\ "ap" \in Currency => CalmInv)
<1>1. Init => CalmInv
  <2> SUFFICES ASSUME Init PROVE CalmInv
    OBVIOUS
  <2>1. \A p \in Caller : call[p].pc = "idle" /\ call[p].char = None
    BY DEF Init, Idle
  <2>2. \A s \in Session : s \in Caller /\ char[s] = None
    BY DEF Init, Caller
  <2>3. \A s \in Session : "ap" \in Currency => cache[s]["ap"] = 0 /\ due[s]["ap"] = 0
    BY DEF Init, Zero
  <2>4. "ap" \in Currency \/ \A s \in Session : cache[s] = due[s]
    BY DEF Init
  <2>5. \A s \in Session : Even(s)
    BY <2>2, <2>3, <2>4 DEF Even
  <2>6. \A s \in Session : PointsSound(s)
    BY <2>1, <2>2, <2>5 DEF Init, PointsSound
  <2>7. QED
    BY <2>1, <2>2, <2>6 DEF CalmInv, CallsOwn, CharsApart
<1>2. WInv /\ WInv' /\ (Calm /\ "ap" \in Currency => CalmInv) /\ [Next]_vars
        => (Calm /\ "ap" \in Currency => CalmInv)'
  <2>1. [Next]_vars => env' = env
    BY DEF Next, vars, EnterRead, EnterSetChar, EnterSetAP, Logout, BridgeStep, Begin, WriteCache,
           SkipSP, SPAnswers, SPFails, Undo
  <2>2. QED
    BY <2>1, CalmStep DEF CalmState, Calm
<1>3. QED
  BY <1>1, <1>2, WalletInvariant, PTL DEF Spec

\* A session without a call in progress: its own handler's is over.
LEMMA QuietOwn ==
  ASSUME CalmInv, NEW s \in Session, Quiet(s)
  PROVE  call[s].pc \in {"idle", "done"}
  BY DEF CalmInv, CallsOwn, Quiet, Caller

\* One session to a character and its own handler alone: whatever procedures
\* fail, the cached points are what the calls that returned true add up to, for
\* a rollback puts back what nobody else can have changed meanwhile.
THEOREM WalletPointsAgree == Spec => []PointsAgree
<1>1. TypeOK /\ (Calm /\ "ap" \in Currency => CalmInv) => PointsAgree
  BY QuietOwn DEF PointsAgree, Points, Agrees, TypeOK, CalmInv, PointsSound, Even
<1>2. QED
  BY <1>1, WalletInvariant, CalmInvariant, PTL DEF WInv

\* The cache a session's calls compare with is the database's balance from
\* world entry on, so a spend that says so took its amount.
THEOREM WalletPointsCovered == Spec => []PointsCovered
<1>1. TypeOK /\ (Calm /\ "ap" \in Currency => CalmInv) => PointsCovered
  <2> SUFFICES ASSUME TypeOK, Calm /\ "ap" \in Currency => CalmInv PROVE PointsCovered
    OBVIOUS
  <2>1. EntryLoadsCache
    BY QuietOwn DEF EntryLoadsCache, Points, TypeOK, CalmInv, PointsSound, Even
  <2>2. CacheCovered
    <3> SUFFICES ASSUME Calm, NEW s \in alive, "ap" \in Currency, Quiet(s), char[s] # None
                 PROVE  cache[s]["ap"] <= db[char[s]]["ap"]
      BY DEF CacheCovered, Points
    <3>1. cache[s]["ap"] = db[char[s]]["ap"]
      BY QuietOwn DEF TypeOK, CalmInv, PointsSound, Even
    <3>2. db[char[s]]["ap"] \in Int
      BY DEF TypeOK
    <3>3. QED
      BY <3>1, <3>2
  <2>3. SpendIsDebited
    <3> SUFFICES ASSUME Calm, NEW p \in Caller, call[p].pc = "done", call[p].op = "spend",
                        call[p].ok, call[p].k = "ap", "ap" \in Currency
                 PROVE  call[p].paid
      BY DEF SpendIsDebited, Points
    <3>1. p \in Session
      BY DEF CalmInv, CallsOwn
    <3>2. QED
      BY <3>1 DEF CalmInv, PointsSound
  <2>4. QED
    BY <2>1, <2>2, <2>3 DEF PointsCovered
<1>2. QED
  BY <1>1, WalletInvariant, CalmInvariant, PTL DEF WInv
=============================================================================
