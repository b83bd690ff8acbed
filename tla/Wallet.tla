------------------------------- MODULE Wallet -------------------------------
(***************************************************************************)
(* Kinah and abyss points: the balance a session caches in its ECS stats,  *)
(* the balance the database keeps for the character, and the bridge calls  *)
(* that move both (internal/luahost/bridge.go: player.add_kinah,           *)
(* spend_kinah, add_ap, spend_ap), with the world entry that loads the     *)
(* cache (scripts/handlers/cm_enter_world.lua) and the database function   *)
(* that changes a balance (s18_aion_settleauction.sql).                    *)
(*                                                                         *)
(* The packet handlers of one session run one after the other, but other   *)
(* goroutines pay into its wallet as well: the handler of the player who   *)
(* killed an instance's boss pays every member, the tick loop pays for a   *)
(* kill by a damage-over-time effect.  A bridge call reads the cache,      *)
(* writes it and calls the database in three steps; only each single       *)
(* GetStat and SetStat is locked.                                          *)
(***************************************************************************)
EXTENDS Integers, FiniteSets

CONSTANTS Session,    \* entities of players
          Char,       \* characters
          None,       \* an absent char_id, the session of an idle goroutine
          Rewarder,   \* goroutines that pay into wallets beside the owner's handler
          Currency,   \* the currencies considered: "kinah" and "ap"
          Amount,     \* amounts that are paid or spent
          Initial,    \* balance of every character in the database at first
          MaxCalls,   \* bound: calls and world entries
          Environments \* what may happen beside the calls of one session: a set of
                       \* sets of "sp_fail" (the procedure fails), "reply_lost" (it ran,
                       \* its answer is lost), "entry_fail" (the points are not read),
                       \* "logout", "reward" (others pay), "twin" (two sessions of a character)

ASSUME WalletAssumption ==
         /\ None \notin Char \cup Session \cup Currency
         /\ Session \cap Rewarder = {}
         /\ Currency \subseteq {"kinah", "ap"}
         /\ Amount \subseteq Nat \ {0}
         /\ Initial \in Nat
         /\ MaxCalls \in Nat
         /\ Environments \subseteq
              SUBSET {"sp_fail", "reply_lost", "entry_fail", "logout", "reward", "twin"}

VARIABLES
  env,     \* what may happen in this run
  db,      \* balance of each character in the database
  cache,   \* the ECS stat of each session, 0 when it is absent
  char,    \* the ECS stat char_id of each session
  alive,   \* sessions whose entity exists
  call,    \* what each goroutine is doing
  calls,   \* calls and world entries so far
  due,     \* history: what a session's calls that returned true add up to
  fresh    \* history: sessions that entered the world and paid nothing since

vars == <<env, db, cache, char, alive, call, calls, due, fresh>>

Caller   == Session \cup Rewarder
Balance  == [Currency -> Int]
Zero     == [k \in Currency |-> 0]

Idle == [pc |-> "idle", op |-> "enter", sess |-> None, k |-> None, amt |-> 0,
         read |-> 0, char |-> None, ok |-> FALSE, paid |-> FALSE]

Call == [pc   : {"idle", "write", "sp", "undo", "done", "setchar", "setap"},
         op   : {"add", "spend", "enter"},
         sess : Session \cup {None}, k : Currency \cup {None},
         amt  : Int,
         read : Int,                \* cur, or the balance found on entry
         char : Char \cup {None},   \* the character that enters
         ok   : BOOLEAN,            \* what the call returned
         paid : BOOLEAN]            \* history: the database was changed

TypeOK ==
  /\ env \in Environments
  /\ db \in [Char -> Balance]
  /\ cache \in [Session -> Balance]
  /\ char \in [Session -> Char \cup {None}]
  /\ alive \in SUBSET Session
  /\ call \in [Caller -> Call]
  /\ calls \in 0 .. MaxCalls
  /\ due \in [Session -> Balance]
  /\ fresh \in SUBSET Session

Init ==
  /\ env \in Environments
  /\ db = [c \in Char |-> [k \in Currency |-> Initial]]
  /\ cache = [s \in Session |-> Zero]
  /\ char = [s \in Session |-> None]
  /\ alive = Session
  /\ call = [p \in Caller |-> Idle]
  /\ calls = 0
  /\ due = [s \in Session |-> Zero]
  /\ fresh = {}

-----------------------------------------------------------------------------
(* World entry: CM_ENTER_WORLD, run by the session's own handler *)

Free(p) == call[p].pc \in {"idle", "done"} /\ calls < MaxCalls

\* The character's row and, when it has no points in it, the abyss point
\* procedure are read; the points are 0 when that fails.
EnterRead(s, c) ==
  /\ Free(s)
  /\ s \in alive
  /\ "twin" \in env \/ \A t \in Session \ {s} : char[t] # c /\ call[t].char # c
  /\ \E points \in {db[c][k] : k \in Currency \cap {"ap"}}
                   \cup (IF "ap" \notin Currency \/ "entry_fail" \in env THEN {0} ELSE {}) :
       call' = [call EXCEPT ![s] = [Idle EXCEPT !.pc = "setchar", !.sess = s, !.char = c, !.read = points]]
  /\ calls' = calls + 1
  /\ UNCHANGED <<env, db, cache, char, alive, due, fresh>>

\* set_stat char_id.
EnterSetChar(s) ==
  /\ call[s].pc = "setchar"
  /\ char' = [char EXCEPT ![s] = call[s].char]
  /\ call' = [call EXCEPT ![s].pc = "setap"]
  /\ UNCHANGED <<env, db, cache, alive, calls, due, fresh>>

\* set_stat abyss_points.  The kinah stat keeps what it was.
EnterSetAP(s) ==
  /\ call[s].pc = "setap"
  /\ cache' = [cache EXCEPT ![s] = [k \in Currency |-> IF k = "ap" THEN call[s].read ELSE @[k]]]
  /\ due' = [due EXCEPT ![s] = [k \in Currency |-> IF k = "ap" THEN call[s].read ELSE @[k]]]
  /\ fresh' = fresh \cup {s}
  /\ call' = [call EXCEPT ![s] = Idle]
  /\ UNCHANGED <<env, db, char, alive, calls>>

-----------------------------------------------------------------------------
(* The bridge calls *)

Delta(r) == IF r.op = "add" THEN r.amt ELSE 0 - r.amt

\* Who pays into or out of whose wallet.  The scripts pay only for a session
\* that has a character; only its own handler spends.
May(p, s, op) ==
  /\ s \in alive
  /\ char[s] # None
  /\ p = s \/ ("reward" \in env /\ p \in Rewarder /\ op = "add")

\* Mutant of Begin: the balance is not compared.
BeginUnchecked(p, s, k, op, a) ==
  /\ Free(p)
  /\ May(p, s, op)
  /\ call' = [call EXCEPT ![p] = [Idle EXCEPT !.pc = "write", !.op = op, !.sess = s,
                                    !.k = k, !.amt = a, !.read = cache[s][k]]]
  /\ calls' = calls + 1
  /\ fresh' = fresh \ {s}
  /\ UNCHANGED <<env, db, cache, char, alive, due>>

\* Find the entity, read the stat; spend returns false when it is too small.
Begin(p, s, k, op, a) ==
  /\ Free(p)
  /\ May(p, s, op)
  /\ op = "spend" => cache[s][k] >= a
  /\ call' = [call EXCEPT ![p] = [Idle EXCEPT !.pc = "write", !.op = op, !.sess = s,
                                    !.k = k, !.amt = a, !.read = cache[s][k]]]
  /\ calls' = calls + 1
  /\ fresh' = fresh \ {s}
  /\ UNCHANGED <<env, db, cache, char, alive, due>>

\* SetStat, also on an entity that was destroyed since.
WriteCache(p) ==
  /\ call[p].pc = "write"
  /\ cache' = [cache EXCEPT ![call[p].sess][call[p].k] = call[p].read + Delta(call[p])]
  /\ call' = [call EXCEPT ![p].pc = "sp"]
  /\ UNCHANGED <<env, db, char, alive, calls, due, fresh>>

\* The call is over and returns ok.
Return(p, ok, paid) ==
  /\ call' = [call EXCEPT ![p].pc = "done", ![p].ok = ok, ![p].paid = paid]
  /\ due' = IF ok THEN [due EXCEPT ![call[p].sess][call[p].k] = @ + Delta(call[p])] ELSE due

\* Mutant of SkipSP: the database is optional for every session.
SkipSPAlways(p) ==
  /\ call[p].pc = "sp"
  /\ Return(p, TRUE, FALSE)
  /\ UNCHANGED <<env, db, cache, char, alive, calls, fresh>>

\* The stat char_id is absent: no procedure is called.
SkipSP(p) ==
  /\ call[p].pc = "sp"
  /\ char[call[p].sess] = None
  /\ Return(p, TRUE, FALSE)
  /\ UNCHANGED <<env, db, cache, char, alive, calls, fresh>>

\* aion_addkinahuser: one update, refused when the balance would underflow.
Apply(c, k, delta, paid) ==
  /\ paid <=> db[c][k] + delta >= 0
  /\ db' = IF paid THEN [db EXCEPT ![c][k] = @ + delta] ELSE db

\* The procedure answers.  Its result, -1 for a refusal, is not looked at.
SPAnswers(p) ==
  /\ call[p].pc = "sp"
  /\ LET r == call[p] IN
       /\ char[r.sess] # None
       /\ \E paid \in BOOLEAN : Apply(char[r.sess], r.k, Delta(r), paid) /\ Return(p, TRUE, paid)
  /\ UNCHANGED <<env, cache, char, alive, calls, fresh>>

\* Mutant of Undoes: only spending is rolled back.
UndoesSpend(r) == r.op = "spend"

\* Which failed calls write the balance they read back into the cache.
Undoes(r) == r.op = "spend" \/ r.k = "ap"

\* CallSP returns an error: the procedure did not run, or it did and the
\* connection broke before its answer.
SPFails(p) ==
  /\ call[p].pc = "sp"
  /\ LET r == call[p] IN
       /\ char[r.sess] # None
       /\ \E paid \in BOOLEAN :
            /\ \/ "sp_fail" \in env /\ ~paid /\ UNCHANGED db
               \/ "reply_lost" \in env /\ Apply(char[r.sess], r.k, Delta(r), paid)
            /\ \/ ~Undoes(r) /\ Return(p, FALSE, paid)
               \/ /\ Undoes(r)
                  /\ call' = [call EXCEPT ![p].pc = "undo", ![p].paid = paid]
                  /\ UNCHANGED due
  /\ UNCHANGED <<env, cache, char, alive, calls, fresh>>

Undo(p) ==
  /\ call[p].pc = "undo"
  /\ cache' = [cache EXCEPT ![call[p].sess][call[p].k] = call[p].read]
  /\ Return(p, FALSE, call[p].paid)
  /\ UNCHANGED <<env, db, char, alive, calls, fresh>>

-----------------------------------------------------------------------------

\* player.leave: DestroyEntity removes the stats, whatever call runs.
Logout(s) ==
  /\ "logout" \in env
  /\ s \in alive
  /\ alive' = alive \ {s}
  /\ cache' = [cache EXCEPT ![s] = Zero]
  /\ char' = [char EXCEPT ![s] = None]
  /\ due' = [due EXCEPT ![s] = Zero]
  /\ fresh' = fresh \ {s}
  /\ UNCHANGED <<env, db, call, calls>>

BridgeStep(p) == \/ \E s \in Session, k \in Currency, op \in {"add", "spend"}, a \in Amount :
                      Begin(p, s, k, op, a)
                 \/ WriteCache(p)
                 \/ SkipSP(p)
                 \/ SPAnswers(p)
                 \/ SPFails(p)
                 \/ Undo(p)

Next ==
  \/ \E s \in Session, c \in Char : EnterRead(s, c)
  \/ \E s \in Session : EnterSetChar(s) \/ EnterSetAP(s) \/ Logout(s)
  \/ \E p \in Caller : BridgeStep(p)

Spec == Init /\ [][Next]_vars

-----------------------------------------------------------------------------
(* Properties *)

\* Nothing overdraws a character in the database, whichever sessions, stale
\* caches and lost answers its calls come from (s18_aion_settleauction.sql:56).
DBSolvent == \A c \in Char, k \in Currency : db[c][k] >= 0

\* Lost updates and rollbacks may leave a cache wrong, but never negative: what
\* spend compares with is a balance.
CacheNotNegative == \A s \in Session, k \in Currency : cache[s][k] >= 0

\* Neither the balance in the database nor a cache of it goes below zero,
\* whatever races, failed or unanswered calls there are (bridge.go:1130, 1209).
Solvent == TypeOK /\ DBSolvent /\ CacheNotNegative

Quiet(s) == \A p \in Caller : call[p].sess = s => call[p].pc \in {"idle", "done"}
Agrees(s, k) == Quiet(s) => cache[s][k] = due[s][k]

\* "Atomically checks balance and deducts amount" (bridge.go:1179), "Updates
\* ECS cache on success" (bridge.go:1144): with no call running, the cache is
\* what the calls that returned true add up to.
LedgerAgrees == \A s \in alive, k \in Currency : Agrees(s, k)

\* One session to a character, its own handler alone pays, and at most the
\* procedure fails: the next four hold for abyss points.
Calm == env \subseteq {"sp_fail"}
Points == Currency \cap {"ap"}

\* "Cache is rolled back on SP failure so callers see a consistent view"
\* (bridge.go:1242): with no call running, the cached points are what the calls
\* that returned true add up to.
PointsAgree == Calm => \A s \in alive, k \in Points : Agrees(s, k)

\* A spend that returned true took the amount from the character.
SpendIsDebited ==
  Calm => \A p \in Caller :
            call[p].pc = "done" /\ call[p].op = "spend" /\ call[p].ok /\ call[p].k \in Points
              => call[p].paid

\* With no call running, the cache promises no more than the database holds.
CacheCovered ==
  Calm => \A s \in alive, k \in Points :
            Quiet(s) /\ char[s] # None => cache[s][k] <= db[char[s]][k]

\* World entry loads the cache: until the first call it is the database's
\* balance (bridge.go:1221; the kinah of bridge.go:1124 is not loaded).
EntryLoadsCache ==
  Calm => \A s \in fresh, k \in Points : Quiet(s) => cache[s][k] = db[char[s]][k]

\* What a caller may rely on between world entry and its answer: the cache was
\* loaded, promises no more than there is, and a spend that says so took it.
PointsCovered == EntryLoadsCache /\ CacheCovered /\ SpendIsDebited
=============================================================================
