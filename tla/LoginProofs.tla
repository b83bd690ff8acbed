----------------------------- MODULE LoginProofs -----------------------------
(***************************************************************************)
(* Proofs about Login, for any number of connections, accounts and packets *)
(* and any faults and restarts.                                            *)
(*                                                                         *)
(* That a token admits one connection is not inductive: the proof follows  *)
(* each token from the auth connection that issued it (Issued) through     *)
(* Redis to the one connection that holds it, in an answer of Redis or in  *)
(* the game (Holds), and back to where tokens that left Redis went.        *)
(***************************************************************************)
EXTENDS Login, TLAPS

USE LoginAssumption

AuthPC == {"none", "first", "login", "verify", "list", "play", "store", "playok", "closed"}
Before == {"none", "first", "login", "verify", "list", "play"}
GamePC == {"none", "wait", "verify", "answered", "authed", "closed"}
AuthRec == [pc : AuthPC, account : Accounts \cup {""}, acct : IDs \cup {0},
            tok : Tokens \cup {NoToken}]
GameRec == [pc : GamePC, n : 0..(MaxRead - 1), tok : Tokens \cup {NoToken}, acct : IDs \cup {0},
            account : Accounts \cup {"", "dev"}, nil : BOOLEAN,
            why : {"", "send", "noauth", "deadline", "refused", "error"}]

Typed ==
    /\ scene \in Scenes /\ mode \in Modes
    /\ auth \in [AuthConns -> AuthRec] /\ game \in [GameConns -> GameRec]
    /\ DOMAIN redis \subseteq Tokens /\ redis \in [DOMAIN redis -> Entries]
    /\ DOMAIN gone \subseteq Tokens /\ gone = [t \in DOMAIN gone |-> gone[t]]
    /\ reply \in [GameConns -> SUBSET Entries] /\ told \subseteq Tokens
    /\ faults \in 0..scene.faults /\ restarts \in 0..scene.restarts

Own(a) == a.account \in Accounts /\ a.acct \in {1, AccountID[a.account]}

\* What an auth connection knows at each stage.
AuthRow(c, a) ==
    /\ a.pc \in Before => a.tok = NoToken
    /\ a.pc \in {"store", "playok"} => a.tok # NoToken
    /\ a.tok # NoToken => Own(a) /\ a.tok = Token(c, a.acct)
    /\ a.pc = "verify" => a.account \in Accounts
    /\ a.pc \in {"list", "play"} => Own(a)
    /\ a.pc = "playok" => a.tok \in DOMAIN redis \cup DOMAIN gone
AuthOK == \A c \in AuthConns : AuthRow(c, auth[c])

\* Connections that will not store a token any more.
Past(a) == a.pc \in {"playok", "closed"} /\ a.tok # NoToken
Issues(a, t, e) == Past(a) /\ a.tok = t /\ a.account = e.account /\ a.acct = e.acct
Issued(A, t, e) == \E c \in AuthConns : Issues(A[c], t, e)

RedisOK == \A t \in DOMAIN redis : Issued(auth, t, redis[t])

\* Game connection g has the record r and the answer R of Redis under way.
Plays(r) == r.pc = "authed" /\ ~r.nil
Holds(r, R) == R # {} \/ Plays(r)
GameRow(r, R) ==
    /\ R # {} => r.pc = "answered"
    /\ \A e \in R : Issued(auth, r.tok, e)
    /\ Plays(r) => Issued(auth, r.tok, r)
    /\ Holds(r, R) => r.tok \notin DOMAIN redis
    /\ r.pc \in {"verify", "answered"} => r.tok \in told
GameOK == \A g \in GameConns : GameRow(game[g], reply[g])
Unique == \A g, h \in GameConns :
              Holds(game[g], reply[g]) /\ Holds(game[h], reply[h]) /\ game[g].tok = game[h].tok
              => g = h

Refused(r, R) == \/ r.pc = "answered" /\ R = {}
                 \/ r.why = "refused"
GoneRow(g, r, R) ==
    /\ (\E t \in DOMAIN gone : gone[t] = g) => r.pc \in {"answered", "authed", "closed"}
    /\ r.why = "refused" => r.pc = "closed"
    /\ Refused(r, R) => r.tok \in told /\ r.tok \in DOMAIN gone /\ gone[r.tok] # g
GoneOK == /\ told \subseteq DOMAIN redis \cup DOMAIN gone
          /\ \A g \in GameConns : GoneRow(g, game[g], reply[g])

LInv == Typed /\ AuthOK /\ RedisOK /\ GameOK /\ Unique /\ GoneOK

-----------------------------------------------------------------------------
(* Tokens                                                                  *)

LEMMA TokenApart ==
    ASSUME NEW c \in AuthConns, NEW d \in AuthConns, NEW i, NEW j, Token(c, i) = Token(d, j)
    PROVE  c = d /\ i = j
<1>1. c \in Nat /\ d \in Nat
  OBVIOUS
<1>2. 3 * c = 3 * d /\ i = j
  BY DEF Token
<1>3. QED
  BY <1>1, <1>2

LEMMA TokenIsOne == ASSUME NEW c, NEW i PROVE Token(c, i) # NoToken
  BY DEF Token, NoToken

LEMMA IDsAre == 1 \in IDs /\ \A a \in Accounts : AccountID[a] \in IDs /\ {1, AccountID[a]} \subseteq IDs
  BY DEF IDs

LEMMA ReadsAre ==
    /\ 0 \in 0..(MaxRead - 1)
    /\ \A n \in 0..(MaxRead - 1) : n + 1 # MaxRead => n + 1 \in 0..(MaxRead - 1)
<1>1. MaxRead \in Nat /\ MaxRead # 0
  OBVIOUS
<1>2. QED
  BY <1>1

\* The gateway rebuilds the key it stored.
LEMMA RebuiltIsStored == ASSUME NEW t \in Tokens PROVE Rebuild(L2Auth(t)) = t
<1>1. PICK c \in AuthConns, id \in IDs : t = <<id, 3*c, 3*c + 1, 3*c + 2>>
  BY DEF Tokens, Token
<1>2. QED
  BY <1>1 DEF Rebuild, L2Auth

\* With and Without.
LEMMA WithIs ==
    ASSUME NEW f, NEW t, NEW v, f = [u \in DOMAIN f |-> f[u]]
    PROVE  LET w == With(f, t, v) IN
           /\ DOMAIN w = DOMAIN f \cup {t} /\ w = [u \in DOMAIN w |-> w[u]] /\ w[t] = v
           /\ \A u \in DOMAIN f : u # t => w[u] = f[u]
  BY DEF With

LEMMA WithoutIs ==
    ASSUME NEW f, NEW t, f = [u \in DOMAIN f |-> f[u]]
    PROVE  LET w == Without(f, t) IN
           /\ DOMAIN w = DOMAIN f \ {t} /\ w = [u \in DOMAIN w |-> w[u]]
           /\ \A u \in DOMAIN w : w[u] = f[u]
  BY DEF Without

LEMMA RedisWith ==
    ASSUME DOMAIN redis \subseteq Tokens, redis \in [DOMAIN redis -> Entries],
           NEW t \in Tokens, NEW e \in Entries, redis' = With(redis, t, e)
    PROVE  /\ DOMAIN redis' = DOMAIN redis \cup {t} /\ redis'[t] = e
           /\ \A u \in DOMAIN redis : u # t => redis'[u] = redis[u]
           /\ (DOMAIN redis \subseteq Tokens /\ redis \in [DOMAIN redis -> Entries])'
  BY DEF With

LEMMA RedisWithout ==
    ASSUME DOMAIN redis \subseteq Tokens, redis \in [DOMAIN redis -> Entries],
           NEW t, redis' = Without(redis, t)
    PROVE  /\ DOMAIN redis' = DOMAIN redis \ {t} /\ \A u \in DOMAIN redis' : redis'[u] = redis[u]
           /\ (DOMAIN redis \subseteq Tokens /\ redis \in [DOMAIN redis -> Entries])'
  BY DEF Without

LEMMA GoneWith ==
    ASSUME DOMAIN gone \subseteq Tokens, gone = [t \in DOMAIN gone |-> gone[t]],
           NEW t \in Tokens, NEW v, gone' = With(gone, t, v)
    PROVE  /\ DOMAIN gone' = DOMAIN gone \cup {t} /\ gone'[t] = v
           /\ \A u \in DOMAIN gone : u # t => gone'[u] = gone[u]
           /\ (DOMAIN gone \subseteq Tokens /\ gone = [u \in DOMAIN gone |-> gone[u]])'
  BY DEF With

-----------------------------------------------------------------------------
LEMMA InitLInv == Init => LInv
<1> SUFFICES ASSUME Init PROVE LInv
  OBVIOUS
<1>1. NewAuth \in AuthRec
  BY DEF NewAuth, AuthRec, AuthPC
<1>2. NewGame \in GameRec
  BY DEF NewGame, GameRec, GamePC
<1>3. DOMAIN redis = {} /\ DOMAIN gone = {} /\ redis \in [DOMAIN redis -> Entries]
      /\ gone = [t \in DOMAIN gone |-> gone[t]]
  BY DEF Init
<1>4. scene.faults \in Nat /\ scene.restarts \in Nat
  BY DEF Init
<1>5. Typed
  BY <1>1, <1>2, <1>3, <1>4 DEF Init, Typed
<1>6. AuthOK
  BY <1>1 DEF Init, AuthOK, AuthRow, NewAuth, Before
<1>7. QED
  BY <1>2, <1>3, <1>5, <1>6
     DEF Init, LInv, RedisOK, GameOK, GameRow, Unique, GoneOK, GoneRow, Holds, Plays, NewGame, Refused

-----------------------------------------------------------------------------
(* What each kind of step keeps                                            *)

\* No auth connection takes back what it issued.
Keeps(a, b) == Past(a) => Past(b) /\ b.tok = a.tok /\ b.account = a.account /\ b.acct = a.acct

LEMMA IssuedStays ==
    ASSUME NEW A, NEW B, \A c \in AuthConns : Keeps(A[c], B[c]), NEW t, NEW e, Issued(A, t, e)
    PROVE  Issued(B, t, e)
  BY DEF Issued, Issues, Keeps

\* A step of one auth connection alone.
LEMMA AuthStep ==
    ASSUME LInv, NEW c \in AuthConns, NEW a \in AuthRec, auth' = [auth EXCEPT ![c] = a],
           AuthRow(c, a), Keeps(auth[c], a), faults' \in 0..scene.faults,
           UNCHANGED <<scene, mode, game, redis, reply, told, gone, restarts>>
    PROVE  LInv'
<1>1. Typed'
  BY DEF LInv, Typed
<1>2. AuthOK'
  BY DEF LInv, Typed, AuthOK, AuthRow
<1>3. \A d \in AuthConns : Keeps(auth[d], auth'[d])
  BY DEF LInv, Typed, Keeps
<1>4. \A t, e : Issued(auth, t, e) => Issued(auth', t, e)
  BY <1>3, IssuedStays
<1>5. RedisOK'
  BY <1>4 DEF LInv, RedisOK
<1>6. GameOK'
  BY <1>4 DEF LInv, GameOK, GameRow
<1>7. Unique' /\ GoneOK'
  BY DEF LInv, Unique, GoneOK, GoneRow
<1>8. QED
  BY <1>1, <1>2, <1>5, <1>6, <1>7 DEF LInv

\* A step of one game connection alone.
LEMMA GameStep ==
    ASSUME LInv, NEW g \in GameConns, NEW r \in GameRec, NEW R \in SUBSET Entries,
           game' = [game EXCEPT ![g] = r], reply' = [reply EXCEPT ![g] = R],
           GameRow(r, R), GoneRow(g, r, R),
           Holds(r, R) => Holds(game[g], reply[g]) /\ r.tok = game[g].tok,
           faults' \in 0..scene.faults,
           UNCHANGED <<scene, mode, auth, redis, told, gone, restarts>>
    PROVE  LInv'
<1>1. Typed'
  BY DEF LInv, Typed
<1>2. AuthOK' /\ RedisOK'
  BY DEF LInv, AuthOK, AuthRow, RedisOK
<1>3. \A h \in GameConns : game'[h] = (IF h = g THEN r ELSE game[h])
                           /\ reply'[h] = (IF h = g THEN R ELSE reply[h])
  BY DEF LInv, Typed
<1>4. GameOK'
  BY <1>3 DEF LInv, GameOK, GameRow
<1>5. Unique'
  BY <1>3 DEF LInv, Unique
<1>6. GoneOK'
  BY <1>3 DEF LInv, GoneOK, GoneRow
<1>7. QED
  BY <1>1, <1>2, <1>4, <1>5, <1>6 DEF LInv

-----------------------------------------------------------------------------
(* The auth port                                                           *)

LEMMA FaultsStay == ASSUME LInv, UNCHANGED scene, NoFault \/ Fault PROVE faults' \in 0..scene.faults
<1>1. faults \in 0..scene.faults /\ scene.faults \in Nat
  BY DEF LInv, Typed
<1>2. QED
  BY <1>1 DEF Fault, NoFault

LEMMA ClosedStep ==
    ASSUME LInv, NEW c \in AuthConns, AuthClosed(c), NoFault \/ Fault,
           UNCHANGED <<scene, mode, game, redis, reply, told, gone, restarts>>
    PROVE  LInv'
<1>1. auth[c] \in AuthRec /\ AuthRow(c, auth[c])
  BY DEF LInv, Typed, AuthOK
<1> DEFINE a == AuthEnd(auth[c])
<1>2. a \in AuthRec
  BY <1>1 DEF AuthEnd, NewAuth, AuthRec, AuthPC
<1>3. AuthRow(c, a)
  BY <1>1 DEF AuthEnd, NewAuth, AuthRec, AuthPC, AuthRow, Before, Own
<1>4. Keeps(auth[c], a)
  BY <1>1 DEF AuthEnd, NewAuth, AuthRec, Keeps, Past
<1>5. QED
  BY <1>2, <1>3, <1>4, FaultsStay, AuthStep DEF AuthClosed

\* A step to another point of the handler before a token is stored.
LEMMA MoveStep ==
    ASSUME LInv, NEW c \in AuthConns, NEW a \in AuthRec, auth[c].pc \in Before,
           auth' = [auth EXCEPT ![c] = a], a.tok = NoToken \/ a.pc = "store", AuthRow(c, a), NoFault,
           UNCHANGED <<scene, mode, game, redis, reply, told, gone, restarts>>
    PROVE  LInv'
<1>1. Keeps(auth[c], a)
  BY DEF Before, Keeps, Past
<1>2. QED
  BY <1>1, FaultsStay, AuthStep

LEMMA AnswerStep ==
    ASSUME LInv, NEW c \in AuthConns, NEW next, Answer(c, next),
           \/ auth[c].pc \in Before /\ next \in {"first", "login"}
           \/ auth[c].pc = "list" /\ next = "play",
           UNCHANGED <<scene, mode, game, redis, reply, told, gone, restarts>>
    PROVE  LInv'
<1>1. CASE AuthClosed(c) /\ Fault
  BY <1>1, ClosedStep
<1>2. CASE auth' = [auth EXCEPT ![c].pc = next] /\ NoFault
  <2> DEFINE a == [auth[c] EXCEPT !.pc = next]
  <2>1. auth[c] \in AuthRec /\ AuthRow(c, auth[c]) /\ auth[c].pc \in Before
    BY DEF LInv, Typed, AuthOK, Before
  <2>2. a \in AuthRec
    BY <2>1 DEF AuthRec, AuthPC
  <2>3. AuthRow(c, a) /\ a.tok = NoToken
    BY <2>1 DEF AuthRec, AuthRow, Before, Own
  <2>4. auth' = [auth EXCEPT ![c] = a]
    BY <1>2
  <2>5. QED
    BY <1>2, <2>1, <2>2, <2>3, <2>4, MoveStep
<1>3. QED
  BY <1>1, <1>2 DEF Answer

LEMMA CredentialsStep ==
    ASSUME LInv, NEW c \in AuthConns, NEW n \in Accounts, Credentials(c, n) PROVE LInv'
<1> DEFINE a == [auth[c] EXCEPT !.pc = "verify", !.account = n]
<1>1. auth[c] \in AuthRec /\ AuthRow(c, auth[c]) /\ auth[c].pc \in Before
  BY DEF LInv, Typed, AuthOK, Before, Credentials
<1>2. a \in AuthRec
  BY <1>1 DEF AuthRec, AuthPC
<1>3. AuthRow(c, a) /\ a.tok = NoToken
  BY <1>1 DEF AuthRec, AuthRow, Before, NoToken
<1>4. auth' = [auth EXCEPT ![c] = a] /\ NoFault
  BY DEF Credentials, NoFault
<1>5. QED
  BY <1>1, <1>2, <1>3, <1>4, MoveStep DEF Credentials

LEMMA VerifyOKStep == ASSUME LInv, NEW c \in AuthConns, VerifyOK(c) PROVE LInv'
<1>1. CASE AuthClosed(c) /\ Fault
  BY <1>1, ClosedStep DEF VerifyOK
<1>2. CASE /\ auth' = [auth EXCEPT ![c].pc = "list", ![c].acct = VerifiedID(auth[c].account)]
           /\ NoFault
  <2> DEFINE a == [auth[c] EXCEPT !.pc = "list", !.acct = VerifiedID(auth[c].account)]
  <2>1. auth[c] \in AuthRec /\ AuthRow(c, auth[c]) /\ auth[c].pc = "verify"
    BY DEF LInv, Typed, AuthOK, VerifyOK
  <2>2. /\ auth[c].account \in Accounts /\ auth[c].tok = NoToken
        /\ VerifiedID(auth[c].account) \in {1, AccountID[auth[c].account]}
    BY <2>1 DEF AuthRow, Before, VerifiedID
  <2>3. a \in AuthRec
    BY <2>1, <2>2, IDsAre DEF AuthRec, AuthPC
  <2>4. AuthRow(c, a) /\ a.tok = NoToken
    BY <2>1, <2>2 DEF AuthRec, AuthRow, Own
  <2>5. auth' = [auth EXCEPT ![c] = a]
    BY <1>2
  <2>6. QED
    BY <1>2, <2>1, <2>3, <2>4, <2>5, MoveStep DEF VerifyOK, Before
<1>3. QED
  BY <1>1, <1>2 DEF VerifyOK

LEMMA PlayStep == ASSUME LInv, NEW c \in AuthConns, NEW claim \in IDs, Play(c, claim) PROVE LInv'
<1> DEFINE t == Token(c, auth[c].acct)
           a == [auth[c] EXCEPT !.pc = "store", !.tok = t]
<1>1. auth[c] \in AuthRec /\ AuthRow(c, auth[c]) /\ auth[c].pc = "play"
  BY DEF LInv, Typed, AuthOK, Play
<1>2. Own(auth[c]) /\ auth[c].acct \in IDs
  BY <1>1, IDsAre DEF AuthRow, Own
<1>3. t \in Tokens /\ t # NoToken
  BY <1>2, TokenIsOne DEF Tokens
<1>4. a \in AuthRec
  BY <1>1, <1>3 DEF AuthRec, AuthPC
<1>5. AuthRow(c, a)
  BY <1>1, <1>2, <1>3 DEF AuthRec, AuthRow, Before, Own
<1>6. auth' = [auth EXCEPT ![c] = a] /\ NoFault
  BY DEF Play, PlayID, NoFault
<1>7. auth[c].pc \in Before /\ a.pc = "store"
  BY <1>1 DEF AuthRec, Before
<1> HIDE DEF a
<1>8. QED
  BY <1>4, <1>5, <1>6, <1>7, MoveStep DEF Play

LEMMA PlayOKStep == ASSUME LInv, NEW c \in AuthConns, PlayOK(c) PROVE LInv'
<1> DEFINE t == auth[c].tok
<1>1. auth[c] \in AuthRec /\ AuthRow(c, auth[c]) /\ auth[c].pc = "playok"
  BY DEF LInv, Typed, AuthOK, PlayOK
<1>2. t \in Tokens /\ t \in DOMAIN redis \cup DOMAIN gone
  BY <1>1 DEF AuthRow, AuthRec
<1> DEFINE a == AuthEnd(auth[c])
<1>3. a \in AuthRec /\ AuthRow(c, a) /\ Keeps(auth[c], a)
  BY <1>1, <1>2 DEF AuthEnd, NewAuth, NoToken, AuthRec, AuthPC, AuthRow, Before, Own, Keeps, Past
<1>4. auth' = [auth EXCEPT ![c] = a] /\ told' \in {told, told \cup {t}} /\ (NoFault \/ Fault)
  BY DEF PlayOK, AuthClosed
<1>5. faults' \in 0..scene.faults
  BY <1>4, FaultsStay DEF PlayOK
<1>6. Typed'
  BY <1>2, <1>3, <1>4, <1>5 DEF PlayOK, LInv, Typed
<1>7. AuthOK'
  BY <1>3, <1>4 DEF PlayOK, LInv, Typed, AuthOK, AuthRow
<1>8. \A d \in AuthConns : Keeps(auth[d], auth'[d])
  BY <1>3, <1>4 DEF LInv, Typed, Keeps
<1>9. \A u, e : Issued(auth, u, e) => Issued(auth', u, e)
  BY <1>8, IssuedStays
<1>10. RedisOK'
  BY <1>9 DEF PlayOK, LInv, RedisOK
<1>11. GameOK'
  BY <1>4, <1>9 DEF PlayOK, LInv, GameOK, GameRow
<1>12. Unique' /\ GoneOK'
  BY <1>2, <1>4 DEF PlayOK, LInv, Unique, GoneOK, GoneRow
<1>13. QED
  BY <1>6, <1>7, <1>10, <1>11, <1>12 DEF LInv

\* StoreToken: the token is new to Redis, for only its own connection issues it.
LEMMA StoreStep == ASSUME LInv, NEW c \in AuthConns, StoreToken(c) PROVE LInv'
<1> DEFINE t == auth[c].tok
<1>1. auth[c] \in AuthRec /\ AuthRow(c, auth[c]) /\ auth[c].pc = "store"
  BY DEF LInv, Typed, AuthOK, StoreToken
<1>2. Own(auth[c]) /\ t = Token(c, auth[c].acct) /\ t \in Tokens /\ t # NoToken
  BY <1>1 DEF AuthRow, AuthRec
<1>3. CASE (UNCHANGED <<redis, gone>>) /\ AuthClosed(c) /\ Fault
  BY <1>3, ClosedStep DEF StoreToken
<1>4. CASE Put(c) /\ (\/ auth' = [auth EXCEPT ![c].pc = "playok"] /\ NoFault
                      \/ AuthClosed(c) /\ Fault)
  <2> DEFINE p == IF auth' = [auth EXCEPT ![c].pc = "playok"] THEN "playok" ELSE "closed"
             a == [auth[c] EXCEPT !.pc = p]
  <2>1. auth' = [auth EXCEPT ![c] = a]
    <3>1. AuthEnd(auth[c]) = [auth[c] EXCEPT !.pc = "closed"]
      BY <1>2 DEF AuthEnd
    <3>2. QED
      BY <1>4, <3>1 DEF AuthClosed
  <2>2. p \in {"playok", "closed"}
    OBVIOUS
  <2>3. a \in AuthRec
    BY <1>1, <2>2 DEF AuthRec, AuthPC
  <2>4. a.pc = p /\ a.tok = t /\ a.account = auth[c].account /\ a.acct = auth[c].acct
    BY <1>1 DEF AuthRec
  <2> HIDE DEF a, p
  <2>5. \A d \in AuthConns : Keeps(auth[d], auth'[d])
    BY <1>1, <2>1 DEF LInv, Typed, Keeps, Past
  <2>6. \A u, e : Issued(auth, u, e) => Issued(auth', u, e)
    BY <2>5, IssuedStays
  \* No other connection has issued t.
  <2>7. \A e : ~Issued(auth, t, e)
    <3> SUFFICES ASSUME NEW e, NEW d \in AuthConns, Issues(auth[d], t, e) PROVE FALSE
      BY DEF Issued
    <3>1. auth[d].tok = t /\ auth[d].pc # "store"
      BY DEF Issues, Past
    <3>2. auth[d].tok = Token(d, auth[d].acct)
      BY <1>2, <3>1 DEF LInv, AuthOK, AuthRow
    <3> HIDE DEF t
    <3>3. Token(d, auth[d].acct) = Token(c, auth[c].acct)
      BY <1>2, <3>1, <3>2
    <3>4. d = c
      BY <3>3, TokenApart
    <3>5. QED
      BY <1>1, <3>1, <3>4
  <2>8. /\ \A g \in GameConns : Holds(game[g], reply[g]) => game[g].tok # t
        /\ t \notin DOMAIN redis
    BY <2>7 DEF LInv, RedisOK, GameOK, GameRow, Holds
  <2>9. Entry(c) \in Entries
    BY <1>2, IDsAre DEF Own, Entry, Entries
  <2>10. /\ DOMAIN redis' \subseteq Tokens /\ redis' \in [DOMAIN redis' -> Entries]
         /\ DOMAIN gone' \subseteq Tokens /\ gone' = [u \in DOMAIN gone' |-> gone'[u]]
         /\ DOMAIN redis \subseteq DOMAIN redis' /\ DOMAIN gone \subseteq DOMAIN gone'
         /\ t \in DOMAIN redis' \cup DOMAIN gone'
         /\ \A u \in DOMAIN redis' : IF u = t THEN redis'[u] = Entry(c)
                                      ELSE u \in DOMAIN redis /\ redis'[u] = redis[u]
         /\ \A u \in DOMAIN gone' : \/ gone'[u] = "nilstore"
                                    \/ u \in DOMAIN gone /\ gone'[u] = gone[u]
    <3>1. /\ DOMAIN redis \subseteq Tokens /\ redis \in [DOMAIN redis -> Entries]
          /\ DOMAIN gone \subseteq Tokens /\ gone = [u \in DOMAIN gone |-> gone[u]]
      BY DEF LInv, Typed
    <3>2. CASE mode.redis
      <4>1. redis' = With(redis, t, Entry(c)) /\ gone' = gone
        BY <1>4, <3>2 DEF Put
      <4>2. /\ DOMAIN redis' = DOMAIN redis \cup {t} /\ redis'[t] = Entry(c)
            /\ \A u \in DOMAIN redis : u # t => redis'[u] = redis[u]
            /\ DOMAIN redis' \subseteq Tokens /\ redis' \in [DOMAIN redis' -> Entries]
        BY <1>2, <2>9, <3>1, <4>1, RedisWith
      <4>3. DOMAIN gone' = DOMAIN gone /\ gone' = [u \in DOMAIN gone' |-> gone'[u]]
        BY <3>1, <4>1
      <4>4. QED
        BY <2>8, <3>1, <4>1, <4>2, <4>3
    <3>3. CASE ~mode.redis
      <4>1. gone' = With(gone, t, "nilstore") /\ redis' = redis
        BY <1>4, <3>3 DEF Put
      <4>2. /\ DOMAIN gone' = DOMAIN gone \cup {t} /\ gone'[t] = "nilstore"
            /\ \A u \in DOMAIN gone : u # t => gone'[u] = gone[u]
            /\ DOMAIN gone' \subseteq Tokens /\ gone' = [u \in DOMAIN gone' |-> gone'[u]]
        BY <1>2, <3>1, <4>1, GoneWith
      <4>3. DOMAIN redis' = DOMAIN redis /\ redis' \in [DOMAIN redis' -> Entries]
        BY <3>1, <4>1
      <4>4. QED
        BY <2>8, <3>1, <4>1, <4>2, <4>3
    <3>4. QED
      BY <3>2, <3>3
  <2>11. faults' \in 0..scene.faults
    BY <1>4, FaultsStay DEF StoreToken
  <2>12. Typed'
    BY <2>1, <2>3, <2>10, <2>11 DEF StoreToken, LInv, Typed
  <2>13. auth'[c] = a /\ \A d \in AuthConns : d # c => auth'[d] = auth[d]
    BY <2>1 DEF LInv, Typed
  <2>14. AuthOK'
    <3>1. AuthRow(c, auth[c])'
      BY <1>1, <1>2, <2>2, <2>4, <2>10, <2>13 DEF AuthRow, Own, Before
    <3>2. \A d \in AuthConns : d # c => AuthRow(d, auth[d])'
      BY <2>10, <2>13 DEF LInv, AuthOK, AuthRow
    <3>3. QED
      BY <3>1, <3>2 DEF AuthOK
  <2>15. RedisOK'
    <3>1. Issued(auth', t, Entry(c))
      <4>1. Issues(a, t, Entry(c))
        BY <1>2, <2>2, <2>4 DEF Issues, Past, Entry
      <4>2. QED
        BY <2>13, <4>1 DEF Issued
    <3>2. QED
      BY <2>6, <2>10, <3>1 DEF LInv, RedisOK
  <2>16. GameOK'
    BY <2>6, <2>8, <2>10 DEF StoreToken, LInv, GameOK, GameRow
  <2>17. Unique'
    BY DEF StoreToken, LInv, Unique
  <2>18. GoneOK'
    BY <2>10 DEF StoreToken, LInv, GoneOK, GoneRow
  <2>19. QED
    BY <2>12, <2>14, <2>15, <2>16, <2>17, <2>18 DEF LInv
<1>5. QED
  BY <1>3, <1>4 DEF StoreToken

-----------------------------------------------------------------------------
(* The game port                                                           *)

LEMMA GameIs ==
    ASSUME LInv, NEW g \in GameConns
    PROVE  /\ game[g] \in GameRec /\ reply[g] \in SUBSET Entries
           /\ GameRow(game[g], reply[g]) /\ GoneRow(g, game[g], reply[g])
           /\ game[g].pc # "answered" => reply[g] = {}
           /\ reply = [reply EXCEPT ![g] = reply[g]]
<1>1. game[g] \in GameRec /\ reply[g] \in SUBSET Entries /\ reply = [reply EXCEPT ![g] = reply[g]]
  BY DEF LInv, Typed
<1>2. GameRow(game[g], reply[g]) /\ GoneRow(g, game[g], reply[g])
  BY DEF LInv, GameOK, GoneOK
<1>3. game[g].pc # "answered" => reply[g] = {}
  BY <1>2 DEF GameRow
<1>4. QED
  BY <1>1, <1>2, <1>3

LEMMA GameClosedStep ==
    ASSUME LInv, NEW g \in GameConns, NEW why \in {"send", "noauth", "deadline", "error", "refused"},
           GameClosed(g, why), why = "refused" => Refused(game[g], reply[g]),
           reply' = [reply EXCEPT ![g] = {}], NoFault \/ Fault,
           UNCHANGED <<scene, mode, auth, redis, told, gone, restarts>>
    PROVE  LInv'
<1> DEFINE r == [game[g] EXCEPT !.pc = "closed", !.why = why, !.n = 0]
<1>1. game[g] \in GameRec /\ GoneRow(g, game[g], reply[g])
  BY GameIs
<1>2. r \in GameRec /\ r.pc = "closed" /\ r.why = why /\ r.tok = game[g].tok
  BY <1>1, ReadsAre DEF GameRec, GamePC
<1>3. game' = [game EXCEPT ![g] = r]
  BY DEF GameClosed
<1> HIDE DEF r
<1>4. GameRow(r, {}) /\ ~Holds(r, {})
  BY <1>2 DEF GameRow, Holds, Plays
<1>5. GoneRow(g, r, {})
  BY <1>1, <1>2 DEF GoneRow, Refused
<1>6. QED
  BY <1>2, <1>3, <1>4, <1>5, FaultsStay, GameStep

\* A step that leaves the answer of Redis alone, to a record that holds no token.
LEMMA GameMoveStep ==
    ASSUME LInv, NEW g \in GameConns, NEW r \in GameRec, game' = [game EXCEPT ![g] = r],
           game[g].pc \in {"none", "wait"}, r.pc \in {"wait", "verify", "authed"},
           r.pc = "verify" => r.tok \in told, r.pc = "authed" => r.nil,
           r.why = game[g].why, NoFault,
           UNCHANGED <<scene, mode, auth, redis, reply, told, gone, restarts>>
    PROVE  LInv'
<1>1. GoneRow(g, game[g], {}) /\ reply[g] = {} /\ reply' = [reply EXCEPT ![g] = {}]
  BY GameIs
<1>2. GameRow(r, {}) /\ ~Holds(r, {})
  BY DEF GameRow, Holds, Plays
<1>3. GoneRow(g, r, {})
  BY <1>1 DEF GoneRow, Refused
<1>4. QED
  BY <1>1, <1>2, <1>3, FaultsStay, GameStep

LEMMA ConnectStep == ASSUME LInv, NEW g \in GameConns, Connect(g) PROVE LInv'
<1>1. game[g] \in GameRec /\ reply[g] = {} /\ reply' = [reply EXCEPT ![g] = {}]
  BY GameIs DEF Connect
<1>2. CASE GameClosed(g, "send") /\ Fault
  BY <1>1, <1>2, GameClosedStep DEF Connect
<1>3. CASE game' = [game EXCEPT ![g].pc = "wait"] /\ NoFault
  <2> DEFINE r == [game[g] EXCEPT !.pc = "wait"]
  <2>1. r \in GameRec /\ r.pc = "wait" /\ r.why = game[g].why
    BY <1>1 DEF GameRec, GamePC
  <2>2. game' = [game EXCEPT ![g] = r]
    BY <1>3
  <2> HIDE DEF r
  <2>3. QED
    BY <1>3, <2>1, <2>2, GameMoveStep DEF Connect
<1>4. QED
  BY <1>2, <1>3 DEF Connect

LEMMA OtherPacketStep == ASSUME LInv, NEW g \in GameConns, OtherPacket(g) PROVE LInv'
<1>1. /\ game[g] \in GameRec /\ reply' = [reply EXCEPT ![g] = {}] /\ game[g].pc = "wait" /\ NoFault
  BY GameIs DEF OtherPacket, NoFault
<1>2. CASE LastRead(g)
  BY <1>1, <1>2, GameClosedStep DEF OtherPacket
<1>3. CASE ~LastRead(g)
  <2> DEFINE r == [game[g] EXCEPT !.n = @ + 1]
  <2>1. game[g].n + 1 \in 0..(MaxRead - 1)
    BY <1>1, <1>3, ReadsAre DEF GameRec, LastRead
  <2>2. r \in GameRec /\ r.pc = "wait" /\ r.why = game[g].why
    BY <1>1, <2>1 DEF GameRec
  <2>3. game' = [game EXCEPT ![g] = r]
    BY <1>3 DEF OtherPacket
  <2> HIDE DEF r
  <2>4. QED
    BY <1>1, <2>2, <2>3, GameMoveStep DEF OtherPacket
<1>4. QED
  BY <1>2, <1>3

LEMMA DeadlineStep == ASSUME LInv, NEW g \in GameConns, Deadline(g) PROVE LInv'
<1>1. reply' = [reply EXCEPT ![g] = {}] /\ NoFault
  BY GameIs DEF Deadline, GameTimeout, NoFault
<1>2. QED
  BY <1>1, GameClosedStep DEF Deadline

LEMMA LoginCheckStep == ASSUME LInv, NEW g \in GameConns, NEW t \in told, LoginCheck(g, t) PROVE LInv'
<1>1. /\ game[g] \in GameRec /\ game[g].pc = "wait" /\ NoFault
      /\ t \in Tokens /\ Rebuild(L2Auth(t)) = t
  BY GameIs, RebuiltIsStored DEF LoginCheck, NoFault, LInv, Typed
<1> DEFINE r == IF mode.redis THEN [game[g] EXCEPT !.pc = "verify", !.n = 0, !.tok = t]
                ELSE [game[g] EXCEPT !.pc = "authed", !.n = 0, !.tok = t, !.acct = 1,
                                     !.account = "dev", !.nil = TRUE]
<1>2. game' = [game EXCEPT ![g] = r]
  BY <1>1 DEF LoginCheck
<1>3. r \in GameRec
  BY <1>1, IDsAre, ReadsAre DEF GameRec, GamePC
<1>4. /\ r.pc \in {"verify", "authed"} /\ r.tok = t /\ r.why = game[g].why
      /\ r.pc = "authed" => r.nil
  BY <1>1 DEF GameRec
<1> HIDE DEF r
<1>5. QED
  BY <1>1, <1>2, <1>3, <1>4, GameMoveStep DEF LoginCheck

LEMMA VerifiedStep == ASSUME LInv, NEW g \in GameConns, Verified(g) PROVE LInv'
<1>1. /\ game[g] \in GameRec /\ reply[g] \in SUBSET Entries /\ game[g].pc = "answered"
      /\ GameRow(game[g], reply[g]) /\ GoneRow(g, game[g], reply[g])
      /\ reply' = [reply EXCEPT ![g] = {}]
  BY GameIs DEF Verified
<1>2. CASE reply[g] = {} /\ GameClosed(g, "refused") /\ NoFault
  BY <1>1, <1>2, GameClosedStep DEF Verified, Refused
<1>3. CASE GameClosed(g, "send") /\ Fault
  BY <1>1, <1>3, GameClosedStep DEF Verified
<1>4. ASSUME NEW e \in reply[g], NoFault,
             game' = [game EXCEPT ![g].pc = "authed", ![g].acct = e.acct,
                                  ![g].account = e.account, ![g].n = 0]
      PROVE  LInv'
  <2> DEFINE r == [game[g] EXCEPT !.pc = "authed", !.acct = e.acct, !.account = e.account, !.n = 0]
  <2>1. e.acct \in IDs /\ e.account \in Accounts
    BY <1>1 DEF Entries
  <2>2. r \in GameRec
    BY <1>1, <2>1, ReadsAre DEF GameRec, GamePC
  <2>3. /\ r.pc = "authed" /\ r.tok = game[g].tok /\ r.acct = e.acct /\ r.account = e.account
        /\ r.why = game[g].why
    BY <1>1 DEF GameRec
  <2>4. game' = [game EXCEPT ![g] = r]
    BY <1>4
  <2> HIDE DEF r
  <2>5. Holds(game[g], reply[g])
    BY <1>4 DEF Holds
  <2>6. Issued(auth, r.tok, r)
    BY <1>1, <1>4, <2>3 DEF GameRow, Issued, Issues
  <2>7. GameRow(r, {})
    BY <1>1, <2>3, <2>5, <2>6 DEF GameRow, Holds
  <2>8. GoneRow(g, r, {})
    BY <1>1, <2>3 DEF GoneRow, Refused
  <2>9. faults' \in 0..scene.faults
    BY <1>4, FaultsStay DEF Verified
  <2>10. QED
    BY <1>1, <2>2, <2>3, <2>4, <2>5, <2>7, <2>8, <2>9, GameStep DEF Verified
<1>5. QED
  BY <1>2, <1>3, <1>4 DEF Verified

LEMMA VerifyErrorStep == ASSUME LInv, NEW g \in GameConns, VerifyError(g) PROVE LInv'
  BY GameClosedStep DEF VerifyError

-----------------------------------------------------------------------------
(* Redis                                                                   *)

\* A token leaves Redis, for the reason v.
LEMMA TakeIs ==
    ASSUME LInv, NEW t \in DOMAIN redis, NEW v, redis' = Without(redis, t), gone' = With(gone, t, v)
    PROVE  /\ t \in Tokens /\ redis[t] \in Entries
           /\ DOMAIN redis' = DOMAIN redis \ {t} /\ \A u \in DOMAIN redis' : redis'[u] = redis[u]
           /\ DOMAIN redis' \subseteq Tokens /\ redis' \in [DOMAIN redis' -> Entries]
           /\ DOMAIN gone' = DOMAIN gone \cup {t} /\ gone'[t] = v
           /\ \A u \in DOMAIN gone : u # t => gone'[u] = gone[u]
           /\ DOMAIN gone' \subseteq Tokens /\ gone' = [u \in DOMAIN gone' |-> gone'[u]]
<1>1. /\ DOMAIN redis \subseteq Tokens /\ redis \in [DOMAIN redis -> Entries]
      /\ DOMAIN gone \subseteq Tokens /\ gone = [u \in DOMAIN gone |-> gone[u]]
  BY DEF LInv, Typed
<1>2. t \in Tokens /\ redis[t] \in Entries
  BY <1>1
<1>3. /\ DOMAIN redis' = DOMAIN redis \ {t} /\ \A u \in DOMAIN redis' : redis'[u] = redis[u]
      /\ DOMAIN redis' \subseteq Tokens /\ redis' \in [DOMAIN redis' -> Entries]
  BY <1>1, RedisWithout
<1>4. /\ DOMAIN gone' = DOMAIN gone \cup {t} /\ gone'[t] = v
      /\ \A u \in DOMAIN gone : u # t => gone'[u] = gone[u]
      /\ DOMAIN gone' \subseteq Tokens /\ gone' = [u \in DOMAIN gone' |-> gone'[u]]
  BY <1>1, <1>2, GoneWith
<1>5. QED
  BY <1>2, <1>3, <1>4

LEMMA ExpireStep == ASSUME LInv, NEW t \in Tokens, Expire(t) PROVE LInv'
<1>1. /\ DOMAIN redis' = DOMAIN redis \ {t} /\ \A u \in DOMAIN redis' : redis'[u] = redis[u]
      /\ DOMAIN redis' \subseteq Tokens /\ redis' \in [DOMAIN redis' -> Entries]
      /\ DOMAIN gone' = DOMAIN gone \cup {t} /\ gone'[t] = "expired"
      /\ \A u \in DOMAIN gone : u # t => gone'[u] = gone[u]
      /\ DOMAIN gone' \subseteq Tokens /\ gone' = [u \in DOMAIN gone' |-> gone'[u]]
  BY TakeIs DEF Expire
<1>2. \A g \in GameConns : g # "expired"
  OBVIOUS
<1>3. Typed'
  BY <1>1 DEF Expire, LInv, Typed
<1>4. AuthOK' /\ RedisOK' /\ GameOK' /\ Unique'
  BY <1>1 DEF Expire, LInv, AuthOK, AuthRow, RedisOK, GameOK, GameRow, Unique
<1>5. GoneOK'
  BY <1>1, <1>2 DEF Expire, LInv, GoneOK, GoneRow
<1>6. QED
  BY <1>3, <1>4, <1>5 DEF LInv

LEMMA RedisGetDelStep == ASSUME LInv, NEW g \in GameConns, RedisGetDel(g) PROVE LInv'
<1> DEFINE t == game[g].tok
           r == [game[g] EXCEPT !.pc = "answered"]
<1>1. /\ game[g] \in GameRec /\ game[g].pc = "verify" /\ reply[g] = {}
      /\ GameRow(game[g], {}) /\ GoneRow(g, game[g], {})
  BY GameIs DEF RedisGetDel
<1>2. /\ r \in GameRec /\ r.pc = "answered" /\ r.tok = t /\ r.why = game[g].why
      /\ t \in told /\ ~\E u \in DOMAIN gone : gone[u] = g
  BY <1>1 DEF GameRec, GamePC, GameRow, GoneRow
<1>3. CASE t \notin DOMAIN redis
  <2>1. game' = [game EXCEPT ![g] = r] /\ reply' = [reply EXCEPT ![g] = {}] /\ NoFault
    BY <1>3 DEF RedisGetDel, Answered, NoFault
  <2>2. t \in DOMAIN gone
    BY <1>2, <1>3 DEF LInv, GoneOK
  <2> HIDE DEF r, t
  <2>3. GameRow(r, {}) /\ ~Holds(r, {})
    BY <1>2 DEF GameRow, Holds, Plays
  <2>4. GoneRow(g, r, {})
    BY <1>1, <1>2, <2>2 DEF GoneRow
  <2>5. UNCHANGED <<redis, gone>>
    BY <1>3 DEF RedisGetDel, t
  <2>6. QED
    BY <1>2, <2>1, <2>3, <2>4, <2>5, FaultsStay, GameStep DEF RedisGetDel
<1>4. CASE t \in DOMAIN redis
  <2> DEFINE e == redis[t]
  <2>1. game' = [game EXCEPT ![g] = r] /\ reply' = [reply EXCEPT ![g] = {e}]
    BY <1>4 DEF RedisGetDel, Answered
  <2>2. redis' = Without(redis, t) /\ gone' = With(gone, t, g)
    BY <1>4 DEF RedisGetDel
  <2>3. /\ t \in Tokens /\ e \in Entries
        /\ DOMAIN redis' = DOMAIN redis \ {t} /\ \A u \in DOMAIN redis' : redis'[u] = redis[u]
        /\ DOMAIN redis' \subseteq Tokens /\ redis' \in [DOMAIN redis' -> Entries]
        /\ DOMAIN gone' = DOMAIN gone \cup {t} /\ gone'[t] = g
        /\ \A u \in DOMAIN gone : u # t => gone'[u] = gone[u]
        /\ DOMAIN gone' \subseteq Tokens /\ gone' = [u \in DOMAIN gone' |-> gone'[u]]
    BY <1>4, <2>2, TakeIs
  <2>4. Issued(auth, t, e)
    BY <1>4 DEF LInv, RedisOK
  <2>5. \A h \in GameConns : Holds(game[h], reply[h]) => game[h].tok # t
    BY <1>4 DEF LInv, GameOK, GameRow
  <2>6. ~Holds(game[g], {})
    BY <1>1 DEF Holds, Plays
  <2> HIDE DEF r, t, e
  <2>7. \A h \in GameConns : game'[h] = (IF h = g THEN r ELSE game[h])
                             /\ reply'[h] = (IF h = g THEN {e} ELSE reply[h])
    BY <2>1 DEF LInv, Typed
  <2>8. Typed'
    BY <1>2, <2>1, <2>3 DEF RedisGetDel, LInv, Typed
  <2>9. AuthOK' /\ RedisOK'
    BY <2>3 DEF RedisGetDel, LInv, AuthOK, AuthRow, RedisOK
  <2>10. GameOK'
    BY <1>2, <2>3, <2>4, <2>7 DEF RedisGetDel, LInv, GameOK, GameRow, Plays
  <2>11. Unique'
    BY <1>2, <2>5, <2>7 DEF LInv, Unique
  <2>12. GoneOK'
    <3>1. told' \subseteq DOMAIN redis' \cup DOMAIN gone'
      BY <2>3 DEF RedisGetDel, LInv, GoneOK
    <3>2. GoneRow(g, game[g], reply[g])'
      BY <1>1, <1>2, <2>7 DEF GoneRow, Refused
    <3>3. \A h \in GameConns : h # g => GoneRow(h, game[h], reply[h])'
      BY <2>3, <2>7 DEF RedisGetDel, LInv, GoneOK, GoneRow
    <3>4. QED
      BY <3>1, <3>2, <3>3 DEF GoneOK
  <2>13. QED
    BY <2>8, <2>9, <2>10, <2>11, <2>12 DEF LInv
<1>5. QED
  BY <1>3, <1>4

LEMMA RestartStep == ASSUME LInv, Restart PROVE LInv'
<1>1. \A c \in AuthConns : /\ auth[c] \in AuthRec /\ auth'[c] \in AuthRec
                            /\ Keeps(auth[c], auth'[c]) /\ AuthRow(c, auth'[c])
  <2> SUFFICES ASSUME NEW c \in AuthConns
               PROVE  /\ auth[c] \in AuthRec /\ auth'[c] \in AuthRec
                      /\ Keeps(auth[c], auth'[c]) /\ AuthRow(c, auth'[c])
    OBVIOUS
  <2>1. auth[c] \in AuthRec /\ AuthRow(c, auth[c])
    BY DEF LInv, Typed, AuthOK
  <2>2. auth'[c] \in {auth[c], AuthEnd(auth[c])}
    BY DEF Restart
  <2>3. /\ AuthEnd(auth[c]) \in AuthRec /\ AuthRow(c, AuthEnd(auth[c]))
        /\ Keeps(auth[c], AuthEnd(auth[c]))
    BY <2>1 DEF AuthEnd, NewAuth, AuthRec, AuthPC, AuthRow, Before, Own, Keeps, Past
  <2>4. Keeps(auth[c], auth[c])
    BY DEF Keeps
  <2>5. QED
    BY <2>1, <2>2, <2>3, <2>4
<1>2. \A g \in GameConns :
         /\ game'[g] \in GameRec /\ reply'[g] = {} /\ game'[g].tok = game[g].tok
         /\ Plays(game'[g]) => Plays(game[g]) /\ game'[g] = game[g]
         /\ game'[g].pc \in {"none", "authed", "closed"} /\ game'[g].why = game[g].why
         /\ game'[g].pc = game[g].pc \/ game'[g].pc = "closed"
  <2> SUFFICES ASSUME NEW g \in GameConns
               PROVE  /\ game'[g] \in GameRec /\ reply'[g] = {} /\ game'[g].tok = game[g].tok
                      /\ Plays(game'[g]) => Plays(game[g]) /\ game'[g] = game[g]
                      /\ game'[g].pc \in {"none", "authed", "closed"} /\ game'[g].why = game[g].why
                      /\ game'[g].pc = game[g].pc \/ game'[g].pc = "closed"
    OBVIOUS
  <2>1. game[g] \in GameRec /\ reply'[g] = {}
    BY GameIs DEF Restart
  <2>2. CASE game[g].pc \in {"none", "authed", "closed"}
    <3>1. game'[g] = game[g]
      BY <2>2 DEF Restart
    <3>2. QED
      BY <2>1, <2>2, <3>1
  <2>3. CASE game[g].pc \notin {"none", "authed", "closed"}
    <3>1. game'[g] = [game[g] EXCEPT !.pc = "closed", !.n = 0]
      BY <2>3 DEF Restart
    <3>2. QED
      BY <2>1, <3>1, ReadsAre DEF GameRec, GamePC, Plays
  <2>4. QED
    BY <2>2, <2>3
<1>3. Typed'
  <2>1. auth' \in [AuthConns -> AuthRec]
    BY <1>1 DEF Restart
  <2>2. game' \in [GameConns -> GameRec]
    BY <1>2 DEF Restart
  <2>3. reply' \in [GameConns -> SUBSET Entries]
    BY DEF Restart
  <2>4. restarts' \in 0..scene.restarts /\ faults' \in 0..scene.faults /\ mode' \in Modes
    <3>1. restarts \in 0..scene.restarts /\ scene.restarts \in Nat
      BY DEF LInv, Typed
    <3>2. restarts' = restarts + 1 /\ restarts < scene.restarts /\ scene' = scene
      BY DEF Restart
    <3>3. restarts' \in 0..scene.restarts
      BY <3>1, <3>2
    <3>4. QED
      BY <3>3 DEF Restart, LInv, Typed
  <2>5. QED
    BY <2>1, <2>2, <2>3, <2>4 DEF Restart, LInv, Typed
<1>4. AuthOK'
  BY <1>1 DEF Restart, AuthOK, AuthRow
<1>5. \A u, e : Issued(auth, u, e) => Issued(auth', u, e)
  BY <1>1, IssuedStays
<1>6. RedisOK'
  BY <1>5 DEF Restart, LInv, RedisOK
<1>7. \A g \in GameConns : Holds(game'[g], reply'[g]) => Holds(game[g], reply[g])
  BY <1>2 DEF Holds
<1>8. GameOK'
  <2> SUFFICES ASSUME NEW g \in GameConns PROVE GameRow(game[g], reply[g])'
    BY DEF GameOK
  <2>1. GameRow(game[g], reply[g])
    BY GameIs
  <2>2. Plays(game'[g]) => Issued(auth', game'[g].tok, game'[g])
    BY <1>2, <1>5, <2>1 DEF GameRow
  <2>3. Holds(game'[g], reply'[g]) => game'[g].tok \notin DOMAIN redis'
    BY <1>2, <1>7, <2>1 DEF Restart, GameRow
  <2>4. QED
    BY <1>2, <2>2, <2>3 DEF GameRow
<1>9. Unique'
  BY <1>2, <1>7 DEF LInv, Unique
<1>10. GoneOK'
  <2>1. UNCHANGED <<redis, told, gone>>
    BY DEF Restart
  <2>2. \A g \in GameConns : GoneRow(g, game[g], reply[g])'
    <3> SUFFICES ASSUME NEW g \in GameConns PROVE GoneRow(g, game[g], reply[g])'
      OBVIOUS
    <3>1. GoneRow(g, game[g], reply[g])
      BY GameIs
    <3>2. Refused(game'[g], reply'[g]) => Refused(game[g], reply[g])
      BY <1>2 DEF Refused
    <3>3. QED
      BY <1>2, <2>1, <3>1, <3>2 DEF GoneRow
  <2>3. QED
    BY <2>1, <2>2 DEF LInv, GoneOK
<1>11. QED
  BY <1>3, <1>4, <1>6, <1>8, <1>9, <1>10 DEF LInv

-----------------------------------------------------------------------------
LEMMA StepLInv == LInv /\ [Next]_vars => LInv'
<1> SUFFICES ASSUME LInv, [Next]_vars PROVE LInv'
  OBVIOUS
<1>1. scene.auth \subseteq AuthConns /\ scene.game \subseteq GameConns
  BY DEF LInv, Typed
<1>2. ASSUME NEW c \in scene.auth, AuthPort(c) PROVE LInv'
  <2>1. c \in AuthConns
    BY <1>1
  <2>2. CASE Accept(c)
    BY <2>1, <2>2, AnswerStep DEF Accept, Before
  <2>3. CASE Unexpected(c)
    BY <2>1, <2>3, ClosedStep DEF Unexpected, NoFault
  <2>4. CASE GameGuard(c)
    BY <2>1, <2>4, AnswerStep DEF GameGuard, Before
  <2>5. CASE \E n \in Accounts : Credentials(c, n)
    BY <2>1, <2>5, CredentialsStep
  <2>6. CASE VerifyOK(c)
    BY <2>1, <2>6, VerifyOKStep
  <2>7. CASE VerifyFail(c)
    BY <2>1, <2>7, ClosedStep DEF VerifyFail, NoFault
  <2>8. CASE ServerList(c)
    BY <2>1, <2>8, AnswerStep DEF ServerList
  <2>9. CASE \E claim \in IDs : Play(c, claim)
    BY <2>1, <2>9, PlayStep
  <2>10. CASE StoreToken(c)
    BY <2>1, <2>10, StoreStep
  <2>11. CASE PlayOK(c)
    BY <2>1, <2>11, PlayOKStep
  <2>12. QED
    BY <1>2, <2>2, <2>3, <2>4, <2>5, <2>6, <2>7, <2>8, <2>9, <2>10, <2>11 DEF AuthPort
<1>3. ASSUME NEW g \in scene.game, GamePort(g) PROVE LInv'
  <2>1. g \in GameConns
    BY <1>1
  <2>2. QED
    BY <1>3, <2>1, ConnectStep, OtherPacketStep, DeadlineStep, LoginCheckStep, RedisGetDelStep,
       VerifiedStep, VerifyErrorStep DEF GamePort
<1>4. CASE UNCHANGED vars
  BY <1>4 DEF vars, LInv, Typed, AuthOK, AuthRow, RedisOK, GameOK, GameRow, Unique, GoneOK, GoneRow
<1>5. QED
  BY <1>2, <1>3, <1>4, ExpireStep, RestartStep DEF Next

THEOREM LInvAlways == Spec => []LInv
<1>1. Init => LInv
  BY InitLInv
<1>2. LInv /\ [Next]_vars => LInv'
  BY StepLInv
<1>3. QED
  BY <1>1, <1>2, PTL DEF Spec

\* A token admits one connection to the game, with the account and the id that
\* were verified on the auth connection that issued it (Store.Verify's GET and
\* DEL in one MULTI, main.go's order of storing and answering).
THEOREM LoginAdmittedOnce == Spec => []AdmittedOnce
<1>1. LInv => AdmittedOnce
  <2> SUFFICES ASSUME LInv PROVE AdmittedOnce
    OBVIOUS
  <2>1. TypeOK
    BY DEF LInv, Typed, TypeOK, AuthRec, AuthPC, GameRec, GamePC
  <2>2. TokenOnce
    BY DEF LInv, Unique, Holds, Plays, TokenOnce, InGame
  <2>3. OwnAccount
    <3> SUFFICES ASSUME NEW g \in GameConns, InGame(g)
                 PROVE  \E c \in AuthConns : /\ auth[c].tok = game[g].tok
                                            /\ auth[c].account = game[g].account
                                            /\ auth[c].acct = game[g].acct
                                            /\ game[g].tok[1] = game[g].acct
                                            /\ game[g].acct \in {1, AccountID[game[g].account]}
      BY DEF OwnAccount
    <3>1. PICK c \in AuthConns : Issues(auth[c], game[g].tok, game[g])
      BY DEF LInv, GameOK, GameRow, Plays, InGame, Issued
    <3>2. Own(auth[c]) /\ auth[c].tok = Token(c, auth[c].acct)
      BY <3>1 DEF LInv, AuthOK, AuthRow, Issues, Past
    <3>3. auth[c].tok[1] = auth[c].acct
      BY <3>2 DEF Token
    <3>4. QED
      BY <3>1, <3>2, <3>3 DEF Issues, Own
  <2>4. QED
    BY <2>1, <2>2, <2>3 DEF AdmittedOnce
<1>2. QED
  BY <1>1, LInvAlways, PTL

\* A client is refused only when its token was taken by another connection, has
\* expired or was never in Redis because the gateway ran without it.
THEOREM LoginRefusedForCause == Spec => []RefusedForCause
<1>1. LInv => RefusedForCause
  BY DEF LInv, GoneOK, GoneRow, Refused, RefusedForCause
<1>2. QED
  BY <1>1, LInvAlways, PTL
=============================================================================
