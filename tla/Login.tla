------------------------------- MODULE Login -------------------------------
(***************************************************************************)
(* The gateway's two ports and the one-time session token between them     *)
(* (cmd/gateway/main.go, session.go, handshake.go, the L2AUTH exchange of  *)
(* game.go, internal/session/store.go).                                    *)
(*                                                                         *)
(* Auth port: SM_KEY, an optional GameGuard echo, the credentials, the     *)
(* server list, CM_PLAY; then a token is stored in Redis with a TTL and    *)
(* SM_PLAY_OK gives its halves to the client.  Game port: CM_L2AUTH        *)
(* carries them back in another order; GET and DEL of the rebuilt key in   *)
(* one Redis transaction decide.  What can be lost is a reply of Redis     *)
(* (the command ran, the caller sees an error), a packet to the client     *)
(* (the connection closes), and the whole gateway (Restart, with another   *)
(* start mode: no database = any credentials, no Redis = any token).       *)
(*                                                                         *)
(* A token is <<accountId, loginOk, playOk1, playOk2>>.  The random words  *)
(* of connection c are 3c, 3c+1, 3c+2: the model takes them distinct.      *)
(***************************************************************************)
EXTENDS Integers, FiniteSets

CONSTANTS
    AuthConns,      \* connections of the auth port: a set of naturals
    GameConns,      \* connections of the game port
    Accounts,       \* account names
    AccountID,      \* [Accounts -> ids], ap_verify_account
    MaxRead,        \* packets read on the game port before it gives up (10 in the code)
    Scenes          \* what may happen in a behaviour: a set of records of the
                    \* connections that are made on each port (auth, game), and
                    \* bounds on faults (lost replies, refused commands, unsent
                    \* packets) and on restarts of the gateway

ASSUME LoginAssumption ==
    /\ AuthConns \subseteq Nat /\ AccountID \in [Accounts -> Nat] /\ MaxRead \in Nat \ {0}
    /\ GameConns \cap {"expired", "nilstore"} = {}
    /\ Scenes \subseteq [auth : SUBSET AuthConns, game : SUBSET GameConns, faults : Nat,
                         restarts : Nat]

VARIABLES
    scene,      \* one of Scenes
    mode,       \* [db, redis]: what answered when this gateway started
    auth,       \* per auth connection [pc, account, acct, tok]
    game,       \* per game connection [pc, n, tok, acct, account, nil, why]
    redis,      \* the stored tokens: a function to [account, acct, ttl]
    reply,      \* per game connection, the answer of Redis on its way back
    told,       \* tokens written to a client in SM_PLAY_OK
    gone,       \* why a token is not in Redis: "expired", "nilstore", or the connection that took it
    faults, restarts

vars == <<scene, mode, auth, game, redis, reply, told, gone, faults, restarts>>

Modes == [db : BOOLEAN, redis : BOOLEAN]
IDs == {1} \cup {AccountID[a] : a \in Accounts}
NoToken == <<>>
Token(c, id) == <<id, 3*c, 3*c + 1, 3*c + 2>>
Tokens == {Token(c, id) : c \in AuthConns, id \in IDs}

\* A fresh connection: newSession.
NewAuth == [pc |-> "none", account |-> "", acct |-> 0, tok |-> NoToken]
NewGame == [pc |-> "none", n |-> 0, tok |-> NoToken, acct |-> 0, account |-> "",
            nil |-> FALSE, why |-> ""]

\* run(): no database is dev mode, no Redis is NilStore.
Init == /\ scene \in Scenes /\ mode \in Modes
        /\ auth = [c \in AuthConns |-> NewAuth]
        /\ game = [g \in GameConns |-> NewGame]
        /\ redis = <<>> /\ gone = <<>> /\ told = {}
        /\ reply = [g \in GameConns |-> {}]
        /\ faults = 0 /\ restarts = 0

Fault == faults < scene.faults /\ faults' = faults + 1
NoFault == UNCHANGED faults
Without(f, t) == [u \in DOMAIN f \ {t} |-> f[u]]
With(f, t, v) == [u \in DOMAIN f \cup {t} |-> IF u = t THEN v ELSE f[u]]

-----------------------------------------------------------------------------
(* The auth port.  A read of another opcode than the one expected, a short  *)
(* payload and a closed connection all end the handler.                     *)

\* session.close, by the deferred call of every return.
\* What was parsed is forgotten; a token that was built stays (for the properties).
AuthEnd(a) == IF a.tok = NoToken THEN [NewAuth EXCEPT !.pc = "closed"]
                                 ELSE [a EXCEPT !.pc = "closed"]
AuthClosed(c) == auth' = [auth EXCEPT ![c] = AuthEnd(@)]

\* The answer of a step is written, or the write fails and the handler returns.
Answer(c, next) == \/ auth' = [auth EXCEPT ![c].pc = next] /\ NoFault
                   \/ AuthClosed(c) /\ Fault

Accept(c) == /\ auth[c].pc = "none"
             /\ Answer(c, "first")
             /\ UNCHANGED <<scene, mode, game, redis, reply, told, gone, restarts>>

Reading(c) == auth[c].pc \in {"first", "login", "list", "play"}

Unexpected(c) == /\ Reading(c)
                 /\ AuthClosed(c)
                 /\ UNCHANGED <<scene, mode, game, redis, reply, told, gone, faults, restarts>>

GameGuard(c) == /\ auth[c].pc = "first"
                /\ Answer(c, "login")
                /\ UNCHANGED <<scene, mode, game, redis, reply, told, gone, restarts>>

\* CM_AUTH_LOGIN is decrypted; the database is asked next.
Credentials(c, a) ==
    /\ auth[c].pc \in {"first", "login"}
    /\ auth' = [auth EXCEPT ![c].pc = "verify", ![c].account = a]
    /\ UNCHANGED <<scene, mode, game, redis, reply, told, gone, faults, restarts>>

\* verifyAccount: the procedure's id, or 1 without a database.
VerifiedID(a) == IF mode.db THEN AccountID[a] ELSE 1

VerifyOK(c) ==
    /\ auth[c].pc = "verify"
    /\ \/ /\ auth' = [auth EXCEPT ![c].pc = "list",
                                  ![c].acct = VerifiedID(auth[c].account)]
          /\ NoFault
       \/ AuthClosed(c) /\ Fault
    /\ UNCHANGED <<scene, mode, game, redis, reply, told, gone, restarts>>

\* Wrong password or a failed call: SM_LOGIN_FAIL, and the deferred close.
VerifyFail(c) == /\ auth[c].pc = "verify" /\ mode.db
                 /\ AuthClosed(c)
                 /\ UNCHANGED <<scene, mode, game, redis, reply, told, gone, faults, restarts>>

ServerList(c) == /\ auth[c].pc = "list"
                 /\ Answer(c, "play")
                 /\ UNCHANGED <<scene, mode, game, redis, reply, told, gone, restarts>>

\* CM_PLAY: the account id the client sends along (claim) is not looked at.
PlayID(c, claim) == auth[c].acct

Play(c, claim) ==
    /\ auth[c].pc = "play"
    /\ auth' = [auth EXCEPT ![c].pc = "store", ![c].tok = Token(c, PlayID(c, claim))]
    /\ UNCHANGED <<scene, mode, game, redis, reply, told, gone, faults, restarts>>

\* Without a TTL.
EntryForever(c) == [account |-> auth[c].account, acct |-> auth[c].acct, ttl |-> FALSE]

\* What StoreToken writes: the id and the account that were verified, and a TTL
\* (NewStore replaces a TTL that is not positive by the default).
Entry(c) == [account |-> auth[c].account, acct |-> auth[c].acct, ttl |-> TRUE]

Put(c) == IF mode.redis
          THEN redis' = With(redis, auth[c].tok, Entry(c)) /\ UNCHANGED gone
          ELSE gone' = With(gone, auth[c].tok, "nilstore") /\ UNCHANGED redis

\* The error of the store does not stop SM_PLAY_OK.
StoreTokenIgnoresError(c) ==
    /\ auth[c].pc = "store"
    /\ auth' = [auth EXCEPT ![c].pc = "playok"]
    /\ \/ Put(c) /\ NoFault
       \/ UNCHANGED <<redis, gone>> /\ Fault
    /\ UNCHANGED <<scene, mode, game, reply, told, restarts>>

\* SET runs and answers; runs and its answer is lost; or does not run.  An
\* error is answered by SM_LOGIN_FAIL.  With the token stored the login event
\* is published, and SM_PLAY_OK comes next.
StoreToken(c) ==
    /\ auth[c].pc = "store"
    /\ \/ Put(c) /\ auth' = [auth EXCEPT ![c].pc = "playok"] /\ NoFault
       \/ mode.redis /\ (Put(c) \/ UNCHANGED <<redis, gone>>) /\ AuthClosed(c) /\ Fault
    /\ UNCHANGED <<scene, mode, game, reply, told, restarts>>

\* SM_PLAY_OK reaches the client or not; the handler ends either way.
PlayOK(c) ==
    /\ auth[c].pc = "playok"
    /\ AuthClosed(c)
    /\ \/ told' = told \cup {auth[c].tok} /\ NoFault
       \/ UNCHANGED told /\ Fault
    /\ UNCHANGED <<scene, mode, game, redis, reply, gone, restarts>>

-----------------------------------------------------------------------------
(* The game port.                                                          *)

GameClosed(g, why) == game' = [game EXCEPT ![g].pc = "closed", ![g].why = why, ![g].n = 0]

Connect(g) ==
    /\ game[g].pc = "none"
    /\ \/ game' = [game EXCEPT ![g].pc = "wait"] /\ NoFault
       \/ GameClosed(g, "send") /\ Fault
    /\ UNCHANGED <<scene, mode, auth, redis, reply, told, gone, restarts>>

\* CM_VERSION_CHECK, CM_MAC_ADDRESS, CM_TIME_CHECK, an unknown slot: one read
\* of the ten is used up; after the last the handler returns.
LastRead(g) == game[g].n + 1 = MaxRead

OtherPacket(g) ==
    /\ game[g].pc = "wait"
    /\ IF LastRead(g) THEN GameClosed(g, "noauth")
                                  ELSE game' = [game EXCEPT ![g].n = @ + 1]
    /\ UNCHANGED <<scene, mode, auth, redis, reply, told, gone, faults, restarts>>

\* The read deadline is set once, before the first of the reads, and holds for
\* all of them.
GameTimeout(g) == game[g].pc = "wait"

Deadline(g) ==
    /\ GameTimeout(g)
    /\ GameClosed(g, "deadline")
    /\ UNCHANGED <<scene, mode, auth, redis, reply, told, gone, faults, restarts>>

\* The client's payload: playOk2, playOk1, accountId, loginOk.
L2Auth(t) == <<t[4], t[3], t[1], t[2]>>
\* The gateway puts them back in the order of the stored token.
Rebuild(p) == <<p[3], p[4], p[2], p[1]>>

\* CM_L2AUTH_LOGIN_CHECK with a token some client was told.  Redis answers in
\* RedisGetDel; NilStore answers at once.
LoginCheck(g, t) ==
    /\ game[g].pc = "wait"
    /\ LET key == Rebuild(L2Auth(t)) IN
       IF mode.redis
       THEN game' = [game EXCEPT ![g].pc = "verify", ![g].n = 0, ![g].tok = key]
       ELSE game' = [game EXCEPT ![g].pc = "authed", ![g].n = 0, ![g].tok = key, ![g].acct = 1,
                                 ![g].account = "dev", ![g].nil = TRUE]
    /\ UNCHANGED <<scene, mode, auth, redis, reply, told, gone, faults, restarts>>

Answered(g, found) == /\ game' = [game EXCEPT ![g].pc = "answered"]
                      /\ reply' = [reply EXCEPT ![g] = found]

\* GET alone; the DEL would follow the answer.
RedisGetOnly(g) ==
    /\ game[g].pc = "verify"
    /\ Answered(g, {redis[t] : t \in {game[g].tok} \cap DOMAIN redis})
    /\ UNCHANGED <<scene, mode, auth, redis, told, gone, faults, restarts>>

\* Store.Verify: GET and DEL in one MULTI, executed by Redis.
RedisGetDel(g) ==
    /\ game[g].pc = "verify"
    /\ LET t == game[g].tok IN
       IF t \in DOMAIN redis
       THEN Answered(g, {redis[t]}) /\ redis' = Without(redis, t) /\ gone' = With(gone, t, g)
       ELSE Answered(g, {}) /\ UNCHANGED <<redis, gone>>
    /\ UNCHANGED <<scene, mode, auth, told, faults, restarts>>

\* The answer arrives: the session takes the stored account, or is refused.
Verified(g) ==
    /\ game[g].pc = "answered"
    /\ \/ reply[g] = {} /\ GameClosed(g, "refused") /\ NoFault
       \/ \E e \in reply[g] :
            \/ /\ game' = [game EXCEPT ![g].pc = "authed", ![g].acct = e.acct,
                                        ![g].account = e.account, ![g].n = 0]
               /\ NoFault
            \/ GameClosed(g, "send") /\ Fault
    /\ reply' = [reply EXCEPT ![g] = {}]
    /\ UNCHANGED <<scene, mode, auth, redis, told, gone, restarts>>

\* Redis is out of reach before the command, or its answer is lost after it.
VerifyError(g) ==
    /\ game[g].pc \in {"verify", "answered"} /\ Fault
    /\ GameClosed(g, "error") /\ reply' = [reply EXCEPT ![g] = {}]
    /\ UNCHANGED <<scene, mode, auth, redis, told, gone, restarts>>

-----------------------------------------------------------------------------
\* Redis drops a key whose TTL has run out.
Expire(t) ==
    /\ t \in DOMAIN redis /\ redis[t].ttl
    /\ redis' = Without(redis, t) /\ gone' = With(gone, t, "expired")
    /\ UNCHANGED <<scene, mode, auth, game, reply, told, faults, restarts>>

\* The gateway ends (signal or crash) and starts again: every connection is
\* cut, the tokens stay, and the start decides the mode anew.
Restart ==
    /\ restarts < scene.restarts /\ restarts' = restarts + 1
    /\ mode' \in Modes
    /\ auth' = [c \in AuthConns |-> IF auth[c].pc = "none" THEN auth[c]
                                    ELSE AuthEnd(auth[c])]
    /\ game' = [g \in GameConns |-> IF game[g].pc \in {"none", "authed", "closed"} THEN game[g]
                                    ELSE [game[g] EXCEPT !.pc = "closed", !.n = 0]]
    /\ reply' = [g \in GameConns |-> {}]
    /\ UNCHANGED <<scene, redis, told, gone, faults>>

AuthPort(c) ==
    \/ Accept(c) \/ Unexpected(c) \/ GameGuard(c)
    \/ \E a \in Accounts : Credentials(c, a)
    \/ VerifyOK(c) \/ VerifyFail(c) \/ ServerList(c)
    \/ \E claim \in IDs : Play(c, claim)
    \/ StoreToken(c) \/ PlayOK(c)

GamePort(g) ==
    \/ Connect(g) \/ OtherPacket(g) \/ Deadline(g)
    \/ \E t \in told : LoginCheck(g, t)
    \/ RedisGetDel(g) \/ Verified(g) \/ VerifyError(g)

Next == \/ \E c \in scene.auth : AuthPort(c)
        \/ \E g \in scene.game : GamePort(g)
        \/ \E t \in Tokens : Expire(t)
        \/ Restart

\* Fairness: the deadline of a socket fires, a command sent to Redis is run and
\* answered (or its timeout is the error), a key with a TTL expires.  Nothing
\* is assumed of clients.
Fairness == /\ \A g \in GameConns : WF_vars(Deadline(g))
            /\ \A g \in GameConns : WF_vars(RedisGetDel(g)) /\ WF_vars(Verified(g))
            /\ \A t \in Tokens : WF_vars(Expire(t))

Spec == Init /\ [][Next]_vars /\ Fairness

-----------------------------------------------------------------------------
(* Properties.                                                             *)

Entries == [account : Accounts, acct : IDs, ttl : BOOLEAN]

TypeOK ==
    /\ mode \in Modes
    /\ \A c \in AuthConns :
         /\ auth[c].pc \in {"none", "first", "login", "verify", "list", "play", "store",
                            "playok", "closed"}
         /\ auth[c].account \in Accounts \cup {""} /\ auth[c].acct \in IDs \cup {0}
         /\ auth[c].tok \in Tokens \cup {NoToken}
    /\ \A g \in GameConns :
         /\ game[g].pc \in {"none", "wait", "verify", "answered", "authed", "closed"}
         /\ game[g].n \in 0..(MaxRead - 1)
         /\ game[g].acct \in IDs \cup {0}
    /\ DOMAIN redis \subseteq Tokens /\ \A t \in DOMAIN redis : redis[t] \in Entries
    /\ told \subseteq Tokens
    /\ faults \in 0..scene.faults /\ restarts \in 0..scene.restarts

\* A session that ends later changes nothing below: "authed" stays.
InGame(g) == game[g].pc = "authed" /\ ~game[g].nil

\* "One-time-use: calling Verify twice with the same token always fails on the
\* second call" (store.go), also for two connections at the same moment, with
\* lost answers and across a restart of the gateway.
TokenOnce == \A g, h \in GameConns : InGame(g) /\ InGame(h) /\ game[g].tok = game[h].tok => g = h

\* A game session has the account whose credentials were verified on the auth
\* connection that issued its token, whatever ids the client sent along: the id
\* in the key, the id in the entry and the account's own id agree.
OwnAccount ==
    \A g \in GameConns : InGame(g) =>
        \E c \in AuthConns : /\ auth[c].tok = game[g].tok
                             /\ auth[c].account = game[g].account
                             /\ auth[c].acct = game[g].acct
                             /\ game[g].tok[1] = game[g].acct
                             /\ game[g].acct \in {1, AccountID[game[g].account]}

\* A client that was told a token and presents it is turned away only when the
\* token has expired, another connection used it, or it was issued without Redis: SM_PLAY_OK is never sent
\* for a token that is not in the store, and the game port rebuilds the very
\* key the auth port wrote (store first, then SM_PLAY_OK: main.go).
RefusedForCause ==
    \A g \in GameConns : game[g].why = "refused" =>
        /\ game[g].tok \in told
        /\ game[g].tok \in DOMAIN gone
        /\ gone[game[g].tok] # g

\* A token a client never used, or never heard of because SM_PLAY_OK or the
\* answer to SET was lost, does not stay in Redis.
TokensExpire == \A t \in Tokens : (t \in DOMAIN redis) ~> (t \notin DOMAIN redis)

\* A connection to the game port is authenticated or closed: it cannot wait for
\* a token for ever, nor hang on one.
AuthedOrClosed ==
    \A g \in GameConns : (game[g].pc \in {"wait", "verify", "answered"}) ~> (game[g].pc \in {"authed", "closed"})

\* A token admits one connection, with the account that was verified for it.
AdmittedOnce == TypeOK /\ TokenOnce /\ OwnAccount

\* No token stays in Redis and no connection stays unauthenticated for ever.
LoginSettles == TokensExpire /\ AuthedOrClosed
=============================================================================
