------------------------------- MODULE Admin -------------------------------
(***************************************************************************)
(* The admin API (cmd/admin): which store verifies a login, the token a    *)
(* login gives, the role a route asks for, and the two token-bucket        *)
(* limiters with the goroutine that evicts idle buckets.                   *)
(*                                                                         *)
(* A token is checked by its signature and its expiry alone, so a role     *)
(* that is taken away, an account that is disabled, even another user      *)
(* store after a restart do not reach it.  A bucket is a debt: a request   *)
(* adds Cost ticks to it, a tick takes one off, Burst requests fill it.    *)
(*                                                                         *)
(* Left out: the OPTIONS preflight, /healthz and /metrics, which pass no   *)
(* limiter; last_login, an audit column nothing reads; the handlers behind *)
(* the routes, which are stubs that answer 200 or 202.                     *)
(***************************************************************************)
EXTENDS Naturals

CONSTANTS
    Users,          \* logins; defaultUsers names each after its role
    Clients, Ips,   \* clients; keyByIP drops the port of an address
    IpOf,           \* [Clients -> Ips]
    Burst, Cost,    \* capacity of a bucket, ticks that give one token back
    EvictAfter,     \* idleEvictAfter, in ticks (30 minutes; a bucket refills in one)
    TTL,            \* tokenTTL, in ticks
    MaxHold,        \* bound on the ticks a login spends between verify and signToken
    MaxChanges      \* bound on the changes made to the table admin_users

VARIABLES
    store,          \* "off" while the process is down, else "pg" or "mem"
    users,          \* admin_users: [role, disabled]
    buckets,        \* the entries of the two rateLimiters
    pending,        \* per client, a login that verified and has not signed
    tokens,         \* per client, the token it holds
    last,           \* the last answer, forgotten by the next tick
    changes,
    paid,           \* ghost: the debt of each key, had no bucket ever been evicted
    since           \* ghost: ticks since a login held the right to a route

vars == <<store, users, buckets, pending, tokens, last, changes, paid, since>>

Roles == {"superadmin", "gm", "readonly"}
Routes == {"read", "write"}
Keys == {"login", "api"} \X Ips
None == [sub |-> "", role |-> "", left |-> 0]
NoBucket == [debt |-> 0, idle |-> EvictAfter + 2]
NoAnswer == [status |-> 0, sub |-> "", route |-> ""]

\* requireRole: who may list players and read statistics, who may ban and kick.
Allowed(route) == IF route = "read" THEN Roles ELSE {"superadmin", "gm"}

RoleIn(st, tab, u) == IF st = "mem" THEN u ELSE tab[u].role
Enabled(st, tab, u) == st = "mem" \/ (st = "pg" /\ ~tab[u].disabled)
Holds(st, tab, u, route) == Enabled(st, tab, u) /\ RoleIn(st, tab, u) \in Allowed(route)

Forget == TTL + MaxHold + 1
Refresh(old, st, tab) == [u \in Users |-> [r \in Routes |->
                              IF Holds(st, tab, u, r) THEN 0 ELSE old[u][r]]]

Init == /\ store = "off" /\ changes = 0 /\ last = NoAnswer
        /\ users = [u \in Users |-> [role |-> u, disabled |-> FALSE]]
        /\ buckets = [k \in Keys |-> NoBucket] /\ paid = [k \in Keys |-> 0]
        /\ pending = [c \in Clients |-> None] /\ tokens = [c \in Clients |-> None]
        /\ since = [u \in Users |-> [r \in Routes |-> Forget]]

-----------------------------------------------------------------------------
(* The limiter.                                                             *)

Grants(k) == buckets[k].debt + Cost <= Burst * Cost

ChargeAlways(k) == Cost
Charge(k) == IF Grants(k) THEN Cost ELSE 0

\* A full bucket for a new key; the entry is seen even when it refuses.
Allow(k) ==
    /\ buckets' = [buckets EXCEPT ![k] = [debt |-> @.debt + Charge(k), idle |-> 0]]
    /\ paid' = [paid EXCEPT ![k] = @ + Charge(k)]

IdleAnyhow(b) == b # NoBucket
Idle(b) == b.idle = EvictAfter + 1

\* The GC goroutine, at any moment of its period.
Gc == /\ store # "off" /\ \E k \in Keys : Idle(buckets[k])
      /\ buckets' = [k \in Keys |-> IF Idle(buckets[k]) THEN NoBucket ELSE buckets[k]]
      /\ UNCHANGED <<store, users, pending, tokens, last, changes, paid, since>>

Less(n) == IF n = 0 THEN 0 ELSE n - 1
Upto(n, max) == IF n < max THEN n + 1 ELSE n

Tick == /\ \A c \in Clients : pending[c] # None => pending[c].left < MaxHold
        /\ buckets' = [k \in Keys |-> IF buckets[k] = NoBucket THEN NoBucket
                          ELSE [debt |-> Less(buckets[k].debt),
                                idle |-> Upto(buckets[k].idle, EvictAfter + 1)]]
        /\ paid' = [k \in Keys |-> Less(paid[k])]
        /\ pending' = [c \in Clients |-> IF pending[c] = None THEN None
                          ELSE [pending[c] EXCEPT !.left = @ + 1]]
        /\ tokens' = [c \in Clients |-> [tokens[c] EXCEPT !.left = Less(@)]]
        /\ since' = Refresh([u \in Users |-> [r \in Routes |-> Upto(since[u][r], Forget)]],
                            store, users)
        /\ last' = NoAnswer
        /\ UNCHANGED <<store, users, changes>>

-----------------------------------------------------------------------------
(* POST /admin/login: the IP bucket, verify (a query and a bcrypt), then    *)
(* signToken.  Every refusal is the same 401.                               *)

Answer(status, sub, route) == last' = [status |-> status, sub |-> sub, route |-> route]

LoginRefused(c) ==
    LET k == <<"login", IpOf[c]>>
    IN  /\ store # "off" /\ pending[c] = None
        /\ Allow(k) /\ Answer(IF Grants(k) THEN 401 ELSE 429, "", "login")
        /\ UNCHANGED <<store, users, pending, tokens, changes, since>>

LoginVerified(c, u) ==
    LET k == <<"login", IpOf[c]>>
    IN  /\ store # "off" /\ pending[c] = None /\ Grants(k)
        /\ Enabled(store, users, u)
        /\ Allow(k)
        /\ pending' = [pending EXCEPT ![c] = [sub |-> u, left |-> 0,
                                              role |-> RoleIn(store, users, u)]]
        /\ last' = NoAnswer
        /\ UNCHANGED <<store, users, tokens, changes, since>>

\* The answer and its cookie: they replace the token the client had.
SignToken(c) ==
    /\ pending[c] # None
    /\ tokens' = [tokens EXCEPT ![c] = [pending[c] EXCEPT !.left = TTL]]
    /\ pending' = [pending EXCEPT ![c] = None]
    /\ Answer(200, pending[c].sub, "login")
    /\ UNCHANGED <<store, users, buckets, changes, paid, since>>

-----------------------------------------------------------------------------
(* /api/v1: the limiter first, then the token, then the role.               *)

\* keyBySubOrIP, run before authMiddleware: there are no claims in the context.
ApiKey(c) == <<"api", IpOf[c]>>

\* parseToken.
AcceptsExpired(t) == t # None
Accepts(t) == t.left > 0

MayRun(t, route) == t.role \in Allowed(route)

Status(c, t, route) == CASE ~Grants(ApiKey(c)) -> 429
                         [] Grants(ApiKey(c)) /\ ~Accepts(t) -> 401
                         [] Grants(ApiKey(c)) /\ Accepts(t) /\ ~MayRun(t, route) -> 403
                         [] OTHER -> IF route = "read" THEN 200 ELSE 202

Api(c, route) ==
    \E t \in {tokens[c], None} :
        /\ store # "off"
        /\ Allow(ApiKey(c))
        /\ Answer(Status(c, t, route), IF t.left > 0 \/ Accepts(t) THEN t.sub ELSE "", route)
        /\ UNCHANGED <<store, users, pending, tokens, changes, since>>

-----------------------------------------------------------------------------
(* The process, and the table it reads.                                     *)

\* wireUserStore: a DSN means PG whatever the fallback says; neither is fatal,
\* and so is a short secret.  The secret outlives the process, the buckets do not.
Start(dsn, fallback, secretOK) ==
    /\ store = "off" /\ secretOK /\ (dsn \/ fallback)
    /\ store' = IF dsn THEN "pg" ELSE "mem"
    /\ buckets' = [k \in Keys |-> NoBucket] /\ paid' = [k \in Keys |-> 0]
    /\ since' = Refresh(since, store', users)
    /\ UNCHANGED <<users, pending, tokens, last, changes>>

\* Shutdown, or the process dies; logins in progress are cut off.
Stop == /\ store # "off" /\ store' = "off"
        /\ pending' = [c \in Clients |-> None] /\ last' = NoAnswer
        /\ UNCHANGED <<users, buckets, tokens, changes, paid, since>>

\* An operator changes a row.
SetUser(u, role, disabled) ==
    /\ changes < MaxChanges /\ changes' = changes + 1
    /\ [role |-> role, disabled |-> disabled] # users[u]
    /\ users' = [users EXCEPT ![u] = [role |-> role, disabled |-> disabled]]
    /\ since' = Refresh(since, store, users')
    /\ UNCHANGED <<store, buckets, pending, tokens, last, paid>>

Next == \/ Gc \/ Tick \/ Stop
        \/ \E c \in Clients : LoginRefused(c) \/ SignToken(c)
        \/ \E c \in Clients, u \in Users : LoginVerified(c, u)
        \/ \E c \in Clients, r \in Routes : Api(c, r)
        \/ \E dsn, fallback, secretOK \in BOOLEAN : Start(dsn, fallback, secretOK)
        \/ \E u \in Users, role \in Roles \cap Users, d \in BOOLEAN : SetUser(u, role, d)

Spec == Init /\ [][Next]_vars

-----------------------------------------------------------------------------
\* The types of the variables; a bucket's debt never passes its capacity.
TypeOK == /\ store \in {"off", "pg", "mem"} /\ changes \in 0..MaxChanges
          /\ users \in [Users -> [role : Roles, disabled : BOOLEAN]]
          /\ \A k \in Keys : buckets[k].debt \in 0..(Burst * Cost)
          /\ \A c \in Clients : tokens[c].left \in 0..TTL /\ pending[c].left \in 0..MaxHold

\* Evicting idle buckets loses no debt: a key is granted no more requests than if
\* its bucket had been kept since the start (gcLoop against allow, which hands out
\* the limiter after it has released the lock).
LimitHolds == \A k \in Keys : paid[k] <= Burst * Cost

\* A ban, a kick or a query is answered only for a login that held the right to it
\* in the store of the time, at most a token's life and one login's length ago; a
\* role that was taken away, a disabled account and another store reach no further.
RightsVerified == last.status \in {200, 202} /\ last.route \in Routes
                     => since[last.sub][last.route] < Forget
=============================================================================
