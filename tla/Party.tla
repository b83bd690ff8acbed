------------------------------- MODULE Party -------------------------------
(***************************************************************************)
(* Parties and instance runs (scripts/lib/group.lua, lib/instance.lua and  *)
(* their handlers).  Both live in tables of one Lua VM; a handler runs on  *)
(* whatever VM its session gets and has that VM for itself, and a hot      *)
(* reload starts with empty tables.  What VMs share is the World: who is   *)
(* online and which boss stands, and the database: the cooldown rows.      *)
(* Creating a run checks all members first and then writes their rows, a   *)
(* call each.  Levels, distance and death can only refuse; kinah is in     *)
(* Wallet.  group.kick and group.disband have no caller.                   *)
(***************************************************************************)
EXTENDS Naturals, Sequences, FiniteSets, Lists

CONSTANTS
    Players,
    PartyVms,
    Templates,
    MinMembers,     \* of a party, to enter any of the templates
    MaxMembers,     \* of a group (group.lua:55)
    Lifetime,       \* validity_hours, in ticks
    Reentrance,     \* reentrance_sec, in ticks
    MaxLogins,      \* bound on the logins of a player
    Scales          \* what may happen in a behaviour: a set of records of the
                    \* players (cast), VMs and templates in it, and bounds on
                    \* groups and runs per VM, the hour and the mishaps (failed
                    \* calls, logouts, reloads)

VARIABLES
    scale,          \* one of Scales
    logins,         \* per player; the last one made its entity
    online,
    groups,         \* per VM: group id -> [leader, members]
    memberGroup,    \* per VM and entity: group id or 0
    invites,        \* per VM and entity (_pending): group id or 0
    nextGroup,
    instances,      \* per VM: run id -> [template, members, boss, made]; members
                    \* is how often each entity is in the list
    memberInstance, \* per VM and entity: run id or 0
    charRun,        \* per VM and player: run id or 0
    nextInstance,
    creating,       \* per VM: the create between its check and its writes
    reentry,        \* the database: per player and template, end of the cooldown
    expiries,       \* queued on_instance_expire: [run, made]
    hour,           \* os.time()
    mishaps,
    entered,        \* ghost: who was in a run when it came to be: <<player, template>>
    rewarded,       \* ghost: per player and template, end of the cooldown after a reward
    twiceCleared,   \* ghost: somebody was rewarded again before that end
    joinedTwice,    \* ghost: somebody accepted an invite while in a group
    uncleared       \* ghost: an answer or a compensating call was lost

tables == <<groups, memberGroup, invites, nextGroup, instances, memberInstance, charRun, nextInstance>>
ghosts == <<entered, rewarded, twiceCleared, joinedTwice, uncleared>>
vars == <<scale, logins, online, tables, creating, reentry, expiries, hour, mishaps, ghosts>>

Eids == Players \X (1..MaxLogins)
Of(e) == e[1]
Live(p) == <<p, logins[p]>>
HasGateway(e) == e = Live(Of(e)) /\ Of(e) \in online
NotCreating == [by |-> <<>>]
Nothing == [x \in {} |-> 0]
Without(f, x) == [y \in DOMAIN f \ {x} |-> f[y]]
With(f, x, v) == [y \in DOMAIN f \cup {x} |-> IF y = x THEN v ELSE f[y]]
Mishap == mishaps < scale.mishaps /\ mishaps' = mishaps + 1

\* A session handles one packet at a time, a VM runs one handler at a time.
Free(v, e) == /\ HasGateway(e) /\ creating[v] = NotCreating
              /\ \A w \in PartyVms : creating[w].by # e

Init ==
    /\ scale \in Scales
    /\ logins = [p \in Players |-> 1] /\ online = scale.cast
    /\ groups = [v \in PartyVms |-> Nothing]
    /\ memberGroup = [v \in PartyVms |-> [e \in Eids |-> 0]]
    /\ invites = [v \in PartyVms |-> [e \in Eids |-> 0]]
    /\ nextGroup = [v \in PartyVms |-> 1]
    /\ instances = [v \in PartyVms |-> Nothing]
    /\ memberInstance = [v \in PartyVms |-> [e \in Eids |-> 0]]
    /\ charRun = [v \in PartyVms |-> [p \in Players |-> 0]]
    /\ nextInstance = [v \in PartyVms |-> 1]
    /\ creating = [v \in PartyVms |-> NotCreating]
    /\ reentry = [p \in Players |-> [t \in Templates |-> 0]]
    /\ expiries = {} /\ hour = 1 /\ mishaps = 0
    /\ entered = {} /\ rewarded = [p \in Players |-> [t \in Templates |-> 0]]
    /\ twiceCleared = FALSE /\ joinedTwice = FALSE /\ uncleared = FALSE

-----------------------------------------------------------------------------
(* The World                                                               *)

\* The entity goes, also under a handler; the tables are not told.
Logout(p) == /\ p \in online /\ online' = online \ {p} /\ Mishap
             /\ UNCHANGED <<scale, logins, tables, creating, reentry, expiries, hour, ghosts>>

Login(p) == /\ p \in scale.cast \ online /\ logins[p] < MaxLogins
            /\ online' = online \cup {p} /\ logins' = [logins EXCEPT ![p] = @ + 1]
            /\ UNCHANGED <<scale, tables, creating, reentry, expiries, hour, mishaps, ghosts>>

Tick == /\ hour < scale.hours /\ hour' = hour + 1
        /\ UNCHANGED <<scale, logins, online, tables, creating, reentry, expiries, mishaps, ghosts>>

\* A hot reload puts a fresh VM in v's place.  What a player got before is no
\* measure any more: the tables that knew it are gone.
Reload(v) ==
    /\ creating[v] = NotCreating /\ Mishap
    /\ groups' = [groups EXCEPT ![v] = Nothing]
    /\ memberGroup' = [memberGroup EXCEPT ![v] = [e \in Eids |-> 0]]
    /\ invites' = [invites EXCEPT ![v] = [e \in Eids |-> 0]]
    /\ nextGroup' = [nextGroup EXCEPT ![v] = 1]
    /\ instances' = [instances EXCEPT ![v] = Nothing]
    /\ memberInstance' = [memberInstance EXCEPT ![v] = [e \in Eids |-> 0]]
    /\ charRun' = [charRun EXCEPT ![v] = [p \in Players |-> 0]]
    /\ nextInstance' = [nextInstance EXCEPT ![v] = 1]
    /\ rewarded' = [p \in Players |-> [t \in Templates |-> 0]]
    /\ UNCHANGED <<scale, logins, online, creating, reentry, expiries, hour, entered, twiceCleared,
                   joinedTwice, uncleared>>

-----------------------------------------------------------------------------
(* instance.leave                                                          *)

\* An entity is taken off the list once.
Left(members, S) == [e \in Eids |-> IF e \in S /\ members[e] > 0 THEN members[e] - 1 ELSE members[e]]

\* Those in S leave the runs they are present in; the runs R stay.
LeaveRuns(v, S, R) ==
    /\ instances' = [instances EXCEPT ![v] = [r \in R |->
            [instances[v][r] EXCEPT !.members = Left(@, {e \in S : memberInstance[v][e] = r})]]]
    /\ memberInstance' = [memberInstance EXCEPT ![v] = [e \in Eids |-> IF e \in S THEN 0 ELSE @[e]]]

InstanceLeave(v, e) ==
    /\ Free(v, e) /\ memberInstance[v][e] # 0 /\ LeaveRuns(v, {e}, DOMAIN instances[v])
    /\ UNCHANGED <<scale, logins, online, groups, memberGroup, invites, nextGroup, charRun, nextInstance,
                   creating, reentry, expiries, hour, mishaps, ghosts>>

-----------------------------------------------------------------------------
(* Groups                                                                  *)

\* group.invite; the leader's group is made by its first invite.
Invite(v, e, target) ==
    /\ Free(v, e) /\ HasGateway(target) /\ target # e /\ memberGroup[v][target] = 0
    /\ LET g == memberGroup[v][e] IN
       IF g # 0
       THEN /\ Len(groups[v][g].members) < MaxMembers
            /\ invites' = [invites EXCEPT ![v][target] = g]
            /\ UNCHANGED <<groups, memberGroup, nextGroup>>
       ELSE /\ nextGroup[v] <= scale.groups
            /\ groups' = [groups EXCEPT ![v] = With(@, nextGroup[v], [leader |-> e, members |-> <<e>>])]
            /\ memberGroup' = [memberGroup EXCEPT ![v][e] = nextGroup[v]]
            /\ invites' = [invites EXCEPT ![v][target] = nextGroup[v]]
            /\ nextGroup' = [nextGroup EXCEPT ![v] = @ + 1]
    /\ UNCHANGED <<scale, logins, online, instances, memberInstance, charRun, nextInstance,
                   creating, reentry, expiries, hour, mishaps, ghosts>>

\* Mutant of Joins: the roster only.
JoinsOnly(v, e, g) == /\ groups' = [groups EXCEPT ![v][g].members = Append(@, e)]
                      /\ UNCHANGED memberGroup
Joins(v, e, g) == /\ groups' = [groups EXCEPT ![v][g].members = Append(@, e)]
                  /\ memberGroup' = [memberGroup EXCEPT ![v][e] = g]

\* group.accept, which does not look whether e has a group by now.
Accept(v, e) ==
    /\ Free(v, e) /\ invites[v][e] # 0
    /\ invites' = [invites EXCEPT ![v][e] = 0]
    /\ LET g == invites[v][e] IN
       IF g \in DOMAIN groups[v] /\ Len(groups[v][g].members) < MaxMembers
       THEN Joins(v, e, g) /\ joinedTwice' = (joinedTwice \/ memberGroup[v][e] # 0)
       ELSE UNCHANGED <<groups, memberGroup, joinedTwice>>
    /\ UNCHANGED <<scale, logins, online, nextGroup, instances, memberInstance, charRun, nextInstance,
                   creating, reentry, expiries, hour, mishaps, entered, rewarded, twiceCleared, uncleared>>

\* Who has no group after e left: a group of one is disbanded.
Remaining(rest, e) == {e} \cup IF Len(rest) = 1 THEN {rest[1]} ELSE {}

\* group.leave; the hooks take those without a group out of their runs.
GroupLeave(v, e) ==
    /\ Free(v, e) /\ memberGroup[v][e] # 0
    /\ LET g == memberGroup[v][e]
           rest == RemoveFirst(groups[v][g].members, e)
           out == Remaining(rest, e) IN
       /\ groups' = [groups EXCEPT ![v] =
            IF Len(rest) < 2 THEN Without(@, g)
            ELSE With(@, g, [leader |-> IF @[g].leader = e THEN rest[1] ELSE @[g].leader,
                             members |-> rest])]
       /\ memberGroup' = [memberGroup EXCEPT ![v] = [x \in Eids |-> IF x \in out THEN 0 ELSE @[x]]]
       /\ LeaveRuns(v, out, DOMAIN instances[v])
    /\ UNCHANGED <<scale, logins, online, invites, nextGroup, charRun, nextInstance,
                   creating, reentry, expiries, hour, mishaps, ghosts>>

-----------------------------------------------------------------------------
(* Entering an instance                                                    *)

InRun(v, p, t) == LET r == charRun[v][p] IN r \in DOMAIN instances[v] /\ instances[v][r].template = t

\* instance.rejoin
Rejoin(v, e, t) ==
    /\ Free(v, e) /\ InRun(v, Of(e), t)
    /\ LET r == charRun[v][Of(e)] IN
       /\ instances' = [instances EXCEPT ![v][r].members = [x \in Eids |-> IF x = e /\ @[x] = 0 THEN 1 ELSE @[x]]]
       /\ memberInstance' = [memberInstance EXCEPT ![v][e] = r]
    /\ UNCHANGED <<scale, logins, online, groups, memberGroup, invites, nextGroup, charRun, nextInstance,
                   creating, reentry, expiries, hour, mishaps, ghosts>>

PartyOf(v, e) == LET g == memberGroup[v][e] IN IF g = 0 THEN <<e>> ELSE groups[v][g].members
MayCreate(v, e) == memberGroup[v][e] # 0 => groups[v][memberGroup[v][e]].leader = e
OnCooldown(p, t) == reentry[p][t] > hour

\* instance.create, the checks.  A row still running refuses while its run is
\* in this VM's tables, else it is taken for a crash and not written again.
CreateCheck(v, e, t) ==
    /\ Free(v, e) /\ ~InRun(v, Of(e), t) /\ MayCreate(v, e) /\ nextInstance[v] <= scale.runs
    /\ LET party == PartyOf(v, e) IN
       /\ Len(party) >= MinMembers
       /\ \A m \in Range(party) : HasGateway(m) /\ ~(OnCooldown(Of(m), t) /\ InRun(v, Of(m), t))
       /\ creating' = [creating EXCEPT ![v] =
            [by |-> e, template |-> t, party |-> party,
             skip |-> {m \in Range(party) : OnCooldown(Of(m), t)}]]
    /\ UNCHANGED <<scale, logins, online, tables, reentry, expiries, hour, mishaps, ghosts>>

\* The party's first n members; an entity that is gone has no character.
First(c, n) == {c.party[i] : i \in 1..n}
Charged(c, n) == {Of(m) : m \in {x \in First(c, n) \ c.skip : HasGateway(x)}}
Registered(v, c, n) ==
    /\ memberInstance' = [memberInstance EXCEPT ![v] =
            [e \in Eids |-> IF e \in First(c, n) THEN nextInstance[v] ELSE @[e]]]
    /\ charRun' = [charRun EXCEPT ![v] =
            [p \in Players |-> IF \E m \in First(c, n) : Of(m) = p /\ HasGateway(m)
                               THEN nextInstance[v] ELSE @[p]]]
SetRows(S, t, x) == [p \in Players |-> IF p \in S THEN [reentry[p] EXCEPT ![t] = x] ELSE reentry[p]]

\* The run's list is the party's.
HowOften(s) == [e \in Eids |-> Cardinality({i \in 1..Len(s) : s[i] = e})]

CreateCommit(v) ==
    /\ creating[v] # NotCreating /\ creating' = [creating EXCEPT ![v] = NotCreating]
    /\ LET c == creating[v]  t == c.template IN
       /\ Registered(v, c, Len(c.party))
       /\ reentry' = SetRows(Charged(c, Len(c.party)), t, hour + Reentrance)
       /\ instances' = [instances EXCEPT ![v] = With(@, nextInstance[v],
                [template |-> t, members |-> HowOften(c.party), boss |-> TRUE, made |-> hour])]
       /\ entered' = entered \cup {<<Of(m), t>> : m \in Range(c.party)}
    /\ expiries' = expiries \cup {[run |-> nextInstance[v], made |-> hour]}
    /\ nextInstance' = [nextInstance EXCEPT ![v] = @ + 1]
    /\ UNCHANGED <<scale, logins, online, groups, memberGroup, invites, nextGroup, hour, mishaps,
                   rewarded, twiceCleared, joinedTwice, uncleared>>

\* Mutant of RolledBack: the first of the committed members is forgotten.
RolledBackLess(c, n) == Charged(c, n) \ {Of(c.party[1])}
RolledBack(c, n) == Charged(c, n)

\* The n+1st member's row fails: the rows written so far are cleared, each by
\* a call that may fail as well, and an answer that was lost leaves the n+1st.
\* The members stay registered with a run that never comes to be.
CreateFails(v, n) ==
    /\ creating[v] # NotCreating /\ creating' = [creating EXCEPT ![v] = NotCreating]
    /\ LET c == creating[v]  t == c.template IN
       /\ n < Len(c.party) /\ c.party[n + 1] \notin c.skip
       /\ Registered(v, c, n)
       /\ \E kept \in SUBSET Charged(c, n + 1) :
            /\ reentry' = [p \in Players |->
                 IF p \in kept \cup (Charged(c, n) \ RolledBack(c, n))
                 THEN [reentry[p] EXCEPT ![t] = hour + Reentrance]
                 ELSE IF p \in Charged(c, n) THEN [reentry[p] EXCEPT ![t] = 0] ELSE reentry[p]]
            /\ uncleared' = (uncleared \/ kept # {})
    /\ Mishap
    /\ nextInstance' = [nextInstance EXCEPT ![v] = @ + 1]
    /\ UNCHANGED <<scale, logins, online, groups, memberGroup, invites, nextGroup, instances, expiries, hour,
                   entered, rewarded, twiceCleared, joinedTwice>>

-----------------------------------------------------------------------------
(* The life of a run                                                       *)

\* on_kill.lua calls instance.on_boss_kill on the killer's VM v; the run is in
\* w's tables.  The boss is despawned in any case.
BossKilled(v, w, r) ==
    /\ creating[v] = NotCreating /\ r \in DOMAIN instances[w] /\ instances[w][r].boss
    /\ w # v => creating[w] = NotCreating
    /\ instances' = [instances EXCEPT ![w][r].boss = FALSE]
    /\ LET run == instances[w][r]
           paid == IF v = w THEN {Of(m) : m \in {x \in Eids : run.members[x] > 0 /\ HasGateway(x)}} ELSE {} IN
       /\ rewarded' = [p \in Players |->
            IF p \in paid THEN [rewarded[p] EXCEPT ![run.template] = hour + Reentrance] ELSE rewarded[p]]
       /\ twiceCleared' = (twiceCleared \/ \E p \in paid : rewarded[p][run.template] > hour)
    /\ UNCHANGED <<scale, logins, online, groups, memberGroup, invites, nextGroup, memberInstance, charRun,
                   nextInstance, creating, reentry, expiries, hour, mishaps, entered, joinedTwice, uncleared>>

\* instance.reset: the fee, then the row, then charRun.  Without an answer the
\* fee is refunded.  Paying ends the cooldown.
Reset(v, e, t) ==
    /\ Free(v, e)
    /\ ~(InRun(v, Of(e), t) /\ memberInstance[v][e] = charRun[v][Of(e)])
    /\ reentry' = [reentry EXCEPT ![Of(e)][t] = 0]
    /\ rewarded' = [rewarded EXCEPT ![Of(e)][t] = 0]
    /\ entered' = entered \ {<<Of(e), t>>}
    /\ \/ charRun' = [charRun EXCEPT ![v][Of(e)] = 0] /\ UNCHANGED mishaps
       \/ Mishap /\ UNCHANGED charRun
    /\ UNCHANGED <<scale, logins, online, groups, memberGroup, invites, nextGroup, instances, memberInstance,
                   nextInstance, creating, expiries, hour, twiceCleared, joinedTwice, uncleared>>

\* on_instance_expire on whichever VM the worker gets.
Expire(v, x) ==
    /\ creating[v] = NotCreating /\ x \in expiries /\ hour >= x.made + Lifetime
    /\ expiries' = expiries \ {x}
    /\ IF x.run \in DOMAIN instances[v] /\ instances[v][x.run].made = x.made
       THEN /\ LeaveRuns(v, {e \in Eids : instances[v][x.run].members[e] > 0}, DOMAIN instances[v] \ {x.run})
            /\ charRun' = [charRun EXCEPT ![v] = [p \in Players |-> IF @[p] = x.run THEN 0 ELSE @[p]]]
       ELSE UNCHANGED <<instances, memberInstance, charRun>>
    /\ UNCHANGED <<scale, logins, online, groups, memberGroup, invites, nextGroup, nextInstance, creating,
                   reentry, hour, mishaps, ghosts>>

-----------------------------------------------------------------------------

Next ==
    \/ \E p \in Players : Logout(p) \/ Login(p)
    \/ Tick
    \/ \E v \in scale.vms :
        \/ Reload(v) \/ CreateCommit(v) \/ \E n \in 0..MaxMembers : CreateFails(v, n)
        \/ \E x \in expiries : Expire(v, x)
        \/ \E w \in scale.vms : \E r \in DOMAIN instances[w] : BossKilled(v, w, r)
        \/ \E p \in Players :
            \/ InstanceLeave(v, Live(p)) \/ Accept(v, Live(p)) \/ GroupLeave(v, Live(p))
            \/ \E q \in Players : Invite(v, Live(p), Live(q))
            \/ \E t \in scale.templates :
                \/ Rejoin(v, Live(p), t) \/ CreateCheck(v, Live(p), t) \/ Reset(v, Live(p), t)

Spec == Init /\ [][Next]_vars

-----------------------------------------------------------------------------
\* Whatever handlers, logouts, reloads and expiries come in between, a pointer
\* leads to a group or run whose roster has the entity, and a leader is in its
\* group.  (Rosters may hold more: entities that are gone or have moved on.)
PointersSound ==
    \A v \in PartyVms :
        /\ \A e \in Eids : LET g == memberGroup[v][e]  r == memberInstance[v][e] IN
             /\ g # 0 => g \in DOMAIN groups[v] /\ e \in Range(groups[v][g].members)
             /\ r \in DOMAIN instances[v] => instances[v][r].members[e] > 0
        /\ \A g \in DOMAIN groups[v] : groups[v][g].leader \in Range(groups[v][g].members)

Twice(s) == \E i, j \in DOMAIN s : i # j /\ s[i] = s[j]
\* Nobody is in two groups, or twice in one group or run, where a boss would
\* pay twice; unless an invite was accepted by one who was in a group already,
\* which group.accept does not check (group.lua:188).
RostersApart ==
    ~joinedTwice => \A v \in PartyVms :
        /\ \A g \in DOMAIN groups[v] : ~Twice(groups[v][g].members)
        /\ \A g, h \in DOMAIN groups[v] :
              g # h => Range(groups[v][g].members) \cap Range(groups[v][h].members) = {}
        /\ \A r \in DOMAIN instances[v] : \A e \in Eids : instances[v][r].members[e] <= 1

\* A create that fails half way charges nobody: who is on cooldown was in a
\* run, unless an answer or a rollback was lost (instance.lua:349).
ChargedForEntry ==
    ~uncleared => \A p \in Players, t \in Templates : OnCooldown(p, t) => <<p, t>> \in entered

\* "18h cooldown between full clears" (inst_300320000_beshmundir.lua:20), with
\* a run that lives for 2h: nobody is rewarded again before the cooldown since
\* the last clear is over, but by paying for a reset or after a reload.
CooldownBetweenClears == ~twiceCleared
=============================================================================
