------------------------------- MODULE Combat -------------------------------
(***************************************************************************)
(* Entities under combat (internal/ecs/world.go, the combat.*, entity.*    *)
(* and world.* calls of internal/luahost/bridge.go) and the scripts that   *)
(* drive them: CM_ATTACK, on_entity_killed, CM_REVIVE, CM_ENTER_WORLD,     *)
(* on_tick with its regeneration, DoTs and patrols.                        *)
(*                                                                         *)
(* A player's packets are handled one after the other on a goroutine of    *)
(* its own, the tick on another, each in a VM of its own.  The ECS locks   *)
(* for one call, so every call that reads or writes shared state is a      *)
(* step: a handler's read and the write it leads to are two.               *)
(*                                                                         *)
(* Damage and healing are one point; a distance is one of two places; the  *)
(* rest of a buff counts down where the code compares with the tick.       *)
(***************************************************************************)
EXTENDS Integers, FiniteSets

CONSTANTS
    Player, Npc,  \* the entities: of sessions, and those spawn_npc may return
    Group,        \* the players grouped together
    Leaver,       \* the players whose session may end
    Home, Far,    \* two places out of each other's range
    MaxHP,        \* a player's max_hp
    MaxLevel,     \* the top of the EXP table: one award is a level
    Duration,     \* ticks a buff lasts
    RegenEvery,   \* REGEN_INTERVAL
    MaxDots,      \* bound on the DoTs ever applied
    MaxPackets    \* bound on the packets that may come again and again

VARIABLES
    alive,    \* World.alive; a player in it has its PlayerComp
    fresh,    \* NPC ids not given out yet
    place,    \* World.Positions, Nowhere without the component
    hp,       \* the stat, 0 when absent
    ready,    \* players whose max_hp is set
    dead,     \* entities with the dead stat
    level,    \* the stat "level" of players
    dbLevel,  \* the level aion_AddExpUser keeps
    buffs,    \* World.Buffs: sets of [id, left]; id 0 is the buff, others DoTs
    nextDot,  \* nextDotID
    beat,     \* the tick modulo RegenEvery
    th,       \* per goroutine, the call it is at and its locals
    hits,     \* how often each DoT has hurt
    looted,   \* [killer, npc]: drops granted
    sent      \* packets handled so far

ecs   == <<alive, fresh, place, hp, ready, dead, level>>
vars  == <<ecs, dbLevel, buffs, nextDot, beat, th, hits, looted, sent>>

Ticker  == "tick"
Thread  == Player \cup {Ticker}
Entity  == Player \cup Npc
Nowhere == "nowhere"
NoOne   == "none"
Dot     == 1..MaxDots
Kills   == Player \X Npc
Npcs    == alive \cap Npc
Players == alive \cap Player

ASSUME CombatAssumption ==
    /\ Player \cap Npc = {} /\ Ticker \notin Player /\ Group \subseteq Player
    /\ MaxHP \in Nat \ {0} /\ MaxLevel \in Nat \ {0}
    /\ Duration \in Nat /\ RegenEvery \in Nat \ {0} /\ MaxDots \in Nat

Idle == [at |-> "idle", on |-> NoOne, seen |-> 0, rest |-> {}, dots |-> {}, buff |-> [id |-> 0, left |-> 0]]

TypeOK ==
    /\ alive \subseteq Entity /\ fresh \subseteq Npc /\ ready \subseteq Player /\ dead \subseteq Entity
    /\ place \in [Entity -> {Home, Far, Nowhere}]
    /\ hp \in [Entity -> 0..MaxHP]
    /\ level \in [Player -> 0..MaxLevel] /\ dbLevel \in [Player -> 1..MaxLevel]
    /\ \A e \in Entity : \A b \in buffs[e] : b.id \in 0..MaxDots /\ b.left \in 0..Duration
    /\ nextDot \in 1..MaxDots + 1 /\ beat \in 0..RegenEvery - 1
    /\ hits \in [Dot -> Nat] /\ looted \in [Kills -> Nat]

Init == /\ alive = Player /\ fresh = Npc /\ place = [e \in Entity |-> Nowhere]
        /\ hp = [e \in Entity |-> 0] /\ ready = {} /\ dead = {}
        /\ level = [p \in Player |-> 0] /\ dbLevel = [p \in Player |-> 1]
        /\ buffs = [e \in Entity |-> {}] /\ nextDot = 1 /\ beat = 0
        /\ th = [t \in Thread |-> Idle]
        /\ hits = [d \in Dot |-> 0]
        /\ looted = [k \in Kills |-> 0] /\ sent = 0

-----------------------------------------------------------------------------
(* The ECS and the goroutines.                                             *)

At(t, s)      == th[t].at = s
Goes(t, s)    == th' = [th EXCEPT ![t].at = s]
GoesIdle(t)   == th' = [th EXCEPT ![t] = Idle]
InRange(e, f) == e # f /\ place[e] # Nowhere /\ place[f] = place[e]
Near(e)       == {f \in Entity : InRange(e, f)}
SetHP(e, n)   == hp' = [hp EXCEPT ![e] = n]
Less(n)       == IF n > 0 THEN n - 1 ELSE 0

\* One point, capped at max_hp.
More(n) == IF n < MaxHP THEN n + 1 ELSE MaxHP

\* get_gateway_id, and the lookup by a session's id.
HasSession(e) == e \in Players

\* DestroyEntity: every component goes.
Destroy(e) ==
    /\ alive' = alive \ {e} /\ ready' = ready \ {e} /\ dead' = dead \ {e}
    /\ place' = [place EXCEPT ![e] = Nowhere]
    /\ SetHP(e, 0)
    /\ level' = [p \in Player |-> IF p = e THEN 0 ELSE level[p]]
    /\ buffs' = [buffs EXCEPT ![e] = {}]

\* A session ends under whatever its packet's handler is doing.
Leave(p) == /\ p \in alive \cap Leaver /\ Destroy(p)
            /\ UNCHANGED <<fresh, dbLevel, nextDot, beat, th, hits, looted, sent>>

\* A packet is handled only while its session has an entity.
Serves(p) == At(p, "idle") /\ p \in alive

\* ... and counts, unless it can come once only.
Begins(p) == Serves(p) /\ p \in ready /\ sent < MaxPackets /\ sent' = sent + 1

-----------------------------------------------------------------------------
(* CM_ENTER_WORLD, CM_MOVE, CM_REVIVE, spawn_npc.                          *)

EnterPlace(p) == /\ Serves(p) /\ p \notin ready
                 /\ place' = [place EXCEPT ![p] = Home] /\ Goes(p, "enter")
                 /\ UNCHANGED <<alive, fresh, hp, ready, dead, level, dbLevel, buffs, nextDot, beat,
                                hits, looted, sent>>

EnterStats(p) == /\ At(p, "enter") /\ GoesIdle(p)
                 /\ SetHP(p, MaxHP) /\ ready' = ready \cup {p}
                 /\ level' = [level EXCEPT ![p] = dbLevel[p]]
                 /\ UNCHANGED <<alive, fresh, place, dead, dbLevel, buffs, nextDot, beat, hits,
                                looted, sent>>

\* set_position.
Move(p) == /\ Begins(p)
           /\ \E x \in {Home, Far} : place' = [place EXCEPT ![p] = x]
           /\ UNCHANGED <<alive, fresh, hp, ready, dead, level, dbLevel, buffs, nextDot, beat, th,
                          hits, looted>>

Revive(p) == /\ Begins(p) /\ p \in dead /\ Goes(p, "revive")
             /\ UNCHANGED <<ecs, dbLevel, buffs, nextDot, beat, hits, looted>>

\* A quarter of max_hp, one at least.
ReviveHP(p) == /\ At(p, "revive") /\ Goes(p, "stand") /\ SetHP(p, 1)
               /\ UNCHANGED <<alive, fresh, place, ready, dead, level, dbLevel, buffs, nextDot, beat,
                              hits, looted, sent>>

\* dead is cleared, then the bind point, when there is one, is the position.
Stand(p) == /\ At(p, "stand") /\ GoesIdle(p) /\ dead' = dead \ {p}
            /\ place' \in {place, [place EXCEPT ![p] = Home]}
            /\ UNCHANGED <<alive, fresh, hp, ready, level, dbLevel, buffs, nextDot, beat, hits,
                           looted, sent>>

\* An id of the counter, given once.
NewEntity(n) == n \in fresh /\ fresh' = fresh \ {n} /\ alive' = alive \cup {n}

\* NewEntity and SetNpc: no hp is set, so an NPC falls at the first hit.
Spawn(p, n) == /\ Serves(p) /\ p \in ready /\ NewEntity(n)
               /\ th' = [th EXCEPT ![p] = [Idle EXCEPT !.at = "spawn", !.on = n]]
               /\ UNCHANGED <<place, hp, ready, dead, level, dbLevel, buffs, nextDot, beat, hits,
                              looted, sent>>

SpawnPlace(p) == /\ At(p, "spawn") /\ GoesIdle(p)
                 /\ place' = [place EXCEPT ![th[p].on] = Home]
                 /\ UNCHANGED <<alive, fresh, hp, ready, dead, level, dbLevel, buffs, nextDot, beat,
                                hits, looted, sent>>

-----------------------------------------------------------------------------
(* combat.*                                                                *)

\* CM_ATTACK: in range, and the hit check passes.
Attack(p, v) == /\ Begins(p) /\ v \in Near(p)
                /\ th' = [th EXCEPT ![p] = [Idle EXCEPT !.at = "hit", !.on = v]]
                /\ UNCHANGED <<ecs, dbLevel, buffs, nextDot, beat, hits, looted>>

\* deal_damage reads ...
HitRead(p) == /\ At(p, "hit")
              /\ th' = [th EXCEPT ![p].at = "damage", ![p].seen = hp[th[p].on]]
              /\ UNCHANGED <<ecs, dbLevel, buffs, nextDot, beat, hits, looted, sent>>

\* ... and writes; at 0 on_entity_killed follows: it asks whether the victim
\* is a player, and an NPC's killer with a session rolls its loot.
HitWrite(p) ==
    /\ At(p, "damage")
    /\ LET v == th[p].on IN
       /\ SetHP(v, Less(th[p].seen))
       /\ \/ Less(th[p].seen) > 0 /\ GoesIdle(p)
          \/ Less(th[p].seen) = 0 /\ Goes(p, IF HasSession(v) THEN "mark" ELSE "loot")
    /\ UNCHANGED <<alive, fresh, place, ready, dead, level, dbLevel, buffs, nextDot, beat, hits,
                   looted, sent>>

\* heal, of a script on a player: capped at max_hp.
HealRead(p, v) == /\ Begins(p) /\ v \in ready
                  /\ th' = [th EXCEPT ![p] = [Idle EXCEPT !.at = "heal", !.on = v, !.seen = hp[v]]]
                  /\ UNCHANGED <<ecs, dbLevel, buffs, nextDot, beat, hits, looted>>

HealWrite(p) == /\ At(p, "heal") /\ GoesIdle(p) /\ SetHP(th[p].on, More(th[p].seen))
                /\ UNCHANGED <<alive, fresh, place, ready, dead, level, dbLevel, buffs, nextDot, beat,
                               hits, looted, sent>>

\* apply_buff and apply_dot take the expiry from the tick of now; a DoT's id is
\* never given again.
Cast(p, v) == /\ Begins(p) /\ v \in Near(p)
              /\ \/ nextDot \in Dot /\ nextDot' = nextDot + 1
                    /\ th' = [th EXCEPT ![p] = [Idle EXCEPT !.at = "cast", !.on = v,
                                !.buff = [id |-> nextDot, left |-> Duration]]]
                 \/ UNCHANGED nextDot
                    /\ th' = [th EXCEPT ![p] = [Idle EXCEPT !.at = "cast", !.on = v,
                                !.buff = [id |-> 0, left |-> Duration]]]
              /\ UNCHANGED <<ecs, dbLevel, buffs, beat, hits, looted>>

\* AddBuff: an entry with the id is replaced.
Entered(list, b) == {c \in list : c.id # b.id} \cup {b}

CastAdd(p) == /\ At(p, "cast") /\ GoesIdle(p)
              /\ buffs' = [buffs EXCEPT ![th[p].on] = Entered(@, th[p].buff)]
              /\ UNCHANGED <<ecs, dbLevel, nextDot, beat, hits, looted, sent>>

-----------------------------------------------------------------------------
(* on_entity_killed.                                                       *)

\* A player: dead, then hp; its AP is the wallet's.
Mark(p) == /\ At(p, "mark") /\ Goes(p, "zero") /\ dead' = dead \cup {th[p].on}
           /\ UNCHANGED <<alive, fresh, place, hp, ready, level, dbLevel, buffs, nextDot, beat, hits,
                          looted, sent>>

Zero(p) == /\ At(p, "zero") /\ GoesIdle(p) /\ SetHP(th[p].on, 0)
           /\ UNCHANGED <<alive, fresh, place, ready, dead, level, dbLevel, buffs, nextDot, beat,
                          hits, looted, sent>>

\* Mutant of HasLoot: the template outlives the entity.
HasLootAlways(v) == v \in Npc
\* An NPC's template is 0 once it is despawned: no loot then.
HasLoot(v) == v \in Npcs


Loot(p) == /\ At(p, "loot") /\ Goes(p, "despawn")
           /\ looted' = IF HasSession(p) /\ HasLoot(th[p].on)
                        THEN [looted EXCEPT ![<<p, th[p].on>>] = @ + 1] ELSE looted
           /\ UNCHANGED <<ecs, dbLevel, buffs, nextDot, beat, hits, sent>>

Despawn(p) == /\ At(p, "despawn") /\ Goes(p, "share") /\ Destroy(th[p].on)
              /\ UNCHANGED <<fresh, dbLevel, nextDot, beat, hits, looted, sent>>

\* The members near the victim, whose position went with the despawn.
ShareList(p) == {p} \cup {m \in Group : p \in Group /\ m \in Near(th[p].on)}

\* Only for a killer who still has a session; the victim was no player when the
\* hit had been counted (one whose session ended just then pays like an NPC).
Share(p) ==
    /\ At(p, "share")
    /\ \/ HasSession(p) /\ th' = [th EXCEPT ![p].at = "award", ![p].rest = ShareList(p)]
       \/ ~HasSession(p) /\ GoesIdle(p)
    /\ UNCHANGED <<ecs, dbLevel, buffs, nextDot, beat, hits, looted, sent>>

NextMember(p, rest) ==
    th' = [th EXCEPT ![p] = IF rest = {} THEN Idle ELSE [@ EXCEPT !.at = "award", !.rest = rest, !.seen = 0]]

\* aion_AddExpUser.
Experience(m) == /\ dbLevel' = [dbLevel EXCEPT ![m] = IF @ < MaxLevel THEN @ + 1 ELSE @]
                 /\ UNCHANGED level

\* add_exp for a member with a session and a character; on an error the level
\* is the one the ECS has, and nothing more happens.
Award(p, m) ==
    /\ At(p, "award") /\ m \in th[p].rest
    /\ \/ /\ HasSession(m) /\ m \in ready /\ Experience(m)
          /\ IF dbLevel'[m] > level[m]
             THEN th' = [th EXCEPT ![p].at = "raise", ![p].seen = dbLevel'[m],
                                   ![p].rest = @ \ {m}, ![p].on = m]
             ELSE NextMember(p, th[p].rest \ {m})
       \/ NextMember(p, th[p].rest \ {m}) /\ UNCHANGED <<dbLevel, level>>
    /\ UNCHANGED <<alive, fresh, place, hp, ready, dead, buffs, nextDot, beat, hits, looted, sent>>

\* A higher level than the one read before becomes the stat, whoever got there
\* first.
Raise(p) == /\ At(p, "raise") /\ NextMember(p, th[p].rest)
            /\ level' = [level EXCEPT ![th[p].on] = th[p].seen]
            /\ UNCHANGED <<alive, fresh, place, hp, ready, dead, dbLevel, buffs, nextDot, beat, hits,
                           looted, sent>>

-----------------------------------------------------------------------------
(* The game loop: on_tick over a snapshot of the players, then the NPCs.   *)

T == th[Ticker]
Elapsed(b) == [b EXCEPT !.left = Less(@)]

TickBegin ==
    /\ At(Ticker, "idle")
    /\ beat' = (beat + 1) % RegenEvery
    /\ buffs' = [e \in Entity |-> {Elapsed(b) : b \in buffs[e]}]
    /\ th' = [t \in Thread |-> IF t = Ticker THEN [Idle EXCEPT !.at = "players", !.rest = Players]
                               ELSE [th[t] EXCEPT !.buff = Elapsed(@)]]
    /\ UNCHANGED <<ecs, dbLevel, nextDot, hits, looted, sent>>

\* Mutant of Regenerates: who has no hp is skipped as dead.
RegeneratesLiving(p) == beat = 0 /\ p \in ready \ dead /\ 0 < hp[p] /\ hp[p] < MaxHP

\* The seconds' regeneration of a session that is not dead and has its stats.
Regenerates(p) == beat = 0 /\ p \in ready \ dead /\ hp[p] < MaxHP

TickPlayer(p) ==
    /\ At(Ticker, "players") /\ p \in T.rest
    /\ th' = [th EXCEPT ![Ticker].rest = @ \ {p}, ![Ticker].on = p, ![Ticker].seen = hp[p],
                        ![Ticker].at = IF Regenerates(p) THEN "regen" ELSE "purge"]
    /\ UNCHANGED <<ecs, dbLevel, buffs, nextDot, beat, hits, looted, sent>>

Regen == /\ At(Ticker, "regen") /\ Goes(Ticker, "purge") /\ SetHP(T.on, More(T.seen))
         /\ UNCHANGED <<alive, fresh, place, ready, dead, level, dbLevel, buffs, nextDot, beat, hits,
                        looted, sent>>

\* Mutant of Unexpired: nothing expires.
UnexpiredNone(list) == list

\* RemoveExpiredBuffs.
Unexpired(list) == {b \in list : b.left > 0}

\* The next player of the snapshot, or, when it was the last, the NPCs.
NextPlayer == [T EXCEPT !.at = "players", !.on = NoOne, !.seen = 0, !.dots = {}]

DotsOf(list) == {b.id : b \in list} \ {0}

\* purge_expired and get_buffs, a snapshot (what is added between the two calls
\* is as if added before them).
Purge == /\ At(Ticker, "purge")
         /\ buffs' = [buffs EXCEPT ![T.on] = Unexpired(@)]
         /\ LET ds == DotsOf(buffs'[T.on]) IN
            th' = [th EXCEPT ![Ticker] = IF ds = {} THEN NextPlayer
                                         ELSE [@ EXCEPT !.at = "dots", !.dots = ds]]
         /\ UNCHANGED <<ecs, dbLevel, nextDot, beat, hits, looted, sent>>

DotRead(d) == /\ At(Ticker, "dots") /\ d \in T.dots
              /\ th' = [th EXCEPT ![Ticker].at = "dot", ![Ticker].dots = @ \ {d}, ![Ticker].seen = hp[T.on]]
              /\ hits' = [hits EXCEPT ![d] = @ + 1]
              /\ UNCHANGED <<ecs, dbLevel, buffs, nextDot, beat, looted, sent>>

\* deal_damage; at 0 the rest of the snapshot is left.
DotWrite == /\ At(Ticker, "dot") /\ SetHP(T.on, Less(T.seen))
            /\ th' = [th EXCEPT ![Ticker] = IF Less(T.seen) = 0 THEN [@ EXCEPT !.at = "dotzero"]
                                            ELSE IF T.dots = {} THEN NextPlayer
                                            ELSE [@ EXCEPT !.at = "dots"]]
            /\ UNCHANGED <<alive, fresh, place, ready, dead, level, dbLevel, buffs, nextDot, beat,
                           hits, looted, sent>>

\* handle_dot_death: hp, then dead, or a despawn when the session is gone.
DotZero == /\ At(Ticker, "dotzero") /\ SetHP(T.on, 0)
           /\ Goes(Ticker, IF HasSession(T.on) THEN "dotmark" ELSE "dotdespawn")
           /\ UNCHANGED <<alive, fresh, place, ready, dead, level, dbLevel, buffs, nextDot, beat,
                          hits, looted, sent>>

DotMark == /\ At(Ticker, "dotmark") /\ th' = [th EXCEPT ![Ticker] = NextPlayer]
           /\ dead' = dead \cup {T.on}
           /\ UNCHANGED <<alive, fresh, place, hp, ready, level, dbLevel, buffs, nextDot, beat, hits,
                          looted, sent>>

DotDespawn == /\ At(Ticker, "dotdespawn") /\ th' = [th EXCEPT ![Ticker] = NextPlayer]
              /\ Destroy(T.on)
              /\ UNCHANGED <<fresh, dbLevel, nextDot, beat, hits, looted, sent>>

\* get_all_npcs.
NextNpc(rest) == th' = [th EXCEPT ![Ticker] = IF rest = {} THEN Idle
                                              ELSE [Idle EXCEPT !.at = "npcs", !.rest = rest]]

Herd == /\ At(Ticker, "players") /\ T.rest = {} /\ NextNpc(Npcs)
        /\ UNCHANGED <<ecs, dbLevel, buffs, nextDot, beat, hits, looted, sent>>

\* patrol.step, on the NPC's own ticks: the position of what the snapshot named.
Patrol(n) == /\ At(Ticker, "npcs") /\ n \in T.rest /\ NextNpc(T.rest \ {n})
             /\ \E x \in {Home, Far, place[n]} : place' = [place EXCEPT ![n] = x]
             /\ UNCHANGED <<alive, fresh, hp, ready, dead, level, dbLevel, buffs, nextDot, beat, hits,
                            looted, sent>>

-----------------------------------------------------------------------------

TickStep == \/ TickBegin \/ Regen \/ Purge \/ DotWrite \/ DotZero \/ DotMark \/ DotDespawn \/ Herd
            \/ \E p \in Player : TickPlayer(p)
            \/ \E d \in Dot : DotRead(d)
            \/ \E n \in Npc : Patrol(n)

\* What a handler that began does.
HandlerStep(p) == \/ EnterStats(p) \/ ReviveHP(p) \/ Stand(p) \/ SpawnPlace(p)
                  \/ HitRead(p) \/ HitWrite(p) \/ HealWrite(p) \/ CastAdd(p)
                  \/ Mark(p) \/ Zero(p) \/ Loot(p) \/ Despawn(p) \/ Share(p) \/ Raise(p)
                  \/ \E m \in Player : Award(p, m)

Packet(p) == \/ EnterPlace(p) \/ Move(p) \/ Revive(p)
             \/ \E n \in Npc : Spawn(p, n)
             \/ \E v \in Entity : Attack(p, v) \/ Cast(p, v) \/ HealRead(p, v)

Next == \/ TickStep
        \/ \E p \in Player : HandlerStep(p) \/ Packet(p) \/ Leave(p)

\* The ticker fires and a handler runs to its end; no client owes a packet.
Fairness == WF_vars(TickStep) /\ \A p \in Player : WF_vars(HandlerStep(p))

Spec     == Init /\ [][Next]_vars
FairSpec == Spec /\ Fairness

-----------------------------------------------------------------------------

\* A DoT hurts on at most as many ticks as it was cast for, whenever the tick
\* falls between taking the expiry and adding the entry (bridge.go:434-443).
DotHitsBounded == \A d \in Dot : hits[d] <= Duration

\* An entity has at most one entry of an id: a refresh replaces (world.go:192).
OneEntry == \A e \in Entity : \A b, c \in buffs[e] : b.id = c.id => b = c

\* No effect works twice or too long, whatever the tick and the handlers
\* interleave.
EffectsBounded == TypeOK /\ OneEntry /\ DotHitsBounded

\* The level the World shows is never ahead of the database's, in whatever
\* order the awards of several killers arrive.
LevelNotAhead == \A p \in Player : level[p] <= dbLevel[p]

\* A killer gets an NPC's loot once, even when its position or its stats come
\* back after the despawn (on_kill.lua:53-59).
LootOnce == \A k \in Kills : looted[k] <= 1

\* A kill that several handlers see pays no more than once, in experience or loot.
KillPaidOnce == LevelNotAhead /\ LootOnce

\* A player without hp and not marked dead does not stay so: regeneration
\* raises the hp or the one who killed marks it (on_tick.lua:49).
InLimbo(p) == p \in (alive \cap ready) \ dead /\ hp[p] = 0
NoLimbo == \A p \in Player : InLimbo(p) ~> ~InLimbo(p)

\* "Group kill = every member within 100 m of the victim" (on_kill.lua:103): the
\* members next to the NPC when its killer turns to it get their share.
GroupShares == [][\A p \in Player :
    At(p, "share") /\ th'[p].at = "award" /\ p \in Group =>
        {m \in Group \cap alive : place[m] = place[p]} \subseteq th'[p].rest]_vars
=============================================================================
