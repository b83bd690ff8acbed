---------------------------- MODULE CombatProofs ----------------------------
(***************************************************************************)
(* Proofs about Combat: a kill is paid once, and an effect works once a    *)
(* tick and no longer than it lasts, for any number of players, NPCs and   *)
(* DoTs and however their handlers and the tick interleave.                *)
(***************************************************************************)
EXTENDS Combat, TLAPS

Stages == {"idle", "enter", "revive", "stand", "spawn", "hit", "damage", "heal", "cast", "mark", "zero",
           "loot", "despawn", "share", "award", "raise", "players", "regen", "purge", "dots", "dot",
           "dotzero", "dotmark", "dotdespawn", "npcs"}

\* Where a goroutine has an entity at hand, and where it has read its hp.
Aimed == {"hit", "damage", "mark", "regen", "purge", "dots", "dot", "dotzero", "dotmark"}
Read  == {"damage", "heal", "regen", "dot"}

Effects == [id : 0..MaxDots, left : 0..Duration]
Locals  == [at : Stages, on : Entity \cup {NoOne}, seen : Nat, rest : SUBSET Entity, dots : SUBSET Dot,
            buff : Effects]

Typed ==
    /\ alive \subseteq Entity /\ fresh \subseteq Npc /\ ready \subseteq Player /\ dead \subseteq Entity
    /\ place \in [Entity -> {Home, Far, Nowhere}]
    /\ hp \in [Entity -> 0..MaxHP]
    /\ level \in [Player -> 0..MaxLevel] /\ dbLevel \in [Player -> 1..MaxLevel]
    /\ buffs \in [Entity -> SUBSET Effects]
    /\ nextDot \in 1..MaxDots + 1 /\ beat \in 0..RegenEvery - 1
    /\ hits \in [Dot -> Nat] /\ looted \in [Kills -> Nat]

Threads ==
    /\ th \in [Thread -> Locals]
    /\ \A t \in Thread : th[t].at \in Aimed => th[t].on \in Entity
    /\ \A t \in Thread : th[t].at \in Read => th[t].seen \in 0..MaxHP

\* An NPC that is alive is not given out again; its loot went to k once it is
\* gone, or while k is about to despawn it.
Spawned == fresh \cap alive = {}
LootInv ==
    \A k \in Player, n \in Npc :
        \/ looted[<<k, n>>] = 0
        \/ /\ looted[<<k, n>>] = 1 /\ n \notin fresh
           /\ n \in alive => th[k].at = "despawn" /\ th[k].on = n

\* A level that was read is not ahead of the database's, which never falls.
LevelInv ==
    /\ \A p \in Player : level[p] <= dbLevel[p]
    /\ \A t \in Player : th[t].at = "raise" => th[t].on \in Player /\ th[t].seen <= dbLevel[th[t].on]

\* The players' part of a tick, and who is still to be hurt in it by d.
Turn == {"regen", "purge", "dots", "dot", "dotzero", "dotmark", "dotdespawn"}
Pending(e, d) == \/ T.at \in Turn \cup {"players"} /\ e \in T.rest
                 \/ T.at \in {"regen", "purge"} /\ e = T.on
                 \/ T.at \in {"dots", "dot"} /\ d \in T.dots
TurnOnce == T.at \in Turn => T.on \notin T.rest

\* The id of a DoT is on its way to one entity, or on one entity, or gone.
Casting(p, d) == th[p].at = "cast" /\ th[p].buff.id = d
IdsGiven ==
    /\ \A e \in Entity : \A b \in buffs[e] : b.id < nextDot
    /\ \A d \in T.dots : d < nextDot
    /\ \A d \in Dot : \A p \in Player : Casting(p, d) => d < nextDot
    /\ \A d \in Dot : d >= nextDot => hits[d] = 0
CastOnce ==
    \A d \in Dot : \A p \in Player : Casting(p, d) =>
        /\ hits[d] = 0 /\ d \notin T.dots
        /\ \A e \in Entity : \A b \in buffs[e] : b.id # d
        /\ \A q \in Player : Casting(q, d) => q = p
OnOne ==
    /\ OneEntry
    /\ \A d \in Dot : \A e, f \in Entity : \A b \in buffs[e], c \in buffs[f] :
            b.id = d /\ c.id = d => e = f
    /\ T.at \in {"dots", "dot"} =>
            \A d \in T.dots : \A e \in Entity : \A b \in buffs[e] : b.id = d => e = T.on

\* A DoT has hurt as often as it has grown shorter, and once more when this
\* tick has hurt already.
HurtInv ==
    /\ DotHitsBounded
    /\ T.at \in {"dots", "dot"} => \A d \in T.dots : hits[d] < Duration
    /\ \A d \in Dot : \A e \in Entity : \A b \in buffs[e] : b.id = d =>
            /\ hits[d] + b.left <= Duration + 1
            /\ Pending(e, d) => hits[d] + b.left <= Duration

DotInv == TurnOnce /\ IdsGiven /\ CastOnce /\ OnOne /\ HurtInv

CombatInv == Typed /\ Threads /\ Spawned /\ LootInv /\ LevelInv /\ DotInv

-----------------------------------------------------------------------------
(* Types.                                                                  *)

\* The goroutine t goes on to r.
LEMMA ThreadMoves ==
    ASSUME Threads, NEW t \in Thread, NEW r \in Locals, th' = [th EXCEPT ![t] = r],
           r.at \in Aimed => r.on \in Entity, r.at \in Read => r.seen \in 0..MaxHP
    PROVE  Threads' /\ th'[t] = r /\ \A u \in Thread \ {t} : th'[u] = th[u]
<1>1. th'[t] = r /\ \A u \in Thread \ {t} : th'[u] = th[u]
  BY DEF Threads
<1>2. th' \in [Thread -> Locals]
  BY DEF Threads
<1> QED BY <1>1, <1>2 DEF Threads

LEMMA IdleIs == /\ Idle \in Locals /\ Idle.at = "idle" /\ Idle.on = NoOne /\ Idle.seen = 0
                /\ Idle.rest = {} /\ Idle.dots = {} /\ Idle.buff = [id |-> 0, left |-> 0]
<1>1. [id |-> 0, left |-> 0] \in Effects
  BY CombatAssumption DEF Effects
<1>2. ASSUME NEW b \in Effects
      PROVE  [at |-> "idle", on |-> NoOne, seen |-> 0, rest |-> {}, dots |-> {}, buff |-> b] \in Locals
  BY DEF Locals, Stages
<1>3. Idle \in Locals
  BY <1>1, <1>2 DEF Idle
<1> QED BY <1>3 DEF Idle

\* What a goroutine may go on with.
LEMMA GoesTo ==
    ASSUME NEW q \in Locals, NEW s \in Stages
    PROVE  \E r \in Locals : /\ r = [q EXCEPT !.at = s] /\ r.at = s /\ r.on = q.on /\ r.seen = q.seen
                             /\ r.rest = q.rest /\ r.dots = q.dots /\ r.buff = q.buff
<1>1. [q EXCEPT !.at = s] \in Locals
  BY DEF Locals
<1>2. /\ [q EXCEPT !.at = s].at = s /\ [q EXCEPT !.at = s].on = q.on /\ [q EXCEPT !.at = s].seen = q.seen
      /\ [q EXCEPT !.at = s].rest = q.rest /\ [q EXCEPT !.at = s].dots = q.dots
      /\ [q EXCEPT !.at = s].buff = q.buff
  BY DEF Locals
<1> QED BY <1>1, <1>2

LEMMA TurnsTo ==
    ASSUME NEW q \in Locals, NEW s \in Stages, NEW v \in Entity \cup {NoOne}, NEW n \in Nat
    PROVE  \E r \in Locals : /\ r = [q EXCEPT !.at = s, !.on = v, !.seen = n]
                             /\ r.at = s /\ r.on = v /\ r.seen = n
                             /\ r.rest = q.rest /\ r.dots = q.dots /\ r.buff = q.buff
<1>1. [q EXCEPT !.at = s, !.on = v, !.seen = n] \in Locals
  BY DEF Locals
<1> DEFINE r == [q EXCEPT !.at = s, !.on = v, !.seen = n]
<1>2. r.at = s /\ r.on = v /\ r.seen = n /\ r.rest = q.rest /\ r.dots = q.dots /\ r.buff = q.buff
  BY DEF Locals
<1> QED BY <1>1, <1>2

LEMMA Points == /\ \A n \in 0..MaxHP : Less(n) \in 0..MaxHP /\ More(n) \in 0..MaxHP
                /\ 0 \in 0..MaxHP /\ 1 \in 0..MaxHP /\ MaxHP \in 0..MaxHP
BY CombatAssumption DEF Less, More

LEMMA ElapsedIs ==
    ASSUME NEW b \in Effects
    PROVE  /\ Elapsed(b) \in Effects /\ Elapsed(b).id = b.id /\ Elapsed(b).left = Less(b.left)
<1>1. Less(b.left) \in 0..Duration
  BY CombatAssumption DEF Effects, Less
<1>2. ASSUME NEW n \in 0..Duration
      PROVE  [b EXCEPT !.left = n] \in Effects /\ [b EXCEPT !.left = n].id = b.id
             /\ [b EXCEPT !.left = n].left = n
  BY DEF Effects
<1> QED BY <1>1, <1>2 DEF Elapsed

\* What every step of a player's handler changes is typed, part by part.
LEMMA HpTyped ==
    ASSUME Typed, NEW e, NEW n \in 0..MaxHP, SetHP(e, n)
    PROVE  hp' \in [Entity -> 0..MaxHP]
BY DEF Typed, SetHP

LEMMA PlaceTyped ==
    ASSUME Typed, NEW e, NEW x \in {Home, Far, Nowhere}, place' = [place EXCEPT ![e] = x]
    PROVE  place' \in [Entity -> {Home, Far, Nowhere}]
BY DEF Typed

LEMMA DestroyTyped ==
    ASSUME Typed, NEW e, Destroy(e), UNCHANGED <<fresh, dbLevel, nextDot, beat, hits, looted>>
    PROVE  Typed'
<1>1. hp' \in [Entity -> 0..MaxHP]
  BY HpTyped, Points DEF Destroy
<1>2. place' \in [Entity -> {Home, Far, Nowhere}]
  BY PlaceTyped DEF Destroy
<1>3. level' \in [Player -> 0..MaxLevel]
  BY CombatAssumption DEF Typed, Destroy
<1>4. buffs' \in [Entity -> SUBSET Effects]
  BY DEF Typed, Destroy
<1>5. alive' \subseteq Entity /\ ready' \subseteq Player /\ dead' \subseteq Entity
  BY DEF Typed, Destroy
<1> QED BY <1>1, <1>2, <1>3, <1>4, <1>5 DEF Typed

-----------------------------------------------------------------------------
(* Steps that leave a part alone.                                          *)

LEMMA TickerApart == Ticker \in Thread /\ \A p \in Player : p \in Thread /\ p # Ticker
BY CombatAssumption DEF Thread

\* Nobody ceases to be about to despawn.
LEMMA LootKept ==
    ASSUME LootInv, Spawned, UNCHANGED <<alive, fresh, looted>>,
           \A k \in Player : th[k].at = "despawn" => th'[k].at = "despawn" /\ th'[k].on = th[k].on
    PROVE  LootInv' /\ Spawned'
BY DEF LootInv, Spawned

\* Nobody has read a level.
LEMMA LevelKept ==
    ASSUME LevelInv, UNCHANGED <<level, dbLevel>>,
           \A t \in Player : th'[t].at = "raise" => th'[t] = th[t]
    PROVE  LevelInv'
<1>1. \A p \in Player : level'[p] <= dbLevel'[p]
  BY DEF LevelInv
<1>2. ASSUME NEW t \in Player, th'[t].at = "raise"
      PROVE  th'[t].on \in Player /\ th'[t].seen <= dbLevel'[th'[t].on]
  BY <1>2 DEF LevelInv
<1> QED BY <1>1, <1>2 DEF LevelInv

\* The ticker does not move, and nobody begins to cast.
LEMMA DotKept ==
    ASSUME DotInv, UNCHANGED <<buffs, hits, nextDot>>, T' = T,
           \A p \in Player : th'[p].at = "cast" => th'[p] = th[p]
    PROVE  DotInv'
<1>1. TurnOnce'
  BY DEF DotInv, TurnOnce
<1>2. \A d \in Dot : \A p \in Player : Casting(p, d)' => Casting(p, d)
  BY DEF Casting
<1>3. IdsGiven'
  BY <1>2 DEF DotInv, IdsGiven
<1>4. CastOnce'
  BY <1>2 DEF DotInv, CastOnce
<1>5. OnOne'
  BY DEF DotInv, OnOne, OneEntry
<1>6. \A d \in Dot : \A e \in Entity : Pending(e, d)' <=> Pending(e, d)
  BY DEF Pending
<1>7. HurtInv'
  BY <1>6 DEF DotInv, HurtInv, DotHitsBounded
<1> QED BY <1>1, <1>3, <1>4, <1>5, <1>7 DEF DotInv

\* A player's handler goes on, and changes neither a level nor an effect, nor
\* who is alive.
LEMMA HandlerQuiet ==
    ASSUME CombatInv, Typed', NEW p \in Player, NEW r \in Locals, th' = [th EXCEPT ![p] = r],
           th[p].at # "despawn", r.at \notin {"raise", "cast"},
           r.at \in Aimed => r.on \in Entity, r.at \in Read => r.seen \in 0..MaxHP,
           UNCHANGED <<alive, fresh, looted, level, dbLevel, buffs, hits, nextDot>>
    PROVE  CombatInv'
<1>1. p \in Thread /\ Ticker \in Thread /\ p # Ticker /\ \A q \in Player : q \in Thread
  BY TickerApart
<1>2. Threads' /\ th'[p] = r /\ \A u \in Thread \ {p} : th'[u] = th[u]
  BY <1>1, ThreadMoves DEF CombatInv
<1>3. T' = T
  BY <1>1, <1>2 DEF T
<1>4. \A q \in Player : th'[q].at \in {"cast", "raise"} => th'[q] = th[q]
  BY <1>1, <1>2
<1>5. \A k \in Player : th[k].at = "despawn" => th'[k].at = "despawn" /\ th'[k].on = th[k].on
  BY <1>1, <1>2
<1>6. LootInv' /\ Spawned'
  BY <1>5, LootKept DEF CombatInv
<1>7. LevelInv'
  BY <1>4, LevelKept DEF CombatInv
<1>8. DotInv'
  BY <1>3, <1>4, DotKept DEF CombatInv
<1> QED BY <1>2, <1>6, <1>7, <1>8 DEF CombatInv

\* ... the same where the goroutines stay where they are.
LEMMA AllQuiet ==
    ASSUME CombatInv, Typed', UNCHANGED <<alive, fresh, looted, level, dbLevel, buffs, hits, nextDot, th>>
    PROVE  CombatInv'
<1>1. Threads'
  BY DEF CombatInv, Threads
<1>2. T' = T
  BY DEF T
<1>3. LootInv' /\ Spawned'
  BY LootKept DEF CombatInv
<1>4. LevelInv'
  BY LevelKept DEF CombatInv
<1>5. DotInv'
  BY <1>2, DotKept DEF CombatInv
<1> QED BY <1>1, <1>3, <1>4, <1>5 DEF CombatInv

-----------------------------------------------------------------------------
(* Steps of a handler that change places and hp.                           *)

LEMMA EnterPlaceStep == ASSUME CombatInv, NEW p \in Player, EnterPlace(p) PROVE CombatInv'
<1>1. th[p] \in Locals /\ th[p].at = "idle" /\ Typed
  BY TickerApart DEF CombatInv, Threads, EnterPlace, Serves, At
<1>2. PICK r \in Locals : r = [th[p] EXCEPT !.at = "enter"] /\ r.at = "enter"
  <2>1. "enter" \in Stages
    BY DEF Stages
  <2> QED BY <1>1, <2>1, GoesTo
<1>3. th' = [th EXCEPT ![p] = r]
  BY <1>2 DEF EnterPlace, Goes
<1>4. Typed'
  <2>1. place' \in [Entity -> {Home, Far, Nowhere}]
    BY <1>1, PlaceTyped DEF EnterPlace
  <2> QED BY <1>1, <2>1 DEF EnterPlace, Typed
<1>5. UNCHANGED <<alive, fresh, looted, level, dbLevel, buffs, hits, nextDot>>
  BY DEF EnterPlace
<1>6. r.at \notin Aimed /\ r.at \notin Read
  BY <1>2 DEF Aimed, Read
<1> QED BY <1>1, <1>2, <1>3, <1>4, <1>5, <1>6, HandlerQuiet

LEMMA MoveStep == ASSUME CombatInv, NEW p \in Player, Move(p) PROVE CombatInv'
<1>1. Typed'
  <2>1. place' \in [Entity -> {Home, Far, Nowhere}]
    BY PlaceTyped DEF Move, CombatInv
  <2> QED BY <2>1 DEF Move, Typed, CombatInv
<1> QED BY <1>1, AllQuiet DEF Move

\* The handler goes on to a stage where nothing has been read.
LEMMA GoesQuiet ==
    ASSUME CombatInv, Typed', NEW p \in Player, NEW s \in Stages \ ({"raise", "cast"} \cup Read),
           Goes(p, s), s \in Aimed => th[p].on \in Entity, th[p].at # "despawn",
           UNCHANGED <<alive, fresh, looted, level, dbLevel, buffs, hits, nextDot>>
    PROVE  CombatInv'
<1>1. th[p] \in Locals
  BY TickerApart DEF CombatInv, Threads
<1>2. PICK r \in Locals : r = [th[p] EXCEPT !.at = s] /\ r.at = s /\ r.on = th[p].on
  BY <1>1, GoesTo
<1>3. th' = [th EXCEPT ![p] = r]
  BY <1>2 DEF Goes
<1> QED BY <1>1, <1>2, <1>3, HandlerQuiet

LEMMA IdleQuiet ==
    ASSUME CombatInv, Typed', NEW p \in Player, GoesIdle(p), th[p].at # "despawn",
           UNCHANGED <<alive, fresh, looted, level, dbLevel, buffs, hits, nextDot>>
    PROVE  CombatInv'
<1>1. th' = [th EXCEPT ![p] = Idle]
  BY DEF GoesIdle
<1>2. Idle \in Locals /\ Idle.at = "idle"
  BY IdleIs
<1>3. Idle.at \notin Aimed /\ Idle.at \notin Read
  BY <1>2 DEF Aimed, Read
<1> QED BY <1>1, <1>2, <1>3, HandlerQuiet

LEMMA ReviveSteps ==
    ASSUME CombatInv, NEW p \in Player, Revive(p) \/ ReviveHP(p) \/ Stand(p)
    PROVE  CombatInv'
<1>1. CASE Revive(p)
  <2>1. Typed' /\ th[p].at = "idle" /\ Goes(p, "revive")
    BY <1>1 DEF Revive, Begins, Serves, At, ecs, CombatInv, Typed
  <2>2. "revive" \in Stages \ ({"raise", "cast"} \cup Read) /\ "revive" \notin Aimed
    BY DEF Stages, Read, Aimed
  <2> QED BY <1>1, <2>1, <2>2, GoesQuiet DEF Revive, ecs
<1>2. CASE ReviveHP(p)
  <2>1. hp' \in [Entity -> 0..MaxHP]
    BY <1>2, HpTyped, Points DEF ReviveHP, CombatInv
  <2>2. Typed' /\ th[p].at = "revive" /\ Goes(p, "stand")
    BY <1>2, <2>1 DEF ReviveHP, At, CombatInv, Typed
  <2>3. "stand" \in Stages \ ({"raise", "cast"} \cup Read) /\ "stand" \notin Aimed
    BY DEF Stages, Read, Aimed
  <2> QED BY <1>2, <2>2, <2>3, GoesQuiet DEF ReviveHP
<1>3. CASE Stand(p)
  <2>1. place' \in [Entity -> {Home, Far, Nowhere}]
    <3>1. CASE place' = place
      BY <3>1 DEF CombatInv, Typed
    <3>2. CASE place' = [place EXCEPT ![p] = Home]
      BY <3>2, PlaceTyped DEF CombatInv
    <3> QED BY <1>3, <3>1, <3>2 DEF Stand
  <2>2. Typed' /\ th[p].at = "stand" /\ GoesIdle(p)
    BY <1>3, <2>1 DEF Stand, At, CombatInv, Typed
  <2> QED BY <1>3, <2>2, IdleQuiet DEF Stand
<1> QED BY <1>1, <1>2, <1>3

LEMMA SpawnPlaceStep == ASSUME CombatInv, NEW p \in Player, SpawnPlace(p) PROVE CombatInv'
<1>1. place' \in [Entity -> {Home, Far, Nowhere}]
  BY PlaceTyped DEF CombatInv, SpawnPlace
<1>2. Typed' /\ th[p].at = "spawn" /\ GoesIdle(p)
  BY <1>1 DEF SpawnPlace, At, CombatInv, Typed
<1> QED BY <1>2, IdleQuiet DEF SpawnPlace

\* A handler that begins with r.
LEMMA BeginsQuiet ==
    ASSUME CombatInv, NEW p \in Player, NEW r \in Locals, th' = [th EXCEPT ![p] = r],
           th[p].at = "idle", r.at \notin {"raise", "cast"},
           r.at \in Aimed => r.on \in Entity, r.at \in Read => r.seen \in 0..MaxHP,
           UNCHANGED <<ecs, dbLevel, buffs, nextDot, beat, hits, looted>>
    PROVE  CombatInv'
<1>1. Typed'
  BY DEF ecs, CombatInv, Typed
<1> QED BY <1>1, HandlerQuiet DEF ecs

LEMMA IdleAt ==
    ASSUME NEW s \in Stages, NEW v \in Entity
    PROVE  \E r \in Locals : r = [Idle EXCEPT !.at = s, !.on = v] /\ r.at = s /\ r.on = v
<1>1. PICK q \in Locals : q = Idle
  BY IdleIs
<1>2. /\ [q EXCEPT !.at = s, !.on = v] \in Locals
      /\ [q EXCEPT !.at = s, !.on = v].at = s /\ [q EXCEPT !.at = s, !.on = v].on = v
  BY DEF Locals
<1> QED BY <1>1, <1>2

LEMMA AttackStep == ASSUME CombatInv, NEW p \in Player, NEW v \in Entity, Attack(p, v) PROVE CombatInv'
<1>1. th[p].at = "idle"
  BY DEF Attack, Begins, Serves, At
<1>2. "hit" \in Stages /\ "hit" \notin Read
  BY DEF Stages, Read
<1>3. PICK r \in Locals : r = [Idle EXCEPT !.at = "hit", !.on = v] /\ r.at = "hit" /\ r.on = v
  BY <1>2, IdleAt
<1>4. th' = [th EXCEPT ![p] = r]
  BY <1>3 DEF Attack
<1> QED BY <1>1, <1>2, <1>3, <1>4, BeginsQuiet DEF Attack

LEMMA HealSteps ==
    ASSUME CombatInv, NEW p \in Player, HealWrite(p) \/ \E v \in Entity : HealRead(p, v)
    PROVE  CombatInv'
<1>1. ASSUME NEW v \in Entity, HealRead(p, v) PROVE CombatInv'
  <2>1. th[p].at = "idle"
    BY <1>1 DEF HealRead, Begins, Serves, At
  <2>2. hp[v] \in 0..MaxHP /\ hp[v] \in Nat
    BY CombatAssumption DEF CombatInv, Typed
  <2>3. PICK n \in Nat : n = hp[v]
    BY <2>2
  <2>4. "heal" \in Stages /\ "heal" \notin Aimed
    BY DEF Stages, Aimed
  <2>5. PICK q \in Locals : q = Idle
    BY IdleIs
  <2> DEFINE r == [q EXCEPT !.at = "heal", !.on = v, !.seen = n]
  <2>9. r \in Locals /\ r.at = "heal" /\ r.on = v /\ r.seen = n
    BY <2>4 DEF Locals
  <2>6. th' = [th EXCEPT ![p] = r]
    BY <1>1, <2>3, <2>5 DEF HealRead
  <2> HIDE DEF r
  <2>7. UNCHANGED <<ecs, dbLevel, buffs, nextDot, beat, hits, looted>>
    BY <1>1 DEF HealRead
  <2>8. r.at \notin {"raise", "cast"} /\ r.at \notin Aimed /\ r.seen \in 0..MaxHP
    BY <2>2, <2>3, <2>4, <2>9
  <2> QED BY <2>1, <2>6, <2>7, <2>8, <2>9, BeginsQuiet
<1>2. CASE HealWrite(p)
  <2>1. p \in Thread /\ "heal" \in Read /\ th[p].at = "heal"
    BY <1>2, TickerApart DEF HealWrite, At, Read
  <2>2. More(th[p].seen) \in 0..MaxHP
    BY <2>1, Points DEF CombatInv, Threads
  <2>3. hp' \in [Entity -> 0..MaxHP]
    BY <1>2, <2>2, HpTyped DEF HealWrite, CombatInv
  <2>4. Typed' /\ GoesIdle(p)
    BY <1>2, <2>3 DEF HealWrite, CombatInv, Typed
  <2> QED BY <1>2, <2>1, <2>4, IdleQuiet DEF HealWrite
<1> QED BY <1>1, <1>2

LEMMA HitReadStep == ASSUME CombatInv, NEW p \in Player, HitRead(p) PROVE CombatInv'
<1>1. th[p] \in Locals /\ th[p].at = "hit" /\ th[p].on \in Entity
  <2>1. "hit" \in Aimed
    BY DEF Aimed
  <2> QED BY <2>1, TickerApart DEF CombatInv, Threads, HitRead, At
<1>2. hp[th[p].on] \in 0..MaxHP
  BY <1>1 DEF CombatInv, Typed
<1>3. PICK n \in Nat : n = hp[th[p].on] /\ n \in 0..MaxHP
  BY <1>2
<1>4. PICK q \in Locals : q = th[p]
  BY <1>1
<1> DEFINE r == [q EXCEPT !.at = "damage", !.seen = n]
<1>5. r \in Locals
  <2>1. "damage" \in Stages
    BY DEF Stages
  <2> QED BY <2>1 DEF Locals
<1>6. r.at = "damage" /\ r.on = q.on /\ r.seen = n
  BY DEF Locals
<1>7. th' = [th EXCEPT ![p] = r]
  BY <1>3, <1>4 DEF HitRead
<1> HIDE DEF r
<1>8. UNCHANGED <<ecs, dbLevel, buffs, nextDot, beat, hits, looted>>
  BY DEF HitRead
<1>9. Typed'
  BY <1>8 DEF ecs, CombatInv, Typed
<1> QED BY <1>1, <1>3, <1>4, <1>5, <1>6, <1>7, <1>8, <1>9, HandlerQuiet DEF ecs

LEMMA HitWriteStep == ASSUME CombatInv, NEW p \in Player, HitWrite(p) PROVE CombatInv'
<1>1. p \in Thread /\ th[p].at = "damage" /\ th[p].on \in Entity /\ th[p].seen \in 0..MaxHP
  <2>1. "damage" \in Aimed /\ "damage" \in Read
    BY DEF Aimed, Read
  <2> QED BY <2>1, TickerApart DEF CombatInv, Threads, HitWrite, At
<1>2. hp' \in [Entity -> 0..MaxHP]
  BY <1>1, HpTyped, Points DEF HitWrite, CombatInv
<1>3. Typed'
  BY <1>2 DEF HitWrite, CombatInv, Typed
<1>4. GoesIdle(p) \/ Goes(p, "mark") \/ Goes(p, "loot")
  BY DEF HitWrite
<1>5. /\ "mark" \in Stages \ ({"raise", "cast"} \cup Read)
      /\ "loot" \in Stages \ ({"raise", "cast"} \cup Read)
  BY DEF Stages, Read
<1>6. UNCHANGED <<alive, fresh, looted, level, dbLevel, buffs, hits, nextDot>>
  BY DEF HitWrite
<1> QED BY <1>1, <1>3, <1>4, <1>5, <1>6, GoesQuiet, IdleQuiet

LEMMA DeathSteps ==
    ASSUME CombatInv, NEW p \in Player, Mark(p) \/ Zero(p) \/ Share(p)
    PROVE  CombatInv'
<1>0. p \in Thread /\ th[p] \in Locals
  BY TickerApart DEF CombatInv, Threads
<1>1. CASE Mark(p)
  <2>1. th[p].at = "mark" /\ th[p].on \in Entity
    <3>1. "mark" \in Aimed
      BY DEF Aimed
    <3> QED BY <1>0, <1>1, <3>1 DEF CombatInv, Threads, Mark, At
  <2>2. Typed' /\ Goes(p, "zero")
    BY <1>1, <2>1 DEF Mark, CombatInv, Typed
  <2>3. "zero" \in Stages \ ({"raise", "cast"} \cup Read)
    BY DEF Stages, Read
  <2> QED BY <1>1, <2>1, <2>2, <2>3, GoesQuiet DEF Mark
<1>2. CASE Zero(p)
  <2>1. hp' \in [Entity -> 0..MaxHP]
    BY <1>2, HpTyped, Points DEF Zero, CombatInv
  <2>2. Typed' /\ th[p].at = "zero" /\ GoesIdle(p)
    BY <1>2, <2>1 DEF Zero, At, CombatInv, Typed
  <2> QED BY <1>2, <2>2, IdleQuiet DEF Zero
<1>3. CASE Share(p)
  <2>1. Typed' /\ th[p].at = "share" /\ UNCHANGED <<ecs, dbLevel, buffs, nextDot, beat, hits, looted, sent>>
    BY <1>3 DEF Share, At, ecs, CombatInv, Typed
  <2>2. CASE GoesIdle(p)
    BY <2>1, <2>2, IdleQuiet DEF ecs
  <2>3. CASE th' = [th EXCEPT ![p].at = "award", ![p].rest = ShareList(p)]
    <3>1. PICK q \in Locals : q = th[p]
      BY <1>0
    <3>2. ShareList(p) \in SUBSET Entity
      BY CombatAssumption DEF ShareList, Entity
    <3>3. PICK S \in SUBSET Entity : S = ShareList(p)
      BY <3>2
    <3> DEFINE r == [q EXCEPT !.at = "award", !.rest = S]
    <3>4. "award" \in Stages /\ "award" \notin Aimed /\ "award" \notin Read
      BY DEF Stages, Aimed, Read
    <3>5. r \in Locals /\ r.at = "award"
      BY <3>4 DEF Locals
    <3>6. th' = [th EXCEPT ![p] = r]
      BY <2>3, <3>1, <3>3
    <3> HIDE DEF r
    <3> QED BY <2>1, <3>4, <3>5, <3>6, HandlerQuiet DEF ecs
  <2> QED BY <1>3, <2>2, <2>3 DEF Share
<1> QED BY <1>1, <1>2, <1>3

-----------------------------------------------------------------------------
(* Steps that give out, loot and destroy entities.                         *)

LEMMA SpawnStep == ASSUME CombatInv, NEW p \in Player, NEW n \in Npc, Spawn(p, n) PROVE CombatInv'
<1>1. /\ th[p].at = "idle" /\ n \in fresh /\ fresh' = fresh \ {n} /\ alive' = alive \cup {n}
      /\ UNCHANGED <<place, hp, ready, dead, level, dbLevel, buffs, nextDot, beat, hits, looted>>
  BY DEF Spawn, Serves, At, NewEntity
<1>2. PICK r \in Locals : r = [Idle EXCEPT !.at = "spawn", !.on = n] /\ r.at = "spawn" /\ r.on = n
  <2>1. "spawn" \in Stages /\ n \in Entity
    BY DEF Stages, Entity
  <2> QED BY <2>1, IdleAt
<1>3. th' = [th EXCEPT ![p] = r]
  BY <1>2 DEF Spawn
<1>4. Typed'
  BY <1>1 DEF CombatInv, Typed, Entity
<1>5. p \in Thread /\ Ticker \in Thread /\ p # Ticker /\ \A q \in Player : q \in Thread
  BY TickerApart
<1>6. r.at \notin Aimed /\ r.at \notin Read
  BY <1>2 DEF Aimed, Read
<1>7. Threads' /\ th'[p] = r /\ \A u \in Thread \ {p} : th'[u] = th[u]
  BY <1>3, <1>5, <1>6, ThreadMoves DEF CombatInv
<1>8. Spawned' /\ LootInv'
  <2>1. \A k \in Player : th[k].at = "despawn" => th'[k] = th[k]
    BY <1>1, <1>5, <1>7
  <2>2. \A k \in Player : looted[<<k, n>>] = 0
    BY <1>1 DEF CombatInv, LootInv
  <2> QED BY <1>1, <2>1, <2>2 DEF CombatInv, LootInv, Spawned
<1>9. T' = T
  BY <1>5, <1>7 DEF T
<1>10. \A q \in Player : th'[q].at \in {"cast", "raise"} => th'[q] = th[q]
  BY <1>2, <1>5, <1>7
<1>11. LevelInv'
  BY <1>1, <1>10, LevelKept DEF CombatInv
<1>12. DotInv'
  BY <1>1, <1>9, <1>10, DotKept DEF CombatInv
<1> QED BY <1>4, <1>7, <1>8, <1>11, <1>12 DEF CombatInv

LEMMA LootStep == ASSUME CombatInv, NEW p \in Player, Loot(p) PROVE CombatInv'
<1>1. /\ th[p].at = "loot" /\ Goes(p, "despawn")
      /\ UNCHANGED <<ecs, dbLevel, buffs, nextDot, beat, hits>>
      /\ looted' = looted \/ /\ th[p].on \in Npcs
                             /\ looted' = [looted EXCEPT ![<<p, th[p].on>>] = @ + 1]
  BY DEF Loot, At, HasLoot
<1>2. p \in Thread /\ Ticker \in Thread /\ p # Ticker /\ \A q \in Player : q \in Thread
  BY TickerApart
<1>3. th[p] \in Locals
  BY <1>2 DEF CombatInv, Threads
<1>4. PICK r \in Locals : r = [th[p] EXCEPT !.at = "despawn"] /\ r.at = "despawn" /\ r.on = th[p].on
  <2>1. "despawn" \in Stages
    BY DEF Stages
  <2> QED BY <1>3, <2>1, GoesTo
<1>5. th' = [th EXCEPT ![p] = r]
  BY <1>1, <1>4 DEF Goes
<1>6. r.at \notin Aimed /\ r.at \notin Read
  BY <1>4 DEF Aimed, Read
<1>7. Threads' /\ th'[p] = r /\ \A u \in Thread \ {p} : th'[u] = th[u]
  BY <1>2, <1>5, <1>6, ThreadMoves DEF CombatInv
<1>8. looted' \in [Kills -> Nat]
  BY <1>1 DEF CombatInv, Typed
<1>9. Typed'
  BY <1>1, <1>8 DEF CombatInv, Typed, ecs
<1>10. T' = T
  BY <1>2, <1>7 DEF T
<1>11. \A q \in Player : th'[q].at \in {"cast", "raise"} => th'[q] = th[q]
  BY <1>2, <1>4, <1>7
<1>12. LevelInv'
  BY <1>1, <1>11, LevelKept DEF CombatInv, ecs
<1>13. DotInv'
  BY <1>1, <1>10, <1>11, DotKept DEF CombatInv
<1>14. Spawned' /\ UNCHANGED <<alive, fresh>>
  BY <1>1 DEF CombatInv, Spawned, ecs
<1>15. \A k \in Player : th[k].at = "despawn" => th'[k].at = "despawn" /\ th'[k].on = th[k].on
  BY <1>1, <1>2, <1>7
<1>16. LootInv'
  <2>1. CASE looted' = looted
    BY <1>14, <1>15, <2>1, LootKept DEF CombatInv
  <2>2. CASE th[p].on \in Npcs /\ looted' = [looted EXCEPT ![<<p, th[p].on>>] = @ + 1]
    <3>1. PICK v \in Npc : v = th[p].on /\ v \in alive
      BY <2>2 DEF Npcs
    <3>2. looted[<<p, v>>] = 0 /\ v \notin fresh
      BY <1>1, <3>1 DEF CombatInv, LootInv, Spawned
    <3>3. /\ looted'[<<p, v>>] = 1
          /\ \A k \in Player, n \in Npc : <<k, n>> # <<p, v>> => looted'[<<k, n>>] = looted[<<k, n>>]
      <4>1. <<p, v>> \in Kills /\ \A k \in Player, n \in Npc : <<k, n>> \in Kills
        BY DEF Kills
      <4>2. looted \in [Kills -> Nat]
        BY DEF CombatInv, Typed
      <4> QED BY <2>2, <3>1, <3>2, <4>1, <4>2
    <3>4. th'[p].at = "despawn" /\ th'[p].on = v
      BY <1>4, <1>7, <3>1
    <3>5. ASSUME NEW k \in Player, NEW n \in Npc
          PROVE  \/ looted'[<<k, n>>] = 0
                 \/ /\ looted'[<<k, n>>] = 1 /\ n \notin fresh'
                    /\ n \in alive' => th'[k].at = "despawn" /\ th'[k].on = n
      <4>1. CASE k = p /\ n = v
        BY <1>14, <3>2, <3>3, <3>4, <4>1
      <4>2. CASE ~(k = p /\ n = v)
        <5>1. looted'[<<k, n>>] = looted[<<k, n>>]
          BY <3>3, <4>2
        <5>2. \/ looted[<<k, n>>] = 0
              \/ /\ looted[<<k, n>>] = 1 /\ n \notin fresh
                 /\ n \in alive => th[k].at = "despawn" /\ th[k].on = n
          BY DEF CombatInv, LootInv
        <5> QED BY <1>14, <1>15, <5>1, <5>2
      <4> QED BY <4>1, <4>2
    <3> QED BY <3>5 DEF LootInv
  <2> QED BY <1>1, <2>1, <2>2
<1> QED BY <1>7, <1>9, <1>12, <1>13, <1>14, <1>16 DEF CombatInv

\* An entity that goes takes its effects with it.
LEMMA DestroyDots ==
    ASSUME DotInv, Typed, NEW e, Destroy(e), UNCHANGED <<hits, nextDot>>, T' = T,
           \A p \in Player : th'[p].at = "cast" => th'[p] = th[p]
    PROVE  DotInv'
<1>1. \A f \in Entity : buffs'[f] \subseteq buffs[f]
  BY DEF Destroy, Typed
<1>2. \A d \in Dot : \A p \in Player : Casting(p, d)' => Casting(p, d)
  BY DEF Casting
<1>3. TurnOnce'
  BY DEF DotInv, TurnOnce
<1>4. IdsGiven'
  BY <1>1, <1>2 DEF DotInv, IdsGiven
<1>5. CastOnce'
  BY <1>1, <1>2 DEF DotInv, CastOnce
<1>6. OnOne'
  BY <1>1 DEF DotInv, OnOne, OneEntry
<1>7. \A d \in Dot : \A f \in Entity : Pending(f, d)' <=> Pending(f, d)
  BY DEF Pending
<1>8. HurtInv'
  BY <1>1, <1>7 DEF DotInv, HurtInv, DotHitsBounded
<1> QED BY <1>3, <1>4, <1>5, <1>6, <1>8 DEF DotInv

LEMMA DestroyLevels ==
    ASSUME Typed, LevelInv, NEW e, Destroy(e), dbLevel' = dbLevel,
           \A t \in Player : th'[t].at = "raise" => th'[t] = th[t]
    PROVE  LevelInv'
<1>1. \A p \in Player : level'[p] <= dbLevel'[p]
  <2> SUFFICES ASSUME NEW p \in Player PROVE level'[p] <= dbLevel[p]
    OBVIOUS
  <2>1. level'[p] = 0 \/ level'[p] = level[p]
    BY DEF Destroy
  <2>2. 0 <= dbLevel[p]
    BY CombatAssumption DEF Typed
  <2> QED BY <2>1, <2>2 DEF LevelInv
<1>2. ASSUME NEW t \in Player, th'[t].at = "raise"
      PROVE  th'[t].on \in Player /\ th'[t].seen <= dbLevel'[th'[t].on]
  BY <1>2 DEF LevelInv
<1> QED BY <1>1, <1>2 DEF LevelInv

LEMMA LeaveStep == ASSUME CombatInv, NEW p \in Player, Leave(p) PROVE CombatInv'
<1>1. Destroy(p) /\ UNCHANGED <<fresh, dbLevel, nextDot, beat, th, hits, looted, sent>>
  BY DEF Leave
<1>2. Typed'
  BY <1>1, DestroyTyped DEF CombatInv
<1>3. Threads' /\ T' = T
  BY <1>1 DEF CombatInv, Threads, T
<1>4. Spawned' /\ LootInv'
  BY <1>1 DEF CombatInv, Spawned, LootInv, Destroy
<1>5. LevelInv'
  BY <1>1, DestroyLevels DEF CombatInv
<1>6. DotInv'
  BY <1>1, <1>3, DestroyDots DEF CombatInv
<1> QED BY <1>2, <1>3, <1>4, <1>5, <1>6 DEF CombatInv

\* The killer destroys the NPC it has looted.
LEMMA DespawnStep == ASSUME CombatInv, NEW p \in Player, Despawn(p) PROVE CombatInv'
<1>1. /\ th[p].at = "despawn" /\ Goes(p, "share") /\ Destroy(th[p].on)
      /\ UNCHANGED <<fresh, dbLevel, nextDot, beat, hits, looted, sent>>
  BY DEF Despawn, At
<1>2. Typed'
  BY <1>1, DestroyTyped DEF CombatInv
<1>3. p \in Thread /\ Ticker \in Thread /\ p # Ticker /\ \A q \in Player : q \in Thread
  BY TickerApart
<1>4. th[p] \in Locals
  BY <1>3 DEF CombatInv, Threads
<1>5. PICK r \in Locals : r = [th[p] EXCEPT !.at = "share"] /\ r.at = "share"
  <2>1. "share" \in Stages
    BY DEF Stages
  <2> QED BY <1>4, <2>1, GoesTo
<1>6. th' = [th EXCEPT ![p] = r]
  BY <1>1, <1>5 DEF Goes
<1>7. r.at \notin Aimed /\ r.at \notin Read
  BY <1>5 DEF Aimed, Read
<1>8. Threads' /\ th'[p] = r /\ \A u \in Thread \ {p} : th'[u] = th[u]
  BY <1>3, <1>6, <1>7, ThreadMoves DEF CombatInv
<1>9. T' = T
  BY <1>3, <1>8 DEF T
<1>10. \A q \in Player : th'[q].at \in {"cast", "raise"} => th'[q] = th[q]
  BY <1>3, <1>5, <1>8
<1>11. LevelInv'
  BY <1>1, <1>10, DestroyLevels DEF CombatInv
<1>12. DotInv'
  BY <1>1, <1>9, <1>10, DestroyDots DEF CombatInv
<1>13. alive' = alive \ {th[p].on} /\ fresh' = fresh /\ looted' = looted
  BY <1>1 DEF Destroy
<1>14. Spawned'
  BY <1>13 DEF CombatInv, Spawned
<1>15. LootInv'
  <2> SUFFICES ASSUME NEW k \in Player, NEW n \in Npc
               PROVE  \/ looted'[<<k, n>>] = 0
                      \/ /\ looted'[<<k, n>>] = 1 /\ n \notin fresh'
                         /\ n \in alive' => th'[k].at = "despawn" /\ th'[k].on = n
    BY DEF LootInv
  <2>1. \/ looted[<<k, n>>] = 0
        \/ /\ looted[<<k, n>>] = 1 /\ n \notin fresh
           /\ n \in alive => th[k].at = "despawn" /\ th[k].on = n
    BY DEF CombatInv, LootInv
  <2>2. k # p => th'[k] = th[k]
    BY <1>3, <1>8
  <2> QED BY <1>13, <2>1, <2>2
<1> QED BY <1>2, <1>8, <1>11, <1>12, <1>14, <1>15 DEF CombatInv

-----------------------------------------------------------------------------
(* Steps that change a level.                                              *)

LEMMA EnterStatsStep == ASSUME CombatInv, NEW p \in Player, EnterStats(p) PROVE CombatInv'
<1>1. /\ th[p].at = "enter" /\ th' = [th EXCEPT ![p] = Idle] /\ ready' = ready \cup {p}
      /\ level' = [level EXCEPT ![p] = dbLevel[p]]
      /\ UNCHANGED <<alive, fresh, place, dead, dbLevel, buffs, nextDot, beat, hits, looted, sent>>
  BY DEF EnterStats, At, GoesIdle
<1>2. hp' \in [Entity -> 0..MaxHP]
  BY HpTyped, Points DEF EnterStats, CombatInv
<1>3. level' \in [Player -> 0..MaxLevel] /\ \A q \in Player : level'[q] <= dbLevel[q]
  <2>1. level \in [Player -> 0..MaxLevel] /\ dbLevel \in [Player -> 1..MaxLevel] /\ MaxLevel \in Nat
    BY CombatAssumption DEF CombatInv, Typed
  <2>2. level' \in [Player -> 0..MaxLevel]
    BY <1>1, <2>1
  <2>3. \A q \in Player : level'[q] = dbLevel[q] \/ level'[q] = level[q]
    BY <1>1, <2>1
  <2>4. \A q \in Player : level[q] <= dbLevel[q]
    BY DEF CombatInv, LevelInv
  <2> QED BY <2>1, <2>2, <2>3, <2>4
<1>4. Typed'
  BY <1>1, <1>2, <1>3 DEF CombatInv, Typed
<1>5. Idle \in Locals /\ Idle.at = "idle" /\ Idle.at \notin Aimed /\ Idle.at \notin Read
  BY IdleIs DEF Aimed, Read
<1>6. p \in Thread /\ Ticker \in Thread /\ p # Ticker /\ \A q \in Player : q \in Thread
  BY TickerApart
<1>7. Threads' /\ th'[p] = Idle /\ \A u \in Thread \ {p} : th'[u] = th[u]
  BY <1>1, <1>5, <1>6, ThreadMoves DEF CombatInv
<1>8. T' = T
  BY <1>6, <1>7 DEF T
<1>9. \A q \in Player : th'[q].at \in {"cast", "raise"} => th'[q] = th[q]
  BY <1>5, <1>6, <1>7
<1>10. \A k \in Player : th[k].at = "despawn" => th'[k] = th[k]
  BY <1>1, <1>6, <1>7
<1>11. Spawned' /\ LootInv'
  BY <1>1, <1>10, LootKept DEF CombatInv
<1>12. DotInv'
  BY <1>1, <1>8, <1>9, DotKept DEF CombatInv
<1>13. LevelInv'
  BY <1>1, <1>3, <1>9 DEF CombatInv, LevelInv
<1> QED BY <1>4, <1>7, <1>11, <1>12, <1>13 DEF CombatInv

\* An award ends with the members that are left.
LEMMA NextMemberIs ==
    ASSUME Threads, NEW p \in Player, NEW rest \in SUBSET Entity, NextMember(p, rest)
    PROVE  /\ Threads' /\ T' = T /\ \A u \in Thread \ {p} : th'[u] = th[u]
           /\ th'[p].at \in {"idle", "award"}
<1>1. p \in Thread /\ Ticker \in Thread /\ p # Ticker /\ th[p] \in Locals
  BY TickerApart DEF Threads
<1>2. PICK q \in Locals : q = th[p]
  BY <1>1
<1> DEFINE u == [q EXCEPT !.at = "award", !.rest = rest, !.seen = 0]
<1>3. "award" \in Stages /\ "award" \notin Aimed /\ "award" \notin Read
      /\ "idle" \notin Aimed /\ "idle" \notin Read
  BY DEF Stages, Aimed, Read
<1>4. u \in Locals /\ u.at = "award"
  BY <1>3 DEF Locals
<1>5. th' = [th EXCEPT ![p] = Idle] \/ th' = [th EXCEPT ![p] = u]
  BY <1>2 DEF NextMember
<1> HIDE DEF u
<1>6. Idle \in Locals /\ Idle.at = "idle"
  BY IdleIs
<1>7. PICK r \in Locals : th' = [th EXCEPT ![p] = r] /\ r.at \in {"idle", "award"}
  BY <1>4, <1>5, <1>6
<1>8. Threads' /\ th'[p] = r /\ \A v \in Thread \ {p} : th'[v] = th[v]
  BY <1>1, <1>3, <1>7, ThreadMoves
<1>9. T' = T
  BY <1>1, <1>8 DEF T
<1> QED BY <1>7, <1>8, <1>9

\* add_exp may have raised the database's level, and the handler has read it.
LEMMA AwardStep == ASSUME CombatInv, NEW p \in Player, NEW m \in Player, Award(p, m) PROVE CombatInv'
<1>1. /\ th[p].at = "award" /\ m \in th[p].rest
      /\ UNCHANGED <<alive, fresh, place, hp, ready, dead, buffs, nextDot, beat, hits, looted, sent>>
  BY DEF Award, At
<1>2. p \in Thread /\ Ticker \in Thread /\ p # Ticker /\ (\A q \in Player : q \in Thread) /\ th[p] \in Locals
  BY TickerApart DEF CombatInv, Threads
<1>3. th[p].rest \ {m} \in SUBSET Entity
  BY <1>2 DEF Locals
<1>4. /\ level' = level
      /\ dbLevel' \in [Player -> 1..MaxLevel] /\ \A q \in Player : dbLevel[q] <= dbLevel'[q]
  <2>1. dbLevel \in [Player -> 1..MaxLevel] /\ MaxLevel \in Nat
    BY CombatAssumption DEF CombatInv, Typed
  <2>2. CASE Experience(m)
    BY <2>1, <2>2 DEF Experience
  <2>3. CASE UNCHANGED <<dbLevel, level>>
    BY <2>1, <2>3
  <2> QED BY <2>2, <2>3 DEF Award
<1>5. Typed'
  BY <1>1, <1>4 DEF CombatInv, Typed
<1>6. /\ Threads' /\ T' = T /\ \A u \in Thread \ {p} : th'[u] = th[u]
      /\ th'[p].at \in {"idle", "award", "raise"}
      /\ th'[p].at = "raise" => th'[p].on = m /\ th'[p].seen = dbLevel'[m]
  <2>1. CASE NextMember(p, th[p].rest \ {m})
    <3>1. PICK rest \in SUBSET Entity : rest = th[p].rest \ {m}
      BY <1>3
    <3>2. NextMember(p, rest)
      BY <2>1, <3>1
    <3>3. /\ Threads' /\ T' = T /\ \A u \in Thread \ {p} : th'[u] = th[u]
          /\ th'[p].at \in {"idle", "award"}
      BY <3>2, NextMemberIs DEF CombatInv
    <3> QED BY <3>3
  <2>2. CASE th' = [th EXCEPT ![p].at = "raise", ![p].seen = dbLevel'[m], ![p].rest = @ \ {m}, ![p].on = m]
    <3>1. PICK q \in Locals : q = th[p]
      BY <1>2
    <3>2. PICK n \in Nat : n = dbLevel'[m]
      BY <1>4 DEF CombatAssumption
    <3> DEFINE r == [q EXCEPT !.at = "raise", !.seen = n, !.rest = @ \ {m}, !.on = m]
    <3>3. "raise" \in Stages /\ m \in Entity /\ "raise" \notin Aimed /\ "raise" \notin Read
      BY DEF Stages, Entity, Aimed, Read
    <3>4. q.rest \ {m} \in SUBSET Entity
      BY DEF Locals
    <3>5. r \in Locals /\ r.at = "raise" /\ r.on = m /\ r.seen = n
      BY <3>3, <3>4 DEF Locals
    <3>6. th' = [th EXCEPT ![p] = r]
      BY <2>2, <3>1, <3>2
    <3> HIDE DEF r
    <3>7. Threads' /\ th'[p] = r /\ \A u \in Thread \ {p} : th'[u] = th[u]
      BY <1>2, <3>3, <3>5, <3>6, ThreadMoves DEF CombatInv
    <3>8. T' = T
      BY <1>2, <3>7 DEF T
    <3> QED BY <3>2, <3>5, <3>7, <3>8
  <2> QED BY <2>1, <2>2 DEF Award
<1>7. \A k \in Player : th[k].at = "despawn" => th'[k] = th[k]
  BY <1>1, <1>2, <1>6
<1>8. Spawned' /\ LootInv'
  BY <1>1, <1>7, LootKept DEF CombatInv
<1>9. \A q \in Player : th'[q].at = "cast" => th'[q] = th[q]
  BY <1>2, <1>6
<1>10. DotInv'
  BY <1>1, <1>6, <1>9, DotKept DEF CombatInv
<1>11. LevelInv'
  <2>1. (\A q \in Player : dbLevel[q] \in Int /\ dbLevel'[q] \in Int /\ level[q] \in Int)
        /\ \A q \in Player : th[q].seen \in Int
    <3>1. \A q \in Player : th[q].seen \in Int
      BY <1>2 DEF CombatInv, Threads, Locals
    <3> QED BY <1>4, <3>1 DEF CombatInv, Typed
  <2>2. \A q \in Player : level'[q] <= dbLevel'[q]
    <3>1. \A q \in Player : level[q] <= dbLevel[q]
      BY DEF CombatInv, LevelInv
    <3> QED BY <1>4, <2>1, <3>1
  <2>3. ASSUME NEW t \in Player, th'[t].at = "raise"
        PROVE  th'[t].on \in Player /\ th'[t].seen <= dbLevel'[th'[t].on]
    <3>1. CASE t = p
      BY <1>6, <2>1, <2>3, <3>1
    <3>2. CASE t # p
      <4>1. th'[t] = th[t]
        BY <1>2, <1>6, <3>2
      <4>2. th[t].on \in Player /\ th[t].seen <= dbLevel[th[t].on]
        BY <2>3, <4>1 DEF CombatInv, LevelInv
      <4>3. PICK v \in Player : v = th[t].on
        BY <4>2
      <4>4. th[t].seen <= dbLevel[v] /\ dbLevel[v] <= dbLevel'[v]
        BY <1>4, <4>2, <4>3
      <4>5. th[t].seen <= dbLevel'[v]
        BY <2>1, <4>4
      <4> QED BY <4>1, <4>3, <4>5
    <3> QED BY <3>1, <3>2
  <2> QED BY <2>2, <2>3 DEF LevelInv
<1> QED BY <1>5, <1>6, <1>8, <1>10, <1>11 DEF CombatInv

LEMMA RaiseStep == ASSUME CombatInv, NEW p \in Player, Raise(p) PROVE CombatInv'
<1>1. /\ th[p].at = "raise" /\ NextMember(p, th[p].rest)
      /\ level' = [level EXCEPT ![th[p].on] = th[p].seen]
      /\ UNCHANGED <<alive, fresh, place, hp, ready, dead, dbLevel, buffs, nextDot, beat, hits, looted, sent>>
  BY DEF Raise, At
<1>2. p \in Thread /\ Ticker \in Thread /\ p # Ticker /\ (\A q \in Player : q \in Thread) /\ th[p] \in Locals
  BY TickerApart DEF CombatInv, Threads
<1>3. PICK rest \in SUBSET Entity : rest = th[p].rest
  BY <1>2 DEF Locals
<1>4. /\ Threads' /\ T' = T /\ \A u \in Thread \ {p} : th'[u] = th[u]
      /\ th'[p].at \in {"idle", "award"}
  <2>1. NextMember(p, rest)
    BY <1>1, <1>3
  <2> QED BY <2>1, NextMemberIs DEF CombatInv
<1>5. th[p].on \in Player /\ th[p].seen \in Nat /\ th[p].seen <= dbLevel[th[p].on]
  BY <1>1, <1>2 DEF CombatInv, LevelInv, Locals
<1>6. PICK v \in Player, n \in Nat : v = th[p].on /\ n = th[p].seen /\ n <= dbLevel[v]
  BY <1>5
<1>7. level' \in [Player -> 0..MaxLevel] /\ \A q \in Player : level'[q] <= dbLevel[q]
  <2>1. level \in [Player -> 0..MaxLevel] /\ dbLevel \in [Player -> 1..MaxLevel] /\ MaxLevel \in Nat
    BY CombatAssumption DEF CombatInv, Typed
  <2>2. n \in 0..MaxLevel
    BY <1>6, <2>1
  <2>3. level' = [level EXCEPT ![v] = n]
    BY <1>1, <1>6
  <2>4. \A q \in Player : level[q] <= dbLevel[q]
    BY DEF CombatInv, LevelInv
  <2> QED BY <1>6, <2>1, <2>2, <2>3, <2>4
<1>8. Typed'
  BY <1>1, <1>7 DEF CombatInv, Typed
<1>9. \A k \in Player : th[k].at = "despawn" => th'[k] = th[k]
  BY <1>1, <1>2, <1>4
<1>10. Spawned' /\ LootInv'
  BY <1>1, <1>9, LootKept DEF CombatInv
<1>11. \A q \in Player : th'[q].at \in {"cast", "raise"} => th'[q] = th[q]
  BY <1>2, <1>4
<1>12. DotInv'
  BY <1>1, <1>4, <1>11, DotKept DEF CombatInv
<1>13. LevelInv'
  BY <1>1, <1>7, <1>11 DEF CombatInv, LevelInv
<1> QED BY <1>4, <1>8, <1>10, <1>12, <1>13 DEF CombatInv

-----------------------------------------------------------------------------
(* Casting.                                                                *)

LEMMA CastStep == ASSUME CombatInv, NEW p \in Player, NEW v \in Entity, Cast(p, v) PROVE CombatInv'
<1>1. th[p].at = "idle" /\ UNCHANGED <<ecs, dbLevel, buffs, beat, hits, looted>>
  BY DEF Cast, Begins, Serves, At
<1>2. PICK d \in 0..MaxDots :
        /\ \/ d \in Dot /\ d = nextDot /\ nextDot' = nextDot + 1
           \/ d = 0 /\ nextDot' = nextDot
        /\ th' = [th EXCEPT ![p] = [Idle EXCEPT !.at = "cast", !.on = v,
                                      !.buff = [id |-> d, left |-> Duration]]]
  <2>1. MaxDots \in Nat /\ \A d \in Dot : d \in 0..MaxDots
    BY CombatAssumption DEF Dot
  <2>2. 0 \in 0..MaxDots
    BY <2>1
  <2> QED BY <2>1, <2>2 DEF Cast
<1>3. PICK b \in Effects : b = [id |-> d, left |-> Duration] /\ b.id = d
  <2>1. PICK n \in 0..Duration : n = Duration
    BY CombatAssumption
  <2>2. [id |-> d, left |-> n] \in Effects /\ [id |-> d, left |-> n].id = d
    BY DEF Effects
  <2> QED BY <2>1, <2>2
<1>4. PICK q \in Locals : q = Idle
  BY IdleIs
<1> DEFINE r == [q EXCEPT !.at = "cast", !.on = v, !.buff = b]
<1>5. r \in Locals /\ r.at = "cast" /\ r.on = v /\ r.buff = b
  BY DEF Locals, Stages
<1>6. th' = [th EXCEPT ![p] = r]
  BY <1>2, <1>3, <1>4
<1> HIDE DEF r
<1>7. p \in Thread /\ Ticker \in Thread /\ p # Ticker /\ (\A u \in Player : u \in Thread)
  BY TickerApart
<1>8. "cast" \notin Aimed /\ "cast" \notin Read
  BY DEF Aimed, Read
<1>9. Threads' /\ th'[p] = r /\ \A u \in Thread \ {p} : th'[u] = th[u]
  BY <1>5, <1>6, <1>7, <1>8, ThreadMoves DEF CombatInv
<1>10. T' = T
  BY <1>7, <1>9 DEF T
<1>11. nextDot \in 1..MaxDots + 1 /\ MaxDots \in Nat /\ nextDot' \in 1..MaxDots + 1 /\ nextDot <= nextDot'
  <2>1. nextDot \in 1..MaxDots + 1 /\ MaxDots \in Nat
    BY CombatAssumption DEF CombatInv, Typed
  <2> QED BY <1>2, <2>1 DEF Dot
<1>12. Typed'
  BY <1>1, <1>11 DEF CombatInv, Typed, ecs
<1>13. \A k \in Player : th[k].at = "despawn" => th'[k] = th[k]
  BY <1>1, <1>7, <1>9
<1>14. Spawned' /\ LootInv'
  BY <1>1, <1>13, LootKept DEF CombatInv, ecs
<1>15. \A u \in Player : th'[u].at = "raise" => th'[u] = th[u]
  BY <1>5, <1>7, <1>9
<1>16. LevelInv'
  BY <1>1, <1>15, LevelKept DEF CombatInv, ecs
<1>17. \A e \in Entity : \A c \in buffs[e] : c.id \in Nat
  BY CombatAssumption DEF CombatInv, Typed, Effects
<1>18. /\ \A e \in Entity : \A c \in buffs[e] : c.id < nextDot
       /\ \A c \in T.dots : c < nextDot
       /\ \A c \in Dot : \A u \in Player : Casting(u, c) => c < nextDot
       /\ \A c \in Dot : c >= nextDot => hits[c] = 0
  BY DEF CombatInv, DotInv, IdsGiven
<1>19. T.dots \subseteq Dot /\ \A c \in Dot : c \in Nat
  <2>1. T \in Locals
    BY <1>7 DEF CombatInv, Threads, T
  <2> QED BY <2>1 DEF Locals, Dot
<1>20. \A c \in Dot : \A u \in Player : Casting(u, c)' => Casting(u, c) \/ (u = p /\ c = d)
  BY <1>3, <1>5, <1>7, <1>9 DEF Casting
<1>21. \A c \in Dot : ~Casting(p, c)
  BY <1>1 DEF Casting
<1>22. IdsGiven'
  <2>1. \A e \in Entity : \A c \in buffs'[e] : c.id < nextDot'
    BY <1>1, <1>11, <1>17, <1>18
  <2>2. \A c \in T'.dots : c < nextDot'
    BY <1>10, <1>11, <1>18, <1>19
  <2>3. \A c \in Dot : \A u \in Player : Casting(u, c)' => c < nextDot'
    <3> SUFFICES ASSUME NEW c \in Dot, NEW u \in Player, Casting(u, c)' PROVE c < nextDot'
      OBVIOUS
    <3>1. CASE Casting(u, c)
      BY <1>11, <1>18, <1>19, <3>1
    <3>2. CASE c = d
      BY <1>2, <1>11, <1>19, <3>2 DEF Dot
    <3> QED BY <1>20, <3>1, <3>2
  <2>4. \A c \in Dot : c >= nextDot' => hits'[c] = 0
    BY <1>1, <1>11, <1>18, <1>19
  <2> QED BY <2>1, <2>2, <2>3, <2>4 DEF IdsGiven
<1>23. CastOnce'
  <2>1. d \in Dot => /\ hits[d] = 0 /\ d \notin T.dots
                     /\ \A e \in Entity : \A c \in buffs[e] : c.id # d
                     /\ \A u \in Player : ~Casting(u, d)
    <3> SUFFICES ASSUME d \in Dot
                 PROVE  /\ hits[d] = 0 /\ d \notin T.dots
                        /\ \A e \in Entity : \A c \in buffs[e] : c.id # d
                        /\ \A u \in Player : ~Casting(u, d)
      OBVIOUS
    <3>1. d = nextDot
      BY <1>2 DEF Dot
    <3>2. hits[d] = 0 /\ d \notin T.dots /\ \A u \in Player : ~Casting(u, d)
      BY <1>11, <1>18, <1>19, <3>1
    <3>3. \A e \in Entity : \A c \in buffs[e] : c.id # d
      BY <1>11, <1>17, <1>18, <3>1
    <3> QED BY <3>2, <3>3
  <2> SUFFICES ASSUME NEW c \in Dot, NEW u \in Player, Casting(u, c)'
               PROVE  /\ hits'[c] = 0 /\ c \notin T'.dots
                      /\ \A e \in Entity : \A z \in buffs'[e] : z.id # c
                      /\ \A w \in Player : Casting(w, c)' => w = u
    BY DEF CastOnce
  <2>2. CASE c = d
    BY <1>1, <1>10, <1>20, <2>1, <2>2
  <2>3. CASE c # d
    <3>1. /\ hits[c] = 0 /\ c \notin T.dots
          /\ \A e \in Entity : \A z \in buffs[e] : z.id # c
          /\ \A w \in Player : Casting(w, c) => w = u
      BY <1>20, <2>3 DEF CombatInv, DotInv, CastOnce
    <3> QED BY <1>1, <1>10, <1>20, <2>3, <3>1
  <2> QED BY <2>2, <2>3
<1>24. TurnOnce' /\ OnOne' /\ \A c \in Dot : \A e \in Entity : Pending(e, c)' <=> Pending(e, c)
  BY <1>1, <1>10 DEF CombatInv, DotInv, TurnOnce, OnOne, OneEntry, Pending
<1>25. HurtInv'
  BY <1>1, <1>10, <1>24 DEF CombatInv, DotInv, HurtInv, DotHitsBounded
<1>26. DotInv'
  BY <1>22, <1>23, <1>24, <1>25 DEF DotInv
<1> QED BY <1>9, <1>12, <1>14, <1>16, <1>26 DEF CombatInv

\* The entry takes the place of one with its id.
LEMMA CastAddStep == ASSUME CombatInv, NEW p \in Player, CastAdd(p) PROVE CombatInv'
<1>1. /\ th[p].at = "cast" /\ th' = [th EXCEPT ![p] = Idle]
      /\ buffs' = [buffs EXCEPT ![th[p].on] = Entered(@, th[p].buff)]
      /\ UNCHANGED <<ecs, dbLevel, nextDot, beat, hits, looted>>
  BY DEF CastAdd, At, GoesIdle
<1>2. p \in Thread /\ Ticker \in Thread /\ p # Ticker /\ (\A u \in Player : u \in Thread) /\ th[p] \in Locals
  BY TickerApart DEF CombatInv, Threads
<1>3. PICK b \in Effects : b = th[p].buff
  BY <1>2 DEF Locals
<1>4. buffs \in [Entity -> SUBSET Effects]
  BY DEF CombatInv, Typed
<1>5. \A e \in Entity : buffs'[e] = buffs[e] \/ (e = th[p].on /\ buffs'[e] = Entered(buffs[e], b))
  BY <1>1, <1>3, <1>4
<1>6. \A e \in Entity : \A c \in buffs'[e] :
        \/ c \in buffs[e] /\ (e = th[p].on => c.id # b.id)
        \/ e = th[p].on /\ c = b
  BY <1>1, <1>3, <1>4 DEF Entered
<1>7. buffs' \in [Entity -> SUBSET Effects]
  <2>1. Entered(buffs[th[p].on], b) \in SUBSET Effects \/ th[p].on \notin Entity
    BY <1>4 DEF Entered
  <2> QED BY <1>1, <1>3, <1>4, <2>1
<1>8. Typed'
  BY <1>1, <1>7 DEF CombatInv, Typed, ecs
<1>9. Idle \in Locals /\ Idle.at = "idle" /\ Idle.at \notin Aimed /\ Idle.at \notin Read
  BY IdleIs DEF Aimed, Read
<1>10. Threads' /\ th'[p] = Idle /\ \A u \in Thread \ {p} : th'[u] = th[u]
  BY <1>1, <1>2, <1>9, ThreadMoves DEF CombatInv
<1>11. T' = T
  BY <1>2, <1>10 DEF T
<1>12. \A q \in Player : th'[q].at \in {"cast", "raise"} => th'[q] = th[q]
  BY <1>2, <1>9, <1>10
<1>13. \A k \in Player : th[k].at = "despawn" => th'[k] = th[k]
  BY <1>1, <1>2, <1>10
<1>14. Spawned' /\ LootInv'
  BY <1>1, <1>13, LootKept DEF CombatInv, ecs
<1>15. LevelInv'
  BY <1>1, <1>12, LevelKept DEF CombatInv, ecs
<1>16. \A d \in Dot : \A u \in Player : Casting(u, d)' => Casting(u, d) /\ u # p
  BY <1>9, <1>10, <1>12 DEF Casting
<1>17. b.id \in Dot => /\ b.id < nextDot /\ hits[b.id] = 0 /\ b.id \notin T.dots
                       /\ \A e \in Entity : \A c \in buffs[e] : c.id # b.id
                       /\ \A u \in Player : Casting(u, b.id) => u = p
  <2>1. b.id \in Dot => Casting(p, b.id)
    BY <1>1, <1>3 DEF Casting
  <2> QED BY <2>1 DEF CombatInv, DotInv, IdsGiven, CastOnce
<1>18. b.id = 0 \/ b.id \in Dot
  BY CombatAssumption DEF Effects, Dot
<1>19. nextDot \in 1..MaxDots + 1 /\ MaxDots \in Nat
  BY CombatAssumption DEF CombatInv, Typed
<1>20. IdsGiven'
  <2>1. b.id < nextDot
    BY <1>17, <1>18, <1>19
  <2> QED BY <1>1, <1>6, <1>11, <1>16, <2>1 DEF CombatInv, DotInv, IdsGiven
<1>21. CastOnce'
  <2> SUFFICES ASSUME NEW d \in Dot, NEW u \in Player, Casting(u, d)'
               PROVE  /\ hits'[d] = 0 /\ d \notin T'.dots
                      /\ \A e \in Entity : \A c \in buffs'[e] : c.id # d
                      /\ \A w \in Player : Casting(w, d)' => w = u
    BY DEF CastOnce
  <2>1. Casting(u, d) /\ u # p
    BY <1>16
  <2>2. /\ hits[d] = 0 /\ d \notin T.dots
        /\ \A e \in Entity : \A c \in buffs[e] : c.id # d
        /\ \A w \in Player : Casting(w, d) => w = u
    BY <2>1 DEF CombatInv, DotInv, CastOnce
  <2>3. b.id # d
    BY <1>17, <2>1
  <2> QED BY <1>1, <1>6, <1>11, <1>16, <2>2, <2>3
<1>22. OnOne'
  <2>1. OneEntry'
    <3> SUFFICES ASSUME NEW e \in Entity, NEW c \in buffs'[e], NEW z \in buffs'[e], c.id = z.id
                 PROVE  c = z
      BY DEF OneEntry
    <3> QED BY <1>6 DEF CombatInv, DotInv, OnOne, OneEntry
  <2>2. ASSUME NEW d \in Dot, NEW e \in Entity, NEW f \in Entity, NEW c \in buffs'[e], NEW z \in buffs'[f],
               c.id = d, z.id = d
        PROVE  e = f
    <3>1. CASE d = b.id
      BY <1>6, <1>17, <2>2, <3>1
    <3>2. CASE d # b.id
      BY <1>6, <2>2, <3>2 DEF CombatInv, DotInv, OnOne
    <3> QED BY <3>1, <3>2
  <2>3. ASSUME T'.at \in {"dots", "dot"}, NEW d \in T'.dots, NEW e \in Entity, NEW c \in buffs'[e], c.id = d
        PROVE  e = T'.on
    <3>1. d \in Dot
      BY <1>2, <1>11, <2>3 DEF CombatInv, Threads, T, Locals
    <3>2. d # b.id
      BY <1>11, <1>17, <2>3, <3>1
    <3> QED BY <1>6, <1>11, <2>3, <3>2 DEF CombatInv, DotInv, OnOne
  <2> QED BY <2>1, <2>2, <2>3 DEF OnOne
<1>23. TurnOnce' /\ \A d \in Dot : \A e \in Entity : Pending(e, d)' <=> Pending(e, d)
  BY <1>11 DEF CombatInv, DotInv, TurnOnce, Pending
<1>24. HurtInv'
  <2>1. ASSUME NEW d \in Dot, NEW e \in Entity, NEW c \in buffs'[e], c.id = d
        PROVE  /\ hits'[d] + c.left <= Duration + 1
               /\ Pending(e, d)' => hits'[d] + c.left <= Duration
    <3>1. CASE c \in buffs[e]
      BY <1>1, <1>23, <2>1, <3>1 DEF CombatInv, DotInv, HurtInv
    <3>2. CASE c = b
      <4>1. hits'[d] = 0 /\ c.left <= Duration /\ c.left \in Nat /\ Duration \in Nat
        BY <1>1, <1>17, <2>1, <3>2, CombatAssumption DEF Effects
      <4> QED BY <4>1
    <3> QED BY <1>6, <3>1, <3>2
  <2> QED BY <1>1, <1>11, <2>1 DEF CombatInv, DotInv, HurtInv, DotHitsBounded
<1>25. DotInv'
  BY <1>20, <1>21, <1>22, <1>23, <1>24 DEF DotInv
<1> QED BY <1>8, <1>10, <1>14, <1>15, <1>25 DEF CombatInv

-----------------------------------------------------------------------------
(* The tick.                                                               *)

LEMMA TickerMoves ==
    ASSUME Threads, NEW r \in Locals, th' = [th EXCEPT ![Ticker] = r],
           r.at \in Aimed => r.on \in Entity, r.at \in Read => r.seen \in 0..MaxHP
    PROVE  Threads' /\ T' = r /\ \A p \in Player : th'[p] = th[p]
<1>1. Threads' /\ th'[Ticker] = r /\ \A u \in Thread \ {Ticker} : th'[u] = th[u]
  BY TickerApart, ThreadMoves
<1> QED BY <1>1, TickerApart DEF T

LEMMA TickerIs == ASSUME Threads PROVE T \in Locals /\ T.dots \subseteq Dot /\ T.rest \subseteq Entity
BY TickerApart DEF Threads, T, Locals

\* The ticker goes on, and nobody's turn comes again.
LEMMA TurnGoesOn ==
    ASSUME DotInv, Threads, \A f \in Entity : buffs'[f] \subseteq buffs[f], UNCHANGED <<hits, nextDot>>,
           \A p \in Player : th'[p] = th[p], T'.dots \subseteq T.dots,
           T'.at \in {"dots", "dot"} => T.at \in {"dots", "dot"} /\ T'.on = T.on,
           T'.at \in Turn => T'.on \notin T'.rest,
           \A e \in Entity : \A d \in Dot : Pending(e, d)' => Pending(e, d)
    PROVE  DotInv'
<1>1. \A d \in Dot : \A p \in Player : Casting(p, d)' <=> Casting(p, d)
  BY DEF Casting
<1>2. TurnOnce'
  BY DEF TurnOnce
<1>3. IdsGiven'
  BY <1>1 DEF DotInv, IdsGiven
<1>4. CastOnce'
  BY <1>1 DEF DotInv, CastOnce
<1>5. OnOne'
  BY DEF DotInv, OnOne, OneEntry
<1>6. HurtInv'
  BY DEF DotInv, HurtInv, DotHitsBounded
<1> QED BY <1>2, <1>3, <1>4, <1>5, <1>6 DEF DotInv

\* ... and changes only places and hp.
LEMMA TickerQuiet ==
    ASSUME CombatInv, Typed', NEW r \in Locals, th' = [th EXCEPT ![Ticker] = r],
           r.at \in Aimed => r.on \in Entity, r.at \in Read => r.seen \in 0..MaxHP,
           UNCHANGED <<alive, fresh, looted, level, dbLevel, buffs, hits, nextDot>>,
           r.dots \subseteq T.dots,
           r.at \in {"dots", "dot"} => T.at \in {"dots", "dot"} /\ r.on = T.on,
           r.at \in Turn => r.on \notin r.rest,
           \A e \in Entity : \A d \in Dot : Pending(e, d)' => Pending(e, d)
    PROVE  CombatInv'
<1>1. Threads' /\ T' = r /\ \A p \in Player : th'[p] = th[p]
  BY TickerMoves DEF CombatInv
<1>2. Spawned' /\ LootInv'
  BY <1>1, LootKept DEF CombatInv
<1>3. LevelInv'
  BY <1>1, LevelKept DEF CombatInv
<1>4. DotInv'
  BY <1>1, TurnGoesOn DEF CombatInv
<1> QED BY <1>1, <1>2, <1>3, <1>4 DEF CombatInv

LEMMA NextPlayerIs ==
    ASSUME Threads
    PROVE  \E r \in Locals : r = NextPlayer /\ r.at = "players" /\ r.rest = T.rest /\ r.dots = {}
<1>1. PICK q \in Locals : q = T
  BY TickerIs
<1> DEFINE r == [q EXCEPT !.at = "players", !.on = NoOne, !.seen = 0, !.dots = {}]
<1>2. r \in Locals /\ r.at = "players" /\ r.rest = q.rest /\ r.dots = {}
  BY DEF Locals, Stages
<1>3. r = NextPlayer
  BY <1>1 DEF NextPlayer
<1> QED BY <1>1, <1>2, <1>3

\* The next player's turn.
LEMMA PlayersStep ==
    ASSUME CombatInv, Typed', T.at \in Turn, th' = [th EXCEPT ![Ticker] = NextPlayer],
           UNCHANGED <<alive, fresh, looted, level, dbLevel, buffs, hits, nextDot>>
    PROVE  CombatInv'
<1>1. PICK r \in Locals : r = NextPlayer /\ r.at = "players" /\ r.rest = T.rest /\ r.dots = {}
  BY NextPlayerIs DEF CombatInv
<1>2. "players" \notin Aimed /\ "players" \notin Read /\ "players" \notin Turn
      /\ "players" \notin {"dots", "dot", "regen", "purge"}
  BY DEF Aimed, Read, Turn
<1>3. T' = r
  BY <1>1, <1>2, TickerMoves DEF CombatInv
<1>4. \A e \in Entity : \A d \in Dot : Pending(e, d)' => Pending(e, d)
  BY <1>1, <1>2, <1>3 DEF Pending
<1> QED BY <1>1, <1>2, <1>4, TickerQuiet

LEMMA TickPlayerStep == ASSUME CombatInv, NEW p \in Player, TickPlayer(p) PROVE CombatInv'
<1>1. T.at = "players" /\ p \in T.rest /\ UNCHANGED <<ecs, dbLevel, buffs, nextDot, beat, hits, looted, sent>>
  BY DEF TickPlayer, At, T
<1>2. PICK q \in Locals : q = T
  BY TickerIs DEF CombatInv
<1>3. p \in Entity /\ hp[p] \in 0..MaxHP
  BY DEF CombatInv, Typed, Entity
<1>4. PICK n \in Nat, s \in {"regen", "purge"} :
        n = hp[p] /\ th' = [th EXCEPT ![Ticker].rest = @ \ {p}, ![Ticker].on = p, ![Ticker].seen = n,
                                      ![Ticker].at = s]
  <2>1. hp[p] \in Nat
    BY <1>3, CombatAssumption
  <2> QED BY <2>1 DEF TickPlayer
<1> DEFINE r == [q EXCEPT !.rest = @ \ {p}, !.on = p, !.seen = n, !.at = s]
<1>5. r \in Locals /\ r.rest = q.rest \ {p} /\ r.on = p /\ r.seen = n /\ r.at = s /\ r.dots = q.dots
  <2>1. s \in Stages /\ q.rest \ {p} \in SUBSET Entity
    BY DEF Stages, Locals
  <2> QED BY <1>3, <2>1 DEF Locals
<1>6. th' = [th EXCEPT ![Ticker] = r]
  BY <1>2, <1>4 DEF T
<1> HIDE DEF r
<1>7. r.on \in Entity /\ r.seen \in 0..MaxHP
  BY <1>3, <1>4, <1>5
<1>8. Typed'
  BY <1>1 DEF CombatInv, Typed, ecs
<1>9. T' = r
  BY <1>5, <1>6, <1>7, TickerMoves DEF CombatInv
<1>10. \A e \in Entity : \A d \in Dot : Pending(e, d)' => Pending(e, d)
  BY <1>1, <1>2, <1>4, <1>5, <1>9 DEF Pending
<1>11. r.at \notin {"dots", "dot"} /\ r.on \notin r.rest
  BY <1>4, <1>5
<1>12. r.dots \subseteq T.dots
  BY <1>2, <1>5
<1> QED BY <1>1, <1>5, <1>6, <1>7, <1>8, <1>10, <1>11, <1>12, TickerQuiet DEF ecs

LEMMA RegenStep == ASSUME CombatInv, Regen PROVE CombatInv'
<1>1. T.at = "regen" /\ Goes(Ticker, "purge")
      /\ UNCHANGED <<alive, fresh, place, ready, dead, level, dbLevel, buffs, nextDot, beat, hits, looted, sent>>
  BY DEF Regen, At, T
<1>2. T \in Locals /\ T.on \in Entity /\ T.seen \in 0..MaxHP
  <2>1. "regen" \in Aimed /\ "regen" \in Read
    BY DEF Aimed, Read
  <2> QED BY <1>1, <2>1, TickerApart, TickerIs DEF CombatInv, Threads, T
<1>3. hp' \in [Entity -> 0..MaxHP]
  BY <1>2, Points, HpTyped DEF CombatInv, Regen
<1>4. Typed'
  BY <1>1, <1>3 DEF CombatInv, Typed
<1>5. PICK r \in Locals : r = [T EXCEPT !.at = "purge"] /\ r.at = "purge" /\ r.on = T.on /\ r.rest = T.rest
                          /\ r.dots = T.dots
  <2>1. "purge" \in Stages
    BY DEF Stages
  <2> QED BY <1>2, <2>1, GoesTo
<1>6. th' = [th EXCEPT ![Ticker] = r]
  BY <1>1, <1>5 DEF Goes, T
<1>7. "purge" \notin Read /\ "regen" \in Turn
  BY DEF Read, Turn
<1>8. T' = r
  BY <1>2, <1>5, <1>6, <1>7, TickerMoves DEF CombatInv
<1>9. T.on \notin T.rest
  BY <1>1, <1>7 DEF CombatInv, DotInv, TurnOnce
<1>10. \A e \in Entity : \A d \in Dot : Pending(e, d)' => Pending(e, d)
  BY <1>1, <1>5, <1>7, <1>8 DEF Pending
<1> QED BY <1>1, <1>2, <1>4, <1>5, <1>6, <1>7, <1>9, <1>10, TickerQuiet

\* The turn goes on at another stage.
LEMMA TurnStage ==
    ASSUME CombatInv, Typed', T.at \in Turn, NEW s \in {"dots", "dotzero", "dotmark", "dotdespawn"},
           s = "dots" => T.at \in {"dots", "dot"},
           Goes(Ticker, s), T.on \in Entity,
           UNCHANGED <<alive, fresh, looted, level, dbLevel, buffs, hits, nextDot>>
    PROVE  CombatInv'
<1>1. T \in Locals /\ s \in Stages
  BY TickerIs DEF CombatInv, Stages
<1>2. PICK r \in Locals : r = [T EXCEPT !.at = s] /\ r.at = s /\ r.on = T.on /\ r.rest = T.rest
                          /\ r.dots = T.dots
  BY <1>1, GoesTo
<1>3. th' = [th EXCEPT ![Ticker] = r]
  BY <1>2 DEF Goes, T
<1>4. s \notin Read /\ s \notin {"regen", "purge", "players"} /\ s \in Turn
  BY DEF Read, Turn
<1>5. T' = r
  BY <1>2, <1>3, <1>4, TickerMoves DEF CombatInv
<1>6. T.on \notin T.rest
  BY DEF CombatInv, DotInv, TurnOnce
<1>7. \A e \in Entity : \A d \in Dot : Pending(e, d)' => Pending(e, d)
  BY <1>2, <1>4, <1>5 DEF Pending
<1>8. s \in {"dots", "dot"} => s = "dots"
  OBVIOUS
<1> QED BY <1>2, <1>3, <1>4, <1>6, <1>7, <1>8, TickerQuiet

LEMMA DotWriteStep == ASSUME CombatInv, DotWrite PROVE CombatInv'
<1>1. T.at = "dot" /\ UNCHANGED <<alive, fresh, place, ready, dead, level, dbLevel, buffs, nextDot, beat,
                                  hits, looted, sent>>
  BY DEF DotWrite, At, T
<1>2. T.on \in Entity /\ T.seen \in 0..MaxHP /\ T.at \in Turn
  <2>1. "dot" \in Aimed /\ "dot" \in Read /\ "dot" \in Turn
    BY DEF Aimed, Read, Turn
  <2> QED BY <1>1, <2>1, TickerApart DEF CombatInv, Threads, T
<1>3. hp' \in [Entity -> 0..MaxHP]
  BY <1>2, Points, HpTyped DEF CombatInv, DotWrite
<1>4. Typed'
  BY <1>1, <1>3 DEF CombatInv, Typed
<1>5. Goes(Ticker, "dotzero") \/ Goes(Ticker, "dots") \/ th' = [th EXCEPT ![Ticker] = NextPlayer]
  BY DEF DotWrite, Goes
<1>6. UNCHANGED <<alive, fresh, looted, level, dbLevel, buffs, hits, nextDot>>
  BY <1>1
<1>7. CASE Goes(Ticker, "dotzero")
  BY <1>2, <1>4, <1>6, <1>7, TurnStage
<1>8. CASE Goes(Ticker, "dots")
  BY <1>1, <1>2, <1>4, <1>6, <1>8, TurnStage
<1>9. CASE th' = [th EXCEPT ![Ticker] = NextPlayer]
  BY <1>2, <1>4, <1>6, <1>9, PlayersStep
<1> QED BY <1>5, <1>7, <1>8, <1>9

LEMMA DotDeathSteps == ASSUME CombatInv, DotZero \/ DotMark PROVE CombatInv'
<1>1. CASE DotZero
  <2>1. T.at = "dotzero" /\ (Goes(Ticker, "dotmark") \/ Goes(Ticker, "dotdespawn"))
        /\ UNCHANGED <<alive, fresh, place, ready, dead, level, dbLevel, buffs, nextDot, beat, hits, looted, sent>>
    BY <1>1 DEF DotZero, At, T
  <2>2. T.on \in Entity /\ T.at \in Turn
    <3>1. "dotzero" \in Aimed /\ "dotzero" \in Turn
      BY DEF Aimed, Turn
    <3> QED BY <2>1, <3>1, TickerApart DEF CombatInv, Threads, T
  <2>3. hp' \in [Entity -> 0..MaxHP]
    BY <1>1, Points, HpTyped DEF CombatInv, DotZero
  <2>4. Typed'
    BY <2>1, <2>3 DEF CombatInv, Typed
  <2> QED BY <2>1, <2>2, <2>4, TurnStage
<1>2. CASE DotMark
  <2>1. T.at = "dotmark" /\ th' = [th EXCEPT ![Ticker] = NextPlayer] /\ dead' = dead \cup {T.on}
        /\ UNCHANGED <<alive, fresh, place, hp, ready, level, dbLevel, buffs, nextDot, beat, hits, looted, sent>>
    BY <1>2 DEF DotMark, At, T
  <2>2. T.on \in Entity /\ T.at \in Turn
    <3>1. "dotmark" \in Aimed /\ "dotmark" \in Turn
      BY DEF Aimed, Turn
    <3> QED BY <2>1, <3>1, TickerApart DEF CombatInv, Threads, T
  <2>3. Typed'
    BY <2>1, <2>2 DEF CombatInv, Typed
  <2> QED BY <2>1, <2>2, <2>3, PlayersStep
<1> QED BY <1>1, <1>2

LEMMA DotDespawnStep == ASSUME CombatInv, DotDespawn PROVE CombatInv'
<1>1. /\ T.at = "dotdespawn" /\ th' = [th EXCEPT ![Ticker] = NextPlayer] /\ Destroy(T.on)
      /\ UNCHANGED <<fresh, dbLevel, nextDot, beat, hits, looted, sent>>
  BY DEF DotDespawn, At, T
<1>2. PICK e : e = T.on
  OBVIOUS
<1>3. Destroy(e)
  BY <1>1, <1>2
<1>4. Typed'
  BY <1>1, <1>3, DestroyTyped DEF CombatInv
<1>5. PICK r \in Locals : r = NextPlayer /\ r.at = "players" /\ r.rest = T.rest /\ r.dots = {}
  BY NextPlayerIs DEF CombatInv
<1>6. "players" \notin Aimed /\ "players" \notin Read /\ "players" \notin Turn /\ "dotdespawn" \in Turn
      /\ "players" \notin {"dots", "dot", "regen", "purge"}
  BY DEF Aimed, Read, Turn
<1>7. Threads' /\ T' = r /\ \A p \in Player : th'[p] = th[p]
  BY <1>1, <1>5, <1>6, TickerMoves DEF CombatInv
<1>8. Spawned' /\ LootInv'
  <2>1. alive' \subseteq alive
    BY <1>3 DEF Destroy
  <2> QED BY <1>1, <1>7, <2>1 DEF CombatInv, Spawned, LootInv
<1>9. LevelInv'
  BY <1>1, <1>3, <1>7, DestroyLevels DEF CombatInv
<1>10. \A f \in Entity : buffs'[f] \subseteq buffs[f]
  BY <1>3 DEF Destroy, CombatInv, Typed
<1>11. \A f \in Entity : \A d \in Dot : Pending(f, d)' => Pending(f, d)
  BY <1>1, <1>5, <1>6, <1>7 DEF Pending
<1>12. DotInv'
  BY <1>1, <1>5, <1>6, <1>7, <1>10, <1>11, TurnGoesOn DEF CombatInv
<1> QED BY <1>4, <1>7, <1>8, <1>9, <1>12 DEF CombatInv

\* The tick's second part: nobody is hurt in it.
LEMMA NpcsStep ==
    ASSUME CombatInv, Typed', NEW s \in SUBSET Entity, NextNpc(s),
           UNCHANGED <<alive, fresh, looted, level, dbLevel, buffs, hits, nextDot>>
    PROVE  CombatInv'
<1>1. PICK q \in Locals : q = Idle /\ q.at = "idle" /\ q.dots = {}
  BY IdleIs
<1> DEFINE z == [q EXCEPT !.at = "npcs", !.rest = s]
<1>2. z \in Locals /\ z.at = "npcs" /\ z.dots = {}
  BY <1>1 DEF Locals, Stages
<1>3. th' = [th EXCEPT ![Ticker] = q] \/ th' = [th EXCEPT ![Ticker] = z]
  BY <1>1 DEF NextNpc
<1> HIDE DEF z
<1>4. PICK r \in Locals : r.at \in {"idle", "npcs"} /\ r.dots = {} /\ th' = [th EXCEPT ![Ticker] = r]
  BY <1>1, <1>2, <1>3
<1>5. r.at \notin Aimed /\ r.at \notin Read /\ r.at \notin Turn \cup {"players"}
      /\ r.at \notin {"dots", "dot", "regen", "purge"}
  BY <1>4 DEF Aimed, Read, Turn
<1>6. T' = r
  BY <1>4, <1>5, TickerMoves DEF CombatInv
<1>7. \A e \in Entity : \A d \in Dot : Pending(e, d)' => Pending(e, d)
  BY <1>5, <1>6 DEF Pending
<1> QED BY <1>4, <1>5, <1>7, TickerQuiet

LEMMA HerdSteps ==
    ASSUME CombatInv, Herd \/ \E n \in Npc : Patrol(n)
    PROVE  CombatInv'
<1>1. CASE Herd
  <2>1. Typed'
    BY <1>1 DEF Herd, ecs, CombatInv, Typed
  <2>2. Npcs \in SUBSET Entity
    BY DEF Npcs, Entity
  <2> QED BY <1>1, <2>1, <2>2, NpcsStep DEF Herd, ecs
<1>2. ASSUME NEW n \in Npc, Patrol(n) PROVE CombatInv'
  <2>1. place' \in [Entity -> {Home, Far, Nowhere}]
    BY <1>2 DEF Patrol, CombatInv, Typed, Entity
  <2>2. Typed'
    BY <1>2, <2>1 DEF Patrol, CombatInv, Typed
  <2>3. T.rest \ {n} \in SUBSET Entity
    BY TickerIs DEF CombatInv
  <2> QED BY <1>2, <2>2, <2>3, NpcsStep DEF Patrol
<1> QED BY <1>1, <1>2

\* Who has a DoT left after the purge had its turn before him, and it has hurt
\* less than it lasts.
LEMMA PurgeStep == ASSUME CombatInv, Purge PROVE CombatInv'
<1>1. /\ T.at = "purge" /\ buffs' = [buffs EXCEPT ![T.on] = Unexpired(@)]
      /\ th' = [th EXCEPT ![Ticker] = IF DotsOf(buffs'[T.on]) = {} THEN NextPlayer
                                      ELSE [@ EXCEPT !.at = "dots", !.dots = DotsOf(buffs'[T.on])]]
      /\ UNCHANGED <<ecs, dbLevel, nextDot, beat, hits, looted, sent>>
  BY DEF Purge, At, T
<1>2. PICK e \in Entity : e = T.on
  <2>1. "purge" \in Aimed
    BY DEF Aimed
  <2> QED BY <1>1, <2>1, TickerApart DEF CombatInv, Threads, T
<1>3. PICK q \in Locals : q = T
  BY TickerIs DEF CombatInv
<1>4. buffs \in [Entity -> SUBSET Effects]
  BY DEF CombatInv, Typed
<1>5. /\ \A f \in Entity : buffs'[f] \subseteq buffs[f]
      /\ \A b \in buffs'[e] : b.left > 0
  BY <1>1, <1>2, <1>4 DEF Unexpired
<1>6. buffs' \in [Entity -> SUBSET Effects]
  <2>1. Unexpired(buffs[T.on]) \in SUBSET Effects
    BY <1>2, <1>4 DEF Unexpired
  <2> QED BY <1>1, <1>2, <1>4, <2>1
<1>7. Typed'
  BY <1>1, <1>6 DEF CombatInv, Typed, ecs
<1>8. PICK ds \in SUBSET Dot : ds = DotsOf(buffs'[e])
  <2>1. \A b \in Effects : b.id # 0 => b.id \in Dot
    BY CombatAssumption DEF Effects, Dot
  <2> QED BY <1>6, <2>1 DEF DotsOf
<1>9. \A d \in ds : \E b \in buffs'[e] : b.id = d
  BY <1>8 DEF DotsOf
<1> DEFINE z == [q EXCEPT !.at = "dots", !.dots = ds]
<1>10. z \in Locals /\ z.at = "dots" /\ z.on = q.on /\ z.rest = q.rest /\ z.dots = ds
  BY DEF Locals, Stages
<1>11. th' = [th EXCEPT ![Ticker] = NextPlayer] \/ th' = [th EXCEPT ![Ticker] = z]
  BY <1>1, <1>2, <1>3, <1>8 DEF T
<1> HIDE DEF z
<1>12. "players" \notin Aimed /\ "players" \notin Read /\ "players" \notin Turn /\ "purge" \in Turn
       /\ "dots" \notin Read /\ "dots" \in Turn
  BY DEF Aimed, Read, Turn
<1>13. PICK r \in Locals :
         /\ \/ r.at = "players" /\ r.dots = {}
            \/ r.at = "dots" /\ r.dots = ds /\ r.on = e
         /\ r.rest = T.rest /\ th' = [th EXCEPT ![Ticker] = r]
  <2>1. CASE th' = [th EXCEPT ![Ticker] = NextPlayer]
    BY <2>1, NextPlayerIs DEF CombatInv
  <2>2. CASE th' = [th EXCEPT ![Ticker] = z]
    BY <1>2, <1>3, <1>10, <2>2
  <2> QED BY <1>11, <2>1, <2>2
<1>14. Threads' /\ T' = r /\ \A p \in Player : th'[p] = th[p]
  <2>1. r.at \in Aimed => r.on \in Entity
    BY <1>12, <1>13
  <2>2. r.at \notin Read
    BY <1>12, <1>13 DEF Read
  <2> QED BY <1>13, <2>1, <2>2, TickerMoves DEF CombatInv
<1>15. Spawned' /\ LootInv'
  BY <1>1, <1>14, LootKept DEF CombatInv, ecs
<1>16. LevelInv'
  BY <1>1, <1>14, LevelKept DEF CombatInv, ecs
<1>17. e \notin T.rest
  BY <1>1, <1>2, <1>12 DEF CombatInv, DotInv, TurnOnce
<1>18. TurnOnce'
  BY <1>12, <1>13, <1>14, <1>17 DEF TurnOnce
<1>19. \A d \in T'.dots : d \in Dot /\ \E b \in buffs[e] : b.id = d /\ b.left > 0
  <2>1. \A d \in T'.dots : d \in ds
    BY <1>13, <1>14
  <2> QED BY <1>5, <1>8, <1>9, <2>1
<1>20. \A d \in Dot : \A p \in Player : Casting(p, d)' <=> Casting(p, d)
  BY <1>14 DEF Casting
<1>21. IdsGiven'
  BY <1>1, <1>5, <1>19, <1>20 DEF CombatInv, DotInv, IdsGiven
<1>22. CastOnce'
  BY <1>1, <1>5, <1>19, <1>20 DEF CombatInv, DotInv, CastOnce
<1>23. OnOne'
  <2>1. OneEntry' /\ \A d \in Dot : \A f, g \in Entity : \A b \in buffs'[f], c \in buffs'[g] :
                        b.id = d /\ c.id = d => f = g
    BY <1>5 DEF CombatInv, DotInv, OnOne, OneEntry
  <2>2. ASSUME T'.at \in {"dots", "dot"}, NEW d \in T'.dots, NEW f \in Entity, NEW b \in buffs'[f], b.id = d
        PROVE  f = T'.on
    <3>1. T'.on = e
      BY <1>13, <1>14, <2>2
    <3> QED BY <1>5, <1>19, <2>2, <3>1 DEF CombatInv, DotInv, OnOne
  <2> QED BY <2>1, <2>2 DEF OnOne
<1>24. \A d \in Dot : hits[d] \in Nat
  BY DEF CombatInv, Typed
<1>25. \A f \in Entity : \A b \in buffs[f] : b.left \in Nat
  BY <1>4, CombatAssumption DEF Effects
<1>26. \A d \in Dot : Pending(e, d)
  BY <1>1, <1>2 DEF Pending
<1>27. ASSUME NEW d \in T'.dots PROVE hits'[d] < Duration
  <2>1. PICK b \in buffs[e] : b.id = d /\ b.left > 0
    BY <1>19, <1>27
  <2>2. hits[d] + b.left <= Duration
    BY <1>19, <1>26, <1>27, <2>1 DEF CombatInv, DotInv, HurtInv
  <2>3. hits[d] \in Nat /\ b.left \in Nat /\ Duration \in Nat
    BY <1>19, <1>24, <1>25, <1>27, CombatAssumption
  <2> QED BY <1>1, <2>1, <2>2, <2>3
<1>28. ASSUME NEW d \in Dot, NEW f \in Entity, NEW b \in buffs'[f], b.id = d, Pending(f, d)'
       PROVE  Pending(f, d)
  <2>1. CASE f \in T.rest
    BY <1>1, <1>12, <2>1 DEF Pending
  <2>2. CASE f \notin T.rest
    <3>1. d \in T'.dots
      BY <1>13, <1>14, <1>28, <2>2 DEF Pending
    <3>2. f = e
      BY <1>5, <1>19, <1>28, <3>1 DEF CombatInv, DotInv, OnOne
    <3> QED BY <1>26, <3>2
  <2> QED BY <2>1, <2>2
<1>29. HurtInv'
  <2>1. DotHitsBounded'
    BY <1>1 DEF CombatInv, DotInv, HurtInv, DotHitsBounded
  <2>2. ASSUME NEW d \in Dot, NEW f \in Entity, NEW b \in buffs'[f], b.id = d
        PROVE  /\ hits'[d] + b.left <= Duration + 1
               /\ Pending(f, d)' => hits'[d] + b.left <= Duration
    BY <1>1, <1>5, <1>28, <2>2 DEF CombatInv, DotInv, HurtInv
  <2> QED BY <1>27, <2>1, <2>2 DEF HurtInv
<1>30. DotInv'
  BY <1>18, <1>21, <1>22, <1>23, <1>29 DEF DotInv
<1> QED BY <1>7, <1>14, <1>15, <1>16, <1>30 DEF CombatInv

\* The DoT hurts: it is not to hurt again before the next tick.
LEMMA DotReadStep == ASSUME CombatInv, NEW d \in Dot, DotRead(d) PROVE CombatInv'
<1>1. /\ T.at = "dots" /\ d \in T.dots /\ hits' = [hits EXCEPT ![d] = @ + 1]
      /\ th' = [th EXCEPT ![Ticker].at = "dot", ![Ticker].dots = @ \ {d}, ![Ticker].seen = hp[T.on]]
      /\ UNCHANGED <<ecs, dbLevel, buffs, nextDot, beat, looted, sent>>
  BY DEF DotRead, At, T
<1>2. PICK e \in Entity : e = T.on
  <2>1. "dots" \in Aimed
    BY DEF Aimed
  <2> QED BY <1>1, <2>1, TickerApart DEF CombatInv, Threads, T
<1>3. PICK q \in Locals : q = T
  BY TickerIs DEF CombatInv
<1>4. PICK n \in Nat : n = hp[e] /\ n \in 0..MaxHP
  BY CombatAssumption DEF CombatInv, Typed
<1> DEFINE r == [q EXCEPT !.at = "dot", !.dots = @ \ {d}, !.seen = n]
<1>5. r \in Locals /\ r.at = "dot" /\ r.on = q.on /\ r.rest = q.rest /\ r.dots = q.dots \ {d} /\ r.seen = n
  <2>1. q.dots \ {d} \in SUBSET Dot
    BY DEF Locals
  <2> QED BY <2>1 DEF Locals, Stages
<1>6. th' = [th EXCEPT ![Ticker] = r]
  BY <1>1, <1>2, <1>3, <1>4 DEF T
<1> HIDE DEF r
<1>7. "dot" \in Aimed /\ "dot" \in Read /\ "dot" \in Turn /\ "dots" \in Turn
  BY DEF Aimed, Read, Turn
<1>8. Threads' /\ T' = r /\ \A p \in Player : th'[p] = th[p]
  BY <1>2, <1>3, <1>4, <1>5, <1>6, TickerMoves DEF CombatInv
<1>9. /\ T'.at = "dot" /\ T'.on = e /\ T'.rest = T.rest /\ T'.dots = T.dots \ {d}
  BY <1>2, <1>3, <1>5, <1>8
<1>10. hits \in [Dot -> Nat] /\ hits' \in [Dot -> Nat]
  <2>1. hits \in [Dot -> Nat]
    BY DEF CombatInv, Typed
  <2>2. hits[d] + 1 \in Nat
    BY <2>1
  <2> QED BY <1>1, <2>1, <2>2
<1>11. hits'[d] = hits[d] + 1 /\ \A c \in Dot \ {d} : hits'[c] = hits[c]
  BY <1>1, <1>10
<1>12. Typed'
  BY <1>1, <1>10 DEF CombatInv, Typed, ecs
<1>13. Spawned' /\ LootInv'
  BY <1>1, <1>8, LootKept DEF CombatInv, ecs
<1>14. LevelInv'
  BY <1>1, <1>8, LevelKept DEF CombatInv, ecs
<1>15. e \notin T.rest /\ TurnOnce'
  <2>1. e \notin T.rest
    BY <1>1, <1>2, <1>7 DEF CombatInv, DotInv, TurnOnce
  <2> QED BY <1>9, <2>1 DEF TurnOnce
<1>16. \A c \in Dot : \A p \in Player : Casting(p, c)' <=> Casting(p, c)
  BY <1>8 DEF Casting
<1>17. IdsGiven'
  <2>1. d < nextDot
    BY <1>1 DEF CombatInv, DotInv, IdsGiven
  <2>2. nextDot \in Nat /\ d \in Nat
    BY CombatAssumption DEF CombatInv, Typed, Dot
  <2>3. \A c \in Dot : c >= nextDot' => hits'[c] = 0
    <3> SUFFICES ASSUME NEW c \in Dot, c >= nextDot' PROVE hits'[c] = 0
      OBVIOUS
    <3>1. c # d
      BY <1>1, <2>1, <2>2
    <3> QED BY <1>1, <1>11, <3>1 DEF CombatInv, DotInv, IdsGiven
  <2>4. \A f \in Entity : \A b \in buffs'[f] : b.id < nextDot'
    BY <1>1 DEF CombatInv, DotInv, IdsGiven
  <2>5. \A c \in T'.dots : c < nextDot'
    BY <1>1, <1>9 DEF CombatInv, DotInv, IdsGiven
  <2>6. \A c \in Dot : \A p \in Player : Casting(p, c)' => c < nextDot'
    BY <1>1, <1>16 DEF CombatInv, DotInv, IdsGiven
  <2> QED BY <2>3, <2>4, <2>5, <2>6 DEF IdsGiven
<1>18. CastOnce'
  <2> SUFFICES ASSUME NEW c \in Dot, NEW p \in Player, Casting(p, c)'
               PROVE  /\ hits'[c] = 0 /\ c \notin T'.dots
                      /\ \A f \in Entity : \A b \in buffs'[f] : b.id # c
                      /\ \A u \in Player : Casting(u, c)' => u = p
    BY DEF CastOnce
  <2>1. /\ hits[c] = 0 /\ c \notin T.dots
        /\ \A f \in Entity : \A b \in buffs[f] : b.id # c
        /\ \A u \in Player : Casting(u, c) => u = p
    BY <1>16 DEF CombatInv, DotInv, CastOnce
  <2>2. c # d
    BY <1>1, <2>1
  <2> QED BY <1>1, <1>9, <1>11, <1>16, <2>1, <2>2
<1>19. OnOne'
  <2>1. OneEntry' /\ \A c \in Dot : \A f, g \in Entity : \A b \in buffs'[f], z \in buffs'[g] :
                        b.id = c /\ z.id = c => f = g
    BY <1>1 DEF CombatInv, DotInv, OnOne, OneEntry
  <2>2. \A c \in T'.dots : \A f \in Entity : \A b \in buffs'[f] : b.id = c => f = T'.on
    BY <1>1, <1>2, <1>9 DEF CombatInv, DotInv, OnOne
  <2> QED BY <2>1, <2>2 DEF OnOne
<1>20. hits[d] < Duration /\ Duration \in Nat /\ hits[d] \in Nat
  BY <1>1, <1>10, CombatAssumption DEF CombatInv, DotInv, HurtInv
<1>21. \A f \in Entity : \A b \in buffs[f] : b.left \in Nat
  BY CombatAssumption DEF CombatInv, Typed, Effects
<1>22. \A c \in Dot : \A f \in Entity : Pending(f, c)' => Pending(f, c)
  BY <1>1, <1>7, <1>9 DEF Pending
<1>23. HurtInv'
  <2>1. DotHitsBounded'
    <3>1. \A c \in Dot : hits[c] <= Duration
      BY DEF CombatInv, DotInv, HurtInv, DotHitsBounded
    <3> SUFFICES ASSUME NEW c \in Dot PROVE hits'[c] <= Duration
      BY DEF DotHitsBounded
    <3>2. CASE c = d
      BY <1>11, <1>20, <3>2
    <3>3. CASE c # d
      BY <1>11, <3>1, <3>3
    <3> QED BY <3>2, <3>3
  <2>2. ASSUME NEW c \in T'.dots PROVE hits'[c] < Duration
    <3>1. c \in T.dots /\ c # d
      BY <1>9, <2>2
    <3>2. c \in Dot
      BY <1>3, <3>1 DEF Locals
    <3>3. hits[c] < Duration
      BY <1>1, <3>1 DEF CombatInv, DotInv, HurtInv
    <3> QED BY <1>11, <3>1, <3>2, <3>3
  <2>3. ASSUME NEW c \in Dot, NEW f \in Entity, NEW b \in buffs'[f], b.id = c
        PROVE  /\ hits'[c] + b.left <= Duration + 1
               /\ Pending(f, c)' => hits'[c] + b.left <= Duration
    <3>1. b \in buffs[f]
      BY <1>1, <2>3
    <3>2. CASE c # d
      BY <1>11, <1>22, <2>3, <3>1, <3>2 DEF CombatInv, DotInv, HurtInv
    <3>3. CASE c = d
      <4>1. f = e
        BY <1>1, <1>2, <2>3, <3>1, <3>3 DEF CombatInv, DotInv, OnOne
      <4>2. Pending(f, d)
        BY <1>1 DEF Pending
      <4>3. hits[d] + b.left <= Duration
        BY <2>3, <3>1, <3>3, <4>2 DEF CombatInv, DotInv, HurtInv
      <4>4. ~Pending(f, d)'
        BY <1>9, <1>15, <4>1 DEF Pending
      <4>5. b.left \in Nat
        BY <1>21, <3>1
      <4> QED BY <1>11, <1>20, <3>3, <4>3, <4>4, <4>5
    <3> QED BY <3>2, <3>3
  <2> QED BY <2>1, <2>2, <2>3 DEF HurtInv
<1>24. DotInv'
  BY <1>15, <1>17, <1>18, <1>19, <1>23 DEF DotInv
<1> QED BY <1>8, <1>12, <1>13, <1>14, <1>24 DEF CombatInv

\* Everything grows shorter, and whoever plays has a turn.
LEMMA TickBeginStep == ASSUME CombatInv, TickBegin PROVE CombatInv'
<1>1. /\ T.at = "idle" /\ beat' = (beat + 1) % RegenEvery
      /\ buffs' = [e \in Entity |-> {Elapsed(b) : b \in buffs[e]}]
      /\ UNCHANGED <<ecs, dbLevel, nextDot, hits, looted, sent>>
  BY DEF TickBegin, At, T
<1>2. PICK q \in Locals : q = Idle /\ q.at = "idle" /\ q.dots = {}
  BY IdleIs
<1>3. PICK s \in SUBSET Entity : s = Players
  BY DEF Players, Entity
<1> DEFINE r == [q EXCEPT !.at = "players", !.rest = s]
<1>4. r \in Locals /\ r.at = "players" /\ r.dots = {}
  BY <1>2 DEF Locals, Stages
<1>5. th' = [t \in Thread |-> IF t = Ticker THEN r ELSE [th[t] EXCEPT !.buff = Elapsed(@)]]
  BY <1>2, <1>3 DEF TickBegin
<1> HIDE DEF r
<1>6. Ticker \in Thread /\ \A p \in Player : p \in Thread /\ p # Ticker
  BY TickerApart
<1>7. \A t \in Thread : th[t] \in Locals
  BY DEF CombatInv, Threads
<1>8. ASSUME NEW z \in Locals
      PROVE  /\ [z EXCEPT !.buff = Elapsed(@)] \in Locals
             /\ [z EXCEPT !.buff = Elapsed(@)].at = z.at /\ [z EXCEPT !.buff = Elapsed(@)].on = z.on
             /\ [z EXCEPT !.buff = Elapsed(@)].seen = z.seen
             /\ [z EXCEPT !.buff = Elapsed(@)].buff.id = z.buff.id
  <2>1. PICK b \in Effects : b = Elapsed(z.buff) /\ b.id = z.buff.id
    <3>1. z.buff \in Effects
      BY DEF Locals
    <3> QED BY <3>1, ElapsedIs
  <2>2. [z EXCEPT !.buff = b] \in Locals /\ [z EXCEPT !.buff = b].at = z.at
        /\ [z EXCEPT !.buff = b].on = z.on /\ [z EXCEPT !.buff = b].seen = z.seen
        /\ [z EXCEPT !.buff = b].buff = b
    BY DEF Locals
  <2> QED BY <2>1, <2>2
<1>9. T' = r /\ \A t \in Thread \ {Ticker} : th'[t] = [th[t] EXCEPT !.buff = Elapsed(@)]
  BY <1>5, <1>6 DEF T
<1>10. \A t \in Thread \ {Ticker} : /\ th'[t] \in Locals /\ th'[t].at = th[t].at /\ th'[t].on = th[t].on
                                    /\ th'[t].seen = th[t].seen /\ th'[t].buff.id = th[t].buff.id
  BY <1>7, <1>8, <1>9
<1>11. T'.at = "players" /\ T'.dots = {} /\ T'.at \notin Aimed /\ T'.at \notin Read /\ T'.at \notin Turn
       /\ T'.at \notin {"dots", "dot"}
  BY <1>4, <1>9 DEF Aimed, Read, Turn
<1>12. Threads'
  <2>1. th' = [t \in Thread |-> th'[t]]
    BY <1>5
  <2>2. \A t \in Thread : th'[t] \in Locals
    BY <1>4, <1>9, <1>10 DEF T
  <2>3. th' \in [Thread -> Locals]
    BY <2>1, <2>2
  <2>4. ASSUME NEW t \in Thread
        PROVE  /\ th'[t].at \in Aimed => th'[t].on \in Entity
               /\ th'[t].at \in Read => th'[t].seen \in 0..MaxHP
    <3>1. CASE t = Ticker
      BY <1>11, <3>1 DEF T
    <3>2. CASE t # Ticker
      BY <1>10, <3>2 DEF CombatInv, Threads
    <3> QED BY <3>1, <3>2
  <2> QED BY <2>3, <2>4 DEF Threads
<1>13. \A p \in Player : /\ th'[p].at = th[p].at /\ th'[p].on = th[p].on /\ th'[p].seen = th[p].seen
                         /\ th'[p].buff.id = th[p].buff.id
  BY <1>6, <1>10
<1>14. buffs \in [Entity -> SUBSET Effects]
  BY DEF CombatInv, Typed
<1>15. \A e \in Entity : \A c \in buffs'[e] : \E b \in buffs[e] : b \in Effects /\ c = Elapsed(b)
  BY <1>1, <1>14
<1>16. buffs' \in [Entity -> SUBSET Effects]
  <2>1. \A e \in Entity : {Elapsed(b) : b \in buffs[e]} \in SUBSET Effects
    BY <1>14, ElapsedIs
  <2> QED BY <1>1, <2>1
<1>17. beat' \in 0..RegenEvery - 1
  BY <1>1, CombatAssumption DEF CombatInv, Typed
<1>18. Typed'
  BY <1>1, <1>16, <1>17 DEF CombatInv, Typed, ecs
<1>19. Spawned' /\ LootInv'
  BY <1>1, <1>13, LootKept DEF CombatInv, ecs
<1>20. LevelInv'
  BY <1>1, <1>13 DEF CombatInv, LevelInv, ecs
<1>21. TurnOnce'
  BY <1>11 DEF TurnOnce
<1>22. \A d \in Dot : \A p \in Player : Casting(p, d)' <=> Casting(p, d)
  BY <1>13 DEF Casting
<1>23. \A e \in Entity : \A c \in buffs'[e] : \E b \in buffs[e] :
         b \in Effects /\ c = Elapsed(b) /\ c.id = b.id /\ c.left = Less(b.left)
  BY <1>15, ElapsedIs
<1>24. IdsGiven'
  BY <1>1, <1>11, <1>22, <1>23 DEF CombatInv, DotInv, IdsGiven
<1>25. CastOnce'
  <2> SUFFICES ASSUME NEW c \in Dot, NEW p \in Player, Casting(p, c)'
               PROVE  /\ hits'[c] = 0 /\ c \notin T'.dots
                      /\ \A f \in Entity : \A b \in buffs'[f] : b.id # c
                      /\ \A u \in Player : Casting(u, c)' => u = p
    BY DEF CastOnce
  <2>1. /\ hits[c] = 0
        /\ \A f \in Entity : \A b \in buffs[f] : b.id # c
        /\ \A u \in Player : Casting(u, c) => u = p
    BY <1>22 DEF CombatInv, DotInv, CastOnce
  <2> QED BY <1>1, <1>11, <1>22, <1>23, <2>1
<1>26. OnOne'
  <2>1. OneEntry'
    <3> SUFFICES ASSUME NEW e \in Entity, NEW c \in buffs'[e], NEW z \in buffs'[e], c.id = z.id
                 PROVE  c = z
      BY DEF OneEntry
    <3>1. PICK b \in buffs[e] : c = Elapsed(b) /\ c.id = b.id
      BY <1>23
    <3>2. PICK a \in buffs[e] : z = Elapsed(a) /\ z.id = a.id
      BY <1>23
    <3>3. a = b
      BY <3>1, <3>2 DEF CombatInv, DotInv, OnOne, OneEntry
    <3> QED BY <3>1, <3>2, <3>3
  <2>2. ASSUME NEW d \in Dot, NEW e \in Entity, NEW f \in Entity, NEW c \in buffs'[e], NEW z \in buffs'[f],
               c.id = d, z.id = d
        PROVE  e = f
    <3>1. PICK b \in buffs[e] : c.id = b.id
      BY <1>23
    <3>2. PICK a \in buffs[f] : z.id = a.id
      BY <1>23
    <3> QED BY <2>2, <3>1, <3>2 DEF CombatInv, DotInv, OnOne
  <2> QED BY <1>11, <2>1, <2>2 DEF OnOne
<1>27. HurtInv'
  <2>1. DotHitsBounded'
    BY <1>1 DEF CombatInv, DotInv, HurtInv, DotHitsBounded
  <2>2. ASSUME NEW d \in Dot, NEW e \in Entity, NEW c \in buffs'[e], c.id = d
        PROVE  hits'[d] + c.left <= Duration
    <3>1. PICK b \in buffs[e] : b \in Effects /\ c.id = b.id /\ c.left = Less(b.left)
      BY <1>23
    <3>2. hits[d] + b.left <= Duration + 1 /\ hits[d] <= Duration
      BY <2>2, <3>1 DEF CombatInv, DotInv, HurtInv, DotHitsBounded
    <3>3. hits[d] \in Nat /\ b.left \in Nat /\ Duration \in Nat /\ hits'[d] = hits[d]
      BY <1>1, <3>1, CombatAssumption DEF CombatInv, Typed, Effects
    <3> QED BY <3>1, <3>2, <3>3 DEF Less
  <2>3. ASSUME NEW d \in Dot, NEW e \in Entity, NEW c \in buffs'[e], c.id = d
        PROVE  hits'[d] + c.left <= Duration + 1
    <3>1. hits'[d] + c.left <= Duration
      BY <2>2, <2>3
    <3>2. hits'[d] \in Nat /\ c.left \in Nat /\ Duration \in Nat
      BY <1>16, <1>18, <2>3, CombatAssumption DEF Typed, Effects
    <3> QED BY <3>1, <3>2
  <2> QED BY <1>11, <2>1, <2>2, <2>3 DEF HurtInv
<1>28. DotInv'
  BY <1>21, <1>24, <1>25, <1>26, <1>27 DEF DotInv
<1> QED BY <1>12, <1>18, <1>19, <1>20, <1>28 DEF CombatInv

-----------------------------------------------------------------------------
(* The whole of it.                                                        *)

LEMMA CombatStarts == Init => CombatInv
<1> SUFFICES ASSUME Init PROVE CombatInv
  OBVIOUS
<1>1. Typed
  <2>1. 0 \in 0..MaxHP /\ 0 \in 0..MaxLevel /\ 1 \in 1..MaxLevel /\ 0 \in 0..RegenEvery - 1
        /\ 1 \in 1..MaxDots + 1
    BY CombatAssumption
  <2> QED BY <2>1 DEF Init, Typed, Entity
<1>2. \A t \in Thread : th[t] = Idle
  BY DEF Init
<1>3. T = Idle
  BY <1>2, TickerApart DEF T
<1>4. Idle.at = "idle" /\ Idle.dots = {} /\ "idle" \notin Aimed /\ "idle" \notin Read /\ "idle" \notin Turn
      /\ Idle \in Locals
  BY IdleIs DEF Aimed, Read, Turn
<1>5. Threads
  BY <1>2, <1>4 DEF Init, Threads
<1>6. Spawned /\ LootInv
  BY CombatAssumption DEF Init, Spawned, LootInv, Kills
<1>7. LevelInv
  <2>1. \A t \in Player : th[t].at # "raise"
    BY <1>2, <1>4, TickerApart
  <2> QED BY <2>1 DEF Init, LevelInv
<1>8. \A d \in Dot : \A p \in Player : ~Casting(p, d)
  BY <1>2, <1>4, TickerApart DEF Casting
<1>9. \A e \in Entity : buffs[e] = {}
  BY DEF Init
<1>10. \A d \in Dot : hits[d] = 0
  BY DEF Init
<1>11. TurnOnce /\ IdsGiven /\ CastOnce /\ OnOne
  BY <1>3, <1>4, <1>8, <1>9, <1>10 DEF TurnOnce, IdsGiven, CastOnce, OnOne, OneEntry
<1>12. HurtInv
  BY <1>3, <1>4, <1>9, <1>10, CombatAssumption DEF HurtInv, DotHitsBounded
<1> QED BY <1>1, <1>5, <1>6, <1>7, <1>11, <1>12 DEF CombatInv, DotInv

LEMMA CombatStep == CombatInv /\ [Next]_vars => CombatInv'
<1> SUFFICES ASSUME CombatInv, [Next]_vars PROVE CombatInv'
  OBVIOUS
<1>1. CASE UNCHANGED vars
  <2>1. Typed'
    BY <1>1 DEF vars, ecs, CombatInv, Typed
  <2> QED BY <1>1, <2>1, AllQuiet DEF vars, ecs
<1>2. CASE TickStep
  BY <1>2, TickBeginStep, RegenStep, PurgeStep, DotWriteStep, DotDeathSteps, DotDespawnStep, HerdSteps,
     TickPlayerStep, DotReadStep DEF TickStep
<1>3. ASSUME NEW p \in Player, HandlerStep(p) PROVE CombatInv'
  BY <1>3, EnterStatsStep, ReviveSteps, SpawnPlaceStep, HitReadStep, HitWriteStep, HealSteps, CastAddStep,
     DeathSteps, LootStep, DespawnStep, RaiseStep, AwardStep DEF HandlerStep
<1>4. ASSUME NEW p \in Player, Packet(p) PROVE CombatInv'
  BY <1>4, EnterPlaceStep, MoveStep, ReviveSteps, SpawnStep, AttackStep, CastStep, HealSteps DEF Packet
<1>5. ASSUME NEW p \in Player, Leave(p) PROVE CombatInv'
  BY <1>5, LeaveStep
<1> QED BY <1>1, <1>2, <1>3, <1>4, <1>5 DEF Next

LEMMA CombatInvariant == Spec => []CombatInv
BY CombatStarts, CombatStep, PTL DEF Spec

\* An effect works once a tick and no longer than it was cast for, and an
\* entity has one entry of an id: apply_buff and apply_dot take the expiry
\* before they add the entry (bridge.go:434-443), the tick purges and hurts
\* from a snapshot (on_tick.lua), and both run in VMs of their own.
THEOREM CombatEffectsBounded == Spec => []EffectsBounded
<1>1. CombatInv => EffectsBounded
  <2> SUFFICES ASSUME CombatInv PROVE EffectsBounded
    OBVIOUS
  <2>1. TypeOK
    BY DEF CombatInv, Typed, TypeOK, Effects
  <2>2. OneEntry
    BY DEF CombatInv, DotInv, OnOne
  <2>3. DotHitsBounded
    BY DEF CombatInv, DotInv, HurtInv
  <2> QED BY <2>1, <2>2, <2>3 DEF EffectsBounded
<1> QED BY <1>1, CombatInvariant, PTL

\* A kill pays once, in loot or in levels, however many handlers see the victim
\* fall: the one who turns to it finds its template gone after the despawn, and
\* a level read from the database is never ahead of what it holds
\* (on_kill.lua:53-59, bridge.go add_exp).
THEOREM CombatKillPaidOnce == Spec => []KillPaidOnce
<1>1. CombatInv => KillPaidOnce
  <2> SUFFICES ASSUME CombatInv PROVE KillPaidOnce
    OBVIOUS
  <2>1. LevelNotAhead
    BY DEF CombatInv, LevelInv, LevelNotAhead
  <2>2. ASSUME NEW x \in Player, NEW n \in Npc PROVE looted[<<x, n>>] \in {0, 1}
    BY DEF CombatInv, LootInv
  <2>3. \A k \in Kills : looted[k] \in {0, 1}
    BY <2>2 DEF Kills
  <2>4. LootOnce
    BY <2>3 DEF LootOnce
  <2> QED BY <2>1, <2>4 DEF KillPaidOnce
<1> QED BY <1>1, CombatInvariant, PTL
=============================================================================
