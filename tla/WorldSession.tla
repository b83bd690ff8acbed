---------------------------- MODULE WorldSession ----------------------------
(***************************************************************************)
(* The life of a game connection across the two services:                  *)
(*   cmd/gateway/game.go, session.go   one goroutine per TCP connection    *)
(*   internal/ipc/nats.go              core NATS, at most once             *)
(*   cmd/world/dispatcher.go           player.enter, player.leave, CM_*    *)
(*   internal/ecs/world.go             entities and their components       *)
(*                                                                         *)
(* The client library runs the callbacks of one subscription one after the *)
(* other on a goroutine of its own, so the World handles one player.enter, *)
(* one player.leave and one packet per session at a time, all of these     *)
(* concurrently, and nothing orders an enter before the leave that was     *)
(* published after it.  A message nobody is subscribed to is lost.         *)
(*                                                                         *)
(* Each access to the session table or to the ECS world is one step: they  *)
(* lock for one call only.                                                 *)
(***************************************************************************)
EXTENDS Naturals, Sequences, FiniteSets

CONSTANTS Conn,        \* TCP connections to the game port
          NoConn,      \* the value of "no connection"
          MaxEntity,   \* bound: entities the World creates
          MaxPackets,  \* bound: packets a connection relays
          MaxFaults    \* bound: restarts of a service and failed subscriptions

ASSUME WorldSessionAssumption ==
         /\ NoConn \notin Conn /\ IsFiniteSet(Conn)
         /\ {MaxEntity, MaxPackets, MaxFaults} \subseteq Nat

VARIABLES
  faults,    \* restarts and failed subscriptions so far
  counter,   \* sessionCounter of the gateway process
  phase,     \* progress of each connection's goroutine
  seq,       \* Session.id of each connection
  smSub,     \* connections that are subscribed to world.sm.{id}
  listed,    \* connections that were sent SM_CHARACTER_LIST by the World
  sent,      \* packets each connection has relayed
  enterQ,    \* player.enter events waiting: the connections they announce
  leaveQ,    \* player.leave events waiting: the session ids they name
  cmQ,       \* packets waiting in each entity's player.cm.{id} subscription
  up,        \* the World process runs
  nextID,    \* the next entity id
  alive,     \* World.alive
  player,    \* World.Players: the connection whose data each entity holds
  bySeq,     \* World.BySeqID
  placed,    \* World.Positions: entities that have a position
  session,   \* Dispatcher.sessions: the entity of each session id
  sub,       \* the id each entity's CM subscription listens to, 0 when none
  enter,     \* the player.enter callback in progress
  leave,     \* the player.leave callback in progress
  busy       \* the packet each entity's CM callback is handling

gateway == <<counter, phase, seq, smSub, listed, sent>>
broker  == <<enterQ, leaveQ, cmQ>>
ecs     == <<nextID, alive, player, bySeq, placed>>
table   == <<session, sub>>
calls   == <<enter, leave, busy>>
vars    == <<faults, gateway, broker, up, ecs, table, calls>>

Entity   == 1 .. MaxEntity
NoEntity == 0
SeqID    == 1 .. Cardinality(Conn)
NoSeq    == 0

Idle     == [step |-> "idle", ent |-> NoEntity, conn |-> NoConn]

TypeOK ==
  /\ faults \in 0 .. MaxFaults
  /\ counter \in 0 .. Cardinality(Conn)
  /\ phase \in [Conn -> {"none", "auth", "list", "entered", "relay", "gone"}]
  /\ seq \in [Conn -> SeqID \cup {NoSeq}]
  /\ smSub \in SUBSET Conn
  /\ listed \in SUBSET Conn
  /\ sent \in [Conn -> 0 .. MaxPackets]
  /\ enterQ \in Seq(Conn)
  /\ leaveQ \in Seq(SeqID)
  /\ cmQ \in [Entity -> Seq(Conn)]
  /\ up \in BOOLEAN
  /\ nextID \in 1 .. MaxEntity + 1
  /\ alive \in SUBSET Entity
  /\ player \in [Entity -> Conn \cup {NoConn}]
  /\ bySeq \in [SeqID -> Entity \cup {NoEntity}]
  /\ placed \in SUBSET Entity
  /\ session \in [SeqID -> Entity \cup {NoEntity}]
  /\ sub \in [Entity -> SeqID \cup {NoSeq}]
  /\ enter \in [step : {"idle", "new", "set", "subscribed", "stored"},
                ent : Entity \cup {NoEntity}, conn : Conn \cup {NoConn}]
  /\ leave \in [step : {"idle", "taken", "unsubscribed"},
                ent : Entity \cup {NoEntity}, conn : {NoConn}]
  /\ busy \in [Entity -> Conn \cup {NoConn}]

NoPacket  == [e \in Entity |-> <<>>]
NoneOf    == [e \in Entity |-> NoConn]
NoEntry   == [s \in SeqID |-> NoEntity]
NoSub     == [e \in Entity |-> NoSeq]

Init ==
  /\ faults = 0
  /\ counter = 0
  /\ phase = [c \in Conn |-> "none"]
  /\ seq = [c \in Conn |-> NoSeq]
  /\ smSub = {}
  /\ listed = {}
  /\ sent = [c \in Conn |-> 0]
  /\ enterQ = <<>> /\ leaveQ = <<>> /\ cmQ = NoPacket
  /\ up = TRUE
  /\ nextID = 1 /\ alive = {} /\ player = NoneOf /\ bySeq = NoEntry /\ placed = {}
  /\ session = NoEntry /\ sub = NoSub
  /\ enter = Idle /\ leave = Idle /\ busy = NoneOf

-----------------------------------------------------------------------------
(* The gateway: one goroutine per connection *)

\* Mutant of Accept: the counter is read and not advanced in one step.
AcceptSameID(c) ==
  /\ phase[c] = "none"
  /\ phase' = [phase EXCEPT ![c] = "auth"]
  /\ counter' = 1
  /\ seq' = [seq EXCEPT ![c] = 1]
  /\ UNCHANGED <<faults, smSub, listed, sent, broker, up, ecs, table, calls>>

\* A client connects; newSession takes the next id.
Accept(c) ==
  /\ phase[c] = "none"
  /\ phase' = [phase EXCEPT ![c] = "auth"]
  /\ counter' = counter + 1
  /\ seq' = [seq EXCEPT ![c] = counter + 1]
  /\ UNCHANGED <<faults, smSub, listed, sent, broker, up, ecs, table, calls>>

\* CM_L2AUTH_LOGIN_CHECK with a token the store accepts: the session now has
\* an account, so its end will be announced.
Authenticate(c) ==
  /\ phase[c] = "auth"
  /\ phase' = [phase EXCEPT ![c] = "list"]
  /\ UNCHANGED <<faults, counter, seq, smSub, listed, sent, broker, up, ecs, table, calls>>

\* The character list phase is over: player.enter is published.
AnnounceEnter(c) ==
  /\ phase[c] = "list"
  /\ phase' = [phase EXCEPT ![c] = "entered"]
  /\ enterQ' = IF up THEN Append(enterQ, c) ELSE enterQ
  /\ UNCHANGED <<faults, counter, seq, smSub, listed, sent, leaveQ, cmQ, up, ecs, table, calls>>

\* Only now does the connection subscribe to the World's packets; when that
\* fails the relay loop runs without them.
SubscribeSM(c) ==
  /\ phase[c] = "entered"
  /\ phase' = [phase EXCEPT ![c] = "relay"]
  /\ \/ smSub' = smSub \cup {c} /\ UNCHANGED faults
     \/ faults < MaxFaults /\ faults' = faults + 1 /\ UNCHANGED smSub
  /\ UNCHANGED <<counter, seq, listed, sent, broker, up, ecs, table, calls>>

\* The relay loop publishes a client packet on player.cm.{id}: every
\* subscription to that subject gets it.
RelayCM(c) ==
  /\ phase[c] = "relay"
  /\ sent[c] < MaxPackets
  /\ sent' = [sent EXCEPT ![c] = @ + 1]
  /\ cmQ' = [e \in Entity |-> IF sub[e] = seq[c] THEN Append(cmQ[e], c) ELSE cmQ[e]]
  /\ UNCHANGED <<faults, counter, phase, seq, smSub, listed, enterQ, leaveQ, up, ecs, table, calls>>

\* The goroutine returns: the client quits, a read times out, a send fails or
\* a token is refused.  Its defers unsubscribe and, once the session had an
\* account, publish player.leave.
Disconnect(c) ==
  /\ phase[c] \in {"auth", "list", "entered", "relay"}
  /\ phase' = [phase EXCEPT ![c] = "gone"]
  /\ smSub' = smSub \ {c}
  /\ leaveQ' = IF up /\ phase[c] # "auth" THEN Append(leaveQ, seq[c]) ELSE leaveQ
  /\ UNCHANGED <<faults, counter, seq, listed, sent, enterQ, cmQ, up, ecs, table, calls>>

\* The gateway process ends and starts again: main returns without waiting for
\* the connection goroutines, so nothing is published, and ids restart at 1.
RestartGateway ==
  /\ faults < MaxFaults
  /\ faults' = faults + 1
  /\ counter' = 0
  /\ phase' = [c \in Conn |-> IF phase[c] = "none" THEN "none" ELSE "gone"]
  /\ smSub' = {}
  /\ UNCHANGED <<seq, listed, sent, broker, up, ecs, table, calls>>

-----------------------------------------------------------------------------
(* The World: the player.enter callback *)

\* NewEntity.
EnterBegin ==
  /\ up
  /\ enter.step = "idle"
  /\ enterQ # <<>>
  /\ nextID \in Entity
  /\ nextID' = nextID + 1
  /\ alive' = alive \cup {nextID}
  /\ enter' = [step |-> "new", ent |-> nextID, conn |-> Head(enterQ)]
  /\ enterQ' = Tail(enterQ)
  /\ UNCHANGED <<faults, gateway, leaveQ, cmQ, up, player, bySeq, placed, table, leave, busy>>

\* SetPlayer: the component and the reverse index.
EnterSetPlayer ==
  /\ enter.step = "new"
  /\ player' = [player EXCEPT ![enter.ent] = enter.conn]
  /\ bySeq' = [bySeq EXCEPT ![seq[enter.conn]] = enter.ent]
  /\ enter' = [enter EXCEPT !.step = "set"]
  /\ UNCHANGED <<faults, gateway, broker, up, nextID, alive, placed, table, leave, busy>>

\* Subscribe to player.cm.{id}; a failure only leaves a no-op unsubscribe.
EnterSubscribe ==
  /\ enter.step = "set"
  /\ \/ sub' = [sub EXCEPT ![enter.ent] = seq[enter.conn]] /\ UNCHANGED faults
     \/ faults < MaxFaults /\ faults' = faults + 1 /\ UNCHANGED sub
  /\ enter' = [enter EXCEPT !.step = "subscribed"]
  /\ UNCHANGED <<gateway, broker, up, ecs, session, leave, busy>>

\* sessions.Store, over whatever the id was mapped to.
EnterStore ==
  /\ enter.step = "subscribed"
  /\ session' = [session EXCEPT ![seq[enter.conn]] = enter.ent]
  /\ enter' = [enter EXCEPT !.step = "stored"]
  /\ UNCHANGED <<faults, gateway, broker, up, ecs, sub, leave, busy>>

\* sendCharacterList publishes on world.sm.{id}; who is subscribed gets it.
EnterSendList ==
  /\ enter.step = "stored"
  /\ listed' = listed \cup {c \in smSub : seq[c] = seq[enter.conn]}
  /\ enter' = Idle
  /\ UNCHANGED <<faults, counter, phase, seq, smSub, sent, broker, up, ecs, table, leave, busy>>

-----------------------------------------------------------------------------
(* The World: the player.leave callback *)

\* Mutants of LeaveTake: a session whose packet is being handled is skipped;
\* the entry is deleted and nothing else done.
LeaveTakeUnlessBusy ==
  /\ up
  /\ leave.step = "idle"
  /\ leaveQ # <<>>
  /\ LET s == Head(leaveQ) IN
       IF session[s] = NoEntity \/ busy[session[s]] # NoConn
         THEN UNCHANGED <<session, leave>>
         ELSE /\ session' = [session EXCEPT ![s] = NoEntity]
              /\ leave' = [Idle EXCEPT !.step = "taken", !.ent = session[s]]
  /\ leaveQ' = Tail(leaveQ)
  /\ UNCHANGED <<faults, gateway, enterQ, cmQ, up, ecs, sub, enter, busy>>

LeaveTakeForgets ==
  /\ up
  /\ leave.step = "idle"
  /\ leaveQ # <<>>
  /\ session' = [session EXCEPT ![Head(leaveQ)] = NoEntity]
  /\ leaveQ' = Tail(leaveQ)
  /\ UNCHANGED <<faults, gateway, enterQ, cmQ, up, ecs, sub, calls>>

\* LoadAndDelete; an unknown id is ignored.
LeaveTake ==
  /\ up
  /\ leave.step = "idle"
  /\ leaveQ # <<>>
  /\ LET s == Head(leaveQ) IN
       \/ session[s] = NoEntity /\ UNCHANGED <<session, leave>>
       \/ /\ session[s] # NoEntity
          /\ session' = [session EXCEPT ![s] = NoEntity]
          /\ leave' = [Idle EXCEPT !.step = "taken", !.ent = session[s]]
  /\ leaveQ' = Tail(leaveQ)
  /\ UNCHANGED <<faults, gateway, enterQ, cmQ, up, ecs, sub, enter, busy>>

\* Unsubscribe: what the subscription has not delivered is dropped, a callback
\* that runs goes on.
LeaveUnsubscribe ==
  /\ leave.step = "taken"
  /\ sub' = [sub EXCEPT ![leave.ent] = NoSeq]
  /\ cmQ' = [cmQ EXCEPT ![leave.ent] = <<>>]
  /\ leave' = [leave EXCEPT !.step = "unsubscribed"]
  /\ UNCHANGED <<faults, gateway, enterQ, leaveQ, up, ecs, session, enter, busy>>

\* Mutant of LeaveDestroy: the reverse index keeps the entity.
LeaveDestroyKeepsIndex ==
  /\ leave.step = "unsubscribed"
  /\ alive' = alive \ {leave.ent}
  /\ player' = [player EXCEPT ![leave.ent] = NoConn]
  /\ placed' = placed \ {leave.ent}
  /\ leave' = Idle
  /\ UNCHANGED <<faults, gateway, broker, up, nextID, bySeq, table, enter, busy>>

\* DestroyEntity: the index entry of the entity's session id, whatever entity
\* it names, then every component.
LeaveDestroy ==
  /\ leave.step = "unsubscribed"
  /\ bySeq' = IF player[leave.ent] = NoConn THEN bySeq
              ELSE [bySeq EXCEPT ![seq[player[leave.ent]]] = NoEntity]
  /\ alive' = alive \ {leave.ent}
  /\ player' = [player EXCEPT ![leave.ent] = NoConn]
  /\ placed' = placed \ {leave.ent}
  /\ leave' = Idle
  /\ UNCHANGED <<faults, gateway, broker, up, nextID, table, enter, busy>>

-----------------------------------------------------------------------------
(* The World: the player.cm.{id} callback of one entity *)

\* A packet is taken and the player's data looked up.
DispatchBegin(e) ==
  /\ busy[e] = NoConn
  /\ cmQ[e] # <<>>
  /\ busy' = [busy EXCEPT ![e] = Head(cmQ[e])]
  /\ cmQ' = [cmQ EXCEPT ![e] = Tail(@)]
  /\ UNCHANGED <<faults, gateway, enterQ, leaveQ, up, ecs, table, enter, leave>>

\* The Lua handler ends.  Some handlers (CM_ENTER_WORLD, CM_MOVE, CM_TELEPORT)
\* set the entity's position, after their database calls.
DispatchEnd(e) ==
  /\ busy[e] # NoConn
  /\ placed' \in {placed, placed \cup {e}}
  /\ busy' = [busy EXCEPT ![e] = NoConn]
  /\ UNCHANGED <<faults, gateway, broker, up, nextID, alive, player, bySeq, table, enter, leave>>

-----------------------------------------------------------------------------
(* The World process *)

\* All of the World's state is in memory, and what was on its way to its
\* subscriptions is lost.
CrashWorld ==
  /\ up
  /\ faults < MaxFaults
  /\ faults' = faults + 1
  /\ enterQ' = <<>> /\ leaveQ' = <<>> /\ cmQ' = NoPacket
  /\ up' = FALSE
  /\ nextID' = 1 /\ alive' = {} /\ player' = NoneOf /\ bySeq' = NoEntry /\ placed' = {}
  /\ session' = NoEntry /\ sub' = NoSub
  /\ enter' = Idle /\ leave' = Idle /\ busy' = NoneOf
  /\ UNCHANGED gateway

StartWorld ==
  /\ ~up
  /\ up' = TRUE
  /\ UNCHANGED <<faults, gateway, broker, ecs, table, calls>>

-----------------------------------------------------------------------------

EnterStep == EnterBegin \/ EnterSetPlayer \/ EnterSubscribe \/ EnterStore \/ EnterSendList
LeaveStep == LeaveTake \/ LeaveUnsubscribe \/ LeaveDestroy
DispatchStep(e) == DispatchBegin(e) \/ DispatchEnd(e)
ConnStep(c) == \/ Accept(c) \/ Authenticate(c) \/ AnnounceEnter(c)
               \/ SubscribeSM(c) \/ RelayCM(c) \/ Disconnect(c)

Next ==
  \/ \E c \in Conn : ConnStep(c)
  \/ EnterStep
  \/ LeaveStep
  \/ \E e \in Entity : DispatchStep(e)
  \/ RestartGateway
  \/ CrashWorld
  \/ StartWorld

\* NATS delivers what it queued and the Go runtime runs every callback; the
\* client owes the server nothing.
Fairness ==
  /\ WF_vars(EnterStep)
  /\ WF_vars(LeaveStep)
  /\ \A e \in Entity : WF_vars(DispatchStep(e))
  /\ \A c \in Conn : WF_vars(SubscribeSM(c))
  /\ WF_vars(StartWorld)

Spec     == Init /\ [][Next]_vars
FairSpec == Spec /\ Fairness

-----------------------------------------------------------------------------
(* Properties *)

InQueue(q) == {q[i] : i \in 1 .. Len(q)}

\* What the reverse index (world.go:63) names is a live entity of that session,
\* through every restart, loss and overlap of enter and leave.
IndexSound ==
  \A s \in SeqID : bySeq[s] # NoEntity =>
    /\ bySeq[s] \in alive
    /\ player[bySeq[s]] # NoConn
    /\ seq[player[bySeq[s]]] = s

\* No service was restarted and no subscription failed: ids are not reused.
Undisturbed == faults = 0

\* While no id is reused, every live entity can still be found by its leave:
\* it is in the session table, or the callback that enters or removes it runs.
NoOrphanEntity ==
  Undisturbed => \A e \in alive :
    \/ enter.step # "idle" /\ enter.ent = e
    \/ leave.step # "idle" /\ leave.ent = e
    \/ player[e] # NoConn /\ session[seq[player[e]]] = e /\ bySeq[seq[player[e]]] = e

\* While no id is reused, a packet is handled only for the entity of the
\* connection that sent it (dispatcher.go:57).
OwnPackets ==
  Undisturbed => \A e \in Entity :
    /\ \A c \in InQueue(cmQ[e]) : player[e] = c
    /\ busy[e] # NoConn /\ e \in alive => player[e] = busy[e]

\* A session's table entry, entity, index and packets belong together, in every
\* order of the callbacks of enter, leave and packets.
SessionsApart == TypeOK /\ NoOrphanEntity /\ OwnPackets

\* While no id is reused, a session that is still connected never loses its
\* entity or its packet subscription.
ConnectedKeepsEntity ==
  [][Undisturbed' => \A e \in alive :
       player[e] # NoConn /\ phase[player[e]] # "gone"
         => e \in alive' /\ (sub[e] # NoSeq => sub'[e] = sub[e])]_vars

\* A connection that announced itself gets an entity, unless it goes first.
SessionGetsEntity ==
  \A c \in Conn :
    phase[c] \in {"entered", "relay"}
      ~> ~Undisturbed \/ phase[c] = "gone" \/ \E e \in alive : player[e] = c

\* A leave that finds its session in the table removes the entity.
EndedSessionIsCleaned ==
  \A e \in Entity :
    (e \in alive /\ \E s \in InQueue(leaveQ) : session[s] = e) ~> ~Undisturbed \/ e \notin alive

\* Every session that is announced comes to be, and every one that ends is
\* removed (dispatcher.go:91).
SessionsSettle == SessionGetsEntity /\ EndedSessionIsCleaned

\* "player.leave -> cancel subscription + destroy ECS entity" (dispatcher.go:25):
\* with every event handled, a connection that is gone has no entity.
Settled == enterQ = <<>> /\ leaveQ = <<>> /\ enter.step = "idle" /\ leave.step = "idle"

LeaveCleansUp ==
  Settled => \A e \in alive : phase[player[e]] # "gone"

\* "GetNearby returns all live entities within radius" (world.go:285): it scans
\* the positions, so every entity that has one should be alive.
NearbyAreLive == placed \subseteq alive

\* "sends SM_CHARACTER_LIST to the client via the Gateway" (dispatcher.go:203):
\* a connection whose enter was handled has been sent its list.
CharListDelivered ==
  \A c \in Conn :
    phase[c] = "relay" /\ Settled /\ (\E e \in alive : player[e] = c) => c \in listed

\* "monotonically increasing session ID" (session.go:33): two live entities
\* never share one.
SessionIDUnique ==
  \A d, e \in alive :
    player[d] # NoConn /\ player[e] # NoConn /\ seq[player[d]] = seq[player[e]] => d = e
=============================================================================
