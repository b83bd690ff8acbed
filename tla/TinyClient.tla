----------------------------- MODULE TinyClient -----------------------------
(***************************************************************************)
(* The game phase of the end-to-end test client (cmd/tinyclient): it walks *)
(* through the stages up to endStage, at each one sending a request and    *)
(* reading packets until the answer, an unexpected packet, or the deadline *)
(* of the read, and its exit status tells a script whether the server did  *)
(* what the stages ask for.  The World answers whenever it likes, pushes   *)
(* packets of its own, and reports deaths to whoever stands near.  What    *)
(* the packets are made of is in Wire and Codec.                           *)
(***************************************************************************)
EXTENDS Naturals, Sequences, Lists

CONSTANTS
    MaxRounds,      \* maxRounds of attackUntilDie
    MaxPushed       \* bound on the packets the World pushes unasked

VARIABLES
    endStage,       \* --stage
    at,             \* what the client waits for, or "done"
    tries,          \* packets read by the handshake, or rounds of attack
    split,          \* a deadline cut a packet: the stream is out of step
    status,         \* "running", then the exit status
    requests,       \* requests the World has not handled
    inbox,          \* packets on their way to the client
    pushed,         \* packets pushed unasked
    wired,          \* this World hands out loot
    has, inWorld, mob, seenDeath, given     \* what the World has done for the account

vars == <<endStage, at, tries, split, status, requests, inbox, pushed, wired,
          has, inWorld, mob, seenDeath, given>>
client == <<endStage, at, tries, split, status>>
world == <<wired, has, inWorld, mob, seenDeath, given>>

stageOrdered == <<"login", "list", "create", "select", "world", "attack", "loot">>
StageOf(stage) == CHOOSE i \in DOMAIN stageOrdered : stageOrdered[i] = stage
Upto(stage) == StageOf(endStage) <= StageOf(stage)
Past(stage) == ~Upto(stage)

Pkt(op) == [op |-> op, count |-> 0]

Init == /\ endStage \in Range(stageOrdered) \ {"login"}
        /\ at = "list" /\ tries = 0 /\ split = FALSE /\ status = "running"
        /\ requests = {"confirm"} /\ inbox = <<>> /\ pushed = 0
        /\ wired \in BOOLEAN /\ has \in {0, 1}
        /\ inWorld = FALSE /\ mob = "alive" /\ seenDeath = FALSE /\ given = FALSE

-----------------------------------------------------------------------------
(* The World, as the client sees it. *)
Answers(request, packets) ==
    /\ request \in requests /\ requests' = requests \ {request} /\ inbox' = inbox \o packets
    /\ UNCHANGED <<client, pushed, wired>>

WorldLists == /\ Answers("confirm", <<[Pkt("char_list") EXCEPT !.count = has]>>)
              /\ UNCHANGED <<has, inWorld, mob, seenDeath, given>>
WorldCreates == /\ \/ Answers("create", <<Pkt("create_ok")>>) /\ has' = 1
                   \/ Answers("create", <<Pkt("create_refused")>>) /\ UNCHANGED has
                /\ UNCHANGED <<inWorld, mob, seenDeath, given>>
WorldEnters == /\ Answers("enter", <<Pkt("enter_ok")>>) /\ inWorld' = TRUE
               /\ UNCHANGED <<has, mob, seenDeath, given>>

\* A skill that does not kill answers with other packets or none.
WorldStrikes ==
    /\ \/ /\ mob = "alive" /\ mob' = "dead" /\ seenDeath' = TRUE
          /\ \E packets \in (IF wired THEN {<<Pkt("die"), Pkt("loot")>>, <<Pkt("loot"), Pkt("die")>>}
                             ELSE {<<Pkt("die")>>}) : Answers("skill", packets)
       \/ Answers("skill", <<>>) /\ UNCHANGED <<mob, seenDeath>>
    /\ UNCHANGED <<has, inWorld, given>>
WorldLoots == /\ wired /\ Answers("pickup", <<Pkt("items")>>) /\ given' = TRUE
              /\ UNCHANGED <<has, inWorld, mob, seenDeath>>

\* A packet of another service, or the death of somebody near.
WorldPushes == /\ pushed < MaxPushed /\ pushed' = pushed + 1
               /\ \E op \in {"other"} \cup (IF inWorld THEN {"die"} ELSE {}) :
                      /\ inbox' = Append(inbox, Pkt(op))
                      /\ seenDeath' = (seenDeath \/ op = "die")
               /\ UNCHANGED <<client, requests, wired, has, inWorld, mob, given>>

-----------------------------------------------------------------------------
Exit(code) == at' = "done" /\ status' = code /\ UNCHANGED <<tries, split, requests>>
Ask(request, next) == at' = next /\ requests' = requests \cup {request} /\ UNCHANGED <<split, status>>

\* The next request after the character is known.
EnterOrStop == IF Upto("select") THEN Exit("ok") ELSE Ask("enter", "enter") /\ UNCHANGED tries

Takes(op) == /\ at # "done" /\ ~split /\ inbox # <<>> /\ Head(inbox).op = op /\ inbox' = Tail(inbox)
             /\ UNCHANGED <<endStage, pushed, world>>

ListRead == /\ at = "list" /\ Takes("char_list")
            /\ IF Upto("list") THEN Exit("ok")
               ELSE IF Head(inbox).count = 0 THEN Ask("create", "create") /\ UNCHANGED tries
               ELSE EnterOrStop

\* One packet of another kind may come before the list.
ListSkips == /\ at = "list" /\ Takes("other")
             /\ IF tries = 0 THEN tries' = 1 /\ UNCHANGED <<at, split, status, requests>>
                ELSE Exit("failed")

CreateRead == /\ at = "create" /\ Takes("create_ok") /\ EnterOrStop
CreateFails == /\ at = "create" /\ \E op \in {"create_refused", "other"} : Takes(op) /\ Exit("failed")

EnterRead == /\ at = "enter" /\ Takes("enter_ok")
             /\ IF Upto("world") THEN Exit("ok") ELSE Ask("skill", "die") /\ tries' = 1
DieReadOnce == /\ at = "die" /\ Takes("die") /\ Exit("ok")
DieRead == /\ at = "die" /\ Takes("die")
           /\ IF Upto("attack") THEN Exit("ok")
              ELSE at' = "loot" /\ UNCHANGED <<tries, split, status, requests>>
LootRead == /\ at = "loot" /\ Takes("loot") /\ Ask("pickup", "items") /\ UNCHANGED tries
ItemsRead == /\ at = "items" /\ Takes("items") /\ Exit("ok")

\* Every other packet is logged and dropped, a loot packet before SM_DIE, too,
\* which lootCorpse (main.go:594) expects to see in any order.
Awaits == [enter |-> "enter_ok", die |-> "die", loot |-> "loot", items |-> "items"]
SidePacket == /\ at \in DOMAIN Awaits /\ \E op \in {"other", "die", "loot"} \ {Awaits[at]} : Takes(op)
              /\ UNCHANGED <<at, tries, split, status, requests>>

\* The deadline of a read, which may cut a packet; only the attack goes on.
DeadlinePasses ==
    /\ at # "done" /\ split' \in (IF inbox = <<>> THEN {split} ELSE {split, TRUE})
    /\ IF at = "die" /\ tries < MaxRounds
       THEN tries' = tries + 1 /\ requests' = requests \cup {"skill"} /\ UNCHANGED <<at, status>>
       ELSE at' = "done" /\ status' = "failed" /\ UNCHANGED <<tries, requests>>
    /\ UNCHANGED <<endStage, inbox, pushed, world>>

\* The connection breaks, or the rest of a cut packet reads as an absurd length.
ReadFails == /\ at # "done" /\ Exit("failed") /\ UNCHANGED <<endStage, inbox, pushed, world>>

Next == \/ WorldLists \/ WorldCreates \/ WorldEnters \/ WorldStrikes \/ WorldLoots \/ WorldPushes
        \/ ListRead \/ ListSkips \/ CreateRead \/ CreateFails \/ EnterRead \/ DieRead \/ LootRead
        \/ ItemsRead \/ SidePacket \/ DeadlinePasses \/ ReadFails

Spec == Init /\ [][Next]_vars

-----------------------------------------------------------------------------
\* Exit status 0 is earned: whatever else came and however late, the World has
\* done what every stage up to --stage asks for (gamePhase).
ExitZeroEarned == status = "ok" => /\ Past("list") => has = 1
                                   /\ Past("select") => inWorld
                                   /\ Past("world") => seenDeath
                                   /\ Past("attack") => given
=============================================================================
