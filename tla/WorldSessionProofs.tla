------------------------- MODULE WorldSessionProofs -------------------------
(***************************************************************************)
(* Proofs about WorldSession, for any finite number of connections and any *)
(* bounds.                                                                 *)
(*                                                                         *)
(* Through every fault an entity under construction is nobody else's       *)
(* (EnterOK), one that is not made yet is unknown (FreshOK), and what      *)
(* waits for an entity carries its player's number (SubOK).  Until the     *)
(* first fault numbers are not given twice (NumbersApart), so a connection *)
(* enters once (EntersOnce) and its entity can always be found (Found).    *)
(***************************************************************************)
EXTENDS WorldSession, FiniteSetTheorems, TLAPS

USE WorldSessionAssumption

\* No connection waits twice.
Once(q) == \A i, j \in 1 .. Len(q) : q[i] = q[j] => i = j

\* Before the connection is announced; before its entity is in the table.
Early == {"none", "auth", "list"}
Joining == {"new", "set", "subscribed"}

\* A connection's number is given on acceptance and never changes.
ConnOK ==
  /\ counter <= Cardinality({c \in Conn : phase[c] # "none"})
  /\ \A c \in Conn : phase[c] # "none" => seq[c] \in SeqID
  /\ \A c \in Conn : phase[c] = "none" =>
       /\ seq[c] = NoSeq /\ c \notin InQueue(enterQ) /\ c # enter.conn
       /\ \A e \in Entity : player[e] # c /\ c \notin InQueue(cmQ[e])

\* Nothing is known of entities that do not exist yet.
FreshOK ==
  /\ \A e \in Entity : e >= nextID =>
       e \notin alive /\ player[e] = NoConn /\ sub[e] = NoSeq /\ cmQ[e] = <<>> /\ busy[e] = NoConn
  /\ \A s \in SeqID : session[s] < nextID
  /\ enter.ent < nextID /\ leave.ent < nextID

\* The entity under construction is nobody else's.
EnterOK ==
  /\ enter.step = "idle" => enter = Idle
  /\ enter.step # "idle" => enter.ent \in Entity /\ enter.conn \in Conn
  /\ enter.step \in Joining =>
       enter.ent \in alive /\ leave.ent # enter.ent /\ \A s \in SeqID : session[s] # enter.ent
  /\ enter.step = "new" => player[enter.ent] = NoConn
  /\ enter.step \in {"set", "subscribed"} => player[enter.ent] = enter.conn

LeaveOK ==
  /\ leave.step = "idle" => leave = Idle
  /\ leave.step # "idle" => leave.ent \in Entity
  /\ leave.step = "unsubscribed" => sub[leave.ent] = NoSeq /\ cmQ[leave.ent] = <<>>

\* A subscription and what waits in it are under the number of the entity's player.
SubOK ==
  \A e \in Entity :
    /\ sub[e] # NoSeq => player[e] # NoConn /\ seq[player[e]] = sub[e]
    /\ \A c \in InQueue(cmQ[e]) : player[e] # NoConn /\ seq[player[e]] = seq[c]

-----------------------------------------------------------------------------
(* While nothing was restarted and no subscription failed *)

\* Numbers are distinct, and a leave names one that will not come back.
NumbersApart ==
  /\ up
  /\ \A c \in Conn : phase[c] # "none" => seq[c] <= counter
  /\ \A c, d \in Conn : phase[c] # "none" /\ phase[d] # "none" /\ seq[c] = seq[d] => c = d
  /\ \A s \in InQueue(leaveQ) : s <= counter
  /\ \A c \in Conn : seq[c] \in InQueue(leaveQ) => phase[c] = "gone"

\* A connection is announced once and gets one entity.
EntersOnce ==
  /\ Once(enterQ)
  /\ \A c \in Conn : phase[c] \in Early =>
       c \notin InQueue(enterQ) /\ c # enter.conn /\ \A e \in Entity : player[e] # c
  /\ \A c \in InQueue(enterQ) : c # enter.conn /\ \A e \in Entity : player[e] # c
  /\ \A e \in Entity : player[e] = enter.conn /\ player[e] # NoConn => e = enter.ent
  /\ \A d, e \in Entity : player[d] = player[e] /\ player[d] # NoConn => d = e

\* Every entity can be found: by the index once it has its player, by the
\* table once it is stored, by the leave that took it out of the table.
Found ==
  /\ \A e \in Entity : player[e] # NoConn => e \in alive /\ bySeq[seq[player[e]]] = e
  /\ \A e \in alive :
       /\ player[e] # NoConn \/ (enter.step = "new" /\ enter.ent = e)
       /\ \/ enter.step \in Joining /\ enter.ent = e
          \/ leave.ent = e
          \/ session[seq[player[e]]] = e
  /\ \A s \in SeqID : session[s] # NoEntity =>
       /\ session[s] \in alive /\ session[s] # leave.ent
       /\ player[session[s]] # NoConn /\ seq[player[session[s]]] = s
  /\ leave.step # "idle" => /\ leave.ent \in alive /\ player[leave.ent] # NoConn
                            /\ phase[player[leave.ent]] = "gone"

OwnHandler == \A e \in alive : busy[e] # NoConn => player[e] = busy[e]

Calm == NumbersApart /\ EntersOnce /\ Found /\ OwnHandler

IInv == /\ TypeOK /\ ConnOK /\ FreshOK /\ EnterOK /\ LeaveOK /\ SubOK /\ IndexSound
        /\ Undisturbed => Calm

-----------------------------------------------------------------------------
(* Queues and numbers *)

LEMMA InEmpty == InQueue(<<>>) = {}
  BY DEF InQueue

LEMMA InMembers == ASSUME NEW S, NEW q \in Seq(S) PROVE InQueue(q) \subseteq S
  BY DEF InQueue

LEMMA InAppend ==
    ASSUME NEW S, NEW q \in Seq(S), NEW x \in S
    PROVE  /\ Append(q, x) \in Seq(S)
           /\ InQueue(Append(q, x)) = InQueue(q) \cup {x}
           /\ Once(q) /\ x \notin InQueue(q) => Once(Append(q, x))
<1>1. Append(q, x) \in Seq(S) /\ Len(Append(q, x)) = Len(q) + 1 /\ Len(q) \in Nat
  OBVIOUS
<1>2. Append(q, x)[Len(q) + 1] = x /\ \A i \in 1 .. Len(q) : Append(q, x)[i] = q[i]
  OBVIOUS
<1>3. InQueue(Append(q, x)) = InQueue(q) \cup {x}
  BY <1>1, <1>2 DEF InQueue
<1>4. ASSUME Once(q), x \notin InQueue(q) PROVE Once(Append(q, x))
  BY <1>1, <1>2, <1>4 DEF InQueue, Once
<1>5. QED
  BY <1>1, <1>3, <1>4

LEMMA InTail ==
    ASSUME NEW S, NEW q \in Seq(S), q # <<>>
    PROVE  /\ Head(q) \in S /\ Tail(q) \in Seq(S)
           /\ Head(q) \in InQueue(q) /\ InQueue(Tail(q)) \subseteq InQueue(q)
           /\ Once(q) => Once(Tail(q)) /\ Head(q) \notin InQueue(Tail(q))
<1>1. /\ Len(q) \in Nat /\ Len(q) > 0 /\ Head(q) = q[1] /\ Head(q) \in S
      /\ Tail(q) \in Seq(S) /\ Len(Tail(q)) = Len(q) - 1
  OBVIOUS
<1>2. \A i \in 1 .. Len(q) - 1 : Tail(q)[i] = q[i + 1]
  OBVIOUS
<1>3. Head(q) \in InQueue(q) /\ InQueue(Tail(q)) \subseteq InQueue(q)
  BY <1>1, <1>2 DEF InQueue
<1>4. ASSUME Once(q) PROVE Once(Tail(q)) /\ Head(q) \notin InQueue(Tail(q))
  BY <1>1, <1>2, <1>4 DEF InQueue, Once
<1>5. QED
  BY <1>1, <1>3, <1>4

LEMMA Numbers == /\ Cardinality(Conn) \in Nat
                 /\ \A C \in SUBSET Conn : IsFiniteSet(C) /\ Cardinality(C) \in Nat
                                            /\ Cardinality(C) <= Cardinality(Conn)
  BY FS_Subset, FS_CardinalityType

LEMMA InitIInv == Init => IInv
<1> SUFFICES ASSUME Init PROVE IInv
  OBVIOUS
<1> USE DEF Init, Entity, NoEntity, SeqID, NoSeq, Idle, NoPacket, NoneOf, NoEntry, NoSub
<1>1. TypeOK
  <2>1. counter \in 0 .. Cardinality(Conn) /\ faults \in 0 .. MaxFaults
        /\ phase \in [Conn -> {"none", "auth", "list", "entered", "relay", "gone"}]
        /\ seq \in [Conn -> SeqID \cup {NoSeq}] /\ sent \in [Conn -> 0 .. MaxPackets]
        /\ smSub \in SUBSET Conn /\ listed \in SUBSET Conn
    BY Numbers
  <2>2. enterQ \in Seq(Conn) /\ leaveQ \in Seq(SeqID) /\ cmQ \in [Entity -> Seq(Conn)]
    OBVIOUS
  <2>3. up \in BOOLEAN /\ nextID \in 1 .. MaxEntity + 1 /\ alive \in SUBSET Entity
        /\ player \in [Entity -> Conn \cup {NoConn}] /\ placed \in SUBSET Entity
        /\ bySeq \in [SeqID -> Entity \cup {NoEntity}]
        /\ session \in [SeqID -> Entity \cup {NoEntity}]
        /\ sub \in [Entity -> SeqID \cup {NoSeq}] /\ busy \in [Entity -> Conn \cup {NoConn}]
    OBVIOUS
  <2>4. enter \in [step : {"idle", "new", "set", "subscribed", "stored"},
                   ent : Entity \cup {NoEntity}, conn : Conn \cup {NoConn}]
        /\ leave \in [step : {"idle", "taken", "unsubscribed"},
                      ent : Entity \cup {NoEntity}, conn : {NoConn}]
    OBVIOUS
  <2>5. QED
    BY <2>1, <2>2, <2>3, <2>4 DEF TypeOK
<1>2. {c \in Conn : phase[c] # "none"} = {}
  OBVIOUS
<1>3. ConnOK
  <2>1. counter <= Cardinality({c \in Conn : phase[c] # "none"})
    <3>1. Cardinality({c \in Conn : phase[c] # "none"}) = 0
      BY <1>2, FS_EmptySet
    <3>2. QED
      BY <3>1
  <2>2. \A c \in Conn : phase[c] = "none" /\ seq[c] = NoSeq /\ c # NoConn
    BY WorldSessionAssumption
  <2>3. \A e \in Entity : player[e] = NoConn /\ cmQ[e] = <<>>
    OBVIOUS
  <2>4. enterQ = <<>> /\ enter.conn = NoConn
    OBVIOUS
  <2>5. QED
    BY <2>1, <2>2, <2>3, <2>4, InEmpty DEF ConnOK
<1>4. FreshOK /\ EnterOK /\ LeaveOK
  BY DEF FreshOK, EnterOK, LeaveOK, Joining
<1>5. SubOK /\ IndexSound
  BY InEmpty DEF SubOK, IndexSound
<1>6. NumbersApart
  BY InEmpty DEF NumbersApart
<1>7. EntersOnce
  BY InEmpty DEF EntersOnce, Once, Early
<1>8. Found /\ OwnHandler
  BY DEF Found, OwnHandler
<1>9. QED
  BY <1>1, <1>3, <1>4, <1>5, <1>6, <1>7, <1>8 DEF IInv, Calm

-----------------------------------------------------------------------------
(* The gateway *)

\* What the gateway changes of the state.
LEMMA GatewayTyped ==
    ASSUME TypeOK,
           UNCHANGED <<cmQ, up, nextID, alive, player, bySeq, placed, session, sub, enter, leave, busy>>,
           faults' \in 0 .. MaxFaults, counter' \in 0 .. Cardinality(Conn),
           phase' \in [Conn -> {"none", "auth", "list", "entered", "relay", "gone"}],
           seq' \in [Conn -> SeqID \cup {NoSeq}],
           smSub' \in SUBSET Conn, listed' = listed, sent' = sent,
           enterQ' \in Seq(Conn), leaveQ' \in Seq(SeqID)
    PROVE  TypeOK'
  BY DEF TypeOK

\* What the gateway does to its own connections loses no entity.
LEMMA FoundSame ==
    ASSUME TypeOK, Found, UNCHANGED <<alive, player, bySeq, session, enter, leave>>,
           \A e \in Entity : player[e] # NoConn =>
             /\ seq'[player[e]] = seq[player[e]]
             /\ phase[player[e]] = "gone" => phase'[player[e]] = "gone"
    PROVE  Found'
<1>1. alive \subseteq Entity
  BY DEF TypeOK
<1>2. \A e \in Entity : player[e] # NoConn => e \in alive /\ bySeq[seq'[player[e]]] = e
  BY DEF Found
<1>3. \A e \in alive : /\ player[e] # NoConn \/ (enter.step = "new" /\ enter.ent = e)
                       /\ \/ enter.step \in Joining /\ enter.ent = e
                          \/ leave.ent = e
                          \/ session[seq'[player[e]]] = e
  BY <1>1 DEF Found, Joining
<1>4. \A s \in SeqID : session[s] # NoEntity =>
        /\ session[s] \in alive /\ session[s] # leave.ent
        /\ player[session[s]] # NoConn /\ seq'[player[session[s]]] = s
  BY <1>1 DEF Found
<1>5. leave.step # "idle" => /\ leave.ent \in alive /\ player[leave.ent] # NoConn
                             /\ phase'[player[leave.ent]] = "gone"
  BY <1>1 DEF Found
<1>6. QED
  BY <1>2, <1>3, <1>4, <1>5 DEF Found

LEMMA AcceptStep == ASSUME IInv, NEW c \in Conn, Accept(c) PROVE IInv'
<1> USE DEF broker, ecs, table, calls
<1> DEFINE Used == {d \in Conn : phase[d] # "none"}
<1>1. TypeOK /\ ConnOK /\ phase[c] = "none"
  BY DEF IInv, Accept
<1>7. seq' = [seq EXCEPT ![c] = counter + 1] /\ phase' = [phase EXCEPT ![c] = "auth"]
      /\ (\A d \in Conn : d # c => seq'[d] = seq[d] /\ phase'[d] = phase[d])
      /\ seq'[c] = counter + 1 /\ phase'[c] = "auth"
  BY <1>1 DEF Accept, TypeOK
<1>2. Used' = Used \cup {c} /\ c \notin Used /\ Used \in SUBSET Conn /\ Used' \in SUBSET Conn
  BY <1>1, <1>7
<1> HIDE DEF Used
<1>3. Cardinality(Used') = Cardinality(Used) + 1
  <2>1. IsFiniteSet(Used)
    BY <1>2, Numbers
  <2>2. QED
    BY <1>2, <2>1, FS_AddElement
<1>4. counter \in Nat /\ counter + 1 <= Cardinality(Used') /\ Cardinality(Used') <= Cardinality(Conn)
      /\ Cardinality(Used') \in Nat
  <2>1. counter <= Cardinality(Used) /\ counter \in Nat
    BY <1>1, Numbers DEF ConnOK, Used, TypeOK
  <2>2. Cardinality(Used) \in Nat /\ Cardinality(Used') <= Cardinality(Conn)
    BY <1>2, Numbers
  <2>3. QED
    BY <1>3, <2>1, <2>2
<1>5. counter + 1 \in SeqID /\ counter + 1 \in 0 .. Cardinality(Conn) /\ counter' = counter + 1
  BY <1>4, Numbers DEF SeqID, Accept
<1>6. TypeOK'
  <2>1. phase' \in [Conn -> {"none", "auth", "list", "entered", "relay", "gone"}]
    BY <1>1, <1>7 DEF TypeOK
  <2>2. seq' \in [Conn -> SeqID \cup {NoSeq}]
    BY <1>1, <1>5, <1>7 DEF TypeOK
  <2>3. UNCHANGED <<faults, smSub, listed, sent, enterQ, leaveQ, cmQ, up, nextID, alive, player, bySeq,
                    placed, session, sub, enter, leave, busy>>
    BY DEF Accept
  <2>4. /\ faults \in 0 .. MaxFaults /\ smSub \in SUBSET Conn
        /\ enterQ \in Seq(Conn) /\ leaveQ \in Seq(SeqID)
    BY <1>1 DEF TypeOK
  <2>5. QED
    BY <1>1, <1>5, <2>1, <2>2, <2>3, <2>4, GatewayTyped
<1>10. /\ c \notin InQueue(enterQ) /\ c # enter.conn
       /\ \A e \in Entity : player[e] # c /\ c \notin InQueue(cmQ[e])
  BY <1>1 DEF ConnOK
<1>8. ConnOK'
  <2>1. counter' <= Cardinality({d \in Conn : phase'[d] # "none"})
    BY <1>4, <1>5 DEF Used
  <2>2. \A d \in Conn : phase'[d] # "none" => seq'[d] \in SeqID
    BY <1>1, <1>5, <1>7 DEF ConnOK
  <2>3. UNCHANGED <<enterQ, enter, player, cmQ>>
    BY DEF Accept
  <2>4. \A d \in Conn : phase'[d] = "none" => phase[d] = "none"
    BY <1>1, <1>7
  <2>5. \A d \in Conn : phase'[d] = "none" => seq'[d] = NoSeq
    BY <1>1, <1>7 DEF ConnOK
  <2>6. QED
    BY <1>1, <2>1, <2>2, <2>3, <2>4, <2>5 DEF ConnOK
<1>9. FreshOK' /\ EnterOK' /\ LeaveOK'
  BY DEF Accept, IInv, FreshOK, EnterOK, LeaveOK
<1>11. \A e \in Entity : player[e] # NoConn => seq'[player[e]] = seq[player[e]]
                                           /\ phase'[player[e]] = phase[player[e]]
  BY <1>1, <1>7, <1>10 DEF TypeOK
<1>12. \A e \in Entity : \A d \in InQueue(cmQ[e]) : seq'[d] = seq[d]
  <2>1. \A e \in Entity : InQueue(cmQ[e]) \subseteq Conn
    BY <1>1, InMembers DEF TypeOK
  <2>2. QED
    BY <1>7, <1>10, <2>1
<1>13. SubOK' /\ IndexSound'
  <2>1. UNCHANGED <<sub, player, cmQ, bySeq, alive>>
    BY DEF Accept
  <2>2. SubOK'
    BY <1>11, <1>12, <2>1 DEF IInv, SubOK
  <2>3. IndexSound'
    BY <1>1, <1>11, <2>1 DEF IInv, IndexSound, TypeOK, NoEntity
  <2>4. QED
    BY <2>2, <2>3
<1>14. ASSUME Undisturbed' PROVE Calm'
  <2>1. Calm
    BY <1>14 DEF IInv, Accept, Undisturbed
  <2>2. UNCHANGED <<enterQ, leaveQ, cmQ, up, alive, player, bySeq, session, enter, leave, busy>>
    BY DEF Accept
  <2>3. NumbersApart'
    <3>1. counter \in Nat /\ \A d \in Conn : seq[d] \in Nat
      BY <1>1, <1>4, Numbers DEF TypeOK, SeqID, NoSeq
    <3>2. InQueue(leaveQ) \subseteq Nat /\ counter + 1 \notin InQueue(leaveQ)
      <4>1. InQueue(leaveQ) \subseteq SeqID
        BY <1>1, InMembers DEF TypeOK
      <4>2. \A q \in InQueue(leaveQ) : q <= counter
        BY <2>1 DEF Calm, NumbersApart
      <4>3. QED
        BY <3>1, <4>1, <4>2 DEF SeqID
    <3>3. \A d \in Conn : phase'[d] # "none" => seq'[d] <= counter'
      BY <1>5, <1>7, <2>1, <3>1 DEF Calm, NumbersApart
    <3>4. \A d, e \in Conn : phase'[d] # "none" /\ phase'[e] # "none" /\ seq'[d] = seq'[e] => d = e
      <4>1. \A d \in Conn : d # c /\ phase'[d] # "none" => seq'[d] <= counter /\ seq'[d] = seq[d]
        BY <1>7, <2>1 DEF Calm, NumbersApart
      <4>2. \A d \in Conn : d # c /\ phase'[d] # "none" => seq'[d] # seq'[c]
        BY <1>7, <3>1, <4>1
      <4>3. QED
        BY <1>7, <2>1, <4>2 DEF Calm, NumbersApart
    <3>5. \A q \in InQueue(leaveQ) : q <= counter + 1
      BY <2>1, <3>1, <3>2 DEF Calm, NumbersApart
    <3>6. \A d \in Conn : seq'[d] \in InQueue(leaveQ) => phase'[d] = "gone"
      BY <1>7, <2>1, <3>2 DEF Calm, NumbersApart
    <3>7. QED
      BY <1>5, <2>1, <2>2, <3>3, <3>4, <3>5, <3>6 DEF Calm, NumbersApart
  <2>4. EntersOnce'
    BY <1>1, <1>7, <1>10, <2>1, <2>2 DEF Calm, EntersOnce, Early
  <2>5. Found'
    BY <1>1, <1>11, <2>1, <2>2, FoundSame DEF Calm
  <2>6. OwnHandler'
    BY <2>1, <2>2 DEF Calm, OwnHandler
  <2>7. QED
    BY <2>3, <2>4, <2>5, <2>6 DEF Calm
<1>15. QED
  BY <1>6, <1>8, <1>9, <1>13, <1>14 DEF IInv

\* A connection that goes on keeps its number, and what waits for it.
LEMMA ConnSame ==
    ASSUME TypeOK, ConnOK, counter' \in Nat, counter' <= counter, seq' = seq,
           \A d \in Conn : phase'[d] = "none" <=> phase[d] = "none",
           enter' = enter, player' = player,
           InQueue(enterQ') \subseteq InQueue(enterQ) \cup {d \in Conn : phase[d] # "none"},
           \A e \in Entity : InQueue(cmQ'[e]) \subseteq InQueue(cmQ[e]) \cup {d \in Conn : phase[d] # "none"}
    PROVE  ConnOK'
<1> DEFINE Used == {d \in Conn : phase[d] # "none"}
<1>1. {d \in Conn : phase'[d] # "none"} = Used
  OBVIOUS
<1>2. counter \in Nat /\ Cardinality(Used) \in Nat /\ counter <= Cardinality(Used)
  BY Numbers DEF TypeOK, ConnOK
<1> HIDE DEF Used
<1>3. counter' <= Cardinality(Used)
  BY <1>2
<1>4. counter' <= Cardinality({d \in Conn : phase'[d] # "none"})
  BY <1>1, <1>3
<1>5. \A d \in Conn : phase'[d] # "none" => seq'[d] \in SeqID
  BY DEF ConnOK
<1>6. \A d \in Conn : phase'[d] = "none" =>
        /\ seq'[d] = NoSeq /\ d \notin InQueue(enterQ') /\ d # enter'.conn
        /\ \A e \in Entity : player'[e] # d /\ d \notin InQueue(cmQ'[e])
  BY DEF ConnOK
<1>7. QED
  BY <1>4, <1>5, <1>6 DEF ConnOK

\* Steps of a connection that only its own goroutine and the World's queues see.
LEMMA AuthenticateStep == ASSUME IInv, NEW c \in Conn, Authenticate(c) PROVE IInv'
<1> USE DEF broker, ecs, table, calls
<1>1. TypeOK /\ ConnOK /\ TypeOK'
  BY DEF IInv, Authenticate, TypeOK
<1>2. seq' = seq /\ phase[c] = "auth" /\ phase' = [phase EXCEPT ![c] = "list"] /\ counter' = counter
  BY DEF Authenticate
<1>3. (\A d \in Conn : d # c => phase'[d] = phase[d]) /\ phase'[c] = "list"
  BY <1>1, <1>2 DEF TypeOK
<1>4. UNCHANGED <<enterQ, leaveQ, cmQ, up, nextID, alive, player, bySeq, session, sub, enter, leave, busy>>
  BY DEF Authenticate
<1>5. ConnOK'
  BY <1>1, <1>2, <1>3, <1>4, ConnSame, Numbers DEF TypeOK
<1>6. FreshOK' /\ EnterOK' /\ LeaveOK' /\ SubOK' /\ IndexSound'
  BY <1>2, <1>4 DEF IInv, FreshOK, EnterOK, LeaveOK, SubOK, IndexSound
<1>7. ASSUME Undisturbed' PROVE Calm'
  <2>1. Calm
    BY <1>7 DEF IInv, Authenticate, Undisturbed
  <2>2. NumbersApart'
    BY <1>2, <1>3, <1>4, <2>1 DEF Calm, NumbersApart
  <2>3. EntersOnce'
    BY <1>2, <1>3, <1>4, <2>1 DEF Calm, EntersOnce, Early
  <2>4. \A e \in Entity : player[e] # NoConn =>
          seq'[player[e]] = seq[player[e]] /\ (phase[player[e]] = "gone" => phase'[player[e]] = "gone")
    BY <1>1, <1>2, <1>3 DEF TypeOK
  <2>5. Found'
    BY <1>1, <1>4, <2>1, <2>4, FoundSame DEF Calm
  <2>6. QED
    BY <1>4, <2>1, <2>2, <2>3, <2>5 DEF Calm, OwnHandler
<1>8. QED
  BY <1>1, <1>5, <1>6, <1>7 DEF IInv

LEMMA AnnounceEnterStep == ASSUME IInv, NEW c \in Conn, AnnounceEnter(c) PROVE IInv'
<1> USE DEF broker, ecs, table, calls
<1>1. TypeOK /\ ConnOK
  BY DEF IInv
<1>2. seq' = seq /\ phase[c] = "list" /\ phase' = [phase EXCEPT ![c] = "entered"] /\ counter' = counter
  BY DEF AnnounceEnter
<1>3. (\A d \in Conn : d # c => phase'[d] = phase[d]) /\ phase'[c] = "entered"
  BY <1>1, <1>2 DEF TypeOK
<1>4. UNCHANGED <<leaveQ, cmQ, up, nextID, alive, player, bySeq, session, sub, enter, leave, busy>>
  BY DEF AnnounceEnter
<1>5. enterQ \in Seq(Conn) /\ enterQ' \in Seq(Conn)
      /\ InQueue(enterQ') \subseteq InQueue(enterQ) \cup {c}
      /\ (Once(enterQ) /\ c \notin InQueue(enterQ) => Once(enterQ'))
  <2>1. enterQ \in Seq(Conn)
    BY <1>1 DEF TypeOK
  <2>2. CASE up
    <3>1. enterQ' = Append(enterQ, c)
      BY <2>2 DEF AnnounceEnter
    <3>2. QED
      BY <2>1, <3>1, InAppend
  <2>3. CASE ~up
    <3>1. enterQ' = enterQ
      BY <2>3 DEF AnnounceEnter
    <3>2. QED
      BY <2>1, <3>1
  <2>4. QED
    BY <2>2, <2>3
<1>6. TypeOK'
  <2>1. phase' \in [Conn -> {"none", "auth", "list", "entered", "relay", "gone"}]
    BY <1>1, <1>2 DEF TypeOK
  <2>2. UNCHANGED <<faults, smSub, listed, sent, placed>>
    BY DEF AnnounceEnter
  <2>3. QED
    BY <1>1, <1>2, <1>4, <1>5, <2>1, <2>2 DEF TypeOK
<1>7. ConnOK'
  BY <1>1, <1>2, <1>3, <1>4, <1>5, ConnSame, Numbers DEF TypeOK
<1>8. FreshOK' /\ EnterOK' /\ LeaveOK' /\ SubOK' /\ IndexSound'
  BY <1>2, <1>4 DEF IInv, FreshOK, EnterOK, LeaveOK, SubOK, IndexSound
<1>9. ASSUME Undisturbed' PROVE Calm'
  <2>1. Calm
    BY <1>9 DEF IInv, AnnounceEnter, Undisturbed
  <2>2. NumbersApart'
    BY <1>2, <1>3, <1>4, <2>1 DEF Calm, NumbersApart
  <2>3. c \notin InQueue(enterQ) /\ c # enter.conn /\ \A e \in Entity : player[e] # c
    BY <1>2, <2>1 DEF Calm, EntersOnce, Early
  <2>4. EntersOnce'
    BY <1>2, <1>3, <1>4, <1>5, <2>1, <2>3 DEF Calm, EntersOnce, Early
  <2>5. \A e \in Entity : player[e] # NoConn =>
          seq'[player[e]] = seq[player[e]] /\ (phase[player[e]] = "gone" => phase'[player[e]] = "gone")
    BY <1>1, <1>2, <1>3 DEF TypeOK
  <2>6. Found'
    BY <1>1, <1>4, <2>1, <2>5, FoundSame DEF Calm
  <2>7. QED
    BY <1>4, <2>1, <2>2, <2>4, <2>6 DEF Calm, OwnHandler
<1>10. QED
  BY <1>6, <1>7, <1>8, <1>9 DEF IInv

LEMMA SubscribeSMStep == ASSUME IInv, NEW c \in Conn, SubscribeSM(c) PROVE IInv'
<1> USE DEF broker, ecs, table, calls
<1>1. TypeOK /\ ConnOK
  BY DEF IInv
<1>2. seq' = seq /\ phase[c] = "entered" /\ phase' = [phase EXCEPT ![c] = "relay"] /\ counter' = counter
  BY DEF SubscribeSM
<1>3. (\A d \in Conn : d # c => phase'[d] = phase[d]) /\ phase'[c] = "relay"
  BY <1>1, <1>2 DEF TypeOK
<1>4. UNCHANGED <<enterQ, leaveQ, cmQ, up, nextID, alive, player, bySeq, session, sub, enter, leave, busy>>
  BY DEF SubscribeSM
<1>5. TypeOK' /\ (Undisturbed' => Undisturbed)
  BY <1>1, <1>2, <1>4 DEF SubscribeSM, TypeOK, Undisturbed
<1>6. ConnOK'
  BY <1>1, <1>2, <1>3, <1>4, ConnSame, Numbers DEF TypeOK
<1>7. FreshOK' /\ EnterOK' /\ LeaveOK' /\ SubOK' /\ IndexSound'
  BY <1>2, <1>4 DEF IInv, FreshOK, EnterOK, LeaveOK, SubOK, IndexSound
<1>8. ASSUME Undisturbed' PROVE Calm'
  <2>1. Calm
    BY <1>5, <1>8 DEF IInv
  <2>2. NumbersApart'
    BY <1>2, <1>3, <1>4, <2>1 DEF Calm, NumbersApart
  <2>3. EntersOnce'
    BY <1>2, <1>3, <1>4, <2>1 DEF Calm, EntersOnce, Early
  <2>4. \A e \in Entity : player[e] # NoConn =>
          seq'[player[e]] = seq[player[e]] /\ (phase[player[e]] = "gone" => phase'[player[e]] = "gone")
    BY <1>1, <1>2, <1>3 DEF TypeOK
  <2>5. Found'
    BY <1>1, <1>4, <2>1, <2>4, FoundSame DEF Calm
  <2>6. QED
    BY <1>4, <2>1, <2>2, <2>3, <2>5 DEF Calm, OwnHandler
<1>9. QED
  BY <1>5, <1>6, <1>7, <1>8 DEF IInv

LEMMA RelayCMStep == ASSUME IInv, NEW c \in Conn, RelayCM(c) PROVE IInv'
<1> USE DEF broker, ecs, table, calls
<1>1. TypeOK /\ ConnOK /\ SubOK
  BY DEF IInv
<1>2. UNCHANGED <<faults, seq, phase, counter, enterQ, leaveQ, up, nextID, alive, player, bySeq, session,
                  sub, enter, leave, busy>>
  BY DEF RelayCM
<1>3. phase[c] = "relay" /\ seq[c] \in SeqID /\ seq[c] # NoSeq
  BY <1>1, Numbers DEF RelayCM, ConnOK, SeqID, NoSeq
<1>4. \A e \in Entity : /\ cmQ'[e] \in Seq(Conn)
                        /\ InQueue(cmQ'[e]) \subseteq InQueue(cmQ[e]) \cup {c}
                        /\ sub[e] # seq[c] => cmQ'[e] = cmQ[e]
  <2> SUFFICES ASSUME NEW e \in Entity
               PROVE  /\ cmQ'[e] \in Seq(Conn)
                      /\ InQueue(cmQ'[e]) \subseteq InQueue(cmQ[e]) \cup {c}
                      /\ sub[e] # seq[c] => cmQ'[e] = cmQ[e]
    OBVIOUS
  <2>1. cmQ[e] \in Seq(Conn) /\ cmQ'[e] = IF sub[e] = seq[c] THEN Append(cmQ[e], c) ELSE cmQ[e]
    BY <1>1 DEF RelayCM, TypeOK
  <2>2. QED
    BY <2>1, InAppend
<1>5. TypeOK'
  <2>1. cmQ' \in [Entity -> Seq(Conn)]
    <3>1. cmQ' = [e \in Entity |-> cmQ'[e]]
      BY DEF RelayCM
    <3>2. QED
      BY <1>4, <3>1
  <2>2. sent' \in [Conn -> 0 .. MaxPackets]
    BY <1>1 DEF RelayCM, TypeOK
  <2>3. UNCHANGED <<smSub, listed, placed>>
    BY DEF RelayCM
  <2>4. QED
    BY <1>1, <1>2, <2>1, <2>2, <2>3 DEF TypeOK
<1>6. ConnOK'
  <2>1. counter' \in Nat /\ counter' <= counter /\ seq' = seq /\ enter' = enter /\ player' = player
        /\ InQueue(enterQ') \subseteq InQueue(enterQ)
    BY <1>1, <1>2, Numbers DEF TypeOK
  <2>2. \A e \in Entity : InQueue(cmQ'[e]) \subseteq InQueue(cmQ[e]) \cup {d \in Conn : phase[d] # "none"}
    BY <1>3, <1>4
  <2>3. \A d \in Conn : phase'[d] = "none" <=> phase[d] = "none"
    BY <1>2
  <2>4. QED
    BY <1>1, <2>1, <2>2, <2>3, ConnSame
<1>7. FreshOK' /\ LeaveOK'
  <2>1. \A e \in Entity : sub[e] = NoSeq => cmQ'[e] = cmQ[e]
    BY <1>3, <1>4
  <2>2. FreshOK'
    BY <1>2, <2>1 DEF IInv, FreshOK
  <2>3. LeaveOK'
    BY <1>2, <2>1 DEF IInv, LeaveOK
  <2>4. QED
    BY <2>2, <2>3
<1>8. EnterOK' /\ IndexSound'
  BY <1>2 DEF IInv, EnterOK, IndexSound
<1>9. SubOK'
  <2> SUFFICES ASSUME NEW e \in Entity, NEW d \in InQueue(cmQ'[e])
               PROVE  player[e] # NoConn /\ seq[player[e]] = seq[d]
    BY <1>1, <1>2 DEF SubOK
  <2>1. CASE d \in InQueue(cmQ[e])
    BY <1>1, <2>1 DEF SubOK
  <2>2. CASE d \notin InQueue(cmQ[e])
    <3>1. d = c /\ sub[e] = seq[c]
      BY <1>4, <2>2
    <3>2. QED
      BY <1>1, <1>3, <3>1 DEF SubOK
  <2>3. QED
    BY <2>1, <2>2
<1>10. Undisturbed' => Calm'
  BY <1>2 DEF IInv, Undisturbed, Calm, NumbersApart, EntersOnce, Found, OwnHandler
<1>11. QED
  BY <1>5, <1>6, <1>7, <1>8, <1>9, <1>10 DEF IInv

LEMMA DisconnectStep == ASSUME IInv, NEW c \in Conn, Disconnect(c) PROVE IInv'
<1> USE DEF broker, ecs, table, calls
<1>1. TypeOK /\ ConnOK
  BY DEF IInv
<1>2. seq' = seq /\ phase[c] # "none" /\ phase' = [phase EXCEPT ![c] = "gone"] /\ counter' = counter
      /\ faults' = faults
  BY DEF Disconnect
<1>3. (\A d \in Conn : d # c => phase'[d] = phase[d]) /\ phase'[c] = "gone"
  BY <1>1, <1>2 DEF TypeOK
<1>4. UNCHANGED <<enterQ, cmQ, up, nextID, alive, player, bySeq, session, sub, enter, leave, busy>>
  BY DEF Disconnect
<1>5. leaveQ' \in Seq(SeqID) /\ InQueue(leaveQ') \subseteq InQueue(leaveQ) \cup {seq[c]}
      /\ seq[c] \in SeqID
  <2>1. leaveQ \in Seq(SeqID) /\ seq[c] \in SeqID
    BY <1>1, <1>2 DEF TypeOK, ConnOK
  <2>2. leaveQ' = IF up /\ phase[c] # "auth" THEN Append(leaveQ, seq[c]) ELSE leaveQ
    BY DEF Disconnect
  <2>3. QED
    BY <2>1, <2>2, InAppend
<1>6. TypeOK'
  <2>1. phase' \in [Conn -> {"none", "auth", "list", "entered", "relay", "gone"}]
    BY <1>1, <1>2 DEF TypeOK
  <2>2. listed' = listed /\ sent' = sent /\ smSub' = smSub \ {c} /\ placed' = placed
    BY DEF Disconnect
  <2>3. /\ faults \in 0 .. MaxFaults /\ smSub \in SUBSET Conn /\ enterQ \in Seq(Conn)
        /\ counter \in 0 .. Cardinality(Conn) /\ seq \in [Conn -> SeqID \cup {NoSeq}]
    BY <1>1 DEF TypeOK
  <2>4. smSub' \in SUBSET Conn
    BY <2>2, <2>3
  <2>5. QED
    BY <1>1, <1>2, <1>4, <1>5, <2>1, <2>2, <2>3, <2>4, GatewayTyped
<1>7. ConnOK'
  BY <1>1, <1>2, <1>3, <1>4, ConnSame, Numbers DEF TypeOK
<1>8. FreshOK' /\ EnterOK' /\ LeaveOK' /\ SubOK' /\ IndexSound'
  BY <1>2, <1>4 DEF IInv, FreshOK, EnterOK, LeaveOK, SubOK, IndexSound
<1>9. ASSUME Undisturbed' PROVE Calm'
  <2>1. Calm
    BY <1>2, <1>9 DEF IInv, Undisturbed
  <2>2. NumbersApart'
    <3>1. seq[c] <= counter
      BY <1>2, <2>1 DEF Calm, NumbersApart
    <3>2. \A d \in Conn : seq[d] = seq[c] => d = c
      BY <1>1, <1>2, <1>5, <2>1, Numbers DEF Calm, NumbersApart, ConnOK, SeqID, NoSeq
    <3>3. QED
      BY <1>2, <1>3, <1>4, <1>5, <2>1, <3>1, <3>2 DEF Calm, NumbersApart
  <2>3. EntersOnce'
    BY <1>2, <1>3, <1>4, <2>1 DEF Calm, EntersOnce, Early
  <2>4. \A e \in Entity : player[e] # NoConn =>
          seq'[player[e]] = seq[player[e]] /\ (phase[player[e]] = "gone" => phase'[player[e]] = "gone")
    BY <1>1, <1>2, <1>3 DEF TypeOK
  <2>5. Found'
    BY <1>1, <1>4, <2>1, <2>4, FoundSame DEF Calm
  <2>6. QED
    BY <1>4, <2>1, <2>2, <2>3, <2>5 DEF Calm, OwnHandler
<1>10. QED
  BY <1>6, <1>7, <1>8, <1>9 DEF IInv

\* The numbers start again, the World keeps what it has: nothing is calm any more.
LEMMA RestartGatewayStep == ASSUME IInv, RestartGateway PROVE IInv'
<1> USE DEF broker, ecs, table, calls
<1>1. TypeOK /\ ConnOK
  BY DEF IInv
<1>2. seq' = seq /\ counter' = 0 /\ smSub' = {}
      /\ phase' = [c \in Conn |-> IF phase[c] = "none" THEN "none" ELSE "gone"]
      /\ faults' = faults + 1 /\ faults < MaxFaults
  BY DEF RestartGateway
<1>3. UNCHANGED <<enterQ, leaveQ, cmQ, up, nextID, alive, player, bySeq, session, sub, enter, leave, busy,
                  listed, sent, placed>>
  BY DEF RestartGateway
<1>4. TypeOK' /\ ~Undisturbed'
  <2>1. phase' \in [Conn -> {"none", "auth", "list", "entered", "relay", "gone"}]
    BY <1>1, <1>2 DEF TypeOK
  <2>2. faults' \in 0 .. MaxFaults /\ faults' # 0
    BY <1>1, <1>2 DEF TypeOK
  <2>3. /\ enterQ \in Seq(Conn) /\ leaveQ \in Seq(SeqID) /\ seq \in [Conn -> SeqID \cup {NoSeq}]
    BY <1>1 DEF TypeOK
  <2>4. counter' \in 0 .. Cardinality(Conn)
    BY <1>2, Numbers
  <2>5. TypeOK'
    BY <1>1, <1>2, <1>3, <2>1, <2>2, <2>3, <2>4, GatewayTyped
  <2>6. QED
    BY <2>2, <2>5 DEF Undisturbed
<1>5. ConnOK'
  <2>1. counter' \in Nat /\ counter' <= counter
    BY <1>1, <1>2, Numbers DEF TypeOK
  <2>2. \A d \in Conn : phase'[d] = "none" <=> phase[d] = "none"
    BY <1>1, <1>2 DEF TypeOK
  <2>3. QED
    BY <1>1, <1>2, <1>3, <2>1, <2>2, ConnSame
<1>6. FreshOK' /\ EnterOK' /\ LeaveOK' /\ SubOK' /\ IndexSound'
  BY <1>2, <1>3 DEF IInv, FreshOK, EnterOK, LeaveOK, SubOK, IndexSound
<1>7. QED
  BY <1>4, <1>5, <1>6 DEF IInv

-----------------------------------------------------------------------------
(* The World: player.enter *)

LEMMA EnterBeginStep == ASSUME IInv, EnterBegin PROVE IInv'
<1> USE DEF gateway, table
<1> DEFINE c == Head(enterQ)
<1>1. TypeOK /\ ConnOK /\ FreshOK /\ LeaveOK /\ SubOK /\ IndexSound
  BY DEF IInv
<1>2. /\ enter.step = "idle" /\ nextID \in Entity /\ nextID' = nextID + 1
      /\ alive' = alive \cup {nextID} /\ enter' = [step |-> "new", ent |-> nextID, conn |-> c]
      /\ enterQ' = Tail(enterQ) /\ enterQ # <<>>
      /\ UNCHANGED <<faults, counter, phase, seq, smSub, listed, sent, leaveQ, cmQ, up, player, bySeq,
                     placed, session, sub, leave, busy>>
  BY DEF EnterBegin
<1>3. /\ c \in Conn /\ Tail(enterQ) \in Seq(Conn)
      /\ c \in InQueue(enterQ) /\ InQueue(Tail(enterQ)) \subseteq InQueue(enterQ)
      /\ (Once(enterQ) => Once(Tail(enterQ)) /\ c \notin InQueue(Tail(enterQ)))
  BY <1>1, <1>2, InTail DEF TypeOK
<1>4. enter'.step = "new" /\ enter'.ent = nextID /\ enter'.conn = c
  BY <1>2
<1>5. phase[c] # "none"
  BY <1>1, <1>3 DEF ConnOK
<1> HIDE DEF c
<1>6. TypeOK'
  <2>1. enter' \in [step : {"idle", "new", "set", "subscribed", "stored"},
                    ent : Entity \cup {NoEntity}, conn : Conn \cup {NoConn}]
    BY <1>2, <1>3
  <2>2. nextID' \in 1 .. MaxEntity + 1 /\ alive' \in SUBSET Entity
    BY <1>1, <1>2 DEF TypeOK, Entity
  <2>3. QED
    BY <1>1, <1>2, <1>3, <2>1, <2>2 DEF TypeOK
<1>7. ConnOK'
  BY <1>1, <1>2, <1>3, <1>4, <1>5 DEF ConnOK
<1>8. nextID \in Nat /\ (\A s \in SeqID : session[s] \in Nat) /\ leave.ent \in Nat
      /\ \A e \in Entity : e \in Nat
  <2>1. Entity \subseteq Nat /\ NoEntity \in Nat
    BY DEF Entity, NoEntity
  <2>2. session \in [SeqID -> Entity \cup {NoEntity}] /\ leave.ent \in Entity \cup {NoEntity}
    BY <1>1 DEF TypeOK
  <2>3. QED
    BY <1>2, <2>1, <2>2
<1>9. FreshOK'
  BY <1>1, <1>2, <1>4, <1>8 DEF FreshOK
<1>10. leave.ent # nextID /\ (\A s \in SeqID : session[s] # nextID)
       /\ player[nextID] = NoConn /\ busy[nextID] = NoConn /\ nextID \notin alive
  BY <1>1, <1>2, <1>8 DEF FreshOK
<1>11. EnterOK'
  BY <1>2, <1>4, <1>3, <1>10 DEF EnterOK, Joining
<1>12. LeaveOK' /\ SubOK'
  BY <1>1, <1>2 DEF LeaveOK, SubOK
<1>13. IndexSound'
  BY <1>1, <1>2 DEF IndexSound
<1>14. ASSUME Undisturbed' PROVE Calm'
  <2>1. Calm
    BY <1>2, <1>14 DEF IInv, Undisturbed
  <2>2. NumbersApart'
    BY <1>2, <2>1 DEF Calm, NumbersApart
  <2>3. EntersOnce'
    <3>1. Once(enterQ') /\ c \notin InQueue(enterQ') /\ \A e \in Entity : player[e] # c
      BY <1>2, <1>3, <2>1 DEF Calm, EntersOnce
    <3>2. phase[c] \notin Early
      BY <1>3, <2>1 DEF Calm, EntersOnce
    <3>3. QED
      BY <1>2, <1>3, <1>4, <2>1, <3>1, <3>2 DEF Calm, EntersOnce
  <2>4. Found'
    <3>1. \A e \in Entity : player[e] # NoConn => e \in alive' /\ bySeq[seq[player[e]]] = e
      BY <1>2, <2>1 DEF Calm, Found
    <3>2. \A e \in alive : /\ player[e] # NoConn
                           /\ leave.ent = e \/ session[seq[player[e]]] = e
      BY <1>2, <2>1 DEF Calm, Found, Joining
    <3>3. \A s \in SeqID : session[s] # NoEntity =>
            /\ session[s] \in alive' /\ session[s] # leave.ent
            /\ player[session[s]] # NoConn /\ seq[player[session[s]]] = s
      BY <1>2, <2>1 DEF Calm, Found
    <3>4. leave.step # "idle" => /\ leave.ent \in alive' /\ player[leave.ent] # NoConn
                                 /\ phase[player[leave.ent]] = "gone"
      BY <1>2, <2>1 DEF Calm, Found
    <3>5. QED
      BY <1>2, <1>4, <3>1, <3>2, <3>3, <3>4 DEF Found, Joining
  <2>5. OwnHandler'
    BY <1>2, <1>10, <2>1 DEF Calm, OwnHandler
  <2>6. QED
    BY <2>2, <2>3, <2>4, <2>5 DEF Calm
<1>15. QED
  BY <1>6, <1>7, <1>9, <1>11, <1>12, <1>13, <1>14 DEF IInv

LEMMA EnterSetPlayerStep == ASSUME IInv, EnterSetPlayer PROVE IInv'
<1> USE DEF gateway, broker, table
<1> DEFINE f == enter.ent
           c == enter.conn
           n == seq[c]
<1>1. TypeOK /\ ConnOK /\ FreshOK /\ EnterOK /\ LeaveOK /\ SubOK /\ IndexSound
  BY DEF IInv
<1>2. /\ enter.step = "new"
      /\ player' = [player EXCEPT ![f] = c] /\ bySeq' = [bySeq EXCEPT ![n] = f]
      /\ enter' = [enter EXCEPT !.step = "set"]
      /\ UNCHANGED <<faults, counter, phase, seq, smSub, listed, sent, enterQ, leaveQ, cmQ, up, nextID,
                     alive, placed, session, sub, leave, busy>>
  BY DEF EnterSetPlayer
<1>3. /\ f \in Entity /\ c \in Conn /\ f \in alive /\ leave.ent # f /\ player[f] = NoConn
      /\ (\A s \in SeqID : session[s] # f)
  BY <1>1, <1>2 DEF EnterOK, Joining
<1>4. phase[c] # "none" /\ n \in SeqID /\ c # NoConn
  BY <1>1, <1>3 DEF ConnOK
<1>5. enter'.step = "set" /\ enter'.ent = f /\ enter'.conn = c
  BY <1>1, <1>2 DEF TypeOK
<1>6. player'[f] = c /\ (\A e \in Entity : e # f => player'[e] = player[e])
      /\ bySeq'[n] = f /\ \A s \in SeqID : s # n => bySeq'[s] = bySeq[s]
  BY <1>1, <1>2, <1>3, <1>4 DEF TypeOK
<1>7. TypeOK'
  BY <1>1, <1>2, <1>3, <1>4 DEF TypeOK
<1> HIDE DEF f, c, n
<1>8. seq[c] = n
  BY DEF n
<1>9. ConnOK'
  BY <1>1, <1>2, <1>4, <1>5, <1>6, <1>3 DEF ConnOK
<1>10. FreshOK'
  BY <1>1, <1>2, <1>3, <1>5, <1>6 DEF FreshOK
<1>11. EnterOK'
  BY <1>1, <1>2, <1>3, <1>5, <1>6 DEF EnterOK, Joining
<1>12. LeaveOK'
  BY <1>1, <1>2 DEF LeaveOK
<1>13. SubOK'
  BY <1>1, <1>2, <1>3, <1>6 DEF SubOK
<1>14. IndexSound'
  <2> SUFFICES ASSUME NEW s \in SeqID, bySeq'[s] # NoEntity
               PROVE  /\ bySeq'[s] \in alive /\ player'[bySeq'[s]] # NoConn
                      /\ seq[player'[bySeq'[s]]] = s
    BY <1>2 DEF IndexSound
  <2>1. CASE s = n
    BY <1>3, <1>4, <1>6, <1>8, <2>1
  <2>2. CASE s # n
    <3>1. bySeq[s] \in alive /\ player[bySeq[s]] # NoConn /\ seq[player[bySeq[s]]] = s
      BY <1>1, <1>6, <2>2 DEF IndexSound
    <3>2. bySeq[s] # f /\ bySeq[s] \in Entity
      BY <1>1, <1>3, <3>1 DEF TypeOK
    <3>3. QED
      BY <1>6, <2>2, <3>1, <3>2
  <2>3. QED
    BY <2>1, <2>2
<1>15. ASSUME Undisturbed' PROVE Calm'
  <2>1. Calm
    BY <1>2, <1>15 DEF IInv, Undisturbed
  <2>2. NumbersApart'
    BY <1>2, <2>1 DEF Calm, NumbersApart
  <2>3. \A e \in Entity : player[e] # c
    BY <1>2, <1>3, <1>4, <2>1 DEF Calm, EntersOnce, f, c
  <2>4. phase[c] \notin Early /\ c \notin InQueue(enterQ)
    BY <1>3, <2>1 DEF Calm, EntersOnce, c
  <2>5. EntersOnce'
    BY <1>2, <1>3, <1>4, <1>5, <1>6, <2>1, <2>3, <2>4 DEF Calm, EntersOnce, c
  <2>6. Found'
    <3>1. \A e \in Entity : player'[e] # NoConn => e \in alive /\ bySeq'[seq[player'[e]]] = e
      <4> SUFFICES ASSUME NEW e \in Entity, player'[e] # NoConn
                   PROVE  e \in alive /\ bySeq'[seq[player'[e]]] = e
        OBVIOUS
      <4>1. CASE e = f
        BY <1>3, <1>6, <1>8, <4>1
      <4>2. CASE e # f
        <5>1. player'[e] = player[e] /\ player[e] # NoConn /\ player[e] \in Conn /\ player[e] # c
          BY <1>1, <1>6, <2>3, <4>2 DEF TypeOK
        <5>2. phase[player[e]] # "none"
          BY <1>1, <5>1 DEF ConnOK
        <5>3. seq[player[e]] # n /\ seq[player[e]] \in SeqID
          BY <1>1, <1>3, <1>4, <1>8, <2>1, <5>1, <5>2 DEF Calm, NumbersApart, ConnOK
        <5>4. QED
          BY <1>6, <2>1, <5>1, <5>3 DEF Calm, Found
      <4>3. QED
        BY <4>1, <4>2
    <3>2. \A e \in alive : /\ player'[e] # NoConn
                           /\ e = f \/ leave.ent = e \/ session[seq[player'[e]]] = e
      <4> SUFFICES ASSUME NEW e \in alive, e # f
                   PROVE  player[e] # NoConn /\ player'[e] = player[e]
                          /\ (leave.ent = e \/ session[seq[player[e]]] = e)
        BY <1>3, <1>4, <1>6
      <4>1. QED
        BY <1>1, <1>6, <2>1 DEF Calm, Found, TypeOK, f
    <3>3. \A s \in SeqID : session[s] # NoEntity =>
            /\ session[s] \in alive /\ session[s] # leave.ent
            /\ player'[session[s]] # NoConn /\ seq[player'[session[s]]] = s
      BY <1>1, <1>3, <1>6, <2>1 DEF Calm, Found, TypeOK
    <3>4. leave.step # "idle" => /\ leave.ent \in alive /\ player'[leave.ent] # NoConn
                                 /\ phase[player'[leave.ent]] = "gone"
      BY <1>1, <1>3, <1>6, <2>1 DEF Calm, Found, TypeOK
    <3>5. QED
      BY <1>2, <1>5, <3>1, <3>2, <3>3, <3>4 DEF Found, Joining
  <2>7. OwnHandler'
    BY <1>1, <1>2, <1>3, <1>4, <1>6, <2>1 DEF Calm, OwnHandler, TypeOK
  <2>8. QED
    BY <2>2, <2>5, <2>6, <2>7 DEF Calm
<1>16. QED
  BY <1>7, <1>9, <1>10, <1>11, <1>12, <1>13, <1>14, <1>15 DEF IInv

LEMMA EnterSubscribeStep == ASSUME IInv, EnterSubscribe PROVE IInv'
<1> USE DEF gateway, broker, ecs
<1> DEFINE f == enter.ent
           c == enter.conn
<1>1. TypeOK /\ ConnOK /\ FreshOK /\ EnterOK /\ LeaveOK /\ SubOK /\ IndexSound
  BY DEF IInv
<1>2. /\ enter.step = "set" /\ enter' = [enter EXCEPT !.step = "subscribed"]
      /\ UNCHANGED <<counter, phase, seq, smSub, listed, sent, enterQ, leaveQ, cmQ, up, nextID, alive,
                     player, bySeq, placed, session, leave, busy>>
  BY DEF EnterSubscribe
<1>3. /\ f \in Entity /\ c \in Conn /\ f \in alive /\ leave.ent # f /\ player[f] = c
      /\ (\A s \in SeqID : session[s] # f)
  BY <1>1, <1>2 DEF EnterOK, Joining
<1>4. phase[c] # "none" /\ seq[c] \in SeqID /\ c # NoConn
  BY <1>1, <1>3 DEF ConnOK
<1>5. enter'.step = "subscribed" /\ enter'.ent = f /\ enter'.conn = c
  BY <1>1, <1>2 DEF TypeOK
<1>6. (sub' = [sub EXCEPT ![f] = seq[c]] /\ faults' = faults)
      \/ (faults < MaxFaults /\ faults' = faults + 1 /\ sub' = sub)
  BY DEF EnterSubscribe
<1>7. (\A e \in Entity : e # f => sub'[e] = sub[e]) /\ sub'[f] \in {sub[f], seq[c]}
      /\ sub' \in [Entity -> SeqID \cup {NoSeq}]
  BY <1>1, <1>3, <1>4, <1>6 DEF TypeOK
<1>8. TypeOK' /\ (Undisturbed' => Undisturbed)
  <2>1. faults' \in 0 .. MaxFaults /\ (faults' = 0 => faults = 0)
    BY <1>1, <1>6 DEF TypeOK
  <2>2. enter' \in [step : {"idle", "new", "set", "subscribed", "stored"},
                    ent : Entity \cup {NoEntity}, conn : Conn \cup {NoConn}]
    BY <1>1, <1>2 DEF TypeOK
  <2>3. QED
    BY <1>1, <1>2, <1>7, <2>1, <2>2 DEF TypeOK, Undisturbed
<1> HIDE DEF f, c
<1>9. ConnOK'
  BY <1>1, <1>2, <1>4, <1>5 DEF ConnOK
<1>10. nextID > f
  BY <1>1 DEF FreshOK, f
<1>11. FreshOK'
  BY <1>1, <1>2, <1>3, <1>5, <1>7, <1>10 DEF FreshOK, TypeOK, Entity
<1>12. EnterOK'
  BY <1>2, <1>3, <1>5 DEF EnterOK, Joining
<1>13. LeaveOK'
  BY <1>1, <1>2, <1>3, <1>7 DEF LeaveOK
<1>14. SubOK'
  BY <1>1, <1>2, <1>3, <1>4, <1>7 DEF SubOK
<1>15. IndexSound'
  BY <1>1, <1>2 DEF IndexSound
<1>16. ASSUME Undisturbed' PROVE Calm'
  <2>1. Calm
    BY <1>8, <1>16 DEF IInv
  <2>2. NumbersApart' /\ OwnHandler'
    BY <1>2, <2>1 DEF Calm, NumbersApart, OwnHandler
  <2>3. EntersOnce'
    BY <1>2, <1>5, <2>1 DEF Calm, EntersOnce, f, c
  <2>4. Found'
    BY <1>2, <1>5, <2>1 DEF Calm, Found, Joining, f
  <2>5. QED
    BY <2>2, <2>3, <2>4 DEF Calm
<1>17. QED
  BY <1>8, <1>9, <1>11, <1>12, <1>13, <1>14, <1>15, <1>16 DEF IInv

LEMMA EnterStoreStep == ASSUME IInv, EnterStore PROVE IInv'
<1> USE DEF gateway, broker, ecs
<1> DEFINE f == enter.ent
           c == enter.conn
           n == seq[c]
<1>1. TypeOK /\ ConnOK /\ FreshOK /\ EnterOK /\ LeaveOK /\ SubOK /\ IndexSound
  BY DEF IInv
<1>2. /\ enter.step = "subscribed" /\ enter' = [enter EXCEPT !.step = "stored"]
      /\ session' = [session EXCEPT ![n] = f]
      /\ UNCHANGED <<faults, counter, phase, seq, smSub, listed, sent, enterQ, leaveQ, cmQ, up, nextID,
                     alive, player, bySeq, placed, sub, leave, busy>>
  BY DEF EnterStore
<1>3. /\ f \in Entity /\ c \in Conn /\ f \in alive /\ leave.ent # f /\ player[f] = c
      /\ (\A s \in SeqID : session[s] # f)
  BY <1>1, <1>2 DEF EnterOK, Joining
<1>4. phase[c] # "none" /\ n \in SeqID /\ c # NoConn
  BY <1>1, <1>3 DEF ConnOK
<1>5. enter'.step = "stored" /\ enter'.ent = f /\ enter'.conn = c
  BY <1>1, <1>2 DEF TypeOK
<1>6. session'[n] = f /\ (\A s \in SeqID : s # n => session'[s] = session[s])
  BY <1>1, <1>2, <1>4 DEF TypeOK
<1>7. TypeOK'
  BY <1>1, <1>2, <1>3, <1>4 DEF TypeOK
<1> HIDE DEF f, c, n
<1>8. seq[c] = n
  BY DEF n
<1>9. ConnOK' /\ LeaveOK' /\ SubOK' /\ IndexSound'
  BY <1>1, <1>2, <1>5, <1>3, <1>4 DEF ConnOK, LeaveOK, SubOK, IndexSound
<1>10. nextID > f
  BY <1>1 DEF FreshOK, f
<1>11. FreshOK'
  BY <1>1, <1>2, <1>5, <1>6, <1>10 DEF FreshOK
<1>12. EnterOK'
  BY <1>2, <1>3, <1>5 DEF EnterOK, Joining
<1>13. ASSUME Undisturbed' PROVE Calm'
  <2>1. Calm
    BY <1>2, <1>13 DEF IInv, Undisturbed
  <2>2. NumbersApart' /\ OwnHandler'
    BY <1>2, <2>1 DEF Calm, NumbersApart, OwnHandler
  <2>3. EntersOnce'
    BY <1>2, <1>5, <2>1 DEF Calm, EntersOnce, f, c
  <2>4. \A e \in alive : player[e] # NoConn /\ (e # f => seq[player[e]] # n /\ seq[player[e]] \in SeqID)
    <3> SUFFICES ASSUME NEW e \in alive
                 PROVE  player[e] # NoConn /\ (e # f => seq[player[e]] # n /\ seq[player[e]] \in SeqID)
      OBVIOUS
    <3>1. player[e] # NoConn /\ player[e] \in Conn /\ e \in Entity
      BY <1>1, <1>2, <2>1 DEF Calm, Found, TypeOK
    <3>2. phase[player[e]] # "none" /\ seq[player[e]] \in SeqID
      BY <1>1, <3>1 DEF ConnOK
    <3>3. seq[player[e]] = n => player[e] = c
      BY <1>3, <1>4, <1>8, <2>1, <3>1, <3>2 DEF Calm, NumbersApart
    <3>4. player[e] = c => e = f
      BY <1>3, <2>1, <3>1 DEF Calm, EntersOnce
    <3>5. QED
      BY <3>1, <3>2, <3>3, <3>4
  <2>5. Found'
    <3>1. \A e \in Entity : player[e] # NoConn => e \in alive /\ bySeq[seq[player[e]]] = e
      BY <2>1 DEF Calm, Found
    <3>2. \A e \in alive : leave.ent = e \/ session'[seq[player[e]]] = e
      <4> SUFFICES ASSUME NEW e \in alive PROVE leave.ent = e \/ session'[seq[player[e]]] = e
        OBVIOUS
      <4>1. CASE e = f
        BY <1>3, <1>6, <1>8, <4>1
      <4>2. CASE e # f
        BY <1>6, <2>1, <2>4, <4>2 DEF Calm, Found, f
      <4>3. QED
        BY <4>1, <4>2
    <3>3. \A s \in SeqID : session'[s] # NoEntity =>
            /\ session'[s] \in alive /\ session'[s] # leave.ent
            /\ player[session'[s]] # NoConn /\ seq[player[session'[s]]] = s
      BY <1>3, <1>4, <1>6, <1>8, <2>1 DEF Calm, Found
    <3>4. leave.step # "idle" => /\ leave.ent \in alive /\ player[leave.ent] # NoConn
                                 /\ phase[player[leave.ent]] = "gone"
      BY <2>1 DEF Calm, Found
    <3>5. QED
      BY <1>2, <1>5, <2>4, <3>1, <3>2, <3>3, <3>4 DEF Found, Joining
  <2>6. QED
    BY <2>2, <2>3, <2>5 DEF Calm
<1>14. QED
  BY <1>7, <1>9, <1>11, <1>12, <1>13 DEF IInv

LEMMA EnterSendListStep == ASSUME IInv, EnterSendList PROVE IInv'
<1> USE DEF broker, ecs, table
<1>1. TypeOK /\ ConnOK /\ FreshOK /\ EnterOK /\ LeaveOK /\ SubOK /\ IndexSound
  BY DEF IInv
<1>2. /\ enter.step = "stored" /\ enter' = Idle
      /\ listed' = listed \cup {c \in smSub : seq[c] = seq[enter.conn]}
      /\ UNCHANGED <<faults, counter, phase, seq, smSub, sent, enterQ, leaveQ, cmQ, up, nextID,
                     alive, player, bySeq, placed, session, sub, leave, busy>>
  BY DEF EnterSendList
<1>3. enter'.step = "idle" /\ enter'.ent = 0 /\ enter'.conn = NoConn
  BY <1>2 DEF Idle, NoEntity
<1>4. TypeOK'
  BY <1>1, <1>2 DEF TypeOK, Idle
<1>5. ConnOK' /\ LeaveOK' /\ SubOK' /\ IndexSound'
  BY <1>1, <1>2, <1>3 DEF ConnOK, LeaveOK, SubOK, IndexSound
<1>6. FreshOK' /\ EnterOK'
  BY <1>1, <1>2, <1>3 DEF FreshOK, EnterOK, Joining, TypeOK
<1>7. ASSUME Undisturbed' PROVE Calm'
  <2>1. Calm
    BY <1>2, <1>7 DEF IInv, Undisturbed
  <2>2. NumbersApart' /\ OwnHandler'
    BY <1>2, <2>1 DEF Calm, NumbersApart, OwnHandler
  <2>3. EntersOnce'
    <3>1. InQueue(enterQ) \subseteq Conn
      BY <1>1, InMembers DEF TypeOK
    <3>2. QED
      BY <1>2, <1>3, <2>1, <3>1 DEF Calm, EntersOnce
  <2>4. Found'
    BY <1>2, <1>3, <2>1 DEF Calm, Found, Joining
  <2>5. QED
    BY <2>2, <2>3, <2>4 DEF Calm
<1>8. QED
  BY <1>4, <1>5, <1>6, <1>7 DEF IInv

-----------------------------------------------------------------------------
(* The World: player.leave *)

LEMMA LeaveTakeStep == ASSUME IInv, LeaveTake PROVE IInv'
<1> USE DEF gateway, ecs
<1> DEFINE s == Head(leaveQ)
           f == session[s]
<1>1. TypeOK /\ ConnOK /\ FreshOK /\ EnterOK /\ LeaveOK /\ SubOK /\ IndexSound
  BY DEF IInv
<1>2. /\ leave.step = "idle" /\ leaveQ # <<>> /\ leaveQ' = Tail(leaveQ)
      /\ UNCHANGED <<faults, counter, phase, seq, smSub, listed, sent, enterQ, cmQ, up, nextID,
                     alive, player, bySeq, placed, sub, enter, busy>>
  BY DEF LeaveTake
<1>3. /\ s \in SeqID /\ Tail(leaveQ) \in Seq(SeqID)
      /\ s \in InQueue(leaveQ) /\ InQueue(Tail(leaveQ)) \subseteq InQueue(leaveQ)
  BY <1>1, <1>2, InTail DEF TypeOK
<1>4. (f = NoEntity /\ session' = session /\ leave' = leave)
      \/ (f # NoEntity /\ session' = [session EXCEPT ![s] = NoEntity]
          /\ leave' = [Idle EXCEPT !.step = "taken", !.ent = f])
  BY DEF LeaveTake
<1>5. f \in Entity \cup {NoEntity} /\ leave = Idle /\ leave.ent = NoEntity
  BY <1>1, <1>2, <1>3 DEF TypeOK, LeaveOK, Idle
<1> HIDE DEF s
<1>6. CASE f = NoEntity
  <2>1. session' = session /\ leave' = leave
    BY <1>4, <1>6
  <2> HIDE DEF f
  <2>2. TypeOK'
    BY <1>1, <1>2, <1>3, <2>1 DEF TypeOK
  <2>3. ConnOK' /\ FreshOK' /\ EnterOK' /\ LeaveOK' /\ SubOK' /\ IndexSound'
    BY <1>1, <1>2, <2>1 DEF ConnOK, FreshOK, EnterOK, LeaveOK, SubOK, IndexSound
  <2>4. Undisturbed' => Calm'
    BY <1>2, <1>3, <2>1 DEF IInv, Undisturbed, Calm, NumbersApart, EntersOnce, Found, OwnHandler
  <2>5. QED
    BY <2>2, <2>3, <2>4 DEF IInv
<1>7. CASE f # NoEntity
  <2>1. session'[s] = NoEntity /\ (\A q \in SeqID : q # s => session'[q] = session[q])
    BY <1>1, <1>3, <1>4, <1>7 DEF TypeOK
  <2>2. leave'.step = "taken" /\ leave'.ent = f /\ f \in Entity
    BY <1>4, <1>5, <1>7 DEF Idle
  <2>3. TypeOK'
    <3>1. session' \in [SeqID -> Entity \cup {NoEntity}]
      BY <1>1, <1>3, <1>4, <1>7 DEF TypeOK
    <3>2. leave' \in [step : {"idle", "taken", "unsubscribed"}, ent : Entity \cup {NoEntity},
                      conn : {NoConn}]
      BY <1>4, <1>5, <1>7 DEF Idle
    <3>3. QED
      BY <1>1, <1>2, <1>3, <3>1, <3>2 DEF TypeOK
  <2>4. f < nextID /\ 0 < nextID /\ (enter.step \in Joining => enter.ent # f)
    BY <1>1, <1>3 DEF FreshOK, EnterOK, TypeOK
  <2>5. ConnOK' /\ SubOK' /\ IndexSound'
    BY <1>1, <1>2 DEF ConnOK, SubOK, IndexSound
  <2>6. FreshOK'
    BY <1>1, <1>2, <2>1, <2>2, <2>4 DEF FreshOK, NoEntity
  <2>7. EnterOK'
    BY <1>1, <1>2, <2>1, <2>2, <2>4 DEF EnterOK, NoEntity, Joining, Entity
  <2>8. LeaveOK'
    BY <2>2 DEF LeaveOK
  <2>9. ASSUME Undisturbed' PROVE Calm'
    <3>1. Calm
      BY <1>2, <2>9 DEF IInv, Undisturbed
    <3>2. NumbersApart'
      BY <1>2, <1>3, <3>1 DEF Calm, NumbersApart
    <3>3. EntersOnce' /\ OwnHandler'
      BY <1>2, <3>1 DEF Calm, EntersOnce, OwnHandler
    <3>4. f \in alive /\ player[f] # NoConn /\ seq[player[f]] = s /\ player[f] \in Conn
      BY <1>1, <1>3, <1>7, <2>2, <3>1 DEF Calm, Found, TypeOK
    <3>5. phase[player[f]] = "gone"
      BY <1>3, <3>1, <3>4 DEF Calm, NumbersApart
    <3>6. Found'
      <4>1. \A e \in Entity : player[e] # NoConn => e \in alive /\ bySeq[seq[player[e]]] = e
        BY <3>1 DEF Calm, Found
      <4>2. \A e \in alive : /\ player[e] # NoConn \/ (enter.step = "new" /\ enter.ent = e)
                             /\ \/ enter.step \in Joining /\ enter.ent = e
                                \/ f = e
                                \/ session'[seq[player[e]]] = e
        <5> SUFFICES ASSUME NEW e \in alive
                     PROVE  /\ player[e] # NoConn \/ (enter.step = "new" /\ enter.ent = e)
                            /\ \/ enter.step \in Joining /\ enter.ent = e
                               \/ f = e
                               \/ session'[seq[player[e]]] = e
          OBVIOUS
        <5>1. /\ player[e] # NoConn \/ (enter.step = "new" /\ enter.ent = e)
              /\ \/ enter.step \in Joining /\ enter.ent = e
                 \/ session[seq[player[e]]] = e
          BY <1>1, <1>5, <3>1 DEF Calm, Found, TypeOK, Entity, NoEntity
        <5>2. CASE seq[player[e]] = s
          BY <5>1, <5>2
        <5>3. CASE seq[player[e]] # s /\ player[e] # NoConn
          <6>1. player[e] \in Conn
            BY <1>1, <5>3 DEF TypeOK
          <6>2. seq[player[e]] \in SeqID
            BY <1>1, <6>1 DEF ConnOK, TypeOK
          <6>3. QED
            BY <2>1, <5>1, <5>3, <6>2
        <5>4. CASE player[e] = NoConn
          BY <5>1, <5>4 DEF Joining
        <5>5. QED
          BY <5>2, <5>3, <5>4
      <4>3. \A q \in SeqID : session'[q] # NoEntity =>
              /\ session'[q] \in alive /\ session'[q] # f
              /\ player[session'[q]] # NoConn /\ seq[player[session'[q]]] = q
        BY <2>1, <3>1, <3>4 DEF Calm, Found
      <4>4. QED
        BY <1>2, <2>2, <3>4, <3>5, <4>1, <4>2, <4>3 DEF Found
    <3>7. QED
      BY <3>2, <3>3, <3>6 DEF Calm
  <2>10. QED
    BY <2>3, <2>5, <2>6, <2>7, <2>8, <2>9 DEF IInv
<1>8. QED
  BY <1>6, <1>7

LEMMA LeaveUnsubscribeStep == ASSUME IInv, LeaveUnsubscribe PROVE IInv'
<1> USE DEF gateway, ecs
<1> DEFINE f == leave.ent
<1>1. TypeOK /\ ConnOK /\ FreshOK /\ EnterOK /\ LeaveOK /\ SubOK /\ IndexSound
  BY DEF IInv
<1>2. /\ leave.step = "taken" /\ leave' = [leave EXCEPT !.step = "unsubscribed"]
      /\ sub' = [sub EXCEPT ![f] = NoSeq] /\ cmQ' = [cmQ EXCEPT ![f] = <<>>]
      /\ UNCHANGED <<faults, counter, phase, seq, smSub, listed, sent, enterQ, leaveQ, up, nextID,
                     alive, player, bySeq, placed, session, enter, busy>>
  BY DEF LeaveUnsubscribe
<1>3. f \in Entity
  BY <1>1, <1>2 DEF LeaveOK
<1>4. leave'.step = "unsubscribed" /\ leave'.ent = f
  BY <1>1, <1>2 DEF TypeOK
<1>5. /\ sub'[f] = NoSeq /\ cmQ'[f] = <<>>
      /\ \A e \in Entity : e # f => sub'[e] = sub[e] /\ cmQ'[e] = cmQ[e]
  BY <1>1, <1>2, <1>3 DEF TypeOK
<1>6. TypeOK'
  <2>1. cmQ' \in [Entity -> Seq(Conn)]
    <3>1. <<>> \in Seq(Conn)
      OBVIOUS
    <3>2. QED
      BY <1>1, <1>2, <1>3, <3>1 DEF TypeOK
  <2>2. sub' \in [Entity -> SeqID \cup {NoSeq}]
    BY <1>1, <1>2, <1>3 DEF TypeOK
  <2>3. leave' \in [step : {"idle", "taken", "unsubscribed"}, ent : Entity \cup {NoEntity},
                    conn : {NoConn}]
    BY <1>1, <1>2 DEF TypeOK
  <2>4. QED
    BY <1>1, <1>2, <2>1, <2>2, <2>3 DEF TypeOK
<1> HIDE DEF f
<1>7. ConnOK'
  BY <1>1, <1>2, <1>3, <1>5, InEmpty DEF ConnOK
<1>8. FreshOK' /\ EnterOK'
  BY <1>1, <1>2, <1>4, <1>5 DEF FreshOK, EnterOK, f
<1>9. LeaveOK'
  BY <1>3, <1>4, <1>5 DEF LeaveOK
<1>10. SubOK' /\ IndexSound'
  BY <1>1, <1>2, <1>5, InEmpty DEF SubOK, IndexSound
<1>11. ASSUME Undisturbed' PROVE Calm'
  <2>1. Calm
    BY <1>2, <1>11 DEF IInv, Undisturbed
  <2>2. NumbersApart' /\ EntersOnce' /\ OwnHandler'
    BY <1>2, <2>1 DEF Calm, NumbersApart, EntersOnce, OwnHandler
  <2>3. Found'
    BY <1>2, <1>4, <2>1 DEF Calm, Found, f
  <2>4. QED
    BY <2>2, <2>3 DEF Calm
<1>12. QED
  BY <1>6, <1>7, <1>8, <1>9, <1>10, <1>11 DEF IInv

LEMMA LeaveDestroyStep == ASSUME IInv, LeaveDestroy PROVE IInv'
<1> USE DEF gateway, broker, table
<1> DEFINE f == leave.ent
           n == seq[player[f]]
<1>1. TypeOK /\ ConnOK /\ FreshOK /\ EnterOK /\ LeaveOK /\ SubOK /\ IndexSound
  BY DEF IInv
<1>2. /\ leave.step = "unsubscribed" /\ leave' = Idle
      /\ bySeq' = IF player[f] = NoConn THEN bySeq ELSE [bySeq EXCEPT ![n] = NoEntity]
      /\ alive' = alive \ {f} /\ player' = [player EXCEPT ![f] = NoConn] /\ placed' = placed \ {f}
      /\ UNCHANGED <<faults, counter, phase, seq, smSub, listed, sent, enterQ, leaveQ, cmQ, up, nextID,
                     session, sub, enter, busy>>
  BY DEF LeaveDestroy
<1>3. f \in Entity /\ sub[f] = NoSeq /\ cmQ[f] = <<>>
  BY <1>1, <1>2 DEF LeaveOK
<1>4. leave'.step = "idle" /\ leave'.ent = 0
  BY <1>2 DEF Idle, NoEntity
<1>5. player'[f] = NoConn /\ \A e \in Entity : e # f => player'[e] = player[e]
  BY <1>1, <1>2, <1>3 DEF TypeOK
<1>6. player[f] # NoConn => n \in SeqID
  BY <1>1, <1>3 DEF TypeOK, ConnOK
<1>7. \A s \in SeqID : bySeq'[s] = IF player[f] # NoConn /\ s = n THEN NoEntity ELSE bySeq[s]
  BY <1>1, <1>2, <1>6 DEF TypeOK
<1>8. TypeOK'
  <2>1. bySeq' \in [SeqID -> Entity \cup {NoEntity}]
    BY <1>1, <1>2, <1>6 DEF TypeOK
  <2>2. leave' \in [step : {"idle", "taken", "unsubscribed"}, ent : Entity \cup {NoEntity},
                    conn : {NoConn}]
    BY <1>2 DEF Idle
  <2>3. player' \in [Entity -> Conn \cup {NoConn}] /\ alive' \subseteq Entity /\ placed' \subseteq Entity
    BY <1>1, <1>2, <1>3 DEF TypeOK
  <2>4. QED
    BY <1>1, <1>2, <2>1, <2>2, <2>3 DEF TypeOK
<1> HIDE DEF f, n
<1>9. ConnOK'
  BY <1>1, <1>2, <1>5 DEF ConnOK
<1>10. FreshOK'
  <2>1. \A e \in Entity : e >= nextID =>
          e \notin alive' /\ player'[e] = NoConn /\ sub[e] = NoSeq /\ cmQ[e] = <<>> /\ busy[e] = NoConn
    BY <1>1, <1>2, <1>5 DEF FreshOK
  <2>2. 0 < nextID
    BY <1>1 DEF TypeOK
  <2>3. QED
    BY <1>1, <1>2, <1>4, <2>1, <2>2 DEF FreshOK
<1>11. EnterOK'
  <2>1. enter.step \in Joining => enter.ent # f /\ enter.ent # 0 /\ enter.ent \in Entity
    BY <1>1 DEF EnterOK, Joining, Entity, f
  <2>2. QED
    BY <1>1, <1>2, <1>4, <1>5, <2>1 DEF EnterOK, Joining
<1>12. LeaveOK'
  BY <1>2, <1>4 DEF LeaveOK
<1>13. SubOK'
  BY <1>1, <1>2, <1>3, <1>5, InEmpty DEF SubOK
<1>14. IndexSound'
  <2> SUFFICES ASSUME NEW s \in SeqID, bySeq'[s] # NoEntity
               PROVE  /\ bySeq'[s] \in alive' /\ player'[bySeq'[s]] # NoConn
                      /\ seq[player'[bySeq'[s]]] = s
    BY <1>2 DEF IndexSound
  <2>1. bySeq'[s] = bySeq[s] /\ (player[f] = NoConn \/ s # n)
    BY <1>7
  <2>2. bySeq[s] \in alive /\ player[bySeq[s]] # NoConn /\ seq[player[bySeq[s]]] = s
    BY <1>1, <2>1 DEF IndexSound
  <2>3. bySeq[s] # f /\ bySeq[s] \in Entity
    BY <1>1, <2>1, <2>2 DEF TypeOK, n
  <2>4. QED
    BY <1>2, <1>5, <2>1, <2>2, <2>3
<1>15. ASSUME Undisturbed' PROVE Calm'
  <2>1. Calm
    BY <1>2, <1>15 DEF IInv, Undisturbed
  <2>2. NumbersApart'
    BY <1>2, <2>1 DEF Calm, NumbersApart
  <2>3. EntersOnce'
    BY <1>1, <1>2, <1>3, <1>5, <2>1, InMembers DEF Calm, EntersOnce, ConnOK, TypeOK
  <2>4. Found'
    <3>1. \A e \in Entity : player'[e] # NoConn => e \in alive' /\ bySeq'[seq[player'[e]]] = e
      <4> SUFFICES ASSUME NEW e \in Entity, player'[e] # NoConn
                   PROVE  e \in alive' /\ bySeq'[seq[player'[e]]] = e
        OBVIOUS
      <4>1. e # f /\ player'[e] = player[e] /\ player[e] \in Conn
        BY <1>1, <1>5 DEF TypeOK
      <4>2. e \in alive /\ bySeq[seq[player[e]]] = e
        BY <2>1, <4>1 DEF Calm, Found
      <4>3. phase[player[e]] # "none" /\ seq[player[e]] \in SeqID
        BY <1>1, <4>1 DEF ConnOK
      <4>4. player[f] # NoConn => seq[player[e]] # n
        BY <1>3, <2>1, <4>1, <4>2 DEF Calm, Found, n
      <4>5. QED
        BY <1>2, <1>7, <4>1, <4>2, <4>3, <4>4
    <3>2. \A e \in alive' : /\ player'[e] # NoConn \/ (enter.step = "new" /\ enter.ent = e)
                            /\ \/ enter.step \in Joining /\ enter.ent = e
                               \/ session[seq[player'[e]]] = e
      <4> SUFFICES ASSUME NEW e \in alive, e # f
                   PROVE  /\ player'[e] # NoConn \/ (enter.step = "new" /\ enter.ent = e)
                          /\ \/ enter.step \in Joining /\ enter.ent = e
                             \/ session[seq[player'[e]]] = e
        BY <1>2
      <4>1. player'[e] = player[e]
        BY <1>1, <1>5 DEF TypeOK
      <4>2. QED
        BY <2>1, <4>1 DEF Calm, Found, f
    <3>3. \A s \in SeqID : session[s] # NoEntity =>
            /\ session[s] \in alive' /\ session[s] # 0
            /\ player'[session[s]] # NoConn /\ seq[player'[session[s]]] = s
      <4> SUFFICES ASSUME NEW s \in SeqID, session[s] # NoEntity
                   PROVE  /\ session[s] \in alive' /\ session[s] # 0
                          /\ player'[session[s]] # NoConn /\ seq[player'[session[s]]] = s
        OBVIOUS
      <4>1. /\ session[s] \in alive /\ session[s] # f
            /\ player[session[s]] # NoConn /\ seq[player[session[s]]] = s
        BY <2>1 DEF Calm, Found, f
      <4>2. player'[session[s]] = player[session[s]]
        BY <1>1, <1>5, <4>1 DEF TypeOK
      <4>3. QED
        BY <1>2, <4>1, <4>2 DEF NoEntity
    <3>4. QED
      BY <1>2, <1>4, <3>1, <3>2, <3>3 DEF Found
  <2>5. OwnHandler'
    BY <1>1, <1>2, <1>5, <2>1 DEF Calm, OwnHandler, TypeOK
  <2>6. QED
    BY <2>2, <2>3, <2>4, <2>5 DEF Calm
<1>16. QED
  BY <1>8, <1>9, <1>10, <1>11, <1>12, <1>13, <1>14, <1>15 DEF IInv

-----------------------------------------------------------------------------
(* The World: packets, and the process *)

LEMMA DispatchBeginStep == ASSUME IInv, NEW e \in Entity, DispatchBegin(e) PROVE IInv'
<1> USE DEF gateway, ecs, table
<1> DEFINE c == Head(cmQ[e])
<1>1. TypeOK /\ ConnOK /\ FreshOK /\ EnterOK /\ LeaveOK /\ SubOK /\ IndexSound
  BY DEF IInv
<1>2. /\ busy[e] = NoConn /\ cmQ[e] # <<>>
      /\ busy' = [busy EXCEPT ![e] = c] /\ cmQ' = [cmQ EXCEPT ![e] = Tail(@)]
      /\ UNCHANGED <<faults, counter, phase, seq, smSub, listed, sent, enterQ, leaveQ, up, nextID,
                     alive, player, bySeq, placed, session, sub, enter, leave>>
  BY DEF DispatchBegin
<1>3. /\ c \in Conn /\ Tail(cmQ[e]) \in Seq(Conn) /\ c \in InQueue(cmQ[e])
      /\ InQueue(Tail(cmQ[e])) \subseteq InQueue(cmQ[e])
  BY <1>1, <1>2, InTail DEF TypeOK
<1>4. /\ busy'[e] = c /\ cmQ'[e] = Tail(cmQ[e])
      /\ \A d \in Entity : d # e => busy'[d] = busy[d] /\ cmQ'[d] = cmQ[d]
  BY <1>1, <1>2 DEF TypeOK
<1>5. TypeOK'
  BY <1>1, <1>2, <1>3 DEF TypeOK
<1> HIDE DEF c
<1>6. \A d \in Entity : InQueue(cmQ'[d]) \subseteq InQueue(cmQ[d])
  BY <1>3, <1>4
<1>7. ConnOK'
  BY <1>1, <1>2, <1>6 DEF ConnOK
<1>8. FreshOK' /\ LeaveOK'
  <2>1. \A d \in Entity : cmQ[d] = <<>> => cmQ'[d] = cmQ[d] /\ busy'[d] = busy[d]
    BY <1>2, <1>4
  <2>2. FreshOK'
    BY <1>1, <1>2, <2>1 DEF FreshOK
  <2>3. LeaveOK'
    BY <1>1, <1>2, <2>1 DEF LeaveOK
  <2>4. QED
    BY <2>2, <2>3
<1>9. EnterOK' /\ IndexSound'
  BY <1>1, <1>2 DEF EnterOK, IndexSound
<1>10. SubOK'
  BY <1>1, <1>2, <1>6 DEF SubOK
<1>11. ASSUME Undisturbed' PROVE Calm'
  <2>1. Calm
    BY <1>2, <1>11 DEF IInv, Undisturbed
  <2>2. NumbersApart' /\ EntersOnce' /\ Found'
    BY <1>2, <2>1 DEF Calm, NumbersApart, EntersOnce, Found
  <2>3. player[e] = c
    <3>1. player[e] # NoConn /\ seq[player[e]] = seq[c] /\ player[e] \in Conn
      BY <1>1, <1>3 DEF SubOK, TypeOK
    <3>2. phase[player[e]] # "none" /\ phase[c] # "none"
      BY <1>1, <1>3, <3>1 DEF ConnOK
    <3>3. QED
      BY <1>3, <2>1, <3>1, <3>2 DEF Calm, NumbersApart
  <2>4. OwnHandler'
    BY <1>1, <1>2, <1>4, <2>1, <2>3 DEF Calm, OwnHandler, TypeOK
  <2>5. QED
    BY <2>2, <2>4 DEF Calm
<1>12. QED
  BY <1>5, <1>7, <1>8, <1>9, <1>10, <1>11 DEF IInv

LEMMA DispatchEndStep == ASSUME IInv, NEW e \in Entity, DispatchEnd(e) PROVE IInv'
<1> USE DEF gateway, broker, table
<1>1. TypeOK /\ ConnOK /\ FreshOK /\ EnterOK /\ LeaveOK /\ SubOK /\ IndexSound
  BY DEF IInv
<1>2. /\ placed' \in {placed, placed \cup {e}} /\ busy' = [busy EXCEPT ![e] = NoConn]
      /\ UNCHANGED <<faults, counter, phase, seq, smSub, listed, sent, enterQ, leaveQ, cmQ, up, nextID,
                     alive, player, bySeq, session, sub, enter, leave>>
  BY DEF DispatchEnd
<1>3. busy'[e] = NoConn /\ \A d \in Entity : d # e => busy'[d] = busy[d]
  BY <1>1, <1>2 DEF TypeOK
<1>4. TypeOK'
  BY <1>1, <1>2 DEF TypeOK
<1>5. ConnOK' /\ EnterOK' /\ LeaveOK' /\ SubOK' /\ IndexSound'
  BY <1>1, <1>2 DEF ConnOK, EnterOK, LeaveOK, SubOK, IndexSound
<1>6. FreshOK'
  BY <1>1, <1>2, <1>3 DEF FreshOK
<1>7. Undisturbed' => Calm'
  BY <1>1, <1>2, <1>3 DEF IInv, Undisturbed, Calm, NumbersApart, EntersOnce, Found, OwnHandler, TypeOK
<1>8. QED
  BY <1>4, <1>5, <1>6, <1>7 DEF IInv

LEMMA CrashWorldStep == ASSUME IInv, CrashWorld PROVE IInv'
<1> USE DEF gateway, NoPacket, NoneOf, NoEntry, NoSub, Idle
<1>1. TypeOK /\ ConnOK
  BY DEF IInv
<1>2. /\ faults < MaxFaults /\ faults' = faults + 1
      /\ enterQ' = <<>> /\ leaveQ' = <<>> /\ cmQ' = NoPacket /\ up' = FALSE
      /\ nextID' = 1 /\ alive' = {} /\ player' = NoneOf /\ bySeq' = NoEntry /\ placed' = {}
      /\ session' = NoEntry /\ sub' = NoSub /\ enter' = Idle /\ leave' = Idle /\ busy' = NoneOf
      /\ UNCHANGED <<counter, phase, seq, smSub, listed, sent>>
  BY DEF CrashWorld
<1>3. enter'.step = "idle" /\ enter'.ent = 0 /\ enter'.conn = NoConn /\ leave'.step = "idle"
      /\ leave'.ent = 0
  BY <1>2 DEF NoEntity
<1>4. \A e \in Entity : player'[e] = NoConn /\ sub'[e] = NoSeq /\ cmQ'[e] = <<>> /\ busy'[e] = NoConn
  BY <1>2
<1>5. \A s \in SeqID : session'[s] = 0 /\ bySeq'[s] = 0
  BY <1>2 DEF NoEntity
<1>6. TypeOK' /\ ~Undisturbed'
  <2>1. faults' \in 0 .. MaxFaults /\ faults' # 0
    BY <1>1, <1>2 DEF TypeOK
  <2>2. enterQ' \in Seq(Conn) /\ leaveQ' \in Seq(SeqID) /\ cmQ' \in [Entity -> Seq(Conn)]
    BY <1>2
  <2>3. up' \in BOOLEAN /\ nextID' \in 1 .. MaxEntity + 1 /\ alive' \in SUBSET Entity
        /\ player' \in [Entity -> Conn \cup {NoConn}] /\ placed' \in SUBSET Entity
        /\ bySeq' \in [SeqID -> Entity \cup {NoEntity}]
        /\ session' \in [SeqID -> Entity \cup {NoEntity}]
        /\ sub' \in [Entity -> SeqID \cup {NoSeq}] /\ busy' \in [Entity -> Conn \cup {NoConn}]
    <3>1. up' \in BOOLEAN /\ alive' \in SUBSET Entity /\ placed' \in SUBSET Entity
      BY <1>2
    <3>2. nextID' \in 1 .. MaxEntity + 1
      BY <1>2
    <3>3. player' \in [Entity -> Conn \cup {NoConn}] /\ busy' \in [Entity -> Conn \cup {NoConn}]
      BY <1>2
    <3>4. bySeq' \in [SeqID -> Entity \cup {NoEntity}] /\ session' \in [SeqID -> Entity \cup {NoEntity}]
      BY <1>2
    <3>5. sub' \in [Entity -> SeqID \cup {NoSeq}]
      BY <1>2
    <3>6. QED
      BY <3>1, <3>2, <3>3, <3>4, <3>5
  <2>4. enter' \in [step : {"idle", "new", "set", "subscribed", "stored"},
                    ent : Entity \cup {NoEntity}, conn : Conn \cup {NoConn}]
        /\ leave' \in [step : {"idle", "taken", "unsubscribed"},
                       ent : Entity \cup {NoEntity}, conn : {NoConn}]
    BY <1>2
  <2>5. QED
    BY <1>1, <1>2, <2>1, <2>2, <2>3, <2>4 DEF TypeOK, Undisturbed
<1>7. ConnOK'
  <2>1. \A c \in Conn : c # NoConn
    BY WorldSessionAssumption
  <2>2. QED
    BY <1>1, <1>2, <1>3, <1>4, <2>1, InEmpty DEF ConnOK
<1>8. FreshOK' /\ EnterOK' /\ LeaveOK'
  BY <1>2, <1>3, <1>4, <1>5 DEF FreshOK, EnterOK, LeaveOK, Joining
<1>9. SubOK' /\ IndexSound'
  BY <1>4, <1>5, InEmpty DEF SubOK, IndexSound, NoEntity
<1>10. QED
  BY <1>6, <1>7, <1>8, <1>9 DEF IInv

\* The World is down only after a crash.
LEMMA StartWorldStep == ASSUME IInv, StartWorld PROVE IInv'
<1> USE DEF gateway, broker, ecs, table, calls
<1>1. ~up /\ up' = TRUE
      /\ UNCHANGED <<faults, counter, phase, seq, smSub, listed, sent, enterQ, leaveQ, cmQ, nextID,
                     alive, player, bySeq, placed, session, sub, enter, leave, busy>>
  BY DEF StartWorld
<1>2. TypeOK' /\ ConnOK' /\ FreshOK' /\ EnterOK' /\ LeaveOK' /\ SubOK' /\ IndexSound'
  <2>1. TypeOK'
    BY <1>1 DEF IInv, TypeOK
  <2>2. ConnOK' /\ FreshOK' /\ IndexSound'
    BY <1>1 DEF IInv, ConnOK, FreshOK, IndexSound
  <2>3. EnterOK' /\ LeaveOK' /\ SubOK'
    BY <1>1 DEF IInv, EnterOK, LeaveOK, SubOK
  <2>4. QED
    BY <2>1, <2>2, <2>3
<1>3. ~Undisturbed'
  BY <1>1 DEF IInv, Calm, NumbersApart, Undisturbed
<1>4. QED
  BY <1>2, <1>3 DEF IInv

-----------------------------------------------------------------------------

LEMMA StepIInv == IInv /\ [Next]_vars => IInv'
<1> SUFFICES ASSUME IInv, [Next]_vars PROVE IInv'
  OBVIOUS
<1>1. ASSUME NEW c \in Conn, ConnStep(c) PROVE IInv'
  BY <1>1, AcceptStep, AuthenticateStep, AnnounceEnterStep, SubscribeSMStep, RelayCMStep,
     DisconnectStep DEF ConnStep
<1>2. CASE EnterStep
  BY <1>2, EnterBeginStep, EnterSetPlayerStep, EnterSubscribeStep, EnterStoreStep, EnterSendListStep
     DEF EnterStep
<1>3. CASE LeaveStep
  BY <1>3, LeaveTakeStep, LeaveUnsubscribeStep, LeaveDestroyStep DEF LeaveStep
<1>4. ASSUME NEW e \in Entity, DispatchStep(e) PROVE IInv'
  BY <1>4, DispatchBeginStep, DispatchEndStep DEF DispatchStep
<1>5. CASE RestartGateway \/ CrashWorld \/ StartWorld
  BY <1>5, RestartGatewayStep, CrashWorldStep, StartWorldStep
<1>6. CASE UNCHANGED vars
  <2> USE <1>6 DEF vars, gateway, broker, ecs, table, calls
  <2>1. TypeOK'
    BY DEF IInv, TypeOK
  <2>2. ConnOK' /\ FreshOK' /\ IndexSound'
    BY DEF IInv, ConnOK, FreshOK, IndexSound
  <2>3. EnterOK' /\ LeaveOK' /\ SubOK'
    BY DEF IInv, EnterOK, LeaveOK, SubOK
  <2>4. Undisturbed' => Calm'
    BY DEF IInv, Undisturbed, Calm, NumbersApart, EntersOnce, Found, OwnHandler
  <2>5. QED
    BY <2>1, <2>2, <2>3, <2>4 DEF IInv
<1>7. QED
  BY <1>1, <1>2, <1>3, <1>4, <1>5, <1>6 DEF Next

THEOREM IInvAlways == Spec => []IInv
<1>1. Init => IInv
  BY InitIInv
<1>2. IInv /\ [Next]_vars => IInv'
  BY StepIInv
<1>3. QED
  BY <1>1, <1>2, PTL DEF Spec

\* What the reverse index names is a live entity of that session, however enters,
\* leaves, packets and restarts overlap (world.go:63 and :94).
THEOREM SessionIndexSound == Spec => []IndexSound
<1>1. IInv => IndexSound
  BY DEF IInv
<1>2. QED
  BY <1>1, IInvAlways, PTL

\* Until the first restart every entity can be found by its leave, and packets
\* are handled for the entity of the connection that sent them (dispatcher.go:57
\* and :91).
THEOREM SessionsStayApart == Spec => []SessionsApart
<1>1. IInv => SessionsApart
  <2> SUFFICES ASSUME IInv PROVE SessionsApart
    OBVIOUS
  <2>1. TypeOK /\ ConnOK /\ LeaveOK /\ SubOK
    BY DEF IInv
  <2>2. ASSUME Undisturbed, NEW e \in alive
        PROVE  \/ enter.step # "idle" /\ enter.ent = e
               \/ leave.step # "idle" /\ leave.ent = e
               \/ player[e] # NoConn /\ session[seq[player[e]]] = e /\ bySeq[seq[player[e]]] = e
    <3>1. Found /\ e \in Entity
      BY <2>1, <2>2 DEF IInv, Calm, TypeOK
    <3>2. CASE enter.step \in Joining /\ enter.ent = e
      BY <3>2 DEF Joining
    <3>3. CASE leave.ent = e
      <4>1. leave.step # "idle"
        BY <2>1, <3>1, <3>3 DEF LeaveOK, Idle, NoEntity, Entity
      <4>2. QED
        BY <3>3, <4>1
    <3>4. CASE session[seq[player[e]]] = e
      BY <3>1, <3>4 DEF Found
    <3>5. QED
      BY <3>1, <3>2, <3>3, <3>4 DEF Found
  <2>3. NoOrphanEntity
    BY <2>2 DEF NoOrphanEntity
  <2>4. ASSUME Undisturbed, NEW e \in Entity, NEW c \in InQueue(cmQ[e]) PROVE player[e] = c
    <3>1. player[e] # NoConn /\ seq[player[e]] = seq[c] /\ player[e] \in Conn /\ c \in Conn
      BY <2>1, <2>4, InMembers DEF SubOK, TypeOK
    <3>2. phase[player[e]] # "none" /\ phase[c] # "none"
      BY <2>1, <3>1 DEF ConnOK
    <3>3. QED
      BY <2>4, <3>1, <3>2 DEF IInv, Calm, NumbersApart
  <2>5. OwnPackets
    BY <2>4 DEF OwnPackets, IInv, Calm, OwnHandler
  <2>6. QED
    BY <2>1, <2>3, <2>5 DEF SessionsApart
<1>2. QED
  BY <1>1, IInvAlways, PTL

\* A connection that is still there does not lose its entity or subscription to
\* the leave of another (dispatcher.go:91, world.go:94).
THEOREM SessionKeepsEntity == Spec => ConnectedKeepsEntity
<1>1. IInv /\ [Next]_vars =>
        [Undisturbed' => \A e \in alive :
           player[e] # NoConn /\ phase[player[e]] # "gone"
             => e \in alive' /\ (sub[e] # NoSeq => sub'[e] = sub[e])]_vars
  <2> SUFFICES ASSUME IInv, Next, Undisturbed', NEW e \in alive,
                      player[e] # NoConn, phase[player[e]] # "gone"
               PROVE  e \in alive' /\ (sub[e] # NoSeq => sub'[e] = sub[e])
    OBVIOUS
  <2>1. TypeOK /\ e \in Entity
    BY DEF IInv, TypeOK
  <2>2. CASE LeaveUnsubscribe \/ LeaveDestroy
    <3>1. Undisturbed /\ leave.step # "idle"
      BY <2>2 DEF LeaveUnsubscribe, LeaveDestroy, Undisturbed
    <3>2. e # leave.ent
      BY <3>1 DEF IInv, Calm, Found
    <3>3. leave.ent \in Entity
      BY <3>1 DEF IInv, LeaveOK
    <3>4. QED
      BY <2>1, <2>2, <3>2, <3>3 DEF LeaveUnsubscribe, LeaveDestroy, TypeOK, ecs, table
  <2>3. CASE EnterSubscribe
    <3>1. alive' = alive
      BY <2>3 DEF EnterSubscribe, ecs
    <3>2. CASE e = enter.ent
      <4>1. player[e] = enter.conn /\ (sub[e] # NoSeq => sub[e] = seq[enter.conn])
        BY <2>1, <2>3, <3>2 DEF EnterSubscribe, IInv, EnterOK, SubOK
      <4>2. sub'[e] \in {sub[e], seq[enter.conn]}
        BY <2>1, <2>3, <3>2 DEF EnterSubscribe, TypeOK
      <4>3. QED
        BY <3>1, <4>1, <4>2
    <3>3. CASE e # enter.ent
      BY <2>1, <2>3, <3>1, <3>3 DEF EnterSubscribe, TypeOK
    <3>4. QED
      BY <3>2, <3>3
  <2>4. CASE CrashWorld
    BY <2>1, <2>4 DEF CrashWorld, Undisturbed, TypeOK
  <2>5. CASE \E c \in Conn : ConnStep(c)
    BY <2>5 DEF ConnStep, Accept, Authenticate, AnnounceEnter, SubscribeSM, RelayCM, Disconnect, ecs, table
  <2>6. CASE EnterBegin \/ EnterSetPlayer \/ EnterStore \/ EnterSendList
    BY <2>6 DEF EnterBegin, EnterSetPlayer, EnterStore, EnterSendList, ecs, table
  <2>7. CASE LeaveTake \/ (\E d \in Entity : DispatchStep(d)) \/ RestartGateway \/ StartWorld
    BY <2>7 DEF LeaveTake, DispatchStep, DispatchBegin, DispatchEnd, RestartGateway, StartWorld, ecs, table
  <2>8. QED
    BY <2>2, <2>3, <2>4, <2>5, <2>6, <2>7 DEF Next, EnterStep, LeaveStep
<1>2. QED
  BY <1>1, IInvAlways, PTL DEF Spec, ConnectedKeepsEntity
=============================================================================
