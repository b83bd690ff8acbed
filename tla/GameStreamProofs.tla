-------------------------- MODULE GameStreamProofs --------------------------
(***************************************************************************)
(* Proofs about GameStream, for every set of lengths, every bound and      *)
(* failing writes or not.                                                  *)
(*                                                                         *)
(* That the two copies of the server key stay accounted for is inductive   *)
(* with the types.  What the client can decipher before the World's first  *)
(* packet is not: the proof carries along that the callback is idle until  *)
(* then, that the connection goroutine is over after a failed write, and   *)
(* that the packet under way was ciphered with the key the client is at.   *)
(* The other direction, InboundInSync, is inductive as it stands.          *)
(***************************************************************************)
EXTENDS GameStream, SequenceTheorems, TLAPS

USE GameStreamAssumption

LEMMA OneOf == ASSUME NEW S, NEW x \in S PROVE <<x>> \in Seq(S)
  OBVIOUS

LEMMA NoneOf == ASSUME NEW S PROVE <<>> \in Seq(S)
  OBVIOUS

LEMMA BurstIsSeq == ASSUME NEW lens \in Bursts PROVE lens \in Seq(Length)
  BY SeqDef DEF Bursts

Peer == [read : Nat, write : Nat, follows : BOOLEAN, clear : Nat, sent : Nat]

\* What the client makes of a packet.
LEMMA ReceivesType ==
  ASSUME peer \in Peer, NEW p \in Packet, Receives(p)
  PROVE  /\ peer' \in Peer
         /\ peer'.read = IF p.cipher THEN peer.read + p.len ELSE peer.read
         /\ peer'.follows = (peer.follows /\ (p.cipher => p.key = peer.read))
         /\ peer'.clear = IF p.cipher THEN peer.clear ELSE peer.clear + 1
<1> DEFINE r == IF p.cipher THEN peer.read + p.len ELSE peer.read
           f == peer.follows /\ (p.cipher => p.key = peer.read)
           c == IF p.cipher THEN peer.clear ELSE peer.clear + 1
<1>1. r \in Nat /\ c \in Nat
  BY DEF Peer, Packet
<1>2. f \in BOOLEAN
  OBVIOUS
<1>3. peer' = [peer EXCEPT !.read = r, !.follows = f, !.clear = c]
  BY Zenon DEF Receives
<1> HIDE DEF r, f, c
<1>4. \A r1 \in Nat, f1 \in BOOLEAN, c1 \in Nat :
        peer' = [peer EXCEPT !.read = r1, !.follows = f1, !.clear = c1]
          => peer' \in Peer /\ peer'.read = r1 /\ peer'.follows = f1 /\ peer'.clear = c1
  BY DEF Peer
<1>5. peer' \in Peer /\ peer'.read = r /\ peer'.follows = f /\ peer'.clear = c
  BY <1>1, <1>2, <1>3, <1>4, Zenon
<1>6. QED
  BY <1>5 DEF r, f, c

\* The reply to a packet, and what handling one leaves of the types.
LEMMA ReplyType ==
  ASSUME out \in [Writer -> Seq(Length)], NEW lens \in Seq(Length), Reply(lens)
  PROVE  out' \in [Writer -> Seq(Length)]
  BY DEF Reply, Writer

LEMMA CountType ==
  ASSUME TypeOK, NEW after \in {"ending", "subscribe"}, Count(after)
  PROVE  stage' \in Stage /\ reads' \in 0 .. LoginPackets - 1 /\ subscribed' \in BOOLEAN
<1>1. LoginPackets \in Nat /\ LoginPackets > 0 /\ reads \in Nat
  BY DEF TypeOK
<1>2. CASE reads + 1 < LoginPackets
  BY <1>1, <1>2 DEF TypeOK, Count
<1>3. CASE ~(reads + 1 < LoginPackets)
  <2>1. reads' = 0 /\ (Return \/ (stage' = after /\ UNCHANGED subscribed))
    BY <1>3 DEF Count
  <2>2. reads' \in 0 .. LoginPackets - 1
    BY <1>1, <2>1
  <2>3. stage' \in Stage /\ subscribed' \in BOOLEAN
    BY <2>1 DEF TypeOK, Return, Stage
  <2>4. QED
    BY <2>2, <2>3
<1>4. QED
  BY <1>2, <1>3

LEMMA LoginType ==
  ASSUME TypeOK, NEW kind, Login(kind)
  PROVE  /\ stage' \in Stage /\ reads' \in 0 .. LoginPackets - 1 /\ subscribed' \in BOOLEAN
         /\ out' \in [Writer -> Seq(Length)]
<1>1. CASE kind = "version" /\ Count("ending") /\ \E len \in Length : Reply(<<len>>)
  BY <1>1, CountType, ReplyType, OneOf DEF TypeOK
<1>2. CASE Return /\ UNCHANGED <<out, reads>>
  BY <1>2 DEF TypeOK, Return, Stage
<1>3. CASE /\ stage' = "list" /\ reads' = 0 /\ UNCHANGED subscribed
           /\ \E len \in Length : Reply(<<len>>)
  <2>1. reads' \in 0 .. LoginPackets - 1
    BY <1>3
  <2>2. stage' \in Stage /\ subscribed' \in BOOLEAN
    BY <1>3 DEF TypeOK, Stage
  <2>3. out' \in [Writer -> Seq(Length)]
    BY <1>3, ReplyType, OneOf DEF TypeOK
  <2>4. QED
    BY <2>1, <2>2, <2>3
<1>4. CASE Count("ending") /\ UNCHANGED out
  BY <1>4, CountType DEF TypeOK
<1>5. QED
  BY <1>1, <1>2, <1>3, <1>4 DEF Login

LEMMA ListType ==
  ASSUME TypeOK, NEW kind, List(kind)
  PROVE  /\ stage' \in Stage /\ reads' \in 0 .. LoginPackets - 1 /\ subscribed' \in BOOLEAN
         /\ out' \in [Writer -> Seq(Length)]
<1>1. CASE kind = "info"
  BY <1>1, CountType DEF TypeOK, List
<1>2. CASE kind # "info"
  BY <1>2, ReplyType, BurstIsSeq DEF TypeOK, List, Stage
<1>3. QED
  BY <1>1, <1>2

LEMMA CreateType ==
  ASSUME TypeOK, Create
  PROVE  /\ window' \in BOOLEAN /\ nextObjID' \in Nat /\ selected' \in Nat
         /\ out' \in [Writer -> Seq(Length)]
<1>1. out' \in [Writer -> Seq(Length)]
  BY ReplyType, OneOf DEF TypeOK, Create
<1>2. window' \in BOOLEAN
  BY DEF Create
<1>3. nextObjID' \in Nat /\ selected' \in Nat
  BY DEF TypeOK, Create
<1>4. QED
  BY <1>1, <1>2, <1>3

LEMMA RelayType ==
  ASSUME TypeOK, NEW kind, Relay(kind)
  PROVE  /\ stage' \in Stage /\ subscribed' \in BOOLEAN
         /\ window' \in BOOLEAN /\ nextObjID' \in Nat /\ selected' \in Nat
         /\ out' \in [Writer -> Seq(Length)] /\ relayed' \in Seq(Nat)
<1>1. CASE (\E lens \in Bursts : Reply(lens)) /\ UNCHANGED <<stage, subscribed, lobby, relayed>>
  BY <1>1, ReplyType, BurstIsSeq DEF TypeOK, lobby
<1>2. CASE Create /\ UNCHANGED <<stage, subscribed, relayed>>
  BY <1>2, CreateType DEF TypeOK
<1>3. CASE UNCHANGED <<stage, subscribed, out, lobby, relayed>>
  BY <1>3 DEF TypeOK, lobby
<1>4. CASE Return /\ UNCHANGED <<out, lobby, relayed>>
  BY <1>4 DEF TypeOK, lobby, Return, Stage
<1>5. CASE /\ relayed' = IF kind = "enter" THEN Append(relayed, selected) ELSE relayed
           /\ UNCHANGED <<stage, subscribed, out, lobby>>
  BY <1>5 DEF TypeOK, lobby
<1>6. QED
  BY <1>1, <1>2, <1>3, <1>4, <1>5 DEF Relay

\* Reading leaves the writers and the keys of the other direction alone.
LEMMA ReadType ==
  ASSUME TypeOK, Read
  PROVE  TypeOK'
<1>1. PICK p \in [kind : Kind, key : Nat, len : ClientLength], valid \in BOOLEAN :
        /\ up # <<>> /\ up' = Tail(up) /\ p = Head(up)
        /\ Decrypt(p, valid)
        /\ \/ valid /\ (Login(p.kind) \/ List(p.kind) \/ Relay(p.kind))
           \/ ~valid /\ Return /\ UNCHANGED <<reads, lobby, out, relayed>>
        /\ UNCHANGED <<enabled, serverKey, packet, peer, fromWorld, cut>>
  <2> DEFINE P == [kind : Kind, key : Nat, len : ClientLength]
  <2>1. up \in Seq(P) /\ up # <<>>
    BY DEF Read, TypeOK
  <2> HIDE DEF P
  <2>2. Head(up) \in P
    BY <2>1
  <2>3. QED
    BY <2>1, <2>2 DEF Read, P
<1>2. up' \in Seq([kind : Kind, key : Nat, len : ClientLength])
  BY <1>1 DEF TypeOK
<1>3. clientKey' \in Nat
  <2>1. p.len \in Nat
    OBVIOUS
  <2>2. QED
    BY <1>1, <2>1 DEF TypeOK, Decrypt
<1>4. /\ stage' \in Stage /\ reads' \in 0 .. LoginPackets - 1 /\ subscribed' \in BOOLEAN
      /\ out' \in [Writer -> Seq(Length)] /\ relayed' \in Seq(Nat)
      /\ window' \in BOOLEAN /\ nextObjID' \in Nat /\ selected' \in Nat
  <2>1. CASE Login(p.kind)
    BY <2>1, LoginType DEF TypeOK, Login, lobby
  <2>2. CASE List(p.kind)
    BY <2>2, ListType DEF TypeOK, List, lobby
  <2>3. CASE Relay(p.kind)
    <3>1. UNCHANGED reads
      BY <2>3 DEF Relay
    <3>2. QED
      BY <2>3, <3>1, RelayType DEF TypeOK
  <2>4. CASE Return /\ UNCHANGED <<reads, lobby, out, relayed>>
    BY <2>4 DEF TypeOK, Return, Stage, lobby
  <2>5. QED
    BY <1>1, <2>1, <2>2, <2>3, <2>4
<1>5. QED
  BY <1>1, <1>2, <1>3, <1>4 DEF TypeOK

LEMMA TypeStep ==
  ASSUME TypeOK, [Next]_vars
  PROVE  TypeOK'
<1> USE DEF Peer, crypt, lobby, world
<1>1. CASE ClientSends
  <2>1. PICK kind \in Kind, len \in ClientLength :
          /\ up' = Append(up, [kind |-> kind, key |-> peer.write, len |-> len])
          /\ peer' = [peer EXCEPT !.write = @ + len, !.sent = @ + 1]
    BY <1>1 DEF ClientSends
  <2>2. len \in Nat
    OBVIOUS
  <2>3. peer' \in Peer /\ up' \in Seq([kind : Kind, key : Nat, len : ClientLength])
    <3>1. peer' \in Peer
      <4>1. peer \in Peer
        BY DEF TypeOK
      <4>2. peer.write + len \in Nat /\ peer.sent + 1 \in Nat
        BY <2>2, <4>1
      <4>3. \A q \in Peer, n, m \in Nat : [q EXCEPT !.write = n, !.sent = m] \in Peer
        OBVIOUS
      <4>4. peer' = [peer EXCEPT !.write = peer.write + len, !.sent = peer.sent + 1]
        BY <2>1
      <4>5. QED
        BY <4>1, <4>2, <4>3, <4>4
    <3>2. [kind |-> kind, key |-> peer.write, len |-> len] \in [kind : Kind, key : Nat, len : ClientLength]
      BY DEF TypeOK
    <3>3. QED
      BY <2>1, <3>1, <3>2 DEF TypeOK
  <2>4. QED
    BY <1>1, <2>3 DEF TypeOK, ClientSends
<1>2. CASE SendKey
  <2>1. [cipher |-> FALSE, key |-> 0, len |-> 0] \in Packet
    BY DEF Packet
  <2>2. peer' \in Peer
    BY <1>2, <2>1, ReceivesType DEF TypeOK, SendKey
  <2>3. QED
    BY <1>2, <2>2 DEF TypeOK, SendKey, Stage
<1>3. CASE Read
  BY <1>3, ReadType
<1>4. CASE ReadFails
  BY <1>4 DEF TypeOK, ReadFails, Return, Stage
<1>5. CASE Subscribe
  BY <1>5 DEF TypeOK, Subscribe, Stage
<1>6. CASE Close
  BY <1>6 DEF TypeOK, Close, Stage
<1>7. CASE FromWorld
  <2>1. out' \in [Writer -> Seq(Length)]
    BY <1>7, OneOf DEF TypeOK, FromWorld, Writer
  <2>2. QED
    BY <1>7, <2>1 DEF TypeOK, FromWorld
<1>8. ASSUME NEW w \in Writer, Encrypt(w)
      PROVE  TypeOK'
  <2>1. Head(out[w]) \in Nat /\ Tail(out[w]) \in Seq(Length)
    <3>1. out[w] \in Seq(Length) /\ out[w] # <<>>
      BY <1>8 DEF TypeOK, Encrypt
    <3>2. Head(out[w]) \in Length /\ Tail(out[w]) \in Seq(Length)
      BY <3>1
    <3>3. QED
      BY <3>2
  <2>2. out' \in [Writer -> Seq(Length)]
    BY <1>8, <2>1 DEF TypeOK, Encrypt
  <2>3. [cipher |-> enabled, key |-> serverKey, len |-> Head(out[w])] \in Packet
    BY <2>1 DEF TypeOK, Packet
  <2>4. packet' \in [Writer -> Packet]
    BY <1>8, <2>3 DEF TypeOK, Encrypt
  <2>5. serverKey' \in Nat /\ enabled' \in BOOLEAN
    BY <1>8, <2>1 DEF TypeOK, Encrypt
  <2>6. QED
    BY <1>8, <2>2, <2>4, <2>5 DEF TypeOK, Encrypt
<1>9. NoPacket \in Packet
  BY DEF NoPacket, Packet
<1>10. ASSUME NEW w \in Writer, Write(w)
       PROVE  TypeOK'
  <2>1. peer' \in Peer
    BY <1>10, ReceivesType DEF TypeOK, Write
  <2>2. packet' \in [Writer -> Packet]
    BY <1>9, <1>10 DEF TypeOK, Write
  <2>3. QED
    BY <1>10, <2>1, <2>2 DEF TypeOK, Write
<1>11. ASSUME NEW w \in Writer, WriteFails(w)
       PROVE  TypeOK'
  <2>1. packet' \in [Writer -> Packet]
    BY <1>9, <1>11 DEF TypeOK, WriteFails
  <2>2. stage' \in Stage /\ subscribed' \in BOOLEAN
    BY <1>11 DEF TypeOK, WriteFails, Stage
  <2>3. out' \in [Writer -> Seq(Length)]
    <3>1. out' = [out EXCEPT ![w] = <<>>] \/ out' = out
      BY <1>11 DEF WriteFails
    <3>2. QED
      BY <3>1, NoneOf DEF TypeOK
  <2>4. cut' \in BOOLEAN
    BY <1>11 DEF WriteFails
  <2>5. QED
    BY <1>11, <2>1, <2>2, <2>3, <2>4 DEF TypeOK, WriteFails
<1>12. CASE UNCHANGED vars
  BY <1>12 DEF TypeOK, vars
<1>13. QED
  BY <1>1, <1>2, <1>3, <1>4, <1>5, <1>6, <1>7, <1>8, <1>10, <1>11, <1>12 DEF Next

\* Every execution keeps the types of GameStream.
THEOREM StreamTypeCorrect == Spec => []TypeOK
<1>1. Init => TypeOK
  <2> SUFFICES ASSUME Init PROVE TypeOK
    OBVIOUS
  <2>1. NoPacket \in Packet
    BY DEF NoPacket, Packet
  <2>2. /\ out \in [Writer -> Seq(Length)] /\ packet \in [Writer -> Packet]
        /\ up \in Seq([kind : Kind, key : Nat, len : ClientLength]) /\ relayed \in Seq(Nat)
    BY <2>1 DEF Init
  <2>3. peer \in Peer
    BY DEF Init, Peer
  <2>4. reads \in 0 .. LoginPackets - 1 /\ fromWorld \in 0 .. MaxFromWorld
    BY DEF Init
  <2>5. QED
    BY <2>2, <2>3, <2>4 DEF Init, TypeOK, Stage, Peer
<1>2. QED
  BY <1>1, TypeStep, PTL DEF Spec

-----------------------------------------------------------------------------
(* The two copies of the server key *)

\* A step that changes neither the keys nor what is under way.
LEMMA KeysUnchanged ==
  ASSUME KeysAccounted, UNCHANGED <<serverKey, packet, cut>>, peer'.read = peer.read
  PROVE  KeysAccounted'
  BY DEF KeysAccounted, Pending

\* The part of the key that one writer holds.
LEMMA PendingIn ==
  ASSUME TypeOK, NEW w \in Writer
  PROVE  Pending(w) \in Nat
<1>1. packet[w] \in Packet
  BY DEF TypeOK
<1>2. QED
  BY <1>1 DEF Packet, Pending

LEMMA KeysStep ==
  ASSUME TypeOK, KeysAccounted, [Next]_vars
  PROVE  KeysAccounted'
<1>0. peer \in Peer /\ "conn" \in Writer /\ "sub" \in Writer /\ serverKey \in Nat
  BY DEF TypeOK, Peer, Writer
<1>1. CASE ClientSends
  <2>1. peer'.read = peer.read
    BY <1>0, <1>1 DEF ClientSends, Peer
  <2>2. QED
    BY <1>1, <2>1, KeysUnchanged DEF ClientSends, crypt
<1>2. CASE SendKey
  <2>1. [cipher |-> FALSE, key |-> 0, len |-> 0] \in Packet
    BY DEF Packet
  <2>2. peer'.read = peer.read
    BY <1>0, <1>2, <2>1, ReceivesType DEF SendKey
  <2>3. QED
    BY <1>2, <2>2, KeysUnchanged DEF SendKey
<1>3. CASE Read \/ ReadFails \/ Subscribe \/ Close \/ FromWorld \/ UNCHANGED vars
  <2>1. UNCHANGED <<serverKey, packet, cut, peer>>
    BY <1>3 DEF Read, ReadFails, Subscribe, Close, FromWorld, vars, crypt
  <2>2. QED
    BY <2>1, KeysUnchanged
<1>4. ASSUME NEW w \in Writer, Encrypt(w), ~cut
      PROVE  KeysAccounted'
  <2>1. packet[w] = NoPacket /\ Pending(w) = 0
    BY <1>4 DEF Encrypt, Pending, NoPacket
  <2>2. \A v \in Writer : v # w => packet'[v] = packet[v]
    BY <1>4 DEF Encrypt, TypeOK
  <2>3. packet'[w] = [cipher |-> enabled, key |-> serverKey, len |-> Head(out[w])]
    BY <1>4 DEF Encrypt, TypeOK
  <2>4. Head(out[w]) \in Nat
    <3>1. out[w] \in Seq(Length) /\ out[w] # <<>>
      BY <1>4 DEF TypeOK, Encrypt
    <3>2. Head(out[w]) \in Length
      BY <3>1
    <3>3. QED
      BY <3>2
  <2>5. serverKey' = serverKey + Pending(w)'
    BY <1>0, <1>4, <2>3, <2>4 DEF Encrypt, Pending
  <2>6. \A v \in Writer : v # w => Pending(v)' = Pending(v)
    BY <2>2 DEF Pending
  <2>7. peer' = peer
    BY <1>4 DEF Encrypt
  <2>8. Pending(w)' \in Nat
    BY <2>3, <2>4 DEF Pending
  <2>9. serverKey = peer.read + Pending("conn") + Pending("sub")
    BY <1>4 DEF KeysAccounted
  <2>10. \/ w = "conn" /\ Pending("conn") = 0 /\ Pending("sub")' = Pending("sub")
         \/ w = "sub" /\ Pending("sub") = 0 /\ Pending("conn")' = Pending("conn")
    BY <2>1, <2>6 DEF Writer
  <2>11. QED
    BY <1>0, <2>5, <2>7, <2>8, <2>9, <2>10, PendingIn DEF KeysAccounted, Peer
<1>5. ASSUME NEW w \in Writer, Write(w), ~cut
      PROVE  KeysAccounted'
  <2>1. packet[w] \in Packet
    BY DEF TypeOK
  <2>2. peer'.read = peer.read + Pending(w)
    BY <1>0, <1>5, <2>1, ReceivesType DEF Write, Pending, Peer
  <2>3. Pending(w)' = 0
    BY <1>5 DEF Write, Pending, NoPacket, TypeOK
  <2>4. \A v \in Writer : v # w => Pending(v)' = Pending(v)
    BY <1>5 DEF Write, Pending, TypeOK
  <2>5. serverKey' = serverKey /\ serverKey = peer.read + Pending("conn") + Pending("sub")
    BY <1>5 DEF Write, crypt, KeysAccounted
  <2>6. \/ w = "conn" /\ Pending("sub")' = Pending("sub")
        \/ w = "sub" /\ Pending("conn")' = Pending("conn")
    BY <2>4 DEF Writer
  <2>7. QED
    BY <1>0, <2>2, <2>3, <2>5, <2>6, PendingIn DEF KeysAccounted, Peer
<1>6. ASSUME NEW w \in Writer, WriteFails(w)
      PROVE  KeysAccounted'
  BY <1>6 DEF WriteFails, KeysAccounted
<1>7. CASE cut /\ \E w \in Writer : Encrypt(w) \/ Write(w)
  BY <1>7 DEF Encrypt, Write, KeysAccounted
<1>8. QED
  BY <1>1, <1>2, <1>3, <1>4, <1>5, <1>6, <1>7 DEF Next

\* The client's copy of the server key lags behind the gateway's by exactly the
\* packets that are ciphered and not yet written (gamecrypt.go:93-118,
\* game.go:338-356), whatever the two writers interleave.
THEOREM StreamKeysAccounted == Spec => []KeysAccounted
<1>1. Init => KeysAccounted
  BY DEF Init, KeysAccounted, Pending, NoPacket, Writer
<1>2. QED
  BY <1>1, KeysStep, StreamTypeCorrect, PTL DEF Spec

-----------------------------------------------------------------------------
(* Only SM_KEY travels in the clear *)

\* Before SM_KEY nothing is written or subscribed to, after it the cipher is on.
ClearInv ==
  /\ stage = "key" => ~subscribed /\ peer.clear = 0 /\ \A w \in Writer : Idle(w)
  /\ stage # "key" => enabled /\ peer.clear = 1
  /\ \A w \in Writer : packet[w] # NoPacket => packet[w].cipher

\* Where the connection goroutine can go by reading.
LEMMA ReadStage ==
  ASSUME Read
  PROVE  stage # "key" /\ stage' # "key"
  BY DEF Read, Reading, Login, List, Relay, Count, Return

LEMMA ClearStep ==
  ASSUME TypeOK, ClearInv, [Next]_vars
  PROVE  ClearInv'
<1>0. peer \in Peer
  BY DEF TypeOK, Peer
<1>1. CASE ClientSends
  <2>1. peer'.clear = peer.clear
    BY <1>0, <1>1 DEF ClientSends, Peer
  <2>2. QED
    BY <1>1, <2>1 DEF ClientSends, ClearInv, Idle, crypt
<1>2. CASE SendKey
  <2>1. [cipher |-> FALSE, key |-> 0, len |-> 0] \in Packet
    BY DEF Packet
  <2>2. peer'.clear = peer.clear + 1
    BY <1>0, <1>2, <2>1, ReceivesType DEF SendKey
  <2>3. QED
    BY <1>2, <2>2 DEF SendKey, ClearInv
<1>3. CASE Read
  BY <1>3, ReadStage DEF Read, ClearInv
<1>4. CASE ReadFails \/ Subscribe \/ Close
  BY <1>4 DEF ReadFails, Reading, Return, Subscribe, Close, ClearInv, crypt
<1>5. CASE FromWorld
  BY <1>5 DEF FromWorld, ClearInv, crypt
<1>6. ASSUME NEW w \in Writer, Encrypt(w)
      PROVE  ClearInv'
  <2>1. stage # "key"
    BY <1>6 DEF Encrypt, ClearInv, Idle
  <2>2. packet'[w].cipher /\ \A v \in Writer : v # w => packet'[v] = packet[v]
    BY <1>6, <2>1 DEF Encrypt, ClearInv, TypeOK
  <2>3. QED
    BY <1>6, <2>1, <2>2 DEF Encrypt, ClearInv
<1>7. ASSUME NEW w \in Writer, Write(w)
      PROVE  ClearInv'
  <2>1. stage # "key" /\ packet[w].cipher /\ packet[w] \in Packet
    BY <1>7 DEF Write, ClearInv, Idle, TypeOK
  <2>2. peer'.clear = peer.clear
    BY <1>0, <1>7, <2>1, ReceivesType DEF Write
  <2>3. packet'[w] = NoPacket /\ \A v \in Writer : v # w => packet'[v] = packet[v]
    BY <1>7 DEF Write, TypeOK
  <2>4. QED
    BY <1>7, <2>1, <2>2, <2>3 DEF Write, ClearInv, crypt
<1>8. ASSUME NEW w \in Writer, WriteFails(w)
      PROVE  ClearInv'
  <2>1. stage # "key"
    BY <1>8 DEF WriteFails, ClearInv, Idle
  <2>2. packet'[w] = NoPacket /\ \A v \in Writer : v # w => packet'[v] = packet[v]
    BY <1>8 DEF WriteFails, TypeOK
  <2>3. stage' # "key"
    BY <1>8, <2>1 DEF WriteFails
  <2>4. QED
    BY <1>8, <2>1, <2>2, <2>3 DEF WriteFails, ClearInv, crypt
<1>9. CASE UNCHANGED vars
  BY <1>9 DEF vars, ClearInv, Idle
<1>10. QED
  BY <1>1, <1>2, <1>3, <1>4, <1>5, <1>6, <1>7, <1>8, <1>9 DEF Next

\* The client gets at most one packet in the clear, SM_KEY, and every packet
\* under way is ciphered (game.go:73-82, gamecrypt.go:93-118).
THEOREM StreamOnlyKeyInClear == Spec => []OnlyKeyInClear
<1>1. Init => ClearInv
  BY DEF Init, ClearInv, Idle, Writer
<1>2. ClearInv => OnlyKeyInClear
  BY DEF ClearInv, OnlyKeyInClear
<1>3. QED
  BY <1>1, <1>2, ClearStep, StreamTypeCorrect, PTL DEF Spec

-----------------------------------------------------------------------------
(* The client follows until the World's first packet *)

LobbyInv ==
  fromWorld = 0 =>
    /\ Idle("sub") /\ peer.follows
    /\ cut => stage \in {"ending", "closed"} /\ Idle("conn")
    /\ packet["conn"].cipher => packet["conn"].key = peer.read

LEMMA LobbyStep ==
  ASSUME TypeOK, KeysAccounted, LobbyInv, [Next]_vars
  PROVE  LobbyInv'
<1> SUFFICES ASSUME fromWorld' = 0 PROVE LobbyInv'
  BY DEF LobbyInv
<1>0. peer \in Peer /\ "conn" \in Writer /\ "sub" \in Writer /\ fromWorld \in Nat
  BY DEF TypeOK, Peer, Writer
<1>1. CASE ClientSends
  <2>1. peer'.read = peer.read /\ peer'.follows = peer.follows
    BY <1>0, <1>1 DEF ClientSends, Peer
  <2>2. QED
    BY <1>1, <2>1 DEF ClientSends, LobbyInv, Idle, world
<1>2. CASE SendKey
  <2>1. [cipher |-> FALSE, key |-> 0, len |-> 0] \in Packet
    BY DEF Packet
  <2>2. peer'.read = peer.read /\ peer'.follows = peer.follows
    BY <1>0, <1>2, <2>1, ReceivesType DEF SendKey, Peer
  <2>3. QED
    BY <1>2, <2>2 DEF SendKey, LobbyInv, Idle, world
<1>3. CASE Read
  <2>1. out'["sub"] = out["sub"]
    BY <1>3 DEF Read, Login, List, Relay, Create, Reply, TypeOK, Writer
  <2>2. stage \notin {"ending", "closed"}
    BY <1>3 DEF Read, Reading
  <2>3. QED
    BY <1>3, <2>1, <2>2 DEF Read, LobbyInv, Idle
<1>4. CASE ReadFails \/ Subscribe \/ Close
  BY <1>4 DEF ReadFails, Reading, Return, Subscribe, Close, LobbyInv, Idle, world
<1>5. CASE FromWorld
  BY <1>0, <1>5 DEF FromWorld
<1>6. ASSUME NEW w \in Writer, Encrypt(w)
      PROVE  LobbyInv'
  <2>1. w = "conn" /\ ~cut
    BY <1>6 DEF Encrypt, LobbyInv, Idle, Writer, world
  <2>2. Pending("conn") = 0 /\ Pending("sub") = 0
    BY <1>6, <2>1 DEF Encrypt, LobbyInv, Idle, Pending, NoPacket, world
  <2>3. serverKey = peer.read
    BY <1>0, <2>1, <2>2 DEF KeysAccounted, Peer
  <2>4. packet'["conn"].key = serverKey /\ packet'["sub"] = packet["sub"] /\ out'["sub"] = out["sub"]
    BY <1>6, <2>1 DEF Encrypt, TypeOK, Writer
  <2>5. QED
    BY <1>6, <2>1, <2>3, <2>4 DEF Encrypt, LobbyInv, Idle, world
<1>7. ASSUME NEW w \in Writer, Write(w)
      PROVE  LobbyInv'
  <2>1. w = "conn"
    BY <1>7 DEF Write, LobbyInv, Idle, Writer, world
  <2>2. packet["conn"] \in Packet
    BY <1>0 DEF TypeOK
  <2>3. peer'.follows
    BY <1>0, <1>7, <2>1, <2>2, ReceivesType DEF Write, LobbyInv, world
  <2>4. packet'["conn"] = NoPacket /\ packet'["sub"] = packet["sub"]
    BY <1>7, <2>1 DEF Write, TypeOK, Writer
  <2>5. QED
    BY <1>7, <2>1, <2>3, <2>4 DEF Write, LobbyInv, Idle, NoPacket, world
<1>8. ASSUME NEW w \in Writer, WriteFails(w)
      PROVE  LobbyInv'
  <2>1. w = "conn"
    BY <1>8 DEF WriteFails, LobbyInv, Idle, Writer, world
  <2>2. packet'["conn"] = NoPacket /\ packet'["sub"] = packet["sub"]
    BY <1>8, <2>1 DEF WriteFails, TypeOK, Writer
  <2>3. stage' = "ending" /\ out'["conn"] = <<>> /\ out'["sub"] = out["sub"]
    BY <1>0, <1>8, <2>1 DEF WriteFails, TypeOK
  <2>4. QED
    BY <1>8, <2>2, <2>3 DEF WriteFails, LobbyInv, Idle, NoPacket, world
<1>9. CASE UNCHANGED vars
  BY <1>9 DEF vars, LobbyInv, Idle
<1>10. QED
  BY <1>1, <1>2, <1>3, <1>4, <1>5, <1>6, <1>7, <1>8, <1>9 DEF Next

\* Everything the gateway sends before the World's first packet, the login
\* answers and the character list of game.go:73-199, reaches the client in the
\* order of its keys, whatever the client sends and whichever write fails.
THEOREM StreamLobbyInOrder == Spec => []LobbyInOrder
<1>1. Init => LobbyInv
  BY DEF Init, LobbyInv, Idle, NoPacket, Writer
<1>2. LobbyInv => LobbyInOrder
  BY DEF LobbyInv, LobbyInOrder
<1>3. QED
  BY <1>1, <1>2, LobbyStep, StreamTypeCorrect, StreamKeysAccounted, PTL DEF Spec

-----------------------------------------------------------------------------
(* The character a CM_ENTER_WORLD carries *)

\* The ids of the characters created so far, and 0.
Created == {0} \cup FirstObjID .. nextObjID - 1

EnteredInv ==
  /\ nextObjID >= FirstObjID /\ selected \in Created
  /\ \A i \in DOMAIN relayed :
       /\ relayed[i] \in Created /\ relayed[i] <= selected
       /\ i > 1 => relayed[i - 1] <= relayed[i]

LEMMA EnteredUnchanged ==
  ASSUME EnteredInv, UNCHANGED <<relayed, selected, nextObjID>>
  PROVE  EnteredInv'
  BY DEF EnteredInv, Created

LEMMA EnteredRelay ==
  ASSUME TypeOK, EnteredInv, NEW kind, Relay(kind)
  PROVE  EnteredInv'
<1>0. /\ nextObjID \in Nat /\ selected \in Nat /\ FirstObjID \in Nat \ {0}
      /\ relayed \in Seq(Nat)
  BY DEF TypeOK
<1>1. CASE Create /\ UNCHANGED relayed
  <2>1. \/ UNCHANGED <<selected, nextObjID>>
        \/ selected' = nextObjID /\ nextObjID' = nextObjID + 1
    BY <1>1 DEF Create
  <2>2. CASE UNCHANGED <<selected, nextObjID>>
    BY <1>1, <2>2, EnteredUnchanged
  <2>3. CASE selected' = nextObjID /\ nextObjID' = nextObjID + 1
    <3>1. Created \subseteq Created' /\ nextObjID \in Created' /\ nextObjID' >= FirstObjID
      BY <1>0, <2>3 DEF EnteredInv, Created
    <3>2. selected <= nextObjID
      BY <1>0 DEF EnteredInv, Created
    <3>3. \A i \in DOMAIN relayed : relayed[i] \in Nat /\ relayed[i] <= selected'
      BY <1>0, <2>3, <3>2 DEF EnteredInv
    <3>4. QED
      BY <1>1, <2>3, <3>1, <3>3 DEF EnteredInv
  <2>4. QED
    BY <2>1, <2>2, <2>3
<1>2. CASE UNCHANGED <<lobby, relayed>>
  BY <1>2, EnteredUnchanged DEF lobby
<1>3. CASE relayed' = Append(relayed, selected) /\ UNCHANGED lobby
  <2>1. /\ DOMAIN relayed' = 1 .. Len(relayed) + 1 /\ DOMAIN relayed = 1 .. Len(relayed)
        /\ Len(relayed) \in Nat /\ relayed'[Len(relayed) + 1] = selected
        /\ \A i \in 1 .. Len(relayed) : relayed'[i] = relayed[i]
    BY <1>0, <1>3
  <2>2. Created' = Created /\ selected' = selected /\ nextObjID' = nextObjID
    BY <1>3 DEF lobby, Created
  <2>3. ASSUME NEW i \in DOMAIN relayed'
        PROVE  /\ relayed'[i] \in Created' /\ relayed'[i] <= selected'
               /\ i > 1 => relayed'[i - 1] <= relayed'[i]
    <3>1. CASE i \in DOMAIN relayed
      <4>1. i > 1 => i - 1 \in 1 .. Len(relayed)
        BY <2>1, <3>1
      <4>2. QED
        BY <2>1, <2>2, <3>1, <4>1 DEF EnteredInv
    <3>2. CASE i = Len(relayed) + 1
      <4>1. i > 1 => i - 1 \in DOMAIN relayed /\ relayed'[i - 1] = relayed[i - 1]
        BY <2>1, <3>2
      <4>2. QED
        BY <1>0, <2>1, <2>2, <3>2, <4>1 DEF EnteredInv
    <3>3. QED
      BY <2>1, <3>1, <3>2
  <2>4. QED
    BY <2>2, <2>3 DEF EnteredInv
<1>4. QED
  BY <1>1, <1>2, <1>3 DEF Relay

LEMMA EnteredStep ==
  ASSUME TypeOK, EnteredInv, [Next]_vars
  PROVE  EnteredInv'
<1>1. CASE Read
  BY <1>1, EnteredUnchanged, EnteredRelay DEF Read, Login, List, lobby
<1>2. CASE ~Read
  BY <1>2, EnteredUnchanged
     DEF Next, vars, ClientSends, SendKey, ReadFails, Subscribe, Close, FromWorld,
         Encrypt, Write, WriteFails, lobby, world
<1>3. QED
  BY <1>1, <1>2

\* The forwarded CM_ENTER_WORLD packets carry 0 or an id this connection has
\* given out (slot_map.go:41, game.go:247-269), and never an older one than
\* before.
THEOREM StreamEntersLatest == Spec => []EntersLatest
<1>1. Init => EnteredInv
  BY DEF Init, EnteredInv, Created
<1>2. EnteredInv => EntersLatest
  BY DEF EnteredInv, EntersLatest, Created
<1>3. QED
  BY <1>1, <1>2, EnteredStep, StreamTypeCorrect, PTL DEF Spec

-----------------------------------------------------------------------------
(* The two copies of the client key *)

\* A step that touches neither direction's end of what the client sends.
LEMMA InboundUnchanged ==
  ASSUME InboundInSync, UNCHANGED <<clientKey, up>>, peer'.write = peer.write,
         stage \in {"ending", "closed"} => stage' \in {"ending", "closed"}
  PROVE  InboundInSync'
  BY DEF InboundInSync

LEMMA InboundStep ==
  ASSUME TypeOK, InboundInSync, [Next]_vars
  PROVE  InboundInSync'
<1> DEFINE P == [kind : Kind, key : Nat, len : ClientLength]
<1>0. peer \in Peer /\ up \in Seq(P) /\ clientKey \in Nat
  BY DEF TypeOK, Peer
<1>1. CASE ClientSends
  <2>1. PICK kind \in Kind, len \in ClientLength :
          /\ up' = Append(up, [kind |-> kind, key |-> peer.write, len |-> len])
          /\ peer' = [peer EXCEPT !.write = @ + len, !.sent = @ + 1]
    BY <1>1 DEF ClientSends
  <2>2. PICK p \in P : p = [kind |-> kind, key |-> peer.write, len |-> len]
    BY <1>0 DEF Peer
  <2>3. up' = Append(up, p) /\ peer'.write = After(p) /\ p.key = peer.write
    BY <1>0, <2>1, <2>2 DEF Peer, After
  <2>4. stage' = stage /\ clientKey' = clientKey
    BY <1>1 DEF ClientSends, crypt
  <2> HIDE DEF P
  <2>5. PICK n \in Nat : n = Len(up)
    BY <1>0
  <2>6. /\ DOMAIN up = 1 .. n /\ DOMAIN up' = 1 .. n + 1 /\ Len(up') = n + 1 /\ up' # <<>>
        /\ up'[n + 1] = p /\ (\A i \in 1 .. n : up'[i] = up[i]) /\ (up = <<>> <=> n = 0)
    BY <1>0, <2>3, <2>5
  <2>7. CASE stage \notin {"ending", "closed"}
    <3>1. ASSUME NEW i \in DOMAIN up'
          PROVE  up'[i].key = IF i = 1 THEN clientKey' ELSE After(up'[i - 1])
      <4>1. CASE i \in 1 .. n
        <5>1. i # 1 => i - 1 \in 1 .. n
          BY <4>1
        <5>2. QED
          BY <2>4, <2>6, <2>7, <4>1, <5>1 DEF InboundInSync
      <4>2. CASE i = n + 1
        <5>1. n # 0 => i # 1 /\ i - 1 = n /\ n \in 1 .. n
          BY <4>2
        <5>2. CASE n = 0
          BY <2>3, <2>4, <2>6, <2>7, <4>2, <5>2 DEF InboundInSync
        <5>3. CASE n # 0
          BY <2>3, <2>5, <2>6, <2>7, <4>2, <5>1, <5>3 DEF InboundInSync
        <5>4. QED
          BY <5>2, <5>3
      <4>3. QED
        BY <2>6, <4>1, <4>2
    <3>2. peer'.write = After(up'[Len(up')]) /\ up' # <<>>
      BY <2>3, <2>6
    <3>3. QED
      BY <3>1, <3>2 DEF InboundInSync
  <2>8. QED
    BY <2>4, <2>7 DEF InboundInSync
<1>2. CASE SendKey
  <2>1. peer'.write = peer.write
    BY <1>0, <1>2 DEF SendKey, Receives, Peer
  <2>2. QED
    BY <1>2, <2>1, InboundUnchanged DEF SendKey
<1>3. CASE Read
  <2>1. PICK p \in P, valid \in BOOLEAN :
          /\ up # <<>> /\ up' = Tail(up) /\ p = Head(up) /\ Decrypt(p, valid)
          /\ valid \/ Return
          /\ UNCHANGED peer
    <3>1. up \in Seq(P) /\ up # <<>>
      BY <1>0, <1>3 DEF Read
    <3> HIDE DEF P
    <3>2. Head(up) \in P
      BY <3>1
    <3>3. QED
      BY <1>3, <3>1, <3>2 DEF Read
  <2>2. CASE valid
    <3> HIDE DEF P
    <3>1. clientKey' = After(p)
      BY <2>1, <2>2 DEF Decrypt, After
    <3>2. PICK n \in Nat : n = Len(up')
      BY <1>0, <2>1
    <3>3. /\ DOMAIN up = 1 .. n + 1 /\ DOMAIN up' = 1 .. n /\ Len(up) = n + 1 /\ up[1] = p
          /\ (\A i \in 1 .. n : up'[i] = up[i + 1]) /\ (up' = <<>> <=> n = 0)
      BY <1>0, <2>1, <3>2
    <3>4. stage \notin {"ending", "closed"}
      BY <1>3 DEF Read, Reading
    <3>5. ASSUME NEW i \in DOMAIN up'
          PROVE  up'[i].key = IF i = 1 THEN clientKey' ELSE After(up'[i - 1])
      <4>1. i + 1 \in 1 .. n + 1 /\ i + 1 # 1 /\ (i + 1) - 1 = i /\ i \in Nat
        BY <3>3
      <4>2. up'[i].key = After(up[i])
        BY <3>3, <3>4, <3>5, <4>1 DEF InboundInSync
      <4>3. CASE i = 1
        BY <3>1, <3>3, <4>2, <4>3
      <4>4. CASE i # 1
        <5>1. i - 1 \in 1 .. n /\ (i - 1) + 1 = i
          BY <3>3, <3>5, <4>4
        <5>2. QED
          BY <3>3, <4>2, <4>4, <5>1
      <4>5. QED
        BY <4>3, <4>4
    <3>6. peer'.write = After(up[n + 1])
      BY <2>1, <3>3, <3>4 DEF InboundInSync
    <3>7. peer'.write = IF up' = <<>> THEN clientKey' ELSE After(up'[Len(up')])
      <4>1. CASE n = 0
        BY <3>1, <3>3, <3>6, <4>1
      <4>2. CASE n # 0
        <5>1. n \in 1 .. n
          BY <4>2
        <5>2. QED
          BY <3>2, <3>3, <3>6, <4>2, <5>1
      <4>3. QED
        BY <4>1, <4>2
    <3>8. QED
      BY <3>5, <3>7 DEF InboundInSync
  <2>3. CASE ~valid
    BY <2>1, <2>3 DEF Return, InboundInSync
  <2>4. QED
    BY <2>2, <2>3
<1>4. CASE ReadFails \/ Subscribe \/ Close \/ FromWorld
  BY <1>4, InboundUnchanged DEF ReadFails, Return, Subscribe, Close, FromWorld, crypt, Reading
<1>5. ASSUME NEW w \in Writer, Encrypt(w) \/ WriteFails(w)
      PROVE  InboundInSync'
  BY <1>5, InboundUnchanged DEF Encrypt, WriteFails, crypt
<1>6. ASSUME NEW w \in Writer, Write(w)
      PROVE  InboundInSync'
  <2>1. peer'.write = peer.write
    BY <1>0, <1>6 DEF Write, Receives, Peer
  <2>2. QED
    BY <1>6, <2>1, InboundUnchanged DEF Write, crypt
<1>7. CASE UNCHANGED vars
  BY <1>7, InboundUnchanged DEF vars
<1>8. QED
  BY <1>1, <1>2, <1>3, <1>4, <1>5, <1>6, <1>7 DEF Next

\* As long as the gateway reads, the keys of the packets under way lead from its
\* copy of the client key to the client's, whatever the client sends
\* (game.go:359-385, gamecrypt.go:119-143): Decrypt moves its key on for exactly
\* the packets it accepted.
THEOREM StreamInboundInSync == Spec => []InboundInSync
<1>1. Init => InboundInSync
  BY DEF Init, InboundInSync
<1>2. QED
  BY <1>1, InboundStep, StreamTypeCorrect, PTL DEF Spec

\* All the gateway keeps about a connection agrees with what went over it, for
\* every set of lengths and every bound.
THEOREM StreamIsSound == Spec => []StreamSound
<1>1. TypeOK /\ KeysAccounted /\ OnlyKeyInClear /\ EntersLatest => StreamSound
  BY DEF StreamSound
<1>2. QED
  BY <1>1, StreamTypeCorrect, StreamKeysAccounted, StreamOnlyKeyInClear, StreamEntersLatest, PTL
=============================================================================
