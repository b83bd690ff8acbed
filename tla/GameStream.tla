----------------------------- MODULE GameStream -----------------------------
(***************************************************************************)
(* One connection to the gateway's game port (cmd/gateway/game.go) and the *)
(* rolling keys of its two directions (internal/crypto/gamecrypt.go).      *)
(*                                                                         *)
(* Every packet body is ciphered with the key of its direction, which then *)
(* grows by the length of the body.  Both ends keep their own copy of each *)
(* key, so a packet can be read only when it arrives in the order in which *)
(* it was ciphered.  Two goroutines write to the client: the one that      *)
(* reads and answers its packets ("conn"), and the callback of the         *)
(* subscription to the World's packets ("sub").  Each ciphers under        *)
(* GameCrypt.mu and writes afterwards.  A packet is reduced to the length  *)
(* of its body, a client packet also to its kind.                          *)
(***************************************************************************)
EXTENDS Integers, Sequences

CONSTANTS BaseKey,       \* the key both directions start with
          Length,        \* body lengths of the packets to the client
          ClientLength,  \* body lengths of the packets from it
          LoginPackets,  \* packets read in each login phase (10 in the code)
          Burst,         \* packets of the character list (6 in the code)
          FirstObjID,    \* id of the first character created (1001 in the code)
          MaxFromClient, \* bound: packets the client sends
          MaxFromWorld,  \* bound: packets the World sends
          WriteMayFail   \* whether a write may run into its deadline

ASSUME GameStreamAssumption ==
         /\ BaseKey \in Nat
         /\ Length \subseteq Nat \ {0} /\ ClientLength \subseteq Nat \ {0}
         /\ LoginPackets \in Nat \ {0} /\ Burst \in Nat /\ FirstObjID \in Nat \ {0}
         /\ MaxFromClient \in Nat /\ MaxFromWorld \in Nat
         /\ WriteMayFail \in BOOLEAN

VARIABLES
  stage,      \* what the connection goroutine is in
  reads,      \* packets read in this login phase
  window,     \* the character creation window was opened
  nextObjID,  \* id of the next character created
  selected,   \* Session.selectedCharID, 0 when none is
  subscribed, \* the subscription to the World's packets is active
  enabled,    \* GameCrypt.enabled
  serverKey,  \* GameCrypt.serverKey
  clientKey,  \* GameCrypt.clientKey
  out,        \* lengths of the packets each writer has yet to cipher
  packet,     \* the packet each writer has ciphered and not yet written
  up,         \* packets on their way from the client, oldest first
  peer,       \* the client: the keys it is at and whether it could follow
  fromWorld,  \* packets received from the World
  relayed,    \* packets sent on to the World: the character ids they carry
  cut         \* history: a write failed, so bytes are missing

vars == <<stage, reads, window, nextObjID, selected, subscribed, enabled, serverKey,
          clientKey, out, packet, up, peer, fromWorld, relayed, cut>>

Writer == {"conn", "sub"}

Kind == {"version", "auth", "info", "charlist", "create", "enter", "quit", "other", "malformed"}

\* No packet: nothing was ciphered.
NoPacket == [cipher |-> FALSE, key |-> 0, len |-> 0]

Packet == [cipher : BOOLEAN, key : Nat, len : Nat]

Stage == {"key", "login", "list", "subscribe", "relay", "ending", "closed"}

TypeOK ==
  /\ stage \in Stage
  /\ reads \in 0 .. LoginPackets - 1
  /\ window \in BOOLEAN /\ subscribed \in BOOLEAN /\ enabled \in BOOLEAN /\ cut \in BOOLEAN
  /\ nextObjID \in Nat /\ selected \in Nat
  /\ serverKey \in Nat /\ clientKey \in Nat
  /\ out \in [Writer -> Seq(Length)]
  /\ packet \in [Writer -> Packet]
  /\ up \in Seq([kind : Kind, key : Nat, len : ClientLength])
  /\ peer \in [read : Nat, write : Nat, follows : BOOLEAN, clear : Nat, sent : Nat]
  /\ fromWorld \in 0 .. MaxFromWorld
  /\ relayed \in Seq(Nat)

Init ==
  /\ stage = "key" /\ reads = 0
  /\ window = FALSE /\ nextObjID = FirstObjID /\ selected = 0
  /\ subscribed = FALSE /\ enabled = FALSE
  /\ serverKey = BaseKey /\ clientKey = BaseKey
  /\ out = [w \in Writer |-> <<>>]
  /\ packet = [w \in Writer |-> NoPacket]
  /\ up = <<>>
  /\ peer = [read |-> BaseKey, write |-> BaseKey, follows |-> TRUE, clear |-> 0, sent |-> 0]
  /\ fromWorld = 0 /\ relayed = <<>> /\ cut = FALSE

crypt  == <<enabled, serverKey, clientKey>>
lobby  == <<window, nextObjID, selected>>
world  == <<fromWorld, relayed>>

-----------------------------------------------------------------------------
(* The client *)

\* It gets a packet: it deciphers it with the key it is at.
Receives(p) ==
  peer' = [peer EXCEPT !.read = IF p.cipher THEN @ + p.len ELSE @,
                       !.follows = @ /\ (p.cipher => p.key = peer.read),
                       !.clear = IF p.cipher THEN @ ELSE @ + 1]

\* It sends a packet once it has the key; a malformed one fails the checks of
\* validateClient whatever its key is.
ClientSends ==
  /\ peer.clear > 0 /\ peer.sent < MaxFromClient
  /\ \E kind \in Kind, len \in ClientLength :
       /\ up' = Append(up, [kind |-> kind, key |-> peer.write, len |-> len])
       /\ peer' = [peer EXCEPT !.write = @ + len, !.sent = @ + 1]
  /\ UNCHANGED <<stage, reads, lobby, subscribed, crypt, out, packet, world, cut>>

-----------------------------------------------------------------------------
(* Writing to the client *)

Idle(w) == out[w] = <<>> /\ packet[w] = NoPacket

\* SM_KEY goes out in the clear, then Enable.
SendKey ==
  /\ stage = "key" /\ stage' = "login"
  /\ Receives([cipher |-> FALSE, key |-> 0, len |-> 0])
  /\ enabled' = TRUE
  /\ UNCHANGED <<reads, lobby, subscribed, serverKey, clientKey, out, packet, up, world, cut>>

\* Mutant of Encrypt: the key grows by the length of the whole packet.
EncryptHeaderToo(w) ==
  /\ out[w] # <<>> /\ packet[w] = NoPacket
  /\ out' = [out EXCEPT ![w] = Tail(@)]
  /\ packet' = [packet EXCEPT ![w] = [cipher |-> enabled, key |-> serverKey, len |-> Head(out[w])]]
  /\ serverKey' = IF enabled THEN serverKey + Head(out[w]) + 2 ELSE serverKey
  /\ enabled' = TRUE
  /\ UNCHANGED <<stage, reads, lobby, subscribed, clientKey, up, peer, world, cut>>

\* GameCrypt.Encrypt, under mu.  The first packet would pass in the clear if
\* the cipher was not enabled.
Encrypt(w) ==
  /\ out[w] # <<>> /\ packet[w] = NoPacket
  /\ out' = [out EXCEPT ![w] = Tail(@)]
  /\ packet' = [packet EXCEPT ![w] = [cipher |-> enabled, key |-> serverKey, len |-> Head(out[w])]]
  /\ serverKey' = IF enabled THEN serverKey + Head(out[w]) ELSE serverKey
  /\ enabled' = TRUE
  /\ UNCHANGED <<stage, reads, lobby, subscribed, clientKey, up, peer, world, cut>>

\* conn.Write: the client will get what was written, in this order.
Write(w) ==
  /\ packet[w] # NoPacket /\ stage # "closed"
  /\ Receives(packet[w])
  /\ packet' = [packet EXCEPT ![w] = NoPacket]
  /\ UNCHANGED <<stage, reads, lobby, subscribed, crypt, out, up, world, cut>>

\* The write fails, at its deadline or because the connection is closed.  The
\* connection goroutine returns; the callback logs it and waits for the next.
WriteFails(w) ==
  /\ packet[w] # NoPacket /\ (WriteMayFail \/ stage = "closed")
  /\ packet' = [packet EXCEPT ![w] = NoPacket]
  /\ cut' = TRUE
  /\ IF w = "conn"
     THEN stage' = "ending" /\ subscribed' = FALSE /\ out' = [out EXCEPT ![w] = <<>>]
     ELSE UNCHANGED <<stage, subscribed, out>>
  /\ UNCHANGED <<reads, lobby, crypt, up, peer, world>>

-----------------------------------------------------------------------------
(* Reading from the client *)

Reading == stage \in {"login", "list", "relay"} /\ Idle("conn")

\* handleGameConn returns: unsubscribe, publish the leave, then close.
Return == stage' = "ending" /\ subscribed' = FALSE

\* The peer is gone, or silent for 60 seconds.
ReadFails ==
  /\ Reading /\ Return
  /\ UNCHANGED <<reads, lobby, crypt, out, packet, up, peer, world, cut>>

Close ==
  /\ stage = "ending" /\ stage' = "closed"
  /\ UNCHANGED <<reads, lobby, subscribed, crypt, out, packet, up, peer, world, cut>>

Reply(lens) == out' = [out EXCEPT !["conn"] = lens]

\* The character list is a burst of packets.
Bursts == [1 .. Burst -> Length]

\* Mutant of Decrypt: the key of a packet that fails the check is consumed
\* and one that passes is not.
DecryptBackwards(p, valid) ==
  /\ valid <=> p.key = clientKey /\ p.kind # "malformed"
  /\ clientKey' = IF valid THEN clientKey ELSE clientKey + p.len

\* GameCrypt.Decrypt: the key grows only for a packet that passes the check.
Decrypt(p, valid) ==
  /\ valid <=> p.key = clientKey /\ p.kind # "malformed"
  /\ clientKey' = IF valid THEN clientKey + p.len ELSE clientKey

\* The loop reads at most LoginPackets packets, then goes on to after.
Count(after) ==
  IF reads + 1 < LoginPackets
  THEN reads' = reads + 1 /\ UNCHANGED <<stage, subscribed>>
  ELSE reads' = 0 /\ IF after = "ending" THEN Return ELSE stage' = after /\ UNCHANGED subscribed

\* Waiting for CM_L2AUTH_LOGIN_CHECK; the token may be refused.
Login(kind) ==
  /\ stage = "login"
  /\ UNCHANGED <<lobby, relayed>>
  /\ \/ kind = "version" /\ Count("ending") /\ \E len \in Length : Reply(<<len>>)
     \/ kind = "auth" /\ Return /\ UNCHANGED <<out, reads>>
     \/ /\ kind = "auth"
        /\ stage' = "list" /\ reads' = 0 /\ UNCHANGED subscribed
        /\ \E len \in Length : Reply(<<len>>)
     \/ kind \notin {"version", "auth"} /\ Count("ending") /\ UNCHANGED out

\* The next packet that is not informational is taken for CM_CHARACTER_LIST;
\* without one in LoginPackets the list is not sent.
List(kind) ==
  /\ stage = "list"
  /\ UNCHANGED <<lobby, relayed>>
  /\ IF kind = "info"
     THEN Count("subscribe") /\ UNCHANGED out
     ELSE /\ \E lens \in Bursts : Reply(lens)
          /\ stage' = "subscribe" /\ reads' = 0 /\ UNCHANGED subscribed

\* CM_CREATE_CHARACTER opens the window, then creates and selects a character.
Create ==
  /\ \E len \in Length : Reply(<<len>>)
  /\ window' = ~window
  /\ IF window
     THEN selected' = nextObjID /\ nextObjID' = nextObjID + 1
     ELSE UNCHANGED <<selected, nextObjID>>

\* runGameCMRelayLoop.  CM_ENTER_WORLD carries the selected character.
Relay(kind) ==
  /\ stage = "relay"
  /\ UNCHANGED reads
  /\ \/ kind = "charlist" /\ (\E lens \in Bursts : Reply(lens))
        /\ UNCHANGED <<stage, subscribed, lobby, relayed>>
     \/ kind = "create" /\ Create /\ UNCHANGED <<stage, subscribed, relayed>>
     \/ kind = "info" /\ UNCHANGED <<stage, subscribed, out, lobby, relayed>>
     \/ kind = "quit" /\ Return /\ UNCHANGED <<out, lobby, relayed>>
     \/ /\ kind \notin {"charlist", "create", "info", "quit"}
        /\ relayed' = IF kind = "enter" THEN Append(relayed, selected) ELSE relayed
        /\ UNCHANGED <<stage, subscribed, out, lobby>>

\* readGamePacket and the handling of what was read.
Read ==
  /\ Reading /\ up # <<>>
  /\ up' = Tail(up)
  /\ LET p == Head(up) IN
       \E valid \in BOOLEAN :
         /\ Decrypt(p, valid)
         /\ \/ valid /\ (Login(p.kind) \/ List(p.kind) \/ Relay(p.kind))
            \/ ~valid /\ Return /\ UNCHANGED <<reads, lobby, out, relayed>>
  /\ UNCHANGED <<enabled, serverKey, packet, peer, fromWorld, cut>>

-----------------------------------------------------------------------------
(* Packets from the World *)

\* ipc.Subscribe, which may fail: the connection goes on without it.
Subscribe ==
  /\ stage = "subscribe" /\ Idle("conn") /\ stage' = "relay"
  /\ subscribed' \in BOOLEAN
  /\ UNCHANGED <<reads, lobby, crypt, out, packet, up, peer, world, cut>>

\* The subscription delivers a packet to its callback, one at a time.
FromWorld ==
  /\ subscribed /\ Idle("sub") /\ fromWorld < MaxFromWorld
  /\ fromWorld' = fromWorld + 1
  /\ \E len \in Length : out' = [out EXCEPT !["sub"] = <<len>>]
  /\ UNCHANGED <<stage, reads, lobby, subscribed, crypt, packet, up, peer, relayed, cut>>

Next ==
  \/ ClientSends
  \/ SendKey \/ Read \/ ReadFails \/ Subscribe \/ Close
  \/ FromWorld
  \/ \E w \in Writer : Encrypt(w) \/ Write(w) \/ WriteFails(w)

Spec == Init /\ [][Next]_vars

-----------------------------------------------------------------------------
(* Properties *)

Pending(w) == IF packet[w].cipher THEN packet[w].len ELSE 0

\* Nothing is lost or counted twice between the two copies of the server key:
\* as long as no write failed, the client is behind the gateway by exactly the
\* packets ciphered and not yet written, whatever the two writers interleave.
KeysAccounted ==
  ~cut => serverKey = peer.read + Pending("conn") + Pending("sub")

\* Until the World's first packet there is one writer, and the client follows:
\* the login answers and the character list arrive in the order of their keys.
LobbyInOrder ==
  fromWorld = 0 => peer.follows

\* Only SM_KEY travels in the clear (game.go:313, gamecrypt.go:73).
OnlyKeyInClear == peer.clear <= 1 /\ \A w \in Writer : packet[w] # NoPacket => packet[w].cipher

\* The key after a packet of the client.
After(p) == p.key + p.len

\* The gateway reads every packet with the key it was ciphered with, or it gave
\* the connection up: the keys of the packets under way lead from its copy of
\* the client key to the client's own without a gap (readGamePacket, Decrypt).
InboundInSync ==
  stage \notin {"ending", "closed"} =>
    /\ \A i \in DOMAIN up : up[i].key = IF i = 1 THEN clientKey ELSE After(up[i - 1])
    /\ peer.write = IF up = <<>> THEN clientKey ELSE After(up[Len(up)])

\* CM_ENTER_WORLD names a character this connection created, and never an
\* earlier one than the last time; 0 when there is none yet.
EntersLatest ==
  \A i \in DOMAIN relayed :
    /\ relayed[i] = 0 \/ relayed[i] \in FirstObjID .. nextObjID - 1
    /\ i > 1 => relayed[i - 1] <= relayed[i]

\* What the gateway keeps about a connection agrees with what went over it: the
\* server key, the one packet in the clear and the characters created on it.
StreamSound == TypeOK /\ KeysAccounted /\ OnlyKeyInClear /\ EntersLatest

\* "a stream XOR cipher with 8-byte keys that evolve after every packet"
\* (gamecrypt.go:4): the client can decipher each packet with the key it is at.
ClientFollows == peer.follows
=============================================================================
