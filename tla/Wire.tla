-------------------------------- MODULE Wire --------------------------------
(***************************************************************************)
(* What is on the wire of the gateway's auth port: how each end frames and *)
(* ciphers a packet, and how the other end undoes it (cmd/gateway          *)
(* handshake.go and session.go; cmd/tinyclient; cmd/loadgen scenario.go;   *)
(* the retail client as the comments of session.go describe it).           *)
(*                                                                         *)
(* A packet is its opcode, the width of its opcode, the size of its        *)
(* payload and the layers put on its body, innermost first: "pass" is the  *)
(* XOR pass of the first packet, "bf" Blowfish, "xor" the stream cipher.   *)
(* A reader that takes a layer off which is not the outermost one, or      *)
(* reads another width of opcode, sees garbage.  Byte values are in Codec, *)
(* tokens and accounts in Login.                                           *)
(***************************************************************************)
EXTENDS Codec, Lists

CONSTANTS
    Kinds,      \* the clients that may connect: "aion", "aion_nogg", "tiny", "load"
    Servers     \* entries of the server list

VARIABLES
    kind,       \* the client of this connection
    gw,         \* what handleAuthConn does next
    step,       \* the client's next step, or 0 when it has given up
    toClient, toGateway

vars == <<kind, gw, step, toClient, toGateway>>

Retail == {"aion", "aion_nogg"}

-----------------------------------------------------------------------------
(* Framing.                                                                 *)

Packet(op, width, body, layers) == [op |-> op, width |-> width, body |-> body, layers |-> layers]

\* The opcode a reader sees that takes the layers of order off: the layer put on
\* last has to come off first, and all of them.
Seen(p, width, order) ==
    IF p.layers = Reverse(order) /\ p.width = width THEN p.op ELSE "garbage"

-----------------------------------------------------------------------------
(* The gateway.                                                             *)

\* session id, revision, RSA modulus, spacer, BF key, the rest; 4 + 4 bytes for
\* checksum and seed, then the next block; XOR pass, then Blowfish.
SMKey == LET content == 1 + (4 + 4 + 128 + 16 + 16 + 7 + 1 + 4 + 2 + 1 + 4 + 4)
         IN  Packet("SM_KEY", 1, ((content + 8 + 7) \div 8) * 8, <<"pass", "bf">>)

AuthPacket(op, size) == Packet(op, 1, Padded(size), <<"bf">>)
SMAuthGG == AuthPacket("SM_AUTH_GG", 9 * 4 + 3)
SMLoginOK == AuthPacket("SM_LOGIN_OK", 12 * 4 + 19)
SMServerList == AuthPacket("SM_SERVER_LIST", 2 + 19 * Servers + 2 + 1 + 13)
SMPlayOK == AuthPacket("SM_PLAY_OK", 4 + 4 + 1 + 14)
SMLoginFail == AuthPacket("SM_LOGIN_FAIL", 1)

\* readAuthPacket: Blowfish only.
GwOrderXor == <<"xor", "bf">>
GwOrder == <<"bf">>
GwSees(p) == Seen(p, 1, GwOrder)

Open == gw # "closed"
Sends(ps) == toClient' = toClient \o ps

\* The first packet goes out before Blowfish is on.
GwKey == /\ gw = "key" /\ Sends(<<SMKey>>) /\ gw' = "first"
         /\ UNCHANGED <<kind, step, toGateway>>

GwReads(at, op) ==
    /\ gw = at /\ toGateway # <<>> /\ GwSees(Head(toGateway)) = op
    /\ toGateway' = Tail(toGateway) /\ UNCHANGED <<kind, step>>

GwGameGuard == /\ GwReads("first", "CM_AUTH_GG") /\ Sends(<<SMAuthGG>>) /\ gw' = "login"

\* A retail client may skip GameGuard; verifyAccount accepts or refuses.
GwLogin == \E at \in {"first", "login"} :
              /\ GwReads(at, "CM_AUTH_LOGIN")
              /\ \/ Sends(<<SMLoginOK>>) /\ gw' = "list"
                 \/ Sends(<<SMLoginFail>>) /\ gw' = "closed"

GwList == GwReads("list", "CM_SERVER_LIST") /\ Sends(<<SMServerList>>) /\ gw' = "play"

\* CM_PLAY carries accountId, loginOk and the server id: 9 bytes.
GwPlay == /\ GwReads("play", "CM_PLAY") /\ gw' = "closed"
          /\ IF Head(toGateway).body >= 1 + 9 THEN Sends(<<SMPlayOK>>) ELSE UNCHANGED toClient

Expected == [first |-> {"CM_AUTH_GG", "CM_AUTH_LOGIN"}, login |-> {"CM_AUTH_LOGIN"},
             list |-> {"CM_SERVER_LIST"}, play |-> {"CM_PLAY"}]

\* Another opcode than the one expected, or the end of the stream.
GwCloses == /\ gw \in DOMAIN Expected
            /\ IF toGateway = <<>> THEN step = 0
               ELSE GwSees(Head(toGateway)) \notin Expected[gw]
            /\ gw' = "closed" /\ UNCHANGED <<kind, step, toClient, toGateway>>

-----------------------------------------------------------------------------
(* The clients: a script each, the layers they put on and take off.         *)

Read(op, least) == [do |-> "read", op |-> op, size |-> least]
Send(op, size) == [do |-> "send", op |-> op, size |-> size]

RetailLogin == <<Send("CM_AUTH_LOGIN", 132), Read("SM_LOGIN_OK", 8), Send("CM_SERVER_LIST", 8),
                 Read("SM_SERVER_LIST", 2), Send("CM_PLAY", 9), Read("SM_PLAY_OK", 9)>>

\* authPhase of tinyclient, runAuth of loadgen.
TinyScript == <<Read("SM_KEY", 4 + 4 + 128 + 16 + 16), Send("CM_AUTH_LOGIN", 132),
                Read("SM_LOGIN_OK", 9), Send("CM_PLAY", 4), Read("SM_PLAY_OK", 20)>>
LoadScript == <<Read("SM_KEY", 4 + 128 + 16 + 1), Send("CM_AUTH_LOGIN", 132),
                Read("SM_LOGIN_OK", 9), Send("CM_PLAY", 4), Read("SM_PLAY_OK", 20)>>

Script == CASE kind = "tiny" -> TinyScript
            [] kind = "load" -> LoadScript
            [] kind = "aion_nogg" -> <<Read("SM_KEY", 184)>> \o RetailLogin
            [] OTHER -> <<Read("SM_KEY", 184), Send("CM_AUTH_GG", 39), Read("SM_AUTH_GG", 39)>>
                        \o RetailLogin

Width == IF kind = "load" THEN 2 ELSE 1

\* sendAuthPacket of tinyclient is Blowfish then XOR, sendPacket of loadgen XOR
\* then Blowfish; the retail client uses Blowfish alone.
PutOn == CASE kind = "tiny" -> <<"bf", "xor">>
           [] kind = "load" -> <<"xor", "bf">>
           [] OTHER -> <<"bf">>

\* Nothing before activateCrypto, then XOR and Blowfish; the retail client undoes
\* both layers of the first packet.
TakeOff == CASE kind \in Retail -> IF step = 1 THEN <<"bf", "pass">> ELSE <<"bf">>
             [] OTHER -> IF step = 1 THEN <<>> ELSE <<"xor", "bf">>

ClientSees(p) == Seen(p, Width, TakeOff)
AtStep(do) == step \in 1..Len(Script) /\ Script[step].do = do

ClientSends ==
    /\ AtStep("send") /\ step' = step + 1
    /\ toGateway' = Append(toGateway, Packet(Script[step].op, Width,
                               Aligned(Width, Script[step].size), PutOn))
    /\ UNCHANGED <<kind, gw, toClient>>

Fits(p) == ClientSees(p) = Script[step].op /\ p.body - Width >= Script[step].size

ClientReads ==
    /\ AtStep("read") /\ toClient # <<>>
    /\ step' = IF Fits(Head(toClient)) THEN step + 1 ELSE 0
    /\ toClient' = Tail(toClient) /\ UNCHANGED <<kind, gw, toGateway>>

\* The gateway hung up, or loadgen's read deadline passed.
ClientGivesUp ==
    /\ AtStep("read") /\ toClient = <<>> /\ (gw = "closed" \/ kind = "load")
    /\ step' = 0 /\ UNCHANGED <<kind, gw, toClient, toGateway>>

Init == /\ kind \in Kinds /\ gw = "key" /\ step = 1 /\ toClient = <<>> /\ toGateway = <<>>

Next == \/ GwKey \/ GwGameGuard \/ GwLogin \/ GwList \/ GwPlay \/ GwCloses
        \/ ClientSends \/ ClientReads \/ ClientGivesUp

Spec == Init /\ [][Next]_vars

-----------------------------------------------------------------------------
\* The gateway and a retail client undo exactly the layers the other put on, in
\* the reverse order, from the first packet (a pass and Blowfish) to the last.
\* Of a test client that does not hold (scenario.go:374 puts the layers on in
\* another order), whatever scenario.go:11 says of protocol drift.
Understood ==
    kind \in Retail => /\ gw # "closed" /\ toGateway # <<>> => GwSees(Head(toGateway)) # "garbage"
                       /\ AtStep("read") /\ toClient # <<>> => ClientSees(Head(toClient)) # "garbage"

\* The gateway and a retail client never both wait for the other to write.
NoMutualWait == kind \in Retail /\ gw \in DOMAIN Expected /\ AtStep("read")
                    => toClient \o toGateway # <<>>
=============================================================================
