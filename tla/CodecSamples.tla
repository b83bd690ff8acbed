---------------------------- MODULE CodecSamples ----------------------------
(***************************************************************************)
(* The functions of Codec against what their callers rely on, over all     *)
(* inputs of a bounded size: a sample is an input, a step draws another.   *)
(***************************************************************************)
EXTENDS Codec

CONSTANTS
    MaxWords,   \* bound on the words of a first packet
    MaxBytes,   \* bound on the bytes of a stream
    MaxSize     \* bound on the size of a payload

VARIABLE sample

Words == 0..(Word - 1)
SeqsUpto(S, n) == UNION {[1..k -> S] : k \in 0..n}

Passes == [alg : {"pass"}, content : UNION {[1..k -> Words] : k \in 1..MaxWords}, key : Words]
Streams == [alg : {"stream"}, first : SeqsUpto(0..(Byte - 1), MaxBytes),
            second : SeqsUpto(0..(Byte - 1), MaxBytes), seed : {1, Word - 1}]
Moduli == [alg : {"modulus"}, bit : 0..127]
Logins == [alg : {"login"}, account : SeqsUpto(1..2, AccountMax + 1),
           password : SeqsUpto(1..2, PasswordMax + 1)]
Opcodes == [alg : {"opcode"}, op : 0..600, version : {203, 206, 207, 213}]
Sizes == [alg : {"size"}, size : 0..MaxSize, next : {0, 3, 8}]

Ints == {[kind |-> "int", width |-> 2, value |-> Byte + 1], [kind |-> "int", width |-> 4, value |-> 3]}
Strings == {[kind |-> "string", runes |-> r] : r \in SeqsUpto({1, Byte, Byte * Byte + 1}, 2)}
Fields == [alg : {"fields"}, fields : UNION {[1..k -> Ints \cup Strings] : k \in 1..3}]

Samples == UNION {Passes, Streams, Moduli, Logins, Opcodes, Sizes, Fields}

Init == sample = [alg |-> "none"]
Draw == sample.alg = "none" /\ sample' \in Samples
Next == Draw
Spec == Init /\ [][Next]_sample

Is(alg) == sample.alg = alg

-----------------------------------------------------------------------------
\* The peer that knows only the packet gets the content of SM_KEY back: the
\* accumulator the pass leaves behind never overwrites content (decXORPass).
PassUndone == Is("pass") =>
    LET c == sample.content
    IN  SubSeq(DecXORPass(FirstPacket(c, sample.key)), 1, Len(c)) = c

\* The checksum sendAuthPacket writes last lies behind the content, for every
\* size of payload, in whole blocks; the words of the body then add up to zero.
ChecksumClear ==
    /\ Is("size") => Padded(sample.size) % 8 = 0 /\ Padded(sample.size) - 4 >= 1 + sample.size
    /\ Is("pass") => XorAll(Checksum(Append(sample.content, 0))) = 0

\* UnscrambleModulus undoes ScrambledModulus.
ModulusBack == Is("modulus") =>
    LET m == [i \in 0..127 |-> IF i = sample.bit THEN 1 ELSE 0]
    IN  UnscrambleModulus(ScrambledModulus(m)) = m

\* The account and password the gateway parses are those the client packed, or
\* the client refused to pack them: a name of the greatest length does not run
\* into the password.
CredentialsBack == Is("login") =>
    LET block == CredentialBlock(sample.account, sample.password)
    IN  IF block = <<>> THEN Len(sample.account) > AccountMax \/ Len(sample.password) > PasswordMax
        ELSE ParseCredentials(block) = <<sample.account, sample.password>>

\* Two packets decoded in the order they were encoded give the plain bytes back
\* and leave both ends in one state.
StreamInStep == Is("stream") =>
    LET e1 == Encode(sample.seed, sample.first)
        e2 == Encode(e1.state, sample.second)
        d1 == Decode(sample.seed, e1.out)
        d2 == Decode(d1.state, e2.out)
    IN  d1.out = sample.first /\ d2.out = sample.second /\ d2.state = e2.state

\* Every client opcode is decoded to itself and no two server opcodes meet on the
\* wire, for each version the masks know.
OpcodesApart == Is("opcode") =>
    /\ DecodeClientOpcode(EncodeClientOpcode(sample.op, sample.version), sample.version) = sample.op
    /\ \A d \in {1, 8, 64, 256} : EncodeServerOpcode(sample.op, sample.version)
                                   # EncodeServerOpcode((sample.op + d) % OpWord, sample.version)

\* Two packets written one after the other are read back as those two, as long as
\* the first is shorter than the length header can say.  Bytes does not check that:
\* a longer one is cut short and the rest of the stream read as packets.
FramesKept == Is("size") =>
    LET p == Bytes([i \in 1..sample.size |-> 7])
        q == Bytes([i \in 1..(2 + sample.next) |-> 5])
        r == ReadPacketFromConn(p \o q)
    IN  sample.size >= 2 /\ Len(p) < LengthMod => /\ r.packet = p
                                                 /\ ReadPacketFromConn(r.rest).packet = q

\* Fields are read back in the order they were written, behind strings too, for
\* characters of one UTF-16 unit; what is not ASCII is marked.
FieldsBack == Is("fields") =>
    LET fs == sample.fields
        plain == \A i \in DOMAIN fs : fs[i].kind = "string" =>
                     \A j \in DOMAIN fs[i].runes : fs[i].runes[j] < Byte * Byte
    IN  plain => ReadAll(WriteAll(fs), fs) = [i \in DOMAIN fs |-> FieldValue(fs[i])]
=============================================================================
