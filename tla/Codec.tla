------------------------------- MODULE Codec -------------------------------
(***************************************************************************)
(* The byte-level functions both ends of a connection share: the XOR pass  *)
(* and checksum of the auth port (cmd/gateway/handshake.go), the scrambled *)
(* RSA modulus and the credential block (internal/crypto/rsa.go), the XOR  *)
(* stream (xor.go), opcode masks (gamecrypt.go), and the packet with its   *)
(* length header and typed fields (internal/aionproto/packet.go).          *)
(*                                                                         *)
(* Pure operators.  Words are taken modulo Word and bytes modulo Byte,     *)
(* small powers of two; the modulus keeps its 128 positions, one bit each: *)
(* the scramble moves and adds bits of equal place, so a bit stands for a  *)
(* byte, and being linear it is determined by the modules of one bit.      *)
(***************************************************************************)
EXTENDS Integers, Sequences

CONSTANTS
    Word, Byte,     \* moduli of a uint32 and of a byte
    LengthMod,      \* modulus of the 2-byte length header
    AccountMax, PasswordMax     \* AccountNameMaxLen and what is left of the block

\* The exclusive or, bit by bit.
Xor[a \in Nat] ==
    [b \in Nat |-> IF a = 0 THEN b ELSE ((a + b) % 2) + 2 * Xor[a \div 2][b \div 2]]

Zeros(n) == [i \in 1..n |-> 0]

-----------------------------------------------------------------------------
(* The first packet: encXORPass from the second word on, the accumulator    *)
(* left in the last word but one.                                           *)

Accumulator(ws, key) ==     \* behind each word
    LET acc[i \in 1..Len(ws)] == IF i = 1 THEN key ELSE (acc[i - 1] + ws[i]) % Word
    IN  acc
SeedAt(n) == IF n > 3 THEN n - 1 ELSE 2

EncXORPassLate(ws, key) ==
    LET n == Len(ws)
    IN  [i \in 1..n |-> IF i = SeedAt(n) THEN Accumulator(ws, key)[n - 2]
                        ELSE IF i \in 2..(n - 2) THEN Xor[ws[i]][Accumulator(ws, key)[i - 1]]
                        ELSE ws[i]]
EncXORPass(ws, key) ==
    LET n == Len(ws)
    IN  [i \in 1..n |-> IF i = SeedAt(n) THEN Accumulator(ws, key)[n - 2]
                        ELSE IF i \in 2..(n - 2) THEN Xor[ws[i]][Accumulator(ws, key)[i]]
                        ELSE ws[i]]

\* Backwards: each word gives back the accumulator of the word before it.
DecXORPass(ws) ==
    LET n == Len(ws)
        Undo[i \in 2..SeedAt(n)] ==     \* [word, accumulator before it]
            IF i = SeedAt(n) THEN [word |-> ws[i], acc |-> ws[i]]
            ELSE LET w == Xor[ws[i]][Undo[i + 1].acc]
                 IN  [word |-> w, acc |-> (Undo[i + 1].acc - w) % Word]
    IN  IF n < 3 THEN ws ELSE [i \in 1..n |-> IF i \in 2..SeedAt(n) THEN Undo[i].word ELSE ws[i]]

\* sendSMKey: content, two words for checksum and seed, the pass.
FirstPacket(content, key) == EncXORPass(content \o Zeros(2), key)

\* appendChecksum: the last word is the XOR of the others.
XorAll(ws) ==
    LET upTo[i \in 0..Len(ws)] == IF i = 0 THEN 0 ELSE Xor[upTo[i - 1]][ws[i]]
    IN  upTo[Len(ws)]
Checksum(ws) == [ws EXCEPT ![Len(ws)] = XorAll(SubSeq(ws, 1, Len(ws) - 1))]

\* sendAuthPacket: opcode, payload, 4 bytes of checksum, then 1 to 8 bytes of padding.
Padded(size) == 1 + size + 4 + (8 - ((1 + size + 4) % 8))

-----------------------------------------------------------------------------
(* RSA modulus and credentials.                                             *)

Swapped(m) == [i \in DOMAIN m |-> IF i \in 0..3 THEN m[77 + i]
                                  ELSE IF i \in 77..80 THEN m[i - 77] ELSE m[i]]
Halved(m) == [i \in DOMAIN m |-> IF i < 64 THEN Xor[m[i]][m[64 + i]] ELSE m[i]]
Middled(m) == [i \in DOMAIN m |-> IF i \in 13..16 THEN Xor[m[i]][m[39 + i]] ELSE m[i]]
Doubled(m) == [i \in DOMAIN m |-> IF i >= 64 THEN Xor[m[i]][m[i - 64]] ELSE m[i]]

ScrambledModulus(m) == Doubled(Middled(Halved(Swapped(m))))
UnscrambleModulus(m) == Swapped(Halved(Middled(Doubled(m))))

Fill(s, n) == s \o Zeros(n - Len(s))

\* encryptCredentials of both test clients; raw RSA gives the block back unchanged
\* because its first byte is 0 and so its number is below the modulus.
CredentialBlock(account, password) ==
    IF Len(account) > AccountMax \/ Len(password) > PasswordMax THEN <<>>
    ELSE <<0>> \o Fill(account, AccountMax) \o Fill(password, PasswordMax)

NullTerm(s) == LET nulls == {i \in DOMAIN s : s[i] = 0}
               IN  IF nulls = {} THEN s ELSE SubSeq(s, 1, (CHOOSE i \in nulls : \A j \in nulls : i <= j) - 1)

ParsePassword(block) == NullTerm(SubSeq(block, AccountMax + 2, 1 + AccountMax + PasswordMax))
ParseCredentials(block) == <<NullTerm(SubSeq(block, 2, 1 + AccountMax)), ParsePassword(block)>>

-----------------------------------------------------------------------------
(* The XOR stream: the state grows by each ciphered byte, on both ends.     *)

Low(state) == state % Byte

Encode(state, bytes) ==
    LET n == Len(bytes)
        before[i \in 1..(n + 1)] ==     \* the state before each byte
            IF i = 1 THEN state
            ELSE (before[i - 1] + Xor[bytes[i - 1]][Low(before[i - 1])]) % Word
    IN  [state |-> before[n + 1], out |-> [i \in 1..n |-> Xor[bytes[i]][Low(before[i])]]]

Decode(state, bytes) ==
    LET n == Len(bytes)
        before[i \in 1..(n + 1)] ==
            IF i = 1 THEN state ELSE (before[i - 1] + bytes[i - 1]) % Word
    IN  [state |-> before[n + 1], out |-> [i \in 1..n |-> Xor[bytes[i]][Low(before[i])]]]

-----------------------------------------------------------------------------
(* Game opcodes, by the low byte of the version: 213 is 5.8.                *)

OpcodeXORMask(vb) == CASE vb = 213 -> 213 [] vb = 203 -> 219 [] OTHER -> 223
ClientDecodeSub(vb) == IF vb = 213 THEN 14 ELSE 12
OpWord == 1024

EncodeServerOpcode(op, vb) == Xor[op + vb][OpcodeXORMask(vb)] % OpWord
DecodeClientOpcode(op, vb) ==
    LET mask == OpcodeXORMask(vb)
    IN  (Xor[(Xor[op][mask] - ClientDecodeSub(vb)) % OpWord][mask] - vb) % OpWord

\* What the client does to an opcode, as the formulas are inverted.
EncodeClientOpcode(op, vb) ==
    LET mask == OpcodeXORMask(vb)
    IN  Xor[(Xor[(op + vb) % OpWord][mask] + (IF vb = 213 THEN 14 ELSE 12)) % OpWord][mask]

-----------------------------------------------------------------------------
(* Packets: a sequence of bytes; the header holds the total length.         *)

HeaderSize == 2
MinPacketSize == 4

\* Packet.Bytes: the body is padded to a block, the length wraps at LengthMod.
Aligned(width, size) == ((width + size + 7) \div 8) * 8
Bytes(body) == LET total == HeaderSize + Aligned(0, Len(body))
               IN  <<total % LengthMod, 0>> \o Fill(body, Aligned(0, Len(body)))

\* ReadPacketFromConn: [packet, the rest of the stream]; <<>> is an error.
ReadPacketFromConn(stream) ==
    LET total == Head(stream)
    IN  IF total < MinPacketSize \/ total > Len(stream) THEN [packet |-> <<>>, rest |-> <<>>]
        ELSE [packet |-> SubSeq(stream, 1, total), rest |-> SubSeq(stream, total + 1, Len(stream))]

\* Fields: an integer of width bytes, little endian, or a string of runes.
LE(v, width) ==
    LET rest[i \in 1..(width + 1)] == IF i = 1 THEN v ELSE rest[i - 1] \div Byte
    IN  [i \in 1..width |-> rest[i] % Byte]
StringUnits(rs) == [i \in DOMAIN rs |-> rs[i] % (Byte * Byte)]
FlattenUnits(us) == [i \in 1..(2 * Len(us)) |-> LE(us[(i + 1) \div 2], 2)[IF i % 2 = 1 THEN 1 ELSE 2]]

Write(f) == IF f.kind = "int" THEN LE(f.value, f.width)
            ELSE FlattenUnits(StringUnits(f.runes)) \o LE(0, 2)
WriteAll(fs) ==
    LET upTo[i \in 0..Len(fs)] == IF i = 0 THEN <<>> ELSE upTo[i - 1] \o Write(fs[i])
    IN  upTo[Len(fs)]

\* Read*: [value, pos]; pos = 0 is ErrUnexpectedEOF.
ReadInt(bytes, pos, width) ==
    LET from[i \in 0..width] ==     \* the value of the bytes from the i-th on
            IF i = width THEN 0 ELSE bytes[pos + i] + Byte * from[i + 1]
    IN  IF pos + width - 1 > Len(bytes) THEN [value |-> 0, pos |-> 0]
        ELSE [value |-> from[0], pos |-> pos + width]

\* readUTF16NullAt of tinyclient: up to the terminator, what is not ASCII as Mark.
Mark == Byte * Byte
Unit(bytes, i) == bytes[i] + Byte * bytes[i + 1]
ReadString(bytes, pos) ==
    LET ends == {k \in 0..((Len(bytes) - pos) \div 2) :
                    pos + 2*k + 1 <= Len(bytes) /\ Unit(bytes, pos + 2*k) = 0}
        n == IF ends = {} THEN (Len(bytes) - pos + 1) \div 2 ELSE CHOOSE k \in ends : \A j \in ends : k <= j
    IN  [value |-> [i \in 1..n |-> IF Unit(bytes, pos + 2*i - 2) < Byte \div 2
                                   THEN Unit(bytes, pos + 2*i - 2) ELSE Mark],
         pos |-> pos + 2*n + IF ends = {} THEN 0 ELSE 2]

ReadField(bytes, pos, f) == IF pos = 0 THEN [value |-> 0, pos |-> 0]
                            ELSE IF f.kind = "int" THEN ReadInt(bytes, pos, f.width)
                            ELSE ReadString(bytes, pos)

ReadAll(bytes, fs) ==       \* the values, each read where the last one ended
    LET at[i \in 1..(Len(fs) + 1)] == IF i = 1 THEN 1 ELSE ReadField(bytes, at[i - 1], fs[i - 1]).pos
    IN  [i \in 1..Len(fs) |-> ReadField(bytes, at[i], fs[i]).value]

FieldValue(f) == IF f.kind = "int" THEN f.value
                 ELSE [i \in DOMAIN f.runes |-> IF f.runes[i] < Byte \div 2 THEN f.runes[i] ELSE Mark]
=============================================================================
