----------------------------- MODULE Cbor64Proofs -----------------------------
(***************************************************************************)
(* What holds of the streaming encoder (cbor64.c, cbor64.h, base64.h) for   *)
(* any strings, numbers and bounds: the characters are those of the bytes,  *)
(* each item reads as what it was sent for, and both sides agree on the     *)
(* string an index stands for.                                              *)
(***************************************************************************)
EXTENDS Cbor64, SequenceTheorems, WellFoundedInduction, TLAPS

-----------------------------------------------------------------------------
(* base64: after any number of bytes, what has been written and what waits. *)

(* A round of the loop that writes six bits: `w` is the weight of those     *)
(* that stay.                                                               *)
LEMMA WriteSixParts ==
    ASSUME NEW o \in [buffer : Nat, bits : Nat, chars : Seq(Nat)], ~ (o.bits < 6),
           NEW w \in Nat \ {0}, 2 ^ (o.bits - 6) = w
    PROVE  /\ WriteSix(o) \in [buffer : Nat, bits : Nat, chars : Seq(Nat)]
           /\ WriteSix(o).buffer = o.buffer
           /\ WriteSix(o).bits = o.bits - 6
           /\ WriteSix(o).chars = Append(o.chars, (o.buffer \div w) % 64)
<1> DEFINE c == (o.buffer \div w) % 64
<1>1. c \in Nat /\ o.bits - 6 \in Nat
  OBVIOUS
<1>2. WriteSix(o) = [o EXCEPT !.bits = @ - 6, !.chars = Append(@, c)]
  BY DEF WriteSix
<1> HIDE DEF c
<1>3. Append(o.chars, c) \in Seq(Nat)
  BY <1>1
<1>4. /\ WriteSix(o) \in [buffer : Nat, bits : Nat, chars : Seq(Nat)]
      /\ WriteSix(o).buffer = o.buffer
      /\ WriteSix(o).bits = o.bits - 6
      /\ WriteSix(o).chars = Append(o.chars, c)
  BY <1>1, <1>2, <1>3
<1>5. QED BY <1>4 DEF c

(* The 16 bits of the buffer after another byte.                            *)
Shifted(buffer, b) == (buffer * 256 + b) % 2 ^ 16

(* What a round finds there, of the byte `last` before and of this one.     *)
LEMMA ShiftedParts ==
    ASSUME NEW old \in Nat, NEW b \in Byte, NEW last \in Byte
    PROVE  /\ (Shifted(old, b) \div 4) % 64 = b \div 4
           /\ Shifted(old, b) % 4 = b % 4
           /\ Shifted(old, b) % 16 = b % 16
           /\ Shifted(old, b) % 64 = b % 64
           /\ old % 4 = last % 4 =>
                (Shifted(old, b) \div 16) % 64 = (last % 4) * 16 + b \div 16
           /\ old % 16 = last % 16 =>
                (Shifted(old, b) \div 64) % 64 = (last % 16) * 4 + b \div 64
<1> DEFINE w == Shifted(old, b)
<1>1. PICK k \in Int : w = old * 256 + b - 65536 * k
  <2>1. 2 ^ 16 = 65536
    BY SMT
  <2>2. w = (old * 256 + b) % 65536
    BY <2>1, SMT DEF Shifted
  <2>3. w = old * 256 + b - 65536 * ((old * 256 + b) \div 65536)
    BY <2>2, SMT DEF Byte
  <2>4. QED BY <2>3, SMT DEF Byte
<1> HIDE DEF w
<1>2. w \in Int
  BY <1>1, SMT DEF Byte
<1>3. w % 4 = b % 4 /\ w % 16 = b % 16 /\ w % 64 = b % 64
  BY <1>1, <1>2, SMT DEF Byte
<1>4. (w \div 4) % 64 = b \div 4
  BY <1>1, <1>2, SMT DEF Byte
<1>5. ASSUME old % 4 = last % 4
      PROVE  (w \div 16) % 64 = (last % 4) * 16 + b \div 16
  <2>1. PICK m \in Int : old = 4 * m + (last % 4)
    <3>1. old = 4 * (old \div 4) + (old % 4) /\ old \div 4 \in Int
      BY SMT DEF Byte
    <3>2. QED BY <1>5, <3>1, SMT DEF Byte
  <2>2. QED BY <2>1, <1>1, <1>2, SMT DEF Byte
<1>6. ASSUME old % 16 = last % 16
      PROVE  (w \div 64) % 64 = (last % 16) * 4 + b \div 64
  <2>1. PICK m \in Int : old = 16 * m + (last % 16)
    <3>1. old = 16 * (old \div 16) + (old % 16) /\ old \div 16 \in Int
      BY SMT DEF Byte
    <3>2. QED BY <1>6, <3>1, SMT DEF Byte
  <2>2. QED BY <2>1, <1>1, <1>2, SMT DEF Byte
<1>7. QED BY <1>3, <1>4, <1>5, <1>6, Zenon DEF w

(* What a byte changes, for each number of bits that may wait.              *)
LEMMA PutByteParts ==
    ASSUME NEW o \in Streamer, NEW b \in Byte
    PROVE  LET w == Shifted(o.buffer, b)
               p == PutByte(o, b)
           IN /\ p.buffer = w
              /\ p \in [buffer : Nat, bits : Nat, chars : Seq(Nat)]
              /\ o.bits = 0 => p.bits = 2 /\ p.chars = Append(o.chars, (w \div 4) % 64)
              /\ o.bits = 2 => p.bits = 4 /\ p.chars = Append(o.chars, (w \div 16) % 64)
              /\ o.bits = 4 => p.bits = 0
                     /\ p.chars = Append(Append(o.chars, (w \div 64) % 64), w % 64)
<1> DEFINE buffer == Shifted(o.buffer, b)
           Parts(p, w) ==
             /\ p.buffer = w
             /\ p \in [buffer : Nat, bits : Nat, chars : Seq(Nat)]
             /\ o.bits = 0 => p.bits = 2 /\ p.chars = Append(o.chars, (w \div 4) % 64)
             /\ o.bits = 2 => p.bits = 4 /\ p.chars = Append(o.chars, (w \div 16) % 64)
             /\ o.bits = 4 => p.bits = 0
                    /\ p.chars = Append(Append(o.chars, (w \div 64) % 64), w % 64)
<1> DEFINE Records == [buffer : Nat, bits : Nat, chars : Seq(Nat)]
           first == [o EXCEPT !.buffer = (@ * 256 + b) % 2 ^ 16, !.bits = @ + 8]
<1>1. o.buffer \in Nat /\ o.bits \in {0, 2, 4} /\ o.chars \in Seq(0 .. 63)
  BY DEF Streamer
<1>2. buffer \in Nat /\ o.bits + 8 \in Nat
  <2>1. 2 ^ 16 \in Nat \ {0}
    BY SMT
  <2>2. ASSUME NEW old \in Nat, NEW m \in Nat \ {0} PROVE (old * 256 + b) % m \in Nat
    BY SMT DEF Byte
  <2>3. QED BY <1>1, <2>1, <2>2 DEF Shifted
<1>3. first = [o EXCEPT !.buffer = buffer, !.bits = @ + 8]
  BY Zenon DEF Shifted
<1>4. o.chars \in Seq(Nat)
  BY <1>1, SeqMonotonic, 0 .. 63 \subseteq Nat
<1>5. o \in Records
  BY <1>1, <1>4 DEF Streamer
<1>6. PutByte(o, b) = WriteSix(WriteSix(first))
  BY DEF PutByte, Written
<1> HIDE DEF first, buffer
<1>7. /\ first \in Records
      /\ first.buffer = buffer /\ first.bits = o.bits + 8 /\ first.chars = o.chars
  BY <1>2, <1>3, <1>5
<1>8. ~ (first.bits < 6)
  BY <1>1, <1>7
<1>9. /\ 2 ^ 2 = 4 /\ 2 ^ 4 = 16 /\ 2 ^ 6 = 64 /\ 2 ^ 0 = 1
  OBVIOUS
<1> DEFINE second == WriteSix(first)
           Round(old, w) ==
             /\ WriteSix(old) \in Records
             /\ WriteSix(old).buffer = old.buffer
             /\ WriteSix(old).bits = old.bits - 6
             /\ WriteSix(old).chars = Append(old.chars, (old.buffer \div w) % 64)
<1>14. ASSUME NEW old \in Records, ~ (old.bits < 6),
              NEW w \in Nat \ {0}, 2 ^ (old.bits - 6) = w
       PROVE  Round(old, w)
  BY <1>14, WriteSixParts, Zenon
<1>10. ASSUME o.bits = 0 PROVE Parts(PutByte(o, b), buffer)
  <2>1. first.bits - 6 = 2
    BY <1>7, <1>10
  <2>2. 2 ^ (first.bits - 6) = 4
    BY <2>1, <1>9
  <2>10. Round(first, 4)
    BY <1>7, <1>8, <1>14, <2>2, 4 \in Nat \ {0}, Zenon
  <2>3. /\ second \in Records
        /\ second.buffer = buffer /\ second.bits = 2
        /\ second.chars = Append(o.chars, (buffer \div 4) % 64)
    BY <1>7, <2>1, <2>10
  <2>4. WriteSix(second) = second
    BY <2>3 DEF WriteSix
  <2>5. o.bits # 2 /\ o.bits # 4
    BY <1>10
  <2>6. Parts(second, buffer)
    BY <1>10, <2>3, <2>5, Zenon
  <2>7. QED BY <1>6, <2>4, <2>6, ZenonT(60)
<1>11. ASSUME o.bits = 2 PROVE Parts(PutByte(o, b), buffer)
  <2>1. first.bits - 6 = 4
    BY <1>7, <1>11
  <2>2. 2 ^ (first.bits - 6) = 16
    BY <2>1, <1>9
  <2>10. Round(first, 16)
    BY <1>7, <1>8, <1>14, <2>2, 16 \in Nat \ {0}, Zenon
  <2>3. /\ second \in Records
        /\ second.buffer = buffer /\ second.bits = 4
        /\ second.chars = Append(o.chars, (buffer \div 16) % 64)
    BY <1>7, <2>1, <2>10
  <2>4. WriteSix(second) = second
    BY <2>3 DEF WriteSix
  <2>5. o.bits # 0 /\ o.bits # 4
    BY <1>11
  <2>6. Parts(second, buffer)
    BY <1>11, <2>3, <2>5, Zenon
  <2>7. QED BY <1>6, <2>4, <2>6, Zenon
<1>12. ASSUME o.bits = 4 PROVE Parts(PutByte(o, b), buffer)
  <2>1. first.bits - 6 = 6
    BY <1>7, <1>12
  <2>2. 2 ^ (first.bits - 6) = 64
    BY <2>1, <1>9
  <2>10. Round(first, 64)
    BY <1>7, <1>8, <1>14, <2>2, 64 \in Nat \ {0}, Zenon
  <2>3. /\ second \in Records
        /\ second.buffer = buffer /\ second.bits = 6
        /\ second.chars = Append(o.chars, (buffer \div 64) % 64)
    BY <1>7, <2>1, <2>10
  <2> HIDE DEF second
  <2>4. second.bits - 6 = 0 /\ ~ (second.bits < 6)
    BY <2>3
  <2>5. 2 ^ (second.bits - 6) = 1
    BY <2>4, <1>9
  <2>11. Round(second, 1)
    BY <1>14, <2>3, <2>4, <2>5, 1 \in Nat \ {0}, ZenonT(60)
  <2>6. /\ WriteSix(second) \in Records
        /\ WriteSix(second).buffer = buffer
        /\ WriteSix(second).bits = 0
        /\ WriteSix(second).chars = Append(second.chars, (buffer \div 1) % 64)
    BY <2>3, <2>4, <2>11
  <2>7. (buffer \div 1) % 64 = buffer % 64
    BY <1>2
  <2>8. PutByte(o, b) = WriteSix(second)
    BY <1>6 DEF second
  <2>9. /\ PutByte(o, b).bits = 0 /\ PutByte(o, b).buffer = buffer
        /\ PutByte(o, b) \in Records
        /\ PutByte(o, b).chars =
             Append(Append(o.chars, (buffer \div 64) % 64), buffer % 64)
    BY <2>3, <2>6, <2>7, <2>8, Zenon
  <2>12. o.bits # 0 /\ o.bits # 2
    BY <1>12
  <2>13. Parts(PutByte(o, b), buffer)
    BY <1>12, <2>9, <2>12, Zenon
  <2>14. QED BY <2>13, Zenon
<1>13. Parts(PutByte(o, b), buffer)
  <2> HIDE DEF Parts
  <2>1. QED BY <1>1, <1>10, <1>11, <1>12
<1>15. QED BY <1>13, Zenon DEF buffer

(* Where the sextets end after `n` bytes.                                   *)
LEMMA GroupsOf ==
    ASSUME NEW n \in Nat, NEW c \in Nat, NEW bits \in {0, 2, 4}, 8 * n = 6 * c + bits
    PROVE  \E q \in Nat :
             /\ bits = 0 => n = 3 * q /\ c = 4 * q
             /\ bits = 2 => n = 3 * q + 1 /\ c = 4 * q + 1
             /\ bits = 4 => n = 3 * q + 2 /\ c = 4 * q + 2
<1>1. n = 3 * (n \div 3) + (n % 3) /\ n \div 3 \in Nat /\ n % 3 \in {0, 1, 2}
  BY SMT
<1>2. PICK q \in Nat, r \in {0, 1, 2} : n = 3 * q + r
  BY <1>1, SMT
<1>3. QED BY <1>2, SMT

(* The sextets in terms of whole groups.                                    *)
LEMMA SextetParts ==
    ASSUME NEW bytes \in Seq(Byte), NEW q \in Nat
    PROVE  /\ Sextet(bytes, 4 * q + 1) = bytes[3 * q + 1] \div 4
           /\ Sextet(bytes, 4 * q + 2) =
                (bytes[3 * q + 1] % 4) * 16 + bytes[3 * q + 2] \div 16
           /\ Sextet(bytes, 4 * q + 3) =
                (bytes[3 * q + 2] % 16) * 4 + bytes[3 * q + 3] \div 64
           /\ Sextet(bytes, 4 * q + 4) = bytes[3 * q + 3] % 64
<1>1. /\ (4 * q + 1) % 4 = 1 /\ (4 * q + 1 - 1) \div 4 = q
      /\ (4 * q + 2) % 4 = 2 /\ (4 * q + 2 - 1) \div 4 = q
      /\ (4 * q + 3) % 4 = 3 /\ (4 * q + 3 - 1) \div 4 = q
      /\ (4 * q + 4) % 4 = 0 /\ (4 * q + 4 - 1) \div 4 = q
  BY SMT
<1>2. 0 # 1 /\ 0 # 2 /\ 0 # 3 /\ 1 # 2 /\ 1 # 3 /\ 2 # 3
  BY SMT
<1>3. ASSUME NEW j \in Int, (j - 1) \div 4 = q
      PROVE  /\ j % 4 = 1 => Sextet(bytes, j) = bytes[3 * q + 1] \div 4
             /\ j % 4 = 2 => Sextet(bytes, j) =
                  (bytes[3 * q + 1] % 4) * 16 + bytes[3 * q + 2] \div 16
             /\ j % 4 = 3 => Sextet(bytes, j) =
                  (bytes[3 * q + 2] % 16) * 4 + bytes[3 * q + 3] \div 64
             /\ j % 4 = 0 => Sextet(bytes, j) = bytes[3 * q + 3] % 64
  <2>1. CASE j % 4 = 1
    BY <1>2, <1>3, <2>1, Zenon DEF Sextet
  <2>2. CASE j % 4 = 2
    BY <1>2, <1>3, <2>2, Zenon DEF Sextet
  <2>3. CASE j % 4 = 3
    BY <1>2, <1>3, <2>3, Zenon DEF Sextet
  <2>4. CASE j % 4 = 0
    BY <1>2, <1>3, <2>4, Zenon DEF Sextet
  <2>5. QED BY <2>1, <2>2, <2>3, <2>4, Zenon
<1>4. /\ 4 * q + 1 \in Int /\ 4 * q + 2 \in Int /\ 4 * q + 3 \in Int /\ 4 * q + 4 \in Int
  OBVIOUS
<1> DEFINE j1 == 4 * q + 1
           j2 == 4 * q + 2
           j3 == 4 * q + 3
           j4 == 4 * q + 4
<1>5. /\ j1 \in Int /\ j1 % 4 = 1 /\ (j1 - 1) \div 4 = q
      /\ j2 \in Int /\ j2 % 4 = 2 /\ (j2 - 1) \div 4 = q
      /\ j3 \in Int /\ j3 % 4 = 3 /\ (j3 - 1) \div 4 = q
      /\ j4 \in Int /\ j4 % 4 = 0 /\ (j4 - 1) \div 4 = q
  BY <1>1, <1>4
<1> HIDE DEF j1, j2, j3, j4
<1>6. /\ Sextet(bytes, j1) = bytes[3 * q + 1] \div 4
      /\ Sextet(bytes, j2) =
           (bytes[3 * q + 1] % 4) * 16 + bytes[3 * q + 2] \div 16
      /\ Sextet(bytes, j3) =
           (bytes[3 * q + 2] % 16) * 4 + bytes[3 * q + 3] \div 64
      /\ Sextet(bytes, j4) = bytes[3 * q + 3] % 64
  BY <1>3, <1>5, Zenon
<1>7. QED BY <1>6, Zenon DEF j1, j2, j3, j4

(* A sextet of whole bytes stays when bytes follow.                         *)
LEMMA SextetKept ==
    ASSUME NEW bytes \in Seq(Byte), NEW more \in Seq(Byte),
           Len(bytes) <= Len(more), \A k \in 1 .. Len(bytes) : more[k] = bytes[k],
           NEW j \in Nat, j >= 1, 6 * j <= 8 * Len(bytes)
    PROVE  Sextet(more, j) = Sextet(bytes, j)
<1>1. PICK q \in Nat, r \in 1 .. 4 : j = 4 * q + r
  <2>1. j - 1 = 4 * ((j - 1) \div 4) + ((j - 1) % 4)
        /\ (j - 1) \div 4 \in Nat /\ (j - 1) % 4 \in 0 .. 3
    BY SMT
  <2>2. /\ j = 4 * ((j - 1) \div 4) + (((j - 1) % 4) + 1)
        /\ ((j - 1) % 4) + 1 \in 1 .. 4
    BY <2>1, SMT
  <2>3. QED BY <2>1, <2>2, Zenon
<1>2. Len(bytes) \in Nat
  OBVIOUS
<1>3. CASE r = 1
  <2>1. more[3 * q + 1] = bytes[3 * q + 1]
    BY <1>1, <1>2, <1>3, SMT
  <2>2. QED BY <1>1, <1>3, <2>1, SextetParts
<1>4. CASE r = 2
  <2>1. more[3 * q + 1] = bytes[3 * q + 1] /\ more[3 * q + 2] = bytes[3 * q + 2]
    BY <1>1, <1>2, <1>4, SMT
  <2>2. QED BY <1>1, <1>4, <2>1, SextetParts
<1>5. CASE r = 3
  <2>1. more[3 * q + 2] = bytes[3 * q + 2] /\ more[3 * q + 3] = bytes[3 * q + 3]
    BY <1>1, <1>2, <1>5, SMT
  <2>2. QED BY <1>1, <1>5, <2>1, SextetParts
<1>6. CASE r = 4
  <2>1. more[3 * q + 3] = bytes[3 * q + 3]
    BY <1>1, <1>2, <1>6, SMT
  <2>2. QED BY <1>1, <1>6, <2>1, SextetParts
<1>7. QED BY <1>1, <1>3, <1>4, <1>5, <1>6

(* One byte more.                                                           *)
LEMMA PutByteStreams ==
    ASSUME NEW o, NEW bytes \in Seq(Byte), Streams(o, bytes), NEW b \in Byte
    PROVE  Streams(PutByte(o, b), Append(bytes, b))
<1> DEFINE p == PutByte(o, b)
           more == Append(bytes, b)
           n == Len(bytes)
           c == Len(o.chars)
           w == Shifted(o.buffer, b)
           last == IF n = 0 THEN 0 ELSE bytes[n]
<1>1. /\ o \in Streamer /\ o.buffer \in Nat /\ o.bits \in {0, 2, 4}
      /\ o.chars \in Seq(0 .. 63) /\ c \in Nat /\ n \in Nat
      /\ 8 * n = 6 * c + o.bits
  BY DEF Streams, Streamer
<1>2. /\ more \in Seq(Byte) /\ Len(more) = n + 1 /\ more[n + 1] = b
      /\ \A k \in 1 .. n : more[k] = bytes[k]
  OBVIOUS
<1>3. last \in Byte
  <2>1. CASE n = 0
    BY <2>1 DEF Byte
  <2>2. CASE n # 0
    <3>1. n \in 1 .. Len(bytes)
      BY <1>1, <2>2
    <3>2. QED BY <2>2, <3>1, ElementOfSeq
  <2>3. QED BY <2>1, <2>2
<1>14. o.buffer \in Nat /\ b \in Byte
  BY <1>1
<1> HIDE DEF n, c
<1>4. \A j \in 1 .. c : o.chars[j] = Sextet(more, j)
  <2>1. ASSUME NEW j \in 1 .. c PROVE o.chars[j] = Sextet(more, j)
    <3>1. j \in Nat /\ j >= 1 /\ 6 * j <= 8 * n
      BY <1>1
    <3>2. Sextet(more, j) = Sextet(bytes, j)
      <4>1. n <= n + 1
        BY <1>1
      <4>2. QED BY <1>2, <3>1, <4>1, SextetKept DEF n
    <3>3. QED BY <3>2 DEF Streams, c
  <2>2. QED BY <2>1, Zenon
<1>5. /\ w % 4 = b % 4 /\ w % 16 = b % 16 /\ w % 64 = b % 64
      /\ (w \div 4) % 64 = b \div 4
      /\ o.buffer % 4 = last % 4 => (w \div 16) % 64 = (last % 4) * 16 + b \div 16
      /\ o.buffer % 16 = last % 16 => (w \div 64) % 64 = (last % 16) * 4 + b \div 64
  BY <1>3, <1>14, ShiftedParts
<1>6. /\ w \in Nat /\ (w \div 4) % 64 \in 0 .. 63 /\ (w \div 16) % 64 \in 0 .. 63
      /\ (w \div 64) % 64 \in 0 .. 63 /\ w % 64 \in 0 .. 63
  <2>1. w \in Nat
    <3>1. 2 ^ 16 \in Nat \ {0}
      BY SMT
    <3>2. ASSUME NEW old \in Nat, NEW m \in Nat \ {0} PROVE (old * 256 + b) % m \in Nat
      BY SMT DEF Byte
    <3>3. QED BY <1>1, <3>1, <3>2 DEF Shifted
  <2> HIDE DEF w
  <2>2. QED BY <2>1, SMT
<1> HIDE DEF last, w
<1>7. PICK q \in Nat : /\ o.bits = 0 => n = 3 * q /\ c = 4 * q
                       /\ o.bits = 2 => n = 3 * q + 1 /\ c = 4 * q + 1
                       /\ o.bits = 4 => n = 3 * q + 2 /\ c = 4 * q + 2
  BY <1>1, GroupsOf, ZenonT(60)
<1>8. /\ Sextet(more, 4 * q + 1) = more[3 * q + 1] \div 4
      /\ Sextet(more, 4 * q + 2) = (more[3 * q + 1] % 4) * 16 + more[3 * q + 2] \div 16
      /\ Sextet(more, 4 * q + 3) = (more[3 * q + 2] % 16) * 4 + more[3 * q + 3] \div 64
      /\ Sextet(more, 4 * q + 4) = more[3 * q + 3] % 64
  BY <1>2, SextetParts, Zenon
<1>9. /\ p.buffer = w
      /\ p \in [buffer : Nat, bits : Nat, chars : Seq(Nat)]
      /\ o.bits = 0 => p.bits = 2 /\ p.chars = Append(o.chars, (w \div 4) % 64)
      /\ o.bits = 2 => p.bits = 4 /\ p.chars = Append(o.chars, (w \div 16) % 64)
      /\ o.bits = 4 => p.bits = 0
             /\ p.chars = Append(Append(o.chars, (w \div 64) % 64), w % 64)
  <2>1. o \in Streamer
    BY <1>1
  <2>2. QED BY <1>14, <2>1, PutByteParts, Zenon DEF w
<1> HIDE DEF p, more
<1>10. CASE o.bits = 0
  <2>1. /\ p.bits = 2 /\ p.chars = Append(o.chars, b \div 4)
        /\ b \div 4 \in 0 .. 63
    BY <1>5, <1>6, <1>9, <1>10, ZenonT(60)
  <2>2. /\ p.chars \in Seq(0 .. 63) /\ Len(p.chars) = c + 1
        /\ p.chars[c + 1] = b \div 4
        /\ \A j \in 1 .. c : p.chars[j] = o.chars[j]
    BY <1>1, <2>1, AppendProperties DEF c
  <2>3. Sextet(more, c + 1) = b \div 4
    BY <1>2, <1>7, <1>8, <1>10
  <2>4. \A j \in 1 .. Len(p.chars) : p.chars[j] = Sextet(more, j)
    BY <1>1, <1>4, <2>2, <2>3, SMTT(30)
  <2>5. p \in Streamer
    BY <1>9, <2>1, <2>2 DEF Streamer
  <2>6. 8 * Len(more) = 6 * Len(p.chars) + p.bits
    <3>1. 8 * (n + 1) = 6 * (c + 1) + 2
      BY <1>1, <1>10
    <3>2. QED BY <1>2, <3>1, <2>1, <2>2, Zenon DEF n
  <2>7. p.buffer % 4 = more[Len(more)] % 4
    BY <1>2, <1>5, <1>9, Zenon
  <2>8. QED BY <2>1, <2>4, <2>5, <2>6, <2>7 DEF Streams, p, more
<1>11. CASE o.bits = 2
  <2>1. n # 0 /\ last = bytes[n] /\ more[n] = last
    BY <1>1, <1>2, <1>7, <1>11 DEF last
  <2>2. o.buffer % 4 = last % 4
    BY <1>11, <2>1, Zenon DEF Streams, n
  <2> DEFINE x == (last % 4) * 16 + b \div 16
  <2>3. /\ p.bits = 4 /\ p.chars = Append(o.chars, x) /\ x \in 0 .. 63
    BY <1>5, <1>6, <1>9, <1>11, <2>2, Zenon
  <2>4. Sextet(more, c + 1) = x
    <3>1. c + 1 = 4 * q + 2 /\ more[3 * q + 1] = last /\ more[3 * q + 2] = b
      BY <1>2, <1>7, <1>11, <2>1
    <3>2. QED BY <1>8, <3>1, Zenon
  <2> HIDE DEF x
  <2>5. /\ p.chars \in Seq(0 .. 63) /\ Len(p.chars) = c + 1
        /\ p.chars[c + 1] = x
        /\ \A j \in 1 .. c : p.chars[j] = o.chars[j]
    BY <1>1, <2>3, AppendProperties DEF c
  <2>6. \A j \in 1 .. Len(p.chars) : p.chars[j] = Sextet(more, j)
    BY <1>1, <1>4, <2>4, <2>5
  <2>7. p \in Streamer
    BY <1>9, <2>3, <2>5 DEF Streamer
  <2>8. 8 * Len(more) = 6 * Len(p.chars) + p.bits
    <3>1. 8 * (n + 1) = 6 * (c + 1) + 4
      BY <1>1, <1>11
    <3>2. QED BY <1>2, <3>1, <2>3, <2>5, Zenon DEF n
  <2>9. p.buffer % 16 = more[Len(more)] % 16
    BY <1>2, <1>5, <1>9, Zenon
  <2>10. QED BY <2>3, <2>6, <2>7, <2>8, <2>9 DEF Streams, p, more
<1>12. CASE o.bits = 4
  <2>1. n # 0 /\ last = bytes[n] /\ more[n] = last
    BY <1>1, <1>2, <1>7, <1>12 DEF last
  <2>2. o.buffer % 16 = last % 16
    BY <1>12, <2>1, Zenon DEF Streams, n
  <2> DEFINE x == (last % 16) * 4 + b \div 64
             y == b % 64
  <2>3. /\ p.bits = 0 /\ p.chars = Append(Append(o.chars, x), y)
        /\ x \in 0 .. 63 /\ y \in 0 .. 63
    BY <1>5, <1>6, <1>9, <1>12, <2>2, Zenon
  <2>4. Sextet(more, c + 1) = x /\ Sextet(more, c + 2) = y
    <3>1. /\ c + 1 = 4 * q + 3 /\ more[3 * q + 2] = last /\ more[3 * q + 3] = b
          /\ c + 2 = 4 * q + 4
      BY <1>2, <1>7, <1>12, <2>1
    <3>2. QED BY <1>8, <3>1, Zenon
  <2> HIDE DEF x, y
  <2>5. /\ p.chars \in Seq(0 .. 63) /\ Len(p.chars) = c + 2
        /\ p.chars[c + 1] = x /\ p.chars[c + 2] = y
        /\ \A j \in 1 .. c : p.chars[j] = o.chars[j]
    BY <1>1, <2>3, AppendProperties DEF c
  <2>6. \A j \in 1 .. Len(p.chars) : p.chars[j] = Sextet(more, j)
    <3>1. ASSUME NEW j \in 1 .. Len(p.chars)
          PROVE  j \in 1 .. c \/ j = c + 1 \/ j = c + 2
      BY <1>1, <2>5
    <3>2. QED BY <1>4, <2>4, <2>5, <3>1, Zenon
  <2>7. p \in Streamer
    BY <1>9, <2>3, <2>5 DEF Streamer
  <2>8. 8 * Len(more) = 6 * Len(p.chars) + p.bits
    <3>1. 8 * (n + 1) = 6 * (c + 2) + 0
      BY <1>1, <1>12
    <3>2. QED BY <1>2, <3>1, <2>3, <2>5, Zenon DEF n
  <2>9. QED BY <2>3, <2>6, <2>7, <2>8 DEF Streams, p, more
<1>13. QED BY <1>1, <1>10, <1>11, <1>12 DEF p, more

(* A set of numbers has a smallest one: a loop that goes wrong has a first  *)
(* round that does.                                                         *)
LEMMA Smallest ==
    ASSUME NEW S \in SUBSET Nat, S # {}
    PROVE  \E x \in S : \A y \in S : x <= y
<1>1. PICK x \in S : \A y \in S : ~ (<<y, x>> \in OpToRel(<, Nat))
  BY NatLessThanWellFounded, WFMin, Zenon
<1>2. ASSUME NEW y \in S PROVE x <= y
  <2>1. x \in Nat /\ y \in Nat
    OBVIOUS
  <2>2. ~ (y < x)
    BY <1>1, <2>1 DEF OpToRel
  <2>3. QED BY <2>1, <2>2, SMT
<1>3. QED BY <1>2, Zenon

(* The streamer after each of the bytes.                                    *)
Rounds(f, o, bytes, m) ==
    /\ f[0] = o
    /\ \A n \in 1 .. m : f[n] = PutByte(f[n - 1], bytes[n])

(* The loops over bytes are such a sequence of rounds.                      *)
LEMMA PutRounds ==
    ASSUME NEW o, NEW bytes \in Seq(Byte)
    PROVE  \E f : Rounds(f, o, bytes, Len(bytes)) /\ Put(o, bytes) = f[Len(bytes)]
<1> DEFINE L == Len(bytes)
           Is(f, m) == f = [n \in 0 .. m |->
                               IF n = 0 THEN o ELSE PutByte(f[n - 1], bytes[n])]
           Bad == {m \in Nat : ~ \E f : Is(f, m)}
<1>1. L \in Nat
  OBVIOUS
<1>2. Bad = {}
  <2>1. SUFFICES ASSUME Bad # {} PROVE FALSE
    BY Zenon
  <2>2. PICK m \in Bad : \A y \in Bad : m <= y
    BY <2>1, Smallest
  <2>3. CASE m = 0
    <3> DEFINE f == [n \in 0 .. m |-> o]
    <3>1. f = [n \in 0 .. m |-> IF n = 0 THEN o ELSE PutByte(f[n - 1], bytes[n])]
      BY <2>3
    <3>2. QED BY <2>2, <3>1
  <2>4. CASE m # 0
    <3>1. m - 1 \in Nat /\ m \in Nat
      BY <2>4
    <3>2. ~ (m <= m - 1)
      BY <3>1
    <3>3. m - 1 \notin Bad
      BY <2>2, <3>2, Zenon
    <3>4. PICK f : Is(f, m - 1)
      BY <3>1, <3>3, Zenon
    <3> DEFINE g == [n \in 0 .. m |->
                        IF n <= m - 1 THEN f[n] ELSE PutByte(f[n - 1], bytes[n])]
    <3>5. \A n \in 0 .. m - 1 :
             f[n] = IF n = 0 THEN o ELSE PutByte(f[n - 1], bytes[n])
      BY <3>4, Zenon
    <3>6. ASSUME NEW n \in 0 .. m
          PROVE  g[n] = IF n = 0 THEN o ELSE PutByte(g[n - 1], bytes[n])
      <4>1. CASE n = 0
        <5>1. n \in 0 .. m - 1 /\ n <= m - 1
          BY <3>1, <4>1
        <5>2. g[n] = f[n]
          BY <5>1, Zenon
        <5>3. QED BY <3>5, <4>1, <5>1, <5>2, Zenon
      <4>2. CASE n # 0 /\ n <= m - 1
        <5>1. n \in 0 .. m - 1 /\ n - 1 \in 0 .. m /\ n - 1 <= m - 1
          BY <3>1, <4>2
        <5>2. g[n] = f[n] /\ g[n - 1] = f[n - 1]
          BY <4>2, <5>1, Zenon
        <5>3. QED BY <3>5, <4>2, <5>1, <5>2, Zenon
      <4>3. CASE n # 0 /\ ~ (n <= m - 1)
        <5>1. n - 1 \in 0 .. m /\ n - 1 <= m - 1
          BY <3>1, <4>3
        <5>2. g[n] = PutByte(f[n - 1], bytes[n]) /\ g[n - 1] = f[n - 1]
          BY <4>3, <5>1, Zenon
        <5>3. QED BY <4>3, <5>2, Zenon
      <4>4. QED BY <4>1, <4>2, <4>3, Zenon
    <3> HIDE DEF Is
    <3>7. g = [n \in 0 .. m |-> g[n]]
      BY Zenon
    <3> HIDE DEF g
    <3>8. Is(g, m)
      BY <3>6, <3>7, Zenon DEF Is
    <3>9. QED BY <2>2, <3>8, Zenon
  <2>5. QED BY <2>3, <2>4, Zenon
<1>3. PICK f : Is(f, L)
  BY <1>1, <1>2, Zenon
<1> DEFINE h == CHOOSE fn : Is(fn, L)
<1>4. Is(h, L)
  BY <1>3, Zenon
<1>5. Put(o, bytes) = h[L]
  BY Zenon DEF Put
<1> HIDE DEF h
<1>6. \A n \in 0 .. L : h[n] = IF n = 0 THEN o ELSE PutByte(h[n - 1], bytes[n])
  BY <1>4, Zenon
<1>7. Rounds(h, o, bytes, L)
  <2>1. 0 \in 0 .. L /\ \A n \in 1 .. L : n \in 0 .. L /\ n # 0
    BY <1>1
  <2>2. QED BY <1>6, <2>1, Zenon DEF Rounds
<1>8. QED BY <1>5, <1>7, Zenon

(* A sequence and the first elements of another.                            *)
LEMMA ConcatPrefix ==
    ASSUME NEW S, NEW before \in Seq(S), NEW bytes \in Seq(S), NEW n \in 1 .. Len(bytes)
    PROVE  /\ bytes[n] \in S
           /\ before \o SubSeq(bytes, 1, n - 1) \in Seq(S)
           /\ before \o SubSeq(bytes, 1, n) =
                Append(before \o SubSeq(bytes, 1, n - 1), bytes[n])
<1>1. Len(bytes) \in Nat /\ bytes[n] \in S /\ n \in Nat
  BY ElementOfSeq
<1>2. \A i \in 1 .. n : bytes[i] \in S
  BY <1>1, ElementOfSeq
<1> DEFINE first == SubSeq(bytes, 1, n - 1)
           all == SubSeq(bytes, 1, n)
<1>3. /\ first \in Seq(S) /\ Len(first) = n - 1
      /\ \A i \in 1 .. n - 1 : first[i] = bytes[i]
  BY <1>1, <1>2
<1>4. /\ all \in Seq(S) /\ Len(all) = n
      /\ \A i \in 1 .. n : all[i] = bytes[i]
  BY <1>1, <1>2
<1> HIDE DEF first, all
<1> DEFINE whole == before \o all
           right == Append(before \o first, bytes[n])
<1>5. /\ whole \in Seq(S) /\ Len(whole) = Len(before) + n
      /\ \A i \in 1 .. Len(before) + n :
            whole[i] = IF i <= Len(before) THEN before[i] ELSE bytes[i - Len(before)]
  <2>1. /\ whole \in Seq(S) /\ Len(whole) = Len(before) + n
        /\ \A i \in 1 .. Len(before) + n :
              whole[i] = IF i <= Len(before) THEN before[i] ELSE all[i - Len(before)]
    BY <1>4, ConcatProperties
  <2>2. ASSUME NEW i \in 1 .. Len(before) + n, ~ (i <= Len(before))
        PROVE  all[i - Len(before)] = bytes[i - Len(before)]
    BY <1>1, <1>4, <2>2
  <2>3. QED BY <2>1, <2>2, Zenon
<1>6. /\ before \o first \in Seq(S) /\ Len(before \o first) = Len(before) + n - 1
      /\ \A i \in 1 .. Len(before) + n - 1 :
            (before \o first)[i] =
              IF i <= Len(before) THEN before[i] ELSE bytes[i - Len(before)]
  <2>1. /\ before \o first \in Seq(S) /\ Len(before \o first) = Len(before) + (n - 1)
        /\ \A i \in 1 .. Len(before) + (n - 1) :
              (before \o first)[i] = IF i <= Len(before) THEN before[i] ELSE first[i - Len(before)]
    <3>1. /\ before \o first \in Seq(S)
          /\ Len(before \o first) = Len(before) + Len(first)
          /\ \A i \in 1 .. Len(before) + Len(first) : (before \o first)[i] =
                IF i <= Len(before) THEN before[i] ELSE first[i - Len(before)]
      BY <1>3, ConcatProperties
    <3>2. QED BY <1>3, <3>1, Zenon
  <2>2. ASSUME NEW i \in 1 .. Len(before) + (n - 1), ~ (i <= Len(before))
        PROVE  first[i - Len(before)] = bytes[i - Len(before)]
    BY <1>1, <1>3, <2>2
  <2>3. Len(before) + (n - 1) = Len(before) + n - 1
    BY <1>1
  <2>4. QED BY <2>1, <2>2, <2>3, Zenon
<1>7. /\ right \in Seq(S) /\ Len(right) = Len(before) + n
      /\ \A i \in 1 .. Len(before) + n : right[i] = whole[i]
  <2>1. /\ right \in Seq(S) /\ Len(right) = Len(before) + n
        /\ right[Len(before) + n] = bytes[n]
        /\ \A i \in 1 .. Len(before) + n - 1 : right[i] = (before \o first)[i]
    BY <1>1, <1>6, AppendProperties
  <2>2. whole[Len(before) + n] = bytes[n]
    BY <1>1, <1>5
  <2>3. ASSUME NEW i \in 1 .. Len(before) + n - 1 PROVE right[i] = whole[i]
    BY <1>1, <1>5, <1>6, <2>1
  <2>4. ASSUME NEW i \in 1 .. Len(before) + n
        PROVE  i \in 1 .. Len(before) + n - 1 \/ i = Len(before) + n
    BY <1>1
  <2>5. QED BY <2>1, <2>2, <2>3, <2>4, Zenon
<1>8. whole = right
  BY <1>5, <1>7, SeqEqual
<1>9. QED BY <1>1, <1>6, <1>8 DEF first, all

(* Any number of bytes more.                                                *)
LEMMA PutStreams ==
    ASSUME NEW o, NEW before \in Seq(Byte), Streams(o, before), NEW bytes \in Seq(Byte)
    PROVE  Streams(Put(o, bytes), before \o bytes)
<1> DEFINE L == Len(bytes)
           So(n) == before \o SubSeq(bytes, 1, n)
<1>1. PICK f : Rounds(f, o, bytes, L) /\ Put(o, bytes) = f[L]
  BY PutRounds, Zenon
<1> DEFINE Bad == {n \in 0 .. L : ~ Streams(f[n], So(n))}
<1>2. Bad = {}
  <2>1. SUFFICES ASSUME Bad # {} PROVE FALSE
    BY Zenon
  <2>2. L \in Nat /\ Bad \in SUBSET Nat
    OBVIOUS
  <2>3. PICK n \in Bad : \A y \in Bad : n <= y
    BY <2>1, <2>2, Smallest
  <2>4. CASE n = 0
    <3>1. So(n) = before
      <4>1. SubSeq(bytes, 1, n) = <<>>
        BY <2>4, SubSeqEmpty
      <4>2. QED BY <4>1, ConcatEmptySeq
    <3>2. f[n] = o
      BY <1>1, <2>4 DEF Rounds
    <3>3. QED BY <2>3, <3>1, <3>2, Zenon
  <2>5. CASE n # 0
    <3>1. n \in 1 .. L /\ n - 1 \in 0 .. L /\ ~ (n <= n - 1)
      BY <2>2, <2>5
    <3>2. Streams(f[n - 1], So(n - 1))
      BY <2>3, <3>1, Zenon
    <3>3. /\ bytes[n] \in Byte /\ So(n - 1) \in Seq(Byte)
          /\ So(n) = Append(So(n - 1), bytes[n])
      BY <3>1, ConcatPrefix, SMTT(30)
    <3>4. f[n] = PutByte(f[n - 1], bytes[n])
      BY <1>1, <3>1, Zenon DEF Rounds
    <3> HIDE DEF So
    <3>5. Streams(f[n], So(n))
      BY <3>2, <3>3, <3>4, PutByteStreams
    <3>6. QED BY <2>3, <3>5, Zenon
  <2>6. QED BY <2>4, <2>5, Zenon
<1>3. L \in 0 .. L /\ SubSeq(bytes, 1, L) = bytes
  BY SubSeqFull
<1>4. Streams(f[L], So(L))
  BY <1>2, <1>3, Zenon
<1>5. QED BY <1>1, <1>3, <1>4, Zenon

(* Three bytes come back from the four sextets they are cut into.           *)
LEMMA BytesOfSextets ==
    ASSUME NEW x \in Byte, NEW y \in Byte, NEW z \in Byte
    PROVE  /\ (x \div 4) * 4 + (((x % 4) * 16 + (y \div 16)) \div 16) = x
           /\ (((x % 4) * 16 + (y \div 16)) % 16) * 16
                + (((y % 16) * 4 + (z \div 64)) \div 4) = y
           /\ (((y % 16) * 4 + (z \div 64)) % 4) * 64 + (z % 64) = z
<1>1. PICK x1 \in 0 .. 63, x2 \in 0 .. 3 :
        x = 4 * x1 + x2 /\ x \div 4 = x1 /\ x % 4 = x2
  <2>1. x = 4 * (x \div 4) + (x % 4) /\ x \div 4 \in 0 .. 63 /\ x % 4 \in 0 .. 3
    BY SMT DEF Byte
  <2>2. QED BY <2>1, Zenon
<1>2. PICK y1 \in 0 .. 15, y2 \in 0 .. 15 :
        y = 16 * y1 + y2 /\ y \div 16 = y1 /\ y % 16 = y2
  <2>1. y = 16 * (y \div 16) + (y % 16) /\ y \div 16 \in 0 .. 15 /\ y % 16 \in 0 .. 15
    BY SMT DEF Byte
  <2>2. QED BY <2>1, Zenon
<1>3. PICK z1 \in 0 .. 3, z2 \in 0 .. 63 :
        z = 64 * z1 + z2 /\ z \div 64 = z1 /\ z % 64 = z2
  <2>1. z = 64 * (z \div 64) + (z % 64) /\ z \div 64 \in 0 .. 3 /\ z % 64 \in 0 .. 63
    BY SMT DEF Byte
  <2>2. QED BY <2>1, Zenon
<1>4. x1 * 4 + ((x2 * 16 + y1) \div 16) = x
  BY <1>1, <1>2, SMT
<1>5. ((x2 * 16 + y1) % 16) * 16 + ((y2 * 4 + z1) \div 4) = y
  BY <1>1, <1>2, <1>3, SMT
<1>6. ((y2 * 4 + z1) % 4) * 64 + z2 = z
  BY <1>2, <1>3, SMT
<1>7. QED BY <1>1, <1>2, <1>3, <1>4, <1>5, <1>6, Zenon

(* What is left of a byte is shifted to the front of a last sextet, and     *)
(* groups are filled up.                                                    *)
LEMMA TerminatedParts ==
    ASSUME NEW o \in Streamer
    PROVE  /\ o.bits = 0 => Terminated(o).chars = o.chars
           /\ o.bits = 2 => Terminated(o).chars =
                 Append(o.chars, (o.buffer % 4) * 16) \o [i \in 1 .. 2 |-> Padding]
           /\ o.bits = 4 => Terminated(o).chars =
                 Append(o.chars, (o.buffer % 16) * 4) \o [i \in 1 .. 1 |-> Padding]
<1>1. o.buffer \in Nat /\ o.bits \in {0, 2, 4} /\ o.chars \in Seq(0 .. 63)
  BY DEF Streamer
<1>3. ASSUME NEW b \in Nat
      PROVE  /\ ((b * 2 ^ 4) % 2 ^ 16) % 64 = (b % 4) * 16
             /\ ((b * 2 ^ 2) % 2 ^ 16) % 64 = (b % 16) * 4
  BY SMT
<1>4. /\ ((o.buffer * 2 ^ 4) % 2 ^ 16) % 64 = (o.buffer % 4) * 16
      /\ ((o.buffer * 2 ^ 2) % 2 ^ 16) % 64 = (o.buffer % 16) * 4
  BY <1>1, <1>3, Zenon
<1>5. CASE o.bits = 0
  BY <1>5, SMT DEF Terminated
<1>6. CASE o.bits = 2
  <2>1. /\ 6 - o.bits = 4 /\ 4 \div 2 = 2 /\ o.bits # 0 /\ o.bits # 4
    BY <1>6, SMT
  <2>2. Terminated(o).chars =
          Append(o.chars, ((o.buffer * 2 ^ 4) % 2 ^ 16) % 64) \o [i \in 1 .. 2 |-> Padding]
    BY <2>1, Zenon DEF Terminated
  <2>3. QED BY <1>4, <2>1, <2>2, Zenon
<1>7. CASE o.bits = 4
  <2>1. /\ 6 - o.bits = 2 /\ 2 \div 2 = 1 /\ o.bits # 0 /\ o.bits # 2
    BY <1>7, SMT
  <2>2. Terminated(o).chars =
          Append(o.chars, ((o.buffer * 2 ^ 2) % 2 ^ 16) % 64) \o [i \in 1 .. 1 |-> Padding]
    BY <2>1, Zenon DEF Terminated
  <2>3. QED BY <1>4, <2>1, <2>2, Zenon
<1>8. QED BY <1>1, <1>5, <1>6, <1>7, Zenon

(* Sextet by sextet, as if zeros followed the bytes.                        *)
LEMMA TerminatedSextets ==
    ASSUME NEW o, NEW bytes \in Seq(Byte), Streams(o, bytes),
           NEW zeros \in Seq(Byte), Len(zeros) = Len(bytes) + 2,
           \A k \in 1 .. Len(bytes) : zeros[k] = bytes[k],
           zeros[Len(bytes) + 1] = 0, zeros[Len(bytes) + 2] = 0
    PROVE  LET t == Terminated(o).chars
               c == Len(o.chars)
           IN \E q \in Nat :
                /\ t \in Seq(0 .. 64)
                /\ o.bits = 0 => Len(t) = 4 * q /\ c = 4 * q /\ Len(bytes) = 3 * q
                /\ o.bits = 2 => /\ Len(t) = 4 * q + 4 /\ c = 4 * q + 1
                                 /\ Len(bytes) = 3 * q + 1
                                 /\ t[4 * q + 3] = Padding /\ t[4 * q + 4] = Padding
                /\ o.bits = 4 => /\ Len(t) = 4 * q + 4 /\ c = 4 * q + 2
                                 /\ Len(bytes) = 3 * q + 2
                                 /\ t[4 * q + 4] = Padding
                /\ \A j \in 1 .. c : t[j] = Sextet(zeros, j) /\ t[j] \in 0 .. 63
                /\ o.bits # 0 => t[c + 1] = Sextet(zeros, c + 1) /\ t[c + 1] \in 0 .. 63
<1> DEFINE n == Len(bytes)
           c == Len(o.chars)
           t == Terminated(o).chars
           last == bytes[n]
<1>1. /\ o \in Streamer /\ o.buffer \in Nat /\ o.bits \in {0, 2, 4}
      /\ o.chars \in Seq(0 .. 63) /\ c \in Nat /\ n \in Nat
      /\ 8 * n = 6 * c + o.bits
  BY DEF Streams, Streamer
<1> HIDE DEF n, c, t
<1>2. \A j \in 1 .. c : o.chars[j] = Sextet(zeros, j) /\ o.chars[j] \in 0 .. 63
  <2>1. ASSUME NEW j \in 1 .. c PROVE o.chars[j] = Sextet(zeros, j)
    <3>1. j \in Nat /\ j >= 1 /\ j <= c /\ o.bits >= 0
      BY <1>1
    <3>4. 6 * j <= 8 * n /\ n <= n + 2
      BY <1>1, <3>1, SMT
    <3>2. Sextet(zeros, j) = Sextet(bytes, j)
      BY <3>1, <3>4, SextetKept DEF n
    <3>3. QED BY <3>2 DEF Streams, c
  <2>2. QED BY <1>1, <2>1, ElementOfSeq DEF c
<1>3. \A k \in 1 .. n : zeros[k] = bytes[k] /\ bytes[k] \in Byte
  BY ElementOfSeq DEF n
<1>4. PICK q \in Nat : /\ o.bits = 0 => n = 3 * q /\ c = 4 * q
                       /\ o.bits = 2 => n = 3 * q + 1 /\ c = 4 * q + 1
                       /\ o.bits = 4 => n = 3 * q + 2 /\ c = 4 * q + 2
  BY <1>1, GroupsOf, Zenon
<1>5. /\ Sextet(zeros, 4 * q + 2) = (zeros[3 * q + 1] % 4) * 16 + zeros[3 * q + 2] \div 16
      /\ Sextet(zeros, 4 * q + 3) = (zeros[3 * q + 2] % 16) * 4 + zeros[3 * q + 3] \div 64
  BY SextetParts, SMTT(30)
<1> DEFINE Goal == \E p \in Nat :
                /\ t \in Seq(0 .. 64)
                /\ o.bits = 0 => Len(t) = 4 * p /\ c = 4 * p /\ n = 3 * p
                /\ o.bits = 2 => /\ Len(t) = 4 * p + 4 /\ c = 4 * p + 1
                                 /\ n = 3 * p + 1
                                 /\ t[4 * p + 3] = Padding /\ t[4 * p + 4] = Padding
                /\ o.bits = 4 => /\ Len(t) = 4 * p + 4 /\ c = 4 * p + 2
                                 /\ n = 3 * p + 2
                                 /\ t[4 * p + 4] = Padding
                /\ \A j \in 1 .. c : t[j] = Sextet(zeros, j) /\ t[j] \in 0 .. 63
                /\ o.bits # 0 => t[c + 1] = Sextet(zeros, c + 1) /\ t[c + 1] \in 0 .. 63
<1>6. o.chars \in Seq(0 .. 64)
  BY <1>1, SeqMonotonic, 0 .. 63 \subseteq 0 .. 64
<1>7. ASSUME o.bits = 0 PROVE Goal
  <2>1. t = o.chars
    BY <1>1, <1>7, TerminatedParts DEF t
  <2>2. Len(t) = c /\ o.bits # 2 /\ o.bits # 4
    BY <1>7, <2>1 DEF c
  <2>3. QED BY <1>2, <1>4, <1>6, <1>7, <2>1, <2>2, Zenon
<1>8. ASSUME o.bits = 2 PROVE Goal
  <2> DEFINE e == (last % 4) * 16
  <2>1. n # 0 /\ n \in 1 .. n /\ o.bits # 0 /\ o.bits # 4
    BY <1>1, <1>4, <1>8
  <2>2. o.buffer % 4 = last % 4
    BY <1>8, Zenon DEF Streams, n
  <2>3. t = Append(o.chars, e) \o [i \in 1 .. 2 |-> Padding]
    BY <1>1, <1>8, <2>2, TerminatedParts, Zenon DEF t
  <2>4. last \in Byte
    BY <1>3, <2>1, Zenon
  <2>5. e \in 0 .. 63
    <3> HIDE DEF last
    <3>1. QED BY <2>4, SMT DEF Byte
  <2>6. Sextet(zeros, c + 1) = e
    <3>1. zeros[3 * q + 1] = last /\ zeros[3 * q + 2] = 0 /\ c + 1 = 4 * q + 2
      BY <1>3, <1>4, <1>8, <2>1 DEF n
    <3>2. Sextet(zeros, c + 1) = (last % 4) * 16 + 0 \div 16
      BY <1>5, <3>1, Zenon
    <3> HIDE DEF last
    <3>3. QED BY <2>4, <3>2, SMT DEF Byte
  <2> HIDE DEF e
  <2> DEFINE s1 == Append(o.chars, e)
             s2 == [i \in 1 .. 2 |-> Padding]
  <2>7. /\ s1 \in Seq(0 .. 64) /\ Len(s1) = c + 1
        /\ s1[c + 1] = e
        /\ \A j \in 1 .. c : s1[j] = o.chars[j]
    BY <1>1, <1>6, <2>5, AppendProperties DEF c
  <2>8. s2 \in Seq(0 .. 64) /\ Len(s2) = 2 /\ s2[1] = Padding /\ s2[2] = Padding
    BY SMT DEF Padding
  <2> HIDE DEF s1, s2
  <2>9. /\ t \in Seq(0 .. 64) /\ Len(t) = Len(s1) + Len(s2)
        /\ \A i \in 1 .. Len(s1) + Len(s2) : t[i] =
              IF i <= Len(s1) THEN s1[i] ELSE s2[i - Len(s1)]
    <3>1. t = s1 \o s2
      BY <2>3, Zenon DEF s1, s2
    <3>2. QED BY <2>7, <2>8, <3>1, ConcatProperties, ZenonT(30)
  <2>10. /\ t \in Seq(0 .. 64) /\ Len(t) = c + 3
         /\ \A i \in 1 .. c + 3 : t[i] = IF i <= c + 1 THEN s1[i] ELSE s2[i - (c + 1)]
    <3>1. c + 1 + 2 = c + 3
      BY <1>1
    <3>2. QED BY <2>7, <2>8, <2>9, <3>1, Zenon
  <2>11. /\ t[c + 1] = e /\ t[c + 2] = Padding /\ t[c + 3] = Padding
         /\ \A j \in 1 .. c : t[j] = o.chars[j]
    <3>1. t[c + 1] = s1[c + 1] /\ t[c + 2] = s2[1] /\ t[c + 3] = s2[2]
          /\ \A j \in 1 .. c : t[j] = s1[j]
      BY <1>1, <2>10
    <3>2. QED BY <2>7, <2>8, <3>1, Zenon
  <2>12. /\ c = 4 * q + 1 /\ n = 3 * q + 1 /\ c + 3 = 4 * q + 4 /\ c + 2 = 4 * q + 3
    BY <1>4, <1>8
  <2>13. QED BY <1>2, <1>8, <2>1, <2>5, <2>6, <2>10, <2>11, <2>12, Zenon
<1>9. ASSUME o.bits = 4 PROVE Goal
  <2> DEFINE e == (last % 16) * 4
  <2>1. n # 0 /\ n \in 1 .. n /\ o.bits # 0 /\ o.bits # 2
    BY <1>1, <1>4, <1>9
  <2>2. o.buffer % 16 = last % 16
    BY <1>9, Zenon DEF Streams, n
  <2>3. t = Append(o.chars, e) \o [i \in 1 .. 1 |-> Padding]
    BY <1>1, <1>9, <2>2, TerminatedParts, Zenon DEF t
  <2>4. last \in Byte
    BY <1>3, <2>1, Zenon
  <2>5. e \in 0 .. 63
    <3> HIDE DEF last
    <3>1. QED BY <2>4, SMT DEF Byte
  <2>6. Sextet(zeros, c + 1) = e
    <3>1. zeros[3 * q + 2] = last /\ zeros[3 * q + 3] = 0 /\ c + 1 = 4 * q + 3
      BY <1>3, <1>4, <1>9, <2>1 DEF n
    <3>2. Sextet(zeros, c + 1) = (last % 16) * 4 + 0 \div 64
      BY <1>5, <3>1, Zenon
    <3> HIDE DEF last
    <3>3. QED BY <2>4, <3>2, SMT DEF Byte
  <2> HIDE DEF e
  <2> DEFINE s1 == Append(o.chars, e)
             s2 == [i \in 1 .. 1 |-> Padding]
  <2>7. /\ s1 \in Seq(0 .. 64) /\ Len(s1) = c + 1
        /\ s1[c + 1] = e
        /\ \A j \in 1 .. c : s1[j] = o.chars[j]
    BY <1>1, <1>6, <2>5, AppendProperties DEF c
  <2>8. s2 \in Seq(0 .. 64) /\ Len(s2) = 1 /\ s2[1] = Padding
    BY SMT DEF Padding
  <2> HIDE DEF s1, s2
  <2>9. /\ t \in Seq(0 .. 64) /\ Len(t) = Len(s1) + Len(s2)
        /\ \A i \in 1 .. Len(s1) + Len(s2) : t[i] =
              IF i <= Len(s1) THEN s1[i] ELSE s2[i - Len(s1)]
    <3>1. t = s1 \o s2
      BY <2>3, Zenon DEF s1, s2
    <3>2. QED BY <2>7, <2>8, <3>1, ConcatProperties, ZenonT(30)
  <2>10. /\ t \in Seq(0 .. 64) /\ Len(t) = c + 2
         /\ \A i \in 1 .. c + 2 : t[i] = IF i <= c + 1 THEN s1[i] ELSE s2[i - (c + 1)]
    <3>1. c + 1 + 1 = c + 2
      BY <1>1
    <3>2. QED BY <2>7, <2>8, <2>9, <3>1, Zenon
  <2>11. /\ t[c + 1] = e /\ t[c + 2] = Padding
         /\ \A j \in 1 .. c : t[j] = o.chars[j]
    <3>1. t[c + 1] = s1[c + 1] /\ t[c + 2] = s2[1]
          /\ \A j \in 1 .. c : t[j] = s1[j]
      BY <1>1, <2>10
    <3>2. QED BY <2>7, <2>8, <3>1, Zenon
  <2>12. c = 4 * q + 2 /\ n = 3 * q + 2 /\ c + 2 = 4 * q + 4
    BY <1>4, <1>9
  <2>13. QED BY <1>2, <1>9, <2>1, <2>5, <2>6, <2>10, <2>11, <2>12, Zenon
<1> HIDE DEF Goal
<1>10. Goal
  BY <1>1, <1>7, <1>8, <1>9
<1>11. QED BY <1>10, Zenon DEF Goal, t, c, n

(* The byte that the characters of its group stand for.                     *)
ByteAt(chars, k) ==
    LET At(i, j) == chars[4 * ((i - 1) \div 3) + j]
    IN CASE k % 3 = 1 -> At(k, 1) * 4 + At(k, 2) \div 16
         [] k % 3 = 2 -> (At(k, 2) % 16) * 16 + At(k, 3) \div 4
         [] k % 3 = 0 -> (At(k, 3) % 4) * 64 + At(k, 4)

LEMMA ByteAtParts ==
    ASSUME NEW t, NEW p, NEW k, (k - 1) \div 3 = p
    PROVE  /\ k % 3 = 1 => ByteAt(t, k) = t[4 * p + 1] * 4 + (t[4 * p + 2] \div 16)
           /\ k % 3 = 2 => ByteAt(t, k) = (t[4 * p + 2] % 16) * 16 + (t[4 * p + 3] \div 4)
           /\ k % 3 = 0 => ByteAt(t, k) = (t[4 * p + 3] % 4) * 64 + t[4 * p + 4]
<1>1. 0 # 1 /\ 0 # 2 /\ 1 # 2
  BY SMT
<1>2. CASE k % 3 = 1
  BY <1>1, <1>2, Zenon DEF ByteAt
<1>3. CASE k % 3 = 2
  BY <1>1, <1>3, Zenon DEF ByteAt
<1>4. CASE k % 3 = 0
  BY <1>1, <1>4, Zenon DEF ByteAt
<1>5. QED BY <1>2, <1>3, <1>4, Zenon

(* It is the byte that was cut into them.                                   *)
LEMMA ByteBack ==
    ASSUME NEW t, NEW zeros \in Seq(Byte), NEW p \in Nat, NEW r \in 1 .. 3,
           3 * p + r + 2 <= Len(zeros),
           t[4 * p + r] = Sextet(zeros, 4 * p + r),
           t[4 * p + (r + 1)] = Sextet(zeros, 4 * p + (r + 1))
    PROVE  ByteAt(t, 3 * p + r) = zeros[3 * p + r]
<1> DEFINE x == zeros[3 * p + 1]
           y == zeros[3 * p + 2]
           z == zeros[3 * p + 3]
<1>1. x \in Byte /\ y \in Byte /\ z \in Byte
  <2>1. /\ 3 * p + 1 \in 1 .. Len(zeros) /\ 3 * p + 2 \in 1 .. Len(zeros)
        /\ 3 * p + 3 \in 1 .. Len(zeros)
    BY SMT
  <2>2. QED BY <2>1, ElementOfSeq, Zenon
<1>2. /\ Sextet(zeros, 4 * p + 1) = x \div 4
      /\ Sextet(zeros, 4 * p + 2) = (x % 4) * 16 + (y \div 16)
      /\ Sextet(zeros, 4 * p + 3) = (y % 16) * 4 + (z \div 64)
      /\ Sextet(zeros, 4 * p + 4) = z % 64
  BY SextetParts
<1> HIDE DEF x, y, z
<1>7. ASSUME NEW x1 \in Byte, NEW y1 \in Byte, NEW z1 \in Byte
      PROVE  /\ (x1 \div 4) * 4 + (((x1 % 4) * 16 + (y1 \div 16)) \div 16) = x1
             /\ (((x1 % 4) * 16 + (y1 \div 16)) % 16) * 16
                  + (((y1 % 16) * 4 + (z1 \div 64)) \div 4) = y1
             /\ (((y1 % 16) * 4 + (z1 \div 64)) % 4) * 64 + (z1 % 64) = z1
  BY BytesOfSextets
<1>3. /\ (x \div 4) * 4 + (((x % 4) * 16 + (y \div 16)) \div 16) = x
      /\ (((x % 4) * 16 + (y \div 16)) % 16) * 16
           + (((y % 16) * 4 + (z \div 64)) \div 4) = y
      /\ (((y % 16) * 4 + (z \div 64)) % 4) * 64 + (z % 64) = z
  BY <1>1, <1>7, ZenonT(60)
<1>4. CASE r = 1
  <2>1. /\ (3 * p + 1) % 3 = 1 /\ (3 * p + 1 - 1) \div 3 = p
        /\ 1 # 2 /\ 1 # 0 /\ 1 + 1 = 2
    BY SMT
  <2>2. t[4 * p + 1] = x \div 4 /\ t[4 * p + 2] = (x % 4) * 16 + (y \div 16)
    BY <1>2, <1>4, <2>1, Zenon
  <2>3. ByteAt(t, 3 * p + 1) = t[4 * p + 1] * 4 + (t[4 * p + 2] \div 16)
    <3> DEFINE k == 3 * p + 1
    <3>1. k % 3 = 1 /\ (k - 1) \div 3 = p
      BY SMT
    <3> HIDE DEF k
    <3>2. ByteAt(t, k) = t[4 * p + 1] * 4 + (t[4 * p + 2] \div 16)
      BY <3>1, ByteAtParts, ZenonT(60)
    <3>3. QED BY <3>2, Zenon DEF k
  <2>4. QED BY <1>3, <1>4, <2>2, <2>3, Zenon DEF x
<1>5. CASE r = 2
  <2>1. /\ (3 * p + 2) % 3 = 2 /\ (3 * p + 2 - 1) \div 3 = p
        /\ 2 # 1 /\ 2 # 0 /\ 2 + 1 = 3
    BY SMT
  <2>2. /\ t[4 * p + 2] = (x % 4) * 16 + (y \div 16)
        /\ t[4 * p + 3] = (y % 16) * 4 + (z \div 64)
    BY <1>2, <1>5, <2>1, Zenon
  <2>3. ByteAt(t, 3 * p + 2) = (t[4 * p + 2] % 16) * 16 + (t[4 * p + 3] \div 4)
    <3> DEFINE k == 3 * p + 2
    <3>1. k % 3 = 2 /\ (k - 1) \div 3 = p
      BY SMT
    <3> HIDE DEF k
    <3>2. ByteAt(t, k) = (t[4 * p + 2] % 16) * 16 + (t[4 * p + 3] \div 4)
      BY <3>1, ByteAtParts, Zenon
    <3>3. QED BY <3>2, Zenon DEF k
  <2>4. QED BY <1>3, <1>5, <2>2, <2>3, Zenon DEF y
<1>6. CASE r = 3
  <2>1. /\ (3 * p + 3) % 3 = 0 /\ (3 * p + 3 - 1) \div 3 = p
        /\ 0 # 1 /\ 0 # 2 /\ 3 + 1 = 4
    BY SMT
  <2>2. /\ t[4 * p + 3] = (y % 16) * 4 + (z \div 64)
        /\ t[4 * p + 4] = z % 64
    BY <1>2, <1>6, <2>1, Zenon
  <2>3. ByteAt(t, 3 * p + 3) = (t[4 * p + 3] % 4) * 64 + t[4 * p + 4]
    <3> DEFINE k == 3 * p + 3
    <3>1. k % 3 = 0 /\ (k - 1) \div 3 = p
      BY SMT
    <3> HIDE DEF k
    <3>2. ByteAt(t, k) = (t[4 * p + 3] % 4) * 64 + t[4 * p + 4]
      BY <3>1, ByteAtParts, ZenonT(60)
    <3>3. QED BY <3>2, Zenon DEF k
  <2>4. QED BY <1>3, <1>6, <2>2, <2>3, Zenon DEF z
<1>8. QED BY <1>4, <1>5, <1>6

(* A text made of whole groups, read back.                                  *)
LEMMA GroupsBack ==
    ASSUME NEW t, NEW bytes \in Seq(Byte), NEW zeros \in Seq(Byte),
           Len(zeros) = Len(bytes) + 2,
           \A k \in 1 .. Len(bytes) : zeros[k] = bytes[k],
           NEW s \in Nat, 6 * s >= 8 * Len(bytes),
           \A j \in 1 .. s : t[j] = Sextet(zeros, j),
           NEW m \in Nat, NEW padding \in 0 .. 2,
           Len(t) = 4 * m, Len(bytes) = 3 * m - padding,
           padding = (IF Len(t) < 2 \/ t[Len(t)] # Padding THEN 0
                      ELSE IF t[Len(t) - 1] # Padding THEN 1 ELSE 2)
    PROVE  Unbase64(t) = bytes
<1> DEFINE n == Len(bytes)
<1>1. n \in Nat
  OBVIOUS
<1>2. Unbase64(t) = [k \in 1 .. 3 * (Len(t) \div 4) - padding |-> ByteAt(t, k)]
  BY Zenon DEF Unbase64, ByteAt
<1>3. 3 * (Len(t) \div 4) - padding = n
  <2>1. (4 * m) \div 4 = m
    BY SMT
  <2>2. QED BY <2>1
<1>4. Unbase64(t) = [k \in 1 .. n |-> ByteAt(t, k)]
  BY <1>2, <1>3, Zenon
<1>5. ASSUME NEW k \in 1 .. n PROVE ByteAt(t, k) = bytes[k]
  <2> HIDE DEF n
  <2>1. PICK p \in Nat, r \in 1 .. 3 : k = 3 * p + r
    <3>1. k - 1 = 3 * ((k - 1) \div 3) + ((k - 1) % 3)
          /\ (k - 1) \div 3 \in Nat /\ (k - 1) % 3 \in 0 .. 2
      BY <1>1, SMT
    <3>2. k = 3 * ((k - 1) \div 3) + (((k - 1) % 3) + 1) /\ ((k - 1) % 3) + 1 \in 1 .. 3
      BY <1>1, <3>1, SMT
    <3>3. QED BY <3>1, <3>2, Zenon
  <2>2. /\ 4 * p + r \in 1 .. s /\ 4 * p + (r + 1) \in 1 .. s
        /\ 3 * p + r + 2 <= n + 2
    BY <1>1, <2>1, SMT DEF n
  <2>3. ByteAt(t, 3 * p + r) = zeros[3 * p + r]
    <3>1. t[4 * p + r] = Sextet(zeros, 4 * p + r)
          /\ t[4 * p + (r + 1)] = Sextet(zeros, 4 * p + (r + 1))
          /\ 3 * p + r + 2 <= Len(zeros)
      BY <2>2, Zenon DEF n
    <3>2. p \in Nat /\ r \in 1 .. 3 /\ zeros \in Seq(Byte)
      OBVIOUS
    <3>3. QED BY <3>1, <3>2, ByteBack, ZenonT(60)
  <2>4. QED BY <2>1, <2>3 DEF n
<1>6. bytes = [k \in 1 .. n |-> bytes[k]]
  BY SeqDef
<1>7. QED BY <1>4, <1>5, <1>6, Zenon

(* A text that is terminated, at whatever byte, gives all of them back.     *)
LEMMA TerminatedHolds ==
    ASSUME NEW o, NEW bytes \in Seq(Byte), Streams(o, bytes)
    PROVE  /\ Len(Terminated(o).chars) % 4 = 0
           /\ Unbase64(Terminated(o).chars) = bytes
<1> DEFINE n == Len(bytes)
           c == Len(o.chars)
           t == Terminated(o).chars
           zeros == bytes \o <<0, 0>>
<1>1. n \in Nat /\ c \in Nat /\ o.bits \in {0, 2, 4} /\ 8 * n = 6 * c + o.bits
  BY DEF Streams, Streamer
<1>2. /\ zeros \in Seq(Byte) /\ Len(zeros) = n + 2
      /\ \A k \in 1 .. n : zeros[k] = bytes[k]
      /\ zeros[n + 1] = 0 /\ zeros[n + 2] = 0
  <2>1. <<0, 0>> \in Seq(Byte) /\ Len(<<0, 0>>) = 2
    BY DEF Byte
  <2>2. /\ zeros \in Seq(Byte) /\ Len(zeros) = n + Len(<<0, 0>>)
        /\ \A i \in 1 .. n + Len(<<0, 0>>) : zeros[i] =
              IF i <= n THEN bytes[i] ELSE <<0, 0>>[i - n]
    BY <2>1, ConcatProperties
  <2> HIDE DEF n, zeros
  <2>3. QED BY <1>1, <2>1, <2>2
<1> HIDE DEF zeros
<1>3. PICK q \in Nat :
        /\ t \in Seq(0 .. 64)
        /\ o.bits = 0 => Len(t) = 4 * q /\ c = 4 * q /\ n = 3 * q
        /\ o.bits = 2 => /\ Len(t) = 4 * q + 4 /\ c = 4 * q + 1
                         /\ n = 3 * q + 1
                         /\ t[4 * q + 3] = Padding /\ t[4 * q + 4] = Padding
        /\ o.bits = 4 => /\ Len(t) = 4 * q + 4 /\ c = 4 * q + 2
                         /\ n = 3 * q + 2
                         /\ t[4 * q + 4] = Padding
        /\ \A j \in 1 .. c : t[j] = Sextet(zeros, j) /\ t[j] \in 0 .. 63
        /\ o.bits # 0 => t[c + 1] = Sextet(zeros, c + 1) /\ t[c + 1] \in 0 .. 63
  BY <1>2, TerminatedSextets
<1> DEFINE padded == IF Len(t) < 2 \/ t[Len(t)] # Padding THEN 0
                     ELSE IF t[Len(t) - 1] # Padding THEN 1 ELSE 2
           s == IF o.bits = 0 THEN c ELSE c + 1
<1> HIDE DEF n, c, t
<1>4. s \in Nat /\ \A j \in 1 .. s : t[j] = Sextet(zeros, j)
  BY <1>1, <1>3
<1>9. \A x \in 0 .. 63 : x # Padding
  BY DEF Padding
<1>5. PICK m \in Nat : /\ Len(t) = 4 * m /\ padded \in 0 .. 2 /\ n = 3 * m - padded
                       /\ 6 * s >= 8 * n
  <2>1. CASE o.bits = 0
    <3>1. padded = 0
      <4>1. CASE q = 0
        BY <1>3, <2>1, <4>1
      <4>2. CASE q # 0
        <5>1. Len(t) \in 1 .. c
          BY <1>1, <1>3, <2>1, <4>2
        <5>2. t[Len(t)] \in 0 .. 63
          BY <1>3, <5>1, Zenon
        <5>3. t[Len(t)] # Padding
          BY <1>9, <5>2, Zenon
        <5>4. QED BY <5>3
      <4>3. QED BY <4>1, <4>2
    <3> HIDE DEF padded
    <3>2. Len(t) = 4 * q /\ padded \in 0 .. 2 /\ n = 3 * q - padded /\ 6 * s >= 8 * n
      BY <1>1, <1>3, <2>1, <3>1
    <3>3. QED BY <3>2, Zenon
  <2>2. CASE o.bits = 2
    <3>1. padded = 2
      <4>1. Len(t) = 4 * q + 4 /\ 4 * q + 4 - 1 = 4 * q + 3 /\ ~ (4 * q + 4 < 2)
        BY <1>3, <2>2
      <4>4. t[4 * q + 3] = Padding /\ t[4 * q + 4] = Padding
        BY <1>3, <2>2, Zenon
      <4>2. t[Len(t)] = Padding /\ t[Len(t) - 1] = Padding /\ ~ (Len(t) < 2)
        BY <4>1, <4>4
      <4>3. QED BY <4>2, Zenon
    <3> HIDE DEF padded
    <3>2. Len(t) = 4 * (q + 1) /\ padded \in 0 .. 2 /\ n = 3 * (q + 1) - padded
          /\ 6 * s >= 8 * n /\ q + 1 \in Nat
      BY <1>1, <1>3, <2>2, <3>1
    <3>3. QED BY <3>2, Zenon
  <2>3. CASE o.bits = 4
    <3>1. padded = 1
      <4>1. Len(t) = 4 * q + 4 /\ 4 * q + 4 - 1 = c + 1 /\ ~ (4 * q + 4 < 2) /\ o.bits # 0
        BY <1>3, <2>3
      <4>5. t[4 * q + 4] = Padding /\ t[c + 1] \in 0 .. 63
        BY <1>3, <2>3, <4>1, Zenon
      <4>2. t[Len(t)] = Padding /\ t[Len(t) - 1] \in 0 .. 63 /\ ~ (Len(t) < 2)
        <5>1. Len(t) - 1 = c + 1
          BY <4>1
        <5>2. QED BY <4>1, <4>5, <5>1, Zenon
      <4>3. t[Len(t) - 1] # Padding
        BY <1>9, <4>2, Zenon
      <4>4. QED BY <4>2, <4>3, Zenon
    <3> HIDE DEF padded
    <3>2. Len(t) = 4 * (q + 1) /\ padded \in 0 .. 2 /\ n = 3 * (q + 1) - padded
          /\ 6 * s >= 8 * n /\ q + 1 \in Nat
      BY <1>1, <1>3, <2>3, <3>1
    <3>3. QED BY <3>2, Zenon
  <2>4. QED BY <1>1, <2>1, <2>2, <2>3
<1>6. Len(t) % 4 = 0
  <2>1. (4 * m) % 4 = 0
    BY SMT
  <2>2. QED BY <1>5, <2>1, Zenon
<1> HIDE DEF s
<1>7. Unbase64(t) = bytes
  <2> DEFINE p == padded
  <2>1. /\ p \in 0 .. 2
        /\ p = (IF Len(t) < 2 \/ t[Len(t)] # Padding THEN 0
                ELSE IF t[Len(t) - 1] # Padding THEN 1 ELSE 2)
        /\ n = 3 * m - p
    BY <1>5, Zenon
  <2> HIDE DEF p
  <2>2. QED BY <1>2, <1>4, <1>5, <2>1, GroupsBack, Zenon DEF n
<1>8. QED BY <1>6, <1>7, Zenon DEF t

-----------------------------------------------------------------------------
(* Items: what is sent for a number is short, and reads back.               *)

Number == [1 .. 8 -> Byte]

(* What Count is given: lengths, indices, tags.                             *)
Countable(n) == n \in Nat /\ n < 2147483647

LEMMA CountParts ==
    ASSUME NEW n, Countable(n)
    PROVE  /\ Count(n) \in Number
           /\ Value(Count(n)) = n
           /\ \A j \in 1 .. 4 : Count(n)[j] = 0
           /\ n < 256 => Count(n)[8] = n /\ \A j \in 1 .. 7 : Count(n)[j] = 0
           /\ n < 2 ^ 16 => \A j \in 1 .. 6 : Count(n)[j] = 0
<1> DEFINE a == n \div 2 ^ 24
           b == (n \div 2 ^ 16) % 256
           c == (n \div 256) % 256
           d == n % 256
<1>1. /\ a \in Byte /\ b \in Byte /\ c \in Byte /\ d \in Byte
      /\ ((a * 256 + b) * 256 + c) * 256 + d = n
      /\ n < 256 => a = 0 /\ b = 0 /\ c = 0 /\ d = n
      /\ n < 2 ^ 16 => a = 0 /\ b = 0
  <2>1. PICK m \in Nat, d1 \in Byte : n = 256 * m + d1
    <3>1. n = 256 * (n \div 256) + (n % 256) /\ n \div 256 \in Nat /\ n % 256 \in Byte
      BY SMT DEF Countable, Byte
    <3>2. QED BY <3>1, SMT
  <2>2. PICK k \in Nat, c1 \in Byte : m = 256 * k + c1
    <3>1. m = 256 * (m \div 256) + (m % 256) /\ m \div 256 \in Nat /\ m % 256 \in Byte
      BY SMT DEF Byte
    <3>2. QED BY <3>1, SMT
  <2>3. PICK a1 \in Nat, b1 \in Byte : k = 256 * a1 + b1
    <3>1. k = 256 * (k \div 256) + (k % 256) /\ k \div 256 \in Nat /\ k % 256 \in Byte
      BY SMT DEF Byte
    <3>2. QED BY <3>1, SMT
  <2>4. a1 \in Byte
    BY <2>1, <2>2, <2>3, SMT DEF Countable, Byte
  <2>5. /\ n % 256 = d1 /\ n \div 256 = m
        /\ m % 256 = c1 /\ k % 256 = b1
    BY <2>1, <2>2, <2>3, SMT DEF Byte
  <2>6. n \div 2 ^ 16 = k
    <3>1. n = 65536 * k + (256 * c1 + d1)
      BY <2>1, <2>2, SMT DEF Byte
    <3>2. QED BY <3>1, SMT DEF Byte
  <2>7. n \div 2 ^ 24 = a1
    <3>1. n = 16777216 * a1 + (65536 * b1 + 256 * c1 + d1)
      BY <2>1, <2>2, <2>3, SMT DEF Byte
    <3>2. QED BY <3>1, SMT DEF Byte
  <2>8. a = a1 /\ b = b1 /\ c = c1 /\ d = d1
    BY <2>5, <2>6, <2>7, Zenon
  <2> HIDE DEF a, b, c, d
  <2>9. QED BY <2>1, <2>2, <2>3, <2>4, <2>8, SMT DEF Byte
<1>2. Count(n) = <<0, 0, 0, 0, a, b, c, d>>
  BY Zenon DEF Count
<1> HIDE DEF a, b, c, d
<1>3. /\ Count(n) \in Number
      /\ Value(Count(n)) = ((a * 256 + b) * 256 + c) * 256 + d
      /\ Count(n)[5] = a /\ Count(n)[6] = b /\ Count(n)[7] = c /\ Count(n)[8] = d
      /\ \A j \in 1 .. 4 : Count(n)[j] = 0
  BY <1>1, <1>2, SMT DEF Number, Value, Byte
<1>4. QED BY <1>1, <1>3, SMT

LEMMA LeadingParts ==
    ASSUME NEW number \in Number
    PROVE  /\ Leading(number) \in 1 .. 8
           /\ Leading(number) = 8 \/ number[Leading(number)] # 0
           /\ \A j \in 1 .. Leading(number) - 1 : number[j] = 0
<1> DEFINE P(i) == /\ i = 8 \/ number[i] # 0
                   /\ \A j \in 1 .. i - 1 : number[j] = 0
           S == {i \in 1 .. 8 : i = 8 \/ number[i] # 0}
<1>1. S \in SUBSET Nat /\ 8 \in S
  BY SMT
<1>2. PICK x \in S : \A y \in S : x <= y
  BY <1>1, Smallest, Zenon
<1>3. x \in 1 .. 8 /\ P(x)
  BY <1>2, SMT DEF Number
<1> HIDE DEF P
<1>4. Leading(number) = CHOOSE i \in 1 .. 8 : P(i)
  BY Zenon DEF Leading, P
<1>5. Leading(number) \in 1 .. 8 /\ P(Leading(number))
  BY <1>3, <1>4, Zenon
<1>6. QED BY <1>5, Zenon DEF P

(* An item is an initial byte and the last bytes of its number, as many as  *)
(* matter.                                                                   *)
ItemOf(item, type, number, size, info) ==
    /\ item = <<type * 32 + info>> \o SubSeq(number, 9 - size, 8)
    /\ info \in 0 .. 27
    /\ size = 0 => info < 24 /\ number[8] = info /\ \A j \in 1 .. 7 : number[j] = 0
    /\ size # 0 => /\ info >= 24 /\ 2 ^ (info - 24) = size
                   /\ \A j \in 1 .. 8 - size : number[j] = 0
    /\ size = 1 => number[8] >= 24
    /\ size = 2 => number[7] # 0
    /\ size = 4 => \E j \in 5 .. 6 : number[j] # 0
    /\ size = 8 => \E j \in 1 .. 4 : number[j] # 0

LEMMA ItemParts ==
    ASSUME NEW type \in 0 .. 7, NEW number \in Number
    PROVE  \E size \in {0, 1, 2, 4, 8}, info \in Nat :
              ItemOf(SendItem(type, number), type, number, size, info)
<1> DEFINE first == Leading(number)
           item == SendItem(type, number)
           Sized(info, from) ==
               <<InitialByte(type, info)>> \o SubSeq(number, from, 8)
<1>1. /\ first \in 1 .. 8 /\ (first = 8 \/ number[first] # 0)
      /\ \A j \in 1 .. first - 1 : number[j] = 0
      /\ \A j \in 1 .. 8 : number[j] \in 0 .. 255
  BY LeadingParts, SMT DEF Number, Byte
<1>2. \A info \in 0 .. 31 : InitialByte(type, info) = type * 32 + info
  BY SMT DEF InitialByte
<1>3. item = (CASE first = 8 /\ number[8] < 24  -> <<InitialByte(type, number[8])>>
                [] first = 8 /\ number[8] >= 24 -> Sized(24, 8)
                [] first = 7                    -> Sized(25, 7)
                [] first \in {5, 6}             -> Sized(26, 5)
                [] first \in 1 .. 4             -> Sized(27, 1))
  BY Zenon DEF SendItem
<1> HIDE DEF first, item
<1>4. CASE first = 8 /\ number[8] < 24
  <2>1. item = <<InitialByte(type, number[8])>>
    <3>1. ~ (number[8] >= 24) /\ first # 7 /\ first \notin {5, 6} /\ first \notin 1 .. 4
      BY <1>1, <1>4, SMT
    <3>2. QED BY <1>3, <1>4, <3>1, Zenon
  <2>2. SubSeq(number, 9 - 0, 8) = <<>>
    BY SubSeqEmpty
  <2>3. number[8] \in 0 .. 31 /\ number[8] \in Nat /\ number[8] \in 0 .. 27
    BY <1>1, <1>4, SMT
  <2>4. item = <<type * 32 + number[8]>>
    BY <1>2, <2>1, <2>3, Zenon
  <2>5. <<type * 32 + number[8]>> \in Seq(Int)
    BY <2>3
  <2>6. item = <<type * 32 + number[8]>> \o SubSeq(number, 9 - 0, 8)
    BY <2>2, <2>4, <2>5, ConcatEmptySeq, Zenon
  <2>7. ItemOf(item, type, number, 0, number[8])
    <3>1. /\ number[8] < 24 /\ \A j \in 1 .. 7 : number[j] = 0
          /\ 0 # 1 /\ 0 # 2 /\ 0 # 4 /\ 0 # 8
      BY <1>1, <1>4, SMT
    <3>2. QED BY <2>3, <2>6, <3>1, Zenon DEF ItemOf
  <2>8. QED BY <2>3, <2>7, Zenon DEF item
<1>5. ASSUME NEW size \in {1, 2, 4, 8}, NEW info \in 24 .. 27,
             item = Sized(info, 9 - size), 2 ^ (info - 24) = size,
             \A j \in 1 .. 8 - size : number[j] = 0,
             size = 1 => number[8] >= 24, size = 2 => number[7] # 0,
             size = 4 => \E j \in 5 .. 6 : number[j] # 0,
             size = 8 => \E j \in 1 .. 4 : number[j] # 0
      PROVE  \E s \in {0, 1, 2, 4, 8}, i \in Nat : ItemOf(item, type, number, s, i)
  <2>1. info \in 0 .. 31 /\ info \in 0 .. 27 /\ info \in Nat /\ info >= 24
        /\ size # 0 /\ size \in {0, 1, 2, 4, 8}
    BY SMT
  <2>2. item = <<type * 32 + info>> \o SubSeq(number, 9 - size, 8)
    BY <1>2, <1>5, <2>1, Zenon
  <2>3. ItemOf(item, type, number, size, info)
    BY <1>5, <2>1, <2>2, Zenon DEF ItemOf
  <2>4. QED BY <2>1, <2>3, Zenon
<1>6. CASE first = 8 /\ number[8] >= 24
  <2>1. item = Sized(24, 8)
    <3>1. ~ (number[8] < 24) /\ first # 7 /\ first \notin {5, 6} /\ first \notin 1 .. 4
      BY <1>1, <1>6, SMT
    <3>2. QED BY <1>3, <1>6, <3>1, Zenon
  <2>2. /\ 9 - 1 = 8 /\ 24 \in 24 .. 27 /\ 2 ^ (24 - 24) = 1
        /\ \A j \in 1 .. 8 - 1 : number[j] = 0
        /\ 1 # 2 /\ 1 # 4 /\ 1 # 8 /\ 1 \in {1, 2, 4, 8} /\ number[8] >= 24
    BY <1>1, <1>6, SMT
  <2>3. item = Sized(24, 9 - 1)
    BY <2>1, <2>2, Zenon
  <2>4. QED BY <1>5, <2>2, <2>3, Zenon DEF item
<1>7. CASE first = 7
  <2>1. item = Sized(25, 7)
    <3>1. first # 8 /\ first \notin {5, 6} /\ first \notin 1 .. 4
      BY <1>7, SMT
    <3>2. QED BY <1>3, <1>7, <3>1, Zenon
  <2>2. /\ 9 - 2 = 7 /\ 25 \in 24 .. 27 /\ 2 ^ (25 - 24) = 2
        /\ number[7] # 0
        /\ \A j \in 1 .. 8 - 2 : number[j] = 0
        /\ 2 # 1 /\ 2 # 4 /\ 2 # 8
    BY <1>1, <1>7, SMT
  <2>3. item = Sized(25, 9 - 2) /\ 2 \in {1, 2, 4, 8}
    BY <2>1, <2>2, Zenon
  <2>4. QED BY <1>5, <2>2, <2>3, Zenon DEF item
<1>8. CASE first \in {5, 6}
  <2>1. item = Sized(26, 5)
    <3>1. first # 8 /\ first # 7 /\ first \notin 1 .. 4
      BY <1>8, SMT
    <3>2. QED BY <1>3, <1>8, <3>1, Zenon
  <2>2. /\ 9 - 4 = 5 /\ 26 \in 24 .. 27 /\ 2 ^ (26 - 24) = 4
        /\ \A j \in 1 .. 8 - 4 : number[j] = 0
        /\ \E j \in 5 .. 6 : number[j] # 0
        /\ 4 # 1 /\ 4 # 2 /\ 4 # 8
    BY <1>1, <1>8, SMT
  <2>3. item = Sized(26, 9 - 4) /\ 4 \in {1, 2, 4, 8}
    BY <2>1, <2>2, Zenon
  <2>4. QED BY <1>5, <2>2, <2>3, Zenon DEF item
<1>9. CASE first \in 1 .. 4
  <2>1. item = Sized(27, 1)
    <3>1. first # 8 /\ first # 7 /\ first \notin {5, 6}
      BY <1>9, SMT
    <3>2. QED BY <1>3, <1>9, <3>1, Zenon
  <2>2. /\ 9 - 8 = 1 /\ 27 \in 24 .. 27 /\ 2 ^ (27 - 24) = 8
        /\ \A j \in 1 .. 8 - 8 : number[j] = 0
        /\ \E j \in 1 .. 4 : number[j] # 0
        /\ 8 # 1 /\ 8 # 2 /\ 8 # 4
    BY <1>1, <1>9, SMT
  <2>3. item = Sized(27, 9 - 8) /\ 8 \in {1, 2, 4, 8}
    BY <2>1, <2>2, Zenon
  <2>4. QED BY <1>5, <2>2, <2>3, Zenon DEF item
<1>10. QED
  <2>1. number[8] \in Int
    BY <1>1, SMT
  <2>3. \/ first = 8 /\ number[8] < 24
        \/ first = 8 /\ number[8] >= 24
        \/ first = 7
        \/ first \in {5, 6}
        \/ first \in 1 .. 4
    BY <1>1, <2>1, SMT
  <2>2. QED BY <1>4, <1>6, <1>7, <1>8, <1>9, <2>3, Zenon

(* What follows a prefix.                                                   *)
LEMMA NewOf ==
    ASSUME NEW S, NEW a \in Seq(S), NEW b \in Seq(S)
    PROVE  /\ a \o b \in Seq(S) /\ Len(a \o b) = Len(a) + Len(b)
           /\ SubSeq(a \o b, Len(a) + 1, Len(a \o b)) = b
           /\ SubSeq(a \o b, 1, Len(a)) = a
           /\ New(a \o b, a) = b
<1> DEFINE n == Len(a)
           m == Len(b)
           w == a \o b
           suffix == SubSeq(w, n + 1, n + m)
           prefix == SubSeq(w, 1, n)
<1>1. /\ n \in Nat /\ m \in Nat /\ w \in Seq(S) /\ Len(w) = n + m
      /\ \A i \in 1 .. n + m : w[i] = IF i <= n THEN a[i] ELSE b[i - n]
  BY ConcatProperties
<1>2. \A i \in 1 .. n + m : w[i] \in S
  BY <1>1, ElementOfSeq
<1> HIDE DEF w, n, m
<1>8. ASSUME NEW lo \in Int, NEW hi \in Int, \A i \in lo .. hi : w[i] \in S
      PROVE  /\ SubSeq(w, lo, hi) \in Seq(S)
             /\ Len(SubSeq(w, lo, hi)) = IF lo <= hi THEN hi - lo + 1 ELSE 0
             /\ \A i \in 1 .. hi - lo + 1 : SubSeq(w, lo, hi)[i] = w[lo + i - 1]
  BY <1>8, SubSeqProperties
<1>3. /\ suffix \in Seq(S) /\ Len(suffix) = m
      /\ \A i \in 1 .. m : suffix[i] = w[n + i]
  <2> DEFINE lo == n + 1
             hi == n + m
  <2>1. lo \in Int /\ hi \in Int /\ \A i \in lo .. hi : w[i] \in S
    BY <1>1, <1>2
  <2> HIDE DEF lo, hi
  <2>2. /\ suffix \in Seq(S)
        /\ Len(suffix) = IF lo <= hi THEN hi - lo + 1 ELSE 0
        /\ \A i \in 1 .. hi - lo + 1 : suffix[i] = w[lo + i - 1]
    BY <1>8, <2>1, Zenon DEF lo, hi
  <2> HIDE DEF suffix
  <2>3. QED BY <1>1, <2>2 DEF lo, hi
<1>4. /\ prefix \in Seq(S) /\ Len(prefix) = n
      /\ \A i \in 1 .. n : prefix[i] = w[i]
  <2>1. 1 \in Int /\ n \in Int /\ \A i \in 1 .. n : w[i] \in S
    BY <1>1, <1>2
  <2>2. /\ prefix \in Seq(S)
        /\ Len(prefix) = IF 1 <= n THEN n - 1 + 1 ELSE 0
        /\ \A i \in 1 .. n - 1 + 1 : prefix[i] = w[1 + i - 1]
    BY <1>8, <2>1, Zenon
  <2> HIDE DEF prefix
  <2>3. QED BY <1>1, <2>2
<1> HIDE DEF suffix, prefix
<1>5. suffix = b
  <2>1. \A i \in 1 .. m : suffix[i] = b[i]
    BY <1>1, <1>3
  <2>2. QED BY <1>3, <2>1, SeqEqual DEF m
<1>6. prefix = a
  <2>1. \A i \in 1 .. n : prefix[i] = a[i]
    BY <1>1, <1>4
  <2>2. QED BY <1>4, <2>1, SeqEqual DEF n
<1>9. QED BY <1>1, <1>5, <1>6, Zenon DEF suffix, prefix, w, n, m, New

(* What an item is read as, whatever follows it.                            *)
ReadsBack(type, number, rest) ==
    LET head == HeadOf(SendItem(type, number) \o rest)
    IN /\ head.type = type /\ head.number = number /\ head.rest = rest
       /\ head.info \in 0 .. 27
       /\ SendItem(type, number) \in Seq(Byte) /\ SendItem(type, number) # <<>>

LEMMA HeadRead ==
    ASSUME NEW type \in 0 .. 7, NEW number \in Number, NEW rest \in Seq(Byte)
    PROVE  ReadsBack(type, number, rest)
<1> DEFINE item == SendItem(type, number)
           w == item \o rest
<1>1. PICK size \in {0, 1, 2, 4, 8}, info \in Nat : ItemOf(item, type, number, size, info)
  BY ItemParts
<1> DEFINE b1 == type * 32 + info
           data == SubSeq(number, 9 - size, 8)
<1>2. info \in 0 .. 27 /\ item = <<b1>> \o data
  BY <1>1, Zenon DEF ItemOf
<1>3. /\ b1 \in Byte /\ b1 \div 32 = type /\ b1 % 32 = info
  BY <1>2, SMT DEF Byte
<1> HIDE DEF item, b1
<1>4. /\ data \in Seq(Byte) /\ Len(data) = size
      /\ \A i \in 1 .. size : data[i] = number[8 - size + i]
  <2>1. /\ 9 - size \in Int /\ 8 \in Int /\ \A i \in 9 - size .. 8 : number[i] \in Byte
    BY SMT DEF Number
  <2>2. /\ data \in Seq(Byte)
        /\ Len(data) = IF 9 - size <= 8 THEN 8 - (9 - size) + 1 ELSE 0
        /\ \A i \in 1 .. 8 - (9 - size) + 1 : data[i] = number[9 - size + i - 1]
    BY <2>1, SubSeqProperties
  <2> HIDE DEF data
  <2>3. QED BY <2>2
<1> HIDE DEF data
<1>5. /\ <<b1>> \in Seq(Byte) /\ Len(<<b1>>) = 1
  BY <1>3
<1>6. /\ item \in Seq(Byte) /\ Len(item) = 1 + size
      /\ item[1] = b1
      /\ \A i \in 1 .. size : item[i + 1] = data[i]
  <2>1. /\ item \in Seq(Byte) /\ Len(item) = Len(<<b1>>) + Len(data)
        /\ \A i \in 1 .. Len(<<b1>>) + Len(data) : item[i] =
              IF i <= Len(<<b1>>) THEN <<b1>>[i] ELSE data[i - Len(<<b1>>)]
    BY <1>2, <1>4, <1>5, ConcatProperties
  <2>2. QED BY <1>4, <1>5, <2>1
<1>7. /\ w \in Seq(Byte) /\ Len(w) = 1 + size + Len(rest)
      /\ SubSeq(w, size + 2, Len(w)) = rest
      /\ w[1] = b1
      /\ \A i \in 1 .. size : w[i + 1] = data[i]
  <2>1. /\ w \in Seq(Byte) /\ Len(w) = Len(item) + Len(rest)
        /\ \A i \in 1 .. Len(item) + Len(rest) : w[i] =
              IF i <= Len(item) THEN item[i] ELSE rest[i - Len(item)]
    BY <1>6, ConcatProperties
  <2>2. SubSeq(w, Len(item) + 1, Len(w)) = rest
    BY <1>6, NewOf
  <2> HIDE DEF w
  <2>3. Len(item) + 1 = size + 2
    BY <1>6
  <2>4. QED BY <1>6, <2>1, <2>2, <2>3
<1> HIDE DEF w
<1>8. Extra(w) = size
  <2>1. CASE size = 0
    <3>1. info \notin 24 .. 27
      BY <1>1, <2>1, SMT DEF ItemOf
    <3>2. QED BY <1>3, <1>7, <2>1, <3>1, Zenon DEF Extra
  <2>2. CASE size # 0
    <3>1. info \in 24 .. 27 /\ 2 ^ (info - 24) = size
      BY <1>1, <2>2, SMT DEF ItemOf
    <3>2. QED BY <1>3, <1>7, <3>1, Zenon DEF Extra
  <2>3. QED BY <2>1, <2>2, Zenon
<1> DEFINE h == HeadOf(w)
<1>9. /\ h.type = w[1] \div 32 /\ h.info = w[1] % 32
      /\ h.number = IF size = 0 THEN Count(w[1] % 32)
                    ELSE [i \in 1 .. 8 |-> IF i + size <= 8 THEN 0 ELSE w[i + size - 7]]
      /\ h.rest = SubSeq(w, size + 2, Len(w))
  BY <1>8, Zenon DEF HeadOf
<1> HIDE DEF h
<1>10. h.number = number
  <2>1. CASE size = 0
    <3>1. h.number = Count(info)
      BY <1>3, <1>7, <1>9, <2>1, Zenon
    <3>2. /\ Count(info) \in Number
          /\ Count(info)[8] = info /\ \A j \in 1 .. 7 : Count(info)[j] = 0
      <4>1. Countable(info) /\ info < 256
        BY <1>2, SMT DEF Countable
      <4>2. QED BY <4>1, CountParts, Zenon
    <3>3. number[8] = info /\ \A j \in 1 .. 7 : number[j] = 0
      BY <1>1, <2>1, Zenon DEF ItemOf
    <3>4. \A j \in 1 .. 8 : Count(info)[j] = number[j]
      BY <3>2, <3>3, SMT
    <3>5. Count(info) = number
      <4>1. /\ Count(info) = [j \in 1 .. 8 |-> Count(info)[j]]
            /\ number = [j \in 1 .. 8 |-> number[j]]
        BY <3>2 DEF Number
      <4>2. QED BY <3>4, <4>1, Zenon
    <3>6. QED BY <3>1, <3>5, Zenon
  <2>2. CASE size # 0
    <3>1. \A j \in 1 .. 8 - size : number[j] = 0
      BY <1>1, <2>2, Zenon DEF ItemOf
    <3>2. ASSUME NEW i \in 1 .. 8
          PROVE  (IF i + size <= 8 THEN 0 ELSE w[i + size - 7]) = number[i]
      <4>1. CASE i + size <= 8
        BY <3>1, <4>1, SMT
      <4>2. CASE ~ (i + size <= 8)
        <5> DEFINE k == i + size - 8
        <5>1. k \in 1 .. size /\ k + 1 = i + size - 7 /\ 8 - size + k = i
          BY <4>2, SMT
        <5> HIDE DEF k
        <5>2. w[k + 1] = data[k] /\ data[k] = number[8 - size + k]
          BY <1>4, <1>7, <5>1, Zenon
        <5>3. QED BY <4>2, <5>1, <5>2, Zenon
      <4>3. QED BY <4>1, <4>2, Zenon
    <3>3. h.number = [i \in 1 .. 8 |-> IF i + size <= 8 THEN 0 ELSE w[i + size - 7]]
      BY <1>9, <2>2, Zenon
    <3>4. number = [i \in 1 .. 8 |-> number[i]]
      BY DEF Number
    <3>5. QED BY <3>2, <3>3, <3>4, Zenon
  <2>3. QED BY <2>1, <2>2, Zenon
<1>11. item # <<>>
  BY <1>6
<1>12. QED BY <1>2, <1>3, <1>6, <1>7, <1>9, <1>10, <1>11, ZenonT(60) DEF ReadsBack, h, w, item

(* Of each major type and of every number of 64 bits, what                  *)
(* cbor64_send_item writes is, whatever follows it, read as that type and   *)
(* that number, of the width it was given, and as no byte more.             *)
THEOREM ItemReadsBack ==
    \A type \in 0 .. 7, number \in Number, rest \in Seq(Byte) :
        ReadsBack(type, number, rest)
<1>1. ASSUME NEW type \in 0 .. 7, NEW number \in Number, NEW rest \in Seq(Byte)
      PROVE  ReadsBack(type, number, rest)
  BY HeadRead, Zenon
<1>2. QED BY <1>1, Zenon

-----------------------------------------------------------------------------
(* Reading one call.                                                        *)

LEMMA ReadAsParts ==
    ASSUME NEW h
    PROVE  /\ h.type = UnsignedInt => ReadAs(h) = <<"uint", h.number>>
           /\ h.type = NegativeInt => ReadAs(h) = <<"nint", h.number>>
           /\ h.type = ByteString =>
                ReadAs(h) = <<"bytes", SubSeq(h.rest, 1, Value(h.number))>>
           /\ h.type = Utf8String =>
                ReadAs(h) = <<"utf8", SubSeq(h.rest, 1, Value(h.number))>>
           /\ h.type = ArrayType =>
                ReadAs(h) = <<"array", IF h.info = Indefinite THEN <<>> ELSE h.number>>
           /\ h.type = MapType =>
                ReadAs(h) = <<"map", IF h.info = Indefinite THEN <<>> ELSE h.number>>
           /\ h.type = TagType => ReadAs(h) = <<"tag", h.number>>
           /\ h.type = SimpleType /\ h.info \in 0 .. 24 =>
                ReadAs(h) = <<"simple", <<h.number[8]>>>>
           /\ h.type = SimpleType /\ h.info = 26 =>
                ReadAs(h) = <<"float", SubSeq(h.number, 5, 8)>>
           /\ h.type = SimpleType /\ h.info = 27 => ReadAs(h) = <<"double", h.number>>
           /\ h.type = SimpleType /\ h.info = Indefinite => ReadAs(h) = <<"end", <<>>>>
<1> DEFINE Simples ==
            CASE h.info <= 24         -> <<"simple", <<h.number[8]>>>>
              [] h.info = 26          -> <<"float", SubSeq(h.number, 5, 8)>>
              [] h.info = 27          -> <<"double", h.number>>
              [] h.info = Indefinite  -> <<"end", <<>>>>
              [] h.info \in {25} \cup 28 .. 30 -> <<"unknown", <<>>>>
<1>1. /\ UnsignedInt # NegativeInt /\ UnsignedInt # ByteString /\ UnsignedInt # Utf8String
      /\ UnsignedInt # ArrayType /\ UnsignedInt # MapType /\ UnsignedInt # TagType
      /\ UnsignedInt # SimpleType
      /\ NegativeInt # ByteString /\ NegativeInt # Utf8String /\ NegativeInt # ArrayType
      /\ NegativeInt # MapType /\ NegativeInt # TagType /\ NegativeInt # SimpleType
      /\ ByteString # Utf8String /\ ByteString # ArrayType /\ ByteString # MapType
      /\ ByteString # TagType /\ ByteString # SimpleType
      /\ Utf8String # ArrayType /\ Utf8String # MapType /\ Utf8String # TagType
      /\ Utf8String # SimpleType
      /\ ArrayType # MapType /\ ArrayType # TagType /\ ArrayType # SimpleType
      /\ MapType # TagType /\ MapType # SimpleType /\ TagType # SimpleType
  BY SMT DEF UnsignedInt, NegativeInt, ByteString, Utf8String, ArrayType, MapType,
             TagType, SimpleType
<1>2. h.type = UnsignedInt => ReadAs(h) = <<"uint", h.number>>
  BY <1>1, Zenon DEF ReadAs
<1>3. h.type = NegativeInt => ReadAs(h) = <<"nint", h.number>>
  BY <1>1, Zenon DEF ReadAs
<1>4. h.type = ByteString =>
        ReadAs(h) = <<"bytes", SubSeq(h.rest, 1, Value(h.number))>>
  BY <1>1, Zenon DEF ReadAs
<1>5. h.type = Utf8String =>
        ReadAs(h) = <<"utf8", SubSeq(h.rest, 1, Value(h.number))>>
  BY <1>1, Zenon DEF ReadAs
<1>6. h.type = ArrayType =>
        ReadAs(h) = <<"array", IF h.info = Indefinite THEN <<>> ELSE h.number>>
  BY <1>1, Zenon DEF ReadAs
<1>7. h.type = MapType =>
        ReadAs(h) = <<"map", IF h.info = Indefinite THEN <<>> ELSE h.number>>
  BY <1>1, Zenon DEF ReadAs
<1>8. h.type = TagType => ReadAs(h) = <<"tag", h.number>>
  BY <1>1, Zenon DEF ReadAs
<1>9. h.type = SimpleType => ReadAs(h) = Simples
  BY <1>1, Zenon DEF ReadAs
<1>10. h.info \in 0 .. 24 => Simples = <<"simple", <<h.number[8]>>>>
  <2>1. h.info \in 0 .. 24 => /\ h.info <= 24 /\ h.info # 26 /\ h.info # 27
                              /\ h.info # Indefinite /\ h.info \notin {25} \cup 28 .. 30
    BY SMT DEF Indefinite
  <2>2. QED BY <2>1, Zenon
<1>11. h.info = 26 => Simples = <<"float", SubSeq(h.number, 5, 8)>>
  <2>1. ~ (26 <= 24) /\ 26 # 27 /\ 26 # Indefinite /\ 26 \notin {25} \cup 28 .. 30
    BY SMT DEF Indefinite
  <2>2. QED BY <2>1, Zenon
<1>12. h.info = 27 => Simples = <<"double", h.number>>
  <2>1. ~ (27 <= 24) /\ 27 # 26 /\ 27 # Indefinite /\ 27 \notin {25} \cup 28 .. 30
    BY SMT DEF Indefinite
  <2>2. QED BY <2>1, Zenon
<1>13. h.info = Indefinite => Simples = <<"end", <<>>>>
  <2>1. /\ ~ (Indefinite <= 24) /\ Indefinite # 26 /\ Indefinite # 27
        /\ Indefinite \notin {25} \cup 28 .. 30
    BY SMT DEF Indefinite
  <2>2. QED BY <2>1, Zenon
<1> HIDE DEF Simples
<1>14. QED
  BY <1>2, <1>3, <1>4, <1>5, <1>6, <1>7, <1>8, <1>9, <1>10, <1>11, <1>12, <1>13, Zenon

LEMMA MeaningParts ==
    ASSUME NEW bytes, NEW table
    PROVE  LET head == HeadOf(bytes)
               inner == HeadOf(head.rest)
               tag == TagOf(head)
               meaning == Meaning(bytes, table)
           IN /\ tag \in {StringRef, SharedValue} =>
                    meaning = <<Referent(table, Value(inner.number))>>
              /\ tag = Shareable => meaning = Whole(inner)
              /\ tag = StringRefDomain =>
                    meaning = IF head.rest = <<>> THEN <<>> ELSE Whole(inner)
              /\ tag \notin {StringRef, SharedValue, Shareable, StringRefDomain} =>
                    meaning = Whole(head)
<1> DEFINE head == HeadOf(bytes)
           inner == HeadOf(head.rest)
           tag == TagOf(head)
<1>1. /\ Shareable \notin {StringRef, SharedValue} /\ Shareable # StringRefDomain
      /\ StringRefDomain \notin {StringRef, SharedValue}
  BY SMT DEF Shareable, StringRef, SharedValue, StringRefDomain
<1>2. Meaning(bytes, table) =
        (CASE tag \in {StringRef, SharedValue} -> <<Referent(table, Value(inner.number))>>
           [] tag = Shareable                  -> Whole(inner)
           [] tag = StringRefDomain            -> IF head.rest = <<>> THEN <<>> ELSE Whole(inner)
           [] tag \notin {StringRef, SharedValue, Shareable, StringRefDomain} -> Whole(head))
  BY Zenon DEF Meaning
<1> HIDE DEF tag, inner, head
<1>3. ASSUME tag \in {StringRef, SharedValue}
      PROVE  Meaning(bytes, table) = <<Referent(table, Value(inner.number))>>
  BY <1>1, <1>2, <1>3, Zenon
<1>4. ASSUME tag = Shareable PROVE Meaning(bytes, table) = Whole(inner)
  BY <1>1, <1>2, <1>4, Zenon
<1>5. ASSUME tag = StringRefDomain
      PROVE  Meaning(bytes, table) = IF head.rest = <<>> THEN <<>> ELSE Whole(inner)
  BY <1>1, <1>2, <1>5, Zenon
<1>6. ASSUME tag \notin {StringRef, SharedValue, Shareable, StringRefDomain}
      PROVE  Meaning(bytes, table) = Whole(head)
  BY <1>1, <1>2, <1>6, Zenon
<1>7. QED BY <1>3, <1>4, <1>5, <1>6, Zenon DEF tag, inner, head

Tags == {StringRef, SharedValue, Shareable, StringRefDomain}

(* An item that is neither a string nor a tag means just itself.            *)
LEMMA PlainRead ==
    ASSUME NEW bytes, NEW table,
           HeadOf(bytes).type \notin {ByteString, Utf8String, TagType},
           HeadOf(bytes).rest = <<>>
    PROVE  Meaning(bytes, table) = <<ReadAs(HeadOf(bytes))>>
<1> DEFINE head == HeadOf(bytes)
<1>1. TagOf(head) = -1 /\ ~ IsString(head)
  BY Zenon DEF TagOf, IsString
<1>2. -1 \notin Tags
  BY SMT DEF Tags, StringRef, SharedValue, Shareable, StringRefDomain
<1>3. Meaning(bytes, table) = Whole(head)
  <2>1. TagOf(head) \notin {StringRef, SharedValue, Shareable, StringRefDomain}
    BY <1>1, <1>2, Zenon DEF Tags
  <2>2. QED BY <2>1, MeaningParts, Zenon
<1>4. After(head) = <<>>
  BY <1>1, Zenon DEF After
<1>5. QED BY <1>3, <1>4, Zenon DEF Whole

LEMMA StringRead ==
    ASSUME NEW s \in Seq(Byte), Countable(Len(s)), NEW table,
           NEW type \in StringTypes
    PROVE  /\ Literal(type, s) \in Seq(Byte) /\ Literal(type, s) # <<>>
           /\ IsString(HeadOf(Literal(type, s)))
           /\ Value(HeadOf(Literal(type, s)).number) = Len(s)
           /\ ReadAs(HeadOf(Literal(type, s))) = Text(type, s)
           /\ Whole(HeadOf(Literal(type, s))) = <<Text(type, s)>>
           /\ TagOf(HeadOf(Literal(type, s))) = -1
           /\ Meaning(Literal(type, s), table) = <<Text(type, s)>>
           /\ Text(type, s) \in Items
<1> DEFINE number == Count(Len(s))
           item == SendItem(type, number)
           head == HeadOf(Literal(type, s))
<1>1. type \in 0 .. 7 /\ number \in Number /\ Value(number) = Len(s)
  <2>1. type \in 0 .. 7
    BY SMT DEF StringTypes, Utf8String, ByteString
  <2>2. QED BY <2>1, CountParts, Zenon
<1>2. Literal(type, s) = item \o s
  BY Zenon DEF Literal, SendTypedBytes
<1> HIDE DEF number
<1>3. /\ head.type = type /\ head.number = number /\ head.rest = s
      /\ item \in Seq(Byte) /\ item # <<>>
  <2>1. ReadsBack(type, number, s)
    BY <1>1, ItemReadsBack, Zenon
  <2>2. QED BY <1>2, <2>1, Zenon DEF ReadsBack, item
<1> HIDE DEF item, head
<1>4. Literal(type, s) \in Seq(Byte) /\ Literal(type, s) # <<>>
  BY <1>2, <1>3, ConcatProperties, ConcatEqualIffEmpty
<1>5. IsString(head) /\ TagOf(head) = -1
  <2>1. type \in {ByteString, Utf8String}
    BY Zenon DEF StringTypes
  <2>2. type # TagType
    BY <2>1, SMT DEF ByteString, Utf8String, TagType
  <2>3. QED BY <1>3, <2>1, <2>2, Zenon DEF IsString, TagOf
<1>6. SubSeq(s, 1, Len(s)) = s
  BY SubSeqFull
<1>7. ReadAs(head) = Text(type, s)
  <2>1. CASE type = Utf8String
    <3>1. head.type = Utf8String
      BY <1>3, <2>1, Zenon
    <3>2. ReadAs(head) = <<"utf8", SubSeq(head.rest, 1, Value(head.number))>>
      BY <3>1, ReadAsParts, Zenon
    <3>3. QED BY <1>1, <1>3, <1>6, <2>1, <3>2, Zenon DEF Text
  <2>2. CASE type # Utf8String
    <3>1. head.type = ByteString
      BY <1>3, <2>2, Zenon DEF StringTypes
    <3>2. ReadAs(head) = <<"bytes", SubSeq(head.rest, 1, Value(head.number))>>
      BY <3>1, ReadAsParts, Zenon
    <3>3. QED BY <1>1, <1>3, <1>6, <2>2, <3>2, Zenon DEF Text
  <2>3. QED BY <2>1, <2>2, Zenon
<1>8. Whole(head) = <<Text(type, s)>>
  <2>1. SubSeq(s, Len(s) + 1, Len(s)) = <<>>
    <3>1. Len(s) \in Int /\ Len(s) + 1 \in Int /\ Len(s) < Len(s) + 1
      OBVIOUS
    <3>2. QED BY <3>1, SubSeqEmpty
  <2>2. After(head) = SubSeq(s, Len(s) + 1, Len(s))
    BY <1>1, <1>3, <1>5, Zenon DEF After
  <2>3. QED BY <1>7, <2>1, <2>2, Zenon DEF Whole
<1>9. Meaning(Literal(type, s), table) = <<Text(type, s)>>
  <2>1. -1 \notin {StringRef, SharedValue, Shareable, StringRefDomain}
    BY SMT DEF StringRef, SharedValue, Shareable, StringRefDomain
  <2>2. TagOf(HeadOf(Literal(type, s))) \notin {StringRef, SharedValue, Shareable, StringRefDomain}
    BY <1>5, <2>1, Zenon DEF head
  <2>3. QED BY <1>8, <2>2, MeaningParts, Zenon DEF head
<1>10. Text(type, s) \in Items
  <2>1. <<"utf8", s>> \in Items /\ <<"bytes", s>> \in Items
    BY DEF Items, Kinds
  <2>2. QED BY <2>1, Zenon DEF Text
<1>11. QED BY <1>1, <1>3, <1>4, <1>5, <1>7, <1>8, <1>9, <1>10, Zenon DEF head

LEMMA TagRead ==
    ASSUME NEW n, Countable(n), NEW rest \in Seq(Byte)
    PROVE  /\ Tag(n) \in Seq(Byte) /\ Tag(n) # <<>>
           /\ Tag(n) \o rest \in Seq(Byte) /\ Tag(n) \o rest # <<>>
           /\ HeadOf(Tag(n) \o rest).type = TagType
           /\ HeadOf(Tag(n) \o rest).number = Count(n)
           /\ HeadOf(Tag(n) \o rest).rest = rest
           /\ TagOf(HeadOf(Tag(n) \o rest)) = n
           /\ ~ IsString(HeadOf(Tag(n) \o rest))
<1> DEFINE head == HeadOf(Tag(n) \o rest)
<1>1. TagType \in 0 .. 7 /\ TagType \notin {ByteString, Utf8String}
  BY SMT DEF TagType, ByteString, Utf8String
<1>2. Count(n) \in Number /\ Value(Count(n)) = n
  BY CountParts, Zenon
<1>3. /\ head.type = TagType /\ head.number = Count(n) /\ head.rest = rest
      /\ Tag(n) \in Seq(Byte) /\ Tag(n) # <<>>
  <2> DEFINE number == Count(n)
             type == TagType
  <2>1. type \in 0 .. 7 /\ number \in Number
    BY <1>1, <1>2, Zenon
  <2> HIDE DEF number, type
  <2>2. ReadsBack(type, number, rest)
    BY <2>1, ItemReadsBack, Zenon
  <2>3. QED BY <2>2, Zenon DEF ReadsBack, Tag, number, type
<1> HIDE DEF head
<1>4. Tag(n) \o rest \in Seq(Byte) /\ Tag(n) \o rest # <<>>
  BY <1>3, ConcatProperties, ConcatEqualIffEmpty
<1>5. TagOf(head) = n /\ ~ IsString(head)
  BY <1>1, <1>2, <1>3, Zenon DEF TagOf, IsString
<1>6. QED BY <1>3, <1>4, <1>5, Zenon DEF head

(* A call that writes the bytes and whose caller means the tokens.          *)
Says(bytes, tokens, table) ==
    /\ bytes \in Seq(Byte) /\ bytes # <<>>
    /\ tokens \in Seq(Items)
    /\ Meaning(bytes, table) = tokens

LEMMA NumberIsSeq == \A number \in Number : number \in Seq(Byte)
<1>1. Seq(Byte) = UNION {[1 .. n -> Byte] : n \in Nat}
  BY SeqDef, Zenon
<1>2. 8 \in Nat
  OBVIOUS
<1>3. QED BY <1>1, <1>2, Zenon DEF Number

LEMMA NumberSays ==
    ASSUME NEW number \in Number, NEW table
    PROVE  /\ Says(SendItem(UnsignedInt, number), <<<<"uint", number>>>>, table)
           /\ Says(SendItem(NegativeInt, number), <<<<"nint", number>>>>, table)
           /\ Says(SendItem(ArrayType, number), <<<<"array", number>>>>, table)
           /\ Says(SendItem(MapType, number), <<<<"map", number>>>>, table)
<1>1. number \in Seq(Byte)
  BY NumberIsSeq, Zenon
<1>2. /\ <<<<"uint", number>>>> \in Seq(Items) /\ <<<<"nint", number>>>> \in Seq(Items)
      /\ <<<<"array", number>>>> \in Seq(Items) /\ <<<<"map", number>>>> \in Seq(Items)
  <2>1. ASSUME NEW kind \in Kinds PROVE <<<<kind, number>>>> \in Seq(Items)
    BY <1>1 DEF Items
  <2>2. "uint" \in Kinds /\ "nint" \in Kinds /\ "array" \in Kinds /\ "map" \in Kinds
    BY Zenon DEF Kinds
  <2>3. QED BY <2>1, <2>2, Zenon
<1>3. ASSUME NEW type \in {UnsignedInt, NegativeInt, ArrayType, MapType}
      PROVE  LET head == HeadOf(SendItem(type, number))
             IN /\ SendItem(type, number) \in Seq(Byte) /\ SendItem(type, number) # <<>>
                /\ head.type = type /\ head.number = number /\ head.info # Indefinite
                /\ Meaning(SendItem(type, number), table) = <<ReadAs(head)>>
  <2>1. type \in 0 .. 7 /\ type \notin {ByteString, Utf8String, TagType}
    BY SMT DEF UnsignedInt, NegativeInt, ArrayType, MapType, ByteString, Utf8String, TagType
  <2>2. <<>> \in Seq(Byte)
    OBVIOUS
  <2>3. ReadsBack(type, number, <<>>)
    BY <2>1, <2>2, ItemReadsBack, Zenon
  <2>4. SendItem(type, number) \in Seq(Byte) /\ SendItem(type, number) # <<>>
    BY <2>3, Zenon DEF ReadsBack
  <2>5. SendItem(type, number) \o <<>> = SendItem(type, number)
    BY <2>4, ConcatEmptySeq, Zenon
  <2> DEFINE head == HeadOf(SendItem(type, number))
  <2>6. /\ head.type = type /\ head.number = number /\ head.rest = <<>>
        /\ head.info \in 0 .. 27
    BY <2>3, <2>5, Zenon DEF ReadsBack
  <2>7. \A i \in 0 .. 27 : i # Indefinite
    BY SMT DEF Indefinite
  <2>8. Meaning(SendItem(type, number), table) = <<ReadAs(head)>>
    BY <2>1, <2>6, PlainRead, Zenon
  <2>9. QED BY <2>4, <2>6, <2>7, <2>8, Zenon
<1>4. /\ UnsignedInt \in {UnsignedInt, NegativeInt, ArrayType, MapType}
      /\ NegativeInt \in {UnsignedInt, NegativeInt, ArrayType, MapType}
      /\ ArrayType \in {UnsignedInt, NegativeInt, ArrayType, MapType}
      /\ MapType \in {UnsignedInt, NegativeInt, ArrayType, MapType}
  BY Zenon
<1>5. Says(SendItem(UnsignedInt, number), <<<<"uint", number>>>>, table)
  <2>1. ReadAs(HeadOf(SendItem(UnsignedInt, number))) = <<"uint", number>>
    BY <1>3, <1>4, ReadAsParts, Zenon
  <2>2. QED BY <1>2, <1>3, <1>4, <2>1, Zenon DEF Says
<1>6. Says(SendItem(NegativeInt, number), <<<<"nint", number>>>>, table)
  <2>1. ReadAs(HeadOf(SendItem(NegativeInt, number))) = <<"nint", number>>
    BY <1>3, <1>4, ReadAsParts, Zenon
  <2>2. QED BY <1>2, <1>3, <1>4, <2>1, Zenon DEF Says
<1>7. Says(SendItem(ArrayType, number), <<<<"array", number>>>>, table)
  <2>1. ReadAs(HeadOf(SendItem(ArrayType, number))) = <<"array", number>>
    BY <1>3, <1>4, ReadAsParts, Zenon
  <2>2. QED BY <1>2, <1>3, <1>4, <2>1, Zenon DEF Says
<1>8. Says(SendItem(MapType, number), <<<<"map", number>>>>, table)
  <2>1. ReadAs(HeadOf(SendItem(MapType, number))) = <<"map", number>>
    BY <1>3, <1>4, ReadAsParts, Zenon
  <2>2. QED BY <1>2, <1>3, <1>4, <2>1, Zenon DEF Says
<1>9. QED BY <1>5, <1>6, <1>7, <1>8, Zenon

LEMMA TagSays ==
    ASSUME NEW n, Countable(n), n \notin Tags, NEW table
    PROVE  Says(Tag(n), <<<<"tag", Count(n)>>>>, table)
<1> DEFINE head == HeadOf(Tag(n))
<1>1. /\ Tag(n) \in Seq(Byte) /\ Tag(n) # <<>>
      /\ head.type = TagType /\ head.number = Count(n) /\ head.rest = <<>>
      /\ TagOf(head) = n /\ ~ IsString(head)
  <2>1. <<>> \in Seq(Byte)
    OBVIOUS
  <2>2. Tag(n) \in Seq(Byte)
    BY <2>1, TagRead, Zenon
  <2>3. Tag(n) \o <<>> = Tag(n)
    BY <2>2, ConcatEmptySeq, Zenon
  <2>4. ASSUME NEW rest \in Seq(Byte)
        PROVE  /\ Tag(n) # <<>>
               /\ HeadOf(Tag(n) \o rest).type = TagType
               /\ HeadOf(Tag(n) \o rest).number = Count(n)
               /\ HeadOf(Tag(n) \o rest).rest = rest
               /\ TagOf(HeadOf(Tag(n) \o rest)) = n
               /\ ~ IsString(HeadOf(Tag(n) \o rest))
    BY TagRead, Zenon
  <2>5. /\ HeadOf(Tag(n) \o <<>>).type = TagType
        /\ HeadOf(Tag(n) \o <<>>).number = Count(n)
        /\ HeadOf(Tag(n) \o <<>>).rest = <<>>
        /\ TagOf(HeadOf(Tag(n) \o <<>>)) = n
        /\ ~ IsString(HeadOf(Tag(n) \o <<>>))
        /\ Tag(n) # <<>>
    BY <2>1, <2>4, Zenon
  <2>6. QED BY <2>2, <2>3, <2>5, Zenon
<1> HIDE DEF head
<1>2. Meaning(Tag(n), table) = Whole(head)
  <2>1. TagOf(HeadOf(Tag(n))) \notin {StringRef, SharedValue, Shareable, StringRefDomain}
    BY <1>1, Zenon DEF Tags, head
  <2>2. QED BY <2>1, MeaningParts, Zenon DEF head
<1>3. Whole(head) = <<<<"tag", Count(n)>>>>
  <2>1. After(head) = <<>>
    BY <1>1, Zenon DEF After
  <2>2. ReadAs(head) = <<"tag", Count(n)>>
    BY <1>1, ReadAsParts, Zenon
  <2>3. QED BY <2>1, <2>2, Zenon DEF Whole
<1>4. <<<<"tag", Count(n)>>>> \in Seq(Items)
  <2>1. Count(n) \in Seq(Byte)
    <3>1. Count(n) \in Number
      BY CountParts, Zenon
    <3>2. QED BY <3>1, NumberIsSeq, Zenon
  <2>2. QED BY <2>1 DEF Items, Kinds
<1>5. QED BY <1>1, <1>2, <1>3, <1>4, Zenon DEF Says

(* An initial byte and all the bytes that it announces.                     *)
InitialReads(type, info, data, size) ==
    LET w == <<InitialByte(type, info)>> \o data
        head == HeadOf(w)
    IN /\ w \in Seq(Byte) /\ w # <<>>
       /\ head.type = type /\ head.info = info /\ head.rest = <<>>
       /\ head.number = IF size = 0 THEN Count(info)
             ELSE [i \in 1 .. 8 |-> IF i + size <= 8 THEN 0 ELSE w[i + size - 7]]
       /\ \A i \in 1 .. size : w[i + 1] = data[i]

LEMMA InitialRead ==
    ASSUME NEW type \in 0 .. 7, NEW info \in 0 .. 31, NEW data \in Seq(Byte),
           NEW size \in Nat, Len(data) = size,
           size = (IF info \in 24 .. 27 THEN 2 ^ (info - 24) ELSE 0)
    PROVE  InitialReads(type, info, data, size)
<1> DEFINE b1 == InitialByte(type, info)
           w == <<b1>> \o data
           head == HeadOf(w)
<1>1. /\ b1 \in Byte /\ b1 \div 32 = type /\ b1 % 32 = info
  BY SMT DEF InitialByte, Byte
<1> HIDE DEF b1
<1>2. <<b1>> \in Seq(Byte) /\ Len(<<b1>>) = 1
  BY <1>1
<1>3. /\ w \in Seq(Byte) /\ Len(w) = 1 + size /\ w[1] = b1
      /\ \A i \in 1 .. size : w[i + 1] = data[i]
  <2>1. /\ w \in Seq(Byte) /\ Len(w) = Len(<<b1>>) + Len(data)
        /\ \A i \in 1 .. Len(<<b1>>) + Len(data) : w[i] =
              IF i <= Len(<<b1>>) THEN <<b1>>[i] ELSE data[i - Len(<<b1>>)]
    BY <1>2, ConcatProperties
  <2> HIDE DEF w
  <2>2. QED BY <1>2, <2>1
<1> HIDE DEF w
<1>4. Extra(w) = size
  BY <1>1, <1>3, Zenon DEF Extra
<1>5. /\ head.type = w[1] \div 32 /\ head.info = w[1] % 32
      /\ head.number = IF size = 0 THEN Count(w[1] % 32)
            ELSE [i \in 1 .. 8 |-> IF i + size <= 8 THEN 0 ELSE w[i + size - 7]]
      /\ head.rest = SubSeq(w, size + 2, Len(w))
  BY <1>4, Zenon DEF HeadOf
<1>6. SubSeq(w, size + 2, Len(w)) = <<>>
  <2>1. size + 2 \in Int /\ Len(w) \in Int /\ Len(w) < size + 2
    BY <1>3
  <2>2. QED BY <2>1, SubSeqEmpty
<1>7. w # <<>>
  BY <1>3
<1>8. QED BY <1>1, <1>3, <1>5, <1>6, <1>7, ZenonT(60) DEF InitialReads, w, b1

LEMMA InitialSays ==
    ASSUME NEW table
    PROVE  /\ \A value \in 20 .. 23 :
                Says(SendSimple(value), <<<<"simple", <<value>>>>>>, table)
           /\ Says(SendBreak, <<<<"end", <<>>>>>>, table)
           /\ Says(<<InitialByte(ArrayType, Indefinite)>>, <<<<"array", <<>>>>>>, table)
           /\ Says(<<InitialByte(MapType, Indefinite)>>, <<<<"map", <<>>>>>>, table)
<1>1. ASSUME NEW type \in 0 .. 7, NEW info \in 0 .. 31, info \notin 24 .. 27,
             type \notin {ByteString, Utf8String, TagType},
             NEW token \in Items,
             \A h : h.type = type /\ h.info = info /\ h.number = Count(info)
                       => ReadAs(h) = token
      PROVE  Says(<<InitialByte(type, info)>>, <<token>>, table)
  <2> DEFINE b == InitialByte(type, info)
  <2>1. <<>> \in Seq(Byte) /\ Len(<<>>) = 0 /\ 0 \in Nat
    OBVIOUS
  <2>2. /\ <<b>> \o <<>> \in Seq(Byte) /\ <<b>> \o <<>> # <<>>
        /\ HeadOf(<<b>> \o <<>>).type = type /\ HeadOf(<<b>> \o <<>>).info = info
        /\ HeadOf(<<b>> \o <<>>).rest = <<>>
        /\ HeadOf(<<b>> \o <<>>).number = Count(info)
    <3>1. ASSUME NEW data \in Seq(Byte), NEW size \in Nat, Len(data) = size, size = 0
          PROVE  /\ <<b>> \o data \in Seq(Byte) /\ <<b>> \o data # <<>>
                 /\ HeadOf(<<b>> \o data).type = type /\ HeadOf(<<b>> \o data).info = info
                 /\ HeadOf(<<b>> \o data).rest = <<>>
                 /\ HeadOf(<<b>> \o data).number = Count(info)
      <4>1. size = (IF info \in 24 .. 27 THEN 2 ^ (info - 24) ELSE 0)
        BY <1>1, <3>1, Zenon
      <4>2. InitialReads(type, info, data, size)
        BY <3>1, <4>1, InitialRead, Zenon
      <4>3. QED BY <3>1, <4>2, Zenon DEF InitialReads
    <3>2. QED BY <2>1, <3>1, Zenon
  <2>3. <<b>> \o <<>> = <<b>>
    <3>1. b \in Byte
      BY SMT DEF InitialByte, Byte
    <3> HIDE DEF b
    <3>2. <<b>> \in Seq(Byte)
      BY <3>1
    <3>3. QED BY <3>2, ConcatEmptySeq, Zenon
  <2> HIDE DEF b
  <2>4. Meaning(<<b>>, table) = <<ReadAs(HeadOf(<<b>>))>>
    BY <1>1, <2>2, <2>3, PlainRead, Zenon
  <2>5. ReadAs(HeadOf(<<b>>)) = token
    BY <1>1, <2>2, <2>3, Zenon
  <2>6. <<token>> \in Seq(Items)
    BY <1>1
  <2>7. QED BY <2>2, <2>3, <2>4, <2>5, <2>6, Zenon DEF Says, b
<1>2. /\ Indefinite \in 0 .. 31 /\ Indefinite \notin 24 .. 27
      /\ SimpleType \in 0 .. 7 /\ ArrayType \in 0 .. 7 /\ MapType \in 0 .. 7
      /\ SimpleType \notin {ByteString, Utf8String, TagType}
      /\ ArrayType \notin {ByteString, Utf8String, TagType}
      /\ MapType \notin {ByteString, Utf8String, TagType}
  BY SMT DEF Indefinite, SimpleType, ArrayType, MapType, ByteString, Utf8String, TagType
<1>3. ASSUME NEW value \in 20 .. 23
      PROVE  Says(SendSimple(value), <<<<"simple", <<value>>>>>>, table)
  <2>1. value \in 0 .. 31 /\ value \notin 24 .. 27 /\ value < 24 /\ value \in 0 .. 24
        /\ value \in Byte
    BY SMT DEF Byte
  <2>2. Count(value)[8] = value
    <3>1. Countable(value) /\ value < 256
      BY SMT DEF Countable
    <3>2. QED BY <3>1, CountParts, Zenon
  <2>3. <<"simple", <<value>>>> \in Items
    BY <2>1 DEF Items, Kinds
  <2>4. \A h : h.type = SimpleType /\ h.info = value /\ h.number = Count(value)
                  => ReadAs(h) = <<"simple", <<value>>>>
    BY <2>1, <2>2, ReadAsParts, Zenon
  <2>5. Says(<<InitialByte(SimpleType, value)>>, <<<<"simple", <<value>>>>>>, table)
    BY <1>1, <1>2, <2>1, <2>3, <2>4, Zenon
  <2>6. QED BY <2>1, <2>5, Zenon DEF SendSimple
<1>4. <<"end", <<>>>> \in Items /\ <<"array", <<>>>> \in Items /\ <<"map", <<>>>> \in Items
  <2>1. ASSUME NEW kind \in Kinds PROVE <<kind, <<>>>> \in Items
    <3>1. <<>> \in Seq(Byte)
      OBVIOUS
    <3>2. QED BY <3>1, Zenon DEF Items
  <2>2. "end" \in Kinds /\ "array" \in Kinds /\ "map" \in Kinds
    BY Zenon DEF Kinds
  <2>3. QED BY <2>1, <2>2, Zenon
<1>5. Says(SendBreak, <<<<"end", <<>>>>>>, table)
  <2>1. \A h : h.type = SimpleType /\ h.info = Indefinite /\ h.number = Count(Indefinite)
                  => ReadAs(h) = <<"end", <<>>>>
    BY ReadAsParts, Zenon
  <2>2. QED BY <1>1, <1>2, <1>4, <2>1, Zenon DEF SendBreak
<1>6. Says(<<InitialByte(ArrayType, Indefinite)>>, <<<<"array", <<>>>>>>, table)
  <2>1. \A h : h.type = ArrayType /\ h.info = Indefinite /\ h.number = Count(Indefinite)
                  => ReadAs(h) = <<"array", <<>>>>
    BY ReadAsParts, Zenon
  <2>2. QED BY <1>1, <1>2, <1>4, <2>1, Zenon
<1>7. Says(<<InitialByte(MapType, Indefinite)>>, <<<<"map", <<>>>>>>, table)
  <2>1. \A h : h.type = MapType /\ h.info = Indefinite /\ h.number = Count(Indefinite)
                  => ReadAs(h) = <<"map", <<>>>>
    BY ReadAsParts, Zenon
  <2>2. QED BY <1>1, <1>2, <1>4, <2>1, Zenon
<1>8. QED BY <1>3, <1>5, <1>6, <1>7, Zenon

(* A number's last bytes.                                                   *)
LEMMA LastBytes ==
    ASSUME NEW number \in Number
    PROVE  /\ SubSeq(number, 5, 8) \in Seq(Byte) /\ Len(SubSeq(number, 5, 8)) = 4
           /\ \A i \in 1 .. 4 : SubSeq(number, 5, 8)[i] = number[i + 4]
           /\ number \in Seq(Byte) /\ Len(number) = 8
<1> DEFINE s == SubSeq(number, 5, 8)
<1>1. number \in Seq(Byte) /\ DOMAIN number = 1 .. 8
  BY NumberIsSeq, Zenon DEF Number
<1>2. Len(number) = 8
  BY <1>1, LenProperties
<1>3. /\ s \in Seq(Byte) /\ Len(s) = IF 5 <= 8 THEN 8 - 5 + 1 ELSE 0
      /\ \A i \in 1 .. 8 - 5 + 1 : s[i] = number[5 + i - 1]
  <2>1. \A i \in 5 .. 8 : number[i] \in Byte
    BY DEF Number
  <2>2. QED BY <2>1, SubSeqProperties
<1> HIDE DEF s
<1>4. s \in Seq(Byte) /\ Len(s) = 4 /\ \A i \in 1 .. 4 : s[i] = number[i + 4]
  BY <1>3, SMT
<1>5. QED BY <1>1, <1>2, <1>4, Zenon DEF s

LEMMA FloatsSay ==
    ASSUME NEW number \in Number, NEW table
    PROVE  /\ Says(<<InitialByte(SimpleType, 26)>> \o SubSeq(number, 5, 8),
                   <<<<"float", SubSeq(number, 5, 8)>>>>, table)
           /\ Says(<<InitialByte(SimpleType, 27)>> \o number,
                   <<<<"double", number>>>>, table)
<1> DEFINE Reads(info, data, size) ==
        LET w == <<InitialByte(SimpleType, info)>> \o data
            head == HeadOf(w)
        IN /\ w \in Seq(Byte) /\ w # <<>>
           /\ head.type = SimpleType /\ head.info = info
           /\ head.number =
                [i \in 1 .. 8 |-> IF i + size <= 8 THEN 0 ELSE w[i + size - 7]]
           /\ \A i \in 1 .. size : w[i + 1] = data[i]
           /\ Meaning(w, table) = <<ReadAs(head)>>
<1>1. ASSUME NEW info \in 24 .. 27, NEW data \in Seq(Byte), NEW size \in Nat \ {0},
             Len(data) = size, size = 2 ^ (info - 24)
      PROVE  Reads(info, data, size)
  <2> DEFINE w == <<InitialByte(SimpleType, info)>> \o data
  <2>1. /\ SimpleType \in 0 .. 7 /\ info \in 0 .. 31 /\ size \in Nat /\ size # 0
        /\ SimpleType \notin {ByteString, Utf8String, TagType}
    BY SMT DEF SimpleType, ByteString, Utf8String, TagType
  <2>2. size = (IF info \in 24 .. 27 THEN 2 ^ (info - 24) ELSE 0)
    BY <1>1, Zenon
  <2>3. InitialReads(SimpleType, info, data, size)
    BY <1>1, <2>1, <2>2, InitialRead, Zenon
  <2>4. /\ w \in Seq(Byte) /\ w # <<>>
        /\ HeadOf(w).type = SimpleType /\ HeadOf(w).info = info /\ HeadOf(w).rest = <<>>
        /\ HeadOf(w).number =
             [i \in 1 .. 8 |-> IF i + size <= 8 THEN 0 ELSE w[i + size - 7]]
        /\ \A i \in 1 .. size : w[i + 1] = data[i]
    BY <2>1, <2>3, Zenon DEF InitialReads
  <2> HIDE DEF w
  <2>5. Meaning(w, table) = <<ReadAs(HeadOf(w))>>
    BY <2>1, <2>4, PlainRead, Zenon
  <2>6. QED BY <2>4, <2>5, Zenon DEF w
<1> HIDE DEF Reads
<1>2. Says(<<InitialByte(SimpleType, 26)>> \o SubSeq(number, 5, 8),
           <<<<"float", SubSeq(number, 5, 8)>>>>, table)
  <2> DEFINE data == SubSeq(number, 5, 8)
             w == <<InitialByte(SimpleType, 26)>> \o data
             head == HeadOf(w)
  <2>1. data \in Seq(Byte) /\ Len(data) = 4
    BY LastBytes, Zenon
  <2>2. 26 \in 24 .. 27 /\ 4 \in Nat \ {0} /\ 4 = 2 ^ (26 - 24)
    BY SMT
  <2> HIDE DEF data
  <2>3. /\ w \in Seq(Byte) /\ w # <<>> /\ head.type = SimpleType /\ head.info = 26
        /\ head.number = [i \in 1 .. 8 |-> IF i + 4 <= 8 THEN 0 ELSE w[i + 4 - 7]]
        /\ \A i \in 1 .. 4 : w[i + 1] = data[i]
        /\ Meaning(w, table) = <<ReadAs(head)>>
    <3>1. Reads(26, data, 4)
      BY <1>1, <2>1, <2>2, Zenon
    <3>2. QED BY <3>1, Zenon DEF Reads
  <2> HIDE DEF w, head
  <2>4. head.number \in Number
    <3>1. \A i \in 1 .. 8 : (IF i + 4 <= 8 THEN 0 ELSE w[i + 4 - 7]) \in Byte
      <4>1. \A i \in 1 .. 4 : data[i] \in Byte
        BY <2>1, ElementOfSeq
      <4>2. ASSUME NEW i \in 5 .. 8 PROVE w[i + 4 - 7] \in Byte
        <5>1. i - 4 \in 1 .. 4 /\ i - 4 + 1 = i + 4 - 7
          BY SMT
        <5>2. w[i - 4 + 1] = data[i - 4]
          BY <2>3, <5>1, Zenon
        <5>3. QED BY <4>1, <5>1, <5>2, Zenon
      <4>3. 0 \in Byte /\ \A i \in 1 .. 8 : i + 4 <= 8 \/ i \in 5 .. 8
        BY SMT DEF Byte
      <4>4. QED BY <4>2, <4>3, Zenon
    <3>2. QED BY <2>3, <3>1, ZenonT(60) DEF Number
  <2>5. SubSeq(head.number, 5, 8) = data
    <3> DEFINE s == SubSeq(head.number, 5, 8)
    <3>1. /\ s \in Seq(Byte) /\ Len(s) = 4 /\ \A i \in 1 .. 4 : s[i] = head.number[i + 4]
      BY <2>4, LastBytes, Zenon
    <3>2. ASSUME NEW i \in 1 .. 4 PROVE s[i] = data[i]
      <4>1. i + 4 \in 1 .. 8 /\ ~ (i + 4 + 4 <= 8) /\ i + 4 + 4 - 7 = i + 1
        BY SMT
      <4>2. head.number[i + 4] = w[i + 4 + 4 - 7]
        BY <2>3, <4>1, ZenonT(60)
      <4>3. QED BY <2>3, <3>1, <4>1, <4>2, Zenon
    <3> HIDE DEF s
    <3>3. s = data
      BY <2>1, <3>1, <3>2, SeqEqual
    <3>4. QED BY <3>3, Zenon DEF s
  <2>6. ReadAs(head) = <<"float", data>>
    BY <2>3, <2>5, ReadAsParts, Zenon
  <2>7. <<<<"float", data>>>> \in Seq(Items)
    BY <2>1 DEF Items, Kinds
  <2>8. QED BY <2>3, <2>6, <2>7, Zenon DEF Says, w, data, head
<1>3. Says(<<InitialByte(SimpleType, 27)>> \o number, <<<<"double", number>>>>, table)
  <2> DEFINE w == <<InitialByte(SimpleType, 27)>> \o number
             head == HeadOf(w)
  <2>1. number \in Seq(Byte) /\ Len(number) = 8
    BY LastBytes, Zenon
  <2>2. 27 \in 24 .. 27 /\ 8 \in Nat \ {0} /\ 8 = 2 ^ (27 - 24)
    BY SMT
  <2>3. /\ w \in Seq(Byte) /\ w # <<>> /\ head.type = SimpleType /\ head.info = 27
        /\ head.number = [i \in 1 .. 8 |-> IF i + 8 <= 8 THEN 0 ELSE w[i + 8 - 7]]
        /\ \A i \in 1 .. 8 : w[i + 1] = number[i]
        /\ Meaning(w, table) = <<ReadAs(head)>>
    <3>1. Reads(27, number, 8)
      BY <1>1, <2>1, <2>2, Zenon
    <3>2. QED BY <3>1, Zenon DEF Reads
  <2> HIDE DEF w, head
  <2>4. head.number = number
    <3>1. ASSUME NEW i \in 1 .. 8
          PROVE  (IF i + 8 <= 8 THEN 0 ELSE w[i + 8 - 7]) = number[i]
      <4>1. ~ (i + 8 <= 8) /\ i + 8 - 7 = i + 1
        BY SMT
      <4>2. QED BY <2>3, <4>1, Zenon
    <3>2. number = [i \in 1 .. 8 |-> number[i]]
      BY DEF Number
    <3>3. QED BY <2>3, <3>1, <3>2, Zenon
  <2>5. ReadAs(head) = <<"double", number>>
    BY <2>3, <2>4, ReadAsParts, Zenon
  <2>6. <<<<"double", number>>>> \in Seq(Items)
    BY <2>1 DEF Items, Kinds
  <2>7. QED BY <2>3, <2>5, <2>6, Zenon DEF Says, w, head
<1>4. QED BY <1>2, <1>3, Zenon

-----------------------------------------------------------------------------
(* The array of strings, and the indices they are given.                    *)

LEMMA StringParts ==
    /\ Strings \in Seq(Seq(Byte)) /\ Countable(Len(Strings))
    /\ \A s \in ToSet(Strings) \cup Others : s \in Seq(Byte) /\ Countable(Len(s))
<1>1. Strings \in Seq(Seq(Byte \ {0})) /\ Others \subseteq Seq(Byte \ {0})
  BY StringsAssumption, Zenon
<1>2. \A s \in ToSet(Strings) \cup Others \cup {Strings} : Len(s) < 2147483647
  BY LengthsAssumption
<1>3. \A s \in Seq(Byte \ {0}) : s \in Seq(Byte) /\ Len(s) \in Nat
  <2>1. ASSUME NEW s \in Seq(Byte \ {0}) PROVE s \in Seq(Byte) /\ Len(s) \in Nat
    <3>1. Byte \ {0} \subseteq Byte
      BY Zenon
    <3>2. s \in Seq(Byte)
      BY <3>1, SeqMonotonic
    <3>3. Len(s) \in Nat
      BY LenProperties
    <3>4. QED BY <3>2, <3>3
  <2>2. QED BY <2>1, Zenon
<1>4. Strings \in Seq(Seq(Byte))
  <2>1. Seq(Byte \ {0}) \subseteq Seq(Byte)
    BY <1>3, Zenon
  <2>2. QED BY <1>1, <2>1, SeqMonotonic
<1>5. \A s \in ToSet(Strings) \cup Others : s \in Seq(Byte \ {0})
  BY <1>1, ElementOfSeq DEF ToSet
<1>6. Len(Strings) \in Nat /\ Len(Strings) < 2147483647
  BY <1>2, <1>4, LenProperties
<1>7. QED BY <1>2, <1>3, <1>4, <1>5, <1>6, SMT DEF Countable

(* A string has an index on the other side just when it has one here.       *)
LEMMA ReferencesAgree ==
    ASSUME NEW next \in Nat, NEW length \in Nat
    PROVE  IsReferenced(next, length) <=> length >= LeastIndexed(next)
<1>1. CASE next < 24
  <2>1. ~ (next >= 24 /\ next < 256) /\ ~ (next >= 256 /\ next < 2 ^ 16) /\ ~ (next >= 2 ^ 16)
    BY <1>1, SMT
  <2>2. QED BY <1>1, <2>1, ZenonT(60) DEF IsReferenced, LeastIndexed
<1>2. CASE next >= 24 /\ next < 256
  <2>1. ~ (next < 24) /\ ~ (next >= 256 /\ next < 2 ^ 16) /\ ~ (next >= 2 ^ 16)
    BY <1>2, SMT
  <2>2. QED BY <1>2, <2>1, ZenonT(60) DEF IsReferenced, LeastIndexed
<1>3. CASE next >= 256 /\ next < 2 ^ 16
  <2>1. ~ (next < 24) /\ ~ (next >= 24 /\ next < 256) /\ ~ (next < 256) /\ ~ (next >= 2 ^ 16)
    BY <1>3, SMT
  <2>2. QED BY <1>3, <2>1, Zenon DEF IsReferenced, LeastIndexed
<1>4. CASE next >= 2 ^ 16
  <2>1. /\ ~ (next < 24) /\ ~ (next >= 24 /\ next < 256) /\ ~ (next < 256)
        /\ ~ (next >= 256 /\ next < 2 ^ 16) /\ ~ (next < 2 ^ 16)
    BY <1>4, SMT
  <2>2. QED BY <1>4, <2>1, Zenon DEF IsReferenced, LeastIndexed
<1>5. \/ next < 24
      \/ next >= 24 /\ next < 256
      \/ next >= 256 /\ next < 2 ^ 16
      \/ next >= 2 ^ 16
  BY SMT
<1>6. QED BY <1>1, <1>2, <1>3, <1>4, <1>5, Zenon

LEMMA FindReferenceParts ==
    ASSUME NEW d, d.strings \in Seq(Seq(Byte)), NEW s
    PROVE  /\ s \in ToSet(d.strings) =>
                /\ FindReference(d, s) \in 0 .. Len(d.strings) - 1
                /\ d.strings[FindReference(d, s) + 1] = s
           /\ s \notin ToSet(d.strings) => FindReference(d, s) = Len(d.strings)
<1> DEFINE I == {i \in 1 .. Len(d.strings) : d.strings[i] = s}
<1>1. ASSUME s \in ToSet(d.strings)
      PROVE  /\ FindReference(d, s) \in 0 .. Len(d.strings) - 1
             /\ d.strings[FindReference(d, s) + 1] = s
  <2>1. I \in SUBSET Nat /\ I # {}
    BY <1>1 DEF ToSet
  <2>2. PICK x \in I : \A y \in I : x <= y
    BY <2>1, Smallest, Zenon
  <2>3. Min(I) \in I
    BY <2>2, Zenon DEF Min
  <2>4. FindReference(d, s) = Min(I) - 1
    BY <1>1, <2>1, Zenon DEF FindReference, SelectInSeq
  <2>5. QED
    <3> DEFINE m == Min(I)
    <3>1. m \in 1 .. Len(d.strings) /\ d.strings[m] = s
      BY <2>3, Zenon
    <3> HIDE DEF m
    <3>2. m - 1 + 1 = m /\ m - 1 \in 0 .. Len(d.strings) - 1
      BY <3>1, LenProperties
    <3>3. QED BY <2>4, <3>1, <3>2, Zenon DEF m
<1>2. QED BY <1>1, Zenon DEF FindReference

Swapped(strings, i, j) == [strings EXCEPT ![i] = strings[j], ![j] = strings[i]]

Exchanged(S, strings, i, j) ==
    LET after == Swapped(strings, i, j)
    IN /\ after \in Seq(S) /\ Len(after) = Len(strings)
       /\ ToSet(after) = ToSet(strings)
       /\ IsInjective(strings) => IsInjective(after)
       /\ after[i] = strings[j]
       /\ \A k \in 1 .. Len(strings) : k \notin {i, j} => after[k] = strings[k]

(* Two strings that change places.                                          *)
LEMMA SwapParts ==
    ASSUME NEW S, NEW strings \in Seq(S), NEW i \in 1 .. Len(strings),
           NEW j \in 1 .. Len(strings)
    PROVE  Exchanged(S, strings, i, j)
<1> DEFINE after == Swapped(strings, i, j)
           n == Len(strings)
           From(k) == IF k = i THEN j ELSE IF k = j THEN i ELSE k
<1>1. strings \in [1 .. n -> S] /\ n \in Nat /\ i \in 1 .. n /\ j \in 1 .. n
  BY LenProperties
<1> HIDE DEF n
<1>2. /\ after \in [1 .. n -> S]
      /\ \A k \in 1 .. n : after[k] = strings[From(k)]
  BY <1>1, SMT DEF Swapped
<1> HIDE DEF after
<1>3. after \in Seq(S) /\ Len(after) = n
  <2>1. Seq(S) = UNION {[1 .. m -> S] : m \in Nat}
    BY SeqDef, Zenon
  <2>2. after \in Seq(S)
    BY <1>1, <1>2, <2>1, Zenon
  <2>3. DOMAIN after = 1 .. n /\ DOMAIN after = 1 .. Len(after) /\ Len(after) \in Nat
    BY <1>2, <2>2, LenProperties
  <2>4. QED BY <1>1, <2>2, <2>3
<1>4. \A k \in 1 .. n : From(k) \in 1 .. n /\ From(From(k)) = k
  BY <1>1, Zenon
<1> HIDE DEF From
<1>5. ToSet(after) = ToSet(strings)
  <2>1. ASSUME NEW x \in ToSet(after) PROVE x \in ToSet(strings)
    BY <1>1, <1>2, <1>4, <2>1, Zenon DEF ToSet
  <2>2. ASSUME NEW x \in ToSet(strings) PROVE x \in ToSet(after)
    <3>1. PICK k \in 1 .. n : x = strings[k]
      BY <1>1, <2>2, Zenon DEF ToSet
    <3>2. after[From(k)] = x /\ From(k) \in DOMAIN after
      BY <1>2, <1>4, <3>1, Zenon
    <3>3. QED BY <3>2, Zenon DEF ToSet
  <2>3. QED BY <2>1, <2>2, Zenon
<1>6. ASSUME IsInjective(strings) PROVE IsInjective(after)
  <2>1. ASSUME NEW a \in 1 .. n, NEW b \in 1 .. n, after[a] = after[b] PROVE a = b
    <3>1. strings[From(a)] = strings[From(b)] /\ From(a) \in 1 .. n /\ From(b) \in 1 .. n
      BY <1>2, <1>4, <2>1, Zenon
    <3>2. From(a) = From(b)
      BY <1>1, <1>6, <3>1, Zenon DEF IsInjective
    <3>3. QED BY <1>4, <3>2, Zenon
  <2>2. QED BY <1>2, <2>1, Zenon DEF IsInjective
<1>7. QED BY <1>1, <1>2, <1>3, <1>5, <1>6, ZenonT(60) DEF Exchanged, From, after, n

LEMMA DomainWith ==
    ASSUME NEW d \in Domains, NEW strings \in Seq(Seq(Byte)), NEW n \in Nat
    PROVE  [d EXCEPT !.emitted = n, !.strings = strings] \in Domains
  BY ZenonT(30) DEF Domains

Renewed(d, s, r) ==
    /\ Arranged(r.domain) /\ r.domain.live /\ r.domain.shared = d.shared
    /\ IsReferenced(d.emitted, Len(s)) =>
          /\ r.bytes = IF d.shared THEN Tag(Shareable) ELSE <<>>
          /\ \A table, type : Knows(table, d) => Knows(Append(table, Text(type, s)), r.domain)
    /\ ~ IsReferenced(d.emitted, Len(s)) => r.bytes = <<>> /\ r.domain = d

LEMMA TextParts ==
    ASSUME NEW s \in Seq(Byte), NEW type
    PROVE  Text(type, s) \in Texts /\ Text(type, s)[2] = s
<1>1. CASE type = Utf8String
  BY <1>1 DEF Text, Texts
<1>2. CASE type # Utf8String
  BY <1>2 DEF Text, Texts
<1>3. QED BY <1>1, <1>2, Zenon

(* A string that is long enough takes the next index, on both sides.        *)
LEMMA NewReferenceParts ==
    ASSUME NEW d, Arranged(d), d.live, NEW index \in Nat,
           index >= d.emitted, index < Len(d.strings)
    PROVE  Renewed(d, d.strings[index + 1], NewReference(d, index))
<1> DEFINE r == NewReference(d, index)
           e == d.emitted
           s == d.strings[index + 1]
           L == Len(d.strings)
<1>1. /\ d \in Domains /\ d.strings \in Seq(Seq(Byte)) /\ e \in Nat /\ L \in Nat
      /\ d.shared \in BOOLEAN /\ d.live \in BOOLEAN
      /\ L = Len(Strings) /\ ToSet(d.strings) = ToSet(Strings)
      /\ IsInjective(d.strings) /\ e <= L
      /\ \A i \in 1 .. e : IsReferenced(i - 1, Len(d.strings[i]))
      /\ index >= e /\ index < L
  BY LenProperties DEF Arranged, Domains
<1> HIDE DEF r, e, s, L
<1>2. e + 1 \in 1 .. L /\ index + 1 \in 1 .. L
  BY <1>1
<1>3. CASE ~ IsReferenced(e, Len(s))
  <2>1. r = [bytes |-> <<>>, domain |-> d]
    BY <1>3, Zenon DEF NewReference, r, e, s
  <2>2. r.bytes = <<>> /\ r.domain = d
    BY <2>1
  <2>3. QED BY <1>3, <2>2, Zenon DEF Renewed, r, s, e
<1>4. CASE IsReferenced(e, Len(s))
  <2> DEFINE after == Swapped(d.strings, e + 1, index + 1)
             d2 == [d EXCEPT !.emitted = e + 1,
                             !.strings[e + 1] = d.strings[index + 1],
                             !.strings[index + 1] = d.strings[e + 1]]
  <2>1. r = [bytes |-> IF d.shared THEN Tag(Shareable) ELSE <<>>, domain |-> d2]
    BY <1>4, Zenon DEF NewReference, r, e, s
  <2>2. r.bytes = (IF d.shared THEN Tag(Shareable) ELSE <<>>) /\ r.domain = d2
    <3> HIDE DEF d2
    <3>1. QED BY <2>1
  <2>3. /\ after \in Seq(Seq(Byte)) /\ Len(after) = L
        /\ ToSet(after) = ToSet(d.strings) /\ IsInjective(after)
        /\ after[e + 1] = s
        /\ \A k \in 1 .. L : k \notin {e + 1, index + 1} => after[k] = d.strings[k]
    <3> DEFINE i == e + 1
               j == index + 1
               strings == d.strings
    <3>1. strings \in Seq(Seq(Byte)) /\ i \in 1 .. Len(strings) /\ j \in 1 .. Len(strings)
          /\ L = Len(strings) /\ IsInjective(strings) /\ strings[j] = s
      BY <1>1, <1>2, Zenon DEF L, s
    <3> HIDE DEF i, j, strings
    <3>2. /\ Swapped(strings, i, j) \in Seq(Seq(Byte))
          /\ Len(Swapped(strings, i, j)) = L
          /\ ToSet(Swapped(strings, i, j)) = ToSet(strings)
          /\ IsInjective(Swapped(strings, i, j))
          /\ Swapped(strings, i, j)[i] = s
          /\ \A k \in 1 .. L : k \notin {i, j} => Swapped(strings, i, j)[k] = strings[k]
      <4>1. Exchanged(Seq(Byte), strings, i, j)
        BY <3>1, SwapParts, Zenon
      <4>2. QED BY <3>1, <4>1, Zenon DEF Exchanged
    <3>3. QED BY <3>2, Zenon DEF i, j, strings
  <2>4. /\ d2.emitted = e + 1 /\ d2.strings = after /\ d2.shared = d.shared
        /\ d2.live = d.live /\ d2 \in Domains
    <3>1. /\ d2.emitted = e + 1 /\ d2.shared = d.shared /\ d2.live = d.live
          /\ d2.strings = after
      BY <1>1 DEF Domains, Swapped, e
    <3>2. d2 \in Domains
      <4>1. d2 = [d EXCEPT !.emitted = e + 1, !.strings = after]
        BY <1>1 DEF Domains, Swapped
      <4> HIDE DEF after
      <4>2. [d EXCEPT !.emitted = e + 1, !.strings = after] \in Domains
        <5>1. d \in Domains /\ after \in Seq(Seq(Byte)) /\ e + 1 \in Nat
          BY <1>1, <2>3
        <5>2. QED BY <5>1, DomainWith, Zenon
      <4>3. QED BY <4>1, <4>2, Zenon
    <3>3. QED BY <3>1, <3>2, Zenon
  <2> HIDE DEF after, d2
  <2>5. \A k \in 1 .. e : after[k] = d.strings[k]
    <3>1. \A k \in 1 .. e : k \in 1 .. L /\ k \notin {e + 1, index + 1}
      BY <1>1
    <3>2. QED BY <2>3, <3>1, Zenon
  <2>6. Arranged(d2)
    <3>1. \A i \in 1 .. e + 1 : IsReferenced(i - 1, Len(after[i]))
      <4>1. ASSUME NEW i \in 1 .. e + 1 PROVE IsReferenced(i - 1, Len(after[i]))
        <5>1. CASE i \in 1 .. e
          BY <1>1, <2>5, <5>1, Zenon
        <5>2. CASE i = e + 1
          <6>1. i - 1 = e
            BY <1>1, <5>2
          <6>2. QED BY <1>4, <2>3, <5>2, <6>1, Zenon
        <5>3. QED BY <1>1, <5>1, <5>2
      <4>2. QED BY <4>1, Zenon
    <3>2. e + 1 <= L
      BY <1>2
    <3>3. QED BY <1>1, <2>3, <2>4, <3>1, <3>2, Zenon DEF Arranged
  <2>7. ASSUME NEW table, NEW type, Knows(table, d)
        PROVE  Knows(Append(table, Text(type, s)), d2)
    <3> DEFINE t == Text(type, s)
    <3>1. s \in Seq(Byte)
      BY <1>1, <1>2, ElementOfSeq DEF s, L
    <3>2. t \in Texts /\ t[2] = s
      BY <3>1, TextParts, Zenon
    <3>3. /\ table \in Seq(Texts) /\ Len(table) = e
          /\ \A i \in 1 .. e : table[i][2] = d.strings[i]
      BY <2>7, Zenon DEF Knows, e
    <3> HIDE DEF t
    <3>4. /\ Append(table, t) \in Seq(Texts) /\ Len(Append(table, t)) = e + 1
          /\ \A i \in 1 .. e : Append(table, t)[i] = table[i]
          /\ Append(table, t)[e + 1] = t
      BY <3>2, <3>3, AppendProperties
    <3>5. ASSUME NEW i \in 1 .. e + 1 PROVE Append(table, t)[i][2] = after[i]
      <4>1. CASE i \in 1 .. e
        BY <2>5, <3>3, <3>4, <4>1, Zenon
      <4>2. CASE i = e + 1
        BY <2>3, <3>2, <3>4, <4>2, Zenon
      <4>3. i \in 1 .. e \/ i = e + 1
        BY <1>1
      <4>4. QED BY <4>1, <4>2, <4>3, Zenon
    <3>6. QED BY <1>4, <2>4, <3>4, <3>5, Zenon DEF Knows, t
  <2>8. QED BY <1>4, <2>2, <2>4, <2>6, <2>7, Zenon DEF Renewed, r, s, e
<1>5. QED BY <1>3, <1>4, Zenon DEF r, s, e

(* What a string says, and what the other side has then, by how it is sent.  *)
Sent(bytes, type, s, table, shared, after) ==
    /\ bytes \in Seq(Byte) /\ bytes # <<>> /\ <<Text(type, s)>> \in Seq(Items)
    /\ AsMeant(bytes, <<Text(type, s)>>, table)
    /\ Indexed(bytes, table, shared) = after

LEMMA LiteralSent ==
    ASSUME NEW s \in Seq(Byte), Countable(Len(s)), NEW table \in Seq(Items),
           NEW shared \in BOOLEAN, NEW type \in StringTypes
    PROVE  Sent(Literal(type, s), type, s, table, shared,
                IF ~ shared /\ IsReferenced(Len(table), Len(s))
                THEN Append(table, Text(type, s)) ELSE table)
<1> DEFINE head == HeadOf(Literal(type, s))
<1>1. /\ Literal(type, s) \in Seq(Byte) /\ Literal(type, s) # <<>>
      /\ IsString(head) /\ Value(head.number) = Len(s) /\ ReadAs(head) = Text(type, s)
      /\ TagOf(head) = -1 /\ Meaning(Literal(type, s), table) = <<Text(type, s)>>
      /\ Text(type, s) \in Items
  BY StringRead, Zenon
<1>2. <<Text(type, s)>> \in Seq(Items)
  BY <1>1
<1>3. -1 # Shareable
  BY SMT DEF Shareable
<1>4. IsReferenced(Len(table), Len(s)) <=> Len(s) >= LeastIndexed(Len(table))
  <2>1. Len(table) \in Nat /\ Len(s) \in Nat
    BY LenProperties
  <2>2. QED BY <2>1, ReferencesAgree, Zenon
<1>5. Indexed(Literal(type, s), table, shared) =
        (IF ~ shared /\ IsReferenced(Len(table), Len(s))
         THEN Append(table, Text(type, s)) ELSE table)
  BY <1>1, <1>3, <1>4, Zenon DEF Indexed
<1>6. QED BY <1>1, <1>2, <1>5, Zenon DEF Sent, AsMeant

(* Behind a tag: the next shared value, or a domain of its own.             *)
LEMMA TaggedSent ==
    ASSUME NEW s \in Seq(Byte), Countable(Len(s)), NEW table \in Seq(Items),
           NEW type \in StringTypes
    PROVE  /\ Sent(Tag(Shareable) \o Literal(type, s), type, s, table, TRUE, Append(table, Text(type, s)))
           /\ Sent(Tag(StringRefDomain) \o Literal(type, s), type, s, table, FALSE, table)
<1> DEFINE lit == Literal(type, s)
<1>1. /\ lit \in Seq(Byte) /\ lit # <<>> /\ Whole(HeadOf(lit)) = <<Text(type, s)>>
      /\ Text(type, s) \in Items
  BY StringRead, Zenon
<1> HIDE DEF lit
<1>2. <<Text(type, s)>> \in Seq(Items)
  BY <1>1
<1>3. ASSUME NEW n, Countable(n)
      PROVE  LET w == Tag(n) \o lit
             IN /\ w \in Seq(Byte) /\ w # <<>> /\ HeadOf(w).rest = lit
                /\ TagOf(HeadOf(w)) = n /\ ~ IsString(HeadOf(w))
  <2>1. /\ Tag(n) \o lit \in Seq(Byte) /\ Tag(n) \o lit # <<>>
        /\ HeadOf(Tag(n) \o lit).rest = lit
        /\ TagOf(HeadOf(Tag(n) \o lit)) = n
        /\ ~ IsString(HeadOf(Tag(n) \o lit))
    BY <1>1, <1>3, TagRead, Zenon
  <2>2. QED BY <2>1, Zenon
<1>4. Countable(Shareable) /\ Countable(StringRefDomain)
  BY SMT DEF Countable, Shareable, StringRefDomain
<1>5. Sent(Tag(Shareable) \o lit, type, s, table, TRUE, Append(table, Text(type, s)))
  <2> DEFINE w == Tag(Shareable) \o lit
  <2>1. /\ w \in Seq(Byte) /\ w # <<>> /\ HeadOf(w).rest = lit
        /\ TagOf(HeadOf(w)) = Shareable
    BY <1>3, <1>4, Zenon
  <2> HIDE DEF w
  <2>2. Meaning(w, table) = <<Text(type, s)>>
    BY <1>1, <2>1, MeaningParts, Zenon
  <2>3. Indexed(w, table, TRUE) = table \o <<Text(type, s)>>
    BY <1>1, <2>1, Zenon DEF Indexed
  <2>4. table \o <<Text(type, s)>> = Append(table, Text(type, s))
    BY <1>1, AppendIsConcat, Zenon
  <2>5. QED BY <1>2, <2>1, <2>2, <2>3, <2>4, Zenon DEF Sent, AsMeant, w
<1>6. Sent(Tag(StringRefDomain) \o lit, type, s, table, FALSE, table)
  <2> DEFINE w == Tag(StringRefDomain) \o lit
  <2>1. /\ w \in Seq(Byte) /\ w # <<>> /\ HeadOf(w).rest = lit
        /\ TagOf(HeadOf(w)) = StringRefDomain /\ ~ IsString(HeadOf(w))
    BY <1>3, <1>4, Zenon
  <2> HIDE DEF w
  <2>2. Meaning(w, table) = <<Text(type, s)>>
    BY <1>1, <2>1, MeaningParts, Zenon
  <2>3. Indexed(w, table, FALSE) = table
    BY <2>1, Zenon DEF Indexed
  <2>4. QED BY <1>2, <2>1, <2>2, <2>3, Zenon DEF Sent, AsMeant, w
<1>7. QED BY <1>5, <1>6, Zenon DEF lit

LEMMA TextsAreItems == Texts \subseteq Items
  BY DEF Texts, Items, Kinds

(* A reference to one that has an index.                                    *)
LEMMA ReferenceSent ==
    ASSUME NEW d, NEW table \in Seq(Items), NEW index \in Nat, Countable(index),
           index < Len(table), NEW s \in Seq(Byte), table[index + 1][2] = s,
           NEW type \in StringTypes, d.shared \in BOOLEAN
    PROVE  /\ Sent(ReferenceTo(d, index), type, s, table, d.shared, table)
           /\ ReferenceTo(d, index) =
                 Tag(IF d.shared THEN SharedValue ELSE StringRef)
                   \o SendItem(UnsignedInt, Count(index))
<1> DEFINE n == IF d.shared THEN SharedValue ELSE StringRef
           item == SendItem(UnsignedInt, Count(index))
           w == Tag(n) \o item
<1>1. Count(index) \in Number /\ Value(Count(index)) = index /\ Count(index)[1] = 0
  <2>1. 1 \in 1 .. 4
    OBVIOUS
  <2>2. QED BY <2>1, CountParts, Zenon
<1>2. SignedInt(Count(index)) = item
  <2>1. ~ (Count(index)[1] >= 128)
    BY <1>1
  <2>2. QED BY <2>1, Zenon DEF SignedInt
<1>3. ReferenceTo(d, index) = w
  BY <1>2, Zenon DEF ReferenceTo
<1>4. /\ Countable(n) /\ n \in {StringRef, SharedValue} /\ n # Shareable
  BY SMT DEF Countable, StringRef, SharedValue, Shareable
<1>5. /\ item \in Seq(Byte) /\ HeadOf(item \o <<>>).number = Count(index)
  <2>1. UnsignedInt \in 0 .. 7 /\ <<>> \in Seq(Byte)
    BY SMT DEF UnsignedInt
  <2>2. ReadsBack(UnsignedInt, Count(index), <<>>)
    BY <1>1, <2>1, ItemReadsBack, Zenon
  <2>3. QED BY <2>2, Zenon DEF ReadsBack
<1> HIDE DEF item, n, w
<1>6. item \o <<>> = item
  BY <1>5, ConcatEmptySeq, Zenon
<1>7. /\ w \in Seq(Byte) /\ w # <<>> /\ HeadOf(w).rest = item
      /\ TagOf(HeadOf(w)) = n /\ ~ IsString(HeadOf(w))
  BY <1>4, <1>5, TagRead, Zenon DEF w
<1>8. Meaning(w, table) = <<Referent(table, index)>>
  <2>1. Value(HeadOf(HeadOf(w).rest).number) = index
    BY <1>1, <1>5, <1>6, <1>7, Zenon
  <2>2. TagOf(HeadOf(w)) \in {StringRef, SharedValue}
    BY <1>4, <1>7, Zenon
  <2>3. QED BY <2>1, <2>2, MeaningParts, Zenon
<1>9. Referent(table, index) = table[index + 1] /\ table[index + 1] \in ToSet(table)
  <2>1. index + 1 \in DOMAIN table
    BY LenProperties
  <2>2. QED BY <2>1, Zenon DEF Referent, ToSet
<1>10. <<Text(type, s)>> \in Seq(Items)
  <2>1. Text(type, s) \in Items
    BY TextParts, TextsAreItems, Zenon
  <2>2. QED BY <2>1
<1>11. Indexed(w, table, d.shared) = table
  BY <1>4, <1>7, Zenon DEF Indexed
<1>12. AsMeant(w, <<Text(type, s)>>, table)
  <2>1. Refers(w)
    BY <1>4, <1>7, Zenon DEF Refers
  <2>2. Meaning(w, table) = <<table[index + 1]>>
    BY <1>8, <1>9, Zenon
  <2>3. <<Text(type, s)>> = <<Text(type, table[index + 1][2])>>
    OBVIOUS
  <2>4. QED BY <1>9, <2>1, <2>2, <2>3, Zenon DEF AsMeant
<1>13. QED BY <1>3, <1>7, <1>10, <1>11, <1>12, Zenon DEF Sent, w, n, item

(* Whatever the caller's string, both sides go on agreeing.                 *)
LEMMA KnowsParts ==
    ASSUME NEW d, Arranged(d), d.live, NEW table, Knows(table, d)
    PROVE  /\ table \in Seq(Items) /\ Len(table) = d.emitted
           /\ \A i \in 1 .. d.emitted : table[i][2] = d.strings[i]
           /\ d.emitted \in Nat /\ d.strings \in Seq(Seq(Byte))
           /\ Len(d.strings) \in Nat /\ d.emitted <= Len(d.strings)
           /\ Countable(Len(d.strings)) /\ d.shared \in BOOLEAN
           /\ ToSet(d.strings) = ToSet(Strings)
<1> DEFINE e == d.emitted
           strings == d.strings
<1>1. /\ e \in Nat /\ strings \in Seq(Seq(Byte)) /\ Len(strings) \in Nat
      /\ e <= Len(strings) /\ Len(strings) = Len(Strings) /\ d.shared \in BOOLEAN
      /\ ToSet(strings) = ToSet(Strings)
  BY LenProperties DEF Arranged, Domains
<1>2. Countable(Len(strings))
  BY <1>1, StringParts, Zenon
<1>3. /\ table \in Seq(Texts) /\ Len(table) = e
      /\ \A i \in 1 .. e : table[i][2] = strings[i]
  BY Zenon DEF Knows
<1>4. table \in Seq(Items)
  BY <1>3, TextsAreItems
<1>5. QED BY <1>1, <1>2, <1>3, <1>4, Zenon DEF e, strings

LEMMA EmitReferenceSays ==
    ASSUME NEW d, Arranged(d), d.live, NEW s \in ToSet(Strings) \cup Others,
           NEW type \in StringTypes, NEW table, Knows(table, d)
    PROVE  LET r == EmitReference(d, type, s)
           IN /\ Arranged(r.domain) /\ r.domain.live /\ r.domain.shared = d.shared
              /\ \E after : /\ Sent(r.bytes, type, s, table, d.shared, after)
                            /\ Knows(after, r.domain)
<1> DEFINE r == EmitReference(d, type, s)
           index == FindReference(d, s)
           new == NewReference(d, index)
           L == Len(d.strings)
           e == d.emitted
<1>1. s \in Seq(Byte) /\ Countable(Len(s))
  BY StringParts, Zenon
<1>2. /\ table \in Seq(Items) /\ Len(table) = e
      /\ \A i \in 1 .. e : table[i][2] = d.strings[i]
      /\ e \in Nat /\ L \in Nat /\ e <= L
      /\ Countable(L) /\ d.shared \in BOOLEAN
      /\ ToSet(d.strings) = ToSet(Strings) /\ d.strings \in Seq(Seq(Byte))
  BY KnowsParts, Zenon
<1>3. r = (CASE index = L ->
                  [bytes |-> (IF d.shared THEN <<>> ELSE Tag(StringRefDomain)) \o Literal(type, s),
                   domain |-> d]
             [] index < e -> [bytes |-> ReferenceTo(d, index), domain |-> d]
             [] index >= e /\ index < L ->
                  [bytes |-> new.bytes \o Literal(type, s), domain |-> new.domain])
  BY Zenon DEF EmitReference
<1>4. /\ s \in ToSet(d.strings) => index \in 0 .. L - 1 /\ d.strings[index + 1] = s
      /\ s \notin ToSet(d.strings) => index = L
  BY <1>2, FindReferenceParts, Zenon
<1>5. Literal(type, s) \in Seq(Byte)
  BY <1>1, StringRead, Zenon
<1>6. <<>> \o Literal(type, s) = Literal(type, s)
  BY <1>5, ConcatEmptySeq, Zenon
<1>7. Sent(Literal(type, s), type, s, table, d.shared,
           IF ~ d.shared /\ IsReferenced(e, Len(s)) THEN Append(table, Text(type, s)) ELSE table)
  BY <1>1, <1>2, LiteralSent, Zenon
<1> HIDE DEF r, index, new, L, e
<1>8. CASE s \notin ToSet(d.strings)
  <2>1. ~ (index < e) /\ ~ (index < L)
    BY <1>2, <1>4, <1>8
  <2> DEFINE w == (IF d.shared THEN <<>> ELSE Tag(StringRefDomain)) \o Literal(type, s)
  <2>2. r = [bytes |-> w, domain |-> d]
    BY <1>3, <1>4, <1>8, <2>1, Zenon
  <2> HIDE DEF w
  <2>3. r.bytes = w /\ r.domain = d
    BY <2>2
  <2>4. Sent(w, type, s, table, d.shared, table)
    <3>1. CASE d.shared
      BY <1>2, <1>6, <1>7, <3>1, Zenon DEF w
    <3>2. CASE ~ d.shared
      <4>1. d.shared = FALSE
        BY <1>2, <3>2
      <4>2. Sent(Tag(StringRefDomain) \o Literal(type, s), type, s, table, FALSE, table)
        BY <1>1, <1>2, TaggedSent, Zenon
      <4>3. QED BY <3>2, <4>1, <4>2, Zenon DEF w
    <3>3. QED BY <3>1, <3>2, Zenon
  <2>5. QED BY <2>3, <2>4, Zenon DEF r
<1>9. CASE s \in ToSet(d.strings) /\ index < e
  <2>1. ~ (index = L) /\ ~ (index >= e) /\ index \in Nat /\ index + 1 \in 1 .. e
        /\ d.strings[index + 1] = s
    BY <1>2, <1>4, <1>9
  <2>2. r = [bytes |-> ReferenceTo(d, index), domain |-> d]
    BY <1>3, <1>9, <2>1, Zenon
  <2>3. r.bytes = ReferenceTo(d, index) /\ r.domain = d
    BY <2>2
  <2>4. table[index + 1][2] = s /\ index < Len(table)
    BY <1>2, <1>9, <2>1, Zenon
  <2>5. Countable(index)
    BY <1>2, <1>9, <2>1, SMT DEF Countable
  <2>6. Sent(ReferenceTo(d, index), type, s, table, d.shared, table)
    BY <1>1, <1>2, <2>1, <2>4, <2>5, ReferenceSent, Zenon
  <2>7. QED BY <2>3, <2>6, Zenon DEF r
<1>10. CASE s \in ToSet(d.strings) /\ index >= e
  <2>1. ~ (index = L) /\ ~ (index < e) /\ index \in Nat /\ index < L
        /\ d.strings[index + 1] = s
    <3>1. index \in 0 .. L - 1 /\ d.strings[index + 1] = s
      BY <1>4, <1>10, Zenon
    <3>2. QED BY <1>2, <1>10, <3>1
  <2>2. r = [bytes |-> new.bytes \o Literal(type, s), domain |-> new.domain]
    BY <1>3, <1>10, <2>1, Zenon
  <2>3. r.bytes = new.bytes \o Literal(type, s) /\ r.domain = new.domain
    BY <2>2
  <2>4. /\ Arranged(new.domain) /\ new.domain.live /\ new.domain.shared = d.shared
        /\ IsReferenced(e, Len(s)) =>
              /\ new.bytes = IF d.shared THEN Tag(Shareable) ELSE <<>>
              /\ Knows(Append(table, Text(type, s)), new.domain)
        /\ ~ IsReferenced(e, Len(s)) => new.bytes = <<>> /\ new.domain = d
    <3>1. index >= d.emitted /\ index < Len(d.strings)
      BY <1>10, <2>1, Zenon DEF e, L
    <3>2. d.strings[index + 1] = s
      BY <2>1
    <3>3. Renewed(d, d.strings[index + 1], new)
      BY <2>1, <3>1, NewReferenceParts, Zenon DEF new
    <3>4. QED BY <3>2, <3>3, Zenon DEF Renewed, e
  <2>5. \E after : /\ Sent(new.bytes \o Literal(type, s), type, s, table, d.shared, after)
                   /\ Knows(after, new.domain)
    <3>1. CASE ~ IsReferenced(e, Len(s))
      BY <1>6, <1>7, <2>4, <3>1, Zenon
    <3>2. CASE IsReferenced(e, Len(s)) /\ d.shared
      <4>1. d.shared = TRUE
        BY <1>2, <3>2
      <4>2. Sent(Tag(Shareable) \o Literal(type, s), type, s, table, TRUE, Append(table, Text(type, s)))
        BY <1>1, <1>2, TaggedSent, Zenon
      <4>3. QED BY <2>4, <3>2, <4>1, <4>2, Zenon
    <3>3. CASE IsReferenced(e, Len(s)) /\ ~ d.shared
      BY <1>6, <1>7, <2>4, <3>3, Zenon
    <3>4. QED BY <3>1, <3>2, <3>3, Zenon
  <2>6. QED BY <2>3, <2>4, <2>5, Zenon DEF r
<1>11. s \in ToSet(d.strings) => index < e \/ index >= e
  BY <1>2, <1>4
<1>12. QED BY <1>8, <1>9, <1>10, <1>11, Zenon DEF r

(* How long a length, an index or a tag is.                                 *)
LEMMA HeadLength ==
    ASSUME NEW type \in 0 .. 7, NEW n, Countable(n)
    PROVE  LET length == Len(SendItem(type, Count(n)))
           IN /\ length \in 1 .. 5
              /\ n < 24 => length <= 1
              /\ n < 256 => length <= 2
              /\ n < 2 ^ 16 => length <= 3
<1> DEFINE number == Count(n)
           item == SendItem(type, number)
<1>1. /\ number \in Number
      /\ \A j \in 1 .. 4 : number[j] = 0
      /\ n < 256 => number[8] = n /\ \A j \in 1 .. 7 : number[j] = 0
      /\ n < 2 ^ 16 => \A j \in 1 .. 6 : number[j] = 0
  BY CountParts, Zenon
<1> HIDE DEF number, item
<1>2. PICK size \in {0, 1, 2, 4, 8}, info \in Nat : ItemOf(item, type, number, size, info)
  BY <1>1, ItemParts, Zenon DEF item
<1>3. Len(item) = 1 + size
  <2> DEFINE b == type * 32 + info
             data == SubSeq(number, 9 - size, 8)
  <2>1. item = <<b>> \o data
    BY <1>2, Zenon DEF ItemOf
  <2>2. b \in Nat
    BY SMT
  <2> HIDE DEF b
  <2>3. data \in Seq(Nat) /\ Len(data) = size
    <3>1. /\ 9 - size \in Int /\ 8 \in Int /\ \A i \in 9 - size .. 8 : number[i] \in Nat
      BY <1>1, SMT DEF Number, Byte
    <3>2. data \in Seq(Nat) /\ Len(data) = IF 9 - size <= 8 THEN 8 - (9 - size) + 1 ELSE 0
      BY <3>1, SubSeqProperties
    <3> HIDE DEF data
    <3>3. QED BY <3>2
  <2> HIDE DEF data
  <2>4. <<b>> \in Seq(Nat) /\ Len(<<b>>) = 1
    BY <2>2
  <2>5. Len(<<b>> \o data) = Len(<<b>>) + Len(data)
    BY <2>3, <2>4, ConcatProperties
  <2>6. QED BY <2>1, <2>3, <2>4, <2>5
<1>4. size # 8
  <2>1. size = 8 => \E j \in 1 .. 4 : number[j] # 0
    BY <1>2, Zenon DEF ItemOf
  <2>2. QED BY <1>1, <2>1, Zenon
<1>5. n < 2 ^ 16 => size # 4
  <2>1. size = 4 => \E j \in 5 .. 6 : number[j] # 0
    BY <1>2, Zenon DEF ItemOf
  <2>2. \A j \in 5 .. 6 : j \in 1 .. 6
    BY SMT
  <2>3. QED BY <1>1, <2>1, <2>2, Zenon
<1>6. n < 256 => size # 2
  <2>1. size = 2 => number[7] # 0
    BY <1>2, Zenon DEF ItemOf
  <2>2. 7 \in 1 .. 7
    BY SMT
  <2>3. QED BY <1>1, <2>1, <2>2, Zenon
<1>7. n < 24 => size # 1
  <2>1. size = 1 => number[8] >= 24
    BY <1>2, Zenon DEF ItemOf
  <2>2. n < 24 => n < 256 /\ ~ (n >= 24)
    BY SMT DEF Countable
  <2>3. QED BY <1>1, <2>1, <2>2, Zenon
<1>8. n < 24 => n < 256
  BY SMT DEF Countable
<1>9. n < 256 => n < 2 ^ 16
  BY SMT DEF Countable
<1>10. /\ Len(item) \in 1 .. 5
       /\ n < 24 => Len(item) <= 1
  BY <1>3, <1>4, <1>5, <1>6, <1>7, <1>8, <1>9, SMT
<1>11. n < 256 => Len(item) <= 2
  BY <1>3, <1>4, <1>5, <1>6, <1>9, SMT
<1>12. n < 2 ^ 16 => Len(item) <= 3
  BY <1>3, <1>4, <1>5, SMT
<1>13. QED BY <1>3, <1>4, <1>10, <1>11, <1>12, Zenon DEF item, number

(* No reference is as long as the string it stands for.                     *)
LEMMA ArrangedPays ==
    ASSUME NEW d, Arranged(d), NEW i \in 1 .. d.emitted, NEW type \in StringTypes
    PROVE  Len(ReferenceTo(d, i - 1)) < Len(Literal(type, d.strings[i]))
<1> DEFINE n == i - 1
           s == d.strings[i]
           tag == IF d.shared THEN SharedValue ELSE StringRef
           item == SendItem(UnsignedInt, Count(n))
<1>1. /\ n \in Nat /\ IsReferenced(n, Len(s)) /\ d.strings \in Seq(Seq(Byte))
      /\ i \in 1 .. Len(d.strings) /\ n < Len(Strings) /\ Len(d.strings) = Len(Strings)
      /\ ToSet(d.strings) = ToSet(Strings)
  BY LenProperties DEF Arranged, Domains
<1>2. s \in Seq(Byte) /\ Countable(Len(s)) /\ Len(s) \in Nat
  <2>1. s \in ToSet(d.strings)
    BY <1>1, LenProperties DEF ToSet
  <2>2. s \in Seq(Byte) /\ Countable(Len(s))
    BY <1>1, <2>1, StringParts, Zenon
  <2>3. QED BY <2>2, LenProperties
<1>3. Countable(n)
  BY <1>1, StringParts, SMT DEF Countable
<1> HIDE DEF n, s, tag, item
<1>4. Len(Literal(type, s)) >= 1 + Len(s)
  <2> DEFINE head == SendItem(type, Count(Len(s)))
  <2>1. type \in 0 .. 7
    BY SMT DEF StringTypes, Utf8String, ByteString
  <2>2. Len(head) \in 1 .. 5
    BY <1>2, <2>1, HeadLength, Zenon
  <2>3. head \in Seq(Byte)
    <3>1. Count(Len(s)) \in Number
      BY <1>2, CountParts, Zenon
    <3>2. ReadsBack(type, Count(Len(s)), s)
      BY <1>2, <2>1, <3>1, ItemReadsBack, Zenon
    <3>3. QED BY <3>2, Zenon DEF ReadsBack
  <2> HIDE DEF head
  <2>4. Len(head \o s) = Len(head) + Len(s)
    BY <1>2, <2>3, ConcatProperties
  <2>5. Literal(type, s) = head \o s
    BY Zenon DEF Literal, SendTypedBytes, head
  <2>6. Len(Literal(type, s)) = Len(head) + Len(s)
    BY <2>4, <2>5, Zenon
  <2>7. \A m \in 1 .. 5, k \in Nat : m + k >= 1 + k
    BY SMT
  <2>8. QED BY <1>2, <2>2, <2>6, <2>7, Zenon
<1>5. ReferenceTo(d, n) = Tag(tag) \o item
  <2>1. ~ (Count(n)[1] >= 128)
    <3>1. 1 \in 1 .. 4 /\ ~ (0 >= 128)
      BY SMT
    <3>2. QED BY <1>3, <3>1, CountParts, Zenon
  <2>2. SignedInt(Count(n)) = item
    BY <2>1, Zenon DEF SignedInt, item
  <2>3. QED BY <2>2, Zenon DEF ReferenceTo, tag
<1>6. Countable(tag) /\ tag < 256
  BY SMT DEF Countable, tag, SharedValue, StringRef
<1>7. Tag(tag) \in Seq(Byte) /\ Len(Tag(tag)) <= 2
  <2>1. TagType \in 0 .. 7
    BY SMT DEF TagType
  <2>2. Len(Tag(tag)) <= 2
    BY <1>6, <2>1, HeadLength, Zenon DEF Tag
  <2>3. <<>> \in Seq(Byte)
    OBVIOUS
  <2>4. QED BY <1>6, <2>2, <2>3, TagRead, Zenon
<1>8. /\ item \in Seq(Byte) /\ Len(item) \in 1 .. 5
      /\ n < 24 => Len(item) <= 1
      /\ n < 256 => Len(item) <= 2
      /\ n < 2 ^ 16 => Len(item) <= 3
  <2>1. UnsignedInt \in 0 .. 7 /\ <<>> \in Seq(Byte)
    BY SMT DEF UnsignedInt
  <2>2. Count(n) \in Number
    BY <1>3, CountParts, Zenon
  <2>3. ReadsBack(UnsignedInt, Count(n), <<>>)
    BY <2>1, <2>2, ItemReadsBack, Zenon
  <2>4. item \in Seq(Byte)
    BY <2>3, Zenon DEF ReadsBack, item
  <2>5. QED BY <1>3, <2>1, <2>4, HeadLength, Zenon DEF item
<1>9. Len(Tag(tag) \o item) <= 2 + Len(item)
  <2>1. Len(Tag(tag) \o item) = Len(Tag(tag)) + Len(item) /\ Len(Tag(tag)) \in Nat
    BY <1>7, <1>8, ConcatProperties, LenProperties
  <2>2. QED BY <1>7, <1>8, <2>1
<1>10. 2 + Len(item) < 1 + Len(s)
  <2>1. Len(s) >= LeastIndexed(n)
    BY <1>1, <1>2, ReferencesAgree, Zenon
  <2> DEFINE m == Len(item)
             k == Len(s)
  <2>2. /\ n \in Nat /\ k \in Nat /\ m \in 1 .. 5 /\ k >= LeastIndexed(n)
        /\ n < 24 => m <= 1
        /\ n < 256 => m <= 2
        /\ n < 2 ^ 16 => m <= 3
    BY <1>1, <1>2, <1>8, <2>1, Zenon
  <2> HIDE DEF m, k
  <2>3. 2 + m < 1 + k
    BY <2>2, SMT DEF LeastIndexed
  <2>4. QED BY <2>3, Zenon DEF m, k
<1>11. Len(ReferenceTo(d, n)) < Len(Literal(type, s))
  <2>1. Len(Tag(tag) \o item) \in Nat /\ Len(Literal(type, s)) \in Nat
    <3>1. Tag(tag) \o item \in Seq(Byte) /\ Literal(type, s) \in Seq(Byte)
      BY <1>2, <1>7, <1>8, ConcatProperties, StringRead
    <3>2. QED BY <3>1, LenProperties
  <2>2. QED BY <1>2, <1>4, <1>5, <1>8, <1>9, <1>10, <2>1
<1>12. QED BY <1>11, Zenon DEF n, s

-----------------------------------------------------------------------------
(* The steps.                                                               *)

(* What a call leaves: more bytes, more tokens, and a script that is no     *)
(* longer than it was.                                                      *)
LEMMA SendsKeeps ==
    ASSUME NEW bytes \in Seq(Byte), NEW tokens \in Seq(Items),
           EncoderInv, Sends(bytes, tokens)
    PROVE  /\ put' \in Seq(Byte) /\ sent' \in Seq(Items)
           /\ script' \in Seq(ToSet(Strings))
           /\ Streams(out', put')
           /\ New(put', put) = bytes /\ New(sent', sent) = tokens
           /\ text' = text
<1>1. /\ put \in Seq(Byte) /\ sent \in Seq(Items) /\ script \in Seq(ToSet(Strings))
      /\ Streams(out, put)
  BY Zenon DEF EncoderInv
<1>2. /\ out' = Put(out, bytes) /\ put' = put \o bytes /\ sent' = sent \o tokens
      /\ text' = text
      /\ script = <<>> => script' = script
      /\ script # <<>> => script' = Tail(script)
  BY Zenon DEF Sends
<1>3. put' \in Seq(Byte) /\ New(put', put) = bytes
  <2>1. put \o bytes \in Seq(Byte) /\ New(put \o bytes, put) = bytes
    BY <1>1, NewOf
  <2>2. QED BY <1>2, <2>1, Zenon
<1>4. sent' \in Seq(Items) /\ New(sent', sent) = tokens
  <2>1. sent \o tokens \in Seq(Items) /\ New(sent \o tokens, sent) = tokens
    BY <1>1, NewOf
  <2>2. QED BY <1>2, <2>1, Zenon
<1>5. Streams(out', put')
  BY <1>1, <1>2, PutStreams, Zenon
<1>6. script' \in Seq(ToSet(Strings))
  <2>1. script # <<>> => Tail(script) \in Seq(ToSet(Strings))
    BY <1>1, HeadTailProperties
  <2>2. QED BY <1>1, <1>2, <2>1, Zenon
<1>7. QED BY <1>2, <1>3, <1>4, <1>5, <1>6, Zenon

(* What a call is shown to do: it keeps the invariant, and is read right.   *)
Right ==
    /\ EncoderInv'
    /\ text' = text /\ put' # put => AsMeant(New(put', put), New(sent', sent), heard)

(* A call whose bytes say what it means, and that leaves the strings alone. *)
LEMMA SaysRight ==
    ASSUME NEW bytes, NEW tokens, Says(bytes, tokens, heard),
           EncoderInv, Sends(bytes, tokens), UNCHANGED <<domain, heard>>
    PROVE  Right
<1>1. bytes \in Seq(Byte) /\ tokens \in Seq(Items) /\ Meaning(bytes, heard) = tokens
  BY Zenon DEF Says
<1>2. /\ put' \in Seq(Byte) /\ sent' \in Seq(Items)
      /\ script' \in Seq(ToSet(Strings))
      /\ Streams(out', put')
      /\ New(put', put) = bytes /\ New(sent', sent) = tokens
  BY <1>1, SendsKeeps, Zenon
<1>3. Arranged(domain)' /\ Knows(heard, domain)'
  BY Zenon DEF EncoderInv, Arranged, Knows
<1>4. EncoderInv'
  BY <1>2, <1>3, Zenon DEF EncoderInv
<1>5. QED BY <1>1, <1>2, <1>4, Zenon DEF Right, AsMeant

(* The tag that opens a domain is no item.                                  *)
LEMMA DomainSays ==
    ASSUME NEW table
    PROVE  Says(Tag(StringRefDomain), <<>>, table)
<1> DEFINE w == Tag(StringRefDomain)
<1>1. Countable(StringRefDomain) /\ <<>> \in Seq(Byte) /\ <<>> \in Seq(Items)
  BY SMT DEF Countable, StringRefDomain
<1>2. /\ w \in Seq(Byte) /\ w # <<>> /\ HeadOf(w \o <<>>).rest = <<>>
      /\ TagOf(HeadOf(w \o <<>>)) = StringRefDomain
  <2>1. ASSUME NEW rest \in Seq(Byte)
        PROVE  /\ Tag(StringRefDomain) \in Seq(Byte) /\ Tag(StringRefDomain) # <<>>
               /\ HeadOf(Tag(StringRefDomain) \o rest).rest = rest
               /\ TagOf(HeadOf(Tag(StringRefDomain) \o rest)) = StringRefDomain
    BY <1>1, TagRead, Zenon
  <2>2. QED BY <1>1, <2>1, Zenon
<1> HIDE DEF w
<1>3. w \o <<>> = w
  BY <1>2, ConcatEmptySeq, Zenon
<1>4. Meaning(w, table) = <<>>
  BY <1>2, <1>3, MeaningParts, Zenon
<1>5. QED BY <1>1, <1>2, <1>4, Zenon DEF Says, w

(* A domain begins with no string that has an index.                        *)
LEMMA DomainStarts ==
    ASSUME NEW strings \in Seq(Seq(Byte)), Len(strings) = Len(Strings),
           ToSet(strings) = ToSet(Strings), IsInjective(strings),
           NEW shared \in BOOLEAN, NEW live \in BOOLEAN, NEW d,
           d = [strings |-> strings, emitted |-> 0, shared |-> shared, live |-> live]
    PROVE  Arranged(d) /\ Knows(<<>>, d)
<1>1. /\ d \in Domains /\ d.strings = strings /\ d.emitted = 0 /\ d.live = live
  BY DEF Domains
<1>2. 0 <= Len(strings)
  BY LenProperties
<1>3. 1 .. 0 = {}
  OBVIOUS
<1>4. Arranged(d)
  <2>1. \A i \in 1 .. d.emitted : IsReferenced(i - 1, Len(d.strings[i]))
    BY <1>1, <1>3, Zenon
  <2>2. QED BY <1>1, <1>2, <2>1, Zenon DEF Arranged
<1>5. <<>> \in Seq(Texts) /\ Len(<<>>) = 0
  OBVIOUS
<1>6. QED BY <1>1, <1>3, <1>4, <1>5, Zenon DEF Knows

LEMMA StreamsEmpty ==
    ASSUME NEW o \in Streamer, o.bits = 0, o.chars = <<>>
    PROVE  Streams(o, <<>>)
  BY DEF Streams

LEMMA EncoderInit == Init => EncoderInv
<1> SUFFICES ASSUME Init PROVE EncoderInv
  OBVIOUS
<1>1. /\ Strings \in Seq(Seq(Byte)) /\ IsInjective(Strings)
      /\ heard = <<>> /\ out = Put(Fresh, put)
  BY StringParts, StringsAssumption, Zenon DEF Init
<1>2. Fresh \in Streamer /\ Streams(Fresh, <<>>)
  <2>1. Fresh \in Streamer /\ Fresh.bits = 0 /\ Fresh.chars = <<>>
    BY DEF Fresh, Streamer
  <2>2. QED BY <2>1, StreamsEmpty, Zenon
<1>3. <<>> \in Seq(Byte) /\ <<>> \in Seq(Items) /\ <<>> \in Seq(ToSet(Strings))
  OBVIOUS
<1>4. ASSUME put \in Seq(Byte) PROVE Streams(out, put)
  <2>1. <<>> \o put = put
    BY <1>4, ConcatEmptySeq, Zenon
  <2>2. Streams(Put(Fresh, put), <<>> \o put)
    BY <1>2, <1>3, <1>4, PutStreams, Zenon
  <2>3. QED BY <1>1, <2>1, <2>2, Zenon
<1>5. CASE /\ put = <<>> /\ open = <<>> /\ sent = <<>> /\ script = <<>>
           /\ domain = [Domain(Strings, FALSE) EXCEPT !.live = FALSE]
  <2>1. domain = [strings |-> Strings, emitted |-> 0, shared |-> FALSE, live |-> FALSE]
    BY <1>5 DEF Domain
  <2>2. Arranged(domain) /\ Knows(<<>>, domain)
    BY <1>1, <2>1, DomainStarts
  <2>3. QED BY <1>1, <1>3, <1>4, <1>5, <2>2, Zenon DEF EncoderInv
<1>6. ASSUME NEW n \in Before, NEW shared \in BOOLEAN,
             put = (IF shared THEN <<>> ELSE Tag(StringRefDomain))
                         \o <<InitialByte(ArrayType, Indefinite)>>,
             domain = Domain(Strings, shared),
             sent = <<<<"array", <<>>>>>>,
             script = SubSeq(Strings, 1, n)
      PROVE  EncoderInv
  <2>1. Arranged(domain) /\ Knows(<<>>, domain)
    <3>1. domain = [strings |-> Strings, emitted |-> 0, shared |-> shared, live |-> TRUE]
      BY <1>6, Zenon DEF Domain
    <3>2. QED BY <1>1, <3>1, DomainStarts
  <2>2. put \in Seq(Byte)
    <3>1. <<InitialByte(ArrayType, Indefinite)>> \in Seq(Byte)
      BY InitialSays, Zenon DEF Says
    <3>2. Tag(StringRefDomain) \in Seq(Byte)
      BY DomainSays, Zenon DEF Says
    <3>3. (IF shared THEN <<>> ELSE Tag(StringRefDomain)) \in Seq(Byte)
      BY <1>3, <3>2, Zenon
    <3>4. (IF shared THEN <<>> ELSE Tag(StringRefDomain))
             \o <<InitialByte(ArrayType, Indefinite)>> \in Seq(Byte)
      BY <3>1, <3>3, ConcatProperties, Zenon
    <3>5. QED BY <1>6, <3>4, Zenon
  <2>3. sent \in Seq(Items)
    BY <1>6, InitialSays, Zenon DEF Says
  <2>4. script \in Seq(ToSet(Strings))
    <3>1. n \in 0 .. Len(Strings) /\ Len(Strings) \in Nat
      BY <1>1, BeforeAssumption, LenProperties
    <3>2. \A i \in 1 .. n : Strings[i] \in ToSet(Strings)
      BY <1>1, <3>1, LenProperties DEF ToSet
    <3>3. SubSeq(Strings, 1, n) \in Seq(ToSet(Strings))
      BY <3>1, <3>2, SubSeqProperties
    <3>4. QED BY <1>6, <3>3, Zenon
  <2>5. QED BY <1>1, <1>4, <2>1, <2>2, <2>3, <2>4, Zenon DEF EncoderInv
<1>7. QED BY <1>5, <1>6, Zenon DEF Init

LEMMA ItemRight ==
    ASSUME NEW bytes, NEW token, Says(bytes, <<token>>, heard), EncoderInv,
           Item(bytes, token) \/ Scalar(bytes, token)
    PROVE  Right
  BY SaysRight, Zenon DEF Item, Scalar

LEMMA OpensRight ==
    ASSUME NEW bytes, NEW tokens, NEW due, NEW strings,
           Says(bytes, tokens, heard), EncoderInv,
           Opens(bytes, tokens, due, strings), UNCHANGED <<domain, heard>>
    PROVE  Right
  BY SaysRight, Zenon DEF Opens

LEMMA ScalarsRight ==
    ASSUME EncoderInv, NEW n \in Numbers,
           UnsignedItem(n) \/ SignedItem(n) \/ Float(n) \/ Double(n)
    PROVE  Right
<1>1. n \in Number
  BY NumbersAssumption, Zenon DEF Number
<1>2. Complement(n) \in Number
  <2>1. \A i \in 1 .. 8 : n[i] \in 0 .. 255
    BY <1>1 DEF Number, Byte
  <2>2. \A x \in 0 .. 255 : 255 - x \in 0 .. 255
    BY SMT
  <2>3. QED BY <2>1, <2>2, ZenonT(60) DEF Complement, Number, Byte
<1>3. CASE UnsignedItem(n)
  BY <1>1, <1>3, NumberSays, ItemRight, Zenon DEF UnsignedItem
<1>4. CASE SignedItem(n)
  <2>1. CASE n[1] >= 128
    <3>1. Scalar(SendItem(NegativeInt, Complement(n)), <<"nint", Complement(n)>>)
      BY <1>4, <2>1, Zenon DEF SignedItem, SignedInt
    <3>2. QED BY <1>2, <3>1, NumberSays, ItemRight, Zenon
  <2>2. CASE ~ (n[1] >= 128)
    <3>1. Scalar(SendItem(UnsignedInt, n), <<"uint", n>>)
      BY <1>4, <2>2, Zenon DEF SignedItem, SignedInt
    <3>2. QED BY <1>1, <3>1, NumberSays, ItemRight, Zenon
  <2>3. QED BY <2>1, <2>2, Zenon
<1>5. CASE Float(n)
  BY <1>1, <1>5, FloatsSay, ItemRight, Zenon DEF Float
<1>6. CASE Double(n)
  BY <1>1, <1>6, FloatsSay, ItemRight, Zenon DEF Double
<1>7. QED BY <1>3, <1>4, <1>5, <1>6, Zenon

LEMMA SimplesRight ==
    ASSUME EncoderInv, (\E b \in {0, 1} : Bool(b)) \/ Null \/ Undefined
    PROVE  Right
<1>1. PICK value \in 20 .. 23 : Simple(value)
  <2>1. 20 \in 20 .. 23 /\ 21 \in 20 .. 23 /\ 22 \in 20 .. 23 /\ 23 \in 20 .. 23
    BY SMT
  <2>2. QED BY <2>1, Zenon DEF Bool, Null, Undefined
<1>2. Scalar(SendSimple(value), <<"simple", <<value>>>>)
  BY <1>1, Zenon DEF Simple
<1>3. Says(SendSimple(value), <<<<"simple", <<value>>>>>>, heard)
  BY InitialSays, Zenon
<1>4. QED BY <1>2, <1>3, ItemRight, Zenon

LEMMA StringsRight ==
    ASSUME EncoderInv, NEW s \in Sample \cup ToSet(script), NEW type \in StringTypes,
           StringItem(type, s) \/ StringRefItem(type, s)
    PROVE  Right
<1>1. s \in ToSet(Strings) \cup Others
  <2>1. script \in Seq(ToSet(Strings))
    BY Zenon DEF EncoderInv
  <2>2. ToSet(script) \subseteq ToSet(Strings)
    <3>1. \A i \in DOMAIN script : script[i] \in ToSet(Strings)
      BY <2>1, ElementOfSeq, LenProperties
    <3>2. QED BY <3>1, Zenon DEF ToSet
  <2>3. QED BY <2>2, SampleAssumption, Zenon
<1>2. s \in Seq(Byte) /\ Countable(Len(s))
  BY <1>1, StringParts, Zenon
<1>3. CASE StringItem(type, s)
  <2>1. Says(Literal(type, s), <<Text(type, s)>>, heard)
    <3>1. Literal(type, s) \in Seq(Byte) /\ Literal(type, s) # <<>> /\ Text(type, s) \in Items
          /\ Meaning(Literal(type, s), heard) = <<Text(type, s)>>
      BY <1>2, StringRead, Zenon
    <3>2. <<Text(type, s)>> \in Seq(Items)
      BY <3>1
    <3>3. QED BY <3>1, <3>2, Zenon DEF Says
  <2>2. QED BY <1>3, <2>1, ItemRight, Zenon DEF StringItem
<1>4. CASE StringRefItem(type, s)
  <2> DEFINE r == EmitReference(domain, type, s)
  <2>1. /\ domain.live /\ Sends(r.bytes, <<Text(type, s)>>)
        /\ domain' = r.domain /\ heard' = Indexed(r.bytes, heard, domain.shared)
    BY <1>4, Zenon DEF StringRefItem, MayRefer
  <2>2. Arranged(domain) /\ Knows(heard, domain)
    BY Zenon DEF EncoderInv
  <2>3. /\ Arranged(r.domain)
        /\ \E after : /\ Sent(r.bytes, type, s, heard, domain.shared, after)
                      /\ Knows(after, r.domain)
    BY <1>1, <2>1, <2>2, EmitReferenceSays, Zenon
  <2> HIDE DEF r
  <2>4. /\ r.bytes \in Seq(Byte) /\ <<Text(type, s)>> \in Seq(Items)
        /\ AsMeant(r.bytes, <<Text(type, s)>>, heard)
        /\ Knows(heard', r.domain)
    BY <2>1, <2>2, <2>3, Zenon DEF Sent
  <2>5. /\ put' \in Seq(Byte) /\ sent' \in Seq(Items)
        /\ script' \in Seq(ToSet(Strings))
        /\ Streams(out', put')
        /\ New(put', put) = r.bytes /\ New(sent', sent) = <<Text(type, s)>>
    BY <2>1, <2>4, SendsKeeps, Zenon
  <2>6. EncoderInv'
    <3>1. Arranged(domain)' /\ Knows(heard, domain)'
      <4>1. Arranged(domain)' <=> Arranged(domain')
        BY Zenon DEF Arranged
      <4>2. Knows(heard, domain)' <=> Knows(heard', domain')
        BY Zenon DEF Knows
      <4>3. QED BY <2>1, <2>3, <2>4, <4>1, <4>2, Zenon
    <3>2. QED BY <2>5, <3>1, Zenon DEF EncoderInv
  <2>7. QED BY <2>4, <2>5, <2>6, Zenon DEF Right
<1>5. QED BY <1>3, <1>4, Zenon

LEMMA TagsRight ==
    ASSUME EncoderInv, NEW n, Countable(n), n \notin Tags, TagItem(n)
    PROVE  Right
<1>1. Says(Tag(n), <<<<"tag", Count(n)>>>>, heard)
  BY TagSays, Zenon
<1>2. Opens(Tag(n), <<<<"tag", Count(n)>>>>, 1, "outer") /\ UNCHANGED <<domain, heard>>
  BY Zenon DEF TagItem
<1>3. QED BY <1>1, <1>2, OpensRight, Zenon

LEMMA ContainersRight ==
    ASSUME EncoderInv,
           \/ \E n \in 0 .. 2 : ArrayLength(n) \/ MapLength(n)
           \/ ArrayStart \/ MapStart \/ End \/ NullDomain
    PROVE  Right
<1>2. ASSUME NEW n \in 0 .. 2 PROVE Count(n) \in Number
  <2>1. Countable(n)
    BY SMT DEF Countable
  <2>2. QED BY <2>1, CountParts, Zenon
<1>3. ASSUME NEW n \in 0 .. 2, ArrayLength(n) PROVE Right
  <2>1. Says(SendItem(ArrayType, Count(n)), <<<<"array", Count(n)>>>>, heard)
    BY <1>2, NumberSays, Zenon
  <2>2. CASE n = 0
    BY <1>3, <2>1, <2>2, ItemRight, Zenon DEF ArrayLength
  <2>3. CASE n # 0
    BY <1>3, <2>1, <2>3, OpensRight, Zenon DEF ArrayLength
  <2>4. QED BY <2>2, <2>3, Zenon
<1>4. ASSUME NEW n \in 0 .. 2, MapLength(n) PROVE Right
  <2>1. Says(SendItem(MapType, Count(n)), <<<<"map", Count(n)>>>>, heard)
    BY <1>2, NumberSays, Zenon
  <2>2. CASE n = 0
    BY <1>4, <2>1, <2>2, ItemRight, Zenon DEF MapLength
  <2>3. CASE n # 0
    BY <1>4, <2>1, <2>3, OpensRight, Zenon DEF MapLength
  <2>4. QED BY <2>2, <2>3, Zenon
<1>5. CASE ArrayStart
  BY <1>5, InitialSays, OpensRight, Zenon DEF ArrayStart
<1>6. CASE MapStart
  BY <1>6, InitialSays, OpensRight, Zenon DEF MapStart
<1>7. CASE End
  BY <1>7, InitialSays, SaysRight, Zenon DEF End
<1>8. CASE NullDomain
  BY <1>8, DomainSays, OpensRight, Zenon DEF NullDomain
<1>9. QED BY <1>3, <1>4, <1>5, <1>6, <1>7, <1>8, Zenon

LEMMA DomainsRight ==
    ASSUME EncoderInv, NewStringRefDomain \/ SharedValueDomain
    PROVE  Right
<1>1. /\ put \in Seq(Byte) /\ sent \in Seq(Items) /\ script \in Seq(ToSet(Strings))
      /\ Streams(out, put) /\ Knows(heard, domain)
      /\ domain.strings \in Seq(Seq(Byte)) /\ Len(domain.strings) = Len(Strings)
      /\ ToSet(domain.strings) = ToSet(Strings) /\ IsInjective(domain.strings)
  BY DEF EncoderInv, Arranged, Domains
<1>2. ASSUME NEW shared \in BOOLEAN, domain' = Domain(domain.strings, shared), heard' = <<>>
      PROVE  Arranged(domain)' /\ Knows(heard, domain)'
  <2>1. domain' = [strings |-> domain.strings, emitted |-> 0, shared |-> shared,
                   live |-> TRUE]
    BY <1>2, Zenon DEF Domain
  <2> DEFINE d == domain'
             strings == domain.strings
             live == TRUE
  <2>2. /\ d = [strings |-> strings, emitted |-> 0, shared |-> shared, live |-> live]
        /\ strings \in Seq(Seq(Byte)) /\ Len(strings) = Len(Strings)
        /\ ToSet(strings) = ToSet(Strings) /\ IsInjective(strings) /\ live \in BOOLEAN
    BY <1>1, <2>1, Zenon
  <2> HIDE DEF d, strings, live
  <2>3. Arranged(d) /\ Knows(<<>>, d)
    BY <2>2, DomainStarts
  <2>4. /\ Arranged(domain)' <=> Arranged(domain')
        /\ Knows(heard, domain)' <=> Knows(heard', domain')
    BY Zenon DEF Arranged, Knows
  <2>5. QED BY <1>2, <2>3, <2>4, Zenon DEF d
<1>3. CASE NewStringRefDomain
  <2>1. /\ Sends(Tag(StringRefDomain), <<>>)
        /\ domain' = Domain(domain.strings, FALSE) /\ heard' = <<>>
    BY <1>3, Zenon DEF NewStringRefDomain, Opens
  <2>2. /\ Tag(StringRefDomain) \in Seq(Byte) /\ <<>> \in Seq(Items)
        /\ Meaning(Tag(StringRefDomain), heard) = <<>>
    BY DomainSays, Zenon DEF Says
  <2>3. /\ put' \in Seq(Byte) /\ sent' \in Seq(Items)
        /\ script' \in Seq(ToSet(Strings))
        /\ Streams(out', put')
        /\ New(put', put) = Tag(StringRefDomain) /\ New(sent', sent) = <<>>
    BY <2>1, <2>2, SendsKeeps, Zenon
  <2>4. EncoderInv'
    BY <1>2, <2>1, <2>3, Zenon DEF EncoderInv
  <2>5. QED BY <2>2, <2>3, <2>4, Zenon DEF Right, AsMeant
<1>4. CASE SharedValueDomain
  <2>1. /\ ~ domain.live /\ domain' = Domain(domain.strings, TRUE)
        /\ out' = out /\ put' = put /\ sent' = sent /\ heard' = heard /\ script' = script
    BY <1>4, Zenon DEF SharedValueDomain
  <2>2. heard' = <<>>
    <3>1. heard \in Seq(Texts) /\ Len(heard) = 0
      BY <1>1, <2>1, Zenon DEF Knows
    <3>2. heard = <<>>
      BY <3>1, EmptySeq
    <3>3. QED BY <2>1, <3>2, Zenon
  <2>3. EncoderInv'
    BY <1>1, <1>2, <2>1, <2>2, Zenon DEF EncoderInv
  <2>4. QED BY <2>1, <2>3, Zenon DEF Right
<1>5. QED BY <1>3, <1>4, Zenon

LEMMA StreamerEmptied ==
    ASSUME NEW b \in Nat, NEW c, NEW t, t = [buffer |-> b, bits |-> 0, chars |-> c]
    PROVE  /\ [t EXCEPT !.chars = <<>>] \in Streamer
           /\ [t EXCEPT !.chars = <<>>].bits = 0
           /\ [t EXCEPT !.chars = <<>>].chars = <<>>
<1> DEFINE none == <<>>
<1>1. none \in Seq(0 .. 63)
  OBVIOUS
<1> HIDE DEF none
<1>2. [t EXCEPT !.chars = none] = [buffer |-> b, bits |-> 0, chars |-> none]
  OBVIOUS
<1>3. [buffer |-> b, bits |-> 0, chars |-> none] \in Streamer
  BY <1>1 DEF Streamer
<1>4. [t EXCEPT !.chars = none] \in Streamer /\ [t EXCEPT !.chars = none].bits = 0
      /\ [t EXCEPT !.chars = none].chars = none
  BY <1>2, <1>3
<1>5. QED BY <1>4, Zenon DEF none

(* Nothing of one text is left for the next.                                *)
LEMMA TerminateRight ==
    ASSUME EncoderInv, Terminate
    PROVE  Right
<1>1. /\ out \in Streamer /\ script \in Seq(ToSet(Strings)) /\ Arranged(domain)
  BY Zenon DEF EncoderInv, Streams
<1>2. /\ out' = [Terminated(out) EXCEPT !.chars = <<>>]
      /\ domain' = [domain EXCEPT !.live = FALSE]
      /\ put' = <<>> /\ sent' = <<>> /\ heard' = <<>> /\ script' = script
      /\ text = 1 /\ text' = 2
  BY Zenon DEF Terminate
<1>3. Streams(out', put')
  <2>1. PICK b, c : b \in Nat /\ Terminated(out) = [buffer |-> b, bits |-> 0, chars |-> c]
    <3>1. CASE out.bits = 0
      <4>1. out = [buffer |-> out.buffer, bits |-> 0, chars |-> out.chars]
            /\ out.buffer \in Nat
        BY <1>1, <3>1 DEF Streamer
      <4>2. QED BY <3>1, <4>1, Zenon DEF Terminated
    <3>2. CASE out.bits # 0
      <4> DEFINE b == (out.buffer * 2 ^ (6 - out.bits)) % 2 ^ 16
                 c == Append(out.chars, b % 64)
                         \o [i \in 1 .. (6 - out.bits) \div 2 |-> Padding]
      <4>1. Terminated(out) = [buffer |-> b, bits |-> 0, chars |-> c]
        BY <3>2, Zenon DEF Terminated
      <4>2. b \in Nat
        <5>1. out.bits \in {2, 4} /\ out.buffer \in Nat
          BY <1>1, <3>2 DEF Streamer
        <5>2. QED BY <5>1, SMT
      <4> HIDE DEF b, c
      <4>3. QED BY <4>1, <4>2, Zenon
    <3>3. QED BY <3>1, <3>2, Zenon
  <2>2. out' \in Streamer /\ out'.bits = 0 /\ out'.chars = <<>>
    <3> DEFINE t == Terminated(out)
    <3>1. b \in Nat /\ t = [buffer |-> b, bits |-> 0, chars |-> c]
      BY <2>1, Zenon
    <3>2. out' = [t EXCEPT !.chars = <<>>]
      BY <1>2, Zenon
    <3> HIDE DEF t
    <3>3. QED BY <3>1, <3>2, StreamerEmptied, Zenon
  <2>3. Streams(out', <<>>)
    BY <2>2, StreamsEmpty, Zenon
  <2>4. QED BY <1>2, <2>3, Zenon
<1>4. Arranged(domain') /\ domain'.live = FALSE
  <2>1. /\ domain'.strings = domain.strings /\ domain'.emitted = domain.emitted
        /\ domain'.live = FALSE /\ domain' \in Domains
    BY <1>1, <1>2 DEF Arranged, Domains
  <2>2. QED BY <1>1, <2>1, Zenon DEF Arranged
<1>5. Arranged(domain)' /\ Knows(heard, domain)'
  <2>1. /\ Arranged(domain)' <=> Arranged(domain')
        /\ Knows(heard, domain)' <=> Knows(heard', domain')
    BY Zenon DEF Arranged, Knows
  <2>2. <<>> \in Seq(Texts) /\ Len(<<>>) = 0 /\ 1 .. Len(<<>>) = {}
    OBVIOUS
  <2>3. Knows(<<>>, domain')
    <3>1. Len(<<>>) = IF domain'.live THEN domain'.emitted ELSE 0
      BY <1>4, <2>2
    <3>2. \A i \in 1 .. Len(<<>>) : <<>>[i][2] = domain'.strings[i]
      BY <2>2, Zenon
    <3>3. QED BY <2>2, <3>1, <3>2, Zenon DEF Knows
  <2>4. QED BY <1>2, <1>4, <2>1, <2>3, Zenon
<1>6. put' \in Seq(Byte) /\ sent' \in Seq(Items) /\ script' \in Seq(ToSet(Strings))
  BY <1>1, <1>2
<1>7. EncoderInv'
  BY <1>3, <1>5, <1>6, Zenon DEF EncoderInv
<1>8. text' # text
  BY <1>2
<1>9. QED BY <1>7, <1>8, Zenon DEF Right

-----------------------------------------------------------------------------
(* The theorems.                                                            *)

LEMMA EncoderNext == EncoderInv /\ Next => Right
<1> SUFFICES ASSUME EncoderInv, Next PROVE Right
  OBVIOUS
<1> DEFINE tags == {32, 55799}
<1>1. \A n \in tags : Countable(n) /\ n \notin Tags
  BY SMT DEF Countable, Tags, StringRef, SharedValue, Shareable, StringRefDomain
<1> HIDE DEF tags
<1>2. \/ \E n \in Numbers : UnsignedItem(n) \/ SignedItem(n) \/ Float(n) \/ Double(n)
      \/ (\E b \in {0, 1} : Bool(b)) \/ Null \/ Undefined
      \/ \E type \in StringTypes, s \in Sample \cup ToSet(script) :
            StringItem(type, s) \/ StringRefItem(type, s)
      \/ \E n \in tags : TagItem(n)
      \/ \E n \in 0 .. 2 : ArrayLength(n) \/ MapLength(n)
      \/ ArrayStart \/ MapStart \/ End \/ NullDomain
      \/ NewStringRefDomain \/ SharedValueDomain
      \/ Terminate
  BY SMT DEF Next, tags
<1>3. CASE \E n \in tags : TagItem(n)
  BY <1>1, <1>3, TagsRight, Zenon
<1>4. CASE (\E b \in {0, 1} : Bool(b)) \/ Null \/ Undefined
  BY <1>4, SimplesRight, Zenon
<1>5. CASE \E n \in Numbers : UnsignedItem(n) \/ SignedItem(n) \/ Float(n) \/ Double(n)
  BY <1>5, ScalarsRight, Zenon
<1>6. CASE \E type \in StringTypes, s \in Sample \cup ToSet(script) :
            StringItem(type, s) \/ StringRefItem(type, s)
  BY <1>6, StringsRight, Zenon
<1>7. CASE \/ \E n \in 0 .. 2 : ArrayLength(n) \/ MapLength(n)
           \/ ArrayStart \/ MapStart \/ End \/ NullDomain
  BY <1>7, ContainersRight, Zenon
<1>8. CASE NewStringRefDomain \/ SharedValueDomain
  BY <1>8, DomainsRight, Zenon
<1>9. CASE Terminate
  BY <1>9, TerminateRight, Zenon
<1>10. QED BY <1>2, <1>3, <1>4, <1>5, <1>6, <1>7, <1>8, <1>9, Zenon

LEMMA EncoderStutters == EncoderInv /\ UNCHANGED vars => EncoderInv' /\ put' = put
<1> SUFFICES ASSUME EncoderInv, UNCHANGED vars PROVE EncoderInv' /\ put' = put
  OBVIOUS
<1>1. /\ out' = out /\ domain' = domain /\ put' = put /\ sent' = sent
      /\ heard' = heard /\ script' = script
  BY Zenon DEF vars
<1>2. QED BY <1>1, Zenon DEF EncoderInv, Arranged, Knows

(* The inductive invariant: the characters are the sextets of the bytes     *)
(* written, the strings with an index stand first in the caller's array and *)
(* each was long enough when it got its index, and the other side, counting *)
(* by its own rule, knows just these, in that order.                        *)
THEOREM EncoderInvariant == Spec => []EncoderInv
<1>1. Init => EncoderInv
  BY EncoderInit
<1>2. EncoderInv /\ [Next]_vars => EncoderInv'
  BY EncoderNext, EncoderStutters, Zenon DEF Right
<1>3. QED BY <1>1, <1>2, PTL DEF Spec

(* Whenever base64_terminate is called, the text is of whole groups of four *)
(* characters and base64 gives back the bytes of this text, each and only   *)
(* they, whatever calls wrote them.                                         *)
THEOREM TextCorrect == Spec => []TextHolds
<1>1. EncoderInv => TextHolds
  <2> SUFFICES ASSUME EncoderInv PROVE TextHolds
    OBVIOUS
  <2>1. Streams(out, put) /\ put \in Seq(Byte)
    BY Zenon DEF EncoderInv
  <2>2. QED BY <2>1, TerminatedHolds, Zenon DEF TextHolds
<1>2. QED BY <1>1, EncoderInvariant, PTL

LEMMA InvariantPays == EncoderInv => ReferencesPay
<1> SUFFICES ASSUME EncoderInv PROVE ReferencesPay
  OBVIOUS
<1>1. Arranged(domain)
  BY Zenon DEF EncoderInv
<1>2. domain \in Domains
  BY <1>1, Zenon DEF Arranged
<1>3. Len(domain.strings) = Len(Strings) /\ ToSet(domain.strings) = ToSet(Strings)
  BY <1>1, <1>2 DEF Arranged, Domains
<1>4. QED BY <1>1, <1>3, ArrangedPays, Zenon DEF ReferencesPay

(* The caller's array is only permuted, and no string of it is given an     *)
(* index, the table of cbor64.c permitting, unless the reference is shorter *)
(* than the string: for arrays and strings of any length below 2 ^ 31.      *)
THEOREM ReferencesCorrect == Spec => []ReferencesPay
  BY EncoderInvariant, InvariantPays, PTL

(* Every call of the encoder is read as what its caller means: a number, a  *)
(* float, a string, a tag, a header, or a reference that leads to the same  *)
(* string, in a domain or among shared values, in the type, bytes or UTF-8, *)
(* in which the string got its index.                                       *)
THEOREM CallsCorrect == Spec => CallsRight
<1> DEFINE Read == text' = text /\ put' # put =>
                      AsMeant(New(put', put), New(sent', sent), heard)
<1>1. EncoderInv /\ EncoderInv' /\ [Next]_vars => [Read /\ ReferencesPay']_vars
  <2> SUFFICES ASSUME EncoderInv, EncoderInv', Next PROVE Read /\ ReferencesPay'
    BY Zenon
  <2>1. Read
    BY EncoderNext, Zenon DEF Right
  <2>2. ReferencesPay'
    BY InvariantPays, PTL
  <2>3. QED BY <2>1, <2>2, Zenon
<1>2. [][Read /\ ReferencesPay']_vars => CallsRight
  BY PTL DEF CallsRight
<1>3. QED BY <1>1, <1>2, EncoderInvariant, PTL DEF Spec

=============================================================================
