------------------------------- MODULE Checks -------------------------------
(***************************************************************************)
(* crc32 and adler32 of tools/checks.h.  A 32 bit number is the sequence   *)
(* of its bits, the lowest first, or the pair of its halves.               *)
(***************************************************************************)
EXTENDS Totals, SequencesExt

ByteBits(b) == [i \in 1..8 |-> (b \div 2 ^ (i - 1)) % 2]
Xor(x, y) == [i \in DOMAIN x |-> (x[i] + y[i]) % 2]

\* 0xedb88320
Reversed == FlattenSeq([i \in 1..4 |-> ByteBits(<<32, 131, 184, 237>>[i])])
Ones == [i \in 1..32 |-> 1]

\* one round: shift right, and xor when a 1 fell out
CrcRound(crc) ==
    LET shifted == Append(Tail(crc), 0) IN IF crc[1] = 1 THEN Xor(shifted, Reversed) ELSE shifted
CrcByte(crc, b) ==
    LET after[j \in 0..8] == IF j = 0 THEN Xor(crc, ByteBits(b) \o [i \in 1..24 |-> 0])
                             ELSE CrcRound(after[j - 1])
    IN after[8]
CrcBytes(s) ==
    LET after[k \in 0..Len(s)] == IF k = 0 THEN Ones ELSE CrcByte(after[k - 1], s[k])
    IN after[Len(s)]

\* mutant: the bits are not inverted in the end
crc32Raw(s) == CrcBytes(s)
crc32(s) == Xor(CrcBytes(s), Ones)

\* the low half, s1, and the high one, s2
adler32(s) ==
    LET after[k \in 0..Len(s)] ==
            IF k = 0 THEN <<1, 0>>
            ELSE LET a == after[k - 1]
                     s1 == (a[1] + s[k]) % 65521
                 IN <<s1, (a[2] + s1) % 65521>>
    IN after[Len(s)]
-----------------------------------------------------------------------------
(* What the formats that use them say (ISO 3309, RFC 1950) *)

\* the message as a polynomial, each byte's lowest bit first, times x^32 plus
\* 32 ones in front; divided by the polynomial of degree 32; the complement of
\* the remainder, its highest term as the lowest bit
Generator == [i \in 1..33 |-> IF i \in {1, 7, 10, 11, 17, 21, 22, 23, 25, 26, 28, 29, 31, 32, 33}
                              THEN 1 ELSE 0]
Divided(w, bit) ==
    LET v == Append(w, bit) IN IF v[1] = 1 THEN Tail(Xor(v, Generator)) ELSE Tail(v)
Remainder(bits) ==
    LET n == Len(bits) - 32
        after[t \in 0..n] == IF t = 0 THEN SubSeq(bits, 1, 32)
                             ELSE Divided(after[t - 1], bits[32 + t])
    IN after[n]
IsCrc32(crc, s) ==
    LET message == FlattenSeq([k \in DOMAIN s |-> ByteBits(s[k])]) \o [i \in 1..32 |-> 0]
        first == [i \in DOMAIN message |-> IF i <= 32 THEN 1 - message[i] ELSE message[i]]
    IN crc = Xor(Remainder(first), Ones)

\* s1 is 1 plus the sum of the bytes, s2 the sum of all s1 on the way
IsAdler32(adler, s) ==
    adler = <<(1 + SumOf(s)) % 65521,
              (Len(s) + SumOf([i \in DOMAIN s |-> (Len(s) - i + 1) * s[i]])) % 65521>>
=============================================================================
