----------------------------- MODULE Encodings ------------------------------
(***************************************************************************)
(* base64 and UTF-8 as tools/encodings.h has them.  A byte, a character    *)
(* and a code point are numbers.  What may end in exitf gives a set: what  *)
(* is returned, or nothing.  That memory runs out is left out.             *)
(***************************************************************************)
EXTENDS Integers, Sequences, SequencesExt

Returns(r) == {r}
Exits == {}
-----------------------------------------------------------------------------
(* base64 *)

Equals == 61

\* the two tables; 65 is for '=', 64 for the end of a line, 66 for the other characters
to64(n) ==
    CASE n < 26 -> n + 65
      [] 26 <= n /\ n < 52 -> n + 71
      [] 52 <= n /\ n < 62 -> n - 4
      [] n = 62 -> 43
      [] OTHER -> 47
from64(c) ==
    CASE c = 10 -> 64
      [] c = 43 -> 62
      [] c = 47 -> 63
      [] 48 <= c /\ c <= 57 -> c + 4
      [] c = Equals -> 65
      [] 65 <= c /\ c <= 90 -> c - 65
      [] 97 <= c /\ c <= 122 -> c - 71
      [] OTHER -> 66

\* the 3 bytes, n, of up to 4 characters: a 7th bit falls on the sextet before it
Triple(cs) ==
    LET v(i) == IF i <= Len(cs) THEN from64(cs[i]) ELSE 0
        sextet(i) == IF v(i + 1) >= 64 /\ v(i) % 2 = 0 THEN (v(i) % 64) + 1 ELSE v(i) % 64
        n == sextet(1) * 262144 + sextet(2) * 4096 + sextet(3) * 64 + sextet(4)
    IN <<n \div 65536, (n \div 256) % 256, n % 256>>

b64_decode(source) ==
    LET len == Len(source)
        pad == IF source[len - 1] = Equals THEN 2 ELSE IF source[len] = Equals THEN 1 ELSE 0
        group(k) == SubSeq(source, 4 * k - 3, 4 * k)
        whole == FlattenSeq([k \in 1..(((len \div 4) * 3 - pad) \div 3) |-> Triple(group(k))])
        last == SubSeq(Triple(SubSeq(group(len \div 4), 1, 4 - pad)), 1, 3 - pad)
    IN IF \/ len = 0 \/ len % 4 # 0
          \/ \E k \in 1..len : from64(source[k]) = 66
          \/ source[len - 2] = Equals
       THEN Exits
       ELSE Returns(IF pad = 0 THEN whole ELSE whole \o last)

\* the 4 characters of 3 bytes
Quad(bytes) ==
    LET n == bytes[1] * 65536 + bytes[2] * 256 + bytes[3]
    IN <<to64(n \div 262144), to64((n \div 4096) % 64), to64((n \div 64) % 64), to64(n % 64)>>

b64_encode(source) ==
    LET pad == (3 - (Len(source) % 3)) % 3
        all == source \o [i \in 1..pad |-> 0]
        r == FlattenSeq([k \in 1..(Len(all) \div 3) |-> Quad(SubSeq(all, 3 * k - 2, 3 * k))])
    IN SubSeq(r, 1, Len(r) - pad) \o [i \in 1..pad |-> Equals]
-----------------------------------------------------------------------------
(* UTF-8 *)

Has(b, mask) == (b \div mask) % 2 = 1

\* how many bytes follow the byte at k: nothing where the code exits
Following(source, k) ==
    LET b == source[k]
        left == Len(source) - k
    IN CASE ~Has(b, 128) -> {0}
         [] Has(b, 128) /\ ~Has(b, 32) /\ left >= 1 -> {1}
         [] Has(b, 128) /\ Has(b, 32) /\ ~Has(b, 16) /\ left >= 2 -> {2}
         [] Has(b, 128) /\ Has(b, 32) /\ Has(b, 16) /\ ~Has(b, 8) /\ left >= 3 -> {3}
         [] OTHER -> {}

\* the code point of the byte at k and the n that follow
CodePoint(source, k, n) ==
    LET x(i) == source[k + i] % 64
    IN CASE n = 0 -> source[k]
         [] n = 1 -> (source[k] % 32) * 64 + x(1)
         [] n = 2 -> ((source[k] % 16) * 64 + x(1)) * 64 + x(2)
         [] n = 3 -> (((source[k] % 8) * 64 + x(1)) * 64 + x(2)) * 64 + x(3)

\* one turn of the loop from c, where to read and what was read: at the end, none
Turn(source, c) ==
    IF c.k > Len(source) THEN {c}
    ELSE {[k |-> c.k + n + 1, r |-> Append(c.r, CodePoint(source, c.k, n))] :
             n \in Following(source, c.k)}
utf8_decode(source) ==
    LET after[i \in 0..Len(source)] ==
            IF i = 0 THEN {[k |-> 1, r |-> << >>]}
            ELSE UNION {Turn(source, c) : c \in after[i - 1]}
    IN {c.r : c \in after[Len(source)]}

\* the bytes of a code point, which is cut to 22 bits
Character(val) ==
    LET v1 == val \div 64
        v2 == v1 \div 64
        v3 == v2 \div 64
    IN IF val < 128 THEN <<val>>
       ELSE IF v1 < 32 THEN <<192 + v1, 128 + (val % 64)>>
       ELSE IF v2 < 16 THEN <<224 + v2, 128 + (v1 % 64), 128 + (val % 64)>>
       ELSE <<240 + (v3 % 16), 128 + (v2 % 64), 128 + (v1 % 64), 128 + (val % 64)>>
utf8_encode(source) == FlattenSeq([k \in DOMAIN source |-> Character(source[k])])
-----------------------------------------------------------------------------
(* What RFC 4648 and RFC 3629 say, in bits, the highest first *)

Bit(b, n) == (b \div 2 ^ n) % 2
BitsOf(n, width) == [i \in 1..width |-> Bit(n, width - i)]
AllBits(ns, width) == FlattenSeq([k \in DOMAIN ns |-> BitsOf(ns[k], width)])

\* the letters, small letters, digits, plus and slash
Alphabet == [i \in 1..26 |-> 64 + i] \o [i \in 1..26 |-> 96 + i]
            \o [i \in 1..10 |-> 47 + i] \o <<43, 47>>

\* the place of a character among them, from 0
PlaceOf(c) == CHOOSE v \in 0..63 : Alphabet[v + 1] = c

\* characters of the alphabet spell the source's bits, then zeros, and no character
\* is more than it takes; padding makes the characters a number of quads
IsBase64(text, source) ==
    \E pad \in 0..3 :
       LET chars == SubSeq(text, 1, Len(text) - pad)
           bits == AllBits([i \in DOMAIN chars |-> PlaceOf(chars[i])], 6)
           n == 8 * Len(source)
       IN /\ \A i \in DOMAIN chars : \E v \in DOMAIN Alphabet : chars[i] = Alphabet[v]
          /\ SubSeq(bits, 1, n) = AllBits(source, 8)
          /\ Len(bits) - n < 6 /\ \A i \in (n + 1)..Len(bits) : bits[i] = 0
          /\ text = chars \o [i \in 1..pad |-> Equals]
          /\ Len(text) % 4 = 0

\* as many leading ones as bytes, when more than one, a zero, and 10 before the
\* others' bits; no character is longer than it must be
LayoutOfUtf8(bytes, val) ==
    LET n == Len(bytes)
        ones == IF n = 1 THEN << >> ELSE [i \in 1..n |-> 1]
        head == Append(ones, 0)
        bits == [k \in 1..n |-> BitsOf(bytes[k], 8)]
        payload == SubSeq(bits[1], Len(head) + 1, 8)
                   \o FlattenSeq([k \in 1..(n - 1) |-> SubSeq(bits[k + 1], 3, 8)])
    IN /\ SubSeq(bits[1], 1, Len(head)) = head
       /\ \A k \in 2..n : SubSeq(bits[k], 1, 2) = <<1, 0>>
       /\ payload = BitsOf(val, Len(payload))
       /\ \A m \in 1..(n - 1) : val >= (IF m = 1 THEN 2 ^ 7 ELSE 2 ^ (5 * m + 1))

\* the code points that UTF-8 is for: no surrogates, and none above U+10FFFF
ScalarValue(val) == val <= 1114111 /\ ~(55296 <= val /\ val <= 57343)

\* the grammar of one character in RFC 3629
IsUtf8(bytes) ==
    LET n == Len(bytes)
        one == bytes[1]
        two == bytes[2]
    IN \/ n = 1 /\ one <= 127
       \/ /\ n \in 2..4
          /\ \A k \in 2..n : 128 <= bytes[k] /\ bytes[k] <= 191
          /\ \/ n = 2 /\ 194 <= one /\ one <= 223
             \/ n = 3 /\ 224 <= one /\ one <= 239 /\ (one = 224 => two >= 160) /\ (one = 237 => two <= 159)
             \/ n = 4 /\ 240 <= one /\ one <= 244 /\ (one = 240 => two >= 144) /\ (one = 244 => two <= 143)
=============================================================================
