------------------------------ MODULE Ciphers -------------------------------
(***************************************************************************)
(* The ciphers of tools/encryptions.h, character by character: rot_cipher  *)
(* turns the letters, the printable characters or all bytes by a shift,    *)
(* vigenere_cipher turns the letters by those of a key, one letter of the  *)
(* key per letter of the source.  Characters are bytes.                    *)
(***************************************************************************)
EXTENDS Integers, Sequences

\* C's remainder of a positive n: it has the sign of a
Rem(a, n) == IF a >= 0 THEN a % n ELSE -((-a) % n)

Upper(c) == 65 <= c /\ c <= 90
Lower(c) == 97 <= c /\ c <= 122
Letter(c) == Upper(c) \/ Lower(c)
\* c & 32 ? 'a' : 'A'
Case(c) == IF (c \div 32) % 2 = 1 THEN 97 ELSE 65

\* the character c of a range of n that begins at a, turned; as a byte
Turned(c, a, n, shift) == (Rem((c - a) + n + shift, n) + a) % 256

RotAlpha(c, shift) == IF Letter(c) THEN Turned(c, Case(c), 26, shift) ELSE c
\* only the digit '0' is turned
RotNum(c, shift) == IF c = 48 THEN Turned(c, 48, 10, shift) ELSE c
RotAsciipr(c, shift) == IF 33 <= c /\ c <= 126 THEN Turned(c, 33, 94, shift) ELSE c
RotAll(c, shift) == (c + shift) % 256

Rot(c, shift, target) ==
    CASE target = "ROT_ONLY_ALPHA" -> RotAlpha(c, shift)
      [] target = "ROT_ONLY_NUM" -> RotNum(c, shift)
      [] target = "ROT_ONLY_ASCIIPR" -> RotAsciipr(c, shift)
      [] OTHER -> RotAll(c, shift)
rot_cipher(source, shift, target) == [k \in DOMAIN source |-> Rot(source[k], shift, target)]

\* h, the place in a key of n characters for each of those a text has: it goes on at letters
Places(letters, n) ==
    LET h[k \in 0..Len(letters)] ==
            IF k = 0 THEN 1
            ELSE IF ~letters[k] THEN h[k - 1]
            ELSE IF h[k - 1] = n THEN 1 ELSE h[k - 1] + 1
    IN [k \in DOMAIN letters |-> h[k - 1]]
Letters(source) == [k \in DOMAIN source |-> Letter(source[k])]

\* exitf on an empty key: nothing is returned
vigenere_cipher(source, key) ==
    IF key = << >> THEN {}
    ELSE LET h == Places(Letters(source), Len(key))
         IN {[k \in DOMAIN source |->
                 IF Letter(source[k])
                 THEN Turned(source[k], Case(source[k]), 26, (key[h[k]] - 65) % 256)
                 ELSE source[k]]}

\* the key that turns every letter the rest of the way, for a key of letters
Inverse26(key) == [k \in DOMAIN key |-> 65 + ((26 - (key[k] - 65)) % 26)]
=============================================================================
